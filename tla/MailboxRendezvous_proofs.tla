--------------------- MODULE MailboxRendezvous_proofs ---------------------
(***************************************************************************)
(* Proofs of the rendezvous side of MailboxServer: who is subscribed, and  *)
(* which mailboxes and nameplates exist while a client relies on them.     *)
(***************************************************************************)
EXTENDS MailboxServer_proofs

\* What each action does to the fields of client_state.
LEMMA ClientFields ==
    ASSUME TypeOK, NEW c \in Conns
    PROVE  /\ Bind(c) => \A e \in Conns :
                /\ conn'[e].side \in SidesOf[e] \cup {conn[e].side}
                /\ conn'[e].mailbox = conn[e].mailbox
                /\ conn'[e].nameplate = conn[e].nameplate
                /\ conn'[e].told = conn[e].told
           /\ \A n, np : ClaimAs(c, n, np) => \A e \in Conns :
                /\ conn'[e].side = conn[e].side
                /\ conn'[e].mailbox = conn[e].mailbox
                /\ e # c => conn'[e] = conn[e]
                /\ e = c => conn'[e].nameplate = n /\ conn'[e].told = np.mailbox
           /\ \A n : Release(c, n) => \A e \in Conns :
                /\ conn'[e].side = conn[e].side
                /\ conn'[e].mailbox = conn[e].mailbox
                /\ e # c => conn'[e] = conn[e]
                /\ e = c => conn'[e].nameplate = None /\ conn'[e].told = None
           /\ \A b : Open(c, b) => \A e \in Conns :
                /\ conn'[e].side = conn[e].side
                /\ conn'[e].mailbox = IF e = c THEN b ELSE conn[e].mailbox
                /\ conn'[e].nameplate = conn[e].nameplate
                /\ conn'[e].told = conn[e].told
           /\ Close(c) => \A e \in Conns :
                /\ conn'[e].side = conn[e].side
                /\ conn'[e].mailbox = IF e = c THEN None ELSE conn[e].mailbox
                /\ conn'[e].nameplate = conn[e].nameplate
                /\ conn'[e].told = conn[e].told
           /\ TaskEnds(c) => \A e \in Conns :
                /\ e # c => conn'[e] = conn[e]
                /\ e = c => /\ conn'[e].side = None /\ conn'[e].mailbox = None
                            /\ conn'[e].nameplate = None /\ conn'[e].told = None
<1>1. conn \in [Conns -> ClientState] /\ conn[c] \in ClientState
  BY DEF TypeOK
<1>2. /\ \A s : /\ [conn[c] EXCEPT !.side = s].side = s
                /\ [conn[c] EXCEPT !.side = s].mailbox = conn[c].mailbox
                /\ [conn[c] EXCEPT !.side = s].nameplate = conn[c].nameplate
                /\ [conn[c] EXCEPT !.side = s].told = conn[c].told
      /\ \A n, t : LET r == [conn[c] EXCEPT !.nameplate = n, !.told = t]
                   IN  /\ r.side = conn[c].side /\ r.mailbox = conn[c].mailbox
                       /\ r.nameplate = n /\ r.told = t
      /\ \A b : LET r == [conn[c] EXCEPT !.mailbox = b]
                IN  /\ r.side = conn[c].side /\ r.mailbox = b
                    /\ r.nameplate = conn[c].nameplate /\ r.told = conn[c].told
  BY <1>1 DEF ClientState
<1>3. Bind(c) => \A e \in Conns :
         /\ conn'[e].side \in SidesOf[e] \cup {conn[e].side}
         /\ conn'[e].mailbox = conn[e].mailbox
         /\ conn'[e].nameplate = conn[e].nameplate
         /\ conn'[e].told = conn[e].told
  <2> SUFFICES ASSUME Bind(c) PROVE \A e \in Conns :
         /\ conn'[e].side \in SidesOf[e] \cup {conn[e].side}
         /\ conn'[e].mailbox = conn[e].mailbox
         /\ conn'[e].nameplate = conn[e].nameplate
         /\ conn'[e].told = conn[e].told
    OBVIOUS
  <2>1. PICK s \in SidesOf[c] : conn' = [conn EXCEPT ![c].side = s]
    BY DEF Bind
  <2> QED BY <1>2, <1>1, <2>1
<1>4. \A n, np : ClaimAs(c, n, np) => \A e \in Conns :
         /\ conn'[e].side = conn[e].side
         /\ conn'[e].mailbox = conn[e].mailbox
         /\ e # c => conn'[e] = conn[e]
         /\ e = c => conn'[e].nameplate = n /\ conn'[e].told = np.mailbox
  <2> SUFFICES ASSUME NEW n, NEW np, ClaimAs(c, n, np) PROVE  \A e \in Conns :
               /\ conn'[e].side = conn[e].side
               /\ conn'[e].mailbox = conn[e].mailbox
               /\ e # c => conn'[e] = conn[e]
               /\ e = c => conn'[e].nameplate = n /\ conn'[e].told = np.mailbox
    OBVIOUS
  <2>1. conn' = [conn EXCEPT ![c].nameplate = n, ![c].told = np.mailbox]
    BY DEF ClaimAs
  <2> QED BY <1>2, <1>1, <2>1
<1>5. \A n : Release(c, n) => \A e \in Conns :
         /\ conn'[e].side = conn[e].side
         /\ conn'[e].mailbox = conn[e].mailbox
         /\ e # c => conn'[e] = conn[e]
         /\ e = c => conn'[e].nameplate = None /\ conn'[e].told = None
  <2> SUFFICES ASSUME NEW n, Release(c, n) PROVE  \A e \in Conns :
               /\ conn'[e].side = conn[e].side
               /\ conn'[e].mailbox = conn[e].mailbox
               /\ e # c => conn'[e] = conn[e]
               /\ e = c => conn'[e].nameplate = None /\ conn'[e].told = None
    OBVIOUS
  <2>1. conn' = [conn EXCEPT ![c].nameplate = None, ![c].told = None]
    BY DEF Release
  <2> QED BY <1>2, <1>1, <2>1
<1>6. \A b : Open(c, b) => \A e \in Conns :
         /\ conn'[e].side = conn[e].side
         /\ conn'[e].mailbox = IF e = c THEN b ELSE conn[e].mailbox
         /\ conn'[e].nameplate = conn[e].nameplate
         /\ conn'[e].told = conn[e].told
  <2> SUFFICES ASSUME NEW b, Open(c, b) PROVE  \A e \in Conns :
               /\ conn'[e].side = conn[e].side
               /\ conn'[e].mailbox = IF e = c THEN b ELSE conn[e].mailbox
               /\ conn'[e].nameplate = conn[e].nameplate
               /\ conn'[e].told = conn[e].told
    OBVIOUS
  <2>1. conn' = [conn EXCEPT ![c].mailbox = b]
    BY DEF Open
  <2> QED BY <1>2, <1>1, <2>1
<1>7. Close(c) => \A e \in Conns :
         /\ conn'[e].side = conn[e].side
         /\ conn'[e].mailbox = IF e = c THEN None ELSE conn[e].mailbox
         /\ conn'[e].nameplate = conn[e].nameplate
         /\ conn'[e].told = conn[e].told
  <2> SUFFICES ASSUME Close(c) PROVE  \A e \in Conns :
               /\ conn'[e].side = conn[e].side
               /\ conn'[e].mailbox = IF e = c THEN None ELSE conn[e].mailbox
               /\ conn'[e].nameplate = conn[e].nameplate
               /\ conn'[e].told = conn[e].told
    OBVIOUS
  <2>1. conn' = [conn EXCEPT ![c].mailbox = None]
    BY DEF Close
  <2> QED BY <1>2, <1>1, <2>1
<1>8. TaskEnds(c) => \A e \in Conns :
         /\ e # c => conn'[e] = conn[e]
         /\ e = c => /\ conn'[e].side = None /\ conn'[e].mailbox = None
                     /\ conn'[e].nameplate = None /\ conn'[e].told = None
  <2> SUFFICES ASSUME TaskEnds(c) PROVE  \A e \in Conns :
               /\ e # c => conn'[e] = conn[e]
               /\ e = c => /\ conn'[e].side = None /\ conn'[e].mailbox = None
                           /\ conn'[e].nameplate = None /\ conn'[e].told = None
    OBVIOUS
  <2>1. conn' = [conn EXCEPT ![c] = NewClient]
    BY DEF TaskEnds, Finally
  <2> QED BY <1>2, <1>1, <2>1 DEF NewClient
<1> QED BY <1>3, <1>4, <1>5, <1>6, <1>7, <1>8

\* The steps that leave client_state alone.
Unbound(c) ==
    \/ Connect(c) \/ Reply(c) \/ Hangup(c) \/ Query(c) \/ Allocate(c)
    \/ Replay(c) \/ AddRefused(c) \/ Add(c) \/ \E d \in Conns : Notify(c, d)

LEMMA UnboundClients == \A c \in Conns : Unbound(c) => UNCHANGED conn
  BY DEF Unbound, Connect, Reply, Hangup, Query, Allocate, Replay, AddRefused, Add,
     Notify

\* A side is its connection's own, whatever it binds and however often.
LEMMA StepSideBound ==
    TypeOK /\ SideBound /\ [Next]_vars => SideBound'
<1> SUFFICES ASSUME TypeOK, SideBound, [Next]_vars PROVE SideBound'
  OBVIOUS
<1>1. CASE UNCHANGED conn
  BY <1>1 DEF SideBound, OwnSides
<1>2. ASSUME NEW c \in Conns, Bind(c) PROVE SideBound'
  BY <1>2, ClientFields DEF SideBound, OwnSides
<1>3. ASSUME NEW c \in Conns, NEW n \in NameplateIds, Claim(c, n) PROVE SideBound'
  <2>1. PICK np : ClaimAs(c, n, np)
    BY <1>3 DEF Claim
  <2> QED BY <2>1, ClientFields DEF SideBound, OwnSides
<1>4. ASSUME NEW c \in Conns, NEW n \in NameplateIds \cup {None}, Release(c, n)
      PROVE SideBound'
  BY <1>4, ClientFields DEF SideBound, OwnSides
<1>5. ASSUME NEW c \in Conns, NEW b \in Boxes, Open(c, b) PROVE SideBound'
  BY <1>5, ClientFields DEF SideBound, OwnSides
<1>6. ASSUME NEW c \in Conns, Close(c) PROVE SideBound'
  BY <1>6, ClientFields DEF SideBound, OwnSides
<1>7. ASSUME NEW c \in Conns, TaskEnds(c) PROVE SideBound'
  BY <1>7, ClientFields DEF SideBound, OwnSides
<1>8. CASE Stop \/ UNCHANGED vars
  BY <1>1, <1>8 DEF Stop, vars
<1> QED
  BY <1>1, <1>2, <1>3, <1>4, <1>5, <1>6, <1>7, <1>8, UnboundClients DEF Next, Unbound

----------------------------------------------------------------------------
(* Open mailboxes exist.                                                   *)

\* No mailbox is deleted and none loses a side.
SidesKept ==
    \A b \in DOMAIN mailboxes :
        b \in DOMAIN mailboxes' /\ mailboxes[b].sides \subseteq mailboxes'[b].sides

LEMMA AddKeeps == \A c \in Conns : TypeOK /\ Add(c) => SidesKept
<1> SUFFICES ASSUME TypeOK, NEW c \in Conns, Add(c) PROVE SidesKept
  OBVIOUS
<1>1. PICK b \in DOMAIN mailboxes :
        mailboxes' = [mailboxes EXCEPT ![b].messages = @ \cup {nextMsg}]
  BY DEF Add
<1>2. mailboxes \in [DOMAIN mailboxes -> Mailbox]
  BY DEF TypeOK
<1>3. [mailboxes[b] EXCEPT !.messages = @ \cup {nextMsg}].sides = mailboxes[b].sides
  BY <1>2 DEF Mailbox
<1> QED BY <1>1, <1>2, <1>3 DEF SidesKept

\* A new mailbox has an id that no other has.
LEMMA FreshKeeps ==
    ASSUME TypeOK, NEW b \in Boxes \ usedBoxes, mailboxes' = Put(mailboxes, b, NewMailbox)
    PROVE  SidesKept
<1>1. b \notin DOMAIN mailboxes
  BY DEF TypeOK
<1> QED BY <1>1 DEF SidesKept, Put

LEMMA OpenKeeps ==
    ASSUME TypeOK, NEW c \in Conns, NEW b \in Boxes, Open(c, b)
    PROVE  /\ SidesKept
           /\ b \in DOMAIN mailboxes' /\ conn[c].side \in mailboxes'[b].sides
<1>1. BoxNow(b) \in Mailbox
  BY DEF TypeOK, BoxNow, NewMailbox, Mailbox
<1> DEFINE mb == [BoxNow(b) EXCEPT !.sides = @ \cup {conn[c].side}]
<1>2. mb.sides = BoxNow(b).sides \cup {conn[c].side}
  BY <1>1 DEF Mailbox
<1>3. mailboxes' = Put(mailboxes, b, mb)
  BY DEF Open
<1> HIDE DEF mb
<1> QED BY <1>2, <1>3 DEF SidesKept, Put, BoxNow

LEMMA KeepMailboxes ==
    ASSUME MailboxHeld, SidesKept,
           \A c \in Conns : conn'[c].mailbox \in {conn[c].mailbox, None}
    PROVE  MailboxHeld'
<1> SUFFICES ASSUME NEW c \in Conns, conn'[c].mailbox # None
             PROVE  /\ conn'[c].mailbox \in DOMAIN mailboxes'
                    /\ mailboxes'[conn'[c].mailbox].sides \cap OwnSides(c) # {}
  BY DEF MailboxHeld, OwnSides
<1>1. conn'[c].mailbox = conn[c].mailbox
  OBVIOUS
<1>2. /\ conn[c].mailbox \in DOMAIN mailboxes
      /\ mailboxes[conn[c].mailbox].sides \cap OwnSides(c) # {}
  BY <1>1 DEF MailboxHeld
<1> QED BY <1>1, <1>2 DEF SidesKept

\* Closing discards one side of one mailbox, that of the client that closes:
\* what remains of the others' sides keeps their mailboxes.
LEMMA CloseKeepsOthers ==
    ASSUME TypeOK, PrivateSides, SideBound, MailboxHeld, NEW c \in Conns, Close(c)
    PROVE  MailboxHeld'
<1> DEFINE b == conn[c].mailbox
           left == DiscardSide(mailboxes[b].sides, conn[c].side)
<1> SUFFICES ASSUME NEW d \in Conns, conn'[d].mailbox # None
             PROVE  /\ conn'[d].mailbox \in DOMAIN mailboxes'
                    /\ mailboxes'[conn'[d].mailbox].sides \cap OwnSides(d) # {}
  BY DEF MailboxHeld, OwnSides
<1>1. d # c /\ conn'[d].mailbox = conn[d].mailbox
  BY ClientFields
<1>2. /\ conn[d].mailbox \in DOMAIN mailboxes
      /\ mailboxes[conn[d].mailbox].sides \cap OwnSides(d) # {}
  BY <1>1 DEF MailboxHeld
<1>3. mailboxes \in [DOMAIN mailboxes -> Mailbox]
  BY DEF TypeOK
<1>4. CASE UNCHANGED mailboxes
  BY <1>1, <1>2, <1>4
<1>5. CASE b \in DOMAIN mailboxes /\ CloseSide(b, conn[c].side)
  <2>1. conn[c].side # None => conn[c].side \notin OwnSides(d)
    BY <1>1, SidesAssumption, NoneAssumption DEF SideBound, OwnSides, PrivateSides
  <2>2. conn[d].mailbox = b => left \cap OwnSides(d) # {}
    BY <1>2, <2>1 DEF DiscardSide
  <2>3. \/ left = {} /\ mailboxes' = Del(mailboxes, b)
        \/ mailboxes' = Put(mailboxes, b, [mailboxes[b] EXCEPT !.sides = left])
    BY <1>5 DEF CloseSide
  <2>4. [mailboxes[b] EXCEPT !.sides = left].sides = left
    BY <1>3, <1>5 DEF Mailbox
  <2> HIDE DEF left, b
  <2>5. CASE left = {} /\ mailboxes' = Del(mailboxes, b)
    BY <1>1, <1>2, <2>2, <2>5 DEF Del
  <2>6. CASE mailboxes' = Put(mailboxes, b, [mailboxes[b] EXCEPT !.sides = left])
    BY <1>1, <1>2, <2>2, <2>4, <2>6 DEF Put
  <2> QED BY <2>3, <2>5, <2>6
<1> QED BY <1>4, <1>5 DEF Close

LEMMA StepMailboxHeld ==
    PrivateSides /\ TypeOK /\ SideBound /\ MailboxHeld /\ [Next]_vars => MailboxHeld'
<1> SUFFICES ASSUME PrivateSides, TypeOK, SideBound, MailboxHeld, [Next]_vars
             PROVE  MailboxHeld'
  OBVIOUS
<1>1. CASE UNCHANGED <<conn, mailboxes>>
  BY <1>1 DEF MailboxHeld, OwnSides
<1>2. ASSUME NEW c \in Conns, Bind(c) PROVE MailboxHeld'
  <2>1. UNCHANGED mailboxes
    BY <1>2 DEF Bind, server
  <2> QED BY <1>2, <2>1, ClientFields, KeepMailboxes DEF SidesKept
<1>3. ASSUME NEW c \in Conns, Allocate(c) PROVE MailboxHeld'
  <2>1. UNCHANGED conn /\ \E b \in Boxes \ usedBoxes : mailboxes' = Put(mailboxes, b, NewMailbox)
    BY <1>3 DEF Allocate
  <2> QED BY <2>1, FreshKeeps, KeepMailboxes
<1>4. ASSUME NEW c \in Conns, NEW n \in NameplateIds, Claim(c, n) PROVE MailboxHeld'
  <2>1. \/ UNCHANGED mailboxes
        \/ \E b \in Boxes \ usedBoxes : mailboxes' = Put(mailboxes, b, NewMailbox)
    BY <1>4 DEF Claim
  <2>2. SidesKept
    BY <2>1, FreshKeeps DEF SidesKept
  <2>3. PICK np : ClaimAs(c, n, np)
    BY <1>4 DEF Claim
  <2> QED BY <2>2, <2>3, ClientFields, KeepMailboxes
<1>5. ASSUME NEW c \in Conns, NEW n \in NameplateIds \cup {None}, Release(c, n)
      PROVE MailboxHeld'
  <2>1. UNCHANGED mailboxes
    BY <1>5 DEF Release
  <2> QED BY <1>5, <2>1, ClientFields, KeepMailboxes DEF SidesKept
<1>6. ASSUME NEW c \in Conns, NEW b \in Boxes, Open(c, b) PROVE MailboxHeld'
  <2> SUFFICES ASSUME NEW d \in Conns, conn'[d].mailbox # None
               PROVE  /\ conn'[d].mailbox \in DOMAIN mailboxes'
                      /\ mailboxes'[conn'[d].mailbox].sides \cap OwnSides(d) # {}
    BY DEF MailboxHeld, OwnSides
  <2>1. SidesKept /\ b \in DOMAIN mailboxes' /\ conn[c].side \in mailboxes'[b].sides
    BY <1>6, OpenKeeps
  <2>2. conn'[d].mailbox = IF d = c THEN b ELSE conn[d].mailbox
    BY <1>6, ClientFields
  <2>3. CASE d = c
    BY <2>1, <2>2, <2>3 DEF SideBound
  <2>4. CASE d # c
    <3>1. /\ conn[d].mailbox \in DOMAIN mailboxes
          /\ mailboxes[conn[d].mailbox].sides \cap OwnSides(d) # {}
      BY <2>2, <2>4 DEF MailboxHeld
    <3> QED BY <2>1, <2>2, <2>4, <3>1 DEF SidesKept
  <2> QED BY <2>3, <2>4
<1>7. ASSUME NEW c \in Conns, Add(c) PROVE MailboxHeld'
  <2>1. UNCHANGED conn
    BY <1>7 DEF Add
  <2> QED BY <1>7, <2>1, AddKeeps, KeepMailboxes
<1>8. ASSUME NEW c \in Conns, Close(c) PROVE MailboxHeld'
  BY <1>8, CloseKeepsOthers
<1>9. ASSUME NEW c \in Conns, TaskEnds(c) PROVE MailboxHeld'
  <2>1. UNCHANGED mailboxes
    BY <1>9 DEF TaskEnds, Finally
  <2> QED BY <1>9, <2>1, ClientFields, KeepMailboxes DEF SidesKept
<1>10. ASSUME NEW c \in Conns,
              \/ Connect(c) \/ Reply(c) \/ Hangup(c) \/ Query(c) \/ Replay(c)
              \/ AddRefused(c) \/ \E d \in Conns : Notify(c, d)
       PROVE MailboxHeld'
  BY <1>1, <1>10 DEF Connect, Reply, Hangup, Query, Replay, AddRefused, Notify, server
<1>11. CASE Stop \/ UNCHANGED vars
  BY <1>1, <1>11 DEF Stop, vars
<1> QED
  BY <1>2, <1>3, <1>4, <1>5, <1>6, <1>7, <1>8, <1>9, <1>10, <1>11 DEF Next

----------------------------------------------------------------------------
(* Holders of a nameplate agree on its mailbox.                            *)

\* What a client that did nothing keeps of its nameplate.
HeldBy(c) ==
    /\ conn[c].nameplate = None => conn[c].told = None
    /\ conn[c].nameplate # None =>
         /\ conn[c].nameplate \in DOMAIN nameplates
         /\ nameplates[conn[c].nameplate].sides \cap OwnSides(c) # {}
         /\ nameplates[conn[c].nameplate].mailbox = conn[c].told

\* No nameplate is deleted, loses a side or changes its mailbox.
NameplatesKept ==
    \A n \in DOMAIN nameplates :
        /\ n \in DOMAIN nameplates'
        /\ nameplates[n].sides \subseteq nameplates'[n].sides
        /\ nameplates[n].mailbox = nameplates'[n].mailbox

LEMMA KeepHeld ==
    ASSUME NEW c \in Conns, HeldBy(c), NameplatesKept,
           conn'[c].nameplate = conn[c].nameplate, conn'[c].told = conn[c].told
    PROVE  HeldBy(c)'
  BY DEF HeldBy, NameplatesKept, OwnSides

\* The counter is beyond all nameplates, so the number it gives is new.
LEMMA AllocateKeeps ==
    ASSUME TypeOK, NameplateHeld, NEW c \in Conns, Allocate(c)
    PROVE  NameplatesKept /\ \A n \in DOMAIN nameplates' : n < nextNameplate'
<1>1. nextNameplate \notin DOMAIN nameplates
  BY DEF NameplateHeld, TypeOK
<1>2. /\ DOMAIN nameplates' = DOMAIN nameplates \cup {nextNameplate}
      /\ \A n \in DOMAIN nameplates : nameplates'[n] = nameplates[n]
      /\ nextNameplate' = nextNameplate + 1
  BY <1>1 DEF Allocate, Put
<1>3. nextNameplate \in Nat /\ DOMAIN nameplates \subseteq Nat
  BY BoundsAssumption DEF TypeOK, NameplateIds
<1>4. \A n \in DOMAIN nameplates' : n < nextNameplate'
  BY <1>2, <1>3 DEF NameplateHeld
<1> QED BY <1>2, <1>4 DEF NameplatesKept

\* Claiming adds the client's side, and tells it the mailbox of the nameplate.
LEMMA ClaimKeeps ==
    ASSUME TypeOK, SideBound, NameplateHeld, ~ClaimUnallocated,
           NEW c \in Conns, NEW n \in NameplateIds, Claim(c, n)
    PROVE  /\ NameplatesKept
           /\ \A x \in DOMAIN nameplates' : x < nextNameplate'
           /\ HeldBy(c)'
<1>1. PICK np \in Nameplate :
        /\ ClaimAs(c, n, np)
        /\ n \in DOMAIN nameplates => np = nameplates[n]
  BY DEF Claim, TypeOK, NewNameplate, Nameplate
<1> DEFINE new == [np EXCEPT !.sides = @ \cup {conn[c].side}]
<1>2. new.sides = np.sides \cup {conn[c].side} /\ new.mailbox = np.mailbox
  BY DEF Nameplate
<1>3. nameplates' = Put(nameplates, n, new)
  BY <1>1 DEF ClaimAs
<1> HIDE DEF new
<1>4. n < nextNameplate /\ nextNameplate' = nextNameplate
  BY DEF Claim, Claimable
<1>5. /\ n \in DOMAIN nameplates' /\ nameplates'[n] = new
      /\ DOMAIN nameplates' = DOMAIN nameplates \cup {n}
      /\ \A x \in DOMAIN nameplates : x # n => nameplates'[x] = nameplates[x]
  BY <1>3 DEF Put
<1>6. NameplatesKept
  BY <1>1, <1>2, <1>5 DEF NameplatesKept
<1>7. \A x \in DOMAIN nameplates' : x < nextNameplate'
  BY <1>4, <1>5 DEF NameplateHeld
<1>8. conn'[c].nameplate = n /\ conn'[c].told = np.mailbox
  BY <1>1, ClientFields
<1>9. n # None
  BY BoundsAssumption, NoneAssumption DEF NameplateIds
<1>10. HeldBy(c)'
  <2>1. conn[c].side \in nameplates'[n].sides \cap OwnSides(c)
    BY <1>2, <1>5 DEF SideBound
  <2> QED BY <1>2, <1>5, <1>8, <1>9, <2>1 DEF HeldBy, OwnSides
<1> QED BY <1>6, <1>7, <1>10

\* Releasing discards the side of the client that releases: whatever nameplate
\* it names, what remains of the others' sides keeps theirs.
LEMMA ReleaseKeepsOthers ==
    ASSUME TypeOK, PrivateSides, SideBound, NameplateHeld,
           NEW c \in Conns, NEW n \in NameplateIds \cup {None}, Release(c, n),
           NEW d \in Conns, d # c
    PROVE  HeldBy(d)'
<1>1. conn'[d] = conn[d]
  BY ClientFields
<1>2. HeldBy(d)
  BY DEF NameplateHeld, HeldBy
<1>3. CASE UNCHANGED nameplates
  BY <1>1, <1>2, <1>3 DEF HeldBy, OwnSides
<1>4. ASSUME NEW t \in DOMAIN nameplates, ReleaseSide(t, conn[c].side)
      PROVE  HeldBy(d)'
  <2> DEFINE left == DiscardSide(nameplates[t].sides, conn[c].side)
             np == [nameplates[t] EXCEPT !.sides = left]
  <2>1. conn[c].side # None => conn[c].side \notin OwnSides(d)
    BY SidesAssumption, NoneAssumption DEF SideBound, OwnSides, PrivateSides
  <2>2. conn[d].nameplate = t => left \cap OwnSides(d) # {}
    BY <1>2, <2>1, NoneAssumption DEF DiscardSide, HeldBy, NameplateIds, TypeOK
  <2>3. nameplates[t] \in Nameplate
    BY DEF TypeOK
  <2>4. np.sides = left /\ np.mailbox = nameplates[t].mailbox
    BY <2>3 DEF Nameplate
  <2>5. \/ left = {} /\ nameplates' = Del(nameplates, t)
        \/ nameplates' = Put(nameplates, t, np)
    BY <1>4 DEF ReleaseSide
  <2> HIDE DEF left, np
  <2>6. CASE left = {} /\ nameplates' = Del(nameplates, t)
    BY <1>1, <1>2, <2>2, <2>6 DEF Del, HeldBy, OwnSides
  <2>7. CASE nameplates' = Put(nameplates, t, np)
    BY <1>1, <1>2, <2>2, <2>4, <2>7 DEF Put, HeldBy, OwnSides
  <2> QED BY <2>5, <2>6, <2>7
<1> QED BY <1>3, <1>4 DEF Release

\* The holder's view of NameplateHeld.
LEMMA Holders ==
    NameplateHeld <=> (\A c \in Conns : HeldBy(c)) /\ \A n \in DOMAIN nameplates : n < nextNameplate
  BY DEF NameplateHeld, HeldBy

LEMMA StepNameplateHeld ==
    PrivateSides /\ ~ClaimUnallocated /\ TypeOK /\ SideBound /\ NameplateHeld /\ [Next]_vars
        => NameplateHeld'
<1> SUFFICES ASSUME PrivateSides, ~ClaimUnallocated, TypeOK, SideBound, NameplateHeld,
                    [Next]_vars
             PROVE  (\A c \in Conns : HeldBy(c)') /\ \A n \in DOMAIN nameplates' : n < nextNameplate'
  BY DEF NameplateHeld, HeldBy
<1> DEFINE Goal == (\A c \in Conns : HeldBy(c)') /\ \A n \in DOMAIN nameplates' : n < nextNameplate'
<1>a. \A c \in Conns : HeldBy(c)
  BY Holders
<1>b. \A n \in DOMAIN nameplates : n < nextNameplate
  BY DEF NameplateHeld
<1>1. ASSUME UNCHANGED <<nameplates, nextNameplate>>,
             \A e \in Conns : /\ conn'[e].nameplate = conn[e].nameplate
                              /\ conn'[e].told = conn[e].told
      PROVE  Goal
  BY <1>1, <1>a, <1>b, KeepHeld DEF NameplatesKept
<1>2. ASSUME NEW c \in Conns, Bind(c) PROVE Goal
  <2>1. UNCHANGED <<nameplates, nextNameplate>>
    BY <1>2 DEF Bind, server
  <2> QED BY <1>1, <1>2, <2>1, ClientFields
<1>3. ASSUME NEW c \in Conns, Allocate(c) PROVE Goal
  <2>1. UNCHANGED conn
    BY <1>3 DEF Allocate
  <2> QED BY <1>3, <1>a, <2>1, AllocateKeeps, KeepHeld
<1>4. ASSUME NEW c \in Conns, NEW n \in NameplateIds, Claim(c, n) PROVE Goal
  <2>1. PICK np : ClaimAs(c, n, np)
    BY <1>4 DEF Claim
  <2>2. \A e \in Conns : e # c => conn'[e] = conn[e]
    BY <2>1, ClientFields
  <2> QED BY <1>4, <1>a, <2>2, ClaimKeeps, KeepHeld
<1>5. ASSUME NEW c \in Conns, NEW n \in NameplateIds \cup {None}, Release(c, n) PROVE Goal
  <2>1. conn'[c].nameplate = None /\ conn'[c].told = None
    BY <1>5, ClientFields
  <2>2. HeldBy(c)'
    BY <2>1 DEF HeldBy
  <2>3. DOMAIN nameplates' \subseteq DOMAIN nameplates /\ nextNameplate' = nextNameplate
    BY <1>5 DEF Release, ReleaseSide, Put, Del
  <2> QED BY <1>5, <1>b, <2>2, <2>3, ReleaseKeepsOthers
<1>6. ASSUME NEW c \in Conns, NEW b \in Boxes, Open(c, b) PROVE Goal
  <2>1. UNCHANGED <<nameplates, nextNameplate>>
    BY <1>6 DEF Open
  <2> QED BY <1>1, <1>6, <2>1, ClientFields
<1>7. ASSUME NEW c \in Conns, Close(c) PROVE Goal
  <2>1. UNCHANGED <<nameplates, nextNameplate>>
    BY <1>7 DEF Close
  <2> QED BY <1>1, <1>7, <2>1, ClientFields
<1>8. ASSUME NEW c \in Conns, TaskEnds(c) PROVE Goal
  <2>1. UNCHANGED <<nameplates, nextNameplate>>
    BY <1>8 DEF TaskEnds, Finally
  <2>2. conn'[c].nameplate = None /\ conn'[c].told = None
    BY <1>8, ClientFields
  <2>3. HeldBy(c)'
    BY <2>2 DEF HeldBy
  <2>4. \A e \in Conns : e # c => conn'[e] = conn[e]
    BY <1>8, ClientFields
  <2> QED BY <1>a, <1>b, <2>1, <2>3, <2>4, KeepHeld DEF NameplatesKept
<1>9. ASSUME UNCHANGED <<conn, nameplates, nextNameplate>> PROVE Goal
  BY <1>1, <1>9
<1>10. ASSUME NEW c \in Conns,
              \/ Connect(c) \/ Reply(c) \/ Hangup(c) \/ Query(c) \/ Replay(c)
              \/ AddRefused(c) \/ Add(c) \/ \E d \in Conns : Notify(c, d)
       PROVE Goal
  BY <1>9, <1>10 DEF Connect, Reply, Hangup, Query, Replay, AddRefused, Add, Notify, server
<1>11. CASE Stop \/ UNCHANGED vars
  BY <1>9, <1>11 DEF Stop, vars
<1> QED
  BY <1>2, <1>3, <1>4, <1>5, <1>6, <1>7, <1>8, <1>10, <1>11 DEF Next

----------------------------------------------------------------------------
(* Subscriptions.                                                          *)

LEMMA StepSubscribed ==
    TypeOK /\ Subscribed /\ [Next]_vars => Subscribed'
<1> SUFFICES ASSUME TypeOK, Subscribed, [Next]_vars PROVE Subscribed'
  OBVIOUS
<1>1. ASSUME UNCHANGED opens,
             \A b \in Boxes : subs'[b] \subseteq subs[b],
             \A e \in Conns : /\ conn'[e].mailbox = conn[e].mailbox
                              /\ pc'[e] = "done" => pc[e] = "done"
      PROVE  Subscribed'
  BY <1>1 DEF Subscribed
<1>2. ASSUME UNCHANGED <<opens, subs, conn>>,
             \A e \in Conns : pc'[e] = "done" => pc[e] = "done"
      PROVE  Subscribed'
  BY <1>1, <1>2
<1>3. ASSUME NEW c \in Conns,
             \/ Connect(c) \/ Reply(c) \/ Hangup(c) \/ Query(c) \/ Replay(c)
             \/ AddRefused(c) \/ Add(c) \/ Allocate(c)
      PROVE  Subscribed'
  <2>1. UNCHANGED <<opens, subs, conn>>
    BY <1>3 DEF Connect, Reply, Hangup, Query, Replay, AddRefused, Add, Allocate,
       server, history
  <2>2. \A e \in Conns : pc'[e] = "done" => pc[e] = "done"
    BY <1>3 DEF Connect, Reply, Hangup, Query, Replay, AddRefused, Add, Allocate,
       Goto, WorkOr, TypeOK
  <2> QED BY <1>2, <2>1, <2>2
<1>4. ASSUME NEW c \in Conns,
             \/ Bind(c)
             \/ \E n \in NameplateIds : Claim(c, n)
             \/ \E n \in NameplateIds \cup {None} : Release(c, n)
      PROVE  Subscribed'
  <2>1. UNCHANGED <<opens, subs>>
    BY <1>4 DEF Bind, Claim, Release, server, history
  <2>2. \A e \in Conns : pc'[e] = "done" => pc[e] = "done"
    BY <1>4 DEF Bind, Claim, Release, Goto, TypeOK
  <2>3. \A e \in Conns : conn'[e].mailbox = conn[e].mailbox
    BY <1>4, ClientFields DEF Claim
  <2> QED BY <1>1, <2>1, <2>2, <2>3
<1>5. ASSUME NEW c \in Conns, NEW d \in Conns, Notify(c, d) PROVE Subscribed'
  <2>1. UNCHANGED <<opens, conn>>
    BY <1>5 DEF Notify, history
  <2>2. \A e \in Conns : pc'[e] = "done" => pc[e] = "done"
    BY <1>5 DEF Notify, Goto, WorkOr, TypeOK
  <2>3. \/ UNCHANGED subs
        \/ subs' = [subs EXCEPT ![boxOf[posting[c]]] = @ \ {d}]
    BY <1>5 DEF Notify
  <2>4. subs \in [Boxes -> SUBSET Conns]
    BY DEF TypeOK
  <2>5. \A b \in Boxes : subs'[b] \subseteq subs[b]
    BY <2>3, <2>4
  <2> QED BY <1>1, <2>1, <2>2, <2>5
<1>6. ASSUME NEW c \in Conns, NEW b \in Boxes, Open(c, b) PROVE Subscribed'
  <2>1. \A e \in Conns : conn'[e].mailbox = IF e = c THEN b ELSE conn[e].mailbox
    BY <1>6, ClientFields
  <2>2. \A x \in Boxes : subs'[x] = IF x = b THEN subs[x] \cup {c} ELSE subs[x]
    <3>1. subs \in [Boxes -> SUBSET Conns] /\ subs' = [subs EXCEPT ![b] = @ \cup {c}]
      BY <1>6 DEF Open, TypeOK
    <3> QED BY <3>1
  <2>3. /\ \A e \in Conns : opens'[e] = IF e = c THEN opens[e] + 1 ELSE opens[e]
        /\ \A e \in Conns : opens[e] \in Nat
    <3>1. opens \in [Conns -> 0..MaxOpens] /\ opens' = [opens EXCEPT ![c] = @ + 1]
      BY <1>6 DEF Open, TypeOK
    <3> QED BY <3>1, BoundsAssumption
  <2>4. pc'[c] # "done" /\ \A e \in Conns : e # c => pc'[e] = pc[e]
    BY <1>6 DEF Open, Goto, WorkOr, TypeOK
  <2> SUFFICES ASSUME NEW e \in Conns
               PROVE  /\ opens'[e] = 0 => \A x \in Boxes : e \notin subs'[x]
                      /\ opens'[e] <= 1 => \A x \in Boxes : e \in subs'[x] => conn'[e].mailbox = x
                      /\ pc'[e] = "done" => conn'[e].mailbox = None
    BY DEF Subscribed
  <2>5. CASE e = c
    <3>1. opens'[e] # 0 /\ (opens'[e] <= 1 => opens[e] = 0)
      BY <2>3, <2>5
    <3>2. opens'[e] <= 1 => \A x \in Boxes : e \notin subs[x]
      BY <3>1 DEF Subscribed
    <3> QED BY <2>1, <2>2, <2>4, <2>5, <3>1, <3>2
  <2>6. CASE e # c
    <3>1. /\ opens'[e] = opens[e] /\ pc'[e] = pc[e] /\ conn'[e].mailbox = conn[e].mailbox
          /\ \A x \in Boxes : e \in subs'[x] => e \in subs[x]
      BY <2>1, <2>2, <2>3, <2>4, <2>6
    <3> QED BY <3>1 DEF Subscribed
  <2> QED BY <2>5, <2>6
<1>7. ASSUME NEW c \in Conns, Close(c) PROVE Subscribed'
  <2>1. \A e \in Conns : conn'[e].mailbox = IF e = c THEN None ELSE conn[e].mailbox
    BY <1>7, ClientFields
  <2>2. /\ subs' = Unsubscribed(c) /\ UNCHANGED opens
        /\ \A e \in Conns : pc'[e] = "done" => pc[e] = "done"
    BY <1>7 DEF Close, history, Goto, TypeOK
  <2> QED BY <2>1, <2>2 DEF Subscribed, Unsubscribed
<1>8. ASSUME NEW c \in Conns, TaskEnds(c) PROVE Subscribed'
  <2>1. /\ conn'[c].mailbox = None
        /\ \A e \in Conns : e # c => conn'[e] = conn[e]
    BY <1>8, ClientFields
  <2>2. /\ subs' = Unsubscribed(c) /\ UNCHANGED opens
        /\ \A e \in Conns : e # c => pc'[e] = pc[e]
    BY <1>8 DEF TaskEnds, Finally, history, Goto, TypeOK
  <2> QED BY <2>1, <2>2 DEF Subscribed, Unsubscribed
<1>9. CASE Stop \/ UNCHANGED vars
  BY <1>2, <1>9 DEF Stop, vars, history
<1> QED
  BY <1>3, <1>4, <1>5, <1>6, <1>7, <1>8, <1>9 DEF Next

----------------------------------------------------------------------------

LEMMA InitRendezvous == Init => RendezvousInv
<1> SUFFICES ASSUME Init PROVE RendezvousInv
  OBVIOUS
<1>1. TypeOK
  BY InitTypeOK
<1>2. Subscribed /\ SideBound /\ MailboxHeld
  BY DEF Init, Subscribed, SideBound, MailboxHeld, OwnSides, NewClient
<1>3. NameplateHeld
  BY DEF Init, NameplateHeld, NewClient
<1> QED BY <1>1, <1>2, <1>3 DEF RendezvousInv

LEMMA StepRendezvous == RendezvousInv /\ [Next]_vars => RendezvousInv'
<1> SUFFICES ASSUME RendezvousInv, [Next]_vars PROVE RendezvousInv'
  OBVIOUS
<1>1. TypeOK' /\ Subscribed' /\ SideBound'
  BY StepTypeOK, StepSubscribed, StepSideBound DEF RendezvousInv
<1>2. PrivateSides => MailboxHeld'
  BY StepMailboxHeld DEF RendezvousInv
<1>3. PrivateSides /\ ~ClaimUnallocated => NameplateHeld'
  BY StepNameplateHeld DEF RendezvousInv
<1> QED BY <1>1, <1>2, <1>3 DEF RendezvousInv, PrivateSides

LEMMA RendezvousProperties ==
    RendezvousInv => EndedUnsubscribed /\ OpenMailboxExists /\ AgreeOnMailbox
<1> SUFFICES ASSUME RendezvousInv PROVE EndedUnsubscribed /\ OpenMailboxExists /\ AgreeOnMailbox
  OBVIOUS
<1>1. EndedUnsubscribed
  BY NoneAssumption DEF RendezvousInv, Subscribed, EndedUnsubscribed
<1>2. OpenMailboxExists
  BY DEF RendezvousInv, MailboxHeld, OpenMailboxExists
<1>3. AgreeOnMailbox
  BY DEF RendezvousInv, NameplateHeld, AgreeOnMailbox
<1> QED BY <1>1, <1>2, <1>3

\* For any number of clients: a task that ends leaves no subscription behind
\* (EndedUnsubscribed); with sides that only their client uses, no close
\* deletes a mailbox another client has open (OpenMailboxExists), and clients
\* that hold one allocated nameplate were told one mailbox (AgreeOnMailbox).
THEOREM Rendezvous ==
    Spec => [](EndedUnsubscribed /\ OpenMailboxExists /\ AgreeOnMailbox)
<1> QED BY InitRendezvous, StepRendezvous, RendezvousProperties, PTL DEF Spec

\* The finally block of _handle_client leaves no subscription behind.
THEOREM EndsUnsubscribed == Spec => []EndedUnsubscribed
<1> QED BY Rendezvous, PTL

\* With private sides, nobody's close deletes a mailbox somebody has open.
THEOREM OpenMailboxStays == Spec => []OpenMailboxExists
<1> QED BY Rendezvous, PTL
=============================================================================
