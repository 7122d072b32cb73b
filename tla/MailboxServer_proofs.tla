----------------------- MODULE MailboxServer_proofs -----------------------
(***************************************************************************)
(* Proofs about MailboxServer, for any connections, sides, mailbox ids and *)
(* bounds.  Each theorem is Init / one step per action / PTL.              *)
(***************************************************************************)
EXTENDS MailboxServer, TLAPS

\* Updating the dictionary of nameplates keeps its type.
LEMMA PutNameplate ==
    ASSUME TypeOK, NEW n \in NameplateIds, NEW np \in Nameplate,
           nameplates' = Put(nameplates, n, np)
    PROVE  /\ DOMAIN nameplates' = DOMAIN nameplates \cup {n}
           /\ DOMAIN nameplates' \subseteq NameplateIds
           /\ nameplates' \in [DOMAIN nameplates' -> Nameplate]
           /\ nameplates'[n] = np
           /\ \A x \in DOMAIN nameplates : x # n => nameplates'[x] = nameplates[x]
<1>1. nameplates \in [DOMAIN nameplates -> Nameplate] /\ DOMAIN nameplates \subseteq NameplateIds
  BY DEF TypeOK
<1> QED BY <1>1 DEF Put

\* Deleting a nameplate keeps the type of the dictionary.
LEMMA DelNameplate ==
    ASSUME TypeOK, NEW n, nameplates' = Del(nameplates, n)
    PROVE  /\ DOMAIN nameplates' = DOMAIN nameplates \ {n}
           /\ DOMAIN nameplates' \subseteq NameplateIds
           /\ nameplates' \in [DOMAIN nameplates' -> Nameplate]
           /\ \A x \in DOMAIN nameplates : x # n => nameplates'[x] = nameplates[x]
<1>1. nameplates \in [DOMAIN nameplates -> Nameplate] /\ DOMAIN nameplates \subseteq NameplateIds
  BY DEF TypeOK
<1> QED BY <1>1 DEF Del

\* Updating the dictionary of mailboxes keeps its type.
LEMMA PutMailbox ==
    ASSUME TypeOK, NEW b \in Boxes, NEW mb \in Mailbox,
           mailboxes' = Put(mailboxes, b, mb)
    PROVE  /\ DOMAIN mailboxes' = DOMAIN mailboxes \cup {b}
           /\ mailboxes' \in [DOMAIN mailboxes' -> Mailbox]
           /\ mailboxes'[b] = mb
           /\ \A x \in DOMAIN mailboxes : x # b => mailboxes'[x] = mailboxes[x]
<1>1. mailboxes \in [DOMAIN mailboxes -> Mailbox]
  BY DEF TypeOK
<1> QED BY <1>1 DEF Put

\* Deleting a mailbox keeps the type of the dictionary.
LEMMA DelMailbox ==
    ASSUME TypeOK, NEW b, mailboxes' = Del(mailboxes, b)
    PROVE  /\ DOMAIN mailboxes' = DOMAIN mailboxes \ {b}
           /\ mailboxes' \in [DOMAIN mailboxes' -> Mailbox]
           /\ \A x \in DOMAIN mailboxes : x # b => mailboxes'[x] = mailboxes[x]
<1>1. mailboxes \in [DOMAIN mailboxes -> Mailbox]
  BY DEF TypeOK
<1> QED BY <1>1 DEF Del

LEMMA InitTypeOK == Init => TypeOK
  BY SidesAssumption, BoundsAssumption, NoneAssumption
  DEF Init, TypeOK, NameplateIds, MsgIds, OptSide, Nameplate, Mailbox,
      ClientState, NewNameplate, NewMailbox, NewClient

LEMMA StepTypeOK == TypeOK /\ [Next]_vars => TypeOK'
<1> SUFFICES ASSUME TypeOK, [Next]_vars PROVE TypeOK'
  OBVIOUS
<1> USE SidesAssumption, BoundsAssumption, NoneAssumption
<1>1. ASSUME NEW c \in Conns, Connect(c) PROVE TypeOK'
  BY <1>1 DEF TypeOK, Connect, Goto, server, posts, inbox, history
<1>2. ASSUME NEW c \in Conns, Reply(c) PROVE TypeOK'
  BY <1>2 DEF TypeOK, Reply, Goto, server, posts, inbox, history
<1>3. ASSUME NEW c \in Conns, TaskEnds(c) PROVE TypeOK'
  BY <1>3 DEF TypeOK, TaskEnds, Raises, Finally, Unsubscribed, NewClient,
      ClientState, OptSide, Goto, posts, inbox, history
<1>4. ASSUME NEW c \in Conns, Hangup(c) PROVE TypeOK'
  BY <1>4 DEF TypeOK, Hangup, server, posts, inbox, history
<1>5. ASSUME NEW c \in Conns, Bind(c) PROVE TypeOK'
  <2>1. PICK s \in Sides : conn' = [conn EXCEPT ![c].side = s]
    BY <1>5 DEF Bind
  <2>2. conn \in [Conns -> ClientState]
    BY DEF TypeOK
  <2>3. [conn[c] EXCEPT !.side = s] \in ClientState
    BY <2>2 DEF ClientState, OptSide
  <2>4. conn' \in [Conns -> ClientState]
    BY <2>1, <2>2, <2>3
  <2> QED
    BY <1>5, <2>4 DEF TypeOK, Bind, Handling, Goto, server, posts, inbox, history
<1>6. ASSUME NEW c \in Conns, Allocate(c) PROVE TypeOK'
  <2>1. PICK b \in Boxes \ usedBoxes :
           /\ nameplates' = Put(nameplates, nextNameplate, NewNameplate(b))
           /\ mailboxes' = Put(mailboxes, b, NewMailbox)
           /\ usedBoxes' = usedBoxes \cup {b}
    BY <1>6 DEF Allocate
  <2>2. NewNameplate(b) \in Nameplate /\ NewMailbox \in Mailbox
    BY DEF NewNameplate, Nameplate, NewMailbox, Mailbox
  <2>3. nextNameplate \in NameplateIds
    BY <1>6 DEF Allocate, TypeOK, NameplateIds
  <2>4. /\ DOMAIN nameplates' \subseteq NameplateIds
        /\ nameplates' \in [DOMAIN nameplates' -> Nameplate]
        /\ DOMAIN mailboxes' \subseteq usedBoxes'
        /\ mailboxes' \in [DOMAIN mailboxes' -> Mailbox]
    <3>1. /\ DOMAIN nameplates' \subseteq NameplateIds
          /\ nameplates' \in [DOMAIN nameplates' -> Nameplate]
      BY <2>1, <2>2, <2>3, PutNameplate
    <3>2. /\ DOMAIN mailboxes' = DOMAIN mailboxes \cup {b}
          /\ mailboxes' \in [DOMAIN mailboxes' -> Mailbox]
      BY <2>1, <2>2, PutMailbox
    <3>3. DOMAIN mailboxes \subseteq usedBoxes
      BY DEF TypeOK
    <3> QED BY <2>1, <3>1, <3>2, <3>3
  <2> QED
    BY <1>6, <2>1, <2>4 DEF TypeOK, Allocate, Handling, Goto, posts, inbox,
       history
<1>7. ASSUME NEW c \in Conns, Query(c) PROVE TypeOK'
  BY <1>7 DEF TypeOK, Query, Handling, Goto, server, posts, inbox, history
<1>8. ASSUME NEW c \in Conns, NEW n \in NameplateIds, Claim(c, n) PROVE TypeOK'
  <2>1. PICK np \in Nameplate : ClaimAs(c, n, np)
    BY <1>8 DEF Claim, TypeOK, NewNameplate, Nameplate
  <2>2. [np EXCEPT !.sides = @ \cup {conn[c].side}] \in Nameplate
    <3>1. conn[c] \in ClientState
      BY DEF TypeOK
    <3> QED BY <3>1 DEF Nameplate, ClientState
  <2>3. /\ DOMAIN nameplates' \subseteq NameplateIds
        /\ nameplates' \in [DOMAIN nameplates' -> Nameplate]
    BY <2>1, <2>2, PutNameplate DEF ClaimAs
  <2>4. conn' \in [Conns -> ClientState]
    <3>1. conn \in [Conns -> ClientState]
      BY DEF TypeOK
    <3>2. [[conn[c] EXCEPT !.nameplate = n] EXCEPT !.told = np.mailbox] \in ClientState
      BY <3>1 DEF ClientState, Nameplate
    <3> QED BY <2>1, <3>1, <3>2 DEF ClaimAs
  <2>5. NewMailbox \in Mailbox
    BY DEF NewMailbox, Mailbox
  <2>6. /\ DOMAIN mailboxes' \subseteq usedBoxes'
        /\ mailboxes' \in [DOMAIN mailboxes' -> Mailbox]
        /\ usedBoxes' \subseteq Boxes
    <3>1. CASE UNCHANGED <<mailboxes, usedBoxes>>
      BY <3>1 DEF TypeOK
    <3>2. CASE \E b \in Boxes \ usedBoxes :
                  /\ mailboxes' = Put(mailboxes, b, NewMailbox)
                  /\ usedBoxes' = usedBoxes \cup {b}
      <4>1. PICK b \in Boxes \ usedBoxes :
               /\ mailboxes' = Put(mailboxes, b, NewMailbox)
               /\ usedBoxes' = usedBoxes \cup {b}
        BY <3>2
      <4>2. /\ DOMAIN mailboxes' = DOMAIN mailboxes \cup {b}
            /\ mailboxes' \in [DOMAIN mailboxes' -> Mailbox]
        BY <4>1, <2>5, PutMailbox
      <4>3. DOMAIN mailboxes \subseteq usedBoxes /\ usedBoxes \subseteq Boxes
        BY DEF TypeOK
      <4> QED BY <4>1, <4>2, <4>3
    <3> QED BY <1>8, <3>1, <3>2 DEF Claim
  <2> QED
    BY <1>8, <2>3, <2>4, <2>6 DEF TypeOK, Claim, Handling, Goto, posts, inbox,
       history
<1>9. ASSUME NEW c \in Conns, NEW n \in NameplateIds \cup {None}, Release(c, n)
      PROVE TypeOK'
  <2>1. /\ DOMAIN nameplates' \subseteq NameplateIds
        /\ nameplates' \in [DOMAIN nameplates' -> Nameplate]
    <3>1. CASE UNCHANGED nameplates
      BY <3>1 DEF TypeOK
    <3>2. ASSUME NEW t \in DOMAIN nameplates, ReleaseSide(t, conn[c].side)
          PROVE /\ DOMAIN nameplates' \subseteq NameplateIds
                /\ nameplates' \in [DOMAIN nameplates' -> Nameplate]
      <4> DEFINE left == DiscardSide(nameplates[t].sides, conn[c].side)
      <4>1. [nameplates[t] EXCEPT !.sides = left] \in Nameplate
        <5>1. nameplates[t] \in Nameplate
          BY DEF TypeOK
        <5> QED BY <5>1 DEF Nameplate, DiscardSide
      <4>2. \/ nameplates' = Del(nameplates, t)
            \/ nameplates' = Put(nameplates, t, [nameplates[t] EXCEPT !.sides = left])
        BY <3>2 DEF ReleaseSide
      <4> QED BY <4>1, <4>2, PutNameplate, DelNameplate DEF TypeOK
    <3> QED BY <1>9, <3>1, <3>2 DEF Release
  <2>2. conn' \in [Conns -> ClientState]
    <3>1. conn \in [Conns -> ClientState]
      BY DEF TypeOK
    <3>2. [[conn[c] EXCEPT !.nameplate = None] EXCEPT !.told = None] \in ClientState
      BY <3>1 DEF ClientState
    <3> QED BY <1>9, <3>1, <3>2 DEF Release
  <2> QED
    BY <1>9, <2>1, <2>2 DEF TypeOK, Release, Handling, Goto, posts, inbox, history
<1>10. ASSUME NEW c \in Conns, NEW b \in Boxes, Open(c, b) PROVE TypeOK'
  <2>1. BoxNow(b) \in Mailbox
    BY DEF TypeOK, BoxNow, NewMailbox, Mailbox
  <2>2. [BoxNow(b) EXCEPT !.sides = @ \cup {conn[c].side}] \in Mailbox
    <3>1. conn[c] \in ClientState
      BY DEF TypeOK
    <3> QED BY <2>1, <3>1 DEF Mailbox, ClientState
  <2>3. /\ DOMAIN mailboxes' \subseteq usedBoxes'
        /\ mailboxes' \in [DOMAIN mailboxes' -> Mailbox]
    <3>1. mailboxes' = Put(mailboxes, b, [BoxNow(b) EXCEPT !.sides = @ \cup {conn[c].side}])
      BY <1>10 DEF Open
    <3>2. /\ DOMAIN mailboxes' = DOMAIN mailboxes \cup {b}
          /\ mailboxes' \in [DOMAIN mailboxes' -> Mailbox]
      BY <2>2, <3>1, PutMailbox
    <3>3. DOMAIN mailboxes \subseteq usedBoxes
      BY DEF TypeOK
    <3> QED BY <1>10, <3>2, <3>3 DEF Open
  <2>4. Snapshot(b) \subseteq MsgIds
    BY <2>1 DEF Snapshot, Mailbox
  <2>5. conn' \in [Conns -> ClientState]
    <3>1. conn \in [Conns -> ClientState]
      BY DEF TypeOK
    <3>2. [conn[c] EXCEPT !.mailbox = b] \in ClientState
      BY <3>1 DEF ClientState
    <3> QED BY <1>10, <3>1, <3>2 DEF Open
  <2>6. opens' \in [Conns -> 0..MaxOpens]
    BY <1>10 DEF TypeOK, Open
  <2>7. /\ replay' \in [Conns -> SUBSET MsgIds]
        /\ pc' \in [Conns -> {"off", "recv", "reply", "replay", "notify", "done"}]
        /\ \A d \in Conns : replay'[d] # {} <=> pc'[d] = "replay"
        /\ \A d \in Conns : pc'[d] = "notify" <=> pc[d] = "notify"
    BY <1>10, <2>4 DEF TypeOK, Open, WorkOr, Handling, Goto
  <2>8. /\ usedBoxes' \subseteq Boxes
        /\ subs' \in [Boxes -> SUBSET Conns]
        /\ opened' \in [Conns -> SUBSET Boxes]
    BY <1>10 DEF TypeOK, Open
  <2>9. UNCHANGED <<running, nextNameplate, nameplates, alive, fanout, posting,
                    boxOf, nextMsg, got, twice>>
    BY <1>10 DEF Open, posts, inbox
  <2> QED
    BY <2>3, <2>5, <2>6, <2>7, <2>8, <2>9 DEF TypeOK
<1>11. ASSUME NEW c \in Conns, Replay(c) PROVE TypeOK'
  BY <1>11 DEF TypeOK, Replay, Deliver, ReplayLeft, WorkOr, Goto, server, posts,
     history
<1>12. ASSUME NEW c \in Conns, AddRefused(c) PROVE TypeOK'
  BY <1>12 DEF TypeOK, AddRefused, Handling, Goto, server, posts, inbox, history
<1>13. ASSUME NEW c \in Conns, Add(c) PROVE TypeOK'
  <2> DEFINE b == conn[c].mailbox
  <2>1. nextMsg \in MsgIds /\ b \in DOMAIN mailboxes /\ b \in Boxes
    BY <1>13 DEF Add, TypeOK, MsgIds
  <2>2. /\ DOMAIN mailboxes' = DOMAIN mailboxes
        /\ mailboxes' \in [DOMAIN mailboxes' -> Mailbox]
    <3>1. mailboxes \in [DOMAIN mailboxes -> Mailbox]
      BY DEF TypeOK
    <3>2. [mailboxes[b] EXCEPT !.messages = @ \cup {nextMsg}] \in Mailbox
      BY <2>1, <3>1 DEF Mailbox
    <3> QED BY <1>13, <3>1, <3>2 DEF Add
  <2>3. /\ boxOf' \in [MsgIds -> Boxes \cup {None}]
        /\ nextMsg' \in 1..(MaxMsgs + 1)
    BY <1>13, <2>1 DEF TypeOK, Add, MsgIds
  <2>4. /\ fanout' \in [Conns -> SUBSET Conns]
        /\ posting' \in [Conns -> MsgIds \cup {None}]
        /\ pc' \in [Conns -> {"off", "recv", "reply", "replay", "notify", "done"}]
    BY <1>13, <2>1 DEF TypeOK, Add, Subscribers, WorkOr, Goto
  <2>5. nextMsg # None
    BY <2>1 DEF MsgIds
  <2>6. \A d \in Conns :
           /\ replay[d] # {} <=> pc'[d] = "replay"
           /\ fanout'[d] # {} <=> pc'[d] = "notify"
           /\ posting'[d] # None <=> pc'[d] = "notify"
    BY <1>13, <2>1, <2>5 DEF TypeOK, Add, Subscribers, WorkOr, Handling, Goto
  <2>7. UNCHANGED <<running, nextNameplate, nameplates, usedBoxes, subs, conn,
                    alive, replay, got, twice, opened, opens>>
    BY <1>13 DEF Add, inbox, history
  <2> QED
    BY <2>2, <2>3, <2>4, <2>6, <2>7 DEF TypeOK
<1>14. ASSUME NEW c \in Conns, NEW d \in Conns, Notify(c, d) PROVE TypeOK'
  <2>1. posting[c] \in MsgIds
    BY <1>14 DEF Notify, TypeOK
  <2>2. /\ subs' \in [Boxes -> SUBSET Conns]
        /\ got' \in [Conns -> SUBSET MsgIds]
        /\ twice' \in [Conns -> SUBSET MsgIds]
    <3>1. /\ subs \in [Boxes -> SUBSET Conns]
          /\ got \in [Conns -> SUBSET MsgIds]
          /\ twice \in [Conns -> SUBSET MsgIds]
      BY DEF TypeOK
    <3>2. CASE alive[d]
      <4>1. UNCHANGED subs
        BY <1>14, <3>2 DEF Notify
      <4>2. Deliver(d, posting[c])
        BY <1>14, <3>2 DEF Notify
      <4> QED BY <2>1, <3>1, <4>1, <4>2 DEF Deliver
    <3>3. CASE ~alive[d]
      <4>1. /\ subs' = [subs EXCEPT ![boxOf[posting[c]]] = @ \ {d}]
            /\ UNCHANGED <<got, twice>>
        BY <1>14, <3>3 DEF Notify, inbox
      <4> QED BY <3>1, <4>1
    <3> QED BY <3>2, <3>3
  <2>3. /\ fanout' \in [Conns -> SUBSET Conns]
        /\ posting' \in [Conns -> MsgIds \cup {None}]
        /\ pc' \in [Conns -> {"off", "recv", "reply", "replay", "notify", "done"}]
    BY <1>14 DEF TypeOK, Notify, FanoutLeft, WorkOr, Goto
  <2>4. \A e \in Conns :
           /\ replay[e] # {} <=> pc'[e] = "replay"
           /\ fanout'[e] # {} <=> pc'[e] = "notify"
           /\ posting'[e] # None <=> pc'[e] = "notify"
    BY <1>14, <2>1 DEF TypeOK, Notify, FanoutLeft, WorkOr, Goto
  <2>5. UNCHANGED <<running, nextNameplate, nameplates, mailboxes, usedBoxes, conn,
                    alive, replay, boxOf, nextMsg, opened, opens>>
    BY <1>14 DEF Notify, posts, history
  <2> QED
    BY <2>2, <2>3, <2>4, <2>5 DEF TypeOK
<1>15. ASSUME NEW c \in Conns, Close(c) PROVE TypeOK'
  <2> DEFINE b == conn[c].mailbox
  <2>1. /\ DOMAIN mailboxes' \subseteq DOMAIN mailboxes
        /\ mailboxes' \in [DOMAIN mailboxes' -> Mailbox]
    <3>1. CASE UNCHANGED mailboxes
      BY <3>1 DEF TypeOK
    <3>2. CASE b \in DOMAIN mailboxes /\ CloseSide(b, conn[c].side)
      <4> DEFINE left == DiscardSide(mailboxes[b].sides, conn[c].side)
      <4>1. [mailboxes[b] EXCEPT !.sides = left] \in Mailbox
        <5>1. mailboxes[b] \in Mailbox
          BY <3>2 DEF TypeOK
        <5> QED BY <5>1 DEF Mailbox, DiscardSide
      <4>2. \/ mailboxes' = Del(mailboxes, b)
            \/ mailboxes' = Put(mailboxes, b, [mailboxes[b] EXCEPT !.sides = left])
        BY <3>2 DEF CloseSide
      <4>3. b \in Boxes
        BY <3>2 DEF TypeOK
      <4>4. CASE mailboxes' = Del(mailboxes, b)
        BY <4>4, DelMailbox
      <4>5. CASE mailboxes' = Put(mailboxes, b, [mailboxes[b] EXCEPT !.sides = left])
        <5> HIDE DEF left
        <5>1. /\ DOMAIN mailboxes' = DOMAIN mailboxes \cup {b}
              /\ mailboxes' \in [DOMAIN mailboxes' -> Mailbox]
          BY <4>1, <4>3, <4>5, PutMailbox
        <5> QED BY <3>2, <5>1
      <4> QED BY <4>2, <4>4, <4>5
    <3> QED BY <1>15, <3>1, <3>2 DEF Close
  <2>2. conn' \in [Conns -> ClientState]
    <3>1. conn \in [Conns -> ClientState]
      BY DEF TypeOK
    <3>2. [conn[c] EXCEPT !.mailbox = None] \in ClientState
      BY <3>1 DEF ClientState
    <3> QED BY <1>15, <3>1, <3>2 DEF Close
  <2> QED
    BY <1>15, <2>1, <2>2 DEF TypeOK, Close, Unsubscribed, Handling, Goto, posts,
       inbox, history
<1>16. ASSUME Stop PROVE TypeOK'
  BY <1>16 DEF TypeOK, Stop, posts, inbox, history
<1>17. CASE UNCHANGED vars
  BY <1>17 DEF TypeOK, vars
<1> QED
  BY <1>1, <1>2, <1>3, <1>4, <1>5, <1>6, <1>7, <1>8, <1>9, <1>10, <1>11, <1>12,
     <1>13, <1>14, <1>15, <1>16, <1>17 DEF Next

\* Types and the shape of a task's local state, for every instance: a task has
\* messages to replay exactly while it replays, subscribers to notify and a
\* message to notify about exactly while it notifies.
THEOREM TypeCorrect == Spec => []TypeOK
<1> QED BY InitTypeOK, StepTypeOK, PTL DEF Spec

----------------------------------------------------------------------------
(* Delivery: what is sent to whom.                                         *)

LEMMA InitDelivery == Init => DeliveryInv
<1> SUFFICES ASSUME Init PROVE DeliveryInv
  OBVIOUS
<1>1. TypeOK
  BY InitTypeOK
<1>2. DOMAIN mailboxes = {}
  BY DEF Init
<1> QED
  BY <1>1, <1>2 DEF Init, DeliveryInv, Numbering, OneSender, OnlyOpened,
     OwedOnce, NoLostMessage

\* Steps that send nothing: they may lose subscriptions and the messages of
\* mailboxes, drop the replay of a closed socket, close sockets, and open the
\* socket of a connection that opened no mailbox yet.
Quiet ==
    /\ UNCHANGED <<fanout, posting, boxOf, nextMsg, got, twice, opened, opens>>
    /\ \A b \in Boxes : subs'[b] \subseteq subs[b]
    /\ \A b \in DOMAIN mailboxes' : \A m \in mailboxes'[b].messages :
         b \in DOMAIN mailboxes /\ m \in mailboxes[b].messages
    /\ \A c \in Conns :
         /\ replay'[c] \subseteq replay[c]
         /\ alive'[c] => replay'[c] = replay[c]
         /\ alive'[c] => alive[c] \/ opens[c] = 0
         /\ pc'[c] = "notify" <=> pc[c] = "notify"
         /\ pc'[c] = "off" => pc[c] = "off"

LEMMA QuietDelivery == DeliveryInv /\ TypeOK' /\ Quiet => DeliveryInv'
<1> SUFFICES ASSUME DeliveryInv, TypeOK', Quiet PROVE DeliveryInv'
  OBVIOUS
<1> USE DEF Quiet
<1>1. Numbering'
  BY DEF DeliveryInv, Numbering
<1>2. OneSender'
  BY DEF DeliveryInv, OneSender
<1>3. OnlyOpened'
  BY DEF DeliveryInv, OnlyOpened
<1>4. OwedOnce'
  BY DEF DeliveryInv, OwedOnce
<1>5. NoLostMessage'
  <2> SUFFICES ASSUME NEW b \in DOMAIN mailboxes', NEW c \in subs'[b], alive'[c],
                      NEW m \in mailboxes'[b].messages
               PROVE  m \in got'[c] \/ Owed(c, m)'
    BY DEF NoLostMessage
  <2>1. b \in Boxes /\ b \in DOMAIN mailboxes /\ m \in mailboxes[b].messages
    BY DEF DeliveryInv, TypeOK
  <2>2. c \in subs[b] /\ c \in Conns
    BY <2>1 DEF DeliveryInv, TypeOK
  <2>3. alive[c]
    BY <2>1, <2>2 DEF DeliveryInv, OnlyOpened
  <2>4. m \in got[c] \/ Owed(c, m)
    BY <2>1, <2>2, <2>3 DEF DeliveryInv, NoLostMessage
  <2> QED BY <2>2, <2>4 DEF Owed
<1> QED BY <1>1, <1>2, <1>3, <1>4, <1>5 DEF DeliveryInv

LEMMA OpenDelivery ==
    ASSUME DeliveryInv, TypeOK', NEW c \in Conns, NEW b \in Boxes, Open(c, b)
    PROVE  DeliveryInv'
<1> DEFINE snap == Snapshot(b)
<1>1. /\ snap \subseteq MsgIds
      /\ \A m \in snap : m < nextMsg /\ boxOf[m] = b
      /\ b \in DOMAIN mailboxes => snap = mailboxes[b].messages
      /\ b \notin DOMAIN mailboxes => snap = {}
  BY DEF DeliveryInv, TypeOK, Numbering, Mailbox, Snapshot, BoxNow, NewMailbox
<1>2. /\ DOMAIN mailboxes' = DOMAIN mailboxes \cup {b}
      /\ mailboxes'[b].messages = snap
      /\ \A x \in DOMAIN mailboxes : x # b => mailboxes'[x] = mailboxes[x]
  <2>1. BoxNow(b) \in Mailbox
    BY DEF DeliveryInv, TypeOK, BoxNow, NewMailbox, Mailbox
  <2> QED BY <2>1 DEF Open, Put, Snapshot, Mailbox
<1>3. /\ UNCHANGED <<fanout, posting, boxOf, nextMsg, got, twice, alive>>
      /\ subs' = [subs EXCEPT ![b] = @ \cup {c}]
      /\ replay' = [replay EXCEPT ![c] = snap]
      /\ opened' = [opened EXCEPT ![c] = @ \cup {b}]
      /\ opens' = [opens EXCEPT ![c] = @ + 1]
      /\ pc[c] = "recv"
      /\ pc' = [pc EXCEPT ![c] = WorkOr(snap, "replay")]
  BY DEF Open, Handling, Goto, posts, inbox
<1>4. \A d \in Conns : (pc'[d] = "notify" <=> pc[d] = "notify") /\ (pc'[d] = "off" => pc[d] = "off")
  BY <1>3 DEF DeliveryInv, TypeOK, WorkOr
<1> HIDE DEF snap
<1>5. Numbering'
  BY <1>1, <1>2, <1>3, <1>4 DEF DeliveryInv, TypeOK, Numbering
<1>6. OneSender'
  BY <1>3, <1>4 DEF DeliveryInv, OneSender
<1>7. OnlyOpened'
  <2> SUFFICES ASSUME NEW d \in Conns
               PROVE  /\ \A x \in Boxes : d \in subs'[x] => x \in opened'[d]
                      /\ \A m \in got'[d] \cup replay'[d] : boxOf'[m] \in opened'[d]
                      /\ \A e \in Conns : d \in fanout'[e] => boxOf'[posting'[e]] \in opened'[d]
                      /\ opens'[d] = 0 => opened'[d] = {}
                      /\ pc'[d] = "off" => opens'[d] = 0
    BY DEF OnlyOpened
  <2>1. CASE d = c
    <3>1. opens[c] \in Nat
      BY BoundsAssumption DEF DeliveryInv, TypeOK
    <3> QED
      BY <1>1, <1>3, <2>1, <3>1 DEF DeliveryInv, TypeOK, OnlyOpened, WorkOr
  <2>2. CASE d # c
    BY <1>3, <2>2 DEF DeliveryInv, TypeOK, OnlyOpened
  <2> QED BY <2>1, <2>2
<1>8. OwedOnce'
  <2> SUFFICES ASSUME NEW d \in Conns, opens'[d] <= 1
               PROVE  /\ twice'[d] = {}
                      /\ replay'[d] \cap got'[d] = {}
                      /\ \A e \in Conns : d \in fanout'[e] =>
                            posting'[e] \notin got'[d] \cup replay'[d]
    BY DEF OwedOnce
  <2>1. CASE d = c
    <3>1. opens[c] = 0
      BY <1>3, <2>1, BoundsAssumption DEF DeliveryInv, TypeOK
    <3>2. got[c] = {} /\ (\A e \in Conns : c \notin fanout[e]) /\ twice[c] = {}
      BY <3>1 DEF DeliveryInv, OnlyOpened, OwedOnce
    <3> QED BY <1>3, <2>1, <3>2
  <2>2. CASE d # c
    BY <1>3, <2>2 DEF DeliveryInv, TypeOK, OwedOnce
  <2> QED BY <2>1, <2>2
<1>9. NoLostMessage'
  <2> SUFFICES ASSUME NEW x \in DOMAIN mailboxes', NEW d \in subs'[x], alive'[d],
                      NEW m \in mailboxes'[x].messages
               PROVE  m \in got'[d] \/ Owed(d, m)'
    BY DEF NoLostMessage
  <2>1. d \in Conns /\ x \in Boxes
    BY <1>2 DEF DeliveryInv, TypeOK
  <2>2. CASE d = c /\ x = b
    BY <1>2, <1>3, <2>1, <2>2 DEF DeliveryInv, TypeOK, Owed
  <2>3. CASE d # c \/ x # b
    <3>1. d \in subs[x]
      BY <1>3, <2>1, <2>3 DEF DeliveryInv, TypeOK
    <3>2. x \in DOMAIN mailboxes /\ m \in mailboxes[x].messages
      BY <1>1, <1>2
    <3>3. m \in got[d] \/ Owed(d, m)
      BY <1>3, <3>1, <3>2 DEF DeliveryInv, NoLostMessage
    <3>4. replay[c] = {}
      BY <1>3 DEF DeliveryInv, TypeOK
    <3> QED BY <1>3, <2>1, <3>3, <3>4 DEF DeliveryInv, TypeOK, Owed
  <2> QED BY <2>2, <2>3
<1> QED BY <1>5, <1>6, <1>7, <1>8, <1>9 DEF DeliveryInv

LEMMA ReplayDelivery ==
    ASSUME DeliveryInv, TypeOK', NEW c \in Conns, Replay(c)
    PROVE  DeliveryInv'
<1>1. PICK m \in replay[c] :
         /\ Deliver(c, m)
         /\ replay' = [replay EXCEPT ![c] = replay[c] \ {m}]
         /\ pc' = [pc EXCEPT ![c] = WorkOr(replay[c] \ {m}, "replay")]
  BY DEF Replay, ReplayLeft, Goto
<1>2. /\ UNCHANGED <<mailboxes, subs, alive, fanout, posting, boxOf, nextMsg,
                     opened, opens>>
      /\ got' = [got EXCEPT ![c] = @ \cup {m}]
      /\ twice' = [twice EXCEPT ![c] = IF m \in got[c] THEN @ \cup {m} ELSE @]
      /\ pc[c] = "replay"
  BY <1>1 DEF Replay, Deliver, server, posts, history
<1>3. \A d \in Conns : (pc'[d] = "notify" <=> pc[d] = "notify") /\ (pc'[d] = "off" => pc[d] = "off")
  BY <1>1, <1>2 DEF DeliveryInv, TypeOK, WorkOr
<1>4. \A d \in Conns : got'[d] \cup replay'[d] = got[d] \cup replay[d]
  BY <1>1, <1>2 DEF DeliveryInv, TypeOK
<1>5. Numbering'
  BY <1>2, <1>3, <1>4 DEF DeliveryInv, Numbering
<1>6. OneSender'
  BY <1>2, <1>3 DEF DeliveryInv, OneSender
<1>7. OnlyOpened'
  BY <1>2, <1>3, <1>4 DEF DeliveryInv, OnlyOpened
<1>8. OwedOnce'
  <2> SUFFICES ASSUME NEW d \in Conns, opens'[d] <= 1
               PROVE  /\ twice'[d] = {}
                      /\ replay'[d] \cap got'[d] = {}
                      /\ \A e \in Conns : d \in fanout'[e] =>
                            posting'[e] \notin got'[d] \cup replay'[d]
    BY DEF OwedOnce
  <2>1. \A e \in Conns : d \in fanout'[e] => posting'[e] \notin got'[d] \cup replay'[d]
    BY <1>2, <1>4 DEF DeliveryInv, OwedOnce
  <2>2. twice'[d] = {} /\ replay'[d] \cap got'[d] = {}
    BY <1>1, <1>2 DEF DeliveryInv, TypeOK, OwedOnce
  <2> QED BY <2>1, <2>2
<1>9. NoLostMessage'
  <2> SUFFICES ASSUME NEW x \in DOMAIN mailboxes', NEW d \in subs'[x], alive'[d],
                      NEW k \in mailboxes'[x].messages
               PROVE  k \in got'[d] \/ Owed(d, k)'
    BY DEF NoLostMessage
  <2>1. d \in Conns
    BY <1>2 DEF DeliveryInv, TypeOK
  <2>2. k \in got[d] \/ Owed(d, k)
    BY <1>2 DEF DeliveryInv, NoLostMessage
  <2> QED BY <1>2, <1>4, <2>1, <2>2 DEF Owed
<1> QED BY <1>5, <1>6, <1>7, <1>8, <1>9 DEF DeliveryInv

LEMMA AddDelivery ==
    ASSUME DeliveryInv, TypeOK', NEW c \in Conns, Add(c)
    PROVE  DeliveryInv'
<1> DEFINE b == conn[c].mailbox
           S == subs[b]
<1>1. /\ b \in DOMAIN mailboxes /\ b \in Boxes
      /\ nextMsg \in MsgIds /\ S \subseteq Conns
  BY BoundsAssumption DEF Add, DeliveryInv, TypeOK, MsgIds
<1>2. /\ UNCHANGED <<subs, alive, replay, got, twice, opened, opens>>
      /\ boxOf' = [boxOf EXCEPT ![nextMsg] = b]
      /\ nextMsg' = nextMsg + 1
      /\ fanout' = [fanout EXCEPT ![c] = S]
      /\ posting' = [posting EXCEPT ![c] = IF S = {} THEN None ELSE nextMsg]
      /\ pc[c] = "recv"
      /\ pc' = [pc EXCEPT ![c] = IF S = {} THEN "recv" ELSE "notify"]
  BY DEF Add, Handling, Goto, WorkOr, Subscribers, inbox, history
<1>3. /\ DOMAIN mailboxes' = DOMAIN mailboxes
      /\ mailboxes'[b].messages = mailboxes[b].messages \cup {nextMsg}
      /\ \A x \in DOMAIN mailboxes : x # b => mailboxes'[x] = mailboxes[x]
  <2>1. mailboxes \in [DOMAIN mailboxes -> Mailbox]
    BY DEF DeliveryInv, TypeOK
  <2> QED BY <1>1, <2>1 DEF Add, Mailbox
<1>4. /\ \A m \in MsgIds : m < nextMsg => boxOf'[m] = boxOf[m] /\ m < nextMsg'
      /\ boxOf'[nextMsg] = b /\ nextMsg < nextMsg'
      /\ \A m \in MsgIds : m < nextMsg => m # nextMsg
      /\ MsgIds \subseteq Nat /\ nextMsg \in Nat /\ nextMsg' \in Nat
  BY <1>1, <1>2, BoundsAssumption DEF DeliveryInv, TypeOK, MsgIds
<1>5. \A d \in Conns :
         /\ got[d] \subseteq MsgIds /\ replay[d] \subseteq MsgIds
         /\ pc[d] = "notify" => posting[d] \in MsgIds
         /\ fanout[d] # {} => pc[d] = "notify"
  BY DEF DeliveryInv, TypeOK
<1>6. /\ pc' \in [Conns -> {"off", "recv", "reply", "replay", "notify", "done"}]
      /\ posting'[c] = (IF S = {} THEN None ELSE nextMsg)
      /\ fanout'[c] = S
      /\ pc'[c] = (IF S = {} THEN "recv" ELSE "notify")
      /\ \A d \in Conns : d # c =>
           /\ posting'[d] = posting[d]
           /\ fanout'[d] = fanout[d]
           /\ pc'[d] = pc[d]
  BY <1>2 DEF DeliveryInv, TypeOK
<1> HIDE DEF b, S
<1>7. Numbering'
  <2>1. \A x \in DOMAIN mailboxes' : \A m \in mailboxes'[x].messages :
            m < nextMsg' /\ boxOf'[m] = x
    <3> SUFFICES ASSUME NEW x \in DOMAIN mailboxes, NEW m \in mailboxes'[x].messages
                 PROVE  m < nextMsg' /\ boxOf'[m] = x
      BY <1>3
    <3>1. mailboxes[x].messages \subseteq MsgIds
      BY DEF DeliveryInv, TypeOK, Mailbox
    <3>2. CASE m \in mailboxes[x].messages
      <4>1. m \in MsgIds /\ m < nextMsg /\ boxOf[m] = x
        BY <3>1, <3>2 DEF DeliveryInv, Numbering
      <4> QED BY <1>4, <4>1
    <3>3. CASE x = b /\ m = nextMsg
      BY <1>4, <3>3
    <3> QED BY <1>3, <3>2, <3>3
  <2>2. ASSUME NEW d \in Conns, NEW m \in got'[d] \cup replay'[d] PROVE m < nextMsg'
    <3>1. m \in MsgIds /\ m \in got[d] \cup replay[d]
      BY <1>2, <1>5
    <3>2. m < nextMsg
      BY <3>1 DEF DeliveryInv, Numbering
    <3> QED BY <1>4, <3>1, <3>2
  <2>3. ASSUME NEW d \in Conns, pc'[d] = "notify"
        PROVE  posting'[d] < nextMsg' /\ boxOf'[posting'[d]] # None
    <3>1. CASE d = c
      BY <1>1, <1>4, <1>6, <2>3, <3>1, NoneAssumption
    <3>2. CASE d # c
      <4>1. pc[d] = "notify" /\ posting'[d] = posting[d] /\ posting[d] \in MsgIds
        BY <1>5, <1>6, <2>3, <3>2
      <4>2. posting[d] < nextMsg /\ boxOf[posting[d]] # None
        BY <4>1 DEF DeliveryInv, Numbering
      <4> QED BY <1>4, <4>1, <4>2
    <3> QED BY <3>1, <3>2
  <2> QED BY <2>1, <2>2, <2>3 DEF Numbering
<1>8. OneSender'
  BY <1>4, <1>5, <1>6 DEF DeliveryInv, Numbering, OneSender
<1>9. OnlyOpened'
  <2> SUFFICES ASSUME NEW d \in Conns
               PROVE  /\ \A x \in Boxes : d \in subs'[x] => x \in opened'[d]
                      /\ \A m \in got'[d] \cup replay'[d] : boxOf'[m] \in opened'[d]
                      /\ \A e \in Conns : d \in fanout'[e] => boxOf'[posting'[e]] \in opened'[d]
                      /\ opens'[d] = 0 => opened'[d] = {}
                      /\ pc'[d] = "off" => opens'[d] = 0
    BY DEF OnlyOpened
  <2>1. \A m \in got'[d] \cup replay'[d] : boxOf'[m] \in opened'[d]
    BY <1>2, <1>4, <1>5 DEF DeliveryInv, Numbering, OnlyOpened
  <2>2. ASSUME NEW e \in Conns, d \in fanout'[e] PROVE boxOf'[posting'[e]] \in opened'[d]
    <3>1. CASE e = c
      <4>1. d \in S /\ b \in opened[d]
        BY <1>1, <1>6, <2>2, <3>1 DEF S, DeliveryInv, OnlyOpened
      <4> QED BY <1>2, <1>4, <1>6, <3>1, <4>1
    <3>2. CASE e # c
      <4>1. d \in fanout[e] /\ pc[e] = "notify" /\ posting'[e] = posting[e]
        BY <1>5, <1>6, <2>2, <3>2
      <4>2. posting[e] \in MsgIds /\ posting[e] < nextMsg
        BY <1>5, <4>1 DEF DeliveryInv, Numbering
      <4>3. boxOf[posting[e]] \in opened[d]
        BY <4>1 DEF DeliveryInv, OnlyOpened
      <4> QED BY <1>2, <1>4, <4>1, <4>2, <4>3
    <3> QED BY <3>1, <3>2
  <2>3. pc'[d] = "off" => pc[d] = "off"
    BY <1>6
  <2> QED BY <1>2, <2>1, <2>2, <2>3 DEF DeliveryInv, OnlyOpened
<1>10. OwedOnce'
  <2> SUFFICES ASSUME NEW d \in Conns, opens'[d] <= 1, NEW e \in Conns, d \in fanout'[e]
               PROVE  posting'[e] \notin got'[d] \cup replay'[d]
    BY <1>2 DEF DeliveryInv, OwedOnce
  <2>1. CASE e = c
    BY <1>2, <1>4, <1>5, <1>6, <2>1 DEF DeliveryInv, Numbering
  <2>2. CASE e # c
    BY <1>2, <1>6, <2>2 DEF DeliveryInv, OwedOnce
  <2> QED BY <2>1, <2>2
<1>11. NoLostMessage'
  <2> SUFFICES ASSUME NEW x \in DOMAIN mailboxes', NEW d \in subs'[x], alive'[d],
                      NEW m \in mailboxes'[x].messages
               PROVE  m \in got'[d] \/ Owed(d, m)'
    BY DEF NoLostMessage
  <2>1. d \in Conns /\ x \in Boxes
    BY <1>2, <1>3 DEF DeliveryInv, TypeOK
  <2>2. CASE m \in mailboxes[x].messages
    <3>1. m \in got[d] \/ Owed(d, m)
      BY <1>2, <1>3, <2>2 DEF DeliveryInv, NoLostMessage
    <3>2. fanout[c] = {}
      BY <1>2 DEF DeliveryInv, TypeOK
    <3> QED BY <1>2, <1>6, <3>1, <3>2 DEF Owed
  <2>3. CASE x = b /\ m = nextMsg
    <3>1. d \in S
      BY <1>2, <2>3 DEF S
    <3> QED BY <1>6, <2>3, <3>1 DEF Owed
  <2> QED BY <1>3, <2>2, <2>3
<1> QED BY <1>7, <1>8, <1>9, <1>10, <1>11 DEF DeliveryInv

LEMMA NotifyDelivery ==
    ASSUME DeliveryInv, TypeOK', NEW c \in Conns, NEW d \in Conns, Notify(c, d)
    PROVE  DeliveryInv'
<1> DEFINE m == posting[c]
           left == fanout[c] \ {d}
<1>1. pc[c] = "notify" /\ d \in fanout[c] /\ m \in MsgIds
  BY DEF Notify, DeliveryInv, TypeOK
<1>2. /\ UNCHANGED <<mailboxes, alive, replay, boxOf, nextMsg, opened, opens>>
      /\ fanout' = [fanout EXCEPT ![c] = left]
      /\ posting' = [posting EXCEPT ![c] = IF left = {} THEN None ELSE m]
      /\ pc' = [pc EXCEPT ![c] = IF left = {} THEN "recv" ELSE "notify"]
  BY DEF Notify, Goto, WorkOr, FanoutLeft, posts, history
<1>3. /\ fanout'[c] = left
      /\ left # {} => posting'[c] = m
      /\ pc'[c] = (IF left = {} THEN "recv" ELSE "notify")
      /\ \A e \in Conns : e # c =>
           /\ posting'[e] = posting[e]
           /\ fanout'[e] = fanout[e]
           /\ pc'[e] = pc[e]
  BY <1>2 DEF DeliveryInv, TypeOK
<1>4. \A x \in Boxes : subs'[x] \subseteq subs[x]
  <2>1. subs \in [Boxes -> SUBSET Conns]
    BY DEF DeliveryInv, TypeOK
  <2>2. \/ UNCHANGED subs
        \/ subs' = [subs EXCEPT ![boxOf[posting[c]]] = @ \ {d}]
    BY DEF Notify
  <2> QED BY <2>1, <2>2
<1>5. /\ \A e \in Conns : e # d => got'[e] = got[e] /\ twice'[e] = twice[e]
      /\ got'[d] = got[d] \/ got'[d] = got[d] \cup {m}
      /\ alive[d] => got'[d] = got[d] \cup {m}
      /\ m \notin got[d] => twice'[d] = twice[d]
  BY DEF Notify, Deliver, inbox, DeliveryInv, TypeOK
<1> HIDE DEF m, left
<1>6. \A e \in Conns : pc'[e] = "notify" => pc[e] = "notify" /\ posting'[e] = posting[e]
  BY <1>1, <1>3 DEF m
<1>7. \A e \in Conns : /\ fanout'[e] \subseteq fanout[e]
                       /\ (fanout'[e] # {} => posting'[e] = posting[e])
  BY <1>3 DEF left, m
<1>8. Numbering'
  <2>1. m < nextMsg
    BY <1>1 DEF m, DeliveryInv, Numbering
  <2> QED BY <1>2, <1>5, <1>6, <2>1 DEF DeliveryInv, Numbering
<1>9. OneSender'
  BY <1>6 DEF DeliveryInv, OneSender
<1>10. OnlyOpened'
  <2>1. boxOf[m] \in opened[d]
    BY <1>1 DEF m, DeliveryInv, OnlyOpened
  <2>2. \A e \in Conns : pc'[e] = "off" => pc[e] = "off"
    BY <1>3
  <2> QED BY <1>2, <1>4, <1>5, <1>7, <2>1, <2>2 DEF DeliveryInv, OnlyOpened
<1>11. OwedOnce'
  <2> SUFFICES ASSUME NEW x \in Conns, opens'[x] <= 1
               PROVE  /\ twice'[x] = {}
                      /\ replay'[x] \cap got'[x] = {}
                      /\ \A e \in Conns : x \in fanout'[e] =>
                            posting'[e] \notin got'[x] \cup replay'[x]
    BY DEF OwedOnce
  <2>1. /\ twice[x] = {} /\ replay[x] \cap got[x] = {}
        /\ \A e \in Conns : x \in fanout[e] => posting[e] \notin got[x] \cup replay[x]
    BY <1>2 DEF DeliveryInv, OwedOnce
  <2>2. CASE x # d
    BY <1>2, <1>5, <1>7, <2>1, <2>2
  <2>3. CASE x = d
    <3>1. m \notin got[d] \cup replay[d]
      BY <1>1, <2>1, <2>3 DEF m
    <3>2. ASSUME NEW e \in Conns, d \in fanout'[e] PROVE posting'[e] # m /\ e # c
      <4>1. e # c
        BY <1>3, <3>2 DEF left
      <4>2. pc[e] = "notify"
        BY <1>7, <3>2 DEF DeliveryInv, TypeOK
      <4> QED BY <1>1, <1>3, <4>1, <4>2 DEF m, DeliveryInv, OneSender
    <3> QED BY <1>2, <1>5, <1>7, <2>1, <2>3, <3>1, <3>2
  <2> QED BY <2>2, <2>3
<1>12. NoLostMessage'
  <2> SUFFICES ASSUME NEW x \in DOMAIN mailboxes', NEW e \in subs'[x], alive'[e],
                      NEW k \in mailboxes'[x].messages
               PROVE  k \in got'[e] \/ Owed(e, k)'
    BY DEF NoLostMessage
  <2>1. e \in subs[x] /\ e \in Conns
    BY <1>2, <1>4 DEF DeliveryInv, TypeOK
  <2>2. k \in got[e] \/ Owed(e, k)
    BY <1>2, <2>1 DEF DeliveryInv, NoLostMessage
  <2>3. CASE k \in got[e] \/ k \in replay[e]
    BY <1>2, <1>5, <2>1, <2>3 DEF Owed
  <2>4. ASSUME NEW a \in Conns, posting[a] = k, e \in fanout[a]
        PROVE  k \in got'[e] \/ Owed(e, k)'
    <3>1. CASE a = c /\ e = d
      BY <1>2, <1>5, <2>4, <3>1 DEF m
    <3>2. CASE a # c \/ e # d
      <4>1. e \in fanout'[a]
        BY <1>3, <2>4, <3>2 DEF left
      <4> QED BY <1>7, <2>4, <4>1 DEF Owed
    <3> QED BY <3>1, <3>2
  <2> QED BY <2>2, <2>3, <2>4 DEF Owed
<1> QED BY <1>8, <1>9, <1>10, <1>11, <1>12 DEF DeliveryInv

LEMMA StepDelivery == DeliveryInv /\ [Next]_vars => DeliveryInv'
<1> SUFFICES ASSUME DeliveryInv, [Next]_vars PROVE DeliveryInv'
  OBVIOUS
<1>1. TypeOK /\ TypeOK'
  BY StepTypeOK DEF DeliveryInv
<1> USE DEF Quiet, Goto, Handling, server, posts, inbox, history
<1>2. ASSUME NEW c \in Conns, Connect(c) PROVE Quiet
  BY <1>1, <1>2 DEF Connect, TypeOK, DeliveryInv, OnlyOpened
<1>3. ASSUME NEW c \in Conns, Reply(c) \/ Query(c) \/ AddRefused(c) PROVE Quiet
  BY <1>1, <1>3 DEF Reply, Query, AddRefused, TypeOK
<1>4. ASSUME NEW c \in Conns, TaskEnds(c) PROVE Quiet
  BY <1>1, <1>4 DEF TaskEnds, Raises, Finally, Unsubscribed, TypeOK
<1>5. ASSUME NEW c \in Conns, Hangup(c) PROVE Quiet
  BY <1>1, <1>5 DEF Hangup, TypeOK
<1>6. ASSUME NEW c \in Conns, Bind(c) PROVE Quiet
  BY <1>1, <1>6 DEF Bind, TypeOK
<1>7. ASSUME NEW c \in Conns, Allocate(c) PROVE Quiet
  BY <1>1, <1>7 DEF Allocate, Put, NewMailbox, TypeOK
<1>8. ASSUME NEW c \in Conns, NEW n \in NameplateIds, Claim(c, n) PROVE Quiet
  <2>1. \/ UNCHANGED mailboxes
        \/ \E b \in Boxes : mailboxes' = Put(mailboxes, b, NewMailbox)
    BY <1>8 DEF Claim
  <2>2. \A b \in DOMAIN mailboxes' : \A m \in mailboxes'[b].messages :
           b \in DOMAIN mailboxes /\ m \in mailboxes[b].messages
    <3>1. CASE UNCHANGED mailboxes
      BY <3>1
    <3>2. ASSUME NEW b \in Boxes, mailboxes' = Put(mailboxes, b, NewMailbox)
          PROVE \A x \in DOMAIN mailboxes' : \A m \in mailboxes'[x].messages :
                   x \in DOMAIN mailboxes /\ m \in mailboxes[x].messages
      BY <3>2 DEF Put, NewMailbox
    <3> QED BY <2>1, <3>1, <3>2
  <2> QED BY <1>1, <1>8, <2>2 DEF Claim, TypeOK
<1>9. ASSUME NEW c \in Conns, NEW n \in NameplateIds \cup {None}, Release(c, n)
      PROVE Quiet
  BY <1>1, <1>9 DEF Release, TypeOK
<1>10. ASSUME NEW c \in Conns, Close(c) PROVE Quiet
  <2>1. mailboxes \in [DOMAIN mailboxes -> Mailbox]
    BY <1>1 DEF TypeOK
  <2>2. \A b \in DOMAIN mailboxes' : \A m \in mailboxes'[b].messages :
           b \in DOMAIN mailboxes /\ m \in mailboxes[b].messages
    BY <1>10, <2>1 DEF Close, CloseSide, Put, Del, Mailbox
  <2> QED BY <1>1, <1>10, <2>2 DEF Close, Unsubscribed, TypeOK
<1>11. CASE UNCHANGED vars
  <2>1. Quiet
    BY <1>11 DEF vars
  <2> QED BY <1>1, <2>1, QuietDelivery
<1>12. CASE Stop
  <2>1. Quiet
    BY <1>1, <1>12 DEF Stop, TypeOK
  <2> QED BY <1>1, <2>1, QuietDelivery
<1> QED
  BY <1>1, <1>2, <1>3, <1>4, <1>5, <1>6, <1>7, <1>8, <1>9, <1>10, <1>11, <1>12,
     QuietDelivery, OpenDelivery, ReplayDelivery, AddDelivery, NotifyDelivery
  DEF Next

\* For any number of connections and messages: a subscriber with an open socket
\* misses no message of its mailbox; one that opened once is sent none twice;
\* none is sent a message of a mailbox it did not open.
THEOREM Delivery == Spec => [](NoLostMessage /\ AtMostOnce /\ Isolation)
<1>1. DeliveryInv => NoLostMessage /\ AtMostOnce /\ Isolation
  BY DEF DeliveryInv, OwedOnce, OnlyOpened, AtMostOnce, Isolation
<1> QED BY <1>1, InitDelivery, StepDelivery, PTL DEF Spec

\* No number of interleaved fan-outs and replays sends a message twice to a
\* connection that opened one mailbox once.
THEOREM NeverTwice == Spec => []AtMostOnce
<1> QED BY Delivery, PTL

\* A connection is sent messages of the mailboxes it opened and of no other.
THEOREM Isolated == Spec => []Isolation
<1> QED BY Delivery, PTL
=============================================================================
