----------------------- MODULE MailboxBroadcast_proofs -----------------------
(***************************************************************************)
(* Proof that the server implements Broadcast, for any number of           *)
(* connections, mailboxes and messages.  Each action that touches a        *)
(* message is one step of Broadcast; the inductive invariant DeliveryInv   *)
(* supplies what the step needs: a message owed was not sent before, and   *)
(* one task only owes it.                                                  *)
(***************************************************************************)
EXTENDS MailboxBroadcast, MailboxServer_proofs

LEMMA SameDue ==
    ASSUME UNCHANGED <<replay, fanout, posting>> PROVE dueTo' = dueTo
  BY DEF dueTo, Owed

LEMMA SameKept == ASSUME UNCHANGED mailboxes PROVE keptOf' = keptOf
  BY DEF keptOf, BoxNow

LEMMA SameMember == ASSUME UNCHANGED subs PROVE memberOf' = memberOf
  BY DEF memberOf

\* A new, empty mailbox keeps what no mailbox keeps.
LEMMA NewKept ==
    ASSUME TypeOK, NEW b \in Boxes \ usedBoxes,
           mailboxes' = Put(mailboxes, b, NewMailbox)
    PROVE  keptOf' = keptOf
<1>1. b \notin DOMAIN mailboxes
  BY DEF TypeOK
<1>2. \A x \in Boxes : BoxNow(x)' = BoxNow(x)
  BY <1>1 DEF BoxNow, Put
<1> QED BY <1>2 DEF keptOf

\* A handler's move to another await shows in no status.
LEMMA SameStatus ==
    ASSUME TypeOK, NEW c \in Conns, NEW l, l # "off", pc[c] # "off",
           pc' = [pc EXCEPT ![c] = l], UNCHANGED alive
    PROVE  statusOf' = statusOf
  BY DEF statusOf, TypeOK

\* A step that leaves all of this alone is a stutter.
Silent ==
    /\ statusOf' = statusOf /\ memberOf' = memberOf /\ keptOf' = keptOf
    /\ dueTo' = dueTo /\ got' = got /\ nextMsg' = nextMsg

\* Unsubscribing takes one mailbox from one connection.
LEMMA LeaveMember ==
    ASSUME TypeOK, NEW c \in Conns, subs' = Unsubscribed(c)
    PROVE  memberOf' = [memberOf EXCEPT ![c] = @ \ {conn[c].mailbox}]
<1>1. \A d \in Conns, b \in Boxes :
        d \in subs'[b] <=> d \in subs[b] /\ ~(d = c /\ b = conn[c].mailbox)
  BY DEF Unsubscribed, TypeOK
<1> QED BY <1>1 DEF memberOf

LEMMA BInit == Init => B!Init
<1> SUFFICES ASSUME Init PROVE B!Init
  OBVIOUS
<1>1. dueTo = [c \in Conns |-> {}]
  BY NoneAssumption DEF Init, dueTo, Owed, MsgIds
<1>2. keptOf = [b \in Boxes |-> {}]
  BY DEF Init, keptOf, BoxNow, NewMailbox
<1>3. statusOf = [c \in Conns |-> "new"] /\ memberOf = [c \in Conns |-> {}]
  BY DEF Init, statusOf, memberOf
<1> QED BY <1>1, <1>2, <1>3 DEF Init, B!Init

LEMMA BConnect ==
    ASSUME TypeOK, NEW c \in Conns, Connect(c)
    PROVE  B!Arrive(c)
<1>1. statusOf[c] = "new" /\ statusOf' = [statusOf EXCEPT ![c] = "open"]
  BY DEF Connect, Goto, statusOf, TypeOK
<1>2. dueTo' = dueTo /\ keptOf' = keptOf /\ memberOf' = memberOf
  BY SameDue, SameKept, SameMember DEF Connect, server
<1> QED BY <1>1, <1>2 DEF Connect, B!Arrive, server, posts, inbox

LEMMA BDepart ==
    ASSUME TypeOK, (\E c \in Conns : Hangup(c)) \/ Stop
    PROVE  B!Depart \/ Silent
<1>1. dueTo' = dueTo /\ keptOf' = keptOf /\ memberOf' = memberOf
  BY SameDue, SameKept, SameMember DEF Hangup, Stop, server
<1>2. /\ pc' = pc
      /\ \A c \in Conns : alive'[c] => alive[c]
  BY DEF Hangup, Stop, TypeOK
<1>3. /\ statusOf' \in [Conns -> {"new", "open", "gone"}]
      /\ \A c \in Conns : statusOf'[c] # statusOf[c] =>
           statusOf[c] = "open" /\ statusOf'[c] = "gone"
  BY <1>2 DEF statusOf
<1> QED BY <1>1, <1>3 DEF Hangup, Stop, B!Depart, posts, inbox

LEMMA BOpen ==
    ASSUME DeliveryInv, NEW c \in Conns, NEW b \in Boxes, Open(c, b)
    PROVE  B!Join(c, b)
<1>0. TypeOK
  BY DEF DeliveryInv
<1> DEFINE snap == Snapshot(b)
<1>1. pc[c] = "recv" /\ replay[c] = {} /\ fanout[c] = {} /\ posting[c] = None
  BY <1>0 DEF Open, Handling, TypeOK
<1>2. snap = keptOf[b]
  BY DEF Snapshot, keptOf
<1>3. replay' = [replay EXCEPT ![c] = snap] /\ UNCHANGED <<fanout, posting>>
  BY DEF Open
<1>4. snap \subseteq MsgIds
  BY <1>0 DEF Snapshot, BoxNow, NewMailbox, TypeOK, Mailbox
<1>5. \A d \in Conns, m \in MsgIds :
        Owed(d, m)' <=> Owed(d, m) \/ (d = c /\ m \in snap)
  <2> HIDE DEF snap
  <2> QED BY <1>0, <1>1, <1>3 DEF Owed, TypeOK
<1>6. dueTo' = [dueTo EXCEPT ![c] = @ \cup keptOf[b]]
  <2> HIDE DEF snap
  <2> QED BY <1>2, <1>4, <1>5 DEF dueTo
<1>7. memberOf' = [memberOf EXCEPT ![c] = @ \cup {b}]
  <2>1. subs' = [subs EXCEPT ![b] = @ \cup {c}] /\ subs \in [Boxes -> SUBSET Conns]
    BY <1>0 DEF Open, TypeOK
  <2>2. \A d \in Conns, x \in Boxes : d \in subs'[x] <=> d \in subs[x] \/ (d = c /\ x = b)
    BY <2>1
  <2> QED BY <2>2 DEF memberOf
<1>8. keptOf' = keptOf
  <2>1. mailboxes' = Put(mailboxes, b, [BoxNow(b) EXCEPT !.sides = @ \cup {conn[c].side}])
    BY DEF Open
  <2>2. BoxNow(b)'.messages = BoxNow(b).messages
    BY ZenonT(60), <1>0, <2>1 DEF BoxNow, Put, NewMailbox, TypeOK, Mailbox
  <2>3. \A x \in Boxes : x # b => BoxNow(x)' = BoxNow(x)
    BY <2>1 DEF BoxNow, Put
  <2> QED BY <2>2, <2>3 DEF keptOf
<1>9. pc' = [pc EXCEPT ![c] = WorkOr(snap, "replay")] /\ UNCHANGED alive
  BY DEF Open, Goto
<1>10. statusOf' = statusOf /\ statusOf[c] # "new"
  <2>1. WorkOr(snap, "replay") # "off"
    BY DEF WorkOr
  <2>2. statusOf' = statusOf
    BY <1>0, <1>1, <1>9, <2>1, SameStatus
  <2> QED BY <1>1, <2>2 DEF statusOf
<1>11. UNCHANGED <<got, nextMsg>>
  BY DEF Open, posts, inbox
<1> QED BY <1>6, <1>7, <1>8, <1>10, <1>11 DEF B!Join

LEMMA BReplay ==
    ASSUME DeliveryInv, NEW c \in Conns, Replay(c)
    PROVE  \E m \in MsgIds : B!Send(c, m)
<1>0. TypeOK /\ opens[c] <= 1
  BY OpensAssumption, BoundsAssumption DEF DeliveryInv, TypeOK
<1>1. PICK m \in replay[c] :
         /\ got' = [got EXCEPT ![c] = @ \cup {m}]
         /\ replay' = [replay EXCEPT ![c] = replay[c] \ {m}]
         /\ pc' = [pc EXCEPT ![c] = WorkOr(replay[c] \ {m}, "replay")]
  BY DEF Replay, ReplayLeft, Goto, Deliver
<1>2. /\ UNCHANGED <<mailboxes, subs, alive, fanout, posting, nextMsg>>
      /\ pc[c] = "replay" /\ alive[c]
  BY DEF Replay, server, posts
<1>3. m \in MsgIds /\ m \notin got[c]
  BY <1>0, <1>1 DEF DeliveryInv, TypeOK, OwedOnce
<1>4. \A d \in Conns : c \in fanout[d] => posting[d] # m
  BY <1>0, <1>1 DEF DeliveryInv, OwedOnce
<1>5. \A d \in Conns, k \in MsgIds : Owed(d, k)' <=> Owed(d, k) /\ ~(d = c /\ k = m)
  <2>1. replay \in [Conns -> SUBSET MsgIds]
    BY <1>0 DEF TypeOK
  <2> QED BY <1>1, <1>2, <1>4, <2>1 DEF Owed
<1>6. dueTo' = [dueTo EXCEPT ![c] = @ \ {m}]
  BY <1>5 DEF dueTo
<1>7. m \in dueTo[c]
  BY <1>1, <1>3 DEF dueTo, Owed
<1>8. keptOf' = keptOf /\ memberOf' = memberOf
  BY <1>2, SameKept, SameMember
<1>9. statusOf' = statusOf /\ statusOf[c] = "open"
  <2>1. WorkOr(replay[c] \ {m}, "replay") # "off"
    BY DEF WorkOr
  <2>2. statusOf' = statusOf
    BY <1>0, <1>1, <1>2, <2>1, SameStatus
  <2> QED BY <1>2, <2>2 DEF statusOf
<1>10. B!Send(c, m)
  BY <1>1, <1>2, <1>3, <1>6, <1>7, <1>8, <1>9 DEF B!Send
<1> QED BY <1>3, <1>10

LEMMA BAdd ==
    ASSUME DeliveryInv, NEW c \in Conns, Add(c)
    PROVE  \E b \in Boxes : B!Post(b)
<1>0. TypeOK
  BY DEF DeliveryInv
<1>a. PICK b : b = conn[c].mailbox
  OBVIOUS
<1>b. PICK S : S = subs[b]
  OBVIOUS
<1>c. PICK n : n = nextMsg
  OBVIOUS
<1>1. /\ b \in DOMAIN mailboxes /\ b \in Boxes /\ S \subseteq Conns
      /\ n \in MsgIds /\ n \in Nat /\ n <= MaxMsgs
      /\ pc[c] = "recv" /\ replay[c] = {} /\ fanout[c] = {} /\ posting[c] = None
  <2>1. b \in DOMAIN mailboxes /\ n <= MaxMsgs /\ pc[c] = "recv"
    BY <1>a, <1>c DEF Add, Handling
  <2>2. n \in MsgIds /\ n \in Nat
    BY <1>0, <1>c, <2>1, BoundsAssumption DEF TypeOK, MsgIds
  <2>3. replay[c] = {} /\ fanout[c] = {} /\ posting[c] = None
    BY <1>0, <2>1 DEF TypeOK
  <2>4. b \in Boxes /\ S \subseteq Conns
    BY <1>0, <1>b, <2>1 DEF TypeOK
  <2> QED BY <2>1, <2>2, <2>3, <2>4
<1>2. /\ mailboxes' = [mailboxes EXCEPT ![b].messages = @ \cup {n}]
      /\ fanout' = [fanout EXCEPT ![c] = S]
      /\ posting' = [posting EXCEPT ![c] = IF S = {} THEN None ELSE n]
      /\ pc' = [pc EXCEPT ![c] = WorkOr(S, "notify")]
      /\ nextMsg' = n + 1
      /\ UNCHANGED <<subs, alive, replay, got>>
  BY <1>a, <1>b, <1>c DEF Add, Subscribers, Goto, inbox
<1>3. \A d \in Conns : posting[d] # n
  BY <1>0, <1>c, <1>1, NoneAssumption DEF DeliveryInv, Numbering, TypeOK
<1>4. \A d \in Conns, k \in MsgIds : Owed(d, k)' <=> Owed(d, k) \/ (d \in S /\ k = n)
  <2>1. fanout \in [Conns -> SUBSET Conns] /\ posting \in [Conns -> MsgIds \cup {None}]
    BY <1>0 DEF TypeOK
  <2>2. n # None /\ \A k \in MsgIds : k # None
    BY <1>1, NoneAssumption DEF MsgIds
  <2>3. ASSUME NEW d \in Conns, NEW k \in MsgIds, Owed(d, k)'
        PROVE  Owed(d, k) \/ (d \in S /\ k = n)
    BY <1>1, <1>2, <2>1, <2>2, <2>3 DEF Owed
  <2>4. ASSUME NEW d \in Conns, NEW k \in MsgIds, Owed(d, k)
        PROVE  Owed(d, k)'
    BY <1>1, <1>2, <2>1, <2>2, <2>4 DEF Owed
  <2>5. ASSUME NEW d \in Conns, d \in S PROVE Owed(d, n)'
    BY <1>1, <1>2, <2>1, <2>5 DEF Owed
  <2> QED BY <2>3, <2>4, <2>5
<1>5. dueTo' = [d \in Conns |-> IF b \in memberOf[d] THEN dueTo[d] \cup {n}
                                ELSE dueTo[d]]
  <2>1. \A d \in Conns : b \in memberOf[d] <=> d \in S
    BY <1>1, <1>b DEF memberOf
  <2> QED BY <1>1, <1>4, <2>1 DEF dueTo
<1>6. keptOf' = [keptOf EXCEPT ![b] = @ \cup {n}]
  <2>1. mailboxes \in [DOMAIN mailboxes -> Mailbox]
    BY <1>0 DEF TypeOK
  <2>2. DOMAIN mailboxes' = DOMAIN mailboxes
    BY <1>2
  <2>3. mailboxes'[b].messages = mailboxes[b].messages \cup {n}
    BY <1>1, <1>2, <2>1 DEF Mailbox
  <2>4. \A x \in DOMAIN mailboxes : x # b => mailboxes'[x] = mailboxes[x]
    BY <1>2
  <2>5. BoxNow(b)'.messages = BoxNow(b).messages \cup {n}
    BY <1>1, <2>2, <2>3 DEF BoxNow
  <2>6. \A x \in Boxes : x # b => BoxNow(x)'.messages = BoxNow(x).messages
    BY <2>2, <2>4 DEF BoxNow
  <2> QED BY <1>1, <2>5, <2>6 DEF keptOf
<1>7. statusOf' = statusOf /\ memberOf' = memberOf
  <2>1. WorkOr(S, "notify") # "off"
    BY DEF WorkOr
  <2> QED BY <1>0, <1>1, <1>2, <2>1, SameStatus, SameMember
<1>8. /\ nextMsg - 1 < MaxMsgs /\ (nextMsg - 1) + 1 = n
      /\ nextMsg' - 1 = (nextMsg - 1) + 1
  BY <1>c, <1>1, <1>2, BoundsAssumption
<1>9. B!Post(b)
  BY <1>2, <1>5, <1>6, <1>7, <1>8 DEF B!Post
<1> QED BY <1>1, <1>9

LEMMA BNotify ==
    ASSUME DeliveryInv, NEW c \in Conns, NEW d \in Conns, Notify(c, d)
    PROVE  (\E m \in MsgIds : B!Send(d, m)) \/ B!Forget(d) \/ Silent
<1>0. TypeOK /\ opens[d] <= 1
  BY OpensAssumption, BoundsAssumption DEF DeliveryInv, TypeOK
<1> DEFINE m == posting[c]
           left == fanout[c] \ {d}
<1>1. /\ pc[c] = "notify" /\ d \in fanout[c] /\ m \in MsgIds
      /\ boxOf[m] \in Boxes
  BY <1>0 DEF Notify, DeliveryInv, TypeOK, Numbering
<1>2. /\ fanout' = [fanout EXCEPT ![c] = left]
      /\ posting' = [posting EXCEPT ![c] = IF left = {} THEN None ELSE @]
      /\ pc' = [pc EXCEPT ![c] = WorkOr(left, "notify")]
      /\ UNCHANGED <<mailboxes, alive, replay, nextMsg>>
  BY DEF Notify, FanoutLeft, Goto, posts
<1>3. m \notin got[d] \cup replay[d]
  BY <1>0, <1>1 DEF DeliveryInv, OwedOnce
<1>4. \A e \in Conns : e # c => ~(posting[e] = m /\ d \in fanout[e])
  BY <1>0, <1>1 DEF DeliveryInv, OneSender, TypeOK
<1>5. m # None
  BY <1>1, NoneAssumption DEF MsgIds
<1>6. m \in dueTo[d]
  BY <1>1 DEF dueTo, Owed
<1>7. \A e \in Conns, k \in MsgIds : Owed(e, k)' <=> Owed(e, k) /\ ~(e = d /\ k = m)
  <2>1. fanout \in [Conns -> SUBSET Conns] /\ posting \in [Conns -> MsgIds \cup {None}]
    BY <1>0 DEF TypeOK
  <2>2. \A k \in MsgIds : k # None
    BY NoneAssumption DEF MsgIds
  <2>3. ASSUME NEW e \in Conns, NEW k \in MsgIds, Owed(e, k)', ~(k \in replay[e])
        PROVE  Owed(e, k) /\ ~(e = d /\ k = m)
    <3>1. PICK f \in Conns : posting'[f] = k /\ e \in fanout'[f]
      BY <1>2, <2>3 DEF Owed
    <3>2. CASE f = c
      BY <1>2, <2>1, <2>2, <3>1, <3>2 DEF Owed
    <3>3. CASE f # c
      <4>1. posting[f] = k /\ e \in fanout[f]
        BY <1>2, <2>1, <3>1, <3>3
      <4> QED BY <1>4, <3>3, <4>1 DEF Owed
    <3> QED BY <3>2, <3>3
  <2>4. ASSUME NEW e \in Conns, NEW k \in MsgIds, k \in replay[e]
        PROVE  Owed(e, k)' /\ Owed(e, k) /\ ~(e = d /\ k = m)
    BY <1>2, <1>3, <2>4 DEF Owed
  <2>5. ASSUME NEW e \in Conns, NEW k \in MsgIds, Owed(e, k), ~(e = d /\ k = m),
               ~(k \in replay[e])
        PROVE  Owed(e, k)'
    <3>1. PICK f \in Conns : posting[f] = k /\ e \in fanout[f]
      BY <2>5 DEF Owed
    <3>2. CASE f = c
      BY <1>2, <2>1, <2>5, <3>1, <3>2 DEF Owed
    <3>3. CASE f # c
      BY <1>2, <2>1, <3>1, <3>3 DEF Owed
    <3> QED BY <3>2, <3>3
  <2> HIDE DEF m, left
  <2> QED BY <2>3, <2>4, <2>5
<1>8. dueTo' = [dueTo EXCEPT ![d] = @ \ {m}]
  BY <1>7 DEF dueTo
<1>9. keptOf' = keptOf
  BY <1>2, SameKept
<1>10. statusOf' = statusOf
  <2>1. WorkOr(left, "notify") # "off"
    BY DEF WorkOr
  <2> QED BY <1>0, <1>1, <1>2, <2>1, SameStatus
<1>11. pc[d] # "off"
  <2>1. opened[d] # {}
    BY <1>1 DEF DeliveryInv, OnlyOpened
  <2> QED BY <2>1 DEF DeliveryInv, OnlyOpened
<1>12. CASE alive[d]
  <2>1. got' = [got EXCEPT ![d] = @ \cup {m}] /\ UNCHANGED subs
    BY <1>12 DEF Notify, Deliver
  <2>2. statusOf[d] = "open" /\ memberOf' = memberOf
    BY <1>11, <1>12, <2>1, SameMember DEF statusOf
  <2>3. B!Send(d, m)
    BY <1>2, <1>3, <1>6, <1>8, <1>9, <1>10, <2>1, <2>2 DEF B!Send
  <2> QED BY <1>1, <2>3
<1>13. CASE ~alive[d]
  <2>1. got' = got /\ subs' = [subs EXCEPT ![boxOf[m]] = @ \ {d}]
    BY <1>13 DEF Notify, inbox
  <2>2. statusOf[d] = "gone"
    BY <1>11, <1>13 DEF statusOf
  <2>3. \A e \in Conns, x \in Boxes : e \in subs'[x] <=> e \in subs[x] /\ ~(e = d /\ x = boxOf[m])
    BY <1>0, <1>1, <2>1 DEF TypeOK
  <2>4. memberOf' = [memberOf EXCEPT ![d] = @ \ {boxOf[m]}]
    BY <2>3 DEF memberOf
  <2> QED BY <1>2, <1>8, <1>9, <1>10, <2>1, <2>2, <2>4 DEF B!Forget
<1> QED BY <1>12, <1>13

LEMMA BClose ==
    ASSUME TypeOK, NEW c \in Conns, Close(c)
    PROVE  (\E b \in Boxes : B!Leave(c, b)) \/ Silent
<1>a. PICK b : b = conn[c].mailbox
  OBVIOUS
<1>1. /\ subs' = Unsubscribed(c) /\ pc[c] = "recv"
      /\ pc' = [pc EXCEPT ![c] = "reply"]
      /\ UNCHANGED <<alive, replay, fanout, posting, nextMsg, got>>
  BY DEF Close, Handling, Goto, posts, inbox
<1>2. memberOf' = [memberOf EXCEPT ![c] = @ \ {b}]
  BY <1>a, <1>1, LeaveMember
<1>3. dueTo' = dueTo /\ statusOf' = statusOf
  BY <1>1, SameDue, SameStatus
<1>4. mailboxes \in [DOMAIN mailboxes -> Mailbox]
  BY DEF TypeOK
<1>5. CASE b \in Boxes
  <2>1. keptOf' \in {keptOf, [keptOf EXCEPT ![b] = {}]}
    <3>1. CASE b \notin DOMAIN mailboxes
      BY <1>a, <3>1, SameKept DEF Close
    <3>2. CASE b \in DOMAIN mailboxes
      <4>1. PICK l : mailboxes' = IF l = {} THEN Del(mailboxes, b)
                ELSE Put(mailboxes, b, [mailboxes[b] EXCEPT !.sides = l])
        BY <1>a, <3>2 DEF Close, CloseSide
      <4>2. \A x \in Boxes : x # b => BoxNow(x)'.messages = BoxNow(x).messages
        BY <4>1 DEF BoxNow, Put, Del
      <4>3. CASE l = {}
        <5>1. BoxNow(b)'.messages = {}
          BY <4>1, <4>3 DEF BoxNow, Del, NewMailbox
        <5> QED BY <1>5, <4>2, <5>1 DEF keptOf
      <4>4. CASE l # {}
        <5>1. BoxNow(b)'.messages = BoxNow(b).messages
          BY <1>4, <3>2, <4>1, <4>4 DEF BoxNow, Put, Mailbox
        <5> QED BY <4>2, <5>1 DEF keptOf
      <4> QED BY <4>3, <4>4
    <3> QED BY <3>1, <3>2
  <2> QED BY <1>1, <1>2, <1>3, <1>5, <2>1 DEF B!Leave
<1>6. CASE b \notin Boxes
  <2>1. b \notin DOMAIN mailboxes
    BY <1>6 DEF TypeOK
  <2>2. keptOf' = keptOf
    BY <1>a, <2>1, SameKept DEF Close
  <2>3. memberOf' = memberOf
    BY ZenonT(60), <1>2, <1>6 DEF memberOf
  <2> QED BY <1>1, <1>3, <2>2, <2>3 DEF Silent
<1> QED BY <1>5, <1>6

LEMMA BTaskEnds ==
    ASSUME TypeOK, NEW c \in Conns, TaskEnds(c)
    PROVE  B!Forget(c)
<1>1. /\ pc[c] # "off" /\ ~alive[c] /\ fanout[c] = {}
      /\ subs' = Unsubscribed(c) /\ pc' = [pc EXCEPT ![c] = "done"]
      /\ replay' = [replay EXCEPT ![c] = {}]
      /\ UNCHANGED <<mailboxes, alive, fanout, posting, nextMsg, got>>
  BY DEF TaskEnds, Raises, Finally, Goto, posts, inbox, TypeOK
<1>2. statusOf' = statusOf /\ statusOf[c] = "gone"
  <2>1. statusOf' = statusOf
    BY <1>1, SameStatus
  <2> QED BY <1>1, <2>1 DEF statusOf
<1>3. keptOf' = keptOf
  BY <1>1, SameKept
<1>4. memberOf' = [memberOf EXCEPT ![c] = @ \ {conn[c].mailbox}]
  BY <1>1, LeaveMember
<1>a. replay \in [Conns -> SUBSET MsgIds]
  BY DEF TypeOK
<1>5. /\ \A d \in Conns, m \in MsgIds : d # c => (Owed(d, m)' <=> Owed(d, m))
      /\ \A m \in MsgIds : Owed(c, m)' => Owed(c, m)
  BY <1>1, <1>a DEF Owed
<1>6. dueTo'[c] \subseteq dueTo[c] /\ dueTo' = [dueTo EXCEPT ![c] = dueTo'[c]]
  BY <1>5 DEF dueTo
<1>7. (memberOf[c] \ {conn[c].mailbox}) \subseteq memberOf[c]
  OBVIOUS
<1>8. \E M \in SUBSET memberOf[c] : memberOf' = [memberOf EXCEPT ![c] = M]
  BY <1>4, <1>7
<1>9. \E D \in SUBSET dueTo[c] : dueTo' = [dueTo EXCEPT ![c] = D]
  BY <1>6
<1> QED BY <1>1, <1>2, <1>3, <1>8, <1>9 DEF B!Forget

\* Handlers that touch no message: nameplates, sides, replies.
LEMMA BSilent ==
    ASSUME TypeOK, NEW c \in Conns,
           \/ Reply(c) \/ Query(c) \/ AddRefused(c) \/ Bind(c) \/ Allocate(c)
           \/ \E n \in NameplateIds : Claim(c, n)
           \/ \E n \in NameplateIds \cup {None} : Release(c, n)
    PROVE  Silent
<1>1. /\ pc[c] # "off" /\ \E l : l # "off" /\ pc' = [pc EXCEPT ![c] = l]
      /\ UNCHANGED <<subs, alive, replay, fanout, posting, nextMsg, got>>
  BY DEF Reply, Query, AddRefused, Bind, Allocate, Claim, Release, Handling,
         Goto, server, posts, inbox
<1>2. \/ UNCHANGED mailboxes
      \/ \E b \in Boxes \ usedBoxes : mailboxes' = Put(mailboxes, b, NewMailbox)
  BY DEF Reply, Query, AddRefused, Bind, Allocate, Claim, Release, server
<1>3. keptOf' = keptOf
  BY <1>2, SameKept, NewKept
<1> QED BY <1>1, <1>3, SameDue, SameMember, SameStatus DEF Silent

\* Every step of the server is a step of Broadcast or leaves it unchanged.
LEMMA BStep == DeliveryInv /\ [Next]_vars => [B!Next]_(B!bvars)
<1> SUFFICES ASSUME DeliveryInv, [Next]_vars PROVE B!Next \/ UNCHANGED B!bvars
  OBVIOUS
<1>0. TypeOK
  BY DEF DeliveryInv
<1>1. ASSUME Silent PROVE UNCHANGED B!bvars
  BY <1>1 DEF Silent, B!bvars
<1>2. B!Msgs = MsgIds
  BY DEF B!Msgs, MsgIds
<1>3. CASE UNCHANGED vars
  <2>1. UNCHANGED <<mailboxes, subs, alive, pc, replay, fanout, posting, nextMsg, got>>
    BY <1>3 DEF vars
  <2>2. statusOf' = statusOf
    BY <2>1 DEF statusOf
  <2>3. Silent
    BY <2>1, <2>2, SameDue, SameKept, SameMember DEF Silent
  <2> QED BY <1>1, <2>3
<1>4. CASE Stop
  BY <1>0, <1>1, <1>4, BDepart DEF B!Next
<1>5. ASSUME NEW c \in Conns, Connect(c) \/ Hangup(c) \/ TaskEnds(c) \/ Close(c)
      PROVE  B!Next \/ UNCHANGED B!bvars
  BY <1>0, <1>1, <1>5, BConnect, BDepart, BTaskEnds, BClose DEF B!Next
<1>6. ASSUME NEW c \in Conns,
             \/ Reply(c) \/ Query(c) \/ AddRefused(c) \/ Bind(c) \/ Allocate(c)
             \/ \E n \in NameplateIds : Claim(c, n)
             \/ \E n \in NameplateIds \cup {None} : Release(c, n)
      PROVE  UNCHANGED B!bvars
  BY <1>0, <1>1, <1>6, BSilent
<1>7. ASSUME NEW c \in Conns, NEW b \in Boxes, Open(c, b) PROVE B!Next
  BY <1>7, BOpen DEF B!Next
<1>8. ASSUME NEW c \in Conns, Replay(c) \/ Add(c) PROVE B!Next
  BY <1>2, <1>8, BReplay, BAdd DEF B!Next
<1>9. ASSUME NEW c \in Conns, NEW d \in Conns, Notify(c, d)
      PROVE  B!Next \/ UNCHANGED B!bvars
  BY <1>1, <1>2, <1>9, BNotify DEF B!Next
<1> QED BY <1>3, <1>4, <1>5, <1>6, <1>7, <1>8, <1>9 DEF Next

\* For any number of connections, mailboxes and messages, the mailbox server
\* implements Broadcast: whatever its tasks interleave, a client that opens one
\* mailbox once is sent each message of it exactly once as long as it stays.
THEOREM Implements == Spec => ImplementsBroadcast
<1>1. Init => B!Init
  BY BInit
<1>2. DeliveryInv /\ [Next]_vars => [B!Next]_(B!bvars)
  BY BStep
<1> QED BY <1>1, <1>2, InitDelivery, StepDelivery, PTL
        DEF Spec, ImplementsBroadcast, B!Spec
=============================================================================
