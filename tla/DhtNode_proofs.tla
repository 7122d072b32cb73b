--------------------------- MODULE DhtNode_proofs ---------------------------
(***************************************************************************)
(* Proofs about DhtNode, for any set of nodes, keys and calls and any      *)
(* number of transaction ids: the types, the table of futures, the answers *)
(* and the reports of lookups and publishes.                               *)
(*                                                                         *)
(* DhtInv is inductive.  Beside the properties it proves it says which     *)
(* steps wait at which point (Progress), that the queries of a running     *)
(* node have different numbers (Numbered), that an id is registered for    *)
(* the newest number that took it (Newest), which query a datagram belongs *)
(* to (Traced, Received), and that what it says was stored (Backed).       *)
(***************************************************************************)
EXTENDS DhtNode, TLAPS

USE OperationAssumption, SizeAssumption, BootstrapAssumption, NoneAssumption

LEMMA TidType == \A no \in Nat : Tid(no) \in Tids
  BY DEF Tid, Tids

LEMMA TidZero == 0 \in Tids
  BY DEF Tids

\* Two numbers less than TidSpace apart have different ids.
LEMMA TidsDiffer ==
  ASSUME NEW a \in Nat, NEW b \in Nat, a < b, b < a + TidSpace
  PROVE  Tid(a) # Tid(b)
<1> DEFINE n == TidSpace
<1>1. n \in Nat \ {0}
  OBVIOUS
<1> HIDE DEF n
<1>2. a = n * (a \div n) + (a % n) /\ b = n * (b \div n) + (b % n)
  BY <1>1
<1>3. (a \div n) \in Nat /\ (b \div n) \in Nat
  BY <1>1
<1> DEFINE i == a \div n  j == b \div n
<1> SUFFICES ASSUME a % n = b % n PROVE FALSE
  BY DEF Tid, n
<1>4. b - a = n * j - n * i
  BY <1>2, <1>1, <1>3
<1>5. i \in Nat /\ j \in Nat
  BY <1>3
<1>6. b - a > 0 /\ b - a < n
  BY <1>1 DEF n
<1> HIDE DEF i, j
<1>7. CASE j <= i
  BY <1>7, <1>1, <1>4, <1>5, <1>6
<1>8. CASE j >= i + 1
  BY <1>8, <1>1, <1>4, <1>5, <1>6
<1> QED
  BY <1>5, <1>7, <1>8

LEMMA TidWraps ==
  ASSUME NEW a \in Nat
  PROVE  Tid(a + TidSpace) = Tid(a)
<1> DEFINE n == TidSpace  b == a + n
<1>1. n \in Nat \ {0} /\ b \in Nat
  OBVIOUS
<1> DEFINE i == a \div n  j == b \div n
<1>2. a = n * i + (a % n) /\ b = n * j + (b % n) /\ i \in Nat /\ j \in Nat
  BY <1>1
<1>3. a % n \in Nat /\ b % n \in Nat /\ a % n < n /\ b % n < n
  BY <1>1
<1>4. b = a + n
  OBVIOUS
<1> DEFINE r == a % n  s == b % n
<1> SUFFICES r = s
  BY DEF Tid
<1> HIDE DEF n, b, i, j, r, s
<1>5. a = n * i + r /\ b = n * j + s /\ i \in Nat /\ j \in Nat /\ r \in Nat /\ s \in Nat
      /\ r < n /\ s < n
  BY <1>2, <1>3 DEF i, j, r, s
<1>6. n * j - n * i = n + r - s
  BY <1>1, <1>4, <1>5
<1>7. CASE j <= i
  BY <1>1, <1>5, <1>6, <1>7
<1>8. CASE j = i + 1
  BY <1>1, <1>5, <1>6, <1>8
<1>9. CASE j >= i + 2
  BY <1>1, <1>5, <1>6, <1>9
<1> QED
  BY <1>5, <1>7, <1>8, <1>9

LEMMA ClosestIn ==
  ASSUME NEW S, NEW R \in Closest(S)
  PROVE  R \subseteq S
  BY DEF Closest, kSubset

LEMMA OwnerType ==
  /\ \A o \in Ops : NodeOf(o) \in Nodes
  /\ \A t \in Tasks : t \in Ops /\ NodeOf(t) = Owner[t] /\ Owner[t] \in Nodes
  /\ \A n \in Nodes : n \in Ops /\ NodeOf(n) = n
  BY DEF Ops, NodeOf, Tasks

LEMMA OpType ==
  ASSUME TypeOK, NEW o \in Ops
  PROVE  /\ op[o].pc \in Steps \cup {"idle", "fetch"} \cup Ended
         /\ op[o].key \in Keys \cup {None}
         /\ op[o].todo \in SUBSET Nodes /\ op[o].next \in SUBSET Nodes
         /\ op[o].queried \in SUBSET Nodes /\ op[o].found \in SUBSET Nodes
         /\ op[o].round \in Nat /\ op[o].call \in Calls \cup {None}
         /\ op[o].answer \in Answers \cup {None} /\ op[o].got \in Keys \cup {None}
         /\ op[o].served \in BOOLEAN /\ op[o].own \in BOOLEAN
  BY DEF TypeOK, Coroutines

\* The operation after it advanced is a coroutine again.
LEMMA AdvanceType ==
  ASSUME TypeOK, NEW o \in Ops, op[o].call \in Calls, op[o].pc \in Steps,
         NEW r \in Answers \cup {None}
  PROVE  Advance(o, r) \in Coroutines
<1>1. op[o] \in Coroutines
  BY DEF TypeOK
<1>2. op[o].call.to \in Nodes
  BY DEF Calls
<1>3. r # None => r.nodes \subseteq Nodes /\ r.values \subseteq Nodes
  BY DEF Answers
<1>4. IsOwn(o, r) \in BOOLEAN
  BY DEF IsOwn
<1> DEFINE q == op[o]
           base == [q EXCEPT !.call = None, !.answer = None,
                          !.own = @ /\ (r # None => IsOwn(o, r))]
<1>5. base \in Coroutines
  BY <1>1, <1>4 DEF Coroutines
<1>6. CASE q.pc = "boot"
  BY <1>5, <1>6 DEF Advance
<1>7. CASE q.pc = "find"
  BY <1>1, <1>3, <1>4, <1>7 DEF Advance, Coroutines
<1>8. CASE q.pc = "token"
  BY ZenonT(60), <1>1, <1>2, <1>4, <1>8 DEF Advance, Coroutines, Steps
<1>9. CASE q.pc = "announce"
  BY <1>1, <1>2, <1>4, <1>9 DEF Advance, Coroutines, Steps, Notified
<1>10. CASE q.pc = "peers"
  BY ZenonT(60), <1>1, <1>3, <1>4, <1>10 DEF Advance, Coroutines, Steps
<1> QED
  BY <1>6, <1>7, <1>8, <1>9, <1>10 DEF Steps

LEMMA MethodType ==
  ASSUME NEW pc \in Steps
  PROVE  /\ Method(pc) \in {"find_node", "get_peers", "announce_peer"}
         /\ Method(pc) = "announce_peer" <=> pc = "announce"
         /\ Method(pc) = "get_peers" <=> pc \in {"token", "peers"}
  BY DEF Steps, Method

----------------------------------------------------------------------------
(* Types.                                                                  *)

LEMMA InitType == Init => TypeOK
<1> SUFFICES ASSUME Init PROVE TypeOK
  OBVIOUS
<1>1. Idle \in Coroutines
  BY DEF Idle, Coroutines, Steps, Ended
<1> QED
  BY <1>1, TidZero DEF Init, TypeOK

\* One operation becomes another coroutine.
LEMMA OpUpdate ==
  ASSUME TypeOK, NEW o \in Ops, NEW q \in Coroutines, op' = [op EXCEPT ![o] = q]
  PROVE  op' \in [Ops -> Coroutines]
  BY DEF TypeOK

\* Where an operation waits: at a query, as a coroutine of its node.
LEMMA StepType == TypeOK /\ Progress /\ Numbered /\ [Next]_vars => TypeOK'
<1> SUFFICES ASSUME TypeOK, Progress, Numbered, [Next]_vars PROVE TypeOK'
  OBVIOUS
<1> USE DEF process, knowledge, queries
<1>1. ASSUME NEW n \in Nodes, Start(n) PROVE TypeOK'
  <2>1. PICK seeds \in BootstrapNodes(n) :
          op' = [op EXCEPT ![n] = [Idle EXCEPT !.pc = "boot", !.todo = seeds]]
    BY <1>1 DEF Start
  <2>2. seeds \subseteq Nodes
    BY <2>1 DEF BootstrapNodes
  <2>3. [Idle EXCEPT !.pc = "boot", !.todo = seeds] \in Coroutines
    BY <2>2 DEF Idle, Coroutines, Steps, Ended
  <2>4. op' \in [Ops -> Coroutines]
    BY <2>1, <2>3 DEF TypeOK
  <2> QED
    BY <1>1, <2>4 DEF TypeOK, Start
<1>2. ASSUME NEW n \in Nodes, Started(n) PROVE TypeOK'
  <2>1. Idle \in Coroutines
    BY DEF Idle, Coroutines, Steps, Ended
  <2> QED
    BY <1>2, <2>1 DEF TypeOK, Started
<1>3. ASSUME NEW n \in Nodes, Stop(n) PROVE TypeOK'
  <2>1. op' \in [Ops -> Coroutines]
    <3>1. \A o \in Ops : op[o] \in Coroutines
      BY DEF TypeOK
    <3>2. \A q \in Coroutines : [q EXCEPT !.pc = "cancelled", !.call = None] \in Coroutines
      BY DEF Coroutines, Ended
    <3> QED
      BY <1>3, <3>1, <3>2 DEF Stop
  <2> QED
    BY <1>3, <2>1 DEF TypeOK, Stop
<1>4. ASSUME NEW t \in Tasks, Publish(t) PROVE TypeOK'
  <2>1. PICK k \in KeysOf[t], S \in Closest(table[Owner[t]]) :
          /\ ads' = [ads EXCEPT ![Owner[t]] = @ \cup {k}]
          /\ op' = [op EXCEPT ![t].pc = "find", ![t].key = k, ![t].todo = S]
    BY <1>4 DEF Publish
  <2>2. S \subseteq Nodes /\ k \in Keys
    BY <2>1, ClosestIn, OwnerType DEF TypeOK
  <2>3. op' \in [Ops -> Coroutines]
    <3> DEFINE q == [op[t] EXCEPT !.pc = "find", !.key = k, !.todo = S]
    <3>1. t \in Ops /\ op[t] \in Coroutines
      BY OwnerType DEF TypeOK
    <3>2. q \in Coroutines
      BY <2>2, <3>1 DEF Coroutines, Steps
    <3>3. op' = [op EXCEPT ![t] = q]
      BY <2>1, <3>1 DEF TypeOK
    <3> QED
      BY <3>1, <3>2, <3>3, OpUpdate
  <2>4. ads' \in [Nodes -> SUBSET Keys]
    BY <2>1, <2>2, OwnerType DEF TypeOK
  <2> QED
    BY <1>4, <2>3, <2>4 DEF TypeOK, Publish
<1>5. ASSUME NEW t \in Tasks, Lookup(t) PROVE TypeOK'
  <2>1. PICK k \in KeysOf[t], S \in Closest(table[Owner[t]]) :
          op' = [op EXCEPT ![t].pc = "peers", ![t].key = k, ![t].todo = S]
    BY <1>5 DEF Lookup
  <2>2. S \subseteq Nodes /\ k \in Keys
    BY <2>1, ClosestIn, OwnerType DEF TypeOK
  <2>3. op' \in [Ops -> Coroutines]
    <3> DEFINE q == [op[t] EXCEPT !.pc = "peers", !.key = k, !.todo = S]
    <3>1. t \in Ops /\ op[t] \in Coroutines
      BY OwnerType DEF TypeOK
    <3>2. q \in Coroutines
      BY <2>2, <3>1 DEF Coroutines, Steps
    <3>3. op' = [op EXCEPT ![t] = q]
      BY <2>1, <3>1 DEF TypeOK
    <3> QED
      BY <3>1, <3>2, <3>3, OpUpdate
  <2> QED
    BY <1>5, <2>3 DEF TypeOK, Lookup
<1>6. ASSUME NEW o \in Ops, NEW m \in Nodes, Ask(o, m) PROVE TypeOK'
  <2> DEFINE n == NodeOf(o)  no == issued[n] + 1
             d == [type |-> "q", from |-> n, to |-> m, tid |-> Tid(no),
                       method |-> Method(op[o].pc), key |-> op[o].key,
                       call |-> <<o, life[n], no>>]
  <2>1. n \in Nodes /\ no \in Nat \ {0} /\ [no |-> no, to |-> m] \in Calls
    BY OwnerType DEF TypeOK, Calls
  <2>2. op' \in [Ops -> Coroutines]
    <3>1. op' = [op EXCEPT ![o].call = [no |-> no, to |-> m],
                           ![o].queried = IF op[o].pc \in {"find", "peers"} THEN @ \cup {m} ELSE @,
                           ![o].todo = IF op[o].pc = "token" THEN @ ELSE @ \ {m}]
      BY <1>6 DEF Ask, NextTid
    <3> QED
      <4> DEFINE q == [op[o] EXCEPT !.call = [no |-> no, to |-> m],
                       !.queried = IF op[o].pc \in {"find", "peers"} THEN @ \cup {m} ELSE @,
                       !.todo = IF op[o].pc = "token" THEN @ ELSE @ \ {m}]
      <4>1. op[o] \in Coroutines
        BY DEF TypeOK
      <4>2. q \in Coroutines
        BY ZenonT(60), <2>1, <4>1 DEF Coroutines
      <4>3. op' = [op EXCEPT ![o] = q]
        BY <3>1 DEF TypeOK
      <4> QED
        BY <4>2, <4>3, OpUpdate
  <2>3. CASE status[n] = "off"
    BY <1>6, <2>2, <2>3 DEF TypeOK, Ask
  <2>4. CASE status[n] # "off"
    <3>1. /\ issued' = [issued EXCEPT ![n] = no]
          /\ pending' = [pending EXCEPT ![n][Tid(no)] = o]
          /\ net' = net \cup {d}
      BY <1>6, <2>4 DEF Ask, NextTid
    <3>2. op[o].pc \in Steps
      BY <1>6 DEF Ask, Steps
    <3>3. life[n] \in Nat \ {0}
      BY <2>1, <2>4 DEF TypeOK, Numbered
    <3>4. d \in Queries
      BY <2>1, <3>2, <3>3, TidType, MethodType, OpType DEF Queries, Origins
    <3>5. d.method = "announce_peer" => d.key \in Keys
      BY <3>2, MethodType DEF Progress
    <3>6. pending' \in [Nodes -> [Tids -> Ops \cup {None}]] /\ issued' \in [Nodes -> Nat]
      BY <2>1, <3>1, TidType DEF TypeOK
    <3> QED
      BY <1>6, <2>2, <3>1, <3>4, <3>5, <3>6 DEF TypeOK, Ask
  <2> QED
    BY <2>3, <2>4
<1>7. ASSUME NEW o \in Ops, Resume(o) PROVE TypeOK'
  <2>1. op[o].call \in Calls /\ op[o].pc \in Steps /\ op[o].answer \in Answers
    BY <1>7, OpType DEF Resume, Progress
  <2>2. Advance(o, op[o].answer) \in Coroutines
    BY <2>1, AdvanceType
  <2>3. Learned(o, op[o].answer) \subseteq Nodes
    BY <2>1 DEF Learned, Answers, Calls
  <2> QED
    BY <1>7, <2>2, <2>3, OwnerType DEF TypeOK, Resume
<1>8. ASSUME NEW o \in Ops, Timeout(o) PROVE TypeOK'
  <2>1. op[o].call \in Calls /\ op[o].pc \in Steps
    BY <1>8, OpType DEF Timeout, TimesOut, Progress
  <2>2. Advance(o, None) \in Coroutines
    BY <2>1, AdvanceType
  <2>3. pending' \in [Nodes -> [Tids -> Ops \cup {None}]]
    BY <1>8, OwnerType DEF TypeOK, Timeout, TimeoutPops, PopPending
  <2> QED
    BY <1>8, <2>2, <2>3 DEF TypeOK, Timeout
<1>9. ASSUME NEW o \in Ops, EndRound(o) PROVE TypeOK'
  <2> DEFINE more == op[o].round < Rounds /\ op[o].next # {}
  <2>1. PICK S \in Closest(IF more THEN op[o].next ELSE table[NodeOf(o)]) :
          op' = [op EXCEPT ![o] =
                      IF more
                      THEN [op[o] EXCEPT !.round = @ + 1, !.todo = S, !.next = {}]
                      ELSE [op[o] EXCEPT !.pc = "token", !.todo = S, !.next = {},
                                         !.queried = {}]]
    BY <1>9 DEF EndRound
  <2>2. S \subseteq Nodes
    BY <2>1, ClosestIn, OwnerType, OpType DEF TypeOK
  <2>3. op' \in [Ops -> Coroutines]
    <3>1. op[o] \in Coroutines
      BY DEF TypeOK
    <3>2. [op[o] EXCEPT !.round = @ + 1, !.todo = S, !.next = {}] \in Coroutines
      <4>1. op[o].round + 1 \in Nat
        BY OpType
      <4> DEFINE r == op[o].round + 1
      <4> HIDE DEF r
      <4>2. [op[o] EXCEPT !.round = r, !.todo = S, !.next = {}] \in Coroutines
        BY <2>2, <3>1, <4>1 DEF Coroutines, r
      <4> QED
        BY <4>2 DEF r
    <3>3. [op[o] EXCEPT !.pc = "token", !.todo = S, !.next = {}, !.queried = {}] \in Coroutines
      BY <2>2, <3>1 DEF Coroutines, Steps
    <3> DEFINE again == [op[o] EXCEPT !.round = @ + 1, !.todo = S, !.next = {}]
               over == [op[o] EXCEPT !.pc = "token", !.todo = S, !.next = {}, !.queried = {}]
    <3>4. op' = [op EXCEPT ![o] = IF more THEN again ELSE over]
      BY <2>1
    <3> HIDE DEF more, again, over
    <3>5. (IF more THEN again ELSE over) \in Coroutines
      BY <3>2, <3>3 DEF again, over
    <3> QED
      BY <3>4, <3>5, OpUpdate
  <2> QED
    BY <1>9, <2>3 DEF TypeOK, EndRound
<1>10. ASSUME NEW o \in Ops, EndWalk(o) PROVE TypeOK'
  <2>1. op' \in [Ops -> Coroutines]
    <3>1. op[o] \in Coroutines
      BY DEF TypeOK
    <3>2. [op[o] EXCEPT !.pc = "done"] \in Coroutines
      BY <3>1 DEF Coroutines, Ended
    <3>3. [op[o] EXCEPT !.pc = "fetch", !.todo = op[o].found] \in Coroutines
      BY <3>1 DEF Coroutines
    <3> QED
      BY <1>10, <3>2, <3>3 DEF TypeOK, EndWalk
  <2> QED
    BY <1>10, <2>1 DEF TypeOK, EndWalk
<1>11. ASSUME NEW o \in Ops, NEW m \in Nodes, NEW valid \in BOOLEAN, Fetch(o, m, valid)
       PROVE  TypeOK'
  <2>1. FetchAdvertisement(m, op[o].key, valid) \in Keys \cup {None}
    BY OpType DEF FetchAdvertisement
  <2>2. Serves(m, op[o].key) \in BOOLEAN
    BY DEF Serves
  <2>3. op' \in [Ops -> Coroutines]
    <3> DEFINE ad == FetchAdvertisement(m, op[o].key, valid)
               q == [op[o] EXCEPT !.todo = IF ad = None THEN @ \ {m} ELSE {},
                            !.served = @ \/ (valid /\ Serves(m, op[o].key)),
                            !.got = ad]
               served == op[o].served \/ (valid /\ Serves(m, op[o].key))
               todo == IF ad = None THEN op[o].todo \ {m} ELSE {}
    <3>1. op[o] \in Coroutines
      BY DEF TypeOK
    <3>2. served \in BOOLEAN /\ todo \in SUBSET Nodes
      BY <2>2, OpType
    <3> HIDE DEF ad, served, todo
    <3>5. [op[o] EXCEPT !.todo = todo, !.served = served, !.got = ad] \in Coroutines
      BY <2>1, <3>1, <3>2 DEF Coroutines, ad
    <3>3. q \in Coroutines
      BY <3>5 DEF served, todo, ad
    <3>4. op' = [op EXCEPT ![o] = q]
      BY <1>11 DEF TypeOK, Fetch, ad
    <3> QED
      BY <3>3, <3>4, OpUpdate
  <2> QED
    BY <1>11, <2>3 DEF TypeOK, Fetch
<1>12. ASSUME NEW o \in Ops, EndLookup(o) PROVE TypeOK'
  <2>1. op' \in [Ops -> Coroutines]
    <3>1. op[o] \in Coroutines
      BY DEF TypeOK
    <3>2. [op[o] EXCEPT !.pc = "done"] \in Coroutines
      BY <3>1 DEF Coroutines, Ended
    <3> QED
      BY <1>12, <3>2 DEF TypeOK, EndLookup
  <2> QED
    BY <1>12, <2>1 DEF TypeOK, EndLookup
<1>13. ASSUME NEW d \in net, HandleQuery(d) PROVE TypeOK'
  <2>1. d \in Queries
    BY <1>13 DEF TypeOK, HandleQuery, Answers
  <2> DEFINE n == d.to
             peers == IF d.method = "get_peers" THEN PeersFor(n, d.key) ELSE {}
             stores == d.method = "announce_peer"
             r(near) == [type |-> "r", from |-> n, to |-> d.from,
                               tid |-> d.tid, call |-> d.call,
                               nodes |-> near, values |-> peers]
  <2>2. PICK near \in IF stores \/ peers # {} THEN {{}} ELSE Closest(table[n]) :
          net' = net \cup {r(near)}
    BY <1>13 DEF HandleQuery
  <2>3. n \in Nodes /\ d.from \in Nodes /\ d.tid \in Tids /\ d.call \in Origins
    BY <2>1 DEF Queries
  <2>4. near \subseteq Nodes
    <3>1. CASE stores \/ peers # {}
      BY <2>2, <3>1
    <3>2. CASE ~(stores \/ peers # {})
      <4>1. near \in Closest(table[n])
        BY <2>2, <3>2
      <4> QED
        BY <2>3, <4>1, ClosestIn DEF TypeOK
    <3> QED
      BY <3>1, <3>2
  <2>5. peers \subseteq Nodes
    BY <2>3 DEF PeersFor, TypeOK
  <2>6. r(near) \in Answers
    BY <2>3, <2>4, <2>5 DEF Answers
  <2>7. announced' \in [Nodes -> SUBSET (Keys \X Nodes)]
    BY <1>13, <2>3 DEF TypeOK, HandleQuery
  <2>8. r(near).type = "r"
    OBVIOUS
  <2> HIDE DEF r
  <2>9. net' \subseteq Queries \cup Answers
        /\ \A e \in net' : e.type = "q" /\ e.method = "announce_peer" => e.key \in Keys
    BY <2>2, <2>6, <2>8 DEF TypeOK
  <2> QED
    BY <1>13, <2>7, <2>9 DEF TypeOK, HandleQuery
<1>14. ASSUME NEW d \in net, HandleResponse(d) PROVE TypeOK'
  <2>1. d \in Answers
    BY <1>14 DEF TypeOK, HandleResponse, Queries
  <2>2. d.to \in Nodes /\ d.from \in Nodes /\ d.tid \in Tids
    BY <2>1 DEF Answers
  <2>3. pending' \in [Nodes -> [Tids -> Ops \cup {None}]]
    BY <1>14, <2>2 DEF TypeOK, HandleResponse, PopPending
  <2>4. op' \in [Ops -> Coroutines]
    <3>1. CASE pending[d.to][d.tid] = None
      BY <1>14, <3>1 DEF TypeOK, HandleResponse
    <3>2. CASE pending[d.to][d.tid] # None
      <4>1. op' = [op EXCEPT ![pending[d.to][d.tid]].answer = d]
        BY <1>14, <3>2 DEF HandleResponse
      <4> QED
        <5> DEFINE p == pending[d.to][d.tid]
        <5>1. p \in Ops
          BY <2>2, <3>2 DEF TypeOK
        <5>2. op[p] \in Coroutines
          BY <5>1 DEF TypeOK
        <5>3. [op[p] EXCEPT !.answer = d] \in Coroutines
          BY <2>1, <5>2 DEF Coroutines
        <5> QED
          BY <4>1, <5>1, <5>3 DEF TypeOK
    <3> QED
      BY <3>1, <3>2
  <2> QED
    BY <1>14, <2>2, <2>3, <2>4 DEF TypeOK, HandleResponse
<1>15. CASE UNCHANGED vars
  BY <1>15 DEF TypeOK, vars
<1> QED
  BY <1>1, <1>2, <1>3, <1>4, <1>5, <1>6, <1>7, <1>8, <1>9, <1>10, <1>11, <1>12, <1>13,
     <1>14, <1>15 DEF Next, OpStep

----------------------------------------------------------------------------
(* What one step does to the operations.                                   *)

LEMMA OneOp ==
  ASSUME TypeOK, NEW o \in Ops, NEW q, op' = [op EXCEPT ![o] = q]
  PROVE  op'[o] = q /\ \A p \in Ops \ {o} : op'[p] = op[p]
  BY DEF TypeOK

LEMMA AdvanceFields ==
  ASSUME TypeOK, NEW o \in Ops, op[o].pc \in Steps, NEW r
  PROVE  LET q == op[o]
             A == Advance(o, r)
         IN  /\ A.call = None /\ A.answer = None /\ A.key = q.key
             /\ A.pc = q.pc \/ (q.pc = "token" /\ A.pc = "announce")
                            \/ (q.pc = "announce" /\ A.pc = "token")
             /\ A.own <=> q.own /\ (r # None => IsOwn(o, r))
             /\ \/ A.found = q.found
                \/ q.pc = "announce" /\ r # None /\ A.found = q.found \cup {q.call.to}
                \/ q.pc = "peers" /\ r # None /\ A.found = q.found \cup r.values
<1>1. op[o] \in Coroutines
  BY DEF TypeOK
<1>2. CASE op[o].pc = "boot"
  BY <1>1, <1>2 DEF Advance, Coroutines
<1>3. CASE op[o].pc = "find"
  BY <1>1, <1>3 DEF Advance, Coroutines
<1>4. CASE op[o].pc = "token"
  BY <1>1, <1>4 DEF Advance, Coroutines
<1>5. CASE op[o].pc = "announce"
  BY <1>1, <1>5 DEF Advance, Coroutines, Notified
<1>6. CASE op[o].pc = "peers"
  BY <1>1, <1>6 DEF Advance, Coroutines
<1> QED
  BY <1>2, <1>3, <1>4, <1>5, <1>6 DEF Steps

\* The effect of an action on the fields of the operation that moves, and of
\* all others, as far as the invariants read them.
LEMMA StartedOp ==
  ASSUME TypeOK, NEW n \in Nodes, Started(n)
  PROVE  /\ op'[n] = Idle /\ op[n].call = None
         /\ \A p \in Ops \ {n} : op'[p] = op[p]
  BY OneOp, OwnerType DEF Started

LEMMA StartOp ==
  ASSUME TypeOK, NEW n \in Nodes, Start(n)
  PROVE  /\ op'[n].call = None /\ op'[n].answer = None /\ op'[n].pc = "boot"
         /\ \A p \in Ops \ {n} : op'[p] = op[p]
<1>1. PICK seeds \in BootstrapNodes(n) :
        op' = [op EXCEPT ![n] = [Idle EXCEPT !.pc = "boot", !.todo = seeds]]
  BY DEF Start
<1> DEFINE q == [Idle EXCEPT !.pc = "boot", !.todo = seeds]
<1>2. q.call = None /\ q.answer = None /\ q.pc = "boot"
  BY DEF Idle
<1> HIDE DEF q
<1> QED
  BY ZenonT(60), <1>1, <1>2, OneOp, OwnerType DEF q

LEMMA StopOp ==
  ASSUME TypeOK, NEW n \in Nodes, Stop(n), NEW o \in Ops
  PROVE  \/ /\ NodeOf(o) = n /\ op[o].call # None
            /\ op'[o].call = None /\ op'[o].answer = None /\ op'[o].pc = "cancelled"
            /\ op'[o].key = op[o].key /\ op'[o].found = op[o].found
            /\ op'[o].own = op[o].own
         \/ op'[o] = op[o]
<1>1. op[o] \in Coroutines
  BY DEF TypeOK
<1> QED
  BY <1>1 DEF Stop, Coroutines

LEMMA BeginOp ==
  ASSUME TypeOK, NEW t \in Tasks, Publish(t) \/ Lookup(t)
  PROVE  /\ op[t].pc = "idle"
         /\ op'[t].pc = IF t \in Publishes THEN "find" ELSE "peers"
         /\ op'[t].key \in Keys /\ op'[t].call = op[t].call
         /\ op'[t].answer = op[t].answer /\ op'[t].found = op[t].found
         /\ \A p \in Ops \ {t} : op'[p] = op[p]
<1>1. t \in Ops /\ op[t] \in Coroutines
  BY OwnerType DEF TypeOK
<1>2. CASE Publish(t)
  <2>1. PICK k \in KeysOf[t], S \in Closest(table[Owner[t]]) :
          op' = [op EXCEPT ![t].pc = "find", ![t].key = k, ![t].todo = S]
    BY <1>2 DEF Publish
  <2>2. k \in Keys
    BY OwnerType
  <2> QED
    BY ZenonT(60), <1>1, <1>2, <2>1, <2>2 DEF TypeOK, Publish, Coroutines
<1>3. CASE Lookup(t)
  <2>1. PICK k \in KeysOf[t], S \in Closest(table[Owner[t]]) :
          op' = [op EXCEPT ![t].pc = "peers", ![t].key = k, ![t].todo = S]
    BY <1>3 DEF Lookup
  <2>2. k \in Keys /\ t \notin Publishes
    BY <1>3 DEF Lookup
  <2> QED
    BY <1>1, <1>3, <2>1, <2>2 DEF TypeOK, Lookup, Coroutines
<1> QED
  BY <1>2, <1>3

LEMMA AskOthers ==
  ASSUME TypeOK, NEW o \in Ops, NEW m \in Nodes, Ask(o, m)
  PROVE  \A p \in Ops \ {o} : op'[p] = op[p]
<1> DEFINE q == [op[o] EXCEPT !.call = [no |-> NextTid(NodeOf(o)), to |-> m],
                   !.queried = IF op[o].pc \in {"find", "peers"} THEN @ \cup {m} ELSE @,
                   !.todo = IF op[o].pc = "token" THEN @ ELSE @ \ {m}]
<1>1. op' = [op EXCEPT ![o] = q]
  BY DEF TypeOK, Ask
<1> HIDE DEF q
<1> QED
  BY <1>1, OneOp

LEMMA AskOp ==
  ASSUME TypeOK, NEW o \in Ops, NEW m \in Nodes, Ask(o, m)
  PROVE  /\ op[o].call = None /\ op[o].pc \in Steps
         /\ op'[o].call = [no |-> NextTid(NodeOf(o)), to |-> m]
         /\ op'[o].call # None
         /\ op'[o].pc = op[o].pc /\ op'[o].key = op[o].key
         /\ op'[o].answer = op[o].answer /\ op'[o].found = op[o].found
         /\ op'[o].own = op[o].own
         /\ \A p \in Ops \ {o} : op'[p] = op[p]
<1>1. op[o] \in Coroutines /\ issued[NodeOf(o)] \in Nat
  BY OwnerType DEF TypeOK
<1> DEFINE c == [no |-> NextTid(NodeOf(o)), to |-> m]
           q == [op[o] EXCEPT !.call = c,
                   !.queried = IF op[o].pc \in {"find", "peers"} THEN @ \cup {m} ELSE @,
                   !.todo = IF op[o].pc = "token" THEN @ ELSE @ \ {m}]
<1>2. op' = [op EXCEPT ![o] = q]
  BY DEF TypeOK, Ask
<1>3. c # None
  BY <1>1 DEF Calls, NextTid
<1>4. /\ q.call = c /\ q.pc = op[o].pc /\ q.key = op[o].key /\ q.answer = op[o].answer
      /\ q.found = op[o].found /\ q.own = op[o].own
  BY <1>1 DEF Coroutines
<1>5. op[o].call = None /\ op[o].pc \in Steps
  BY DEF Ask, Steps
<1> HIDE DEF c, q
<1>6. op'[o] = q /\ \A p \in Ops \ {o} : op'[p] = op[p]
  BY <1>2, OneOp
<1> QED
  BY <1>3, <1>4, <1>5, <1>6 DEF c

LEMMA AdvanceOp ==
  ASSUME TypeOK, NEW o \in Ops, Resume(o) \/ Timeout(o)
  PROVE  /\ op[o].call # None
         /\ Resume(o) => op[o].answer # None /\ op'[o] = Advance(o, op[o].answer)
         /\ Timeout(o) => op[o].answer = None /\ op'[o] = Advance(o, None)
         /\ \A p \in Ops \ {o} : op'[p] = op[p]
  BY OneOp DEF Resume, Timeout, TimesOut

\* The steps between two queries.
GoesOn(o) ==
    \/ EndRound(o) \/ EndWalk(o) \/ EndLookup(o)
    \/ \E m \in Nodes, valid \in BOOLEAN : Fetch(o, m, valid)

LEMMA GoesOnOp ==
  ASSUME TypeOK, Progress, NEW o \in Ops, GoesOn(o)
  PROVE  /\ op[o].call = None /\ op'[o].call = None
         /\ op'[o].key = op[o].key /\ op'[o].answer = op[o].answer
         /\ op'[o].found = op[o].found /\ op'[o].own = op[o].own
         /\ \/ op[o].pc = "find" /\ op'[o].pc \in {"find", "token"}
            \/ op[o].pc = "token" /\ op'[o].pc = "done"
            \/ op[o].pc = "peers" /\ op'[o].pc = "fetch"
            \/ op[o].pc = "fetch" /\ op'[o].pc \in {"fetch", "done"}
         /\ \A p \in Ops \ {o} : op'[p] = op[p]
<1>1. op[o] \in Coroutines
  BY DEF TypeOK
<1>2. op[o].pc = "fetch" => op[o].call = None
  BY DEF Progress, Steps
<1>3. CASE EndRound(o)
  <2> DEFINE more == op[o].round < Rounds /\ op[o].next # {}
  <2>1. PICK S \in Closest(IF more THEN op[o].next ELSE table[NodeOf(o)]) :
          op' = [op EXCEPT ![o] =
                      IF more
                      THEN [op[o] EXCEPT !.round = @ + 1, !.todo = S, !.next = {}]
                      ELSE [op[o] EXCEPT !.pc = "token", !.todo = S, !.next = {},
                                         !.queried = {}]]
    BY <1>3 DEF EndRound
  <2> HIDE DEF more
  <2>2. \/ op'[o] = [op[o] EXCEPT !.round = @ + 1, !.todo = S, !.next = {}]
        \/ op'[o] = [op[o] EXCEPT !.pc = "token", !.todo = S, !.next = {}, !.queried = {}]
    BY <2>1 DEF TypeOK
  <2>3. \A p \in Ops \ {o} : op'[p] = op[p]
    BY <2>1 DEF TypeOK
  <2>4. op[o].pc = "find" /\ op[o].call = None
    BY <1>3 DEF EndRound
  <2> DEFINE r == op[o].round + 1
             again == [op[o] EXCEPT !.round = r, !.todo = S, !.next = {}]
             over == [op[o] EXCEPT !.pc = "token", !.todo = S, !.next = {}, !.queried = {}]
  <2>5. op'[o] = again \/ op'[o] = over
    BY <2>2
  <2> HIDE DEF r
  <2>6. /\ again.call = op[o].call /\ again.key = op[o].key /\ again.answer = op[o].answer
        /\ again.found = op[o].found /\ again.own = op[o].own /\ again.pc = op[o].pc
    BY <1>1 DEF Coroutines
  <2>7. /\ over.call = op[o].call /\ over.key = op[o].key /\ over.answer = op[o].answer
        /\ over.found = op[o].found /\ over.own = op[o].own /\ over.pc = "token"
    BY <1>1 DEF Coroutines
  <2> HIDE DEF again, over
  <2> QED
    BY <2>3, <2>4, <2>5, <2>6, <2>7
<1>4. CASE EndWalk(o)
  BY <1>1, <1>4 DEF EndWalk, TypeOK, Coroutines
<1>5. CASE EndLookup(o)
  BY <1>1, <1>2, <1>5 DEF EndLookup, TypeOK, Coroutines
<1>6. ASSUME NEW m \in Nodes, NEW valid \in BOOLEAN, Fetch(o, m, valid)
      PROVE  /\ op[o].pc = "fetch" /\ op'[o].pc = "fetch" /\ op'[o].call = op[o].call
             /\ op'[o].key = op[o].key /\ op'[o].answer = op[o].answer
             /\ op'[o].found = op[o].found /\ op'[o].own = op[o].own
             /\ \A p \in Ops \ {o} : op'[p] = op[p]
  BY <1>1, <1>6 DEF Fetch, TypeOK, Coroutines
<1> QED
  BY <1>2, <1>3, <1>4, <1>5, <1>6 DEF GoesOn

LEMMA ResponseOp ==
  ASSUME TypeOK, NEW d \in net, HandleResponse(d)
  PROVE  LET o == pending[d.to][d.tid]
         IN  /\ d \in Answers /\ d.to \in Nodes /\ d.tid \in Tids /\ d # None
             /\ o = None => op' = op
             /\ o # None => /\ o \in Ops /\ op'[o].answer = d
                            /\ op'[o].call = op[o].call /\ op'[o].pc = op[o].pc
                            /\ op'[o].key = op[o].key /\ op'[o].found = op[o].found
                            /\ op'[o].own = op[o].own
             /\ \A p \in Ops \ {o} : op'[p] = op[p]
<1> DEFINE o == pending[d.to][d.tid]
<1>1. d \in Answers
  BY DEF TypeOK, HandleResponse, Queries
<1>2. d.to \in Nodes /\ d.tid \in Tids /\ d # None
  BY <1>1 DEF Answers
<1>3. o \in Ops \cup {None}
  BY <1>2 DEF TypeOK
<1>4. op' = IF o = None THEN op ELSE [op EXCEPT ![o].answer = d]
  BY DEF HandleResponse
<1> HIDE DEF o
<1>5. CASE o = None
  BY <1>1, <1>2, <1>4, <1>5 DEF o
<1>6. CASE o # None
  <2>1. o \in Ops /\ op[o] \in Coroutines
    BY <1>3, <1>6 DEF TypeOK
  <2>2. op' = [op EXCEPT ![o] = [op[o] EXCEPT !.answer = d]]
    BY <1>4, <1>6
  <2>3. op'[o] = [op[o] EXCEPT !.answer = d] /\ \A p \in Ops \ {o} : op'[p] = op[p]
    BY <2>1, <2>2, OneOp
  <2> QED
    BY <1>1, <1>2, <1>6, <2>1, <2>3 DEF o, Coroutines
<1> QED
  BY <1>5, <1>6

\* The steps a coroutine takes in one go, and the disjuncts of Next.
LEMMA AllSteps ==
  [Next]_vars =>
    \/ \E n \in Nodes : Start(n) \/ Started(n) \/ Stop(n)
    \/ \E t \in Tasks : Publish(t) \/ Lookup(t)
    \/ \E o \in Ops, m \in Nodes : Ask(o, m)
    \/ \E o \in Ops : Resume(o) \/ Timeout(o)
    \/ \E o \in Ops : GoesOn(o)
    \/ \E d \in net : HandleQuery(d)
    \/ \E d \in net : HandleResponse(d)
    \/ UNCHANGED vars
  BY DEF Next, OpStep, GoesOn

----------------------------------------------------------------------------
(* Which steps an operation goes through.                                  *)

LEMMA StepProgress == TypeOK /\ Progress /\ PendingIsExact /\ [Next]_vars => Progress'
<1> SUFFICES ASSUME TypeOK, Progress, PendingIsExact, [Next]_vars PROVE Progress'
  OBVIOUS
<1> DEFINE
      Fine(o) ==
        /\ o \in Publishes => op'[o].pc \in {"idle", "find", "token", "announce"} \cup Ended
        /\ o \in Lookups => op'[o].pc \in {"idle", "peers", "fetch"} \cup Ended
        /\ op'[o].pc \in {"find", "token", "announce", "peers", "fetch"} => op'[o].key \in Keys
        /\ op'[o].pc = "idle" => op'[o].found = {}
        /\ op'[o].call # None => op'[o].pc \in Steps
        /\ op'[o].call = None => op'[o].answer = None
<1> SUFFICES \A o \in Ops : Fine(o)
  BY DEF Progress
<1>1. \A o \in Ops : op'[o] = op[o] => Fine(o)
  BY DEF Progress
<1>2. ASSUME NEW o \in Ops, Fine(o), \A p \in Ops \ {o} : op'[p] = op[p]
      PROVE  \A p \in Ops : Fine(p)
  BY <1>1, <1>2
<1>3. ASSUME NEW o \in Ops
      PROVE  /\ o \in Publishes => op[o].pc \in {"idle", "find", "token", "announce"} \cup Ended
             /\ o \in Lookups => op[o].pc \in {"idle", "peers", "fetch"} \cup Ended
             /\ op[o].pc \in {"find", "token", "announce", "peers", "fetch"} => op[o].key \in Keys
             /\ op[o].pc = "idle" => op[o].found = {}
             /\ op[o].call # None => op[o].pc \in Steps
             /\ op[o].call = None => op[o].answer = None
  BY DEF Progress
<1>4. \A n \in Nodes : n \in Ops /\ n \notin Publishes /\ n \notin Lookups
  BY OwnerType DEF Tasks
<1> HIDE DEF Fine
<1>5. ASSUME NEW n \in Nodes, Start(n) PROVE \A o \in Ops : Fine(o)
  <2>1. Fine(n)
    BY <1>4, <1>5, StartOp DEF Fine
  <2> QED
    BY <1>2, <1>4, <1>5, <2>1, StartOp
<1>6. ASSUME NEW n \in Nodes, Started(n) PROVE \A o \in Ops : Fine(o)
  <2>1. Fine(n)
    BY <1>4, <1>6, StartedOp DEF Fine, Idle
  <2> QED
    BY <1>2, <1>4, <1>6, <2>1, StartedOp
<1>7. ASSUME NEW n \in Nodes, Stop(n) PROVE \A o \in Ops : Fine(o)
  <2> SUFFICES ASSUME NEW o \in Ops, op'[o] # op[o] PROVE Fine(o)
    BY <1>1
  <2>1. /\ op'[o].call = None /\ op'[o].answer = None /\ op'[o].pc = "cancelled"
    BY <1>7, StopOp
  <2> QED
    BY <2>1 DEF Fine, Ended
<1>8. ASSUME NEW t \in Tasks, Publish(t) \/ Lookup(t) PROVE \A o \in Ops : Fine(o)
  <2>1. Fine(t)
    BY <1>3, <1>8, BeginOp, OwnerType DEF Fine, Steps, Ended, Tasks
  <2> QED
    BY <1>2, <1>8, <2>1, BeginOp, OwnerType
<1>9. ASSUME NEW o \in Ops, NEW m \in Nodes, Ask(o, m) PROVE \A p \in Ops : Fine(p)
  <2>1. Fine(o)
    BY <1>3, <1>9, AskOp DEF Fine
  <2> QED
    BY <1>2, <1>9, <2>1, AskOp
<1>10. ASSUME NEW o \in Ops, Resume(o) \/ Timeout(o) PROVE \A p \in Ops : Fine(p)
  <2>1. op[o].pc \in Steps
    BY <1>3, <1>10, AdvanceOp
  <2>2. /\ op'[o].call = None /\ op'[o].answer = None /\ op'[o].key = op[o].key
        /\ \/ op'[o].pc = op[o].pc
           \/ op[o].pc = "token" /\ op'[o].pc = "announce"
           \/ op[o].pc = "announce" /\ op'[o].pc = "token"
    BY <1>10, <2>1, AdvanceOp, AdvanceFields
  <2>3. Fine(o)
    BY <1>3, <2>1, <2>2 DEF Fine, Steps, Ended
  <2> QED
    BY <1>2, <1>10, <2>3, AdvanceOp
<1>11. ASSUME NEW o \in Ops, GoesOn(o) PROVE \A p \in Ops : Fine(p)
  <2>1. Fine(o)
    BY <1>3, <1>11, GoesOnOp DEF Fine, Steps, Ended
  <2> QED
    BY <1>2, <1>11, <2>1, GoesOnOp
<1>12. ASSUME NEW d \in net, HandleQuery(d) PROVE \A p \in Ops : Fine(p)
  BY <1>1, <1>12 DEF HandleQuery
<1>13. ASSUME NEW d \in net, HandleResponse(d) PROVE \A p \in Ops : Fine(p)
  <2> DEFINE o == pending[d.to][d.tid]
  <2>1. CASE o = None
    BY <1>1, <1>13, <2>1, ResponseOp
  <2>2. CASE o # None
    <3>1. o \in Ops /\ d.to \in Nodes /\ d.tid \in Tids
      BY <1>13, <2>2, ResponseOp
    <3>2. op[o].call # None
      BY <1>13, <2>2, <3>1 DEF PendingIsExact, Waits
    <3>4. /\ op'[o].call = op[o].call /\ op'[o].pc = op[o].pc
          /\ op'[o].key = op[o].key /\ op'[o].found = op[o].found
      BY <1>13, <2>2, ResponseOp
    <3> HIDE DEF o
    <3>3. Fine(o)
      BY <1>3, <3>1, <3>2, <3>4 DEF Fine
    <3> QED
      BY <1>2, <1>13, <3>1, <3>3, ResponseOp DEF o
  <2> QED
    BY <2>1, <2>2
<1>14. CASE UNCHANGED vars
  BY <1>1, <1>14 DEF vars
<1> QED
  BY <1>5, <1>6, <1>7, <1>8, <1>9, <1>10, <1>11, <1>12, <1>13, <1>14, AllSteps

----------------------------------------------------------------------------
(* The table of futures.                                                   *)

Registered == PendingIsExact /\ Newest

\* o waits after the step.
WillWait(o) ==
    op'[o].call # None /\ op'[o].answer = None /\ status'[NodeOf(o)] # "off"

\* The two properties after the step, entry by entry.
LEMMA RegisteredAfter ==
  ASSUME \A n \in Nodes, t \in Tids : pending'[n][t] # None =>
           /\ WillWait(pending'[n][t]) /\ NodeOf(pending'[n][t]) = n
           /\ Tid(op'[pending'[n][t]].call.no) = t
           /\ issued'[n] < op'[pending'[n][t]].call.no + TidSpace,
         \A o \in Ops :
           /\ WillWait(o) /\ op'[o].call.no <= TidSpace
           /\ issued'[NodeOf(o)] < op'[o].call.no + TidSpace
           => pending'[NodeOf(o)][Tid(op'[o].call.no)] = o
  PROVE  Registered'
  BY DEF Registered, PendingIsExact, Newest, WillWait, Waits

\* Who is registered under t at n waits for the number with that id.
LEMMA RegisteredOp ==
  ASSUME TypeOK, Registered, NEW n \in Nodes, NEW t \in Tids, pending[n][t] # None
  PROVE  LET o == pending[n][t]
         IN  /\ o \in Ops /\ op[o].call # None /\ op[o].answer = None /\ status[n] # "off"
             /\ NodeOf(o) = n /\ Tid(op[o].call.no) = t
             /\ issued[n] < op[o].call.no + TidSpace
  BY DEF TypeOK, Registered, PendingIsExact, Newest, Waits

\* Nobody who waits is touched.
LEMMA StillRegistered ==
  ASSUME TypeOK, Registered, UNCHANGED <<issued, pending>>,
         \A n \in Nodes : status'[n] = "off" <=> status[n] = "off",
         \A o \in Ops : op'[o].call = op[o].call /\ op'[o].answer = op[o].answer
  PROVE  Registered'
<1>1. \A o \in Ops : Waits(o)' <=> Waits(o)
  BY OwnerType DEF Waits
<1>2. \A n \in Nodes, t \in Tids : pending[n][t] \in Ops \cup {None}
  BY DEF TypeOK
<1>3. PendingIsExact'
  BY <1>1, <1>2 DEF Registered, PendingIsExact
<1>4. Newest'
  BY <1>2 DEF Registered, Newest
<1> QED
  BY <1>3, <1>4 DEF Registered

\* The number of a call.
LEMMA CallNumber ==
  ASSUME TypeOK, NEW o \in Ops, op[o].call # None
  PROVE  op[o].call.no \in Nat \ {0} /\ op[o].call.to \in Nodes
  BY OpType DEF Calls

\* Two operations of a node that is up wait under different ids, unless one of
\* them has lost its id to the other.
LEMMA OtherId ==
  ASSUME TypeOK, Numbered, NEW o \in Ops, NEW p \in Ops, o # p,
         NodeOf(o) = NodeOf(p), status[NodeOf(o)] # "off",
         op[o].call # None, op[p].call # None,
         op[p].call.no <= TidSpace, issued[NodeOf(p)] < op[p].call.no + TidSpace
  PROVE  Tid(op[o].call.no) # Tid(op[p].call.no)
<1> DEFINE i == op[o].call.no  j == op[p].call.no
<1>1. i \in Nat \ {0} /\ j \in Nat \ {0} /\ issued[NodeOf(p)] \in Nat
  BY CallNumber, OwnerType DEF TypeOK
<1>2. i # j /\ i <= issued[NodeOf(p)]
  BY DEF Numbered
<1>3. j <= TidSpace /\ issued[NodeOf(p)] < j + TidSpace
  OBVIOUS
<1> HIDE DEF i, j
<1>4. CASE i < j
  <2>1. j < i + TidSpace
    BY <1>1, <1>3
  <2> QED
    BY <1>1, <1>4, <2>1, TidsDiffer DEF i, j
<1>5. CASE j < i
  <2>1. i < j + TidSpace
    BY <1>1, <1>2, <1>3, OwnerType
  <2> QED
    BY <1>1, <1>5, <2>1, TidsDiffer DEF i, j
<1> QED
  BY <1>1, <1>2, <1>4, <1>5

\* An operation whose wait ends leaves the others registered: its own entry is
\* cleared, or is not there any more.
LEMMA LeavesRegistered ==
  ASSUME TypeOK, Numbered, Registered, NEW o \in Ops, UNCHANGED <<status, issued>>,
         op'[o].call = None \/ op'[o].answer # None,
         \A p \in Ops \ {o} : op'[p].call = op[p].call /\ op'[p].answer = op[p].answer,
         \/ /\ Waits(o)
            /\ pending' = [pending EXCEPT ![NodeOf(o)] =
                             PopPending(NodeOf(o), Tid(op[o].call.no))]
         \/ ~Waits(o) /\ pending' = pending
  PROVE  Registered'
<1> DEFINE n == NodeOf(o)  i == Tid(op[o].call.no)
<1>1. n \in Nodes /\ issued[n] \in Nat
  BY OwnerType DEF TypeOK
<1>2. i \in Tids \/ ~Waits(o)
  BY CallNumber, TidType DEF Waits
<1>3. \A p \in Ops \ {o} : WillWait(p) <=> Waits(p)
  BY DEF Waits, WillWait
<1>4. ~WillWait(o)
  BY DEF Waits, WillWait
<1>5. \A m \in Nodes, t \in Tids :
        pending'[m][t] = IF Waits(o) /\ m = n /\ t = i THEN None ELSE pending[m][t]
  BY <1>1, <1>2 DEF TypeOK, PopPending
<1>6. ASSUME NEW m \in Nodes, NEW t \in Tids, pending'[m][t] # None
      PROVE  /\ pending'[m][t] = pending[m][t] /\ pending[m][t] \in Ops \ {o}
             /\ Waits(pending[m][t])
  <2>1. pending'[m][t] = pending[m][t] /\ ~(Waits(o) /\ m = n /\ t = i)
    BY <1>5, <1>6
  <2>2. pending[m][t] # o
    BY <1>6, <2>1, RegisteredOp DEF Registered, PendingIsExact
  <2> QED
    BY <1>6, <2>1, <2>2 DEF TypeOK, Registered, PendingIsExact
<1>7. ASSUME NEW m \in Nodes, NEW t \in Tids, pending'[m][t] # None
      PROVE  /\ WillWait(pending'[m][t]) /\ NodeOf(pending'[m][t]) = m
             /\ Tid(op'[pending'[m][t]].call.no) = t
             /\ issued'[m] < op'[pending'[m][t]].call.no + TidSpace
  <2>1. PICK p \in Ops \ {o} : p = pending[m][t] /\ p # None /\ Waits(p) /\ pending'[m][t] = p
    BY <1>6, <1>7
  <2>2. NodeOf(p) = m /\ Tid(op[p].call.no) = t /\ issued[m] < op[p].call.no + TidSpace
    BY <2>1, RegisteredOp
  <2>3. WillWait(p) /\ op'[p].call = op[p].call
    BY <1>3, <2>1
  <2> QED
    BY <2>1, <2>2, <2>3
<1>8. ASSUME NEW p \in Ops, WillWait(p), op'[p].call.no <= TidSpace,
             issued'[NodeOf(p)] < op'[p].call.no + TidSpace
      PROVE  pending'[NodeOf(p)][Tid(op'[p].call.no)] = p
  <2>1. p # o /\ Waits(p) /\ op'[p].call = op[p].call
    BY <1>3, <1>4, <1>8
  <2>2. pending[NodeOf(p)][Tid(op[p].call.no)] = p
    BY <1>8, <2>1 DEF Registered, PendingIsExact
  <2>3. NodeOf(p) \in Nodes /\ Tid(op[p].call.no) \in Tids
    BY <2>1, CallNumber, OwnerType, TidType DEF Waits
  <2>4. Waits(o) /\ NodeOf(p) = n => Tid(op[p].call.no) # i
    BY <1>8, <2>1, OtherId DEF Waits
  <2> QED
    BY <1>5, <2>1, <2>2, <2>3, <2>4
<1> QED
  BY <1>7, <1>8, RegisteredAfter

\* A node whose table is empty, with nobody waiting, beside nodes left alone.
LEMMA EmptyRegistered ==
  ASSUME TypeOK, Registered, NEW n \in Nodes,
         \A t \in Tids : pending'[n][t] = None,
         \A o \in Ops : NodeOf(o) = n => ~WillWait(o),
         \A m \in Nodes \ {n} : /\ status'[m] = status[m] /\ issued'[m] = issued[m]
                                /\ pending'[m] = pending[m],
         \A o \in Ops : NodeOf(o) # n => op'[o] = op[o]
  PROVE  Registered'
<1>1. \A o \in Ops : NodeOf(o) # n => (WillWait(o) <=> Waits(o))
  BY OwnerType DEF WillWait, Waits
<1>2. ASSUME NEW m \in Nodes, NEW t \in Tids, pending'[m][t] # None
      PROVE  /\ WillWait(pending'[m][t]) /\ NodeOf(pending'[m][t]) = m
             /\ Tid(op'[pending'[m][t]].call.no) = t
             /\ issued'[m] < op'[pending'[m][t]].call.no + TidSpace
  <2>1. m # n
    BY <1>2
  <2>2. PICK p \in Ops : p = pending[m][t] /\ p # None /\ Waits(p) /\ pending'[m][t] = p
    BY <1>2, <2>1 DEF TypeOK, Registered, PendingIsExact
  <2>3. NodeOf(p) = m /\ Tid(op[p].call.no) = t /\ issued[m] < op[p].call.no + TidSpace
    BY <2>2, RegisteredOp
  <2> QED
    BY <1>1, <2>1, <2>2, <2>3
<1>3. ASSUME NEW o \in Ops, WillWait(o), op'[o].call.no <= TidSpace,
             issued'[NodeOf(o)] < op'[o].call.no + TidSpace
      PROVE  pending'[NodeOf(o)][Tid(op'[o].call.no)] = o
  BY <1>1, <1>3, OwnerType DEF Registered, PendingIsExact
<1> QED
  BY <1>2, <1>3, RegisteredAfter

\* A query takes the next number: an older entry under its id is gone, one under
\* another id is still less than TidSpace numbers old.
LEMMA AskRegistered ==
  ASSUME TypeOK, Progress, Numbered, Registered, NEW o \in Ops, NEW m \in Nodes, Ask(o, m)
  PROVE  Registered'
<1> DEFINE n == NodeOf(o)  no == issued[n] + 1
<1>1. n \in Nodes /\ issued[n] \in Nat
  BY OwnerType DEF TypeOK
<1>2. op[o].call = None /\ op[o].answer = None
  BY AskOp DEF Progress
<1>3. op'[o].call.no = no /\ op'[o].call # None /\ op'[o].answer = None
  <2>1. op'[o].call = [no |-> no, to |-> m] /\ op'[o].call # None
    BY AskOp DEF NextTid
  <2>2. op'[o].answer = op[o].answer
    BY AskOp
  <2> QED
    BY <1>2, <2>1, <2>2
<1>4. \A p \in Ops \ {o} : op'[p] = op[p]
  BY AskOp
<1>5. status' = status
  BY DEF Ask, process
<1>6. \A p \in Ops \ {o} : WillWait(p) <=> Waits(p)
  BY <1>4, <1>5 DEF WillWait, Waits
<1>7. ~Waits(o)
  BY <1>2 DEF Waits
<1>8. CASE status[n] = "off"
  <2>1. UNCHANGED <<issued, pending>>
    BY <1>8 DEF Ask, queries
  <2>2. ~WillWait(o)
    BY <1>5, <1>8 DEF WillWait
  <2>3. ASSUME NEW k \in Nodes, NEW t \in Tids, pending'[k][t] # None
        PROVE  /\ WillWait(pending'[k][t]) /\ NodeOf(pending'[k][t]) = k
               /\ Tid(op'[pending'[k][t]].call.no) = t
               /\ issued'[k] < op'[pending'[k][t]].call.no + TidSpace
    <3>1. PICK p \in Ops : p = pending[k][t] /\ p # None /\ Waits(p) /\ pending'[k][t] = p
      BY <2>1, <2>3 DEF TypeOK, Registered, PendingIsExact
    <3>2. NodeOf(p) = k /\ Tid(op[p].call.no) = t /\ issued[k] < op[p].call.no + TidSpace
      BY <3>1, RegisteredOp
    <3> QED
      BY <1>4, <1>6, <1>7, <2>1, <3>1, <3>2
  <2>4. ASSUME NEW p \in Ops, WillWait(p), op'[p].call.no <= TidSpace,
               issued'[NodeOf(p)] < op'[p].call.no + TidSpace
        PROVE  pending'[NodeOf(p)][Tid(op'[p].call.no)] = p
    BY <1>4, <1>6, <2>1, <2>2, <2>4 DEF Registered, PendingIsExact
  <2> QED
    BY <2>3, <2>4, RegisteredAfter
<1>9. CASE status[n] # "off"
  <2>1. /\ issued' = [issued EXCEPT ![n] = no]
        /\ pending' = [pending EXCEPT ![n][Tid(no)] = o]
    BY <1>9 DEF Ask, NextTid
  <2>2. Tid(no) \in Tids
    BY <1>1, TidType
  <2>3. \A k \in Nodes : issued'[k] = IF k = n THEN no ELSE issued[k]
    BY <1>1, <2>1 DEF TypeOK
  <2>4. \A k \in Nodes, t \in Tids :
          pending'[k][t] = IF k = n /\ t = Tid(no) THEN o ELSE pending[k][t]
    BY <1>1, <2>1, <2>2 DEF TypeOK
  <2>5. WillWait(o)
    BY <1>3, <1>5, <1>9 DEF WillWait
  <2> HIDE DEF no
  <2>6. ASSUME NEW k \in Nodes, NEW t \in Tids, pending'[k][t] # None
        PROVE  /\ WillWait(pending'[k][t]) /\ NodeOf(pending'[k][t]) = k
               /\ Tid(op'[pending'[k][t]].call.no) = t
               /\ issued'[k] < op'[pending'[k][t]].call.no + TidSpace
    <3>1. CASE k = n /\ t = Tid(no)
      <4>1. no \in Nat /\ no < no + TidSpace
        BY <1>1 DEF no
      <4> QED
        BY <1>3, <2>3, <2>4, <2>5, <3>1, <4>1
    <3>2. CASE ~(k = n /\ t = Tid(no))
      <4>1. PICK p \in Ops : p = pending[k][t] /\ p # None /\ Waits(p) /\ pending'[k][t] = p
        BY <2>4, <2>6, <3>2 DEF TypeOK, Registered, PendingIsExact
      <4>2. NodeOf(p) = k /\ Tid(op[p].call.no) = t /\ issued[k] < op[p].call.no + TidSpace
        BY <4>1, RegisteredOp
      <4>3. op[p].call.no \in Nat \ {0} /\ issued[k] \in Nat
        BY <4>1, CallNumber DEF Waits, TypeOK
      <4>4. k = n => no < op[p].call.no + TidSpace
        <5> SUFFICES ASSUME k = n, no = op[p].call.no + TidSpace PROVE FALSE
          BY <1>1, <4>2, <4>3 DEF no
        <5>1. Tid(no) = Tid(op[p].call.no)
          BY <4>3, TidWraps
        <5> QED
          BY <3>2, <4>2, <5>1
      <4> QED
        BY <1>4, <1>6, <1>7, <2>3, <4>1, <4>2, <4>4
    <3> QED
      BY <3>1, <3>2
  <2>7. ASSUME NEW p \in Ops, WillWait(p), op'[p].call.no <= TidSpace,
               issued'[NodeOf(p)] < op'[p].call.no + TidSpace
        PROVE  pending'[NodeOf(p)][Tid(op'[p].call.no)] = p
    <3>1. CASE p = o
      BY <1>1, <1>3, <2>2, <2>4, <3>1
    <3>2. CASE p # o
      <4>1. Waits(p) /\ op'[p] = op[p] /\ NodeOf(p) \in Nodes
        BY <1>4, <1>6, <2>7, <3>2, OwnerType
      <4> DEFINE i == op[p].call.no
      <4>2. i \in Nat \ {0} /\ Tid(i) \in Tids /\ i <= TidSpace
        BY <2>7, <4>1, CallNumber, TidType DEF Waits
      <4>3. issued[NodeOf(p)] < i + TidSpace
        BY <1>1, <2>3, <2>7, <4>1, <4>2 DEF no
      <4>4. pending[NodeOf(p)][Tid(i)] = p
        BY <4>1, <4>2, <4>3 DEF Registered, PendingIsExact
      <4>5. NodeOf(p) = n => i < no /\ no < i + TidSpace
        BY <1>1, <2>3, <2>7, <4>1, <4>2 DEF no, Numbered, Waits
      <4>6. NodeOf(p) = n => Tid(i) # Tid(no)
        BY <1>1, <4>2, <4>5, TidsDiffer DEF no
      <4> QED
        BY <2>4, <4>1, <4>2, <4>4, <4>6
    <3> QED
      BY <3>1, <3>2
  <2> QED
    BY <2>6, <2>7, RegisteredAfter
<1> QED
  BY <1>8, <1>9

\* Nothing is registered at a node that is down.
LEMMA DownIsEmpty ==
  ASSUME TypeOK, Registered, NEW n \in Nodes, status[n] = "off", NEW t \in Tids
  PROVE  pending[n][t] = None
  BY RegisteredOp

\* No operation of a node that is about to start is under way.
LEMMA NobodyAsks ==
  ASSUME TypeOK, Progress, NEW n \in Nodes, Start(n), NEW o \in Ops, NodeOf(o) = n, o # n
  PROVE  op'[o] = op[o] /\ op[o].call = None /\ op[o].answer = None
<1>1. o \in Tasks
  BY DEF Ops, NodeOf
<1>2. op[o].pc \notin Steps
  BY <1>1, OwnerType DEF Start, Steps, Ended
<1>3. op[o].call = None /\ op[o].answer = None
  BY <1>2 DEF Progress
<1> QED
  BY <1>3, StartOp

LEMMA StepRegistered ==
  TypeOK /\ Progress /\ Numbered /\ Registered /\ [Next]_vars => Registered'
<1> SUFFICES ASSUME TypeOK, Progress, Numbered, Registered, [Next]_vars PROVE Registered'
  OBVIOUS
<1> USE DEF process, knowledge, queries
<1>1. ASSUME NEW n \in Nodes, Start(n) PROVE Registered'
  <2>1. \A t \in Tids : pending'[n][t] = None
    BY <1>1, DownIsEmpty DEF Start
  <2>2. \A o \in Ops : NodeOf(o) = n => ~WillWait(o)
    BY <1>1, NobodyAsks, StartOp DEF WillWait
  <2>3. \A o \in Ops : NodeOf(o) # n => op'[o] = op[o]
    BY <1>1, StartOp, OwnerType
  <2>4. \A m \in Nodes \ {n} : /\ status'[m] = status[m] /\ issued'[m] = issued[m]
                               /\ pending'[m] = pending[m]
    BY <1>1 DEF Start, TypeOK
  <2> QED
    BY <2>1, <2>2, <2>3, <2>4, EmptyRegistered
<1>2. ASSUME NEW n \in Nodes, Started(n) PROVE Registered'
  <2>1. \A o \in Ops : op'[o].call = op[o].call /\ op'[o].answer = op[o].answer
    BY <1>2, StartedOp, OwnerType DEF Idle, Progress
  <2>2. UNCHANGED <<issued, pending>> /\ \A m \in Nodes : status'[m] = "off" <=> status[m] = "off"
    BY <1>2 DEF Started, TypeOK
  <2> QED
    BY <2>1, <2>2, StillRegistered
<1>3. ASSUME NEW n \in Nodes, Stop(n) PROVE Registered'
  <2>1. \A t \in Tids : pending'[n][t] = None
    BY <1>3 DEF Stop, TypeOK
  <2>2. \A o \in Ops : NodeOf(o) = n => ~WillWait(o)
    BY <1>3 DEF Stop, TypeOK, WillWait
  <2>3. \A o \in Ops : NodeOf(o) # n => op'[o] = op[o]
    BY <1>3, StopOp
  <2>4. \A m \in Nodes \ {n} : /\ status'[m] = status[m] /\ issued'[m] = issued[m]
                               /\ pending'[m] = pending[m]
    BY <1>3 DEF Stop, TypeOK
  <2> QED
    BY <2>1, <2>2, <2>3, <2>4, EmptyRegistered
<1>4. ASSUME NEW t \in Tasks, Publish(t) \/ Lookup(t) PROVE Registered'
  <2>1. \A o \in Ops : op'[o].call = op[o].call /\ op'[o].answer = op[o].answer
    BY <1>4, BeginOp
  <2>2. UNCHANGED <<issued, pending, status>>
    BY <1>4 DEF Publish, Lookup
  <2> QED
    BY <2>1, <2>2, StillRegistered
<1>5. ASSUME NEW o \in Ops, NEW m \in Nodes, Ask(o, m) PROVE Registered'
  BY <1>5, AskRegistered
<1>6. ASSUME NEW o \in Ops, Resume(o) PROVE Registered'
  <2>1. ~Waits(o)
    BY <1>6, AdvanceOp DEF Waits
  <2>2. op'[o].call = None
    BY <1>6, AdvanceOp, AdvanceFields DEF Progress
  <2>3. \A p \in Ops \ {o} : op'[p] = op[p]
    BY <1>6, AdvanceOp
  <2>4. UNCHANGED <<status, issued, pending>>
    BY <1>6 DEF Resume
  <2> QED
    BY <2>1, <2>2, <2>3, <2>4, LeavesRegistered
<1>7. ASSUME NEW o \in Ops, Timeout(o) PROVE Registered'
  <2>1. Waits(o) <=> status[NodeOf(o)] # "off"
    BY <1>7 DEF Waits, Timeout, TimesOut
  <2>2. op'[o].call = None
    BY <1>7, AdvanceOp, AdvanceFields DEF Progress
  <2>3. \A p \in Ops \ {o} : op'[p] = op[p]
    BY <1>7, AdvanceOp
  <2>4. UNCHANGED <<status, issued>>
    BY <1>7 DEF Timeout
  <2>5. pending' = IF status[NodeOf(o)] = "off" THEN pending
                   ELSE [pending EXCEPT ![NodeOf(o)] = PopPending(NodeOf(o), Tid(op[o].call.no))]
    BY <1>7 DEF Timeout, TimeoutPops
  <2> QED
    BY <2>1, <2>2, <2>3, <2>4, <2>5, LeavesRegistered
<1>8. ASSUME NEW o \in Ops, GoesOn(o) PROVE Registered'
  <2>1. \A p \in Ops : op'[p].call = op[p].call /\ op'[p].answer = op[p].answer
    BY <1>8, GoesOnOp
  <2>2. UNCHANGED <<issued, pending, status>>
    BY <1>8 DEF GoesOn, EndRound, EndWalk, EndLookup, Fetch
  <2> QED
    BY <2>1, <2>2, StillRegistered
<1>9. ASSUME NEW d \in net, HandleQuery(d) PROVE Registered'
  BY <1>9, StillRegistered DEF HandleQuery
<1>10. ASSUME NEW d \in net, HandleResponse(d) PROVE Registered'
  <2> DEFINE n == d.to  o == pending[n][d.tid]
  <2>1. n \in Nodes /\ d.tid \in Tids /\ d # None /\ UNCHANGED <<status, issued>>
    BY <1>10, ResponseOp DEF HandleResponse
  <2>2. pending' = [pending EXCEPT ![n] = PopPending(n, d.tid)]
    BY <1>10 DEF HandleResponse
  <2>3. CASE o = None
    <3>1. pending' = pending
      <4>1. PopPending(n, d.tid) = pending[n]
        BY <2>1, <2>3 DEF PopPending, TypeOK
      <4> QED
        BY <2>1, <2>2, <4>1 DEF TypeOK
    <3>2. op' = op
      BY <1>10, <2>3, ResponseOp
    <3> QED
      BY <2>1, <3>1, <3>2, StillRegistered
  <2>4. CASE o # None
    <3>1. o \in Ops /\ Waits(o) /\ NodeOf(o) = n /\ Tid(op[o].call.no) = d.tid
      BY <2>1, <2>4, RegisteredOp DEF Waits
    <3>2. op'[o].answer = d
      BY <1>10, <2>4, ResponseOp
    <3>3. \A p \in Ops \ {o} : op'[p] = op[p]
      BY <1>10, ResponseOp
    <3> HIDE DEF o
    <3> QED
      BY <2>1, <2>2, <3>1, <3>2, <3>3, LeavesRegistered
  <2> QED
    BY <2>3, <2>4
<1>11. CASE UNCHANGED vars
  BY <1>11, StillRegistered DEF vars
<1> QED
  BY <1>1, <1>2, <1>3, <1>4, <1>5, <1>6, <1>7, <1>8, <1>9, <1>10, <1>11, AllSteps

----------------------------------------------------------------------------
(* What the datagrams say.                                                 *)

\* The calls of o are not touched but perhaps ended.
Keeps(o) ==
    \/ op'[o].call = None
    \/ op'[o].call = op[o].call /\ op'[o].pc = op[o].pc /\ op'[o].key = op[o].key

\* A step in which nothing is sent, announced or stored, and no node comes up.
Quiet ==
    /\ UNCHANGED <<life, issued, net, announced, stored>>
    /\ \A n \in Nodes : status'[n] # "off" => status[n] # "off"
    /\ \A o \in Ops : Keeps(o)

\* No operation gets an answer.
NoAnswer == \A o \in Ops : op'[o].answer = None
                           \/ (op'[o].answer = op[o].answer /\ op'[o].call = op[o].call)

LEMMA QuietNumbered == TypeOK /\ Numbered /\ Quiet => Numbered'
<1> SUFFICES ASSUME TypeOK, Numbered, Quiet PROVE Numbered'
  OBVIOUS
<1>1. UNCHANGED <<life, issued>> /\ \A n \in Nodes : status'[n] # "off" => status[n] # "off"
  BY DEF Quiet
<1>2. \A o \in Ops : op'[o].call = None \/ op'[o].call = op[o].call
  BY DEF Quiet, Keeps
<1>3. \A n \in Nodes : status'[n] # "off" => life'[n] > 0
  BY <1>1 DEF Numbered
<1>4. ASSUME NEW o \in Ops, op'[o].call # None, status'[NodeOf(o)] # "off"
      PROVE  /\ op'[o].call.no <= issued'[NodeOf(o)]
             /\ \A p \in Ops \ {o} : op'[p].call # None /\ NodeOf(p) = NodeOf(o) =>
                  op'[p].call.no # op'[o].call.no
  BY <1>1, <1>2, <1>4, OwnerType DEF Numbered
<1> QED
  BY <1>3, <1>4 DEF Numbered

LEMMA QuietTraced == TypeOK /\ Traced /\ Quiet => Traced'
<1> SUFFICES ASSUME TypeOK, Traced, Quiet PROVE Traced'
  OBVIOUS
<1>1. UNCHANGED <<life, issued, net>>
  BY DEF Quiet
<1>2. ASSUME NEW d \in net, NEW o \in Ops, Concerns(d, o)'
      PROVE  Concerns(d, o) /\ op'[o].call = op[o].call
  BY <1>1, <1>2 DEF Concerns, Quiet, Keeps
<1> QED
  BY <1>1, <1>2 DEF Traced

LEMMA QuietBacked == TypeOK /\ Backed /\ Quiet => Backed'
<1> SUFFICES ASSUME TypeOK, Backed, Quiet PROVE Backed'
  OBVIOUS
<1>1. UNCHANGED <<life, issued, net, announced, stored>>
  BY DEF Quiet
<1>2. ASSUME NEW d \in net, NEW o \in Ops, Concerns(d, o)'
      PROVE  Concerns(d, o) /\ op'[o].pc = op[o].pc /\ op'[o].key = op[o].key
  BY <1>1, <1>2 DEF Concerns, Quiet, Keeps
<1> QED
  BY <1>1, <1>2 DEF Backed

LEMMA QuietAnswers ==
  TypeOK /\ Received /\ AnswersOwnQuestion /\ Quiet /\ NoAnswer
     => Received' /\ AnswersOwnQuestion'
<1> SUFFICES ASSUME TypeOK, Received, AnswersOwnQuestion, Quiet, NoAnswer
             PROVE  Received' /\ AnswersOwnQuestion'
  OBVIOUS
<1>1. UNCHANGED <<life, net>>
  BY DEF Quiet
<1>2. ASSUME NEW o \in Ops, op'[o].answer # None
      PROVE  op'[o].answer = op[o].answer /\ op'[o].call = op[o].call
  BY <1>2 DEF NoAnswer
<1>3. Received'
  BY <1>1, <1>2 DEF Received
<1>4. AnswersOwnQuestion'
  BY <1>1, <1>2 DEF AnswersOwnQuestion, IsOwn
<1> QED
  BY <1>3, <1>4

\* The steps that send, announce and store nothing and bring no node up.
QuietStep ==
    \/ \E n \in Nodes : Started(n) \/ Stop(n)
    \/ \E t \in Tasks : Publish(t) \/ Lookup(t)
    \/ \E o \in Ops : Resume(o) \/ Timeout(o) \/ GoesOn(o)
    \/ UNCHANGED vars

LEMMA QuietSteps == TypeOK /\ Progress /\ QuietStep => Quiet /\ NoAnswer
<1> SUFFICES ASSUME TypeOK, Progress, QuietStep PROVE Quiet /\ NoAnswer
  OBVIOUS
<1> USE DEF process, knowledge, queries
<1>0. \A o \in Ops : /\ op[o].call = None => op[o].answer = None
                     /\ op[o].call # None => op[o].pc \in Steps
  BY DEF Progress
<1>1. ASSUME NEW n \in Nodes, Started(n) PROVE Quiet /\ NoAnswer
  <2>1. UNCHANGED <<life, issued, net, announced, stored>>
        /\ \A m \in Nodes : status'[m] # "off" => status[m] # "off"
    BY <1>1 DEF Started, TypeOK
  <2>2. op'[n].call = None /\ op'[n].answer = None
    BY <1>1, StartedOp DEF Idle
  <2> QED
    BY <1>1, <2>1, <2>2, StartedOp DEF Quiet, NoAnswer, Keeps
<1>2. ASSUME NEW n \in Nodes, Stop(n) PROVE Quiet /\ NoAnswer
  <2>1. UNCHANGED <<life, issued, net, announced, stored>>
        /\ \A m \in Nodes : status'[m] # "off" => status[m] # "off"
    BY <1>2 DEF Stop, TypeOK
  <2> QED
    BY <1>2, <2>1, StopOp DEF Quiet, NoAnswer, Keeps
<1>3. ASSUME NEW t \in Tasks, Publish(t) \/ Lookup(t) PROVE Quiet /\ NoAnswer
  <2>1. UNCHANGED <<life, issued, net, announced, stored, status>>
    BY <1>3 DEF Publish, Lookup
  <2>2. t \in Ops /\ op[t].call = None
    BY <1>0, <1>3, BeginOp, OwnerType DEF Steps
  <2> QED
    BY <1>3, <2>1, <2>2, BeginOp DEF Quiet, NoAnswer, Keeps
<1>4. ASSUME NEW o \in Ops, Resume(o) \/ Timeout(o) PROVE Quiet /\ NoAnswer
  <2>1. UNCHANGED <<life, issued, net, announced, stored, status>>
    BY <1>4 DEF Resume, Timeout
  <2>2. op'[o].call = None /\ op'[o].answer = None
    BY <1>0, <1>4, AdvanceOp, AdvanceFields
  <2> QED
    BY <1>4, <2>1, <2>2, AdvanceOp DEF Quiet, NoAnswer, Keeps
<1>5. ASSUME NEW o \in Ops, GoesOn(o) PROVE Quiet /\ NoAnswer
  <2>1. UNCHANGED <<life, issued, net, announced, stored, status>>
    BY <1>5 DEF GoesOn, EndRound, EndWalk, EndLookup, Fetch
  <2> QED
    BY <1>5, <2>1, GoesOnOp DEF Quiet, NoAnswer, Keeps
<1>6. CASE UNCHANGED vars
  BY <1>6 DEF vars, Quiet, NoAnswer, Keeps
<1> QED
  BY <1>1, <1>2, <1>3, <1>4, <1>5, <1>6 DEF QuietStep

LEMMA ResponseQuiet ==
  ASSUME TypeOK, NEW d \in net, HandleResponse(d)
  PROVE  Quiet
<1> DEFINE o == pending[d.to][d.tid]
<1>1. UNCHANGED <<life, issued, net, announced, stored, status>>
  BY DEF HandleResponse, process
<1>2. CASE o = None
  BY <1>1, <1>2, ResponseOp DEF Quiet, Keeps
<1>3. CASE o # None
  <2>1. op'[o].call = op[o].call /\ op'[o].pc = op[o].pc /\ op'[o].key = op[o].key
    BY <1>3, ResponseOp
  <2>2. \A p \in Ops \ {o} : op'[p] = op[p]
    BY ResponseOp
  <2> HIDE DEF o
  <2> QED
    BY <1>1, <2>1, <2>2 DEF Quiet, Keeps
<1> QED
  BY <1>2, <1>3

\* The disjuncts of Next again.
LEMMA FiveSteps ==
  [Next]_vars =>
    \/ QuietStep
    \/ \E n \in Nodes : Start(n)
    \/ \E o \in Ops, m \in Nodes : Ask(o, m)
    \/ \E d \in net : HandleQuery(d) \/ HandleResponse(d)
  BY AllSteps DEF QuietStep

\* Sending: the variables after a query of a node that is up or down.
LEMMA AskEffect ==
  ASSUME TypeOK, NEW o \in Ops, NEW m \in Nodes, Ask(o, m)
  PROVE  LET n == NodeOf(o)
             no == issued[n] + 1
         IN  /\ UNCHANGED <<status, life, announced, stored>>
             /\ n \in Nodes /\ issued[n] \in Nat /\ no \in Nat \ {0}
             /\ op'[o].call.no = no /\ op'[o].call.to = m
             /\ status[n] = "off" => UNCHANGED <<issued, net>>
             /\ status[n] # "off" =>
                  /\ issued'[n] = no /\ \A k \in Nodes \ {n} : issued'[k] = issued[k]
                  /\ net' = net \cup {[type |-> "q", from |-> n, to |-> m, tid |-> Tid(no),
                                       method |-> Method(op[o].pc), key |-> op[o].key,
                                       call |-> <<o, life[n], no>>]}
<1> USE DEF process, knowledge, queries
<1>1. UNCHANGED <<status, life, announced, stored>>
  BY DEF Ask
<1>2. NodeOf(o) \in Nodes /\ issued[NodeOf(o)] \in Nat
  BY OwnerType DEF TypeOK
<1>3. op'[o].call.no = issued[NodeOf(o)] + 1 /\ op'[o].call.to = m
  <2>1. op'[o].call = [no |-> issued[NodeOf(o)] + 1, to |-> m]
    BY AskOp DEF NextTid
  <2> QED
    BY <2>1
<1>4. status[NodeOf(o)] = "off" => UNCHANGED <<issued, net>>
  BY DEF Ask
<1>5. status[NodeOf(o)] # "off" =>
        /\ issued' = [issued EXCEPT ![NodeOf(o)] = issued[NodeOf(o)] + 1]
        /\ net' = net \cup {[type |-> "q", from |-> NodeOf(o), to |-> m,
                             tid |-> Tid(issued[NodeOf(o)] + 1),
                             method |-> Method(op[o].pc), key |-> op[o].key,
                             call |-> <<o, life[NodeOf(o)], issued[NodeOf(o)] + 1>>]}
  BY DEF Ask, NextTid
<1>6. status[NodeOf(o)] # "off" =>
        /\ issued'[NodeOf(o)] = issued[NodeOf(o)] + 1
        /\ \A k \in Nodes \ {NodeOf(o)} : issued'[k] = issued[k]
  BY <1>2, <1>5 DEF TypeOK
<1> QED
  BY <1>1, <1>2, <1>3, <1>4, <1>5, <1>6

LEMMA StepNumbered ==
  TypeOK /\ Progress /\ Registered /\ Numbered /\ [Next]_vars => Numbered'
<1> SUFFICES ASSUME TypeOK, Progress, Registered, Numbered, [Next]_vars PROVE Numbered'
  OBVIOUS
<1> USE DEF process, knowledge, queries
<1>1. CASE QuietStep
  BY <1>1, QuietSteps, QuietNumbered
<1>2. ASSUME NEW n \in Nodes, Start(n) PROVE Numbered'
  <2>1. life' = [life EXCEPT ![n] = @ + 1] /\ status' = [status EXCEPT ![n] = "booting"]
        /\ issued' = [issued EXCEPT ![n] = 0]
    BY <1>2 DEF Start
  <2>2. \A o \in Ops : NodeOf(o) = n => op'[o].call = None
    BY <1>2, NobodyAsks, StartOp
  <2>3. \A o \in Ops : NodeOf(o) # n => op'[o] = op[o]
    BY <1>2, StartOp, OwnerType
  <2>4. \A m \in Nodes : status'[m] # "off" => life'[m] > 0
    BY <2>1 DEF TypeOK, Numbered
  <2>5. \A m \in Nodes \ {n} : status'[m] = status[m] /\ issued'[m] = issued[m]
    BY <2>1 DEF TypeOK
  <2>6. ASSUME NEW o \in Ops, op'[o].call # None, status'[NodeOf(o)] # "off"
        PROVE  /\ op'[o].call.no <= issued'[NodeOf(o)]
               /\ \A p \in Ops \ {o} : op'[p].call # None /\ NodeOf(p) = NodeOf(o) =>
                    op'[p].call.no # op'[o].call.no
    <3>1. NodeOf(o) # n /\ op'[o] = op[o] /\ NodeOf(o) \in Nodes
      BY <2>2, <2>3, <2>6, OwnerType
    <3> QED
      BY <2>3, <2>5, <2>6, <3>1 DEF Numbered
  <2> QED
    BY <2>4, <2>6 DEF Numbered
<1>3. ASSUME NEW o \in Ops, NEW m \in Nodes, Ask(o, m) PROVE Numbered'
  <2> DEFINE n == NodeOf(o)  no == issued[n] + 1
  <2>1. /\ UNCHANGED <<status, life>> /\ n \in Nodes /\ issued[n] \in Nat
        /\ op'[o].call.no = no
    BY <1>3, AskEffect
  <2>2. \A p \in Ops \ {o} : op'[p] = op[p]
    BY <1>3, AskOp
  <2>3. status[n] # "off" => issued'[n] = no /\ \A k \in Nodes \ {n} : issued'[k] = issued[k]
    BY <1>3, AskEffect
  <2>4. status[n] = "off" => issued' = issued
    BY <1>3, AskEffect
  <2>5. \A p \in Ops \ {o} : op[p].call # None /\ NodeOf(p) = n /\ status[n] # "off" =>
          op[p].call.no <= issued[n] /\ op[p].call.no # no
    <3> SUFFICES ASSUME NEW p \in Ops \ {o}, op[p].call # None, NodeOf(p) = n,
                        status[n] # "off"
                 PROVE  op[p].call.no <= issued[n] /\ op[p].call.no # no
      OBVIOUS
    <3>1. op[p].call.no <= issued[n] /\ op[p].call.no \in Nat
      BY CallNumber DEF Numbered
    <3> QED
      BY <2>1, <3>1
  <2>6. no >= issued[n]
    BY <2>1
  <2> HIDE DEF no, n
  <2>7. ASSUME NEW p \in Ops, op'[p].call # None, status'[NodeOf(p)] # "off"
        PROVE  /\ op'[p].call.no <= issued'[NodeOf(p)]
               /\ \A q \in Ops \ {p} : op'[q].call # None /\ NodeOf(q) = NodeOf(p) =>
                    op'[q].call.no # op'[p].call.no
    <3>1. CASE p = o
      <4>1. no \in Nat /\ NodeOf(o) = n
        BY <2>1 DEF n, no
      <4> QED
        BY <2>1, <2>2, <2>3, <2>5, <2>7, <3>1, <4>1
    <3>2. CASE p # o
      <4>1. op'[p] = op[p] /\ NodeOf(p) \in Nodes /\ op[p].call.no \in Nat
        BY <2>2, <2>7, <3>2, OwnerType, CallNumber
      <4>2. op[p].call.no <= issued[NodeOf(p)] /\ issued[NodeOf(p)] \in Nat
        BY <2>1, <2>7, <4>1 DEF Numbered, TypeOK
      <4>3. issued[NodeOf(p)] <= issued'[NodeOf(p)] /\ issued'[NodeOf(p)] \in Nat
        <5>1. CASE status[n] = "off"
          BY <2>4, <4>2, <5>1
        <5>2. CASE NodeOf(p) # n
          BY <2>3, <2>4, <4>1, <4>2, <5>2
        <5>3. CASE NodeOf(p) = n /\ status[n] # "off"
          BY <2>1, <2>3, <4>2, <5>3 DEF no
        <5> QED
          BY <5>1, <5>2, <5>3
      <4>4. op'[p].call.no <= issued'[NodeOf(p)]
        BY <4>1, <4>2, <4>3
      <4>5. ASSUME NEW q \in Ops \ {p}, op'[q].call # None, NodeOf(q) = NodeOf(p)
            PROVE  op'[q].call.no # op'[p].call.no
        <5>1. CASE q = o
          <6>1. NodeOf(p) = n /\ status[n] # "off"
            BY <2>1, <2>7, <4>5, <5>1 DEF n
          <6> QED
            BY <2>1, <2>5, <2>7, <3>2, <4>1, <5>1, <6>1
        <5>2. CASE q # o
          BY <2>1, <2>2, <2>7, <4>1, <4>5, <5>2 DEF Numbered
        <5> QED
          BY <5>1, <5>2
      <4> QED
        BY <4>4, <4>5
    <3> QED
      BY <3>1, <3>2
  <2>8. \A k \in Nodes : status'[k] # "off" => life'[k] > 0
    BY <2>1 DEF Numbered
  <2> QED
    BY <2>7, <2>8 DEF Numbered
<1>4. ASSUME NEW d \in net, HandleQuery(d) PROVE Numbered'
  BY <1>4 DEF HandleQuery, Numbered
<1>5. ASSUME NEW d \in net, HandleResponse(d) PROVE Numbered'
  BY <1>5, ResponseQuiet, QuietNumbered
<1> QED
  BY <1>1, <1>2, <1>3, <1>4, <1>5, FiveSteps

\* The answer to a query.
LEMMA QueryEffect ==
  ASSUME NEW d \in net, HandleQuery(d)
  PROVE  /\ d.type = "q" /\ UNCHANGED <<status, life, issued, op>>
         /\ \E r : /\ net' = net \cup {r} /\ r.type = "r" /\ r.from = d.to /\ r.to = d.from
                   /\ r.tid = d.tid /\ r.call = d.call
                   /\ r.values = IF d.method = "get_peers" THEN PeersFor(d.to, d.key) ELSE {}
<1> DEFINE peers == IF d.method = "get_peers" THEN PeersFor(d.to, d.key) ELSE {}
           r(near) == [type |-> "r", from |-> d.to, to |-> d.from, tid |-> d.tid,
                       call |-> d.call, nodes |-> near, values |-> peers]
<1>1. PICK near : net' = net \cup {r(near)}
  BY DEF HandleQuery
<1>2. /\ r(near).type = "r" /\ r(near).from = d.to /\ r(near).to = d.from
      /\ r(near).tid = d.tid /\ r(near).call = d.call /\ r(near).values = peers
  OBVIOUS
<1> HIDE DEF r
<1>3. d.type = "q" /\ UNCHANGED <<status, life, issued, op>>
  BY DEF HandleQuery, process
<1> QED
  BY <1>1, <1>2, <1>3

\* The fields of a datagram.
LEMMA CallOf ==
  ASSUME TypeOK, NEW d \in net
  PROVE  /\ d.call \in Origins /\ d.call[1] \in Ops /\ NodeOf(d.call[1]) \in Nodes
         /\ d.call[2] \in Nat \ {0} /\ d.call[3] \in Nat \ {0}
         /\ d.call = <<d.call[1], d.call[2], d.call[3]>>
         /\ d.from \in Nodes /\ d.to \in Nodes /\ d.tid \in Tids
         /\ d.type \in {"q", "r"}
<1>1. d \in Queries \/ d \in Answers
  BY DEF TypeOK
<1>2. d.call \in Origins /\ d.from \in Nodes /\ d.to \in Nodes /\ d.tid \in Tids
      /\ d.type \in {"q", "r"}
  BY <1>1 DEF Queries, Answers
<1> QED
  BY <1>2, OwnerType DEF Origins

\* An old datagram does not concern the number that is only now taken.
LEMMA NewNumber ==
  ASSUME TypeOK, Traced, NEW o \in Ops, NEW m \in Nodes, Ask(o, m),
         NEW d \in net, NEW p \in Ops, Concerns(d, p)'
  PROVE  p # o /\ Concerns(d, p) /\ op'[p] = op[p]
<1>1. UNCHANGED life /\ op'[o].call.no = issued[NodeOf(o)] + 1 /\ issued[NodeOf(o)] \in Nat
  BY AskEffect
<1>2. p # o
  <2> SUFFICES ASSUME p = o PROVE FALSE
    OBVIOUS
  <2>1. NodeOf(o) = NodeOf(d.call[1]) /\ d.call[2] = life[NodeOf(o)]
        /\ d.call[3] = issued[NodeOf(o)] + 1
    BY <1>1 DEF Concerns
  <2>2. d.call[3] <= issued[NodeOf(o)] /\ d.call[3] \in Nat
    BY <2>1, CallOf DEF Traced
  <2> QED
    BY <1>1, <2>1, <2>2
<1>3. op'[p] = op[p]
  BY <1>2, AskOthers
<1> QED
  BY <1>1, <1>2, <1>3 DEF Concerns

\* A start makes all datagrams of the node those of an earlier life.
LEMMA NewLife ==
  ASSUME TypeOK, Progress, Traced, NEW n \in Nodes, Start(n),
         NEW d \in net, NEW p \in Ops, Concerns(d, p)'
  PROVE  NodeOf(p) # n /\ Concerns(d, p) /\ op'[p] = op[p]
<1>1. life' = [life EXCEPT ![n] = @ + 1]
  BY DEF Start
<1>2. NodeOf(p) # n
  BY NobodyAsks, StartOp DEF Concerns
<1>3. op'[p] = op[p] /\ NodeOf(p) \in Nodes
  BY <1>2, StartOp, OwnerType
<1> QED
  BY <1>1, <1>2, <1>3 DEF Concerns, TypeOK

LEMMA StepTraced ==
  TypeOK /\ Progress /\ Numbered /\ Traced /\ [Next]_vars => Traced'
<1> SUFFICES ASSUME TypeOK, Progress, Numbered, Traced, [Next]_vars PROVE Traced'
  OBVIOUS
<1> USE DEF process, knowledge, queries
<1>1. CASE QuietStep
  BY <1>1, QuietSteps, QuietTraced
<1> DEFINE Asked(d) == IF d.type = "q" THEN d.to ELSE d.from
<1>2. ASSUME NEW n \in Nodes, Start(n) PROVE Traced'
  <2>1. /\ life' = [life EXCEPT ![n] = @ + 1] /\ issued' = [issued EXCEPT ![n] = 0]
        /\ net' = net
    BY <1>2 DEF Start
  <2>2. ASSUME NEW d \in net
        PROVE  LET k == NodeOf(d.call[1])
               IN  /\ k = IF d.type = "q" THEN d.from ELSE d.to
                   /\ d.tid = Tid(d.call[3])
                   /\ d.call[2] <= life'[k]
                   /\ d.call[2] = life'[k] => d.call[3] <= issued'[k]
    <3> DEFINE k == NodeOf(d.call[1])
    <3>1. k \in Nodes /\ d.call[2] \in Nat /\ life[k] \in Nat
      BY CallOf DEF TypeOK
    <3>2. /\ k = IF d.type = "q" THEN d.from ELSE d.to
          /\ d.tid = Tid(d.call[3])
          /\ d.call[2] <= life[k]
          /\ d.call[2] = life[k] => d.call[3] <= issued[k]
      BY DEF Traced
    <3>3. life'[k] = (IF k = n THEN life[k] + 1 ELSE life[k])
          /\ (k # n => issued'[k] = issued[k])
      BY <2>1, <3>1 DEF TypeOK
    <3> HIDE DEF k
    <3>4. d.call[2] <= life'[k] /\ (d.call[2] = life'[k] => d.call[3] <= issued'[k])
      BY <3>1, <3>2, <3>3
    <3> QED
      BY <3>2, <3>4 DEF k
  <2>3. ASSUME NEW d \in net, NEW p \in Ops, Concerns(d, p)'
        PROVE  d.call[1] = p /\ op'[p].call.to = Asked(d)
    BY <1>2, <2>3, NewLife DEF Traced
  <2> QED
    BY <2>1, <2>2, <2>3 DEF Traced
<1>3. ASSUME NEW o \in Ops, NEW m \in Nodes, Ask(o, m) PROVE Traced'
  <2> DEFINE n == NodeOf(o)  no == issued[n] + 1
  <2>0. PICK q : q = [type |-> "q", from |-> n, to |-> m, tid |-> Tid(no),
                      method |-> Method(op[o].pc), key |-> op[o].key,
                      call |-> <<o, life[n], no>>]
    OBVIOUS
  <2>1. /\ UNCHANGED <<status, life>> /\ n \in Nodes /\ issued[n] \in Nat /\ no \in Nat \ {0}
        /\ op'[o].call.no = no /\ op'[o].call.to = m
        /\ status[n] = "off" => UNCHANGED <<issued, net>>
        /\ status[n] # "off" =>
             /\ issued'[n] = no /\ \A k \in Nodes \ {n} : issued'[k] = issued[k]
             /\ net' = net \cup {q}
    BY <1>3, <2>0, AskEffect
  <2>2. ASSUME NEW d \in net
        PROVE  LET k == NodeOf(d.call[1])
               IN  /\ k = IF d.type = "q" THEN d.from ELSE d.to
                   /\ d.tid = Tid(d.call[3])
                   /\ d.call[2] <= life'[k]
                   /\ d.call[2] = life'[k] => d.call[3] <= issued'[k]
    <3> DEFINE k == NodeOf(d.call[1])
    <3>1. k \in Nodes /\ d.call[3] \in Nat /\ issued[k] \in Nat
      BY CallOf DEF TypeOK
    <3>2. /\ k = IF d.type = "q" THEN d.from ELSE d.to
          /\ d.tid = Tid(d.call[3])
          /\ d.call[2] <= life[k]
          /\ d.call[2] = life[k] => d.call[3] <= issued[k]
      BY DEF Traced
    <3> HIDE DEF k
    <3>3. issued'[k] = issued[k] \/ issued'[k] = issued[k] + 1
      BY <2>1, <3>1
    <3>4. d.call[3] <= issued[k] => d.call[3] <= issued'[k]
      BY <3>1, <3>3
    <3> QED
      BY <2>1, <3>2, <3>4 DEF k
  <2>3. ASSUME NEW d \in net, NEW p \in Ops, Concerns(d, p)'
        PROVE  d.call[1] = p /\ op'[p].call.to = Asked(d)
    BY <1>3, <2>3, NewNumber DEF Traced
  <2>4. CASE status[n] = "off"
    BY <2>1, <2>2, <2>3, <2>4 DEF Traced
  <2>5. CASE status[n] # "off"
    <3>1. /\ q.type = "q" /\ q.from = n /\ q.to = m /\ q.tid = Tid(no)
          /\ q.call[1] = o /\ q.call[2] = life[n] /\ q.call[3] = no
      BY <2>0
    <3>2. no <= issued'[n] /\ life'[n] = life[n] /\ life[n] \in Nat
      BY <2>1, <2>5 DEF TypeOK
    <3>3. ASSUME NEW p \in Ops, Concerns(q, p)' PROVE p = o
      <4> SUFFICES ASSUME p # o PROVE FALSE
        OBVIOUS
      <4>1. op'[p] = op[p]
        BY <1>3, AskOthers
      <4>2. NodeOf(p) = n /\ op[p].call # None /\ op[p].call.no = no
        BY <2>1, <3>1, <3>3, <4>1 DEF Concerns
      <4>3. op[p].call.no <= issued[n]
        BY <2>5, <4>2 DEF Numbered
      <4> QED
        BY <2>1, <4>2, <4>3
    <3>4. net' = net \cup {q}
      BY <2>1, <2>5
    <3>5. LET k == NodeOf(q.call[1])
          IN  /\ k = IF q.type = "q" THEN q.from ELSE q.to
              /\ q.tid = Tid(q.call[3])
              /\ q.call[2] <= life'[k]
              /\ q.call[2] = life'[k] => q.call[3] <= issued'[k]
      BY <3>1, <3>2
    <3>6. ASSUME NEW p \in Ops, Concerns(q, p)'
          PROVE  q.call[1] = p /\ op'[p].call.to = Asked(q)
      BY <2>1, <3>1, <3>3, <3>6
    <3> QED
      BY <2>2, <2>3, <3>4, <3>5, <3>6 DEF Traced
  <2> QED
    BY <2>4, <2>5
<1>4. ASSUME NEW d \in net, HandleQuery(d) PROVE Traced'
  <2>1. UNCHANGED <<life, issued, op>> /\ d.type = "q"
    BY <1>4 DEF HandleQuery
  <2>2. PICK r : /\ net' = net \cup {r} /\ r.type = "r" /\ r.from = d.to /\ r.to = d.from
                 /\ r.tid = d.tid /\ r.call = d.call
    BY <1>4, QueryEffect
  <2>3. \A e \in net, o \in Ops : Concerns(e, o)' <=> Concerns(e, o)
    BY <2>1 DEF Concerns
  <2>4. \A o \in Ops : Concerns(r, o)' <=> Concerns(d, o)
    BY <2>1, <2>2 DEF Concerns
  <2> QED
    BY <2>1, <2>2, <2>3, <2>4 DEF Traced
<1>5. ASSUME NEW d \in net, HandleResponse(d) PROVE Traced'
  BY <1>5, ResponseQuiet, QuietTraced
<1> QED
  BY <1>1, <1>2, <1>3, <1>4, <1>5, FiveSteps

LEMMA StepBacked ==
  TypeOK /\ Progress /\ Traced /\ Traced' /\ Backed /\ [Next]_vars => Backed'
<1> SUFFICES ASSUME TypeOK, Progress, Traced, Traced', Backed, [Next]_vars PROVE Backed'
  OBVIOUS
<1> USE DEF process, knowledge, queries
<1>1. CASE QuietStep
  BY <1>1, QuietSteps, QuietBacked
<1>2. ASSUME NEW n \in Nodes, Start(n) PROVE Backed'
  <2>1. net' = net /\ stored' = stored /\ announced' = [announced EXCEPT ![n] = {}]
    BY <1>2 DEF Start
  <2>2. \A m \in Nodes : announced'[m] \subseteq announced[m]
    BY <2>1 DEF TypeOK
  <2>3. ASSUME NEW d \in net, NEW o \in Ops, Concerns(d, o)'
        PROVE  Concerns(d, o) /\ op'[o] = op[o]
    BY <1>2, <2>3, NewLife
  <2> QED
    BY <2>1, <2>2, <2>3 DEF Backed
<1>3. ASSUME NEW o \in Ops, NEW m \in Nodes, Ask(o, m) PROVE Backed'
  <2> DEFINE n == NodeOf(o)  no == issued[n] + 1
  <2>0. PICK q : q = [type |-> "q", from |-> n, to |-> m, tid |-> Tid(no),
                      method |-> Method(op[o].pc), key |-> op[o].key,
                      call |-> <<o, life[n], no>>]
    OBVIOUS
  <2>1. /\ UNCHANGED <<life, announced, stored>>
        /\ net' = net \/ net' = net \cup {q}
    BY <1>3, <2>0, AskEffect
  <2>2. ASSUME NEW d \in net, NEW p \in Ops, Concerns(d, p)'
        PROVE  Concerns(d, p) /\ op'[p] = op[p]
    BY <1>3, <2>2, NewNumber
  <2>3. q.type = "q" /\ q.key = op[o].key /\ q.method = Method(op[o].pc)
        /\ q.call[1] = o /\ q.call[2] = life[n] /\ q.call[3] = no
    BY <2>0
  <2>4. op'[o].pc = op[o].pc /\ op'[o].key = op[o].key
    BY <1>3, AskOp
  <2>5. ASSUME NEW p \in Ops, q \in net', Concerns(q, p)'
        PROVE  q.key = op'[p].key /\ q.method = Method(op'[p].pc)
    <3>1. CASE q \in net
      BY <2>2, <2>5, <2>3, <3>1 DEF Backed
    <3>2. CASE q \notin net
      <4>1. p = o
        <5>1. q \in net' /\ Traced'
          BY <2>5, <3>2
        <5> QED
          BY <2>3, <2>5, <5>1 DEF Traced
      <4> QED
        BY <2>3, <2>4, <4>1
    <3> QED
      BY <3>1, <3>2
  <2> QED
    BY <2>1, <2>2, <2>3, <2>5 DEF Backed
<1>4. ASSUME NEW d \in net, HandleQuery(d) PROVE Backed'
  <2>1. d.type = "q" /\ UNCHANGED <<life, op>>
    BY <1>4, QueryEffect
  <2>2. PICK r : /\ net' = net \cup {r} /\ r.type = "r" /\ r.from = d.to /\ r.to = d.from
                 /\ r.call = d.call
                 /\ r.values = IF d.method = "get_peers" THEN PeersFor(d.to, d.key) ELSE {}
    BY <1>4, QueryEffect
  <2>3. d.to \in Nodes
    BY CallOf
  <2>4. /\ stored \subseteq stored'
        /\ d.method = "announce_peer" => <<d.key, d.from, d.to, life[d.to]>> \in stored'
    BY <1>4 DEF HandleQuery
  <2>5. \A n \in Nodes : \A e \in announced'[n] : \E s \in stored' : s[1] = e[1] /\ s[2] = e[2]
    <3> SUFFICES ASSUME NEW n \in Nodes, NEW e \in announced'[n]
                 PROVE  \E s \in stored' : s[1] = e[1] /\ s[2] = e[2]
      OBVIOUS
    <3>1. e \in announced[n] \/ (d.method = "announce_peer" /\ e = <<d.key, d.from>>)
      BY <1>4, <2>3 DEF HandleQuery, TypeOK
    <3>2. CASE e \in announced[n]
      BY <2>4, <3>2 DEF Backed
    <3>3. CASE d.method = "announce_peer" /\ e = <<d.key, d.from>>
      BY <2>4, <3>3
    <3> QED
      BY <3>1, <3>2, <3>3
  <2>6. \A e \in net, o \in Ops : Concerns(e, o)' <=> Concerns(e, o)
    BY <2>1 DEF Concerns
  <2>7. ASSUME NEW o \in Ops, Concerns(r, o)'
        PROVE  /\ op[o].pc = "peers" =>
                    \A p \in r.values : \E s \in stored' : s[1] = op[o].key /\ s[2] = p
               /\ op[o].pc = "announce" =>
                    \E s \in stored' : s[1] = op[o].key /\ s[2] = NodeOf(o) /\ s[3] = r.from
    <3>1. Concerns(d, o)
      BY <2>1, <2>2, <2>7 DEF Concerns
    <3>2. d.key = op[o].key /\ d.method = Method(op[o].pc)
      BY <2>1, <3>1 DEF Backed
    <3>3. CASE op[o].pc = "peers"
      <4>1. r.values = PeersFor(d.to, op[o].key)
        BY <2>2, <3>2, <3>3 DEF Method
      <4>2. \A p \in r.values : \E e \in announced[d.to] : e[1] = op[o].key /\ e[2] = p
        BY <4>1 DEF PeersFor
      <4>3. \A p \in r.values : \E s \in stored : s[1] = op[o].key /\ s[2] = p
        BY <2>3, <4>2 DEF Backed
      <4> QED
        BY <2>4, <3>3, <4>3
    <3>4. CASE op[o].pc = "announce"
      <4>1. <<d.key, d.from, d.to, life[d.to]>> \in stored'
        BY <2>4, <3>2, <3>4 DEF Method
      <4>2. d.from = NodeOf(o)
        BY <2>1, <3>1 DEF Traced, Concerns
      <4> QED
        BY <2>2, <3>2, <3>4, <4>1, <4>2
    <3> QED
      BY <3>3, <3>4
  <2>8. ASSUME NEW e \in net, NEW o \in Ops, Concerns(e, o)'
        PROVE  /\ e.type = "q" => e.key = op[o].key /\ e.method = Method(op[o].pc)
               /\ e.type = "r" /\ op[o].pc = "peers" =>
                    \A p \in e.values : \E s \in stored' : s[1] = op[o].key /\ s[2] = p
               /\ e.type = "r" /\ op[o].pc = "announce" =>
                    \E s \in stored' : s[1] = op[o].key /\ s[2] = NodeOf(o) /\ s[3] = e.from
    BY <2>4, <2>6, <2>8 DEF Backed
  <2> QED
    BY <2>1, <2>2, <2>5, <2>7, <2>8 DEF Backed
<1>5. ASSUME NEW d \in net, HandleResponse(d) PROVE Backed'
  BY <1>5, ResponseQuiet, QuietBacked
<1> QED
  BY <1>1, <1>2, <1>3, <1>4, <1>5, FiveSteps

----------------------------------------------------------------------------
(* Answers and reports.                                                    *)

\* In its first life, and before the ids wrap around, an answer that arrives
\* under the id of a registered operation answers the query it waits for.
LEMMA SameNumber ==
  ASSUME TypeOK, Numbered, Registered, Traced, NEW d \in net, HandleResponse(d),
         NEW o \in Ops, o = pending[d.to][d.tid], o # None,
         life[NodeOf(o)] = 1, op[o].call.no <= TidSpace
  PROVE  Concerns(d, o)
<1> DEFINE n == d.to  i == d.call[3]  j == op[o].call.no
<1>1. d.type = "r" /\ n \in Nodes /\ d.tid \in Tids /\ issued[n] \in Nat /\ i \in Nat \ {0}
      /\ d.call[2] \in Nat \ {0}
  BY CallOf DEF HandleResponse, TypeOK
<1>2. /\ op[o].call # None /\ NodeOf(o) = n /\ Tid(j) = d.tid
      /\ issued[n] < j + TidSpace
  BY <1>1, RegisteredOp
<1>3. j \in Nat \ {0} /\ j <= TidSpace
  BY <1>2, CallNumber
<1>4. /\ NodeOf(d.call[1]) = n /\ d.tid = Tid(i) /\ d.call[2] <= life[n]
      /\ d.call[2] = life[n] => i <= issued[n]
  BY <1>1 DEF Traced
<1>5. d.call[2] = life[n] /\ i <= issued[n]
  BY <1>1, <1>2, <1>4
<1>6. i = j
  <2> HIDE DEF i, j, n
  <2>1. CASE i < j
    <3>1. j < i + TidSpace
      BY <1>1, <1>3
    <3> QED
      BY <1>1, <1>2, <1>3, <1>4, <2>1, <3>1, TidsDiffer
  <2>2. CASE j < i
    <3>1. i < j + TidSpace
      BY <1>1, <1>2, <1>3, <1>5
    <3> QED
      BY <1>1, <1>2, <1>3, <1>4, <2>2, <3>1, TidsDiffer
  <2> QED
    BY <1>1, <1>3, <2>1, <2>2
<1> QED
  BY <1>2, <1>4, <1>5, <1>6 DEF Concerns

LEMMA StepAnswers ==
  TypeOK /\ Progress /\ Numbered /\ Registered /\ Traced /\ Received
    /\ AnswersOwnQuestion /\ [Next]_vars => Received' /\ AnswersOwnQuestion'
<1> SUFFICES ASSUME TypeOK, Progress, Numbered, Registered, Traced, Received,
                    AnswersOwnQuestion, [Next]_vars
             PROVE  Received' /\ AnswersOwnQuestion'
  OBVIOUS
<1> USE DEF process, knowledge, queries
<1>1. CASE QuietStep
  BY <1>1, QuietSteps, QuietAnswers
<1>2. ASSUME NEW n \in Nodes, Start(n) PROVE Received' /\ AnswersOwnQuestion'
  <2>1. net' = net /\ life' = [life EXCEPT ![n] = @ + 1]
    BY <1>2 DEF Start
  <2>2. ASSUME NEW o \in Ops, op'[o].answer # None
        PROVE  NodeOf(o) # n /\ op'[o] = op[o] /\ life'[NodeOf(o)] = life[NodeOf(o)]
    <3>1. NodeOf(o) # n
      BY <1>2, <2>2, NobodyAsks, StartOp
    <3> QED
      BY <1>2, <2>1, <3>1, StartOp, OwnerType DEF TypeOK
  <2> QED
    BY <2>1, <2>2 DEF Received, AnswersOwnQuestion, IsOwn
<1>3. ASSUME NEW o \in Ops, NEW m \in Nodes, Ask(o, m)
      PROVE  Received' /\ AnswersOwnQuestion'
  <2>1. UNCHANGED life /\ net \subseteq net'
    BY <1>3, AskEffect
  <2>2. op'[o].answer = None
    BY <1>3, AskOp DEF Progress
  <2>3. \A p \in Ops : op'[p].answer # None => op'[p] = op[p]
    BY <1>3, <2>2, AskOthers
  <2> QED
    BY <2>1, <2>3 DEF Received, AnswersOwnQuestion, IsOwn
<1>4. ASSUME NEW d \in net, HandleQuery(d) PROVE Received' /\ AnswersOwnQuestion'
  <2>1. UNCHANGED <<life, op>> /\ net \subseteq net'
    BY <1>4 DEF HandleQuery
  <2> QED
    BY <2>1 DEF Received, AnswersOwnQuestion, IsOwn
<1>5. ASSUME NEW d \in net, HandleResponse(d) PROVE Received' /\ AnswersOwnQuestion'
  <2>1. UNCHANGED <<life, net>> /\ d.type = "r"
    BY <1>5 DEF HandleResponse
  <2>2. CASE pending[d.to][d.tid] = None
    BY <1>5, <2>1, <2>2, ResponseOp DEF Received, AnswersOwnQuestion, IsOwn
  <2>3. ASSUME NEW o \in Ops, o = pending[d.to][d.tid], o # None
        PROVE  Received' /\ AnswersOwnQuestion'
    <3>1. op'[o].answer = d /\ op'[o].call = op[o].call
      BY <1>5, <2>3, ResponseOp
    <3>2. \A p \in Ops \ {o} : op'[p] = op[p]
      BY <1>5, <2>3, ResponseOp
    <3>3. NodeOf(o) = d.to
      BY <1>5, <2>3, ResponseOp, RegisteredOp
    <3>4. Received'
      BY <2>1, <3>1, <3>2, <3>3 DEF Received
    <3>5. ASSUME life[NodeOf(o)] = 1, op[o].call.no <= TidSpace
          PROVE  d.call = <<o, life[NodeOf(o)], op[o].call.no>> /\ d.from = op[o].call.to
      <4>1. Concerns(d, o)
        BY <1>5, <2>3, <3>5, SameNumber
      <4>2. d.call[1] = o /\ op[o].call.to = d.from
        BY <2>1, <4>1 DEF Traced
      <4> QED
        BY <4>1, <4>2, CallOf DEF Concerns
    <3>6. AnswersOwnQuestion'
      BY <2>1, <3>1, <3>2, <3>5 DEF AnswersOwnQuestion, IsOwn
    <3> QED
      BY <3>4, <3>6
  <2> QED
    BY <1>5, <2>2, <2>3, ResponseOp
<1> QED
  BY <1>1, <1>2, <1>3, <1>4, <1>5, FiveSteps

\* Nothing that is stored is forgotten, and only an answer adds to a report.
LEMMA StepReports ==
  TypeOK /\ Progress /\ Registered /\ Traced /\ Received /\ Backed
    /\ ReportsAreStored /\ [Next]_vars => ReportsAreStored'
<1> SUFFICES ASSUME TypeOK, Progress, Registered, Traced, Received, Backed,
                    ReportsAreStored, [Next]_vars
             PROVE  ReportsAreStored'
  OBVIOUS
<1> USE DEF process, knowledge, queries
<1> DEFINE
      Right(o) ==
        /\ o \in Lookups /\ op'[o].own =>
             \A p \in op'[o].found : \E e \in stored' : e[1] = op'[o].key /\ e[2] = p
        /\ o \in Publishes /\ op'[o].own =>
             \A m \in op'[o].found :
               \E e \in stored' : e[1] = op'[o].key /\ e[2] = Owner[o] /\ e[3] = m
<1> SUFFICES \A o \in Ops : Right(o)
  BY OwnerType DEF ReportsAreStored, Tasks
<1>1. stored \subseteq stored'
  <2>1. CASE QuietStep
    BY <2>1, QuietSteps DEF Quiet
  <2>2. ASSUME NEW n \in Nodes, Start(n) PROVE stored \subseteq stored'
    BY <2>2 DEF Start
  <2>3. ASSUME NEW o \in Ops, NEW m \in Nodes, Ask(o, m) PROVE stored \subseteq stored'
    BY <2>3 DEF Ask
  <2>4. ASSUME NEW d \in net, HandleQuery(d) \/ HandleResponse(d) PROVE stored \subseteq stored'
    BY <2>4 DEF HandleQuery, HandleResponse
  <2> QED
    BY <2>1, <2>2, <2>3, <2>4, FiveSteps
<1>2. \A o \in Ops : /\ op'[o].found = op[o].found /\ op'[o].key = op[o].key
                     /\ op'[o].own => op[o].own
                     => Right(o)
  BY <1>1 DEF ReportsAreStored
<1>3. \A o \in Ops : op'[o].found = {} => Right(o)
  OBVIOUS
<1>4. \A n \in Nodes : n \notin Publishes /\ n \notin Lookups
  BY DEF Tasks
<1>5. \A n \in Nodes : Right(n)
  BY <1>4
<1> HIDE DEF Right
<1>6. ASSUME NEW n \in Nodes, Start(n) \/ Started(n) \/ Stop(n) PROVE \A o \in Ops : Right(o)
  <2> SUFFICES ASSUME NEW o \in Ops PROVE Right(o)
    OBVIOUS
  <2>1. CASE o = n
    BY <1>5, <2>1
  <2>2. CASE o # n /\ (Start(n) \/ Started(n))
    BY <1>2, <2>2, StartOp, StartedOp
  <2>3. CASE Stop(n)
    BY <1>2, <2>3, StopOp
  <2> QED
    BY <1>6, <2>1, <2>2, <2>3
<1>7. ASSUME NEW t \in Tasks, Publish(t) \/ Lookup(t) PROVE \A o \in Ops : Right(o)
  <2>1. op'[t].found = {}
    BY <1>7, BeginOp, OwnerType DEF Progress
  <2> QED
    BY <1>2, <1>3, <1>7, <2>1, BeginOp
<1>8. ASSUME NEW o \in Ops, NEW m \in Nodes, Ask(o, m) PROVE \A p \in Ops : Right(p)
  <2>1. op'[o].found = op[o].found /\ op'[o].key = op[o].key /\ op'[o].own = op[o].own
    BY <1>8, AskOp
  <2> QED
    BY <1>2, <1>8, <2>1, AskOthers
<1>9. ASSUME NEW o \in Ops, GoesOn(o) PROVE \A p \in Ops : Right(p)
  BY <1>2, <1>9, GoesOnOp
<1>10. ASSUME NEW d \in net, HandleQuery(d) PROVE \A p \in Ops : Right(p)
  BY <1>2, <1>10 DEF HandleQuery
<1>11. ASSUME NEW d \in net, HandleResponse(d) PROVE \A p \in Ops : Right(p)
  <2>1. CASE pending[d.to][d.tid] = None
    BY <1>2, <1>11, <2>1, ResponseOp
  <2>2. ASSUME NEW o \in Ops, o = pending[d.to][d.tid], o # None
        PROVE  \A p \in Ops : Right(p)
    <3>1. op'[o].found = op[o].found /\ op'[o].key = op[o].key /\ op'[o].own = op[o].own
      BY <1>11, <2>2, ResponseOp
    <3>2. \A p \in Ops \ {o} : op'[p] = op[p]
      BY <1>11, <2>2, ResponseOp
    <3> QED
      BY <1>2, <3>1, <3>2
  <2> QED
    BY <1>11, <2>1, <2>2, ResponseOp
<1>12. ASSUME NEW o \in Ops, Timeout(o) PROVE \A p \in Ops : Right(p)
  <2>1. op[o].pc \in Steps
    BY <1>12, AdvanceOp DEF Progress
  <2>2. op'[o] = Advance(o, None)
    BY <1>12, AdvanceOp
  <2>3. op'[o].found = op[o].found /\ op'[o].key = op[o].key /\ (op'[o].own <=> op[o].own)
    BY <2>1, <2>2, AdvanceFields
  <2> QED
    BY <1>2, <1>12, <2>3, AdvanceOp
<1>13. ASSUME NEW o \in Ops, Resume(o) PROVE \A p \in Ops : Right(p)
  <2>1. PICK r : r = op[o].answer
    OBVIOUS
  <2>2. r # None /\ r \in net /\ op[o].call # None /\ op'[o] = Advance(o, r) /\ r.type = "r"
    BY <1>13, <2>1, AdvanceOp, OpType DEF Received, Answers
  <2>3. op[o].pc \in Steps
    BY <2>2 DEF Progress
  <2>4. /\ op'[o].key = op[o].key /\ (op'[o].own <=> op[o].own /\ IsOwn(o, r))
        /\ \/ op'[o].found = op[o].found
           \/ op[o].pc = "announce" /\ op'[o].found = op[o].found \cup {op[o].call.to}
           \/ op[o].pc = "peers" /\ op'[o].found = op[o].found \cup r.values
    BY <2>2, <2>3, AdvanceFields
  <2>5. IsOwn(o, r) => Concerns(r, o)
    BY <2>2 DEF IsOwn, Concerns
  <2>6. ASSUME ~op'[o].own PROVE Right(o)
    BY <2>6 DEF Right
  <2>7. ASSUME op'[o].own, op'[o].found # op[o].found, op[o].pc = "announce"
        PROVE  Right(o)
    <3>1. Concerns(r, o) /\ op[o].own
      BY <2>4, <2>5, <2>7
    <3>2. op[o].call.to = r.from
      BY <2>2, <3>1 DEF Traced
    <3>3. PICK s \in stored : s[1] = op[o].key /\ s[2] = NodeOf(o) /\ s[3] = op[o].call.to
      BY <2>2, <2>7, <3>1, <3>2 DEF Backed
    <3>4. o \notin Lookups
      BY <2>7 DEF Progress, Ended
    <3>5. o \in Publishes => NodeOf(o) = Owner[o]
      BY OwnerType DEF Tasks
    <3>6. o \in Publishes => \A m \in op[o].found :
            \E e \in stored : e[1] = op[o].key /\ e[2] = Owner[o] /\ e[3] = m
      BY <3>1 DEF ReportsAreStored
    <3>7. op'[o].found = op[o].found \cup {op[o].call.to}
      BY <2>4, <2>7
    <3> QED
      BY <1>1, <2>4, <3>3, <3>4, <3>5, <3>6, <3>7 DEF Right
  <2>8. ASSUME op'[o].own, op'[o].found # op[o].found, op[o].pc = "peers"
        PROVE  Right(o)
    <3>1. Concerns(r, o) /\ op[o].own
      BY <2>4, <2>5, <2>8
    <3>2. \A p \in r.values : \E s \in stored : s[1] = op[o].key /\ s[2] = p
      BY <2>2, <2>8, <3>1 DEF Backed
    <3>3. o \notin Publishes
      BY <2>8 DEF Progress, Ended
    <3>4. o \in Lookups => \A p \in op[o].found : \E e \in stored : e[1] = op[o].key /\ e[2] = p
      BY <3>1 DEF ReportsAreStored
    <3>5. op'[o].found = op[o].found \cup r.values
      BY <2>4, <2>8
    <3> QED
      BY <1>1, <2>4, <3>2, <3>3, <3>4, <3>5 DEF Right
  <2>9. Right(o)
    BY <1>2, <2>4, <2>6, <2>7, <2>8
  <2> QED
    BY <1>2, <1>13, <2>9, AdvanceOp
<1>14. CASE UNCHANGED vars
  BY <1>2, <1>14 DEF vars
<1> QED
  BY <1>6, <1>7, <1>8, <1>9, <1>10, <1>11, <1>12, <1>13, <1>14, AllSteps

----------------------------------------------------------------------------
(* The theorems.                                                           *)

LEMMA InitInv == Init => DhtInv
<1> SUFFICES ASSUME Init PROVE DhtInv
  OBVIOUS
<1>1. TypeOK
  BY InitType
<1>2. \A o \in Ops : op[o] = Idle
  BY DEF Init
<1>3. Progress
  BY <1>2 DEF Progress, Idle
<1>4. Numbered
  BY <1>2, OwnerType DEF Init, Numbered, Idle
<1>5. \A n \in Nodes, t \in Tids : pending[n][t] = None
  BY DEF Init
<1>6. PendingIsExact /\ Newest
  BY <1>2, <1>5 DEF PendingIsExact, Newest, Waits, Idle
<1>7. Traced /\ Received /\ AnswersOwnQuestion
  BY <1>2 DEF Init, Traced, Received, AnswersOwnQuestion, Idle
<1>8. Backed
  <2>1. \A n \in Nodes : \A e \in announced[n] : \E s \in stored : s[1] = e[1] /\ s[2] = e[2]
    <3> SUFFICES ASSUME NEW n \in Nodes, NEW e \in announced[n]
                 PROVE  \E s \in stored : s[1] = e[1] /\ s[2] = e[2]
      OBVIOUS
    <3>1. n \in Public /\ e \in Prior \X Public
      BY DEF Init
    <3>2. <<e[1], e[2], n, 1>> \in stored
      BY <3>1 DEF Init
    <3> QED
      BY <3>2
  <2> QED
    BY <2>1 DEF Init, Backed
<1>9. ReportsAreStored
  BY <1>2, OwnerType DEF ReportsAreStored, Idle, Tasks
<1> QED
  BY <1>1, <1>3, <1>4, <1>6, <1>7, <1>8, <1>9 DEF DhtInv

LEMMA StepInv == DhtInv /\ [Next]_vars => DhtInv'
<1> SUFFICES ASSUME DhtInv, [Next]_vars PROVE DhtInv'
  OBVIOUS
<1>1. /\ TypeOK /\ Progress /\ Numbered /\ Traced /\ Received
      /\ AnswersOwnQuestion /\ Backed /\ ReportsAreStored /\ PendingIsExact /\ Registered
  BY DEF DhtInv, Registered
<1>2. TypeOK' /\ Progress'
  BY <1>1, StepType, StepProgress
<1>3. Numbered' /\ Registered'
  BY <1>1, StepNumbered, StepRegistered
<1>4. Traced'
  BY <1>1, StepTraced
<1>5. Received' /\ AnswersOwnQuestion'
  BY <1>1, StepAnswers
<1>6. Backed' /\ ReportsAreStored'
  BY <1>1, <1>4, StepBacked, StepReports
<1> QED
  BY <1>2, <1>3, <1>4, <1>5, <1>6 DEF DhtInv, Registered

LEMMA Inductive == Spec => []DhtInv
  BY InitInv, StepInv, PTL DEF Spec

\* Every variable of a node keeps its type, whatever the network does: routing
\* tables hold addresses, _pending operations, and an announce_peer a key.
THEOREM DhtTypes == Spec => []TypeOK
<1>1. DhtInv => TypeOK
  BY DEF DhtInv
<1> QED
  BY <1>1, Inductive, PTL

\* SimpleDHTNode._pending holds a future only while its _query waits, and no
\* other query's answer or timeout takes it away before the ids wrap around.
THEOREM FuturesExact == Spec => []PendingIsExact
<1>1. DhtInv => PendingIsExact
  BY DEF DhtInv
<1> QED
  BY <1>1, Inductive, PTL

\* In the first life of a node _handle_message gives a _query the answer to its
\* own question, by the node asked, until the transaction ids wrap around.
THEOREM OwnAnswers == Spec => []AnswersOwnQuestion
<1>1. DhtInv => AnswersOwnQuestion
  BY DEF DhtInv
<1> QED
  BY <1>1, Inductive, PTL

\* What get_peers collects and what announce counts as notified was stored by
\* an _announced of some node, if the operation got its own answers.
THEOREM TrueReports == Spec => []ReportsAreStored
<1>1. DhtInv => ReportsAreStored
  BY DEF DhtInv
<1> QED
  BY <1>1, Inductive, PTL
=============================================================================
