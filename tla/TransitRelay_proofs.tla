------------------------ MODULE TransitRelay_proofs ------------------------
(***************************************************************************)
(* Proofs about TransitRelay, for any set of connections and tokens: the   *)
(* types, the lock, and the pairing of clients.                            *)
(*                                                                         *)
(* PairingInv is inductive.  Beside the properties it proves it says that  *)
(* a connection before its handshake is known to nobody (Fresh), that an   *)
(* entry took part in no match (PendingUnmatched), and why an entry may    *)
(* have disappeared (StaleExpired, Accounted).                             *)
(***************************************************************************)
EXTENDS TransitRelay, TLAPS

USE TokenAssumption, ActorAssumption
USE DEF flow

----------------------------------------------------------------------------
(* Types.                                                                  *)

LEMMA InitType == Init => TypeOK
  BY DEF Init, TypeOK, Labels, Directions

LEMMA LoopEndsType ==
  ASSUME TypeOK, NEW c \in Conns, NEW dir \in Directions,
         pc[c] = "relay", dir \in loops[c], LoopEnds(c, dir)
  PROVE  TypeOK'
<1>1. loops'[c] # {} <=> pc'[c] = "relay"
  BY DEF TypeOK, LoopEnds, Goto
<1>2. loops' \in [Conns -> SUBSET Directions] /\ pc' \in [Conns -> Labels]
  BY DEF TypeOK, LoopEnds, Goto, Labels
<1>4. /\ draining' \in [Conns -> SUBSET Directions]
      /\ \A d \in Conns : draining'[d] \subseteq loops'[d]
  BY DEF TypeOK, LoopEnds
<1>3. closed' \in [Conns -> BOOLEAN]
  BY DEF TypeOK, LoopEnds
<1> QED
  BY <1>1, <1>2, <1>3, <1>4 DEF TypeOK, LoopEnds, Goto

\* The cleanup loop has stale tokens left exactly while it holds the lock: no
\* task of a connection releases the lock under it, by LockHeldInside.
LEMMA StepType == TypeOK /\ LockHeldInside /\ [Next]_vars => TypeOK'
<1> SUFFICES ASSUME TypeOK, LockHeldInside, [Next]_vars PROVE TypeOK'
  OBVIOUS
<1> USE DEF Goto, Labels
<1>1. ASSUME NEW c \in Conns, Connect(c) PROVE TypeOK'
  BY <1>1 DEF TypeOK, Connect
<1>2. ASSUME NEW c \in Conns, HandshakeFails(c) PROVE TypeOK'
  BY <1>2 DEF TypeOK, HandshakeFails
<1>3. ASSUME NEW c \in Conns, Match(c) PROVE TypeOK'
  <2>1. pending[TokenOf[c]] \in Conns /\ loops[c] = {}
    BY <1>3 DEF TypeOK, Match
  <2>2. /\ pending' \in [Tokens -> Conns \cup {None}]
        /\ peer' \in [Conns -> Conns \cup {None}]
        /\ peer' = [peer EXCEPT ![c] = pending[TokenOf[c]]]
    BY <1>3, <2>1 DEF TypeOK, Match, Take
  <2>3. pc' \in [Conns -> Labels] /\ pc' = [pc EXCEPT ![c] = "okself"]
    BY <1>3 DEF TypeOK, Match
  <2> QED
    BY <1>3, <2>1, <2>2, <2>3 DEF TypeOK, Match
<1>4. ASSUME NEW c \in Conns, Register(c) PROVE TypeOK'
  <2>1. pending' \in [Tokens -> Conns \cup {None}]
    BY <1>4 DEF TypeOK, Register
  <2>2. pc' \in [Conns -> Labels] /\ pc' = [pc EXCEPT ![c] = "sleep"]
    BY <1>4 DEF TypeOK, Register
  <2> QED
    BY <1>4, <2>1, <2>2 DEF TypeOK, Register
<1>5. ASSUME NEW c \in Conns, OkSelf(c) PROVE TypeOK'
  <2>1. /\ pc[c] = "okself" /\ pc' \in [Conns -> Labels]
        /\ \E l \in {"okpeer", "close"} : pc' = [pc EXCEPT ![c] = l]
    BY <1>5 DEF TypeOK, OkSelf
  <2>2. lock = c
    BY <2>1 DEF LockHeldInside
  <2> QED
    BY <1>5, <2>1, <2>2 DEF TypeOK, OkSelf
<1>6. ASSUME NEW c \in Conns, OkPeer(c) PROVE TypeOK'
  <2>1. lock = c /\ lock' = None
    BY <1>6 DEF LockHeldInside, OkPeer, Released
  <2>2. /\ pc' \in [Conns -> Labels]
        /\ loops' \in [Conns -> SUBSET Directions]
        /\ \/ pc' = [pc EXCEPT ![c] = "relay"] /\ loops' = [loops EXCEPT ![c] = Directions]
           \/ pc' = [pc EXCEPT ![c] = "close"] /\ loops' = loops
    BY <1>6 DEF TypeOK, OkPeer
  <2>3. Directions # {}
    BY DEF Directions
  <2> QED
    BY <1>6, <2>1, <2>2, <2>3 DEF TypeOK, OkPeer
<1>7. ASSUME NEW c \in Conns, Poll(c) PROVE TypeOK'
  BY <1>7 DEF TypeOK, Poll
<1>8. ASSUME NEW c \in Conns, Remove(c) PROVE TypeOK'
  BY <1>8 DEF TypeOK, Remove, Take
<1>9. ASSUME NEW c \in Conns, PollStopped(c) PROVE TypeOK'
  BY <1>9 DEF TypeOK, PollStopped
<1>10. ASSUME NEW c \in Conns, Close(c) \/ Closed(c) PROVE TypeOK'
  <2>1. CASE Close(c)
    <3>1. /\ pc' = [pc EXCEPT ![c] = "closing"] /\ pc[c] = "close"
          /\ closed' \in [Conns -> BOOLEAN]
      BY <2>1 DEF TypeOK, Close
    <3> QED
      BY <2>1, <3>1 DEF TypeOK, Close
  <2>2. CASE Closed(c)
    <3>1. pc' = [pc EXCEPT ![c] = "done"] /\ pc[c] = "closing"
      BY <2>2 DEF Closed
    <3> QED
      BY <2>2, <3>1 DEF TypeOK, Closed
  <2> QED
    BY <1>10, <2>1, <2>2
<1>11. ASSUME NEW c \in Conns, NEW dir \in Directions,
              LoopEof(c, dir) \/ LoopRaises(c, dir) \/ DrainEnds(c, dir)
       PROVE  TypeOK'
  <2>1. CASE LoopEnds(c, dir)
    BY <1>11, <2>1, LoopEndsType DEF LoopEof, LoopRaises, DrainEnds, Reading, TypeOK
  <2>2. CASE draining' = [draining EXCEPT ![c] = @ \ {dir}] /\ DrainEnds(c, dir) /\ ~LoopEnds(c, dir)
    BY <2>2 DEF TypeOK, DrainEnds
  <2> QED
    BY <1>11, <2>1, <2>2 DEF LoopEof, LoopRaises, DrainEnds
<1>12. ASSUME NEW c \in Conns, Hangup(c) \/ Reads(c) \/ Expire(c) PROVE TypeOK'
  <2>1. CASE Hangup(c) \/ Expire(c)
    BY <2>1 DEF TypeOK, Hangup, Expire
  <2>2. CASE Reads(c)
    <3>1. /\ draining' \in [Conns -> SUBSET Directions]
          /\ \A d \in Conns : draining'[d] \subseteq loops[d]
      BY <2>2 DEF TypeOK, Reads
    <3> QED
      BY <2>2, <3>1 DEF TypeOK, Reads
  <2> QED
    BY <1>12, <2>1, <2>2
<1>18. ASSUME NEW c \in Conns, NEW dir \in Directions, Write(c, dir) PROVE TypeOK'
  <2>1. pc[c] = "relay" /\ dir \in loops[c] /\ Target(c, dir) \in Conns
    BY <1>18 DEF TypeOK, Write, Reading, Target
  <2>2. clogged' \in SUBSET Conns
    BY <1>18, <2>1 DEF TypeOK, Write
  <2>3. /\ draining' \in [Conns -> SUBSET Directions]
        /\ \A d \in Conns : draining'[d] \subseteq loops[d]
    BY <1>18, <2>1 DEF TypeOK, Write
  <2> QED
    BY <1>18, <2>2, <2>3 DEF TypeOK, Write
<1>13. ASSUME CleanupStart PROVE TypeOK'
  BY <1>13 DEF TypeOK, CleanupStart, StaleTokens
<1>14. ASSUME NEW t \in Tokens, CleanupOne(t) PROVE TypeOK'
  <2>1. closed' \in [Conns -> BOOLEAN]
    BY <1>14 DEF TypeOK, CleanupOne
  <2>2. stale' \in SUBSET Tokens /\ (stale' # {} <=> lock' = Cleaner)
    BY <1>14 DEF TypeOK, CleanupOne, LockAfter
  <2>3. lock' \in {None, Cleaner} /\ pending' \in [Tokens -> Conns \cup {None}]
    BY <1>14 DEF TypeOK, CleanupOne, Take, LockAfter
  <2> QED
    BY <1>14, <2>1, <2>2, <2>3 DEF TypeOK, CleanupOne
<1>15. ASSUME Stop PROVE TypeOK'
  BY <1>15 DEF TypeOK, Stop, Take
<1>16. ASSUME StopPending PROVE TypeOK'
  BY <1>16 DEF TypeOK, StopPending
<1>17. CASE UNCHANGED vars
  BY <1>17 DEF TypeOK, vars
<1> QED
  BY <1>1, <1>2, <1>3, <1>4, <1>5, <1>6, <1>7, <1>8, <1>9, <1>10, <1>11, <1>12,
     <1>13, <1>14, <1>15, <1>16, <1>17, <1>18 DEF Next, Step, Cleanup

----------------------------------------------------------------------------
(* The lock and the pairing of clients.                                    *)

LEMMA InitPairing == Init => PairingInv
  BY InitType DEF Init, PairingInv, LockHeldInside, PendingWaits, MatchedOnce,
     Fresh, PendingUnmatched, StaleExpired, Accounted

\* A copying loop closes one of the two connections of its match; neither is
\* pending, and both are past their handshake.
LEMMA LoopEndsPairing ==
  ASSUME PairingInv, TypeOK', NEW c \in Conns, NEW dir \in Directions,
         pc[c] = "relay", dir \in loops[c], LoopEnds(c, dir)
  PROVE  PairingInv'
<1> USE DEF LoopEnds, Goto, TypeOK, PairingInv
<1>1. Target(c, dir) \in {c, peer[c]} /\ peer[c] \in Conns
  BY DEF Target
<1>2. PendingWaits'
  BY <1>1 DEF ClosedByLoop, PendingWaits, Waiting, MatchedOnce
<1>3. Fresh'
  BY <1>1 DEF ClosedByLoop, Fresh
<1> QED
  BY <1>2, <1>3 DEF LockHeldInside, MatchedOnce, PendingUnmatched, StaleExpired,
     Accounted, Matched, TokenExpired

LEMMA StepPairing == PairingInv /\ [Next]_vars => PairingInv'
<1> SUFFICES ASSUME PairingInv, [Next]_vars PROVE PairingInv'
  OBVIOUS
<1>0. TypeOK /\ TypeOK'
  BY StepType DEF PairingInv
<1> USE <1>0 DEF PairingInv, TypeOK, Goto
<1>1. ASSUME NEW c \in Conns, Connect(c) PROVE PairingInv'
  BY <1>1 DEF Connect, LockHeldInside, PendingWaits, Waiting, MatchedOnce,
     Fresh, PendingUnmatched, StaleExpired, Accounted, Matched, TokenExpired
<1>2. ASSUME NEW c \in Conns, HandshakeFails(c) PROVE PairingInv'
  BY <1>2 DEF HandshakeFails, LockHeldInside, PendingWaits, Waiting,
     MatchedOnce, Fresh, PendingUnmatched, StaleExpired, Accounted, Matched,
     TokenExpired
<1>3. ASSUME NEW c \in Conns, Match(c) PROVE PairingInv'
  <2>1. PendingWaits'
    BY <1>3 DEF Match, Take, PendingWaits, Waiting, Fresh
  <2>2. MatchedOnce'
    BY <1>3 DEF Match, Take, MatchedOnce, Fresh, PendingUnmatched
  <2>3. Fresh'
    BY <1>3 DEF Match, Take, Fresh
  <2>4. PendingUnmatched'
    BY <1>3 DEF Match, Take, PendingUnmatched, MatchedOnce, Fresh
  <2>5. Accounted'
    BY <1>3 DEF Match, Take, Accounted, Matched, TokenExpired,
       PendingUnmatched, StaleExpired, MatchedOnce, Fresh
  <2> QED
    BY <1>3, <2>1, <2>2, <2>3, <2>4, <2>5 DEF Match, Take, LockHeldInside, StaleExpired
<1>4. ASSUME NEW c \in Conns, Register(c) PROVE PairingInv'
  <2>1. PendingWaits'
    BY <1>4 DEF Register, PendingWaits, Waiting, Fresh
  <2>2. MatchedOnce'
    BY <1>4 DEF Register, MatchedOnce, Fresh, PendingUnmatched
  <2>3. Fresh'
    BY <1>4 DEF Register, Fresh
  <2>4. PendingUnmatched'
    BY <1>4 DEF Register, PendingUnmatched, MatchedOnce, Fresh
  <2>5. Accounted'
    BY <1>4 DEF Register, Accounted, Matched, TokenExpired, PendingUnmatched,
       StaleExpired, MatchedOnce, Fresh
  <2> QED
    BY <1>4, <2>1, <2>2, <2>3, <2>4, <2>5 DEF Register, LockHeldInside, StaleExpired
<1>5. ASSUME NEW c \in Conns, OkSelf(c) PROVE PairingInv'
  BY <1>5 DEF OkSelf, LockHeldInside, PendingWaits, Waiting, MatchedOnce,
     Fresh, PendingUnmatched, StaleExpired, Accounted, Matched, TokenExpired
<1>6. ASSUME NEW c \in Conns, OkPeer(c) PROVE PairingInv'
  BY <1>6 DEF OkPeer, Released, LockHeldInside, PendingWaits, Waiting,
     MatchedOnce, Fresh, PendingUnmatched, StaleExpired, Accounted, Matched,
     TokenExpired
<1>7. ASSUME NEW c \in Conns, Poll(c) PROVE PairingInv'
  BY <1>7 DEF Poll, LockHeldInside, PendingWaits, Waiting, MatchedOnce, Fresh,
     PendingUnmatched, StaleExpired, Accounted, Matched, TokenExpired
<1>8. ASSUME NEW c \in Conns, Remove(c) PROVE PairingInv'
  <2>1. PendingWaits'
    BY <1>8 DEF Remove, Take, PendingWaits, Waiting, Fresh
  <2>2. Accounted'
    BY <1>8 DEF Remove, Take, Accounted, Matched, TokenExpired,
       PendingUnmatched, StaleExpired, MatchedOnce, Fresh
  <2> QED
    BY <1>8, <2>1, <2>2 DEF Remove, Take, LockHeldInside, MatchedOnce, Fresh, PendingUnmatched,
       StaleExpired
<1>9. ASSUME NEW c \in Conns, PollStopped(c) PROVE PairingInv'
  BY <1>9 DEF PollStopped, LockHeldInside, PendingWaits, Waiting, MatchedOnce,
     Fresh, PendingUnmatched, StaleExpired, Accounted, Matched, TokenExpired
<1>10. ASSUME NEW c \in Conns, Close(c) \/ Closed(c) PROVE PairingInv'
  BY <1>10 DEF Close, Closed, LockHeldInside, PendingWaits, Waiting, MatchedOnce,
     Fresh, PendingUnmatched, StaleExpired, Accounted, Matched, TokenExpired
<1>11. ASSUME NEW c \in Conns, Hangup(c) \/ Reads(c) PROVE PairingInv'
  BY <1>11 DEF Hangup, Reads, LockHeldInside, PendingWaits, Waiting, MatchedOnce,
     Fresh, PendingUnmatched, StaleExpired, Accounted, Matched, TokenExpired
<1>12. ASSUME NEW c \in Conns, Expire(c) PROVE PairingInv'
  BY <1>12 DEF Expire, LockHeldInside, PendingWaits, Waiting, MatchedOnce,
     Fresh, PendingUnmatched, StaleExpired, Accounted, Matched, TokenExpired
<1>13. ASSUME CleanupStart PROVE PairingInv'
  BY <1>13 DEF CleanupStart, StaleTokens, LockHeldInside, PendingWaits,
     Waiting, MatchedOnce, Fresh, PendingUnmatched, StaleExpired, Accounted,
     Matched, TokenExpired
<1>14. ASSUME NEW t \in Tokens, CleanupOne(t) PROVE PairingInv'
  <2>1. PendingWaits'
    BY <1>14 DEF CleanupOne, Take, LockAfter, PendingWaits, Waiting, Fresh
  <2>2. StaleExpired'
    BY <1>14 DEF CleanupOne, Take, LockAfter, StaleExpired
  <2>3. Accounted'
    BY <1>14 DEF CleanupOne, Take, LockAfter, Accounted, Matched,
       TokenExpired, PendingUnmatched, StaleExpired, MatchedOnce, Fresh
  <2> QED
    BY <1>14, <2>1, <2>2, <2>3 DEF CleanupOne, Take, LockAfter, LockHeldInside, MatchedOnce, Fresh,
       PendingUnmatched
<1>15. ASSUME Stop PROVE PairingInv'
  BY <1>15 DEF Stop, Take, LockHeldInside, PendingWaits, Waiting, MatchedOnce,
     Fresh, PendingUnmatched, StaleExpired, Accounted, Matched, TokenExpired
<1>16. ASSUME StopPending PROVE PairingInv'
  BY <1>16 DEF StopPending, LockHeldInside, PendingWaits, Waiting,
     MatchedOnce, Fresh, PendingUnmatched, StaleExpired, Accounted, Matched,
     TokenExpired
<1>17. ASSUME NEW c \in Conns, NEW dir \in Directions,
              LoopEof(c, dir) \/ LoopRaises(c, dir) \/ DrainEnds(c, dir)
       PROVE  PairingInv'
  <2>1. pc[c] = "relay" /\ dir \in loops[c]
    BY <1>17 DEF LoopEof, LoopRaises, DrainEnds, Reading
  <2>2. CASE LoopEnds(c, dir)
    BY <2>1, <2>2, LoopEndsPairing
  <2>3. CASE DrainEnds(c, dir) /\ ~LoopEnds(c, dir)
    BY <2>3 DEF DrainEnds, LockHeldInside, PendingWaits, Waiting, MatchedOnce,
       Fresh, PendingUnmatched, StaleExpired, Accounted, Matched, TokenExpired
  <2> QED
    BY <1>17, <2>2, <2>3 DEF LoopEof, LoopRaises
<1>19. ASSUME NEW c \in Conns, NEW dir \in Directions, Write(c, dir) PROVE PairingInv'
  BY <1>19 DEF Write, LockHeldInside, PendingWaits, Waiting, MatchedOnce,
     Fresh, PendingUnmatched, StaleExpired, Accounted, Matched, TokenExpired
<1>18. CASE UNCHANGED vars
  BY <1>18 DEF vars, LockHeldInside, PendingWaits, Waiting, MatchedOnce, Fresh,
     PendingUnmatched, StaleExpired, Accounted, Matched, TokenExpired
<1> QED
  BY <1>1, <1>2, <1>3, <1>4, <1>5, <1>6, <1>7, <1>8, <1>9, <1>10, <1>11,
     <1>12, <1>13, <1>14, <1>15, <1>16, <1>17, <1>18, <1>19 DEF Next, Step, Cleanup

\* The lock and the pairs, for every instance: the lock is held exactly by a
\* task between its two "ok" drains; a peer presented the same token, is another
\* connection and is in one match only; and an entry of pending is a client that
\* still waits with an open writer.
THEOREM Pairing == Spec => [](LockHeldInside /\ MatchedOnce /\ PendingWaits)
<1>1. PairingInv => LockHeldInside /\ MatchedOnce /\ PendingWaits
  BY DEF PairingInv
<1> QED BY InitPairing, StepPairing, <1>1, PTL DEF Spec

\* Types, and what a task holds at which await, for every instance.
THEOREM TypeCorrect == Spec => []TypeOK
<1>1. PairingInv => TypeOK
  BY DEF PairingInv
<1> QED BY InitPairing, StepPairing, <1>1, PTL DEF Spec

\* A waiting client that the server drops while it runs was matched, or a
\* timeout of its token has passed, in every instance.
THEOREM DroppedForAReason == Spec => NoPhantomMatch
<1> DEFINE A == \A c \in Conns : running /\ pc[c] = "sleep" /\ pc'[c] = "close" =>
                  Matched(c) \/ TokenExpired(c)
<1>1. PairingInv /\ [Next]_vars => [A]_vars
  <2> SUFFICES ASSUME PairingInv, [Next]_vars, NEW c \in Conns,
                      running, pc[c] = "sleep", pc'[c] = "close"
               PROVE  Matched(c) \/ TokenExpired(c)
    OBVIOUS
  <2>1. pc \in [Conns -> Labels]
    BY DEF PairingInv, TypeOK
  <2>2. ASSUME NEW d \in Conns,
               \/ Connect(d) \/ HandshakeFails(d) \/ Match(d) \/ Register(d)
               \/ OkSelf(d) \/ OkPeer(d) \/ Remove(d) \/ PollStopped(d)
               \/ Close(d) \/ Closed(d) \/ Hangup(d) \/ Reads(d) \/ Expire(d)
        PROVE  FALSE
    BY <2>1, <2>2 DEF Goto, Connect, HandshakeFails, Match, Register, OkSelf,
       OkPeer, Remove, PollStopped, Close, Closed, Hangup, Reads, Expire
  <2>3. ASSUME NEW d \in Conns, NEW dir \in Directions,
               \/ LoopEof(d, dir) \/ LoopRaises(d, dir)
               \/ DrainEnds(d, dir) \/ Write(d, dir)
        PROVE  FALSE
    BY <2>1, <2>3 DEF Goto, LoopEof, LoopRaises, LoopEnds, DrainEnds, Write, Reading
  <2>4. ASSUME Cleanup \/ Stop \/ StopPending \/ UNCHANGED vars PROVE FALSE
    BY <2>4 DEF Cleanup, CleanupStart, CleanupOne, Stop, StopPending, vars
  <2>5. PICK d \in Conns : Poll(d)
    BY <2>2, <2>3, <2>4 DEF Next, Step
  <2>6. d = c /\ pending[TokenOf[c]] = None
    BY <2>1, <2>5 DEF Poll, Goto
  <2> QED
    BY <2>6 DEF PairingInv, Accounted
<1>2. Spec => []PairingInv
  BY InitPairing, StepPairing, PTL DEF Spec
<1> QED
  BY <1>1, <1>2, PTL DEF Spec, NoPhantomMatch

\* The relay's lock is held exactly by the task inside a critical section.
THEOREM LockDiscipline == Spec => []LockHeldInside
<1> QED BY Pairing, PTL

\* A pending entry is always a client that still waits for its partner.
THEOREM PendingClientsWait == Spec => []PendingWaits
<1> QED BY Pairing, PTL
=============================================================================
