----------------------- MODULE CommandStreams_proofs -----------------------
(***************************************************************************)
(* What is proved about the commands that carry a stream: the join of a    *)
(* subchannel and a local stream (Bridge), the daemon (Daemon) and the     *)
(* SOCKS proxy (ProxyMux).  Each part ends with the two facts that         *)
(* Commands_proofs needs of it: the component's inductive invariant holds  *)
(* at first and is kept by each of its steps.                              *)
(***************************************************************************)
EXTENDS Commands, FiniteSetTheorems, SequenceTheorems, TLAPS

LEMMA AppendCount ==
    ASSUME NEW k \in Nat
    PROVE  Append([i \in 1 .. k |-> i], k + 1) = [i \in 1 .. k + 1 |-> i]
  OBVIOUS

LEMMA LastInSeq ==
    ASSUME NEW S, NEW s \in Seq(S), s # <<>>
    PROVE  s[Len(s)] \in S
<1>1. Len(s) \in 1 .. Len(s)
  BY EmptySeq, LenProperties
<1> QED BY <1>1, ElementOfSeq

LEMMA BridgeTypesInit == B!Init => B!TypeOK
<1> SUFFICES ASSUME B!Init PROVE B!TypeOK
  OBVIOUS
<1>1. /\ 0 \in 0 .. MaxIn /\ <<>> \in Seq(1 .. MaxIn)
      /\ 0 \in 0 .. MaxOut /\ <<>> \in Seq(1 .. MaxOut)
  BY BoundAssumption, EmptySeq
<1> QED BY <1>1 DEF B!Init, B!TypeOK, B!NewBridge, B!Kinds

LEMMA BridgeTypes == ASSUME B!TypeOK, B!Next PROVE B!TypeOK'
<1> USE DEF B!TypeOK
<1>1. CASE B!ConnectionMade
  <2>1. /\ 0 \in 0 .. MaxIn /\ <<>> \in Seq(1 .. MaxIn)
        /\ 0 \in 0 .. MaxOut /\ <<>> \in Seq(1 .. MaxOut)
    BY BoundAssumption, EmptySeq
  <2> QED BY <1>1, <2>1 DEF B!ConnectionMade, B!NewBridge
<1>2. CASE B!ConnectLocal
  <2>1. B!Flushed \in Seq(1 .. MaxIn)
    BY DEF B!Flushed
  <2>2. CASE bridge'.local = "open"
    <3> DEFINE late == IF bridge.sub = "lost" THEN TRUE ELSE bridge.late
               copying == IF bridge.pending = <<>> THEN "running" ELSE "flushing"
    <3>1. bridge' = [bridge EXCEPT !.local = "open", !.got = B!Flushed,
                                   !.late = late, !.task = copying]
      BY <1>2, <2>2 DEF B!ConnectLocal
    <3>2. late \in BOOLEAN /\ copying \in {"none", "flushing", "running", "ended"}
      OBVIOUS
    <3> HIDE DEF late, copying
    <3> QED BY <2>1, <3>1, <3>2
  <2>3. CASE bridge'.local # "open"
    <3> DEFINE sub == IF bridge.sub = "up" THEN "closing" ELSE bridge.sub
    <3>1. bridge' = [bridge EXCEPT !.local = "closed", !.sub = sub]
      BY <1>2, <2>3 DEF B!ConnectLocal
    <3>2. sub \in {"none", "up", "closing", "lost"}
      OBVIOUS
    <3> HIDE DEF sub
    <3> QED BY <3>1, <3>2
  <2> QED BY <2>2, <2>3
<1>3. CASE B!FlushEnds
  <2>1. <<>> \in Seq(1 .. MaxIn)
    BY EmptySeq
  <2> QED BY ZenonT(60), <1>3, <2>1 DEF B!FlushEnds
<1>4. CASE B!PumpStarts
  BY ZenonT(60), <1>4 DEF B!PumpStarts
<1>5. CASE B!DataReceived
  <2> DEFINE n == bridge.arrived + 1
  <2>1. n \in 0 .. MaxIn /\ n \in 1 .. MaxIn
    BY <1>5, BoundAssumption DEF B!DataReceived
  <2>2. Append(bridge.got, n) \in Seq(1 .. MaxIn) /\ Append(bridge.pending, n) \in Seq(1 .. MaxIn)
    BY <2>1
  <2> DEFINE next == [bridge EXCEPT !.arrived = n]
             passed == [next EXCEPT !.got = Append(@, n)]
             waiting == [next EXCEPT !.pending = Append(@, n)]
  <2>3. bridge' = next \/ bridge' = passed \/ bridge' = waiting
    BY <1>5 DEF B!DataReceived
  <2>4. CASE bridge' = next
    BY <2>1, <2>4
  <2>5. CASE bridge' = passed
    BY <2>1, <2>2, <2>5
  <2>6. CASE bridge' = waiting
    BY <2>1, <2>2, <2>6
  <2> QED BY <2>3, <2>4, <2>5, <2>6
<1>6. CASE B!ForwardOut
  <2> DEFINE n == bridge.read + 1
  <2>1. n \in 0 .. MaxOut /\ n \in 1 .. MaxOut
    BY <1>6, BoundAssumption DEF B!ForwardOut
  <2>2. Append(bridge.put, n) \in Seq(1 .. MaxOut)
    BY <2>1
  <2> QED BY <1>6, <2>1, <2>2 DEF B!ForwardOut
<1>7. CASE B!LocalEof
  BY <1>7 DEF B!LocalEof
<1>8. CASE B!ConnectionLost
  BY ZenonT(60), <1>8 DEF B!ConnectionLost, B!ClosedByLoss
<1>9. CASE B!Interrupt
  BY <1>9 DEF B!Interrupt
<1>10. CASE B!PipeEnds
  BY <1>10 DEF B!PipeEnds
<1>11. CASE B!LocalBreaks
  BY <1>11 DEF B!LocalBreaks
<1>12. CASE B!ReadAbandoned
  <2>1. bridge.read + 1 \in 0 .. MaxOut
    BY <1>12, BoundAssumption DEF B!ReadAbandoned
  <2> QED BY <1>12, <2>1 DEF B!ReadAbandoned
<1> QED
  BY <1>1, <1>2, <1>3, <1>4, <1>5, <1>6, <1>7, <1>8, <1>9, <1>10, <1>11, <1>12 DEF B!Next

LEMMA BridgeInit == B!Init => B!BridgeInv
<1> SUFFICES ASSUME B!Init PROVE B!BridgeInv
  OBVIOUS
<1>1. /\ bridge.kind = "none" /\ bridge.sub = "none" /\ bridge.local = "open"
      /\ bridge.got = <<>> /\ bridge.put = <<>> /\ bridge.read = 0 /\ ~bridge.done
      /\ bridge.task = "none" /\ ~bridge.fallback
  BY DEF B!Init, B!NewBridge
<1>2. B!InOrder
  BY <1>1 DEF B!InOrder
<1> QED BY <1>1, <1>2, BridgeTypesInit DEF B!BridgeInv, B!ClosedWithPeer

\* The steps that move no payload change the state of the subchannel, of the local
\* stream or of the task only.
LEMMA BridgeQuiet ==
    ASSUME B!BridgeInv,
           \/ B!FlushEnds \/ B!PumpStarts \/ B!LocalBreaks \/ B!LocalEof \/ B!ConnectionLost
           \/ B!Interrupt \/ B!PipeEnds
    PROVE  B!BridgeInv'
<1> USE DEF B!BridgeInv, B!TypeOK
<1>1. /\ bridge'.kind = bridge.kind /\ bridge'.got = bridge.got /\ bridge'.put = bridge.put
      /\ bridge'.read = bridge.read /\ bridge'.arrived = bridge.arrived
      /\ bridge'.late = bridge.late
      /\ bridge'.sub = "up" => bridge.sub = "up"
      /\ bridge'.local = bridge.local
         \/ (bridge'.local \in {"broken", "closed"} /\ bridge.local # "opening")
      /\ bridge.fallback => bridge'.fallback
      /\ bridge'.fallback => bridge.kind \in B!Pipes /\ bridge'.task # "none"
  BY ZenonT(60) DEF B!FlushEnds, B!PumpStarts, B!LocalBreaks, B!LocalEof, B!ConnectionLost, B!Interrupt,
         B!PipeEnds, B!ClosedByLoss
<1>2. bridge'.done => bridge.kind \in B!Pipes
  <2>1. CASE B!LocalEof
    BY <2>1 DEF B!LocalEof, B!Kinds, B!Pipes
  <2> QED BY <2>1 DEF B!FlushEnds, B!PumpStarts, B!LocalBreaks, B!ConnectionLost, B!Interrupt, B!PipeEnds
<1>3. /\ bridge'.local = "opening" => bridge'.pending = bridge.pending
      /\ bridge'.kind = "none" => bridge'.task = "none"
      /\ bridge'.task = "flushing" => bridge'.local # "opening"
  BY ZenonT(60) DEF B!FlushEnds, B!PumpStarts, B!LocalBreaks, B!LocalEof, B!ConnectionLost, B!Interrupt,
         B!PipeEnds, B!ClosedByLoss, B!Pipes
<1>4. B!TypeOK'
  BY BridgeTypes DEF B!Next
<1>5. B!InOrder'
  BY <1>1 DEF B!InOrder
<1>6. B!ClosedWithPeer'
  BY ZenonT(60), <1>1 DEF B!FlushEnds, B!PumpStarts, B!LocalBreaks, B!LocalEof, B!ConnectionLost,
              B!Interrupt, B!PipeEnds, B!ClosedByLoss, B!ClosedWithPeer
<1> QED BY <1>1, <1>2, <1>3, <1>4, <1>5, <1>6

LEMMA BridgeNew ==
    ASSUME B!BridgeInv, B!ConnectionMade
    PROVE  B!BridgeInv'
<1> PICK k \in B!Kinds : bridge' = B!NewBridge(k)
  BY DEF B!ConnectionMade
<1>1. B!TypeOK'
  BY BridgeTypes DEF B!Next, B!BridgeInv
<1>2. /\ bridge'.got = <<>> /\ bridge'.put = <<>> /\ bridge'.read = 0 /\ ~bridge'.done
      /\ bridge'.pending = <<>> /\ bridge'.arrived = 0 /\ bridge'.kind = k /\ bridge'.sub = "up"
      /\ bridge'.task # "flushing" /\ k # "none"
      /\ bridge'.local = "opening" => k \in {"forward", "sshd"}
      /\ k \in {"forward", "sshd"} => bridge'.local = "opening"
      /\ ~bridge'.fallback
  BY DEF B!NewBridge, B!Kinds
<1> QED BY <1>1, <1>2 DEF B!BridgeInv, B!InOrder, B!ClosedWithPeer

LEMMA BridgeConnectLocal ==
    ASSUME B!BridgeInv, B!ConnectLocal
    PROVE  B!BridgeInv'
<1> USE DEF B!BridgeInv, B!TypeOK
<1>1. /\ bridge.got = <<>> /\ B!Flushed = bridge.pending
      /\ bridge.kind \in {"forward", "sshd"} /\ bridge.local = "opening"
  BY DEF B!ConnectLocal, B!Flushed
<1>2. B!TypeOK'
  BY BridgeTypes DEF B!Next
<1>3. /\ bridge'.kind = bridge.kind /\ bridge'.arrived = bridge.arrived
      /\ bridge'.put = bridge.put /\ bridge'.read = bridge.read
      /\ bridge'.sub = "up" => bridge.sub = "up"
      /\ bridge'.local \in {"open", "closed"} /\ bridge'.done = bridge.done
      /\ ~bridge.fallback /\ ~bridge'.fallback
      /\ bridge'.local # "open" => bridge'.got = <<>>
      /\ bridge'.local = "open" => bridge'.got = bridge.pending
      /\ bridge'.local = "open" /\ bridge'.sub = "lost" => bridge'.late
  BY ZenonT(60), <1>1 DEF B!ConnectLocal, B!Pipes
<1>4. bridge'.kind = "sshd" /\ bridge'.local = "open" =>
        bridge'.got = [i \in 1 .. bridge'.arrived |-> i]
  BY <1>1, <1>3
<1>5. bridge'.got = <<>> \/ bridge'.got = [i \in 1 .. bridge'.arrived |-> i]
  BY <1>1, <1>3
<1>6. B!InOrder'
  <2>1. bridge'.arrived \in Nat
    BY <1>2
  <2>2. \A i \in 2 .. Len(bridge'.got) :
          bridge'.got[i] > bridge'.got[i - 1] /\ bridge'.got[i] = bridge'.got[i - 1] + 1
    <3>1. CASE bridge'.got = <<>>
      BY <3>1
    <3>2. CASE bridge'.got = [i \in 1 .. bridge'.arrived |-> i]
      BY <3>2, <2>1
    <3> QED BY <1>5, <3>1, <3>2
  <2> QED BY <1>1, <1>3, <1>4, <2>2 DEF B!InOrder
<1>7. B!ClosedWithPeer'
  BY <1>1, <1>3 DEF B!ClosedWithPeer
<1>8. bridge'.got # <<>> => bridge'.got[Len(bridge'.got)] = bridge'.arrived
  <2>1. CASE bridge'.got = [i \in 1 .. bridge'.arrived |-> i]
    <3>1. bridge'.arrived \in Nat
      BY <1>2
    <3>2. Len(bridge'.got) = bridge'.arrived
      BY <2>1, <3>1
    <3>3. bridge'.arrived = 0 \/ bridge'.arrived \in 1 .. bridge'.arrived
      BY <3>1
    <3>4. bridge'.arrived = 0 => bridge'.got = <<>>
      BY <2>1
    <3> QED BY <2>1, <3>2, <3>3, <3>4
  <2> QED BY <1>5, <2>1
<1>9. /\ bridge'.got # <<>> => bridge'.got[Len(bridge'.got)] <= bridge'.arrived
      /\ bridge'.put # <<>> => bridge'.put[Len(bridge'.put)] <= bridge'.read
  <2>1. bridge'.arrived \in Nat
    BY <1>2
  <2> QED BY <1>3, <1>8, <2>1
<1> HIDE DEF B!TypeOK
<1>10. bridge'.done => bridge'.kind \in B!Pipes
  BY <1>3
<1> QED BY <1>1, <1>2, <1>3, <1>6, <1>7, <1>8, <1>9, <1>10

LEMMA BridgeDataReceived ==
    ASSUME B!BridgeInv, B!DataReceived
    PROVE  B!BridgeInv'
<1> DEFINE n == bridge.arrived + 1
           old == bridge.got
<1>1. /\ n \in 1 .. MaxIn /\ bridge.arrived \in Nat
      /\ old \in Seq(1 .. MaxIn) /\ bridge.pending \in Seq(1 .. MaxIn)
  <2>1. MaxIn \in Nat
    BY BoundAssumption
  <2>2. bridge.arrived < MaxIn
    BY DEF B!DataReceived
  <2>3. B!TypeOK
    BY DEF B!BridgeInv
  <2> QED BY <2>1, <2>2, <2>3 DEF B!TypeOK
<1>2. /\ bridge'.kind = bridge.kind /\ bridge'.sub = bridge.sub /\ bridge'.local = bridge.local
      /\ bridge'.put = bridge.put /\ bridge'.read = bridge.read /\ bridge'.arrived = n
      /\ bridge'.done = bridge.done /\ bridge'.late = bridge.late /\ bridge'.task = bridge.task
      /\ bridge'.fallback = bridge.fallback
  <2> USE DEF B!BridgeInv, B!TypeOK
  <2>1. CASE bridge.kind = "forward"
    BY <2>1 DEF B!DataReceived
  <2>2. CASE bridge.kind = "sshd"
    BY <2>2 DEF B!DataReceived
  <2>3. CASE bridge.kind \notin {"forward", "sshd"}
    BY <2>3 DEF B!DataReceived
  <2> QED BY <2>1, <2>2, <2>3
<1>3. \/ /\ bridge'.got = Append(old, n) /\ bridge'.pending = bridge.pending
         /\ bridge.kind \in {"forward", "sshd"} => bridge.local = "open"
      \/ /\ bridge'.got = old
         /\ bridge.kind \in {"forward", "sshd"} => bridge.local # "open"
         /\ bridge'.pending =
              IF bridge.kind = "sshd" THEN Append(bridge.pending, n) ELSE bridge.pending
  <2> USE DEF B!BridgeInv, B!TypeOK
  <2>1. CASE bridge.kind = "forward"
    BY <2>1 DEF B!DataReceived
  <2>2. CASE bridge.kind = "sshd"
    BY <2>2 DEF B!DataReceived
  <2>3. CASE bridge.kind \notin {"forward", "sshd"}
    BY <2>3 DEF B!DataReceived
  <2> QED BY <2>1, <2>2, <2>3
<1>4. B!TypeOK'
  BY BridgeTypes DEF B!Next, B!BridgeInv
<1>5. /\ B!InOrder /\ B!ClosedWithPeer
      /\ old # <<>> => /\ old[Len(old)] < n
                       /\ bridge.kind = "forward" /\ bridge.local = "open" => old[Len(old)] + 1 = n
      /\ bridge.local = "opening" => /\ bridge.kind \in {"forward", "sshd"} /\ old = <<>>
                                     /\ bridge.kind = "forward" => bridge.pending = <<>>
      /\ bridge.local = "opening" /\ bridge.kind = "sshd" =>
           bridge.pending = [i \in 1 .. bridge.arrived |-> i]
  <2>1. old # <<>> => old[Len(old)] \in 1 .. MaxIn
    BY <1>1, LastInSeq
  <2> QED BY <1>1, <2>1 DEF B!BridgeInv
<1>6. CASE /\ bridge'.got = Append(old, n) /\ bridge'.pending = bridge.pending
           /\ bridge.kind \in {"forward", "sshd"} => bridge.local = "open"
  <2>1. /\ DOMAIN bridge'.got = 1 .. Len(old) + 1 /\ Len(bridge'.got) = Len(old) + 1
        /\ bridge'.got[Len(old) + 1] = n
        /\ \A i \in 1 .. Len(old) : bridge'.got[i] = old[i]
    BY <1>1, <1>6
  <2>2. \A i \in 2 .. Len(old) :
           /\ old[i] > old[i - 1]
           /\ bridge.kind \in {"forward", "sshd"} => old[i] = old[i - 1] + 1
    BY <1>5 DEF B!InOrder
  <2>3. old # <<>> /\ bridge.kind \in {"forward", "sshd"} => old[Len(old)] + 1 = n
    BY <1>1, <1>5, <1>6 DEF B!InOrder
  <2>4. \A i \in 2 .. Len(bridge'.got) :
           /\ bridge'.got[i] > bridge'.got[i - 1]
           /\ bridge.kind \in {"forward", "sshd"} => bridge'.got[i] = bridge'.got[i - 1] + 1
    <3> TAKE i \in 2 .. Len(bridge'.got)
    <3>1. CASE i <= Len(old)
      <4>1. i \in 2 .. Len(old) /\ i \in 1 .. Len(old) /\ i - 1 \in 1 .. Len(old)
        BY <1>1, <3>1
      <4> QED BY <2>1, <2>2, <4>1
    <3>2. CASE i = Len(old) + 1
      BY SMTT(30), <1>1, <1>5, <2>1, <2>3, <3>2
    <3> QED BY <1>1, <2>1, <3>1, <3>2
  <2>5. bridge.kind = "sshd" /\ bridge.local = "open" => bridge'.got = [i \in 1 .. n |-> i]
    BY <1>1, <1>5, <1>6, AppendCount DEF B!InOrder
  <2>9. bridge.kind = "sshd" => bridge'.got[1] = 1
    <3>1. CASE old = <<>>
      BY <1>1, <1>5, <1>6, <2>1, <3>1 DEF B!InOrder
    <3>2. CASE old # <<>>
      <4>1. 1 \in 1 .. Len(old)
        BY <1>1, <3>2, EmptySeq, LenProperties
      <4> QED BY <1>5, <2>1, <3>2, <4>1 DEF B!InOrder
    <3> QED BY <3>1, <3>2
  <2>6. B!InOrder'
    BY <1>2, <1>5, <2>4, <2>5, <2>9 DEF B!InOrder
  <2>7. bridge'.got # <<>> /\ bridge'.got[Len(bridge'.got)] = n
    BY <1>1, <2>1
  <2>8. B!ClosedWithPeer' /\ bridge.local # "opening"
    BY <1>2, <1>5, <1>6 DEF B!ClosedWithPeer
  <2> QED BY <1>1, <1>2, <1>4, <1>6, <2>6, <2>7, <2>8 DEF B!BridgeInv
<1>7. CASE /\ bridge'.got = old
           /\ bridge.kind \in {"forward", "sshd"} => bridge.local # "open"
           /\ bridge'.pending =
                IF bridge.kind = "sshd" THEN Append(bridge.pending, n) ELSE bridge.pending
  <2>1. bridge.local = "opening" /\ bridge.kind = "sshd" =>
          bridge'.pending = [i \in 1 .. n |-> i]
    BY <1>1, <1>5, <1>7, AppendCount
  <2>2. B!InOrder'
    BY <1>2, <1>5, <1>7 DEF B!InOrder
  <2>3. B!ClosedWithPeer'
    BY <1>2, <1>5 DEF B!ClosedWithPeer
  <2>4. old # <<>> => /\ old[Len(old)] <= n
                      /\ ~(bridge.kind = "forward" /\ bridge.local = "open")
    <3>1. old # <<>> => old[Len(old)] \in 1 .. MaxIn
      BY <1>1, LastInSeq
    <3> QED BY <1>1, <1>5, <1>7, <3>1
  <2> QED BY <1>2, <1>4, <1>5, <1>7, <2>1, <2>2, <2>3, <2>4 DEF B!BridgeInv
<1> QED BY <1>3, <1>6, <1>7

LEMMA BridgeForwardOut ==
    ASSUME B!BridgeInv, B!ForwardOut
    PROVE  B!BridgeInv'
<1> DEFINE n == bridge.read + 1
           old == bridge.put
<1>1. /\ bridge'.kind = bridge.kind /\ bridge'.sub = bridge.sub /\ bridge'.local = bridge.local
      /\ bridge'.got = bridge.got /\ bridge'.read = n /\ bridge'.arrived = bridge.arrived
      /\ bridge'.done = bridge.done /\ bridge'.late = bridge.late
      /\ bridge'.pending = bridge.pending /\ bridge'.task = bridge.task
      /\ bridge'.fallback = bridge.fallback
      /\ bridge'.put = IF bridge.sub = "up" /\ bridge.kind # "wait" THEN Append(old, n) ELSE old
      /\ n \in 1 .. MaxOut /\ bridge.read \in Nat /\ old \in Seq(1 .. MaxOut)
  BY SMTT(30), BoundAssumption DEF B!ForwardOut, B!HasProtocol, B!BridgeInv, B!TypeOK
<1>2. B!TypeOK'
  BY BridgeTypes DEF B!Next, B!BridgeInv
<1>3. /\ B!InOrder /\ B!ClosedWithPeer
      /\ old # <<>> => old[Len(old)] \in 1 .. MaxOut /\ old[Len(old)] <= bridge.read
  BY <1>1, LastInSeq DEF B!BridgeInv
<1>4. CASE bridge.sub = "up" /\ bridge.kind # "wait"
  <2>1. /\ bridge'.put = Append(old, n) /\ DOMAIN old = 1 .. Len(old) /\ Len(old) \in Nat
        /\ Len(bridge'.put) = Len(old) + 1 /\ DOMAIN bridge'.put = 1 .. Len(old) + 1
        /\ bridge'.put[Len(old) + 1] = n /\ \A i \in 1 .. Len(old) : bridge'.put[i] = old[i]
    BY <1>1, <1>4
  <2>2. ~bridge.fallback => bridge'.put = [i \in DOMAIN bridge'.put |-> i]
    <3> SUFFICES ASSUME ~bridge.fallback PROVE bridge'.put = [i \in DOMAIN bridge'.put |-> i]
      OBVIOUS
    <3>1. Len(old) = bridge.read /\ old = [i \in 1 .. bridge.read |-> i]
      BY <1>3, <1>4, <2>1 DEF B!InOrder, B!BridgeInv
    <3>2. bridge'.put = [i \in 1 .. n |-> i]
      BY <1>1, <2>1, <3>1, AppendCount
    <3> QED BY <3>2
  <2>3. \A i \in 2 .. Len(bridge'.put) : bridge'.put[i] > bridge'.put[i - 1]
    <3> TAKE i \in 2 .. Len(bridge'.put)
    <3>1. CASE i <= Len(old)
      <4>1. i \in 2 .. Len(old) /\ i \in 1 .. Len(old) /\ i - 1 \in 1 .. Len(old)
        BY <2>1, <3>1
      <4> QED BY <1>3, <2>1, <4>1 DEF B!InOrder
    <3>2. CASE i = Len(old) + 1
      <4>1. old # <<>> /\ Len(old) \in 1 .. Len(old) /\ i - 1 = Len(old)
        BY <2>1, <3>2, EmptySeq
      <4> QED BY <1>1, <1>3, <2>1, <3>2, <4>1
    <3> QED BY <2>1, <3>1, <3>2
  <2>4. B!InOrder'
    BY <1>1, <1>3, <2>2, <2>3 DEF B!InOrder
  <2>5. bridge'.put[Len(bridge'.put)] <= n
    BY <1>1, <2>1
  <2>6. ~bridge.fallback => Len(bridge'.put) = n
    BY <1>4, <2>1 DEF B!BridgeInv
  <2> QED BY <1>1, <1>2, <1>3, <1>4, <2>4, <2>5, <2>6 DEF B!BridgeInv, B!ClosedWithPeer
<1>5. CASE ~(bridge.sub = "up" /\ bridge.kind # "wait")
  <2>1. B!InOrder' /\ B!ClosedWithPeer'
    BY <1>1, <1>3, <1>5 DEF B!InOrder, B!ClosedWithPeer
  <2>2. old # <<>> => old[Len(old)] <= n
    BY <1>1, <1>3
  <2> QED BY <1>1, <1>2, <1>5, <2>1, <2>2 DEF B!BridgeInv
<1> QED BY <1>4, <1>5

LEMMA BridgeReadAbandoned ==
    ASSUME B!BridgeInv, B!ReadAbandoned
    PROVE  B!BridgeInv'
<1>1. /\ bridge' = [bridge EXCEPT !.read = bridge.read + 1]
      /\ bridge.fallback /\ bridge.read \in Nat /\ bridge.put \in Seq(1 .. MaxOut)
  BY BoundAssumption DEF B!ReadAbandoned, B!BridgeInv, B!TypeOK
<1>2. B!TypeOK'
  BY BridgeTypes DEF B!Next, B!BridgeInv
<1>3. /\ bridge'.kind = bridge.kind /\ bridge'.sub = bridge.sub /\ bridge'.local = bridge.local
      /\ bridge'.got = bridge.got /\ bridge'.put = bridge.put /\ bridge'.arrived = bridge.arrived
      /\ bridge'.done = bridge.done /\ bridge'.late = bridge.late /\ bridge'.task = bridge.task
      /\ bridge'.pending = bridge.pending /\ bridge'.fallback /\ bridge'.read = bridge.read + 1
  BY <1>1 DEF B!BridgeInv, B!TypeOK
<1>4. B!InOrder' /\ B!ClosedWithPeer'
  BY <1>1, <1>3 DEF B!BridgeInv, B!InOrder, B!ClosedWithPeer
<1>5. bridge.put # <<>> => bridge.put[Len(bridge.put)] <= bridge.read + 1
  <2>1. bridge.put # <<>> => bridge.put[Len(bridge.put)] \in 1 .. MaxOut
    BY <1>1, LastInSeq
  <2> QED BY <1>1, <2>1, BoundAssumption DEF B!BridgeInv
<1> QED BY <1>1, <1>2, <1>3, <1>4, <1>5 DEF B!BridgeInv

LEMMA BridgeNext == ASSUME B!BridgeInv, [B!Next]_bridge PROVE B!BridgeInv'
<1>1. CASE UNCHANGED bridge
  BY <1>1 DEF B!BridgeInv, B!TypeOK, B!InOrder, B!ClosedWithPeer
<1>2. CASE B!Next
  BY <1>2, BridgeQuiet, BridgeNew, BridgeConnectLocal, BridgeDataReceived, BridgeForwardOut,
     BridgeReadAbandoned
     DEF B!Next
<1> QED BY <1>1, <1>2
-----------------------------------------------------------------------------
LEMMA TailIndex ==
    ASSUME NEW S, NEW q \in Seq(S), q # <<>>
    PROVE  /\ Len(q) \in Nat /\ Len(q) >= 1
           /\ Head(q) = q[1] /\ q[1] \in S
           /\ Tail(q) \in Seq(S) /\ Len(Tail(q)) = Len(q) - 1
           /\ DOMAIN Tail(q) = 1 .. Len(q) - 1 /\ DOMAIN q = 1 .. Len(q)
           /\ \A i \in 1 .. Len(q) - 1 : Tail(q)[i] = q[i + 1]
           /\ Tail(q) = <<>> <=> Len(q) = 1
<1>1. Len(q) \in Nat \ {0} /\ DOMAIN q = 1 .. Len(q)
  BY EmptySeq, LenProperties
<1>2. Tail(q) \in Seq(S) /\ Len(Tail(q)) = Len(q) - 1
  BY HeadTailProperties
<1>3. \A i \in 1 .. Len(q) - 1 : Tail(q)[i] = q[i + 1]
  BY <1>2, HeadTailProperties
<1>4. DOMAIN Tail(q) = 1 .. Len(q) - 1
  BY <1>2, LenProperties
<1>5. q[1] \in S
  BY <1>1, ElementOfSeq
<1>6. Tail(q) = <<>> <=> Len(q) = 1
  <2>1. Tail(q) # <<>> => Len(Tail(q)) \in Nat \ {0}
    BY <1>2, EmptySeq
  <2>2. Tail(q) = <<>> => Len(Tail(q)) = 0
    BY EmptySeq
  <2> QED BY <1>1, <1>2, <2>1, <2>2
<1> QED BY <1>1, <1>2, <1>3, <1>4, <1>5, <1>6

LEMMA AppendIndex ==
    ASSUME NEW S, NEW q \in Seq(S), NEW e \in S
    PROVE  /\ Len(q) \in Nat /\ DOMAIN q = 1 .. Len(q)
           /\ Append(q, e) \in Seq(S) /\ Append(q, e) # <<>>
           /\ Len(Append(q, e)) = Len(q) + 1 /\ DOMAIN Append(q, e) = 1 .. Len(q) + 1
           /\ \A i \in 1 .. Len(q) : Append(q, e)[i] = q[i]
           /\ Append(q, e)[Len(q) + 1] = e
           /\ q = <<>> <=> Len(q) = 0
<1>1. Append(q, e) \in Seq(S) /\ Len(Append(q, e)) = Len(q) + 1
  BY AppendProperties
<1>2. Len(q) \in Nat /\ DOMAIN q = 1 .. Len(q) /\ DOMAIN Append(q, e) = 1 .. Len(q) + 1
  BY <1>1, LenProperties
<1>3. q = <<>> <=> Len(q) = 0
  BY EmptySeq
<1> QED BY <1>1, <1>2, <1>3, AppendProperties
-----------------------------------------------------------------------------
LEMMA DaemonTypes == ASSUME D!TypeOK, D!Next PROVE D!TypeOK'
<1> USE DEF D!TypeOK
<1> DEFINE S == D!Pieces \cup {None}
<1>1. CASE D!Listen \/ D!AcceptLoop
  BY <1>1 DEF D!Listen, D!AcceptLoop, D!conns, D!requests
<1>2. ASSUME NEW c \in Conns, D!ConnectionMade(c) PROVE D!TypeOK'
  <2>1. Append(arrived, c) \in Seq(Conns)
    OBVIOUS
  <2> QED BY <1>2, <2>1 DEF D!ConnectionMade, D!requests
<1>3. ASSUME NEW c \in Conns, D!DataReceived(c) PROVE D!TypeOK'
  <2>1. PICK last \in sent[c] + 1 .. MaxBytes[c] :
          /\ sent' = [sent EXCEPT ![c] = last]
          /\ readQueue' = [readQueue EXCEPT ![c] = Append(@, D!Piece(sent[c] + 1, last))]
    BY <1>3 DEF D!DataReceived
  <2>2. last \in Nat /\ last <= MaxBytes[c] /\ D!Piece(sent[c] + 1, last) \in S
    BY BoundAssumption DEF D!Piece, D!Pieces
  <2>3. Append(readQueue[c], D!Piece(sent[c] + 1, last)) \in Seq(S)
    BY <2>2, AppendProperties
  <2>4. /\ sent' \in [Conns -> Nat] /\ \A d \in Conns : sent'[d] <= MaxBytes[d]
        /\ readQueue' \in [Conns -> Seq(S)]
    BY <2>1, <2>2, <2>3
  <2> QED BY <1>3, <2>4 DEF D!DataReceived, D!listening, D!requests
<1>4. ASSUME NEW c \in Conns, D!ConnectionLost(c) PROVE D!TypeOK'
  <2>1. Append(readQueue[c], None) \in Seq(S)
    BY AppendProperties
  <2>2. readQueue' \in [Conns -> Seq(S)]
    BY <1>4, <2>1 DEF D!ConnectionLost
  <2> QED BY <1>4, <2>2 DEF D!ConnectionLost, D!listening, D!requests
<1>5. ASSUME NEW c \in Conns, D!StartSend(c) \/ D!EndSend(c) \/ D!CloseConnection(c)
      PROVE  D!TypeOK'
  BY <1>5 DEF D!StartSend, D!EndSend, D!CloseConnection, D!listening, D!conns, D!requests
<1>6. ASSUME NEW a \in Accepts, D!StartAccept(a) PROVE D!TypeOK'
  BY <1>6 DEF D!StartAccept, D!listening, D!conns
<1>7. ASSUME NEW a \in Accepts, D!EndAccept(a) PROVE D!TypeOK'
  <2>1. arrived # <<>> => Head(arrived) \in Conns /\ Tail(arrived) \in Seq(Conns)
    BY HeadTailProperties
  <2> QED BY <1>7, <2>1 DEF D!EndAccept, D!conns
<1>8. ASSUME NEW r \in Recvs, NEW c \in Conns, D!StartRecv(r, c) PROVE D!TypeOK'
  <2>1. c # None
    BY NoneAssumption
  <2> QED BY <1>8, <2>1 DEF D!StartRecv, D!listening, D!conns
<1>9. ASSUME NEW r \in Recvs, D!TakePiece(r) \/ D!AnswerNothing(r) PROVE D!TypeOK'
  <2> DEFINE c == recv[r]
             q == readQueue[c]
  <2>1. c \in Conns /\ q \in Seq(S)
    BY <1>9 DEF D!TakePiece, D!AnswerNothing
  <2>2. q # <<>> => Tail(q) \in Seq(S) /\ Head(q) \in S
    BY <2>1, HeadTailProperties
  <2>3. CASE D!TakePiece(r)
    BY <2>1, <2>2, <2>3 DEF D!TakePiece, D!listening
  <2>4. CASE D!AnswerNothing(r)
    BY <2>1, <2>2, <2>4 DEF D!AnswerNothing, D!listening
  <2> QED BY <1>9, <2>3, <2>4
<1>10. ASSUME NEW r \in Recvs, D!Answer(r) PROVE D!TypeOK'
  <2> DEFINE c == recv[r]
             piece == held[r]
  <2>1. c \in Conns /\ piece \in D!Pieces /\ readQueue[c] \in Seq(S) /\ got[c] \in Seq(D!Pieces)
    BY <1>10 DEF D!Answer
  <2>2. \A cut \in piece.first .. piece.last - 1 :
          D!Piece(cut + 1, piece.last) \in D!Pieces /\ D!Piece(piece.first, cut) \in D!Pieces
    BY <2>1 DEF D!Pieces, D!Piece
  <2>3. \A p \in D!Pieces :
          Append(got[c], p) \in Seq(D!Pieces) /\ Append(readQueue[c], p) \in Seq(S)
    <3> TAKE p \in D!Pieces
    <3>1. p \in S
      OBVIOUS
    <3> HIDE DEF S
    <3> QED BY <2>1, <3>1, AppendProperties
  <2>4. got' \in [Conns -> Seq(D!Pieces)] /\ readQueue' \in [Conns -> Seq(S)]
    <3>1. ASSUME got' = [got EXCEPT ![c] = Append(@, piece)], readQueue' = readQueue
          PROVE  got' \in [Conns -> Seq(D!Pieces)] /\ readQueue' \in [Conns -> Seq(S)]
      <4>1. Append(got[c], piece) \in Seq(D!Pieces)
        BY <2>1, <2>3
      <4>2. got \in [Conns -> Seq(D!Pieces)] /\ readQueue \in [Conns -> Seq(S)]
        OBVIOUS
      <4> HIDE DEF S
      <4> QED BY <3>1, <4>1, <4>2
    <3>2. ASSUME NEW cut \in piece.first .. piece.last - 1,
                 got' = [got EXCEPT ![c] = Append(@, D!Piece(piece.first, cut))],
                 readQueue' = [readQueue EXCEPT ![c] = D!PutBack(@, D!Piece(cut + 1, piece.last))]
          PROVE  got' \in [Conns -> Seq(D!Pieces)] /\ readQueue' \in [Conns -> Seq(S)]
      <4>1. /\ Append(got[c], D!Piece(piece.first, cut)) \in Seq(D!Pieces)
            /\ Append(readQueue[c], D!Piece(cut + 1, piece.last)) \in Seq(S)
        BY <2>2, <2>3
      <4>2. got \in [Conns -> Seq(D!Pieces)] /\ readQueue \in [Conns -> Seq(S)]
        OBVIOUS
      <4> HIDE DEF S
      <4> QED BY <3>2, <4>1, <4>2 DEF D!PutBack
    <3> QED BY <1>10, <3>1, <3>2 DEF D!Answer
  <2> QED BY <1>10, <2>4 DEF D!Answer, D!listening
<1>11. ASSUME NEW d \in Deletes, D!StartDelete(d) PROVE D!TypeOK'
  BY <1>11 DEF D!StartDelete, D!conns
<1>12. ASSUME NEW d \in Deletes, D!EndDelete(d) PROVE D!TypeOK'
  BY <1>12 DEF D!EndDelete, D!Removed
<1> QED
  BY <1>1, <1>2, <1>3, <1>4, <1>5, <1>6, <1>7, <1>8, <1>9, <1>10, <1>11, <1>12 DEF D!Next

LEMMA DaemonInit == D!Init => D!DaemonInv
<1> SUFFICES ASSUME D!Init PROVE D!DaemonInv
  OBVIOUS
<1>1. /\ <<>> \in Seq(Conns) /\ <<>> \in Seq(D!Pieces \cup {None}) /\ <<>> \in Seq(D!Pieces)
      /\ DOMAIN <<>> = {}
  BY EmptySeq
<1>2. D!TypeOK
  <2>1. sent \in [Conns -> Nat] /\ \A c \in Conns : sent[c] <= MaxBytes[c]
    BY BoundAssumption DEF D!Init
  <2> QED BY <1>1, <2>1 DEF D!Init, D!TypeOK
<1>3. D!BytesKept
  BY <1>1 DEF D!Init, D!BytesKept, D!Kept, D!Among, D!Once, D!Holders, D!Has
<1> QED BY <1>2, <1>3 DEF D!Init, D!DaemonInv, D!NothingLeft, D!ClosedForGood

\* Where the bytes of a queue are after a piece is put at its end or taken from its
\* front.
LEMMA PieceAppended ==
    ASSUME NEW q \in Seq(D!Pieces \cup {None}), NEW p \in D!Pieces \cup {None}, NEW b
    PROVE  /\ D!Among(Append(q, p), b) <=> D!Among(q, b) \/ D!Has(p, b)
           /\ D!Once(q, b) /\ ~(D!Among(q, b) /\ D!Has(p, b)) => D!Once(Append(q, p), b)
<1> DEFINE a == Append(q, p)
           S == D!Pieces \cup {None}
<1>1. /\ Len(q) \in Nat /\ DOMAIN q = 1 .. Len(q) /\ DOMAIN a = 1 .. Len(q) + 1
      /\ a[Len(q) + 1] = p /\ \A i \in 1 .. Len(q) : a[i] = q[i]
  <2>1. q \in Seq(S) /\ p \in S
    OBVIOUS
  <2> HIDE DEF S
  <2> QED BY <2>1, AppendIndex
<1> HIDE DEF a
<1>2. /\ \A i \in 1 .. Len(q) + 1 : i \in 1 .. Len(q) \/ i = Len(q) + 1
      /\ \A i \in 1 .. Len(q) : i \in 1 .. Len(q) + 1
      /\ Len(q) + 1 \in 1 .. Len(q) + 1
  BY <1>1
<1>3. D!Among(a, b) <=> D!Among(q, b) \/ D!Has(p, b)
  BY <1>1, <1>2 DEF D!Among
<1>4. D!Once(q, b) /\ ~(D!Among(q, b) /\ D!Has(p, b)) => D!Once(a, b)
  BY <1>1, <1>2 DEF D!Among, D!Once
<1> QED BY <1>3, <1>4 DEF a

LEMMA PieceTaken ==
    ASSUME NEW q \in Seq(D!Pieces \cup {None}), q # <<>>, NEW b
    PROVE  /\ D!Among(q, b) <=> D!Has(Head(q), b) \/ D!Among(Tail(q), b)
           /\ D!Once(q, b) =>
                D!Once(Tail(q), b) /\ ~(D!Has(Head(q), b) /\ D!Among(Tail(q), b))
<1> DEFINE t == Tail(q)
           h == Head(q)
<1>1. /\ Len(q) \in Nat /\ Len(q) >= 1 /\ h = q[1]
      /\ DOMAIN q = 1 .. Len(q) /\ DOMAIN t = 1 .. Len(q) - 1
      /\ \A i \in 1 .. Len(q) - 1 : t[i] = q[i + 1]
  BY TailIndex
<1> HIDE DEF t, h
<1>2. /\ \A i \in 1 .. Len(q) - 1 : i + 1 \in 1 .. Len(q) /\ i + 1 # 1
      /\ \A i, j \in 1 .. Len(q) - 1 : i + 1 = j + 1 => i = j
      /\ \A i \in 1 .. Len(q) : i = 1 \/ (i - 1 \in 1 .. Len(q) - 1 /\ t[i - 1] = q[i])
      /\ 1 \in 1 .. Len(q)
  BY <1>1
<1>3. D!Among(q, b) => D!Has(h, b) \/ D!Among(t, b)
  BY <1>1, <1>2 DEF D!Among
<1>4. D!Has(h, b) \/ D!Among(t, b) => D!Among(q, b)
  BY <1>1, <1>2 DEF D!Among
<1>5. D!Once(q, b) => D!Once(t, b)
  BY SMTT(30), <1>1, <1>2 DEF D!Once
<1>6. D!Once(q, b) => ~(D!Has(h, b) /\ D!Among(t, b))
  BY <1>1, <1>2 DEF D!Once, D!Among
<1> QED BY <1>3, <1>4, <1>5, <1>6 DEF t, h

\* What Kept says of a byte, and the types it needs.
LEMMA DaemonKept ==
    ASSUME D!DaemonInv, NEW c \in Conns, NEW b \in 1 .. MaxBytes[c]
    PROVE  /\ D!TypeOK /\ D!Kept(c, b) /\ b \in Nat /\ sent[c] \in Nat
           /\ readQueue[c] \in Seq(D!Pieces \cup {None})
           /\ got[c] \in Seq(D!Pieces \cup {None})
<1>1. got[c] \in Seq(D!Pieces)
  BY DEF D!DaemonInv, D!TypeOK
<1>2. got[c] \in Seq(D!Pieces \cup {None})
  <2>1. \A i \in 1 .. Len(got[c]) : got[c][i] \in D!Pieces
    BY <1>1, ElementOfSeq
  <2>2. got[c] = [i \in 1 .. Len(got[c]) |-> got[c][i]] /\ Len(got[c]) \in Nat
    BY <1>1, LenProperties
  <2> QED BY <2>1, <2>2
<1> QED BY SMTT(30), <1>2, BoundAssumption DEF D!DaemonInv, D!TypeOK, D!BytesKept

LEMMA DaemonArrives ==
    ASSUME D!DaemonInv, NEW c \in Conns, D!DataReceived(c) \/ D!ConnectionLost(c),
           NEW d \in Conns, NEW b \in 1 .. MaxBytes[d]
    PROVE  D!Kept(d, b)'
<1>1. /\ D!TypeOK /\ D!Kept(d, b) /\ b \in Nat /\ sent[d] \in Nat
      /\ readQueue[d] \in Seq(D!Pieces \cup {None})
  BY DaemonKept
<1>2. /\ UNCHANGED <<got, recv, held>> /\ D!Holders(d, b)' = D!Holders(d, b)
      /\ readQueue \in [Conns -> Seq(D!Pieces \cup {None})] /\ sent \in [Conns -> Nat]
  BY <1>1 DEF D!DataReceived, D!ConnectionLost, D!requests, D!Holders, D!TypeOK
<1>3. PICK p \in D!Pieces \cup {None} :
        /\ readQueue' = [readQueue EXCEPT ![c] = Append(@, p)]
        /\ \/ p = None /\ sent' = sent
           \/ \E last \in Nat : /\ p # None /\ p.first = sent[c] + 1 /\ p.last = last
                                /\ last > sent[c] /\ sent' = [sent EXCEPT ![c] = last]
  <2>1. CASE D!ConnectionLost(c)
    BY <2>1 DEF D!ConnectionLost
  <2>2. CASE D!DataReceived(c)
    <3>1. PICK last \in sent[c] + 1 .. MaxBytes[c] :
            /\ sent' = [sent EXCEPT ![c] = last]
            /\ readQueue' = [readQueue EXCEPT ![c] = Append(@, D!Piece(sent[c] + 1, last))]
      BY <2>2 DEF D!DataReceived
    <3>2. /\ last \in Nat /\ last > sent[c] /\ D!Piece(sent[c] + 1, last) \in D!Pieces
          /\ D!Piece(sent[c] + 1, last).first = sent[c] + 1
          /\ D!Piece(sent[c] + 1, last).last = last
      BY <1>2, BoundAssumption DEF D!Piece, D!Pieces
    <3>3. D!Piece(sent[c] + 1, last) # None
      BY <3>2, NoneAssumption
    <3> QED BY <3>1, <3>2, <3>3
  <2> QED BY <2>1, <2>2
<1>4. CASE d # c
  <2>1. readQueue'[d] = readQueue[d] /\ sent'[d] = sent[d]
    BY <1>2, <1>3, <1>4
  <2> QED BY <1>1, <1>2, <2>1 DEF D!Kept
<1>5. CASE d = c
  <2>1. readQueue'[d] = Append(readQueue[d], p) /\ (b <= sent'[d] <=> b <= sent[d] \/ D!Has(p, b))
        /\ (D!Has(p, b) => b > sent[d])
    BY <1>1, <1>2, <1>3, <1>5 DEF D!Has
  <2>2. /\ D!Among(readQueue'[d], b) <=> D!Among(readQueue[d], b) \/ D!Has(p, b)
        /\ D!Once(readQueue[d], b) /\ ~(D!Among(readQueue[d], b) /\ D!Has(p, b)) =>
             D!Once(readQueue'[d], b)
    BY <1>1, <2>1, PieceAppended
  <2>3. D!Has(p, b) =>
          ~D!Among(got[d], b) /\ ~D!Among(readQueue[d], b) /\ D!Holders(d, b) = {}
    BY <1>1, <2>1 DEF D!Kept
  <2> QED BY <1>1, <1>2, <2>1, <2>2, <2>3 DEF D!Kept
<1> QED BY <1>4, <1>5

LEMMA DaemonTakePiece ==
    ASSUME D!DaemonInv, NEW r \in Recvs, D!TakePiece(r),
           NEW d \in Conns, NEW b \in 1 .. MaxBytes[d]
    PROVE  D!Kept(d, b)'
<1> DEFINE c == recv[r]
           q == readQueue[c]
<1>1. /\ D!TypeOK /\ D!Kept(d, b) /\ readQueue[d] \in Seq(D!Pieces \cup {None})
  BY DaemonKept
<1>2. /\ c \in Conns /\ q # <<>> /\ held[r] = None /\ UNCHANGED <<sent, got, recv>>
      /\ \A e \in Recvs : held'[e] = IF e = r THEN Head(q) ELSE held[e]
      /\ \A e \in Conns : readQueue'[e] = IF e = c THEN Tail(q) ELSE readQueue[e]
  BY <1>1 DEF D!TakePiece, D!TypeOK
<1>3. CASE d # c
  <2>1. D!Holders(d, b)' = D!Holders(d, b)
    BY <1>2, <1>3 DEF D!Holders
  <2> QED BY <1>1, <1>2, <1>3, <2>1 DEF D!Kept
<1>4. CASE d = c
  <2>1. /\ D!Among(q, b) <=> D!Has(Head(q), b) \/ D!Among(Tail(q), b)
        /\ D!Once(q, b) => D!Once(Tail(q), b) /\ ~(D!Has(Head(q), b) /\ D!Among(Tail(q), b))
    BY <1>1, <1>2, <1>4, PieceTaken
  <2>2. D!Holders(d, b)' = IF D!Has(Head(q), b) THEN D!Holders(d, b) \cup {r} ELSE D!Holders(d, b)
    BY <1>2, <1>4 DEF D!Holders, D!Has
  <2>3. readQueue'[d] = Tail(q) /\ q = readQueue[d]
    BY <1>2, <1>4
  <2> HIDE DEF q, c
  <2>4. CASE D!Has(Head(q), b)
    <3>1. D!Holders(d, b) = {} /\ ~D!Among(got[d], b)
      BY <1>1, <2>1, <2>3, <2>4 DEF D!Kept
    <3> QED BY <1>1, <1>2, <2>1, <2>2, <2>3, <2>4, <3>1 DEF D!Kept
  <2>5. CASE ~D!Has(Head(q), b)
    BY <1>1, <1>2, <2>1, <2>2, <2>3, <2>5 DEF D!Kept
  <2> QED BY <2>4, <2>5
<1> QED BY <1>3, <1>4

LEMMA DaemonAnswer ==
    ASSUME D!DaemonInv, NEW r \in Recvs, D!Answer(r),
           NEW d \in Conns, NEW b \in 1 .. MaxBytes[d]
    PROVE  D!Kept(d, b)'
<1> DEFINE c == recv[r]
           piece == held[r]
<1>1. /\ D!TypeOK /\ D!Kept(d, b) /\ b \in Nat
      /\ readQueue[d] \in Seq(D!Pieces \cup {None}) /\ got[d] \in Seq(D!Pieces \cup {None})
  BY DaemonKept
<1>2. /\ c \in Conns /\ piece \in D!Pieces /\ piece # None /\ sent' = sent
      /\ \A e \in Recvs : held'[e] = IF e = r THEN None ELSE held[e]
      /\ \A e \in Recvs : recv'[e] = IF e = r THEN None ELSE recv[e]
      /\ None \notin Conns
  BY <1>1, NoneAssumption DEF D!Answer, D!TypeOK
<1>3. PICK p \in D!Pieces, rest \in D!Pieces \cup {None} :
        /\ \A e \in Conns : got'[e] = IF e = c THEN Append(got[e], p) ELSE got[e]
        /\ \A e \in Conns : readQueue'[e] =
             IF e = c /\ rest # None THEN Append(readQueue[e], rest) ELSE readQueue[e]
        /\ D!Has(piece, b) <=> D!Has(p, b) \/ D!Has(rest, b)
        /\ ~(D!Has(p, b) /\ D!Has(rest, b))
  <2>1. CASE got' = [got EXCEPT ![c] = Append(@, piece)] /\ UNCHANGED readQueue
    <3>1. /\ \A e \in Conns : got'[e] = IF e = c THEN Append(got[e], piece) ELSE got[e]
          /\ ~D!Has(None, b)
      BY <1>1, <2>1 DEF D!TypeOK, D!Has
    <3> QED BY <1>2, <2>1, <3>1
  <2>2. ASSUME NEW cut \in piece.first .. piece.last - 1,
               got' = [got EXCEPT ![c] = Append(@, D!Piece(piece.first, cut))],
               readQueue' = [readQueue EXCEPT ![c] = D!PutBack(@, D!Piece(cut + 1, piece.last))]
        PROVE  \E p \in D!Pieces, rest \in D!Pieces \cup {None} :
                 /\ \A e \in Conns : got'[e] = IF e = c THEN Append(got[e], p) ELSE got[e]
                 /\ \A e \in Conns : readQueue'[e] =
                      IF e = c /\ rest # None THEN Append(readQueue[e], rest) ELSE readQueue[e]
                 /\ D!Has(piece, b) <=> D!Has(p, b) \/ D!Has(rest, b)
                 /\ ~(D!Has(p, b) /\ D!Has(rest, b))
    <3> DEFINE p == D!Piece(piece.first, cut)
               rest == D!Piece(cut + 1, piece.last)
    <3>1. /\ p \in D!Pieces /\ rest \in D!Pieces /\ cut \in Nat
          /\ piece.first \in Nat /\ piece.last \in Nat
          /\ p.first = piece.first /\ p.last = cut
          /\ rest.first = cut + 1 /\ rest.last = piece.last
      BY <1>2, <2>2 DEF D!Piece, D!Pieces
    <3>2. p # None /\ rest # None
      BY <3>1, NoneAssumption
    <3>3. /\ \A e \in Conns : got'[e] = IF e = c THEN Append(got[e], p) ELSE got[e]
          /\ \A e \in Conns : readQueue'[e] =
               IF e = c THEN Append(readQueue[e], rest) ELSE readQueue[e]
      BY <1>1, <2>2 DEF D!TypeOK, D!PutBack
    <3> HIDE DEF p, rest
    <3>4. /\ D!Has(piece, b) <=> D!Has(p, b) \/ D!Has(rest, b)
          /\ ~(D!Has(p, b) /\ D!Has(rest, b))
      BY <1>1, <1>2, <2>2, <3>1, <3>2 DEF D!Has
    <3> QED BY <3>1, <3>2, <3>3, <3>4
  <2> QED BY <2>1, <2>2 DEF D!Answer
<1>4. CASE d # c
  <2>1. D!Holders(d, b)' = D!Holders(d, b)
    BY <1>2, <1>4 DEF D!Holders
  <2> QED BY <1>1, <1>2, <1>3, <1>4, <2>1 DEF D!Kept
<1>5. CASE d = c
  <2>1. D!Holders(d, b)' = D!Holders(d, b) \ {r} /\ (r \in D!Holders(d, b) <=> D!Has(piece, b))
    BY <1>2, <1>5 DEF D!Holders
  <2>2. /\ got'[d] = Append(got[d], p)
        /\ readQueue'[d] = IF rest # None THEN Append(readQueue[d], rest) ELSE readQueue[d]
    BY <1>3, <1>5
  <2> HIDE DEF c, piece
  <2>3. /\ D!Among(got'[d], b) <=> D!Among(got[d], b) \/ D!Has(p, b)
        /\ D!Once(got[d], b) /\ ~(D!Among(got[d], b) /\ D!Has(p, b)) => D!Once(got'[d], b)
    <3>1. p \in D!Pieces \cup {None} /\ got[d] \in Seq(D!Pieces \cup {None})
      BY <1>1
    <3>2. /\ D!Among(Append(got[d], p), b) <=> D!Among(got[d], b) \/ D!Has(p, b)
          /\ D!Once(got[d], b) /\ ~(D!Among(got[d], b) /\ D!Has(p, b)) =>
               D!Once(Append(got[d], p), b)
      BY <3>1, PieceAppended, Zenon
    <3> QED BY <2>2, <3>2
  <2>4. /\ D!Among(readQueue'[d], b) <=> D!Among(readQueue[d], b) \/ D!Has(rest, b)
        /\ D!Once(readQueue[d], b) /\ ~(D!Among(readQueue[d], b) /\ D!Has(rest, b)) =>
             D!Once(readQueue'[d], b)
    <3>1. CASE rest # None
      <4>1. rest \in D!Pieces \cup {None} /\ readQueue[d] \in Seq(D!Pieces \cup {None})
        BY <1>1
      <4>2. /\ D!Among(Append(readQueue[d], rest), b) <=>
                 D!Among(readQueue[d], b) \/ D!Has(rest, b)
            /\ D!Once(readQueue[d], b) /\ ~(D!Among(readQueue[d], b) /\ D!Has(rest, b)) =>
                 D!Once(Append(readQueue[d], rest), b)
        BY <4>1, PieceAppended, Zenon
      <4>3. readQueue'[d] = Append(readQueue[d], rest)
        BY <2>2, <3>1
      <4> QED BY <4>2, <4>3
    <3>2. CASE rest = None
      BY <2>2, <3>2 DEF D!Has
    <3> QED BY <3>1, <3>2
  <2>5. CASE D!Has(piece, b)
    <3>1. /\ D!Holders(d, b) = {r} /\ D!Holders(d, b)' = {}
          /\ ~D!Among(got[d], b) /\ ~D!Among(readQueue[d], b) /\ b <= sent[d]
      BY <1>1, <2>1, <2>5 DEF D!Kept
    <3> QED BY <1>1, <1>2, <1>3, <2>3, <2>4, <2>5, <3>1 DEF D!Kept
  <2>6. CASE ~D!Has(piece, b)
    <3>1. D!Holders(d, b)' = D!Holders(d, b) /\ ~D!Has(p, b) /\ ~D!Has(rest, b)
      BY <1>3, <2>1, <2>6
    <3> QED BY <1>1, <1>2, <2>3, <2>4, <3>1 DEF D!Kept
  <2> QED BY <2>5, <2>6
<1> QED BY <1>4, <1>5

LEMMA DaemonAnswerNothing ==
    ASSUME D!DaemonInv, NEW r \in Recvs, D!AnswerNothing(r),
           NEW d \in Conns, NEW b \in 1 .. MaxBytes[d]
    PROVE  D!Kept(d, b)'
<1> DEFINE c == recv[r]
           q == readQueue[c]
<1>1. /\ D!TypeOK /\ D!Kept(d, b) /\ readQueue[d] \in Seq(D!Pieces \cup {None})
  BY DaemonKept
<1>2. /\ c \in Conns /\ held[r] = None /\ UNCHANGED <<sent, got, held>>
      /\ \A e \in Recvs : recv'[e] = IF e = r THEN None ELSE recv[e]
      /\ None \notin Conns
  BY <1>1, NoneAssumption DEF D!AnswerNothing, D!TypeOK
<1>3. D!Holders(d, b)' = D!Holders(d, b)
  BY <1>2 DEF D!Holders, D!Has
<1>4. CASE q # <<>> /\ Head(q) = None /\ readQueue' = [readQueue EXCEPT ![c] = Tail(@)] /\ d = c
  <2>1. readQueue'[d] = Tail(readQueue[d]) /\ readQueue[d] # <<>> /\ ~D!Has(Head(readQueue[d]), b)
    BY <1>1, <1>2, <1>4 DEF D!TypeOK, D!Has
  <2>2. /\ D!Among(readQueue[d], b) <=> D!Among(readQueue'[d], b)
        /\ D!Once(readQueue[d], b) => D!Once(readQueue'[d], b)
    BY <1>1, <2>1, PieceTaken
  <2> QED BY <1>1, <1>2, <1>3, <2>2 DEF D!Kept
<1>5. CASE readQueue'[d] = readQueue[d]
  BY <1>1, <1>2, <1>3, <1>5 DEF D!Kept
<1>6. readQueue' = [readQueue EXCEPT ![c] = Tail(@)] /\ d # c => readQueue'[d] = readQueue[d]
  BY <1>1, <1>2 DEF D!TypeOK
<1> QED BY <1>4, <1>5, <1>6 DEF D!AnswerNothing

\* A step that moves no piece and gives no request another connection.
LEMMA DaemonQuiet ==
    ASSUME D!DaemonInv, UNCHANGED <<readQueue, sent, got, held>>,
           \/ UNCHANGED recv
           \/ \E r \in Recvs : \E c \in Conns : D!StartRecv(r, c),
           NEW d \in Conns, NEW b \in 1 .. MaxBytes[d]
    PROVE  D!Kept(d, b)'
<1>1. D!TypeOK /\ D!Kept(d, b)
  BY DaemonKept
<1>2. D!Holders(d, b)' = D!Holders(d, b)
  <2>1. CASE UNCHANGED recv
    BY <2>1 DEF D!Holders
  <2>2. ASSUME NEW r \in Recvs, NEW c \in Conns, D!StartRecv(r, c)
        PROVE  D!Holders(d, b)' = D!Holders(d, b)
    <3>1. /\ \A e \in Recvs : recv'[e] = IF e = r THEN c ELSE recv[e]
          /\ held[r] = None /\ recv[r] = None
      BY <1>1, <2>2 DEF D!StartRecv, D!TypeOK
    <3>2. None \notin Conns
      BY NoneAssumption
    <3> QED BY <3>1, <3>2 DEF D!Holders, D!Has
  <2> QED BY <2>1, <2>2
<1> QED BY <1>1, <1>2 DEF D!Kept

LEMMA DaemonNext == ASSUME D!DaemonInv, [D!Next]_(D!vars) PROVE D!DaemonInv'
<1>1. CASE UNCHANGED D!vars
  BY <1>1 DEF D!vars, D!listening, D!conns, D!requests, D!DaemonInv, D!TypeOK, D!BytesKept,
              D!Kept, D!Holders, D!NothingLeft, D!ClosedForGood
<1>2. CASE D!Next
  <2>1. D!TypeOK'
    BY <1>2, DaemonTypes DEF D!DaemonInv
  <2>2. D!BytesKept'
    <3> SUFFICES ASSUME NEW d \in Conns, NEW b \in 1 .. MaxBytes[d] PROVE D!Kept(d, b)'
      BY DEF D!BytesKept
    <3>1. CASE \E c \in Conns : D!DataReceived(c) \/ D!ConnectionLost(c)
      BY <3>1, DaemonArrives
    <3>2. CASE \E r \in Recvs : D!TakePiece(r) \/ D!Answer(r) \/ D!AnswerNothing(r)
      BY <3>2, DaemonTakePiece, DaemonAnswer, DaemonAnswerNothing
    <3>3. CASE UNCHANGED <<readQueue, sent, got, held, recv>>
      BY <3>3, DaemonQuiet
    <3>4. CASE \E r \in Recvs : \E c \in Conns : D!StartRecv(r, c)
      <4>1. UNCHANGED <<readQueue, sent, got, held>>
        BY <3>4 DEF D!StartRecv, D!conns
      <4> QED BY <3>4, <4>1, DaemonQuiet
    <3>5. D!Listen \/ D!AcceptLoop => UNCHANGED <<readQueue, sent, got, held, recv>>
      BY DEF D!Listen, D!AcceptLoop, D!conns, D!requests
    <3>6. \A c \in Conns :
            D!ConnectionMade(c) \/ D!StartSend(c) \/ D!EndSend(c) \/ D!CloseConnection(c) =>
              UNCHANGED <<readQueue, sent, got, held, recv>>
      BY DEF D!ConnectionMade, D!StartSend, D!EndSend, D!CloseConnection, D!conns, D!requests
    <3>7. \A a \in Accepts : D!StartAccept(a) \/ D!EndAccept(a) =>
            UNCHANGED <<readQueue, sent, got, held, recv>>
      BY DEF D!StartAccept, D!EndAccept, D!conns
    <3>8. \A e \in Deletes : D!StartDelete(e) \/ D!EndDelete(e) =>
            UNCHANGED <<readQueue, sent, got, held, recv>>
      BY DEF D!StartDelete, D!EndDelete, D!conns
    <3> QED BY <1>2, <3>1, <3>2, <3>3, <3>4, <3>5, <3>6, <3>7, <3>8 DEF D!Next
  <2>3. D!NothingLeft' /\ D!ClosedForGood'
    <3> USE DEF D!DaemonInv, D!TypeOK, D!NothingLeft, D!ClosedForGood
    <3>1. CASE D!Listen \/ D!AcceptLoop
      BY <3>1 DEF D!Listen, D!AcceptLoop, D!conns, D!requests
    <3>2. ASSUME NEW c \in Conns,
                 \/ D!ConnectionMade(c) \/ D!DataReceived(c) \/ D!ConnectionLost(c)
                 \/ D!StartSend(c) \/ D!EndSend(c) \/ D!CloseConnection(c)
          PROVE  D!NothingLeft' /\ D!ClosedForGood'
      BY <3>2 DEF D!ConnectionMade, D!DataReceived, D!ConnectionLost, D!StartSend, D!EndSend,
                  D!CloseConnection, D!listening, D!conns, D!requests
    <3>3. ASSUME NEW a \in Accepts, D!StartAccept(a) \/ D!EndAccept(a)
          PROVE  D!NothingLeft' /\ D!ClosedForGood'
      BY <3>3 DEF D!StartAccept, D!EndAccept, D!listening, D!conns
    <3>4. ASSUME NEW r \in Recvs,
                 \/ D!TakePiece(r) \/ D!Answer(r) \/ D!AnswerNothing(r)
                 \/ \E c \in Conns : D!StartRecv(r, c)
          PROVE  D!NothingLeft' /\ D!ClosedForGood'
      BY <3>4 DEF D!TakePiece, D!Answer, D!AnswerNothing, D!StartRecv, D!listening, D!conns
    <3>5. ASSUME NEW d \in Deletes, D!StartDelete(d)
          PROVE  D!NothingLeft' /\ D!ClosedForGood'
      BY <3>5 DEF D!StartDelete, D!conns
    <3>6. ASSUME NEW d \in Deletes, D!EndDelete(d)
          PROVE  D!NothingLeft' /\ D!ClosedForGood'
      BY <3>6 DEF D!EndDelete, D!Removed
    <3> QED BY <1>2, <3>1, <3>2, <3>3, <3>4, <3>5, <3>6 DEF D!Next
  <2> QED BY <2>1, <2>2, <2>3 DEF D!DaemonInv
<1> QED BY <1>1, <1>2
-----------------------------------------------------------------------------
\* What a message at the end of a stream changes for channel d.
LEMMA Appended ==
    ASSUME NEW s \in Seq(P!Messages), NEW m \in P!Messages, NEW d
    PROVE  /\ \A t : P!On(Append(s, m), t, d) <=> P!On(s, t, d) \/ P!IsFor(m, t, d)
           /\ ~P!IsFor(m, "DATA", d) =>
                /\ \A n : P!InFlight(s, d, n) => P!InFlight(Append(s, m), d, n)
                /\ \A n, k : P!Owed(s, d, n, k) => P!Owed(Append(s, m), d, n, k)
           /\ P!IsFor(m, "DATA", d) => \A n \in Nat : m.payload = n + 1 =>
                /\ P!InFlight(s, d, n) => P!InFlight(Append(s, m), d, n + 1)
                /\ \A k \in Nat : P!Owed(s, d, n, k) => P!Owed(Append(s, m), d, n + 1, k)
           /\ P!Once(s, "CONNECT", d) /\ ~(P!IsFor(m, "CONNECT", d) /\ P!On(s, "CONNECT", d)) =>
                P!Once(Append(s, m), "CONNECT", d)
<1> DEFINE a == Append(s, m)
<1>1. /\ Len(s) \in Nat /\ DOMAIN s = 1 .. Len(s) /\ DOMAIN a = 1 .. Len(s) + 1
      /\ \A i \in 1 .. Len(s) : a[i] = s[i]
      /\ a[Len(s) + 1] = m
  BY AppendIndex
<1>2. \A i \in 1 .. Len(s) : i \in 1 .. Len(s) + 1 /\ i < Len(s) + 1
  BY <1>1
<1>3. \A i \in 1 .. Len(s) + 1 : i \in 1 .. Len(s) \/ i = Len(s) + 1
  BY <1>1
<1>4. Len(s) + 1 \in 1 .. Len(s) + 1
  BY <1>1
<1> HIDE DEF a
<1>5. \A t : P!On(a, t, d) <=> P!On(s, t, d) \/ P!IsFor(m, t, d)
  BY <1>1, <1>2, <1>3, <1>4 DEF P!On
<1>6. ASSUME ~P!IsFor(m, "DATA", d), NEW n, P!InFlight(s, d, n) PROVE P!InFlight(a, d, n)
  <2> SUFFICES ASSUME NEW i \in 1 .. Len(s), P!IsFor(s[i], "DATA", d)
      PROVE  /\ s[i].payload \in 1 .. n
             /\ s[i].payload < n => \E j \in 1 .. Len(s) + 1 :
                  j > i /\ P!IsFor(a[j], "DATA", d) /\ a[j].payload = s[i].payload + 1
             /\ \A j \in 1 .. Len(s) + 1 :
                  j > i /\ P!IsFor(a[j], "DATA", d) => a[j].payload > s[i].payload
    BY <1>1, <1>3, <1>6 DEF P!InFlight
  <2>1. /\ s[i].payload \in 1 .. n
        /\ s[i].payload < n => \E j \in 1 .. Len(s) :
             j > i /\ P!IsFor(s[j], "DATA", d) /\ s[j].payload = s[i].payload + 1
        /\ \A j \in 1 .. Len(s) :
             j > i /\ P!IsFor(s[j], "DATA", d) => s[j].payload > s[i].payload
    BY <1>1, <1>6 DEF P!InFlight
  <2> QED BY <1>1, <1>2, <1>3, <1>6, <2>1
<1>7. ASSUME ~P!IsFor(m, "DATA", d), NEW n, NEW k, P!Owed(s, d, n, k) PROVE P!Owed(a, d, n, k)
  BY <1>1, <1>2, <1>3, <1>7 DEF P!Owed
<1>8. ASSUME P!IsFor(m, "DATA", d), NEW n \in Nat, m.payload = n + 1, P!InFlight(s, d, n)
      PROVE  P!InFlight(a, d, n + 1)
  <2> SUFFICES ASSUME NEW i \in 1 .. Len(s) + 1, P!IsFor(a[i], "DATA", d)
      PROVE  /\ a[i].payload \in 1 .. n + 1
             /\ a[i].payload < n + 1 => \E j \in 1 .. Len(s) + 1 :
                  j > i /\ P!IsFor(a[j], "DATA", d) /\ a[j].payload = a[i].payload + 1
             /\ \A j \in 1 .. Len(s) + 1 :
                  j > i /\ P!IsFor(a[j], "DATA", d) => a[j].payload > a[i].payload
    BY <1>1 DEF P!InFlight
  <2>1. CASE i = Len(s) + 1
    <3>1. a[i].payload = n + 1 /\ \A j \in 1 .. Len(s) + 1 : ~(j > i)
      BY <1>1, <1>8, <2>1
    <3> QED BY <3>1
  <2>2. CASE i \in 1 .. Len(s)
    <3>1. /\ s[i].payload \in 1 .. n
          /\ s[i].payload < n => \E j \in 1 .. Len(s) :
               j > i /\ P!IsFor(s[j], "DATA", d) /\ s[j].payload = s[i].payload + 1
          /\ \A j \in 1 .. Len(s) :
               j > i /\ P!IsFor(s[j], "DATA", d) => s[j].payload > s[i].payload
      BY <1>1, <1>8, <2>2 DEF P!InFlight
    <3>2. a[i] = s[i] /\ a[Len(s) + 1].payload = n + 1 /\ Len(s) + 1 > i
      BY <1>1, <1>8, <2>2
    <3>3. CASE s[i].payload = n
      BY <1>1, <1>3, <1>4, <1>8, <3>1, <3>2, <3>3
    <3>4. CASE s[i].payload < n
      BY <1>1, <1>2, <1>3, <1>8, <3>1, <3>2, <3>4
    <3> QED BY <3>1, <3>3, <3>4
  <2> QED BY <1>3, <2>1, <2>2
<1>9. ASSUME P!IsFor(m, "DATA", d), NEW n \in Nat, NEW k \in Nat, m.payload = n + 1,
             P!Owed(s, d, n, k)
      PROVE  P!Owed(a, d, n + 1, k)
  <2>1. /\ k <= n
        /\ k < n => \E j \in 1 .. Len(s) : P!IsFor(s[j], "DATA", d) /\ s[j].payload = k + 1
        /\ \A j \in 1 .. Len(s) : P!IsFor(s[j], "DATA", d) => s[j].payload > k
    BY <1>1, <1>9 DEF P!Owed
  <2>2. \E j \in 1 .. Len(s) + 1 : P!IsFor(a[j], "DATA", d) /\ a[j].payload = k + 1
    <3>1. CASE k = n
      BY <1>1, <1>4, <1>9, <3>1
    <3>2. CASE k < n
      BY <1>1, <1>2, <2>1, <3>2
    <3> QED BY <2>1, <3>1, <3>2
  <2>3. \A j \in 1 .. Len(s) + 1 : P!IsFor(a[j], "DATA", d) => a[j].payload > k
    BY <1>1, <1>3, <1>9, <2>1
  <2> QED BY <1>1, <2>1, <2>2, <2>3 DEF P!Owed
<1>10. ASSUME P!Once(s, "CONNECT", d), ~(P!IsFor(m, "CONNECT", d) /\ P!On(s, "CONNECT", d))
       PROVE  P!Once(a, "CONNECT", d)
  BY <1>1, <1>3, <1>10 DEF P!Once, P!On
<1> QED BY <1>5, <1>6, <1>7, <1>8, <1>9, <1>10 DEF a

\* What taking the first message of a stream changes for channel d.
LEMMA Popped ==
    ASSUME NEW s \in Seq(P!Messages), s # <<>>, NEW d
    PROVE  /\ \A t : P!On(s, t, d) <=> P!IsFor(Head(s), t, d) \/ P!On(Tail(s), t, d)
           /\ \A n : P!InFlight(s, d, n) => P!InFlight(Tail(s), d, n)
           /\ ~P!IsFor(Head(s), "DATA", d) =>
                \A n, k : P!Owed(s, d, n, k) => P!Owed(Tail(s), d, n, k)
           /\ P!IsFor(Head(s), "DATA", d) => \A n \in Nat : P!InFlight(s, d, n) =>
                /\ P!Owed(Tail(s), d, n, Head(s).payload)
                /\ \A k \in Nat : P!Owed(s, d, n, k) => Head(s).payload = k + 1
           /\ P!Once(s, "CONNECT", d) =>
                /\ P!Once(Tail(s), "CONNECT", d)
                /\ P!IsFor(Head(s), "CONNECT", d) => ~P!On(Tail(s), "CONNECT", d)
<1> DEFINE b == Tail(s)
<1>1. /\ Len(s) \in Nat /\ Len(s) >= 1 /\ Head(s) = s[1]
      /\ DOMAIN s = 1 .. Len(s) /\ DOMAIN b = 1 .. Len(s) - 1
      /\ \A i \in 1 .. Len(s) - 1 : b[i] = s[i + 1]
  BY TailIndex
<1>2. \A i \in 1 .. Len(s) - 1 : i + 1 \in 1 .. Len(s) /\ i + 1 > 1
  BY <1>1
<1>3. \A i \in 1 .. Len(s) : i = 1 \/ (i - 1 \in 1 .. Len(s) - 1 /\ b[i - 1] = s[i])
  BY <1>1
<1> HIDE DEF b
<1>4. \A t : P!On(s, t, d) <=> P!IsFor(Head(s), t, d) \/ P!On(b, t, d)
  <2> TAKE t
  <2>1. ASSUME P!On(s, t, d), ~P!IsFor(Head(s), t, d) PROVE P!On(b, t, d)
    <3>1. PICK i \in 1 .. Len(s) : P!IsFor(s[i], t, d)
      BY <1>1, <2>1 DEF P!On
    <3>2. i - 1 \in 1 .. Len(s) - 1 /\ P!IsFor(b[i - 1], t, d)
      BY <1>1, <1>3, <2>1, <3>1
    <3> QED BY <1>1, <3>2 DEF P!On
  <2>2. ASSUME P!IsFor(Head(s), t, d) PROVE P!On(s, t, d)
    <3>1. 1 \in 1 .. Len(s)
      BY <1>1
    <3> QED BY <1>1, <2>2, <3>1 DEF P!On
  <2>3. ASSUME P!On(b, t, d) PROVE P!On(s, t, d)
    <3>1. PICK i \in 1 .. Len(s) - 1 : P!IsFor(b[i], t, d)
      BY <1>1, <2>3 DEF P!On
    <3>2. i + 1 \in 1 .. Len(s) /\ P!IsFor(s[i + 1], t, d)
      BY <1>1, <1>2, <3>1
    <3> QED BY <1>1, <3>2 DEF P!On
  <2> QED BY <2>1, <2>2, <2>3
<1>5. ASSUME NEW n, P!InFlight(s, d, n) PROVE P!InFlight(b, d, n)
  <2> SUFFICES ASSUME NEW i \in 1 .. Len(s) - 1, P!IsFor(b[i], "DATA", d)
      PROVE  /\ b[i].payload \in 1 .. n
             /\ b[i].payload < n => \E j \in 1 .. Len(s) - 1 :
                  j > i /\ P!IsFor(b[j], "DATA", d) /\ b[j].payload = b[i].payload + 1
             /\ \A j \in 1 .. Len(s) - 1 :
                  j > i /\ P!IsFor(b[j], "DATA", d) => b[j].payload > b[i].payload
    BY <1>1 DEF P!InFlight
  <2>1. /\ s[i + 1].payload \in 1 .. n
        /\ s[i + 1].payload < n => \E j \in 1 .. Len(s) :
             j > i + 1 /\ P!IsFor(s[j], "DATA", d) /\ s[j].payload = s[i + 1].payload + 1
        /\ \A j \in 1 .. Len(s) :
             j > i + 1 /\ P!IsFor(s[j], "DATA", d) => s[j].payload > s[i + 1].payload
    BY <1>1, <1>2, <1>5 DEF P!InFlight
  <2>2. s[i + 1].payload < n => \E j \in 1 .. Len(s) - 1 :
          j > i /\ P!IsFor(b[j], "DATA", d) /\ b[j].payload = s[i + 1].payload + 1
    <3> SUFFICES ASSUME s[i + 1].payload < n
        PROVE  \E j \in 1 .. Len(s) - 1 :
                 j > i /\ P!IsFor(b[j], "DATA", d) /\ b[j].payload = s[i + 1].payload + 1
      OBVIOUS
    <3>1. PICK j \in 1 .. Len(s) :
            j > i + 1 /\ P!IsFor(s[j], "DATA", d) /\ s[j].payload = s[i + 1].payload + 1
      BY <2>1
    <3>2. j - 1 \in 1 .. Len(s) - 1 /\ j - 1 > i /\ b[j - 1] = s[j]
      BY <1>1, <1>3, <3>1
    <3> QED BY <3>1, <3>2
  <2>3. \A j \in 1 .. Len(s) - 1 :
          j > i /\ P!IsFor(b[j], "DATA", d) => b[j].payload > s[i + 1].payload
    BY <1>1, <1>2, <2>1
  <2> QED BY <1>1, <2>1, <2>2, <2>3
<1>6. ASSUME ~P!IsFor(Head(s), "DATA", d), NEW n, NEW k, P!Owed(s, d, n, k)
      PROVE  P!Owed(b, d, n, k)
  <2>1. /\ k <= n
        /\ k < n => \E j \in 1 .. Len(s) : P!IsFor(s[j], "DATA", d) /\ s[j].payload = k + 1
        /\ \A j \in 1 .. Len(s) : P!IsFor(s[j], "DATA", d) => s[j].payload > k
    BY <1>1, <1>6 DEF P!Owed
  <2>2. k < n => \E j \in 1 .. Len(s) - 1 : P!IsFor(b[j], "DATA", d) /\ b[j].payload = k + 1
    BY <1>1, <1>3, <1>6, <2>1
  <2>3. \A j \in 1 .. Len(s) - 1 : P!IsFor(b[j], "DATA", d) => b[j].payload > k
    BY <1>1, <1>2, <2>1
  <2> QED BY <1>1, <2>1, <2>2, <2>3 DEF P!Owed
<1>7. ASSUME P!IsFor(Head(s), "DATA", d), NEW n \in Nat, P!InFlight(s, d, n)
      PROVE  /\ P!Owed(b, d, n, Head(s).payload)
             /\ \A k \in Nat : P!Owed(s, d, n, k) => Head(s).payload = k + 1
  <2> DEFINE p == s[1].payload
  <2>1. /\ p \in 1 .. n
        /\ p < n => \E j \in 1 .. Len(s) :
             j > 1 /\ P!IsFor(s[j], "DATA", d) /\ s[j].payload = p + 1
        /\ \A j \in 1 .. Len(s) : j > 1 /\ P!IsFor(s[j], "DATA", d) => s[j].payload > p
    <3>1. 1 \in DOMAIN s /\ P!IsFor(s[1], "DATA", d)
      BY <1>1, <1>7
    <3>2. /\ p \in 1 .. n
          /\ p < n => \E j \in DOMAIN s :
               j > 1 /\ P!IsFor(s[j], "DATA", d) /\ s[j].payload = p + 1
          /\ \A j \in DOMAIN s : j > 1 /\ P!IsFor(s[j], "DATA", d) => s[j].payload > p
      BY <1>7, <3>1 DEF P!InFlight
    <3> QED BY <1>1, <3>2
  <2>2. p < n => \E j \in 1 .. Len(s) - 1 : P!IsFor(b[j], "DATA", d) /\ b[j].payload = p + 1
    <3> SUFFICES ASSUME p < n
        PROVE  \E j \in 1 .. Len(s) - 1 : P!IsFor(b[j], "DATA", d) /\ b[j].payload = p + 1
      OBVIOUS
    <3>1. PICK j \in 1 .. Len(s) : j > 1 /\ P!IsFor(s[j], "DATA", d) /\ s[j].payload = p + 1
      BY <2>1
    <3>2. j - 1 \in 1 .. Len(s) - 1 /\ b[j - 1] = s[j]
      BY <1>1, <1>3, <3>1
    <3> QED BY <3>1, <3>2
  <2>3. \A j \in 1 .. Len(s) - 1 : P!IsFor(b[j], "DATA", d) => b[j].payload > p
    BY <1>1, <1>2, <2>1
  <2>4. P!Owed(b, d, n, p)
    BY SMTT(30), <1>1, <2>1, <2>2, <2>3 DEF P!Owed
  <2>5. ASSUME NEW k \in Nat, P!Owed(s, d, n, k) PROVE p = k + 1
    <3>1. p > k
      BY <1>1, <1>7, <2>5 DEF P!Owed
    <3>2. PICK j \in 1 .. Len(s) : P!IsFor(s[j], "DATA", d) /\ s[j].payload = k + 1
      BY <1>1, <2>1, <2>5, <3>1 DEF P!Owed
    <3>3. CASE j = 1
      BY <3>2, <3>3
    <3>4. CASE j > 1
      BY <2>1, <3>1, <3>2, <3>4
    <3> QED BY <3>3, <3>4
  <2> QED BY <1>1, <2>4, <2>5
<1>8. ASSUME P!Once(s, "CONNECT", d)
      PROVE  /\ P!Once(b, "CONNECT", d)
             /\ P!IsFor(Head(s), "CONNECT", d) => ~P!On(b, "CONNECT", d)
  <2>1. \A i, j \in 1 .. Len(s) :
          P!IsFor(s[i], "CONNECT", d) /\ P!IsFor(s[j], "CONNECT", d) => i = j
    BY <1>1, <1>8 DEF P!Once
  <2>2. P!Once(b, "CONNECT", d)
    <3> SUFFICES ASSUME NEW i \in 1 .. Len(s) - 1, NEW j \in 1 .. Len(s) - 1,
                        P!IsFor(b[i], "CONNECT", d), P!IsFor(b[j], "CONNECT", d)
        PROVE  i = j
      BY <1>1 DEF P!Once
    <3>1. i + 1 = j + 1
      BY <1>1, <1>2, <2>1
    <3> QED BY <3>1
  <2>3. ASSUME P!IsFor(Head(s), "CONNECT", d), P!On(b, "CONNECT", d) PROVE FALSE
    <3>1. PICK i \in 1 .. Len(s) - 1 : P!IsFor(b[i], "CONNECT", d)
      BY <1>1, <2>3 DEF P!On
    <3>2. 1 \in 1 .. Len(s) /\ 1 = i + 1
      BY <1>1, <1>2, <2>1, <2>3, <3>1
    <3> QED BY <1>1, <3>2
  <2> QED BY <2>2, <2>3
<1> QED BY <1>4, <1>5, <1>6, <1>7, <1>8 DEF b
LEMMA ProxyMessages ==
    ASSUME NEW t \in {"CONNECT", "OK", "FAIL", "DATA", "CLOSE"}, NEW c \in Channels, NEW n \in Nat
    PROVE  /\ P!Msg(t, c, n) \in P!Messages /\ P!Msg(t, c, n).payload = n
           /\ \A u, d : P!IsFor(P!Msg(t, c, n), u, d) <=> u = t /\ d = c
  BY DEF P!Msg, P!Messages, P!IsFor

LEMMA ProxyTypes == ASSUME P!TypeOK, P!Next PROVE P!TypeOK'
<1> PICK c \in Channels :
      \/ P!Connect(c) \/ P!Resume(c) \/ P!ConnectTimeout(c) \/ P!Register(c) \/ P!ReplyFails(c)
      \/ P!SendUp(c) \/ P!EndSession(c) \/ P!HandleAnswer(c) \/ P!HandleDown(c) \/ P!HandleClose(c)
      \/ P!PeerConnect(c) \/ P!PeerAnswer(c) \/ P!PeerData(c) \/ P!PeerClose(c) \/ P!SendDown(c)
      \/ P!EndTarget(c)
  BY DEF P!Next
<1> USE DEF P!TypeOK
<1>1. CASE P!Connect(c)
  <2>1. Append(toPeer, P!Msg("CONNECT", c, 0)) \in Seq(P!Messages)
    BY ProxyMessages, AppendProperties
  <2> QED BY <1>1, <2>1 DEF P!Connect, P!payloads
<1>2. CASE P!Resume(c) \/ P!ConnectTimeout(c) \/ P!Register(c) \/ P!ReplyFails(c)
  BY <1>2 DEF P!Resume, P!ConnectTimeout, P!Register, P!ReplyFails, P!streams, P!payloads
<1>3. CASE P!SendUp(c)
  <2>1. sentUp[c] + 1 \in Nat
    OBVIOUS
  <2>2. Append(toPeer, P!Msg("DATA", c, sentUp[c] + 1)) \in Seq(P!Messages)
    BY <2>1, ProxyMessages, AppendProperties
  <2> QED BY <1>3, <2>1, <2>2 DEF P!SendUp, P!client
<1>4. CASE P!EndSession(c)
  <2>1. toPeer \o P!CloseMessage(c) \in Seq(P!Messages)
    BY ProxyMessages, AppendProperties, AppendIsConcat DEF P!CloseMessage
  <2> QED BY <1>4, <2>1 DEF P!EndSession, P!payloads
<1>5. CASE P!HandleAnswer(c)
  <2>1. toClient # <<>> /\ Tail(toClient) \in Seq(P!Messages)
    BY <1>5, HeadTailProperties DEF P!HandleAnswer, P!FromPeer
  <2> QED BY <1>5, <2>1 DEF P!HandleAnswer, P!FromPeer, P!payloads
<1>6. CASE P!HandleDown(c)
  <2>1. toClient # <<>> /\ Tail(toClient) \in Seq(P!Messages) /\ Head(toClient) \in P!Messages
    BY <1>6, HeadTailProperties DEF P!HandleDown, P!FromPeer
  <2>2. <<c, Head(toClient).payload>> \in Channels \X Nat
    BY <2>1 DEF P!Messages
  <2>3. \A d \in Channels :
          Append(gotDown[d], <<c, Head(toClient).payload>>) \in Seq(Channels \X Nat)
    BY <2>2, AppendProperties
  <2>4. gotDown' \in [Channels -> Seq(Channels \X Nat)]
    BY <1>6, <2>3 DEF P!HandleDown
  <2> QED BY <1>6, <2>1, <2>4 DEF P!HandleDown, P!FromPeer
<1>7. CASE P!HandleClose(c)
  <2>1. toClient # <<>> /\ Tail(toClient) \in Seq(P!Messages)
    BY <1>7, HeadTailProperties DEF P!HandleClose, P!FromPeer
  <2> QED BY <1>7, <2>1 DEF P!HandleClose, P!FromPeer, P!payloads
<1>8. CASE P!PeerConnect(c) \/ P!PeerClose(c)
  <2>1. toPeer # <<>> /\ Tail(toPeer) \in Seq(P!Messages)
    BY <1>8, HeadTailProperties DEF P!PeerConnect, P!PeerClose, P!FromClient
  <2> QED BY ZenonT(60), <1>8, <2>1 DEF P!PeerConnect, P!PeerClose, P!FromClient, P!payloads, P!client
<1>9. CASE P!PeerData(c)
  <2>1. toPeer # <<>> /\ Tail(toPeer) \in Seq(P!Messages) /\ Head(toPeer) \in P!Messages
    BY <1>9, HeadTailProperties DEF P!PeerData, P!FromClient
  <2>2. Append(gotUp[c], Head(toPeer).payload) \in Seq(Nat)
    BY <2>1, AppendProperties DEF P!Messages
  <2>3. gotUp' \in [Channels -> Seq(Nat)]
    BY <1>9, <2>2 DEF P!PeerData
  <2> QED BY <1>9, <2>1, <2>3 DEF P!PeerData, P!FromClient, P!client
<1>10. CASE P!PeerAnswer(c)
  <2>1. /\ Append(toClient, P!Msg("OK", c, 0)) \in Seq(P!Messages)
        /\ Append(toClient, P!Msg("FAIL", c, 0)) \in Seq(P!Messages)
    BY ProxyMessages, AppendProperties
  <2> QED BY <1>10, <2>1 DEF P!PeerAnswer, P!client, P!payloads
<1>11. CASE P!SendDown(c)
  <2>1. sentDown[c] + 1 \in Nat
    OBVIOUS
  <2>2. Append(toClient, P!Msg("DATA", c, sentDown[c] + 1)) \in Seq(P!Messages)
    BY <2>1, ProxyMessages, AppendProperties
  <2> QED BY <1>11, <2>1, <2>2 DEF P!SendDown, P!client
<1>12. CASE P!EndTarget(c)
  <2>1. Append(toClient, P!Msg("CLOSE", c, 0)) \in Seq(P!Messages)
    BY ProxyMessages, AppendProperties
  <2> QED BY <1>12, <2>1 DEF P!EndTarget, P!client, P!payloads
<1> QED
  BY <1>1, <1>2, <1>3, <1>4, <1>5, <1>6, <1>7, <1>8, <1>9, <1>10, <1>11, <1>12

\* Flow, Handshake and Told of a channel: what a step has to keep.
LEMMA ProxyLocal ==
    ASSUME P!ProxyInv, NEW c \in Channels,
           P!Resume(c) \/ P!ConnectTimeout(c) \/ P!Register(c) \/ P!ReplyFails(c), NEW d \in Channels
    PROVE  P!Flow(d)' /\ P!Handshake(d)' /\ P!Told(d)'
<1>1. UNCHANGED <<target, toPeer, toClient, sentUp, sentDown, gotUp, gotDown, result>>
  BY DEF P!Resume, P!ConnectTimeout, P!Register, P!ReplyFails, P!streams, P!payloads
<1>2. P!TypeOK /\ P!Flow(d) /\ P!Handshake(d) /\ P!Told(d)
  BY DEF P!ProxyInv
<1>3. CASE d # c
  <2>1. /\ session'[d] = session[d] /\ entry'[d] = entry[d]
    BY <1>2, <1>3 DEF P!Resume, P!ConnectTimeout, P!Register, P!ReplyFails, P!TypeOK
  <2> QED BY <1>1, <1>2, <2>1 DEF P!Flow, P!Handshake, P!Told, P!Opened
<1>4. CASE d = c
  <2>1. /\ session[c] \in {"connecting", "replying"}
        /\ session'[c] \in {"closed", "replying", "forwarding"}
        /\ session'[c] = "replying" => result[c] = "ok"
        /\ session'[c] = "forwarding" => session[c] = "replying"
        /\ entry'[c] \in {entry[c], "none", "writer"}
        /\ entry'[c] = "writer" => session'[c] = "forwarding" /\ gotDown[c] = <<>>
        /\ session'[c] = "forwarding" => entry'[c] = "writer"
        /\ entry'[c] # "none" => entry[c] # "none"
    <3>1. session[c] # "forwarding" /\ session[c] # "ended" => entry[c] # "writer" /\ gotDown[c] = <<>>
      BY <1>2, <1>4 DEF P!Flow
    <3>2. CASE P!Resume(c)
      BY <1>2, <3>1, <3>2 DEF P!Resume, P!TypeOK
    <3>3. CASE P!ConnectTimeout(c)
      BY <1>2, <3>1, <3>3 DEF P!ConnectTimeout, P!TypeOK
    <3>4. CASE P!Register(c)
      BY <1>2, <3>1, <3>4 DEF P!Register, P!TypeOK
    <3>5. CASE P!ReplyFails(c)
      BY <1>2, <3>1, <3>5 DEF P!ReplyFails, P!TypeOK
    <3> QED BY <3>2, <3>3, <3>4, <3>5
  <2>2. P!Flow(c)'
    BY <1>1, <1>2, <1>4, <2>1 DEF P!Flow, P!Opened
  <2>3. P!Handshake(c)'
    BY <1>1, <1>2, <1>4, <2>1 DEF P!Handshake, P!Opened
  <2>4. P!Told(c)'
    BY <1>1, <1>2, <1>4, <2>1 DEF P!Told, P!Handshake, P!Opened
  <2> QED BY <1>4, <2>2, <2>3, <2>4
<1> QED BY <1>3, <1>4
LEMMA ProxyConnect ==
    ASSUME P!ProxyInv, NEW c \in Channels, P!Connect(c), NEW d \in Channels
    PROVE  P!Flow(d)' /\ P!Handshake(d)' /\ P!Told(d)'
<1>1. P!TypeOK /\ P!Flow(d) /\ P!Handshake(d) /\ P!Told(d)
  BY DEF P!ProxyInv
<1>2. /\ UNCHANGED <<target, toClient, sentUp, sentDown, gotUp, gotDown, result>>
      /\ session[c] = "new"
  BY DEF P!Connect, P!payloads
<1>3. CASE /\ session' = [session EXCEPT ![c] = "closed"]
           /\ UNCHANGED <<entry, toPeer>>
  <2>1. IF d = c THEN session'[d] = "closed" ELSE session'[d] = session[d]
    BY <1>1, <1>3 DEF P!TypeOK
  <2> QED BY <1>1, <1>2, <1>3, <2>1 DEF P!Flow, P!Handshake, P!Told, P!Opened
<1>4. CASE /\ session' = [session EXCEPT ![c] = "connecting"]
           /\ entry' = [entry EXCEPT ![c] = "pending"]
           /\ toPeer' = Append(toPeer, P!Msg("CONNECT", c, 0))
  <2> DEFINE m == P!Msg("CONNECT", c, 0)
  <2>1. m \in P!Messages /\ \A u, e : P!IsFor(m, u, e) <=> u = "CONNECT" /\ e = c
    BY ProxyMessages
  <2>2. toPeer \in Seq(P!Messages)
    BY <1>1 DEF P!TypeOK
  <2> HIDE DEF m
  <2>3. /\ \A t : P!On(toPeer', t, d) <=> P!On(toPeer, t, d) \/ P!IsFor(m, t, d)
        /\ \A n : P!InFlight(toPeer, d, n) => P!InFlight(toPeer', d, n)
        /\ \A n, k : P!Owed(toPeer, d, n, k) => P!Owed(toPeer', d, n, k)
        /\ P!Once(toPeer, "CONNECT", d) /\ ~(P!IsFor(m, "CONNECT", d) /\ P!On(toPeer, "CONNECT", d)) =>
             P!Once(toPeer', "CONNECT", d)
    BY <1>4, <2>1, <2>2, Appended DEF m
  <2>4. CASE d # c
    <3>1. /\ session'[d] = session[d] /\ entry'[d] = entry[d]
          /\ \A t : P!On(toPeer', t, d) <=> P!On(toPeer, t, d)
      BY <1>1, <1>4, <2>1, <2>3, <2>4 DEF P!TypeOK
    <3> QED BY <1>1, <1>2, <2>1, <2>3, <2>4, <3>1 DEF P!Flow, P!Handshake, P!Told, P!Opened
  <2>5. CASE d = c
    <3>1. /\ session'[c] = "connecting" /\ entry'[c] = "pending"
          /\ \A t : P!On(toPeer', t, c) <=> P!On(toPeer, t, c) \/ t = "CONNECT"
      BY <1>1, <1>4, <2>1, <2>3, <2>5 DEF P!TypeOK
    <3>2. target[c] = "none" /\ ~P!On(toPeer, "CONNECT", c) /\ gotDown[c] = <<>>
      BY <1>1, <1>2, <2>5 DEF P!Flow, P!Handshake
    <3> QED BY <1>1, <1>2, <2>1, <2>3, <2>5, <3>1, <3>2 DEF P!Flow, P!Handshake, P!Told, P!Opened
  <2> QED BY <2>4, <2>5
<1> QED BY <1>3, <1>4 DEF P!Connect

LEMMA ProxySendUp ==
    ASSUME P!ProxyInv, NEW c \in Channels, P!SendUp(c), NEW d \in Channels
    PROVE  P!Flow(d)' /\ P!Handshake(d)' /\ P!Told(d)'
<1> DEFINE m == P!Msg("DATA", c, sentUp[c] + 1)
<1>1. P!TypeOK /\ P!Flow(d) /\ P!Handshake(d) /\ P!Told(d) /\ P!Handshake(c)
  BY DEF P!ProxyInv
<1>2. /\ UNCHANGED <<target, toClient, sentDown, gotUp, gotDown, result, session, entry>>
      /\ session[c] = "forwarding" /\ toPeer' = Append(toPeer, m)
      /\ sentUp[c] \in Nat
      /\ IF d = c THEN sentUp'[d] = sentUp[c] + 1 ELSE sentUp'[d] = sentUp[d]
  BY <1>1 DEF P!SendUp, P!client, P!TypeOK
<1>3. /\ m \in P!Messages /\ m.payload = sentUp[c] + 1
      /\ \A u, e : P!IsFor(m, u, e) <=> u = "DATA" /\ e = c
  BY <1>2, ProxyMessages
<1>4. toPeer \in Seq(P!Messages)
  BY <1>1 DEF P!TypeOK
<1> HIDE DEF m
<1>5. /\ \A t : t # "DATA" => (P!On(toPeer', t, d) <=> P!On(toPeer, t, d))
      /\ P!Once(toPeer, "CONNECT", d) => P!Once(toPeer', "CONNECT", d)
  BY <1>2, <1>3, <1>4, Appended
<1>6. CASE d # c
  <2>1. /\ \A n : P!InFlight(toPeer, d, n) => P!InFlight(toPeer', d, n)
        /\ \A n, k : P!Owed(toPeer, d, n, k) => P!Owed(toPeer', d, n, k)
    BY <1>2, <1>3, <1>4, <1>6, Appended
  <2> QED BY <1>1, <1>2, <1>5, <1>6, <2>1 DEF P!Flow, P!Handshake, P!Told, P!Opened
<1>7. CASE d = c
  <2>1. /\ P!InFlight(toPeer, c, sentUp[c]) => P!InFlight(toPeer', c, sentUp[c] + 1)
        /\ \A k \in Nat : P!Owed(toPeer, c, sentUp[c], k) => P!Owed(toPeer', c, sentUp[c] + 1, k)
    BY <1>2, <1>3, <1>4, Appended
  <2>2. P!Opened(c) /\ Len(gotUp[c]) \in Nat
    BY <1>1, <1>2, LenProperties DEF P!Handshake, P!TypeOK
  <2> QED BY <1>1, <1>2, <1>5, <1>7, <2>1, <2>2 DEF P!Flow, P!Handshake, P!Told, P!Opened
<1> QED BY <1>6, <1>7

LEMMA ProxyEndSession ==
    ASSUME P!ProxyInv, NEW c \in Channels, P!EndSession(c), NEW d \in Channels
    PROVE  P!Flow(d)' /\ P!Handshake(d)' /\ P!Told(d)'
<1> DEFINE m == P!Msg("CLOSE", c, 0)
<1>1. P!TypeOK /\ P!Flow(d) /\ P!Handshake(d) /\ P!Told(d) /\ P!Handshake(c)
  BY DEF P!ProxyInv
<1>2. /\ m \in P!Messages
      /\ \A u, e : P!IsFor(m, u, e) <=> u = "CLOSE" /\ e = c
  BY ProxyMessages
<1>3. toPeer \in Seq(P!Messages)
  BY <1>1 DEF P!TypeOK
<1>4. /\ UNCHANGED <<target, toClient, sentUp, sentDown, gotUp, gotDown, result>>
      /\ session[c] = "forwarding" /\ toPeer' = Append(toPeer, m)
      /\ IF d = c THEN session'[d] = "ended" /\ entry'[d] = "none"
         ELSE session'[d] = session[d] /\ entry'[d] = entry[d]
  BY <1>1, <1>2, <1>3, AppendIsConcat DEF P!EndSession, P!CloseMessage, P!payloads, P!TypeOK
<1> HIDE DEF m
<1>5. /\ \A t : P!On(toPeer', t, d) <=> P!On(toPeer, t, d) \/ (t = "CLOSE" /\ d = c)
      /\ P!Once(toPeer, "CONNECT", d) => P!Once(toPeer', "CONNECT", d)
      /\ \A n : P!InFlight(toPeer, d, n) => P!InFlight(toPeer', d, n)
      /\ \A n, k : P!Owed(toPeer, d, n, k) => P!Owed(toPeer', d, n, k)
  BY <1>2, <1>3, <1>4, Appended
<1>6. P!Opened(c)
  BY <1>1, <1>4 DEF P!Handshake
<1> QED BY <1>1, <1>4, <1>5, <1>6 DEF P!Flow, P!Handshake, P!Told, P!Opened

LEMMA ProxyPopClient ==
    ASSUME P!ProxyInv, NEW c \in Channels, NEW type, P!FromPeer(type, c)
    PROVE  /\ toClient # <<>> /\ toClient \in Seq(P!Messages) /\ toClient' = Tail(toClient)
           /\ UNCHANGED <<toPeer, target, session>>
           /\ Head(toClient) \in P!Messages
           /\ \A t, d : P!IsFor(Head(toClient), t, d) <=> t = type /\ d = c
           /\ P!TypeOK /\ \A d \in Channels : P!Flow(d) /\ P!Handshake(d) /\ P!Told(d)
<1>1. toClient # <<>> /\ toClient \in Seq(P!Messages)
  BY DEF P!FromPeer, P!ProxyInv, P!TypeOK
<1> QED BY <1>1, HeadTailProperties DEF P!FromPeer, P!ProxyInv, P!IsFor

LEMMA ProxyAnswer ==
    ASSUME P!ProxyInv, NEW c \in Channels, P!HandleAnswer(c) \/ P!HandleClose(c), NEW d \in Channels
    PROVE  P!Flow(d)' /\ P!Handshake(d)' /\ P!Told(d)'
<1> PICK type \in {"OK", "FAIL", "CLOSE"} :
      /\ P!FromPeer(type, c)
      /\ type # "CLOSE" => P!HandleAnswer(c)
      /\ type = "CLOSE" => P!HandleClose(c)
  BY DEF P!HandleAnswer, P!HandleClose
<1>1. /\ UNCHANGED <<target, toPeer, session, sentUp, sentDown, gotUp, gotDown>>
      /\ P!TypeOK /\ P!Flow(d) /\ P!Handshake(d) /\ P!Told(d)
  BY ProxyPopClient DEF P!HandleAnswer, P!HandleClose, P!payloads
<1>2. /\ \A t : P!On(toClient', t, d) => P!On(toClient, t, d)
      /\ d = c => P!On(toClient, type, d)
      /\ \A t : P!On(toClient, t, d) => P!On(toClient', t, d) \/ (d = c /\ t = type)
      /\ \A n : P!InFlight(toClient, d, n) => P!InFlight(toClient', d, n)
      /\ \A n, k : P!Owed(toClient, d, n, k) => P!Owed(toClient', d, n, k)
  <2>1. /\ toClient # <<>> /\ toClient \in Seq(P!Messages) /\ toClient' = Tail(toClient)
        /\ \A t, e : P!IsFor(Head(toClient), t, e) <=> t = type /\ e = c
        /\ type # "DATA"
    BY ProxyPopClient
  <2> QED BY <2>1, Popped
<1>3. /\ result'[d] = IF d = c /\ type = "OK" /\ entry[d] # "none" THEN "ok"
                      ELSE IF d = c /\ type = "FAIL" /\ entry[d] # "none" THEN "fail" ELSE result[d]
      /\ entry'[d] = IF d = c /\ type = "CLOSE" THEN "none" ELSE entry[d]
  <2>1. CASE type = "CLOSE"
    BY <1>1, <2>1 DEF P!HandleClose, P!TypeOK
  <2>2. CASE type = "OK"
    BY <1>1, <2>2, ProxyPopClient DEF P!HandleAnswer, P!TypeOK, P!FromPeer
  <2>3. CASE type = "FAIL"
    BY <1>1, <2>3, ProxyPopClient DEF P!HandleAnswer, P!TypeOK, P!FromPeer
  <2> QED BY <2>1, <2>2, <2>3
<1>4. P!Flow(d)'
  BY <1>1, <1>2, <1>3 DEF P!Flow, P!Opened
<1>5. P!Handshake(d)'
  BY <1>1, <1>2, <1>3 DEF P!Handshake, P!Opened
<1>6. P!Told(d)'
  BY <1>1, <1>2, <1>3 DEF P!Told, P!Handshake, P!Opened
<1> QED BY <1>4, <1>5, <1>6
LEMMA ProxyHandleDown ==
    ASSUME P!ProxyInv, NEW c \in Channels, P!HandleDown(c), NEW d \in Channels
    PROVE  /\ P!Flow(d)' /\ P!Handshake(d)' /\ P!Told(d)'
           /\ \/ gotDown'[d] = gotDown[d]
              \/ \E n \in Nat :
                   /\ gotDown'[d] = Append(gotDown[d], <<d, n>>)
                   /\ gotDown[d] # <<>> => n = gotDown[d][Len(gotDown[d])][2] + 1
<1>1. /\ toClient # <<>> /\ toClient \in Seq(P!Messages) /\ toClient' = Tail(toClient)
      /\ Head(toClient) \in P!Messages
      /\ \A t, e : P!IsFor(Head(toClient), t, e) <=> t = "DATA" /\ e = c
      /\ P!TypeOK /\ P!Flow(d) /\ P!Handshake(d) /\ P!Told(d)
      /\ UNCHANGED <<target, toPeer, session, sentUp, sentDown, gotUp, entry, result>>
  BY ProxyPopClient DEF P!HandleDown
<1> DEFINE n == Head(toClient).payload
<1>2. n \in Nat
  BY <1>1 DEF P!Messages
<1>3. /\ \A t : P!On(toClient', t, d) => P!On(toClient, t, d)
      /\ \A t : t # "DATA" => (P!On(toClient', t, d) <=> P!On(toClient, t, d))
      /\ \A s : P!InFlight(toClient, d, s) => P!InFlight(toClient', d, s)
      /\ d # c => \A s, k : P!Owed(toClient, d, s, k) => P!Owed(toClient', d, s, k)
      /\ d = c => \A s \in Nat : P!InFlight(toClient, d, s) =>
           /\ P!Owed(toClient', d, s, n)
           /\ \A k \in Nat : P!Owed(toClient, d, s, k) => n = k + 1
  BY <1>1, Popped
<1>4. /\ gotDown[d] \in Seq(Channels \X Nat) /\ sentDown[d] \in Nat
      /\ gotDown'[d] = IF d = c /\ entry[d] = "writer" THEN Append(gotDown[d], <<d, n>>)
                       ELSE gotDown[d]
  BY <1>1 DEF P!HandleDown, P!Writers, P!TypeOK
<1>5. P!Handshake(d)' /\ P!Told(d)'
  BY <1>1, <1>3 DEF P!Handshake, P!Told, P!Opened
<1>6. CASE d = c /\ entry[d] = "writer"
  <2>1. <<d, n>> \in Channels \X Nat
    BY <1>2
  <2>2. gotDown'[d] # <<>> /\ gotDown'[d][Len(gotDown'[d])] = <<d, n>>
    <3>1. /\ Len(gotDown'[d]) = Len(gotDown[d]) + 1 /\ gotDown'[d] # <<>>
          /\ gotDown'[d][Len(gotDown[d]) + 1] = <<d, n>>
      BY <1>4, <1>6, <2>1, AppendIndex
    <3> QED BY <3>1
  <2>3. gotDown'[d][Len(gotDown'[d])][2] = n
    BY <2>2
  <2>4. gotDown[d] # <<>> => n = gotDown[d][Len(gotDown[d])][2] + 1
    <3> SUFFICES ASSUME gotDown[d] # <<>> PROVE n = gotDown[d][Len(gotDown[d])][2] + 1
      OBVIOUS
    <3>1. gotDown[d][Len(gotDown[d])] \in Channels \X Nat
      BY <1>4, LastInSeq
    <3>2. gotDown[d][Len(gotDown[d])][2] \in Nat
      BY <3>1
    <3>3. /\ P!InFlight(toClient, d, sentDown[d])
          /\ P!Owed(toClient, d, sentDown[d], gotDown[d][Len(gotDown[d])][2])
      BY <1>1, <1>6 DEF P!Flow
    <3> QED BY <1>3, <1>4, <1>6, <3>2, <3>3
  <2>5. P!Flow(d)'
    BY <1>1, <1>3, <1>4, <1>6, <2>2, <2>3 DEF P!Flow, P!Opened
  <2> QED BY <1>2, <1>4, <1>5, <1>6, <2>4, <2>5
<1>7. CASE ~(d = c /\ entry[d] = "writer")
  BY <1>1, <1>3, <1>4, <1>5, <1>7 DEF P!Flow, P!Opened
<1> QED BY <1>6, <1>7

LEMMA ProxyPopPeer ==
    ASSUME P!ProxyInv, NEW c \in Channels, NEW type, P!FromClient(type, c)
    PROVE  /\ toPeer # <<>> /\ toPeer \in Seq(P!Messages) /\ toPeer' = Tail(toPeer)
           /\ UNCHANGED <<toClient, session, entry, result>>
           /\ Head(toPeer) \in P!Messages
           /\ \A t, d : P!IsFor(Head(toPeer), t, d) <=> t = type /\ d = c
           /\ P!TypeOK /\ \A d \in Channels : P!Flow(d) /\ P!Handshake(d) /\ P!Told(d)
<1>1. toPeer # <<>> /\ toPeer \in Seq(P!Messages)
  BY DEF P!FromClient, P!ProxyInv, P!TypeOK
<1> QED BY <1>1, HeadTailProperties DEF P!FromClient, P!ProxyInv, P!IsFor, P!client

LEMMA ProxyPeer ==
    ASSUME P!ProxyInv, NEW c \in Channels, P!PeerConnect(c) \/ P!PeerClose(c), NEW d \in Channels
    PROVE  P!Flow(d)' /\ P!Handshake(d)' /\ P!Told(d)'
<1> PICK type \in {"CONNECT", "CLOSE"} :
      /\ P!FromClient(type, c)
      /\ type = "CONNECT" => P!PeerConnect(c)
      /\ type = "CLOSE" => P!PeerClose(c)
  BY DEF P!PeerConnect, P!PeerClose
<1>1. /\ toPeer # <<>> /\ toPeer \in Seq(P!Messages) /\ toPeer' = Tail(toPeer)
      /\ \A t, e : P!IsFor(Head(toPeer), t, e) <=> t = type /\ e = c
      /\ P!TypeOK /\ P!Flow(d) /\ P!Handshake(d) /\ P!Told(d)
      /\ UNCHANGED <<toClient, session, entry, result, sentUp, sentDown, gotUp, gotDown>>
  BY ProxyPopPeer DEF P!PeerConnect, P!PeerClose, P!payloads
<1>2. /\ \A t : P!On(toPeer, t, d) <=> P!On(toPeer', t, d) \/ (t = type /\ d = c)
      /\ \A n : P!InFlight(toPeer, d, n) => P!InFlight(toPeer', d, n)
      /\ \A n, k : P!Owed(toPeer, d, n, k) => P!Owed(toPeer', d, n, k)
      /\ P!Once(toPeer, "CONNECT", d) => P!Once(toPeer', "CONNECT", d)
      /\ P!Once(toPeer, "CONNECT", d) /\ d = c /\ type = "CONNECT" => ~P!On(toPeer', "CONNECT", d)
  <2>1. ~P!IsFor(Head(toPeer), "DATA", d)
    BY <1>1
  <2>2. \A t : P!On(toPeer, t, d) <=> P!IsFor(Head(toPeer), t, d) \/ P!On(toPeer', t, d)
    BY <1>1, Popped
  <2>3. /\ \A n : P!InFlight(toPeer, d, n) => P!InFlight(toPeer', d, n)
        /\ \A n, k : P!Owed(toPeer, d, n, k) => P!Owed(toPeer', d, n, k)
    BY <1>1, <2>1, Popped
  <2>4. P!Once(toPeer, "CONNECT", d) =>
          /\ P!Once(toPeer', "CONNECT", d)
          /\ P!IsFor(Head(toPeer), "CONNECT", d) => ~P!On(toPeer', "CONNECT", d)
    BY <1>1, Popped
  <2> QED BY <1>1, <2>2, <2>3, <2>4
<1>3. target'[d] = IF d # c THEN target[d] ELSE IF type = "CONNECT" THEN "connecting"
                  ELSE IF target[d] = "open" THEN "closing" ELSE target[d]
  BY <1>1 DEF P!PeerConnect, P!PeerClose, P!TypeOK
<1>4. P!Flow(d)'
  BY <1>1, <1>2, <1>3 DEF P!Flow, P!Opened, P!Handshake
<1>5. P!Handshake(d)'
  BY <1>1, <1>2, <1>3 DEF P!Handshake, P!Opened
<1>6. P!Told(d)'
  BY <1>1, <1>2, <1>3 DEF P!Told, P!Handshake, P!Opened
<1> QED BY <1>4, <1>5, <1>6

LEMMA ProxyPeerData ==
    ASSUME P!ProxyInv, NEW c \in Channels, P!PeerData(c), NEW d \in Channels
    PROVE  /\ P!Flow(d)' /\ P!Handshake(d)' /\ P!Told(d)'
           /\ \/ gotUp'[d] = gotUp[d]
              \/ gotUp'[d] = Append(gotUp[d], Len(gotUp[d]) + 1)
<1>1. /\ toPeer # <<>> /\ toPeer \in Seq(P!Messages) /\ toPeer' = Tail(toPeer)
      /\ Head(toPeer) \in P!Messages
      /\ \A t, e : P!IsFor(Head(toPeer), t, e) <=> t = "DATA" /\ e = c
      /\ P!TypeOK /\ P!Flow(d) /\ P!Handshake(d) /\ P!Told(d)
      /\ UNCHANGED <<toClient, session, entry, result, target, sentUp, sentDown, gotDown>>
  BY ProxyPopPeer DEF P!PeerData
<1> DEFINE n == Head(toPeer).payload
<1>2. n \in Nat
  BY <1>1 DEF P!Messages
<1>3. /\ \A t : P!On(toPeer', t, d) => P!On(toPeer, t, d)
      /\ \A t : t # "DATA" => (P!On(toPeer', t, d) <=> P!On(toPeer, t, d))
      /\ P!Once(toPeer, "CONNECT", d) => P!Once(toPeer', "CONNECT", d)
      /\ \A s : P!InFlight(toPeer, d, s) => P!InFlight(toPeer', d, s)
      /\ d # c => \A s, k : P!Owed(toPeer, d, s, k) => P!Owed(toPeer', d, s, k)
      /\ d = c => \A s \in Nat : P!InFlight(toPeer, d, s) =>
           /\ P!Owed(toPeer', d, s, n)
           /\ \A k \in Nat : P!Owed(toPeer, d, s, k) => n = k + 1
  <2>1. /\ \A t : P!On(toPeer, t, d) <=> P!IsFor(Head(toPeer), t, d) \/ P!On(toPeer', t, d)
        /\ P!Once(toPeer, "CONNECT", d) => P!Once(toPeer', "CONNECT", d)
        /\ \A s : P!InFlight(toPeer, d, s) => P!InFlight(toPeer', d, s)
    BY <1>1, Popped
  <2>2. d # c => \A s, k : P!Owed(toPeer, d, s, k) => P!Owed(toPeer', d, s, k)
    BY <1>1, Popped
  <2>3. d = c => \A s \in Nat : P!InFlight(toPeer, d, s) =>
          /\ P!Owed(toPeer', d, s, n)
          /\ \A k \in Nat : P!Owed(toPeer, d, s, k) => n = k + 1
    BY <1>1, Popped
  <2> QED BY <1>1, <2>1, <2>2, <2>3
<1>4. /\ gotUp[d] \in Seq(Nat) /\ sentUp[d] \in Nat /\ Len(gotUp[d]) \in Nat
      /\ gotUp'[d] = IF d = c /\ target[d] = "open" THEN Append(gotUp[d], n) ELSE gotUp[d]
  BY <1>1, LenProperties DEF P!PeerData, P!TypeOK
<1>5. P!Handshake(d)' /\ P!Told(d)'
  BY <1>1, <1>3 DEF P!Handshake, P!Told, P!Opened
<1>6. CASE d = c /\ target[d] = "open"
  <2>1. n = Len(gotUp[d]) + 1
    BY <1>1, <1>3, <1>4, <1>6 DEF P!Flow
  <2>2. Len(gotUp'[d]) = n
    BY <1>2, <1>4, <1>6, <2>1, AppendIndex
  <2>3. P!Flow(d)'
    BY <1>1, <1>3, <1>4, <1>6, <2>2 DEF P!Flow, P!Opened
  <2> QED BY <1>4, <1>5, <1>6, <2>1, <2>3
<1>7. CASE ~(d = c /\ target[d] = "open")
  BY <1>1, <1>3, <1>4, <1>5, <1>7 DEF P!Flow, P!Opened
<1> QED BY <1>6, <1>7

LEMMA ProxyAppendClient ==
    ASSUME P!ProxyInv, NEW c \in Channels, P!PeerAnswer(c) \/ P!EndTarget(c), NEW d \in Channels
    PROVE  P!Flow(d)' /\ P!Handshake(d)' /\ P!Told(d)'
<1>1. /\ P!TypeOK /\ P!Flow(d) /\ P!Handshake(d) /\ P!Told(d)
      /\ UNCHANGED <<toPeer, session, entry, result, sentUp, sentDown, gotUp, gotDown>>
  BY DEF P!ProxyInv, P!PeerAnswer, P!EndTarget, P!client, P!payloads
<1> PICK type \in {"OK", "FAIL", "CLOSE"} :
      /\ toClient' = Append(toClient, P!Msg(type, c, 0))
      /\ target' = [target EXCEPT ![c] = IF type = "OK" THEN "open" ELSE "closed"]
      /\ type # "CLOSE" => target[c] = "connecting"
      /\ type = "CLOSE" => target[c] \in {"open", "closing"}
  BY DEF P!PeerAnswer, P!EndTarget
<1> DEFINE m == P!Msg(type, c, 0)
<1>2. /\ m \in P!Messages /\ toClient \in Seq(P!Messages)
      /\ \A u, e : P!IsFor(m, u, e) <=> u = type /\ e = c
  BY <1>1, ProxyMessages DEF P!TypeOK
<1>3. toClient' = Append(toClient, m)
  OBVIOUS
<1> HIDE DEF m
<1>4. /\ \A t : P!On(toClient', t, d) <=> P!On(toClient, t, d) \/ (t = type /\ d = c)
      /\ \A n : P!InFlight(toClient, d, n) => P!InFlight(toClient', d, n)
      /\ \A n, k : P!Owed(toClient, d, n, k) => P!Owed(toClient', d, n, k)
  <2>1. ~P!IsFor(m, "DATA", d)
    BY <1>2
  <2>2. \A t : P!On(toClient', t, d) <=> P!On(toClient, t, d) \/ P!IsFor(m, t, d)
    BY <1>2, <1>3, Appended
  <2>3. /\ \A n : P!InFlight(toClient, d, n) => P!InFlight(toClient', d, n)
        /\ \A n, k : P!Owed(toClient, d, n, k) => P!Owed(toClient', d, n, k)
    BY <1>2, <1>3, <2>1, Appended
  <2> QED BY <1>2, <2>2, <2>3
<1>5. target'[d] = IF d # c THEN target[d] ELSE IF type = "OK" THEN "open" ELSE "closed"
  BY <1>1 DEF P!TypeOK
<1>6. CASE d # c
  BY <1>1, <1>4, <1>5, <1>6 DEF P!Flow, P!Opened, P!Handshake, P!Told
<1>7. CASE d = c
  <2>1. type = "OK" => /\ sentUp[d] = 0 /\ gotUp[d] = <<>> /\ P!Owed(toPeer, d, 0, 0)
    <3> SUFFICES ASSUME type = "OK" PROVE /\ sentUp[d] = 0 /\ gotUp[d] = <<>>
                                          /\ P!Owed(toPeer, d, 0, 0)
      OBVIOUS
    <3>1. ~P!Opened(d)
      BY <1>7 DEF P!Opened
    <3>2. sentUp[d] = 0 /\ gotUp[d] = <<>> /\ P!InFlight(toPeer, d, 0)
      BY <1>1, <3>1 DEF P!Flow, P!TypeOK
    <3>3. \A i \in DOMAIN toPeer : ~P!IsFor(toPeer[i], "DATA", d)
      BY <3>2 DEF P!InFlight
    <3> QED BY <3>2, <3>3 DEF P!Owed
  <2>2. P!Flow(d)'
    BY <1>1, <1>4, <1>5, <1>7, <2>1 DEF P!Flow, P!Opened
  <2>3. P!Handshake(d)'
    BY <1>1, <1>4, <1>5, <1>7 DEF P!Handshake, P!Opened
  <2>4. P!Told(d)'
    BY <1>1, <1>4, <1>5, <1>7 DEF P!Told, P!Handshake, P!Opened
  <2> QED BY <2>2, <2>3, <2>4
<1> QED BY <1>6, <1>7

LEMMA ProxySendDown ==
    ASSUME P!ProxyInv, NEW c \in Channels, P!SendDown(c), NEW d \in Channels
    PROVE  P!Flow(d)' /\ P!Handshake(d)' /\ P!Told(d)'
<1> DEFINE m == P!Msg("DATA", c, sentDown[c] + 1)
<1>1. P!TypeOK /\ P!Flow(d) /\ P!Handshake(d) /\ P!Told(d)
  BY DEF P!ProxyInv
<1>2. /\ UNCHANGED <<target, toPeer, sentUp, gotUp, gotDown, result, session, entry>>
      /\ toClient' = Append(toClient, m) /\ sentDown[c] \in Nat
      /\ IF d = c THEN sentDown'[d] = sentDown[c] + 1 ELSE sentDown'[d] = sentDown[d]
  BY <1>1 DEF P!SendDown, P!client, P!TypeOK
<1>3. /\ m \in P!Messages /\ m.payload = sentDown[c] + 1 /\ toClient \in Seq(P!Messages)
      /\ \A u, e : P!IsFor(m, u, e) <=> u = "DATA" /\ e = c
  BY <1>1, <1>2, ProxyMessages DEF P!TypeOK
<1> HIDE DEF m
<1>4. \A t : t # "DATA" => (P!On(toClient', t, d) <=> P!On(toClient, t, d))
  BY <1>2, <1>3, Appended
<1>5. P!Handshake(d)' /\ P!Told(d)'
  BY <1>1, <1>2, <1>4 DEF P!Handshake, P!Told, P!Opened
<1>6. CASE d # c
  <2>1. /\ \A n : P!InFlight(toClient, d, n) => P!InFlight(toClient', d, n)
        /\ \A n, k : P!Owed(toClient, d, n, k) => P!Owed(toClient', d, n, k)
    BY <1>2, <1>3, <1>6, Appended
  <2> QED BY <1>1, <1>2, <1>5, <1>6, <2>1 DEF P!Flow, P!Opened
<1>7. CASE d = c
  <2>1. /\ P!InFlight(toClient, c, sentDown[c]) => P!InFlight(toClient', c, sentDown[c] + 1)
        /\ \A k \in Nat : P!Owed(toClient, c, sentDown[c], k) => P!Owed(toClient', c, sentDown[c] + 1, k)
    BY <1>2, <1>3, Appended
  <2>2. gotDown[c] # <<>> => gotDown[c][Len(gotDown[c])][2] \in Nat
    <3>1. gotDown[c] # <<>> => gotDown[c][Len(gotDown[c])] \in Channels \X Nat
      BY <1>1, LastInSeq DEF P!TypeOK
    <3> QED BY <3>1
  <2> QED BY <1>1, <1>2, <1>5, <1>7, <2>1, <2>2 DEF P!Flow, P!Opened
<1> QED BY <1>6, <1>7
LEMMA ProxyInit == P!Init => P!ProxyInv
<1> SUFFICES ASSUME P!Init PROVE P!ProxyInv
  OBVIOUS
<1>1. /\ <<>> \in Seq(P!Messages) /\ <<>> \in Seq(Nat) /\ <<>> \in Seq(Channels \X Nat)
      /\ DOMAIN <<>> = {}
  BY EmptySeq
<1>2. P!TypeOK
  BY <1>1 DEF P!Init, P!TypeOK
<1>3. P!StreamsKept
  BY <1>1 DEF P!Init, P!StreamsKept
<1>4. ASSUME NEW c \in Channels PROVE P!Flow(c) /\ P!Handshake(c) /\ P!Told(c)
  <2>1. \A t : ~P!On(toPeer, t, c) /\ ~P!On(toClient, t, c)
    BY <1>1 DEF P!Init, P!On
  <2>2. P!InFlight(toClient, c, sentDown[c]) /\ P!InFlight(toPeer, c, sentUp[c])
    BY <1>1 DEF P!Init, P!InFlight
  <2>3. P!Once(toPeer, "CONNECT", c)
    BY <1>1 DEF P!Init, P!Once
  <2> QED BY <2>1, <2>2, <2>3 DEF P!Init, P!Flow, P!Handshake, P!Told
<1> QED BY <1>2, <1>3, <1>4 DEF P!ProxyInv

LEMMA ProxyKept ==
    ASSUME P!ProxyInv, P!TypeOK', NEW d \in Channels,
           \/ gotDown'[d] = gotDown[d]
           \/ \E n \in Nat :
                /\ gotDown'[d] = Append(gotDown[d], <<d, n>>)
                /\ gotDown[d] # <<>> => n = gotDown[d][Len(gotDown[d])][2] + 1,
           gotUp'[d] = gotUp[d] \/ gotUp'[d] = Append(gotUp[d], Len(gotUp[d]) + 1)
    PROVE  /\ \A i \in DOMAIN gotDown'[d] : gotDown'[d][i][1] = d
           /\ \A i \in DOMAIN gotDown'[d] :
                i > 1 => gotDown'[d][i][2] = gotDown'[d][i - 1][2] + 1
           /\ gotUp'[d] = [i \in DOMAIN gotUp'[d] |-> i]
<1> DEFINE g == gotDown[d]
           u == gotUp[d]
<1>1. /\ g \in Seq(Channels \X Nat) /\ u \in Seq(Nat) /\ Len(u) \in Nat /\ Len(g) \in Nat
      /\ DOMAIN u = 1 .. Len(u) /\ DOMAIN g = 1 .. Len(g)
      /\ \A i \in DOMAIN g : g[i][1] = d
      /\ \A i \in DOMAIN g : i > 1 => g[i][2] = g[i - 1][2] + 1
      /\ u = [i \in DOMAIN u |-> i]
  BY ZenonT(60), LenProperties DEF P!ProxyInv, P!TypeOK, P!StreamsKept
<1>2. gotUp'[d] = [i \in DOMAIN gotUp'[d] |-> i]
  <2>1. CASE gotUp'[d] = Append(u, Len(u) + 1)
    <3>1. u = [i \in 1 .. Len(u) |-> i]
      BY <1>1
    <3>2. gotUp'[d] = [i \in 1 .. Len(u) + 1 |-> i]
      BY <1>1, <2>1, <3>1, AppendCount
    <3> QED BY <3>2
  <2> QED BY <1>1, <2>1
<1>3. CASE g = gotDown'[d]
  BY <1>1, <1>2, <1>3
<1>4. ASSUME NEW n \in Nat, gotDown'[d] = Append(g, <<d, n>>),
             g # <<>> => n = g[Len(g)][2] + 1
      PROVE  /\ \A i \in DOMAIN gotDown'[d] : gotDown'[d][i][1] = d
             /\ \A i \in DOMAIN gotDown'[d] :
                  i > 1 => gotDown'[d][i][2] = gotDown'[d][i - 1][2] + 1
  <2> DEFINE a == gotDown'[d]
             e == <<d, n>>
  <2>1. e \in Channels \X Nat /\ e[1] = d /\ e[2] = n
    OBVIOUS
  <2> HIDE DEF e
  <2>2. /\ DOMAIN a = 1 .. Len(g) + 1 /\ a[Len(g) + 1] = e
        /\ \A i \in 1 .. Len(g) : a[i] = g[i]
        /\ g = <<>> <=> Len(g) = 0
    BY <1>1, <1>4, <2>1, AppendIndex DEF e
  <2> SUFFICES ASSUME NEW i \in 1 .. Len(g) + 1
      PROVE  a[i][1] = d /\ (i > 1 => a[i][2] = a[i - 1][2] + 1)
    BY <2>2
  <2>3. CASE i \in 1 .. Len(g)
    <3>1. i > 1 => i - 1 \in 1 .. Len(g)
      BY <1>1, <2>3
    <3> QED BY <1>1, <2>2, <2>3, <3>1
  <2>4. CASE i = Len(g) + 1
    <3>1. i > 1 => i - 1 = Len(g) /\ Len(g) \in 1 .. Len(g)
      BY <1>1, <2>4
    <3> QED BY <1>1, <1>4, <2>1, <2>2, <2>4, <3>1
  <2> QED BY <1>1, <2>3, <2>4
<1> QED BY <1>2, <1>3, <1>4

LEMMA ProxyNext == ASSUME P!ProxyInv, [P!Next]_(P!vars) PROVE P!ProxyInv'
<1>1. CASE UNCHANGED P!vars
  BY <1>1 DEF P!vars, P!client, P!streams, P!payloads, P!ProxyInv, P!TypeOK, P!StreamsKept, P!Flow,
              P!Handshake, P!Told, P!Opened
<1>2. CASE P!Next
  <2>1. P!TypeOK'
    BY <1>2, ProxyTypes DEF P!ProxyInv
  <2> SUFFICES ASSUME NEW d \in Channels
      PROVE  /\ P!Flow(d)' /\ P!Handshake(d)' /\ P!Told(d)'
             /\ \/ gotDown'[d] = gotDown[d]
                \/ \E n \in Nat :
                     /\ gotDown'[d] = Append(gotDown[d], <<d, n>>)
                     /\ gotDown[d] # <<>> => n = gotDown[d][Len(gotDown[d])][2] + 1
             /\ gotUp'[d] = gotUp[d] \/ gotUp'[d] = Append(gotUp[d], Len(gotUp[d]) + 1)
    BY <2>1, ProxyKept DEF P!ProxyInv, P!StreamsKept
  <2> PICK c \in Channels :
        \/ P!Connect(c) \/ P!Resume(c) \/ P!ConnectTimeout(c) \/ P!Register(c) \/ P!ReplyFails(c)
        \/ P!SendUp(c) \/ P!EndSession(c) \/ P!HandleAnswer(c) \/ P!HandleDown(c) \/ P!HandleClose(c)
        \/ P!PeerConnect(c) \/ P!PeerAnswer(c) \/ P!PeerData(c) \/ P!PeerClose(c) \/ P!SendDown(c)
        \/ P!EndTarget(c)
    BY <1>2 DEF P!Next
  <2>2. CASE P!HandleDown(c)
    <3>1. UNCHANGED gotUp
      BY <2>2 DEF P!HandleDown
    <3> QED BY <2>2, <3>1, ProxyHandleDown
  <2>3. CASE P!PeerData(c)
    <3>1. UNCHANGED gotDown
      BY <2>3 DEF P!PeerData
    <3> QED BY <2>3, <3>1, ProxyPeerData
  <2>4. CASE ~P!HandleDown(c) /\ ~P!PeerData(c)
    <3>1. UNCHANGED <<gotDown, gotUp>>
      BY <2>4 DEF P!Connect, P!Resume, P!ConnectTimeout, P!Register, P!ReplyFails, P!SendUp,
                  P!EndSession, P!HandleAnswer, P!HandleClose, P!PeerConnect, P!PeerAnswer, P!PeerClose,
                  P!SendDown, P!EndTarget, P!payloads
    <3>2. P!Flow(d)' /\ P!Handshake(d)' /\ P!Told(d)'
      BY <2>4, ProxyConnect, ProxyLocal, ProxySendUp, ProxyEndSession, ProxyAnswer, ProxyPeer,
         ProxyAppendClient, ProxySendDown
    <3> QED BY <3>1, <3>2
  <2> QED BY <2>2, <2>3, <2>4
<1> QED BY <1>1, <1>2

LEMMA ProxyOrphans == P!ProxyInv => P!NoOrphans
  BY DEF P!ProxyInv, P!NoOrphans, P!Told, P!Flow, P!Handshake
=============================================================================
