------------------------------- MODULE Bridge -------------------------------
(***************************************************************************)
(* One subchannel of a wormhole joined to one local stream, in the five    *)
(* ways the code does it:                                                  *)
(*   forward    PortForwarder of wh/core/forwarder.py: a local port        *)
(*   sshd       SSHServerHandler of wh/ssh/server.py: the local SSH server *)
(*   ssh        WormholeTunnel of wh/ssh/tunnel.py: a socket pair          *)
(*   dial, wait the two ends of wh nc (BidirectionalPipe of                *)
(*              wh/core/protocol.py): stdin and stdout                     *)
(*                                                                         *)
(* The peer's payloads arrive in order, numbered from 1, and so do those   *)
(* of the local stream.  A connection is followed from connectionMade on;  *)
(* nc -k, which makes another pipe after the first, is one pipe here.      *)
(***************************************************************************)
EXTENDS Naturals, Sequences, SequencesExt

CONSTANTS
    MaxIn,      \* bound: payloads of the peer
    MaxOut      \* bound: payloads of the local stream

VARIABLE bridge

Kinds == {"forward", "sshd", "ssh", "dial", "wait"}
Pipes == {"dial", "wait"}

\* connectionMade: sub is the subchannel, local the local stream, task the
\* coroutine that copies from it, fallback whether a pump reads stdin in an
\* executor, pending the payloads that sshd buffers; got and put are the payloads
\* that reached the local stream and the peer.
NewBridge(k) ==
    [kind |-> k, sub |-> "up",
     local |-> IF k \in {"forward", "sshd"} THEN "opening" ELSE "open",
     task |-> IF k = "ssh" THEN "running" ELSE "none",
     pending |-> <<>>, arrived |-> 0, got |-> <<>>, read |-> 0, put |-> <<>>,
     late |-> FALSE, done |-> FALSE, ended |-> FALSE, fallback |-> FALSE]

Init == bridge = [NewBridge("ssh") EXCEPT !.kind = "none", !.sub = "none", !.task = "none"]

\* A peer connects.
ConnectionMade ==
    /\ bridge.kind = "none"
    /\ \E k \in Kinds : bridge' = NewBridge(k)
-----------------------------------------------------------------------------
\* _connect_local of sshd: the buffered payloads are written first.
Flushed == bridge.got \o bridge.pending

\* _connect_local ends: the local connection is open, even when the subchannel
\* was lost meanwhile, or it failed and the subchannel is to be closed.
ConnectLocal ==
    /\ bridge.local = "opening"
    /\ \/ bridge' = [bridge EXCEPT !.local = "open", !.got = Flushed,
                                   !.late = IF bridge.sub = "lost" THEN TRUE ELSE @,
                                   !.task = IF bridge.pending = <<>> THEN "running" ELSE "flushing"]
       \/ bridge' = [bridge EXCEPT !.local = "closed",
                                   !.sub = IF @ = "up" THEN "closing" ELSE @]

\* The drain of the buffered payloads ends; an error closes the subchannel.
FlushEnds ==
    /\ bridge.task = "flushing"
    /\ \/ bridge' = [bridge EXCEPT !.pending = <<>>, !.task = "running"]
       \/ bridge' = [bridge EXCEPT !.task = "ended", !.sub = IF @ = "up" THEN "closing" ELSE @]

\* run_as_initiator and run_as_listener start _pump_stdin, which falls back to
\* reading in an executor where stdin cannot be read by the event loop.
PumpStarts ==
    /\ bridge.kind \in Pipes /\ bridge.task = "none" /\ ~bridge.ended
    /\ \E slow \in BOOLEAN : bridge' = [bridge EXCEPT !.task = "running", !.fallback = slow]

\* The other end of a local connection resets it: its writer is closing from here
\* on, and the copying task has yet to see it.
LocalBreaks ==
    /\ bridge.kind \in {"forward", "sshd"} /\ bridge.local = "open"
    /\ bridge' = [bridge EXCEPT !.local = "broken"]

\* dataReceived: while the local connection is not open or is broken, forward loses
\* the payload and sshd buffers it; ssh loses what the socket's buffer does not
\* take, and the pipes what stdout does not.
DataReceived ==
    LET n == bridge.arrived + 1
        next == [bridge EXCEPT !.arrived = n]
        written == [next EXCEPT !.got = Append(@, n)]
    IN  /\ bridge.sub \in {"up", "closing"} /\ bridge.arrived < MaxIn
        /\ CASE bridge.kind = "forward" ->
                  bridge' = IF bridge.local = "open" THEN written ELSE next
             [] bridge.kind = "sshd" ->
                  bridge' = IF bridge.local = "open" THEN written
                            ELSE [next EXCEPT !.pending = Append(@, n)]
             [] OTHER -> bridge' \in {written, next}

\* The transport a copying task writes to: of a pipe self._protocol, which only
\* run_as_initiator assigns.
HasProtocol == bridge.kind # "wait"

\* The copying task reads a payload of the local stream and sends it, while the
\* subchannel is connected.
ForwardOut ==
    LET n == bridge.read + 1 IN
    /\ bridge.task = "running" /\ bridge.local \in {"open", "broken"} /\ bridge.read < MaxOut
    /\ bridge' = [bridge EXCEPT !.read = n,
                                !.put = IF bridge.sub = "up" /\ HasProtocol
                                        THEN Append(@, n) ELSE @]

\* A fallback read takes longer than the 0.5 s the pump waits for it: the pump reads
\* again, and what the executor's thread still reads goes nowhere.
ReadAbandoned ==
    /\ bridge.task = "running" /\ bridge.fallback /\ bridge.read < MaxOut
    /\ bridge' = [bridge EXCEPT !.read = @ + 1]

\* The end of the local stream, or of one that was closed: forward and sshd close
\* the subchannel, a pipe sets _done, and ssh does neither.
LocalEof ==
    /\ bridge.task = "running"
    /\ bridge' = CASE bridge.kind \in {"forward", "sshd"} ->
                        [bridge EXCEPT !.task = "ended", !.sub = IF @ = "up" THEN "closing" ELSE @]
                   [] bridge.kind = "ssh" -> [bridge EXCEPT !.task = "ended"]
                   [] OTHER -> [bridge EXCEPT !.task = "ended", !.done = TRUE]

\* Wrong form: the local connection is closed only once it is copied from.
ClosedByLossTask == IF bridge.task = "running" THEN "closed" ELSE bridge.local

\* What connectionLost makes of the local stream: closed, if there is one.
ClosedByLoss ==
    IF bridge.local # "opening" /\ bridge.kind \notin Pipes THEN "closed" ELSE bridge.local

\* connectionLost: the peer, the network or an earlier loseConnection ends the
\* subchannel; the copying task is cancelled, a pipe's _done is set.
ConnectionLost ==
    /\ bridge.sub \in {"up", "closing"}
    /\ bridge' = [bridge EXCEPT !.sub = "lost", !.local = ClosedByLoss,
                                !.task = IF @ = "running" /\ bridge.kind \notin Pipes
                                         THEN "ended" ELSE @,
                                !.done = IF bridge.kind \in Pipes THEN TRUE ELSE @]

\* SIGINT and SIGTERM: the shutdown event of nc makes it set _done.
Interrupt ==
    /\ bridge.kind \in Pipes /\ ~bridge.done
    /\ bridge' = [bridge EXCEPT !.done = TRUE]

\* nc returns from the pipe, cancels the pump and closes the wormhole.
PipeEnds ==
    /\ bridge.done /\ ~bridge.ended
    /\ bridge' = [bridge EXCEPT !.ended = TRUE, !.sub = "lost", !.task = "ended"]
-----------------------------------------------------------------------------
Next ==
    \/ ConnectionMade \/ ConnectLocal \/ FlushEnds \/ PumpStarts \/ LocalBreaks
    \/ DataReceived \/ ForwardOut \/ ReadAbandoned \/ LocalEof \/ ConnectionLost
    \/ Interrupt \/ PipeEnds

Spec == Init /\ [][Next]_bridge
-----------------------------------------------------------------------------
TypeOK ==
    bridge \in [kind : Kinds \cup {"none"},
                sub : {"none", "up", "closing", "lost"},
                local : {"opening", "open", "broken", "closed"},
                task : {"none", "flushing", "running", "ended"},
                pending : Seq(1 .. MaxIn), arrived : 0 .. MaxIn, got : Seq(1 .. MaxIn),
                read : 0 .. MaxOut, put : Seq(1 .. MaxOut),
                late : BOOLEAN, done : BOOLEAN, ended : BOOLEAN, fallback : BOOLEAN]

\* The local stream gets the peer's payloads in order.  With sshd the first is the
\* first and none is missing, those included that came before the local connection
\* was open; with forward none is missing after the first one written; ssh and the
\* pipes may lose any.  The peer gets what was read in order, and all of it from the
\* first on unless the pump falls back to the executor.
InOrder ==
    LET got == bridge.got
        put == bridge.put
    IN  /\ \A i \in 2 .. Len(got) :
             /\ got[i] > got[i - 1]
             /\ bridge.kind \in {"forward", "sshd"} => got[i] = got[i - 1] + 1
        /\ bridge.kind = "sshd" /\ got # <<>> => got[1] = 1
        /\ bridge.kind = "sshd" /\ bridge.local = "open" => got = [i \in 1 .. bridge.arrived |-> i]
        /\ \A i \in 2 .. Len(put) : put[i] > put[i - 1]
        /\ ~bridge.fallback => put = [i \in DOMAIN put |-> i]

\* A local connection is closed with its subchannel, whatever its copying task
\* was doing, unless it was still being opened when the subchannel was lost.
ClosedWithPeer ==
    bridge.sub = "lost" /\ bridge.kind \notin Pipes /\ bridge.local # "closed" =>
        bridge.late \/ bridge.local = "opening"

\* The inductive invariant of InOrder and ClosedWithPeer.  What was written to the
\* local stream ends with a payload that arrived; with forward, while the local
\* connection is open, with the last one.  Before it is open nothing was written and
\* sshd has all of it buffered.  While the subchannel is up, what was read was put,
\* but by a pipe that waits and by a pump that falls back.
BridgeInv ==
    /\ TypeOK /\ InOrder /\ ClosedWithPeer
    /\ bridge.done => bridge.kind \in Pipes
    /\ bridge.fallback => bridge.kind \in Pipes /\ bridge.task # "none"
    /\ bridge.kind = "none" => bridge.task = "none"
    /\ bridge.task = "flushing" => bridge.local # "opening"
    /\ bridge.got # <<>> => bridge.got[Len(bridge.got)] <= bridge.arrived
    /\ bridge.kind = "forward" /\ bridge.local = "open" /\ bridge.got # <<>> =>
         bridge.got[Len(bridge.got)] = bridge.arrived
    /\ bridge.local = "opening" =>
         /\ bridge.kind \in {"forward", "sshd"} /\ bridge.got = <<>>
         /\ bridge.kind = "sshd" => bridge.pending = [i \in 1 .. bridge.arrived |-> i]
         /\ bridge.kind = "forward" => bridge.pending = <<>>
    /\ bridge.kind = "wait" => bridge.put = <<>>
    /\ bridge.sub = "up" /\ bridge.kind # "wait" /\ ~bridge.fallback =>
         Len(bridge.put) = bridge.read
    /\ bridge.put # <<>> => bridge.put[Len(bridge.put)] <= bridge.read
=============================================================================
