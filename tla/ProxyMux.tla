------------------------------ MODULE ProxyMux ------------------------------
(***************************************************************************)
(* wh proxy (wh/cli/proxy.py): a local SOCKS5 server whose connections are *)
(* channels of one wormhole stream; the peer opens a target connection per *)
(* channel.  A channel is opened once, its id is not used again.           *)
(*                                                                         *)
(* The client's _channels entry of a channel appears with connect(), gets  *)
(* its writer only after the success reply was flushed, and disappears by  *)
(* a CLOSE, a refusal, the 15 second timeout or the end of the session; a  *)
(* session whose reply cannot be flushed leaves it behind.                 *)
(* Payloads are numbered per channel and direction.                        *)
(***************************************************************************)
EXTENDS Naturals, Sequences

CONSTANTS
    Channels,   \* channel ids
    MaxDown,    \* MaxDown[c], a bound: payloads the target of c sends
    MaxUp       \* MaxUp[c], a bound: payloads the local connection of c sends

VARIABLES
    session,    \* pc of _handle_client of the channel's local connection
    entry,      \* the client's _channels entry: "none", "pending" or "writer"
    result,     \* the pending future: "none", "ok" or "fail"
    target,     \* on the peer: "none", "connecting", "open", "closing", "closed"
    toPeer, toClient,   \* the two directions of the stream
    sentUp, sentDown,   \* payloads sent so far
    gotUp,      \* payloads written to the target
    gotDown     \* payloads written to the local connection

client == <<session, entry, result>>
streams == <<toPeer, toClient>>
payloads == <<sentUp, sentDown, gotUp, gotDown>>
vars == <<client, target, streams, payloads>>

Init ==
    /\ session = [c \in Channels |-> "new"]
    /\ entry = [c \in Channels |-> "none"]
    /\ result = [c \in Channels |-> "none"]
    /\ target = [c \in Channels |-> "none"]
    /\ toPeer = <<>> /\ toClient = <<>>
    /\ sentUp = [c \in Channels |-> 0] /\ sentDown = [c \in Channels |-> 0]
    /\ gotUp = [c \in Channels |-> <<>>] /\ gotDown = [c \in Channels |-> <<>>]

Msg(type, c, n) == [type |-> type, channel |-> c, payload |-> n]

\* A message of this type for c is under way in a stream.
IsFor(m, type, c) == m.type = type /\ m.channel = c
On(stream, type, c) == \E i \in DOMAIN stream : IsFor(stream[i], type, c)
-----------------------------------------------------------------------------
\* The handshake ends in a CONNECT request, and connect() asks the peer; or it
\* ends in an error and the local connection is closed.
Connect(c) ==
    /\ session[c] = "new"
    /\ \/ /\ session' = [session EXCEPT ![c] = "connecting"]
          /\ entry' = [entry EXCEPT ![c] = "pending"]
          /\ toPeer' = Append(toPeer, Msg("CONNECT", c, 0))
       \/ /\ session' = [session EXCEPT ![c] = "closed"]
          /\ UNCHANGED <<entry, toPeer>>
    /\ UNCHANGED <<result, target, toClient, payloads>>

\* connect() resumes with the peer's answer: the reply to the local connection
\* is written, a refused channel forgotten.
Resume(c) ==
    /\ session[c] = "connecting" /\ result[c] # "none"
    /\ \/ /\ result[c] = "ok"
          /\ session' = [session EXCEPT ![c] = "replying"]
          /\ UNCHANGED entry
       \/ /\ result[c] = "fail"
          /\ session' = [session EXCEPT ![c] = "closed"]
          /\ entry' = [entry EXCEPT ![c] = "none"]
    /\ UNCHANGED <<result, target, streams, payloads>>

\* The timeout of connect(): the entry is dropped, the peer is not told.
ConnectTimeout(c) ==
    /\ session[c] = "connecting" /\ result[c] = "none"
    /\ session' = [session EXCEPT ![c] = "closed"]
    /\ entry' = [entry EXCEPT ![c] = "none"]
    /\ UNCHANGED <<result, target, streams, payloads>>

\* After the drain the writer is registered in the entry,
Register(c) ==
    /\ session[c] = "replying" /\ entry[c] # "none"
    /\ session' = [session EXCEPT ![c] = "forwarding"]
    /\ entry' = [entry EXCEPT ![c] = "writer"]
    /\ UNCHANGED <<result, target, streams, payloads>>

\* unless the drain raises because the local connection is gone, or the peer closed
\* the channel meanwhile and it has no entry any more.  The handler closes the local
\* connection: the entry stays as it is, and the peer is not told.
ReplyFails(c) ==
    /\ session[c] = "replying"
    /\ session' = [session EXCEPT ![c] = "closed"]
    /\ UNCHANGED <<entry, result, target, streams, payloads>>

\* A payload of the local connection.
SendUp(c) ==
    /\ session[c] = "forwarding" /\ sentUp[c] < MaxUp[c]
    /\ sentUp' = [sentUp EXCEPT ![c] = @ + 1]
    /\ toPeer' = Append(toPeer, Msg("DATA", c, sentUp[c] + 1))
    /\ UNCHANGED <<client, target, toClient, sentDown, gotUp, gotDown>>

CloseMessage(c) == <<Msg("CLOSE", c, 0)>>

\* The local connection ends, by itself or because its writer was closed.
EndSession(c) ==
    /\ session[c] = "forwarding"
    /\ session' = [session EXCEPT ![c] = "ended"]
    /\ entry' = [entry EXCEPT ![c] = "none"]
    /\ toPeer' = toPeer \o CloseMessage(c)
    /\ UNCHANGED <<result, target, toClient, payloads>>
-----------------------------------------------------------------------------
\* The next message of the peer, by _process_buffer.
FromPeer(type, c) ==
    /\ toClient # <<>> /\ Head(toClient).type = type /\ Head(toClient).channel = c
    /\ toClient' = Tail(toClient)
    /\ UNCHANGED <<toPeer, target, session>>

\* _handle_connect_ok and _handle_connect_fail set the future of a known channel.
HandleAnswer(c) ==
    /\ \/ /\ FromPeer("OK", c)
          /\ result' = [result EXCEPT ![c] = IF entry[c] = "none" THEN @ ELSE "ok"]
       \/ FromPeer("FAIL", c)
          /\ result' = [result EXCEPT ![c] = IF entry[c] = "none" THEN @ ELSE "fail"]
    /\ UNCHANGED <<entry, payloads>>

\* Wrong form: the payload goes to any registered writer.
WritersAny(c) == {d \in Channels : entry[d] = "writer"}

\* The local connections a payload of channel c is written to.
Writers(c) == {d \in {c} : entry[d] = "writer"}

\* _handle_data of the client: without a writer the payload is dropped.
HandleDown(c) ==
    /\ FromPeer("DATA", c)
    /\ gotDown' = [d \in Channels |->
                     IF d \in Writers(c)
                     THEN Append(gotDown[d], <<c, Head(toClient).payload>>) ELSE gotDown[d]]
    /\ UNCHANGED <<entry, result, sentUp, sentDown, gotUp>>

\* _handle_close of the client: the entry goes, its writer is closed.
HandleClose(c) ==
    /\ FromPeer("CLOSE", c)
    /\ entry' = [entry EXCEPT ![c] = "none"]
    /\ UNCHANGED <<result, payloads>>
-----------------------------------------------------------------------------
\* The next message of the client, on the peer.
FromClient(type, c) ==
    /\ toPeer # <<>> /\ Head(toPeer).type = type /\ Head(toPeer).channel = c
    /\ toPeer' = Tail(toPeer)
    /\ UNCHANGED <<toClient, client>>

\* _handle_connect of the peer starts to open the target connection,
PeerConnect(c) ==
    /\ FromClient("CONNECT", c)
    /\ target' = [target EXCEPT ![c] = "connecting"]
    /\ UNCHANGED payloads

\* and answers when it is open or has failed.
PeerAnswer(c) ==
    /\ target[c] = "connecting"
    /\ \/ /\ target' = [target EXCEPT ![c] = "open"]
          /\ toClient' = Append(toClient, Msg("OK", c, 0))
       \/ /\ target' = [target EXCEPT ![c] = "closed"]
          /\ toClient' = Append(toClient, Msg("FAIL", c, 0))
    /\ UNCHANGED <<client, toPeer, payloads>>

\* _handle_data of the peer.
PeerData(c) ==
    /\ FromClient("DATA", c)
    /\ gotUp' = [gotUp EXCEPT ![c] = IF target[c] = "open"
                                     THEN Append(@, Head(toPeer).payload) ELSE @]
    /\ UNCHANGED <<target, sentUp, sentDown, gotDown>>

\* _handle_close of the peer closes the target connection; _forward_from_target
\* still reads from it until the end of its stream.
PeerClose(c) ==
    /\ FromClient("CLOSE", c)
    /\ target' = [target EXCEPT ![c] = IF @ = "open" THEN "closing" ELSE @]
    /\ UNCHANGED payloads

\* _forward_from_target: a payload of the target,
SendDown(c) ==
    /\ target[c] \in {"open", "closing"} /\ sentDown[c] < MaxDown[c]
    /\ sentDown' = [sentDown EXCEPT ![c] = @ + 1]
    /\ toClient' = Append(toClient, Msg("DATA", c, sentDown[c] + 1))
    /\ UNCHANGED <<client, target, toPeer, sentUp, gotUp, gotDown>>

\* and the end of its stream.
EndTarget(c) ==
    /\ target[c] \in {"open", "closing"}
    /\ target' = [target EXCEPT ![c] = "closed"]
    /\ toClient' = Append(toClient, Msg("CLOSE", c, 0))
    /\ UNCHANGED <<client, toPeer, payloads>>
-----------------------------------------------------------------------------
Next ==
    \E c \in Channels :
      \/ Connect(c) \/ Resume(c) \/ ConnectTimeout(c) \/ Register(c) \/ ReplyFails(c)
      \/ SendUp(c) \/ EndSession(c) \/ HandleAnswer(c) \/ HandleDown(c) \/ HandleClose(c)
      \/ PeerConnect(c) \/ PeerAnswer(c) \/ PeerData(c) \/ PeerClose(c) \/ SendDown(c)
      \/ EndTarget(c)

Spec == Init /\ [][Next]_vars
-----------------------------------------------------------------------------
Messages ==
    [type : {"CONNECT", "OK", "FAIL", "DATA", "CLOSE"}, channel : Channels, payload : Nat]

TypeOK ==
    /\ session \in [Channels -> {"new", "connecting", "replying", "forwarding", "ended", "closed"}]
    /\ entry \in [Channels -> {"none", "pending", "writer"}]
    /\ result \in [Channels -> {"none", "ok", "fail"}]
    /\ target \in [Channels -> {"none", "connecting", "open", "closing", "closed"}]
    /\ toPeer \in Seq(Messages) /\ toClient \in Seq(Messages)
    /\ sentUp \in [Channels -> Nat] /\ sentDown \in [Channels -> Nat]
    /\ gotUp \in [Channels -> Seq(Nat)] /\ gotDown \in [Channels -> Seq(Channels \X Nat)]

\* What a local connection receives is an unbroken stretch of what its own
\* target sent, in order: payloads that come before the writer is registered
\* are missing at the front, and nothing is missing after.
StreamsKept ==
    \A c \in Channels :
        /\ \A i \in DOMAIN gotDown[c] : gotDown[c][i][1] = c
        /\ \A i \in DOMAIN gotDown[c] :
             i > 1 => gotDown[c][i][2] = gotDown[c][i - 1][2] + 1
        /\ gotUp[c] = [i \in DOMAIN gotUp[c] |-> i]

\* Once its payloads are forwarded a channel ends on both sides: a target connection
\* whose local connection has ended is about to be closed by a CLOSE under way, and a
\* registered local connection whose target is closed by one that comes back.
NoOrphans ==
    \A c \in Channels :
        /\ session[c] \in {"forwarding", "ended"} /\ target[c] = "open" /\ entry[c] = "none" =>
             On(toPeer, "CLOSE", c)
        /\ entry[c] = "writer" /\ target[c] = "closed" => On(toClient, "CLOSE", c)
-----------------------------------------------------------------------------
\* The inductive invariant of both.  The payloads of c under way in a stream are
\* in order, and each but the last one sent is followed by its successor.
InFlight(stream, c, sent) ==
    \A i \in DOMAIN stream : IsFor(stream[i], "DATA", c) =>
        /\ stream[i].payload \in 1 .. sent
        /\ stream[i].payload < sent =>
             \E j \in DOMAIN stream :
                 j > i /\ IsFor(stream[j], "DATA", c) /\ stream[j].payload = stream[i].payload + 1
        /\ \A j \in DOMAIN stream :
             j > i /\ IsFor(stream[j], "DATA", c) => stream[j].payload > stream[i].payload

\* All payloads of c after the first n are under way.
Owed(stream, c, sent, n) ==
    /\ n <= sent
    /\ n < sent =>
         \E j \in DOMAIN stream : IsFor(stream[j], "DATA", c) /\ stream[j].payload = n + 1
    /\ \A j \in DOMAIN stream : IsFor(stream[j], "DATA", c) => stream[j].payload > n

Once(stream, type, c) ==
    \A i, j \in DOMAIN stream :
        IsFor(stream[i], type, c) /\ IsFor(stream[j], type, c) => i = j

Opened(c) == target[c] \in {"open", "closing", "closed"}

\* A registered writer goes on where it stopped, an open target where it stopped.
Flow(c) ==
    /\ InFlight(toClient, c, sentDown[c]) /\ InFlight(toPeer, c, sentUp[c])
    /\ entry[c] = "writer" /\ gotDown[c] # <<>> =>
         Owed(toClient, c, sentDown[c], gotDown[c][Len(gotDown[c])][2])
    /\ target[c] = "open" => Owed(toPeer, c, sentUp[c], Len(gotUp[c]))
    /\ entry[c] = "writer" => session[c] = "forwarding"
    /\ gotDown[c] # <<>> => session[c] \in {"forwarding", "ended"}
    /\ sentUp[c] > 0 \/ gotUp[c] # <<>> => Opened(c)

\* The two ends of the handshake of a channel, and what is under way between them.
Handshake(c) ==
    /\ session[c] = "new" => entry[c] = "none" /\ target[c] = "none" /\ ~On(toPeer, "CONNECT", c)
    /\ On(toPeer, "CONNECT", c) => target[c] = "none"
    /\ Once(toPeer, "CONNECT", c)
    /\ On(toClient, "OK", c) \/ result[c] = "ok" =>
         Opened(c) /\ ~On(toClient, "FAIL", c) /\ result[c] # "fail"
    /\ On(toClient, "FAIL", c) \/ result[c] = "fail" \/ On(toClient, "CLOSE", c) =>
         target[c] = "closed"
    /\ session[c] \in {"replying", "forwarding", "ended"} => result[c] = "ok"
    /\ On(toPeer, "CLOSE", c) => Opened(c)

\* The peer is told of the end of a session, the client of the end of a target.
Told(c) ==
    /\ session[c] \in {"forwarding", "ended"} /\ target[c] = "open" /\ entry[c] = "none" =>
         On(toPeer, "CLOSE", c)
    /\ target[c] = "closed" /\ entry[c] # "none" =>
         On(toClient, "CLOSE", c) \/ On(toClient, "FAIL", c) \/ result[c] = "fail"

ProxyInv == TypeOK /\ StreamsKept /\ \A c \in Channels : Flow(c) /\ Handshake(c) /\ Told(c)
=============================================================================
