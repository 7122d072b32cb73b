------------------------------- MODULE Tools -------------------------------
(***************************************************************************)
(* The request and reply tools of wh/cli: ping, dns, traceroute, nmap,     *)
(* mount, rdp, vnc, ftp, telnet and tunnel.  Each is one class that runs   *)
(* on both ends of a dilated wormhole: the client sends requests and waits *)
(* with a timeout, the server runs a handler per request and replies       *)
(* through self._protocol.                                                 *)
(*                                                                         *)
(* The client's connect callback assigns self._protocol.  On the server    *)
(* nothing does: StreamingProtocolFactory.buildProtocol keeps no reference *)
(* and the listen callback gets a port.  What a handler sends is therefore *)
(* dropped, the client's reply handlers are never reached, and every       *)
(* operation ends by its timeout or by the loss of the connection.  The    *)
(* tunnel's server has its protocol, but its client sends the header of    *)
(* OPEN twice, so that no channel is ever opened.  What a request asks for *)
(* (names, paths, ports) is left out.                                      *)
(***************************************************************************)
EXTENDS Naturals, Sequences

CONSTANTS
    Offered,    \* the tools an instance looks at
    MaxOps      \* bound: operations of a client (pings, mount requests, local connections)

VARIABLES
    tool,       \* the tool that runs
    up,         \* the subchannel between the two ends
    protocol,   \* protocol[side]: self._protocol is assigned
    clientPc,   \* pc of the client's command
    op,         \* op[o]: "unused", "waiting" for a reply, "ended"
    request,    \* requests under way to the server, in order
    task,       \* task[o]: replies the server's handler of o has still to send
    opened,     \* opened[o]: the connection the server opened for o (rdp, vnc)
    newest,     \* the operation whose target connection self._writer refers to, or 0
    serverDone, \* the server's _done event
    serverPc,   \* pc of the server's command: "waiting" for a peer, "running", "ended"
    answered,   \* operations a reply was sent for
    unsent      \* operations a reply was due for on a live connection and not sent

vars == <<tool, up, protocol, clientPc, op, request, task, opened, newest, serverDone, serverPc,
          answered, unsent>>

Ops == 1 .. MaxOps
Sides == {"client", "server"}
Tunnels == {"rdp", "vnc"}
Local == Tunnels \cup {"tunnel"}      \* these listen on a local port
AllTools == {"ping", "dns", "traceroute", "nmap", "mount", "ftp", "telnet"} \cup Local

Init ==
    /\ tool = "none"
    /\ up = TRUE
    /\ protocol = [s \in Sides |-> FALSE]
    /\ clientPc = "connecting"
    /\ op = [o \in Ops |-> "unused"]
    /\ request = <<>>
    /\ task = [o \in Ops |-> 0]
    /\ opened = [o \in Ops |-> "none"]
    /\ newest = 0
    /\ serverDone = FALSE
    /\ serverPc = "waiting"
    /\ answered = {} /\ unsent = {}

\* A tool is started on both ends.
Launch ==
    /\ tool = "none"
    /\ tool' \in Offered
    /\ UNCHANGED <<up, protocol, clientPc, op, request, task, opened, newest, serverDone, serverPc,
                   answered, unsent>>

handlers == <<task, opened, newest>>
replies == <<answered, unsent>>
serverState == <<handlers, replies, serverDone, serverPc>>

\* _send_message of the server: nothing is sent without self._protocol.
Reply(o) ==
    /\ answered' = IF protocol["server"] /\ up THEN answered \cup {o} ELSE answered
    /\ unsent' = IF ~protocol["server"] /\ up THEN unsent \cup {o} ELSE unsent

\* The end of the subchannel: connectionLost on both sides that had it.  The server's
\* _done is set and the target connection it refers to is closed.  A server that still
\* waits for its peer is told of nothing.
Disconnect ==
    /\ up' = FALSE
    /\ serverDone' = (serverDone \/ serverPc = "running")
    /\ opened' = [o \in Ops |-> IF o = newest /\ opened[o] = "open" THEN "closed" ELSE opened[o]]
-----------------------------------------------------------------------------
\* run_client: the subchannel opens and the callback assigns self._protocol.
\* Telnet's on_connected uses self._protocol before that, which is an error.
RunClient ==
    /\ tool # "none" /\ clientPc = "connecting" /\ up
    /\ IF tool = "telnet"
       THEN clientPc' = "failed" /\ UNCHANGED protocol
       ELSE /\ clientPc' = "ready"
            /\ protocol' = [protocol EXCEPT !["client"] = TRUE]
    /\ UNCHANGED <<tool, up, op, request, serverState>>

\* run_server: the subchannel reaches the server, which ends its await of connected,
\* with a welcome of ftp.  The protocol class of tunnel assigns self._protocol; its
\* run waits for _done alone, which is not set without a subchannel either.
PeerConnects ==
    /\ serverPc = "waiting" /\ clientPc # "connecting" /\ up
    /\ serverPc' = "running"
    /\ protocol' = [protocol EXCEPT !["server"] = tool = "tunnel"]
    /\ IF tool = "ftp" THEN Reply(1) ELSE UNCHANGED replies
    /\ UNCHANGED <<tool, up, clientPc, op, request, handlers, serverDone>>

\* FTP: the server's welcome is never sent, the client gives up after 10 seconds.
FtpWelcome ==
    /\ tool = "ftp" /\ clientPc = "ready"
    /\ clientPc' = "failed"
    /\ UNCHANGED <<tool, up, protocol, op, request, serverState>>

\* A request leaves the client: the next operation starts to wait.
Issue(o) ==
    /\ op[o] = "unused" /\ \A p \in 1 .. o - 1 : op[p] # "unused"
    /\ op' = [op EXCEPT ![o] = "waiting"]
    /\ request' = IF up THEN Append(request, o) ELSE request
    /\ UNCHANGED <<tool, up, protocol, serverState>>

\* Nothing else of the client is waiting: its coroutine awaits one reply.
Idle == \A o \in Ops : op[o] # "waiting"

\* run_client of ping: the next echo request, unless the connection is lost.
PingRequest(o) ==
    tool = "ping" /\ clientPc = "ready" /\ up /\ Idle /\ Issue(o) /\ UNCHANGED clientPc

\* DNSProtocol.query: one query.
DnsQuery(o) == tool = "dns" /\ clientPc = "ready" /\ o = 1 /\ Issue(o) /\ clientPc' = "asked"

\* TracerouteProtocol.trace: one trace request.
Trace(o) == tool = "traceroute" /\ clientPc = "ready" /\ o = 1 /\ Issue(o) /\ clientPc' = "asked"

\* NmapProtocol.scan: one scan request.
Scan(o) == tool = "nmap" /\ clientPc = "ready" /\ o = 1 /\ Issue(o) /\ clientPc' = "asked"

\* A file operation of the mount client: _send_request under the next id.
MountRequest(o) ==
    tool = "mount" /\ clientPc = "ready" /\ up /\ Idle /\ Issue(o) /\ UNCHANGED clientPc

\* _handle_local_client of rdp: each local connection asks for its own.
RdpLocalClient(o) == tool = "rdp" /\ clientPc = "ready" /\ Issue(o) /\ UNCHANGED clientPc

VncLocalClient(o) == tool = "vnc" /\ clientPc = "ready" /\ Issue(o) /\ UNCHANGED clientPc

\* _handle_connection and open_channel of tunnel.
TunnelLocalClient(o) == tool = "tunnel" /\ clientPc = "ready" /\ Issue(o) /\ UNCHANGED clientPc

\* Wrong form: only the loss of the connection ends the wait.
WaitEndsLost(o) == op[o] = "waiting" /\ ~up

\* wait_for: the timeout; or an answer; or, but for the tunnels, the loss of the connection.
WaitEnds(o) == op[o] = "waiting"

\* The operation fails: an error is shown, or the local connection closed.
OpEnds(o) ==
    /\ WaitEnds(o)
    /\ op' = [op EXCEPT ![o] = "ended"]
    /\ UNCHANGED <<tool, up, protocol, clientPc, request, serverState>>

\* The client's command ends and closes the wormhole: after its last operation
\* or when _done is set; the mount shell and the tunnels also when the user stops.
ClientEnds ==
    /\ \/ clientPc = "asked" /\ Idle
       \/ clientPc = "ready" /\ tool = "ping" /\ Idle /\ (op[MaxOps] = "ended" \/ ~up)
       \/ clientPc = "ready" /\ tool = "mount" /\ Idle
       \/ clientPc = "ready" /\ tool \in Local
       \/ clientPc = "failed"
    /\ clientPc' = "done"
    /\ Disconnect
    /\ UNCHANGED <<tool, protocol, op, request, task, newest, replies, serverPc>>

\* The connection breaks.
Lose ==
    /\ tool # "none" /\ up
    /\ Disconnect
    /\ UNCHANGED <<tool, protocol, clientPc, op, request, task, newest, replies, serverPc>>
-----------------------------------------------------------------------------
\* The request at the head of the stream reaches a handler of the server.
Take(o) == serverPc = "running" /\ request # <<>> /\ Head(request) = o /\ request' = Tail(request)

\* _on_data of ping: the reply is built and sent at once.
HandlePing(o) ==
    /\ tool = "ping" /\ Take(o) /\ Reply(o)
    /\ UNCHANGED <<tool, up, protocol, clientPc, op, handlers, serverDone, serverPc>>

\* _handle_query: the blocking lookup, then one response, an error included.
HandleQuery(o) ==
    /\ tool = "dns" /\ Take(o) /\ Reply(o)
    /\ UNCHANGED <<tool, up, protocol, clientPc, op, handlers, serverDone, serverPc>>

\* _handle_trace_request: three hops, each after an await, and COMPLETE.
HandleTrace(o) ==
    /\ tool = "traceroute" /\ Take(o)
    /\ task' = [task EXCEPT ![o] = 4]
    /\ UNCHANGED <<tool, up, protocol, clientPc, op, opened, newest, replies, serverDone, serverPc>>

\* _handle_scan_request: the results and COMPLETE follow once every port was tried.
HandleScan(o) ==
    /\ tool = "nmap" /\ Take(o)
    /\ task' = [task EXCEPT ![o] = 1]
    /\ UNCHANGED <<tool, up, protocol, clientPc, op, opened, newest, replies, serverDone, serverPc>>

\* _send_hop, or the loop over the results of a scan.
SendResult(o) ==
    /\ serverPc = "running" /\ task[o] > 0
    /\ task' = [task EXCEPT ![o] = @ - 1]
    /\ Reply(o)
    /\ UNCHANGED <<tool, up, protocol, clientPc, op, request, opened, newest, serverDone, serverPc>>

\* _handle_request of mount: the file operation is done, or its error returned.
HandleMount(o) ==
    /\ tool = "mount" /\ Take(o) /\ Reply(o)
    /\ UNCHANGED <<tool, up, protocol, clientPc, op, handlers, serverDone, serverPc>>

\* A target connection opens and replaces the one self._writer referred to,
\* which stays open; or it cannot be opened.
OpenTarget(o) ==
    /\ Take(o) /\ Reply(o)
    /\ \/ opened' = [opened EXCEPT ![o] = "open"] /\ newest' = o
       \/ opened' = [opened EXCEPT ![o] = "closed"] /\ UNCHANGED newest
    /\ UNCHANGED <<tool, up, protocol, clientPc, op, task, serverDone, serverPc>>

HandleRdpConnect(o) == tool = "rdp" /\ OpenTarget(o)

HandleVncConnect(o) == tool = "vnc" /\ OpenTarget(o)

\* _process_buffer and _handle_open of tunnel: the second header is read as the
\* length of the host, the host and the port of the first, and OPEN_FAIL sent;
\* the bytes left over then shift later requests, which may not be seen at all.
HandleTunnelOpen(o) ==
    /\ tool = "tunnel" /\ Take(o)
    /\ Reply(o) \/ (o > 1 /\ UNCHANGED replies)
    /\ UNCHANGED <<tool, up, protocol, clientPc, op, handlers, serverDone, serverPc>>

\* _forward_from_rdp and _forward_from_vnc: data and, at the end of the target's
\* stream, CLOSE are not sent either; the end sets _done.
Forward(o) ==
    /\ serverPc = "running" /\ opened[o] = "open"
    /\ Reply(o)
    /\ \/ UNCHANGED <<opened, serverDone>>
       \/ opened' = [opened EXCEPT ![o] = "closed"] /\ serverDone' = TRUE
    /\ UNCHANGED <<tool, up, protocol, clientPc, op, request, task, newest, serverPc>>

\* run_server returns from _done.wait() and the process ends.
ServerEnds ==
    /\ serverPc = "running" /\ serverDone
    /\ serverPc' = "ended"
    /\ up' = FALSE
    /\ opened' = [o \in Ops |-> IF opened[o] = "open" THEN "closed" ELSE opened[o]]
    /\ UNCHANGED <<tool, protocol, clientPc, op, request, task, newest, serverDone, replies>>
-----------------------------------------------------------------------------
Start(o) ==
    \/ PingRequest(o) \/ DnsQuery(o) \/ Trace(o) \/ Scan(o)
    \/ MountRequest(o) \/ RdpLocalClient(o) \/ VncLocalClient(o) \/ TunnelLocalClient(o)

Handle(o) ==
    \/ HandlePing(o) \/ HandleQuery(o) \/ HandleTrace(o) \/ HandleScan(o) \/ SendResult(o)
    \/ HandleMount(o) \/ HandleRdpConnect(o) \/ HandleVncConnect(o) \/ HandleTunnelOpen(o)
    \/ Forward(o)

Next ==
    \/ Launch \/ RunClient \/ PeerConnects \/ FtpWelcome \/ ClientEnds \/ Lose \/ ServerEnds
    \/ \E o \in Ops : Start(o) \/ OpEnds(o) \/ Handle(o)

Spec == Init /\ [][Next]_vars

\* A timeout goes off, a set event wakes who waits for it and a command whose last
\* operation or error is behind it ends; what the user and the network do is up to them.
Fairness ==
    /\ WF_vars(ServerEnds)
    /\ WF_vars(clientPc \in {"asked", "failed"} /\ ClientEnds)
    /\ \A o \in Ops : WF_vars(OpEnds(o))

FairSpec == Spec /\ Fairness
-----------------------------------------------------------------------------
TypeOK ==
    /\ tool \in AllTools \cup {"none"}
    /\ up \in BOOLEAN /\ serverDone \in BOOLEAN
    /\ protocol \in [Sides -> BOOLEAN]
    /\ clientPc \in {"connecting", "ready", "asked", "failed", "done"}
    /\ op \in [Ops -> {"unused", "waiting", "ended"}]
    /\ request \in Seq(Ops)
    /\ task \in [Ops -> 0 .. 4]
    /\ opened \in [Ops -> {"none", "open", "closed"}]
    /\ newest \in 0 .. MaxOps
    /\ serverPc \in {"waiting", "running", "ended"}
    /\ answered \subseteq Ops /\ unsent \subseteq Ops

\* No operation of a client waits for ever, although no reply comes.  A command with
\* one request, or one that failed, ends by itself, and takes a server with it that
\* has seen the subchannel.
ToolEnds ==
    /\ \A o \in Ops : op[o] = "waiting" ~> op[o] = "ended"
    /\ clientPc \in {"asked", "failed"} ~> clientPc = "done"
    /\ clientPc \in {"asked", "failed"} /\ serverPc = "running" ~> serverPc = "ended"

\* Every reply a handler produces on a live connection is sent: what ping's
\* run_server says, "Simply echoes back ping requests as replies."
RequestsAnswered == unsent = {}
=============================================================================
