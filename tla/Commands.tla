------------------------------ MODULE Commands ------------------------------
(***************************************************************************)
(* The command line (wh/cli/main.py): a group of commands of which a user  *)
(* runs one, on both ends of a wormhole.  The commands with behaviour of   *)
(* their own are components: a named server and its clients (Wns), the     *)
(* request and reply tools (Tools), rsync (Rsync), the SOCKS proxy         *)
(* (ProxyMux), the daemon (Daemon), what joins a subchannel to a local     *)
(* stream (Bridge: nc, listen, ssh) and the commands that change the files *)
(* under ~/.wh (Stores).  They share no state, so the state here is the    *)
(* product of theirs and a step is a step of the command that was chosen.  *)
(***************************************************************************)
EXTENDS Naturals, Sequences, FiniteSets

CONSTANTS
    Clients, Fallback, RelayLists, Home, MaxTurns, Server,  \* of Wns
    Offered, MaxOps,                                        \* of Tools
    Files, Contents,                                        \* of Rsync
    Channels, MaxDown, MaxUp,                               \* of ProxyMux
    Conns, Accepts, Recvs, Deletes, MaxBytes,               \* of Daemon
    Procs, Names, Addrs, Spaces, Persons, MaxMembers, Public, Old, Empty, Garbled, \* of Stores
    MaxIn, MaxOut,                                          \* of Bridge
    None

VARIABLES
    command,    \* the command that runs, "none" before one is chosen
    server, shutdown, file, box, manager,
    tool, up, protocol, clientPc, op, request, task, opened, newest, serverDone, serverPc,
    answered, unsent,
    source, vanished, dest, cwd, inDest, withDelete, dryRun, sender, receiver, mine, theirs,
    scanned, toSender, toReceiver, open, dropped, lost,
    session, entry, result, target, toPeer, toClient, sentUp, sentDown, gotUp, gotDown,
    listener, dilated, tracked, wormhole, arrived, conn, active, closed, readQueue, sent, got,
    accept, recv, removal, held, sending,
    disk, proc,
    bridge

W == INSTANCE Wns
T == INSTANCE Tools
R == INSTANCE Rsync
P == INSTANCE ProxyMux
D == INSTANCE Daemon
Store == INSTANCE Stores
B == INSTANCE Bridge

\* The bounds are numbers.
ASSUME BoundAssumption ==
    /\ {MaxTurns, MaxOps, MaxIn, MaxOut} \subseteq Nat
    /\ MaxBytes \in [Conns -> Nat]

\* None is none of the values it is told from.
ASSUME NoneAssumption ==
    None \notin Conns \cup Nat \cup D!Pieces \cup W!Advertisements \cup Files \cup Contents

\* WormholeManager.__init__: every list of relays holds the default relay at least.
ASSUME WnsAssumption ==
    /\ IsFiniteSet(Clients) /\ Server \notin Clients
    /\ RelayLists \in [Clients -> SUBSET (Seq(W!Relays) \ {<<>>})]

\* An operation at least is looked at, of tools that there are.
ASSUME ToolsAssumption == Offered \subseteq T!AllTools /\ MaxOps # 0

\* A directory has finitely many files, and no checksum is that of a half written one.
ASSUME RsyncAssumption == IsFiniteSet(Files) /\ "torn" \notin Contents \cup {None}

\* Nothing a file holds is told from it by chance; somebody was there before, and
\* namespaces have a limit (max_members = 0 is none).
ASSUME StoresAssumption ==
    /\ Names # {} /\ Addrs # {} /\ Persons # {} /\ IsFiniteSet(Persons) /\ MaxMembers \in Nat \ {0}
    /\ None \notin Store!Texts \cup Procs \cup {Old} /\ {Empty, Garbled} \cap Store!Texts = {}

wns == <<server, shutdown, file, box, manager>>
tools == <<tool, up, protocol, clientPc, op, request, task, opened, newest, serverDone, serverPc,
           answered, unsent>>
rsync == <<source, vanished, dest, cwd, inDest, withDelete, dryRun, sender, receiver, mine, theirs,
           scanned, toSender, toReceiver, open, dropped, lost>>
proxy == <<session, entry, result, target, toPeer, toClient, sentUp, sentDown, gotUp, gotDown>>
daemon == <<listener, dilated, tracked, wormhole, arrived, conn, active, closed, readQueue, sent,
            got, accept, recv, removal, held, sending>>
stores == <<disk, proc>>
vars == <<command, wns, tools, rsync, proxy, daemon, stores, bridge>>

Init == command = "none" /\ W!Init /\ T!Init /\ R!Init /\ P!Init /\ D!Init /\ Store!Init /\ B!Init
-----------------------------------------------------------------------------
\* The group's callback: the name on the command line selects the command.
Invoke ==
    /\ command = "none"
    /\ command' \in {"wns", "tools", "rsync", "proxy", "daemon", "stores", "bridge"}
    /\ UNCHANGED <<wns, tools, rsync, proxy, daemon, stores, bridge>>

WnsStep ==
    command = "wns" /\ W!Next /\ UNCHANGED <<command, tools, rsync, proxy, daemon, stores, bridge>>

ToolsStep ==
    command = "tools" /\ T!Next /\ UNCHANGED <<command, wns, rsync, proxy, daemon, stores, bridge>>

RsyncStep ==
    command = "rsync" /\ R!Next /\ UNCHANGED <<command, wns, tools, proxy, daemon, stores, bridge>>

ProxyStep ==
    command = "proxy" /\ P!Next /\ UNCHANGED <<command, wns, tools, rsync, daemon, stores, bridge>>

DaemonStep ==
    command = "daemon" /\ D!Next /\ UNCHANGED <<command, wns, tools, rsync, proxy, stores, bridge>>

StoresStep ==
    command = "stores" /\ Store!Next /\ UNCHANGED <<command, wns, tools, rsync, proxy, daemon, bridge>>

BridgeStep ==
    command = "bridge" /\ B!Next /\ UNCHANGED <<command, wns, tools, rsync, proxy, daemon, stores>>

Next ==
    \/ Invoke \/ WnsStep \/ ToolsStep \/ RsyncStep
    \/ ProxyStep \/ DaemonStep \/ StoresStep \/ BridgeStep

Spec == Init /\ [][Next]_vars

FairSpec == Spec /\ W!Fairness /\ T!Fairness /\ R!Fairness
-----------------------------------------------------------------------------
\* Every component keeps its types, in particular a manager's index stays
\* inside its list of relays (_try_next_relay).
TypeOK == W!TypeOK /\ T!TypeOK /\ R!TypeOK /\ P!TypeOK /\ D!TypeOK /\ Store!TypeOK /\ B!TypeOK

\* A connected client uses the versions of the peer of its own attempt, never
\* those an abandoned attempt left in _versions.
VersionsAreCurrent == W!VersionsAreCurrent

\* While a WNS server waits under a published code, who finds a valid
\* advertisement in the file gets that code.
FreshCode == W!FreshCode

\* establish_with_fallback ends, connected or with every relay tried.
FallbackEnds == W!FallbackEnds

\* A receiver of rsync that saw DONE has the sender's files, none of them torn.
SyncedWhenDone == R!SyncedWhenDone

\* A session of rsync ends on both sides but for the cases named there.
SyncEnds == R!SyncEnds

\* A local connection of the proxy gets its own target's payloads without a gap after
\* the first it gets, and a target its own client's from the first on; the local
\* stream of a bridge gets the peer's payloads in order, with sshd all of them and
\* with forward without a gap, and the peer gets what is read in order, and without
\* a gap but for a pump that fell back to the executor.
StreamsKept == P!StreamsKept /\ B!InOrder

\* Once payloads are forwarded, the end of one connection of a channel of the proxy
\* is on its way to the other; and a local connection is closed with its subchannel,
\* unless it was still being opened when the subchannel was lost.
NoOrphans == P!NoOrphans /\ B!ClosedWithPeer

\* No byte of a peer is lost in the daemon and none is handed out twice, whatever
\* recv requests take pieces and put remainders back side by side.
BytesKept == D!BytesKept

\* An answered DELETE of a listener leaves none of its connections.
NothingLeft == D!NothingLeft

\* The default relay is a relay of its file and no namespace exceeds its limit, if the
\* file can be read, whatever commands write the files side by side or are killed.
FilesConsistent == Store!FilesConsistent

\* No operation of a tool waits for ever, and a command of one request, or one that
\* failed, ends, and with it a server that has seen the subchannel.
ToolEnds == T!ToolEnds
=============================================================================
