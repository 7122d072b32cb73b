-------------------------------- MODULE Wns --------------------------------
(***************************************************************************)
(* A WNS server (wh/wns/server.py) that listens again and again under one  *)
(* address, and the clients that resolve the address (wh/wns/discovery.py) *)
(* and connect with WormholeManager (wh/core/wormhole_manager.py).         *)
(*                                                                         *)
(* Every turn of the server's loop allocates a fresh code; codes are       *)
(* numbered by turns.  The server advertises the code in a file, which is  *)
(* opened (and thereby emptied) and written in two steps, while other      *)
(* processes read it.  The DHT is left out: DhtNode shows that a lookup    *)
(* there returns nothing.  The wormhole library and the mailboxes it uses  *)
(* are external: who shares a mailbox under one code meets in pairs.       *)
(***************************************************************************)
EXTENDS Naturals, FiniteSets, Sequences

CONSTANTS
    Clients,    \* processes that connect to the address
    Fallback,   \* those that use establish_with_fallback; the others have no timeout
    RelayLists, \* RelayLists[c]: the _relay_list a client may be configured with
    Home,       \* the relay the server uses
    MaxTurns,   \* bound: turns of the server's loop
    Server,     \* the server, as a party of a mailbox
    None

VARIABLES
    server,     \* pc of _connection_loop, its turn, whether the turn's code is published,
                \* and whom its wormhole met
    shutdown,   \* _shutdown_event
    file,       \* the advertisement file: None, or a code and "torn", "valid" or "expired"
    box,        \* box[relay][code]: the parties that claim the code and met nobody yet
    manager     \* the managers of the clients

vars == <<server, shutdown, file, box, manager>>

Turns == 1 .. MaxTurns
Lists == UNION {RelayLists[c] : c \in Clients}
Listed == UNION {{l[i] : i \in DOMAIN l} : l \in Lists}
Relays == Listed \cup {Home}

\* WormholeManager.__init__: the relays to try in order, the first one first.
NewManager(list) ==
    [pc |-> "start", relays |-> list, relay |-> 1, code |-> None, versions |-> None,
     met |-> None]

Init ==
    /\ server = [pc |-> "loop", turn |-> 0, fresh |-> FALSE, met |-> None]
    /\ shutdown = FALSE
    /\ file = None
    /\ box = [r \in Relays |-> [t \in Turns |-> {}]]
    /\ manager = [c \in Clients |-> [NewManager(<<Home>>) EXCEPT !.pc = "new"]]

\* The relay a client's manager uses now: _get_current_relay.
Relay(c) == manager[c].relays[manager[c].relay]
-----------------------------------------------------------------------------
\* The loop's condition, and create_and_allocate_code: a new code, or an error.
Allocate ==
    /\ server.pc = "loop" /\ ~shutdown /\ server.turn < MaxTurns
    /\ LET turn == server.turn + 1 IN
         \/ /\ server' = [pc |-> "allocated", turn |-> turn, fresh |-> FALSE, met |-> None]
            /\ box' = [box EXCEPT ![Home][turn] = @ \cup {Server}]
         \/ /\ server' = [pc |-> "failed", turn |-> turn, fresh |-> FALSE, met |-> None]
            /\ UNCHANGED box
    /\ UNCHANGED <<shutdown, file, manager>>

StopLoop ==
    /\ server.pc = "loop" /\ shutdown
    /\ server' = [server EXCEPT !.pc = "stopped"]
    /\ UNCHANGED <<shutdown, file, box, manager>>

\* _publish_advertisement opens the file for writing; an error is swallowed.
OpenFile ==
    /\ server.pc = "allocated"
    /\ \/ /\ file' = [code |-> server.turn, state |-> "torn"]
          /\ server' = [server EXCEPT !.pc = "writing"]
       \/ /\ server' = [server EXCEPT !.pc = "dilating"]
          /\ UNCHANGED file
    /\ UNCHANGED <<shutdown, box, manager>>

\* Wrong form: the file keeps the code of the server's first turn.
AdvertisedFirst == 1

\* The code CodeAdvertisement.create signs.
Advertised == server.turn

\* The text is written, or an error leaves the file torn.
WriteFile ==
    /\ server.pc = "writing"
    /\ \/ /\ file' = [code |-> Advertised, state |-> "valid"]
          /\ server' = [server EXCEPT !.pc = "dilating", !.fresh = TRUE]
       \/ /\ server' = [server EXCEPT !.pc = "dilating"]
          /\ UNCHANGED file
    /\ UNCHANGED <<shutdown, box, manager>>

\* The advertisement's lifetime of ttl_seconds is over.
Expire ==
    /\ file # None /\ file.state = "valid"
    /\ file' = [file EXCEPT !.state = "expired"]
    /\ UNCHANGED <<server, shutdown, box, manager>>

\* manager.dilate ends: a peer is there, or the wormhole reports an error.
Accept ==
    /\ server.pc = "dilating"
    /\ \/ /\ server.met # None
          /\ server' = [server EXCEPT !.pc = "serving"]
       \/ server' = [server EXCEPT !.pc = "failed"]
    /\ UNCHANGED <<shutdown, file, box, manager>>

\* The service returns or raises; an error waits a second; both then close.
EndService ==
    /\ server.pc \in {"serving", "failed"}
    /\ server' = [server EXCEPT !.pc = "closing"]
    /\ UNCHANGED <<shutdown, file, box, manager>>

\* The finally clause: manager.close, and back to the loop's condition.
CloseServer ==
    /\ server.pc = "closing"
    /\ server' = [server EXCEPT !.pc = "loop"]
    /\ box' = [box EXCEPT ![Home][server.turn] = @ \ {Server}]
    /\ UNCHANGED <<shutdown, file, manager>>

Shutdown ==
    /\ ~shutdown /\ server.pc # "stopped"
    /\ shutdown' = TRUE
    /\ UNCHANGED <<server, file, box, manager>>
-----------------------------------------------------------------------------
\* A command creates its manager, with the relays it is configured with.
Create(c) ==
    /\ manager[c].pc = "new"
    /\ \E list \in RelayLists[c] : manager' = [manager EXCEPT ![c] = NewManager(list)]
    /\ UNCHANGED <<server, shutdown, file, box>>

\* FileDiscovery.lookup: a file that is absent, torn or expired gives nothing.
FromFile == IF file # None /\ file.state = "valid" THEN file.code ELSE None

\* Discovery.lookup: the first answer of the backends, of which the DHT has none.
LookedUp == FromFile

\* What an error does to a client: establish_with_fallback closes the wormhole,
\* the other commands end.
OnError(c) == IF c \in Fallback THEN "closing" ELSE "failed"

\* create_and_set_code up to create: the address becomes a code, or ValueError.
Resolve(c) ==
    /\ manager[c].pc = "start"
    /\ manager' = [manager EXCEPT ![c].code = LookedUp,
                                ![c].pc = IF LookedUp = None THEN OnError(c) ELSE "resolved"]
    /\ UNCHANGED <<server, shutdown, file, box>>

\* create_and_set_code_deferred: the wormhole claims its code.  Any number may be
\* there (relay/mailbox.py admits every side), but a wormhole takes the first key
\* exchange it finds: who comes third, before the first two released the code,
\* shares a key with none of them and gets an error.
Join(c) ==
    LET parties == box[Relay(c)][manager[c].code] IN
    /\ manager[c].pc = "resolved"
    /\ \/ /\ Cardinality(parties) < 2
          /\ box' = [box EXCEPT ![Relay(c)][manager[c].code] = @ \cup {c}]
          /\ manager' = [manager EXCEPT ![c].pc = "waiting"]
       \/ /\ Cardinality(parties) >= 2
          /\ manager' = [manager EXCEPT ![c].pc = OnError(c)]
          /\ UNCHANGED box
    /\ UNCHANGED <<server, shutdown, file>>

\* External: the two parties exchange keys and versions and release the code,
\* which is free then: who claims it next gets another mailbox.
Meet(r, t) ==
    \E b \in box[r][t] \ {Server} : \E a \in box[r][t] \ {b} :
      /\ manager' = [c \in Clients |->
                      IF c = a THEN [manager[c] EXCEPT !.met = b]
                      ELSE IF c = b THEN [manager[c] EXCEPT !.met = a]
                      ELSE manager[c]]
      /\ server' = IF a = Server THEN [server EXCEPT !.met = b] ELSE server
      /\ box' = [box EXCEPT ![r][t] = @ \ {a, b}]
      /\ UNCHANGED <<shutdown, file>>

\* Wrong form: establish returns the versions it has, whoever sent them.
VersionsKept(c) ==
    IF manager[c].versions # None THEN manager[c].versions ELSE manager[c].relay

\* The answer of get_versions: the versions of the peer of this attempt.
Versions(c) == manager[c].relay

\* verify_connection: the versions of a peer arrived; it may have left since.
Verify(c) ==
    /\ manager[c].pc = "waiting" /\ manager[c].met # None
    /\ manager' = [manager EXCEPT ![c].versions = Versions(c), ![c].pc = "established"]
    /\ UNCHANGED <<server, shutdown, file, box>>

\* establish's timeout, of a client that gave one; or the wormhole's error.
GiveUp(c) ==
    /\ manager[c].pc = "waiting" /\ c \in Fallback
    /\ manager' = [manager EXCEPT ![c].pc = "closing"]
    /\ UNCHANGED <<server, shutdown, file, box>>

\* The abandoned get_versions answers before the wormhole is closed: nobody
\* awaits it, but verify_connection_deferred still assigns _versions.
LateVersions(c) ==
    /\ manager[c].pc = "closing" /\ manager[c].met # None
    /\ manager' = [manager EXCEPT ![c].versions = manager[c].relay]
    /\ UNCHANGED <<server, shutdown, file, box>>

\* Wrong form: the index stays, the same relay is tried again.
NextRelayStuck(c) == [manager[c] EXCEPT !.pc = "start", !.code = None, !.met = None]

\* Wrong form: the index may pass the end of the list.
NextRelayPast(c) ==
    IF manager[c].relay <= Len(manager[c].relays)
    THEN [manager[c] EXCEPT !.pc = "start", !.code = None, !.met = None, !.relay = @ + 1]
    ELSE [manager[c] EXCEPT !.pc = "failed", !.code = None, !.met = None]

\* _try_next_relay, after close_deferred reset the wormhole and the code but
\* not _versions.
NextRelay(c) ==
    IF manager[c].relay < Len(manager[c].relays)
    THEN [manager[c] EXCEPT !.pc = "start", !.code = None, !.met = None, !.relay = @ + 1]
    ELSE [manager[c] EXCEPT !.pc = "failed", !.code = None, !.met = None]

Leave(c) ==
    IF manager[c].code = None THEN box
    ELSE [box EXCEPT ![Relay(c)][manager[c].code] = @ \ {c}]

CloseAttempt(c) ==
    /\ manager[c].pc = "closing"
    /\ box' = Leave(c)
    /\ manager' = [manager EXCEPT ![c] = NextRelay(c)]
    /\ UNCHANGED <<server, shutdown, file>>

\* dilate_deferred with the versions known: wait for the dilated wormhole.
Dilate(c) ==
    /\ manager[c].pc = "established"
    /\ manager' = [manager EXCEPT ![c].pc = "dilated"]
    /\ UNCHANGED <<server, shutdown, file, box>>

\* The command ends: __aexit__ closes the wormhole.
Finish(c) ==
    /\ manager[c].pc = "dilated"
    /\ box' = Leave(c)
    /\ manager' = [manager EXCEPT ![c].pc = "done", ![c].code = None, ![c].met = None]
    /\ UNCHANGED <<server, shutdown, file>>
-----------------------------------------------------------------------------
ServerStep ==
    \/ Allocate \/ StopLoop \/ OpenFile \/ WriteFile \/ Accept \/ EndService \/ CloseServer

ClientStep(c) ==
    \/ Create(c) \/ Resolve(c) \/ Join(c) \/ Verify(c) \/ GiveUp(c) \/ LateVersions(c)
    \/ CloseAttempt(c) \/ Dilate(c) \/ Finish(c)

Next ==
    \/ ServerStep \/ Expire \/ Shutdown
    \/ \E r \in Relays, t \in Turns : Meet(r, t)
    \/ \E c \in Clients : ClientStep(c)

Spec == Init /\ [][Next]_vars

\* The event loop runs what is ready, and the timeout of a fallback attempt
\* goes off; how long a peer stays is up to the peer.
Fairness ==
    \A c \in Clients :
      /\ WF_vars(Resolve(c)) /\ WF_vars(Join(c)) /\ WF_vars(CloseAttempt(c))
      /\ WF_vars(GiveUp(c) \/ Verify(c))
-----------------------------------------------------------------------------
ServerStates == {"loop", "allocated", "writing", "dilating", "serving", "failed", "closing",
                 "stopped"}
ClientStates == {"new", "start", "resolved", "waiting", "established", "dilated", "closing", "done",
                 "failed"}

Parties == Clients \cup {Server}
Advertisements == [code : Turns, state : {"torn", "valid", "expired"}]

Managers ==
    [pc : ClientStates, relays : Lists \cup {<<Home>>}, relay : Nat, code : Turns \cup {None},
     versions : Nat \cup {None}, met : Parties \cup {None}]

Servers == [pc : ServerStates, turn : 0 .. MaxTurns, fresh : BOOLEAN, met : Parties \cup {None}]

TypeOK ==
    /\ server \in Servers
    /\ shutdown \in BOOLEAN
    /\ file \in Advertisements \cup {None}
    /\ box \in [Relays -> [Turns -> SUBSET Parties]]
    /\ manager \in [Clients -> Managers]
    /\ \A c \in Clients :
         /\ manager[c].relays \in IF manager[c].pc = "new" THEN {<<Home>>} ELSE RelayLists[c]
         /\ manager[c].relay \in DOMAIN manager[c].relays
         /\ manager[c].versions \in DOMAIN manager[c].relays \cup {None}

\* The versions a connected client uses are those of the peer it is connected
\* to now: never an answer of an attempt it gave up, although close leaves
\* _versions in place and the abandoned call still assigns it.
VersionsAreCurrent ==
    \A c \in Clients : manager[c].pc \in {"established", "dilated"} =>
        manager[c].versions = manager[c].relay

\* While the server waits under a code it managed to publish, the file is not
\* torn and a client that finds the advertisement valid gets that very code.
FreshCode ==
    server.pc \in {"dilating", "serving"} /\ server.fresh =>
        /\ file.state # "torn"
        /\ LookedUp \in {None, server.turn}

\* The inductive invariant of FreshCode: who publishes rewrites the file first.
Published ==
    /\ server.pc \in {"allocated", "writing"} => ~server.fresh
    /\ server.pc \in {"dilating", "serving"} /\ server.fresh =>
         file # None /\ file.code = server.turn /\ file.state # "torn"

\* Who is about to use a code has one.
Numbered ==
    /\ server.pc \notin {"loop", "stopped"} => server.turn > 0
    /\ \A c \in Clients : manager[c].pc = "resolved" => manager[c].code # None

WnsInv == TypeOK /\ VersionsAreCurrent /\ Published /\ Numbered

\* establish_with_fallback ends, connected or with every relay tried.
FallbackEnds ==
    \A c \in Fallback :
        manager[c].pc = "start" ~> manager[c].pc \in {"established", "dilated", "done", "failed"}
=============================================================================
