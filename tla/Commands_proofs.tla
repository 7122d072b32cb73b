-------------------------- MODULE Commands_proofs --------------------------
(***************************************************************************)
(* What is proved about the command line: the named server and its clients *)
(* (Wns), rsync, the tools and the files under ~/.wh, and from them and    *)
(* CommandStreams_proofs the theorems about a user's command.              *)
(***************************************************************************)
EXTENDS CommandStreams_proofs

LEMMA WnsRelay ==
    ASSUME W!TypeOK, NEW c \in Clients
    PROVE  /\ manager[c].relays \in Seq(W!Relays) /\ manager[c].relays # <<>>
           /\ W!Relay(c) \in W!Relays /\ manager[c].relay \in Nat
<1>1. <<Home>> \in Seq(W!Relays) /\ <<Home>> # <<>>
  <2>1. Home \in W!Relays
    BY DEF W!Relays
  <2> QED BY <2>1
<1>2. /\ manager[c].relays \in Seq(W!Relays) /\ manager[c].relays # <<>>
      /\ manager[c].relay \in DOMAIN manager[c].relays
  BY <1>1, WnsAssumption DEF W!TypeOK
<1>3. manager[c].relay \in 1 .. Len(manager[c].relays)
  BY <1>2, LenProperties
<1>4. manager[c].relays[manager[c].relay] \in W!Relays
  BY <1>2, <1>3, ElementOfSeq
<1> QED BY <1>2, <1>3, <1>4 DEF W!Relay

\* A client's manager after a step, and what it takes to be well typed.
LEMMA WnsManager ==
    ASSUME W!TypeOK, NEW c \in Clients, NEW m \in W!Managers,
           m.relays \in IF m.pc = "new" THEN {<<Home>>} ELSE RelayLists[c],
           m.relay \in DOMAIN m.relays,
           m.versions \in DOMAIN m.relays \cup {None},
           manager' = [manager EXCEPT ![c] = m]
    PROVE  /\ manager' \in [Clients -> W!Managers]
           /\ \A d \in Clients :
                /\ manager'[d].relays \in IF manager'[d].pc = "new" THEN {<<Home>>} ELSE RelayLists[d]
                /\ manager'[d].relay \in DOMAIN manager'[d].relays
                /\ manager'[d].versions \in DOMAIN manager'[d].relays \cup {None}
<1>1. manager' \in [Clients -> W!Managers]
  BY DEF W!TypeOK
<1>2. manager'[c] = m /\ \A d \in Clients : d # c => manager'[d] = manager[d]
  BY DEF W!TypeOK
<1> QED BY <1>1, <1>2 DEF W!TypeOK

\* Two wormholes that meet: the state of nobody's loop or attempt changes.
LEMMA WnsMet ==
    ASSUME W!TypeOK, NEW r \in W!Relays, NEW t \in W!Turns, W!Meet(r, t)
    PROVE  /\ server' \in W!Servers /\ manager' \in [Clients -> W!Managers]
           /\ server'.pc = server.pc /\ server'.turn = server.turn /\ server'.fresh = server.fresh
           /\ \A c \in Clients :
                /\ manager'[c].pc = manager[c].pc /\ manager'[c].relays = manager[c].relays
                /\ manager'[c].relay = manager[c].relay /\ manager'[c].code = manager[c].code
                /\ manager'[c].versions = manager[c].versions
<1> PICK a \in W!Parties, b \in W!Parties :
      /\ manager' = [c \in Clients |->
                      IF c = a THEN [manager[c] EXCEPT !.met = b]
                      ELSE IF c = b THEN [manager[c] EXCEPT !.met = a]
                      ELSE manager[c]]
      /\ server' = IF a = Server THEN [server EXCEPT !.met = b] ELSE server
  <2>1. box[r][t] \subseteq W!Parties
    BY DEF W!TypeOK
  <2> QED BY <2>1 DEF W!Meet
<1>2. /\ server' \in W!Servers
      /\ server'.pc = server.pc /\ server'.turn = server.turn /\ server'.fresh = server.fresh
  <2>1. server \in W!Servers
    BY DEF W!TypeOK
  <2>2. server' \in {server, [server EXCEPT !.met = b]}
    OBVIOUS
  <2> QED BY <2>1, <2>2 DEF W!Servers
<1>3. ASSUME NEW c \in Clients
      PROVE  /\ manager'[c] \in W!Managers
             /\ manager'[c].pc = manager[c].pc /\ manager'[c].relays = manager[c].relays
             /\ manager'[c].relay = manager[c].relay /\ manager'[c].code = manager[c].code
             /\ manager'[c].versions = manager[c].versions
  <2>1. manager[c] \in W!Managers
    BY DEF W!TypeOK
  <2>2. PICK p \in W!Parties : manager'[c] \in {manager[c], [manager[c] EXCEPT !.met = p]}
    OBVIOUS
  <2> QED BY <2>1, <2>2 DEF W!Managers
<1>4. manager' \in [Clients -> W!Managers]
  BY <1>3
<1> QED BY <1>2, <1>3, <1>4

LEMMA WnsInit == W!Init => W!WnsInv
<1> SUFFICES ASSUME W!Init PROVE W!WnsInv
  OBVIOUS
<1> DEFINE new == [W!NewManager(<<Home>>) EXCEPT !.pc = "new"]
<1>1. /\ new.pc = "new" /\ new.relays = <<Home>> /\ new.relay = 1 /\ new.code = None
      /\ new.versions = None /\ new \in W!Managers
  BY DEF W!NewManager, W!Managers, W!ClientStates
<1>2. 1 \in DOMAIN <<Home>>
  OBVIOUS
<1>3. /\ \A c \in Clients : manager[c] = new
      /\ \A r \in W!Relays, t \in W!Turns : box[r][t] = {}
      /\ server = [pc |-> "loop", turn |-> 0, fresh |-> FALSE, met |-> None]
      /\ file = None
  BY DEF W!Init
<1> HIDE DEF new
<1>4. W!TypeOK
  <2>1. /\ manager \in [Clients -> W!Managers]
        /\ box \in [W!Relays -> [W!Turns -> SUBSET W!Parties]]
        /\ shutdown \in BOOLEAN
    BY <1>1 DEF W!Init, new
  <2>2. server \in W!Servers
    BY <1>3, BoundAssumption DEF W!ServerStates, W!Servers
  <2> QED BY <1>1, <1>2, <1>3, <2>1, <2>2 DEF W!TypeOK
<1>5. W!VersionsAreCurrent
  BY <1>1, <1>3 DEF W!VersionsAreCurrent
<1>6. W!Published
  BY <1>3 DEF W!Published
<1>7. W!Numbered
  BY <1>1, <1>3 DEF W!Numbered
<1> QED BY <1>4, <1>5, <1>6, <1>7 DEF W!WnsInv

LEMMA WnsTypes == ASSUME W!WnsInv, W!Next PROVE W!TypeOK'
<1>1. W!TypeOK /\ W!Numbered
  BY DEF W!WnsInv
<1>2. Home \in W!Relays /\ Server \in W!Parties /\ Clients \subseteq W!Parties
  BY DEF W!Relays, W!Parties
<1>3. CASE W!Allocate
  <2>1. server.turn + 1 \in 0 .. MaxTurns /\ server.turn + 1 \in W!Turns
    BY <1>1, <1>3, BoundAssumption DEF W!Allocate, W!TypeOK, W!Turns, W!Servers
  <2>2. box' \in [W!Relays -> [W!Turns -> SUBSET W!Parties]]
    <3>1. CASE box' = [box EXCEPT ![Home][server.turn + 1] = @ \cup {Server}]
      BY <1>1, <1>2, <2>1, <3>1 DEF W!TypeOK
    <3>2. CASE UNCHANGED box
      BY <1>1, <3>2 DEF W!TypeOK
    <3> QED BY <1>3, <3>1, <3>2 DEF W!Allocate
  <2>3. server' \in W!Servers
    <3>1. PICK s \in {"allocated", "failed"} :
            server' = [pc |-> s, turn |-> server.turn + 1, fresh |-> FALSE, met |-> None]
      BY <1>3 DEF W!Allocate
    <3> QED BY <2>1, <3>1 DEF W!ServerStates, W!Servers
  <2> QED BY <1>1, <1>3, <2>2, <2>3 DEF W!Allocate, W!TypeOK
<1>4. CASE W!StopLoop \/ W!EndService \/ W!Shutdown \/ W!Accept
  BY <1>1, <1>4 DEF W!StopLoop, W!EndService, W!Shutdown, W!Accept, W!TypeOK, W!ServerStates,
                    W!Servers
<1>5. CASE W!OpenFile \/ W!WriteFile
  <2>1. server.turn \in W!Turns
    BY <1>1, <1>5 DEF W!OpenFile, W!WriteFile, W!Numbered, W!TypeOK, W!Turns, W!Servers
  <2>2. file' \in W!Advertisements \cup {None}
    BY <1>1, <1>5, <2>1 DEF W!OpenFile, W!WriteFile, W!TypeOK, W!Advertised, W!Advertisements
  <2>3. server' \in W!Servers
    <3>1. server \in W!Servers
      BY <1>1 DEF W!TypeOK
    <3>2. CASE W!OpenFile
      BY <3>1, <3>2 DEF W!OpenFile, W!ServerStates, W!Servers
    <3>3. CASE W!WriteFile
      BY <3>1, <3>3 DEF W!WriteFile, W!ServerStates, W!Servers
    <3> QED BY <1>5, <3>2, <3>3
  <2> QED BY <1>1, <1>5, <2>2, <2>3 DEF W!OpenFile, W!WriteFile, W!TypeOK
<1>6. CASE W!Expire
  BY <1>1, <1>6 DEF W!Expire, W!TypeOK, W!Advertisements
<1>7. CASE W!CloseServer
  <2>1. server.turn \in W!Turns
    BY <1>1, <1>7 DEF W!CloseServer, W!Numbered, W!TypeOK, W!Turns, W!Servers
  <2>2. box' \in [W!Relays -> [W!Turns -> SUBSET W!Parties]]
    BY <1>1, <1>2, <1>7, <2>1 DEF W!CloseServer, W!TypeOK
  <2> QED BY <1>1, <1>7, <2>2 DEF W!CloseServer, W!TypeOK, W!ServerStates, W!Servers
<1>8. ASSUME NEW c \in Clients, W!ClientStep(c) PROVE W!TypeOK'
  <2> DEFINE old == manager[c]
  <2>1. /\ old \in W!Managers /\ old.pc \in W!ClientStates /\ old.relay \in Nat
        /\ old.pc # "new" => old.relays \in RelayLists[c]
        /\ old.relay \in DOMAIN old.relays
        /\ old.versions \in DOMAIN old.relays \cup {None}
        /\ W!Relay(c) \in W!Relays
        /\ manager \in [Clients -> W!Managers]
    BY <1>1, WnsRelay DEF W!TypeOK, W!Managers
  <2>2. CASE W!Create(c)
    <3> PICK list \in RelayLists[c] : manager' = [manager EXCEPT ![c] = W!NewManager(list)]
      BY <2>2 DEF W!Create
    <3> DEFINE m == W!NewManager(list)
    <3>1. list \in Seq(W!Relays) /\ list # <<>> /\ list \in W!Lists
      BY WnsAssumption DEF W!Lists
    <3>2. 1 \in DOMAIN list
      BY <3>1, EmptySeq, LenProperties
    <3>3. /\ m.pc = "start" /\ m.relays = list /\ m.relay = 1 /\ m.versions = None
          /\ m \in W!Managers
      BY <3>1 DEF W!NewManager, W!Managers, W!ClientStates
    <3> HIDE DEF m
    <3>4. manager' = [manager EXCEPT ![c] = m]
      BY DEF m
    <3> QED BY <1>1, <2>2, <3>2, <3>3, <3>4, WnsManager DEF W!Create, W!TypeOK
  <2>3. CASE W!Resolve(c)
    <3> DEFINE m == [old EXCEPT !.code = W!LookedUp,
                                !.pc = IF W!LookedUp = None THEN W!OnError(c) ELSE "resolved"]
    <3>1. W!LookedUp \in W!Turns \cup {None} /\ W!OnError(c) \in W!ClientStates \ {"new"}
      BY <1>1 DEF W!LookedUp, W!FromFile, W!TypeOK, W!Advertisements, W!OnError, W!ClientStates
    <3>2. /\ m.pc # "new" /\ m.relays = old.relays /\ m.relay = old.relay
          /\ m.versions = old.versions /\ m \in W!Managers
      BY ZenonT(60), <2>1, <3>1 DEF W!Managers, W!ClientStates
    <3>3. manager' = [manager EXCEPT ![c] = m] /\ old.pc # "new"
      BY <2>1, <2>3 DEF W!Resolve
    <3> HIDE DEF m
    <3> QED BY <1>1, <2>1, <2>3, <3>2, <3>3, WnsManager DEF W!Resolve, W!TypeOK
  <2>4. CASE W!Join(c)
    <3>1. old.code \in W!Turns /\ old.pc = "resolved"
      BY <1>1, <2>1, <2>4 DEF W!Join, W!Numbered, W!Managers
    <3>2. box' \in [W!Relays -> [W!Turns -> SUBSET W!Parties]]
      <4>1. \/ box' = [box EXCEPT ![W!Relay(c)][old.code] = @ \cup {c}]
            \/ UNCHANGED box
        BY <2>4 DEF W!Join
      <4> QED BY <1>1, <1>2, <2>1, <3>1, <4>1 DEF W!TypeOK
    <3> PICK s \in {"waiting", W!OnError(c)} : manager' = [manager EXCEPT ![c].pc = s]
      BY <2>4 DEF W!Join
    <3> DEFINE m == [old EXCEPT !.pc = s]
    <3>3. s \in W!ClientStates \ {"new"}
      BY DEF W!OnError, W!ClientStates
    <3>4. /\ m.pc # "new" /\ m.relays = old.relays /\ m.relay = old.relay
          /\ m.versions = old.versions /\ m \in W!Managers
      BY <2>1, <3>3 DEF W!Managers
    <3>5. manager' = [manager EXCEPT ![c] = m]
      BY <2>1
    <3> HIDE DEF m
    <3> QED BY <1>1, <2>1, <2>4, <3>1, <3>2, <3>4, <3>5, WnsManager DEF W!Join, W!TypeOK
  <2>5. CASE W!Verify(c)
    <3> DEFINE m == [old EXCEPT !.versions = W!Versions(c), !.pc = "established"]
    <3>2. /\ m.pc # "new" /\ m.relays = old.relays /\ m.relay = old.relay
          /\ m.versions = old.relay /\ m \in W!Managers
      BY <2>1 DEF W!Managers, W!ClientStates, W!Versions
    <3>3. manager' = [manager EXCEPT ![c] = m] /\ old.pc # "new"
      BY <2>1, <2>5 DEF W!Verify
    <3> HIDE DEF m
    <3>4. UNCHANGED <<server, shutdown, file, box>>
      BY <2>5 DEF W!Verify
    <3>5. /\ m.relays \in IF m.pc = "new" THEN {<<Home>>} ELSE RelayLists[c]
          /\ m.relay \in DOMAIN m.relays /\ m.versions \in DOMAIN m.relays \cup {None}
      BY <2>1, <3>2, <3>3
    <3> QED BY <1>1, <3>2, <3>3, <3>4, <3>5, WnsManager DEF W!TypeOK
  <2>6. CASE W!GiveUp(c) \/ W!Dilate(c) \/ W!LateVersions(c)
    <3> PICK m \in {[old EXCEPT !.pc = "closing"], [old EXCEPT !.pc = "dilated"],
                    [old EXCEPT !.versions = old.relay]} : manager' = [manager EXCEPT ![c] = m]
      BY <2>1, <2>6 DEF W!GiveUp, W!Dilate, W!LateVersions
    <3>1. old.pc # "new"
      BY <2>6 DEF W!GiveUp, W!Dilate, W!LateVersions
    <3>2. /\ m.pc # "new" /\ m.relays = old.relays /\ m.relay = old.relay
          /\ m.versions \in DOMAIN old.relays \cup {None} /\ m \in W!Managers
      BY <2>1, <3>1 DEF W!Managers, W!ClientStates
    <3> QED BY <1>1, <2>1, <2>6, <3>1, <3>2, WnsManager
            DEF W!GiveUp, W!Dilate, W!LateVersions, W!TypeOK
  <2>7. W!Leave(c) \in [W!Relays -> [W!Turns -> SUBSET W!Parties]]
    <3>1. CASE old.code = None
      BY <1>1, <3>1 DEF W!Leave, W!TypeOK
    <3>2. CASE old.code \in W!Turns
      BY <1>1, <2>1, <3>2 DEF W!Leave, W!TypeOK
    <3> QED BY <2>1, <3>1, <3>2 DEF W!Managers
  <2>8. CASE W!CloseAttempt(c)
    <3> DEFINE m == W!NextRelay(c)
    <3>1. old.relay < Len(old.relays) => old.relay + 1 \in DOMAIN old.relays
      <4>1. old.relays \in Seq(W!Relays)
        BY <1>1, WnsRelay
      <4> QED BY <2>1, <4>1, LenProperties
    <3>2. /\ m.pc # "new" /\ m.relays = old.relays /\ m.relay \in DOMAIN old.relays
          /\ m.versions = old.versions /\ m \in W!Managers
      <4>1. CASE old.relay < Len(old.relays)
        <5>1. old.relay + 1 \in Nat
          BY <2>1
        <5>2. m = [old EXCEPT !.pc = "start", !.code = None, !.met = None, !.relay = old.relay + 1]
          BY <4>1 DEF W!NextRelay
        <5>3. /\ m.pc = "start" /\ m.relays = old.relays /\ m.relay = old.relay + 1
              /\ m.versions = old.versions
          BY <2>1, <5>2 DEF W!Managers
        <5>4. m \in W!Managers
          BY <2>1, <5>1, <5>2 DEF W!Managers, W!ClientStates
        <5> QED BY <3>1, <4>1, <5>3, <5>4
      <4>2. CASE ~(old.relay < Len(old.relays))
        BY <2>1, <4>2 DEF W!Managers, W!ClientStates, W!NextRelay
      <4> QED BY <4>1, <4>2
    <3>3. manager' = [manager EXCEPT ![c] = m] /\ old.pc # "new"
      BY <2>8 DEF W!CloseAttempt
    <3> HIDE DEF m
    <3> QED BY <1>1, <2>1, <2>7, <2>8, <3>2, <3>3, WnsManager DEF W!CloseAttempt, W!TypeOK
  <2>9. CASE W!Finish(c)
    <3> DEFINE m == [old EXCEPT !.pc = "done", !.code = None, !.met = None]
    <3>1. /\ m.pc # "new" /\ m.relays = old.relays /\ m.relay = old.relay
          /\ m.versions = old.versions /\ m \in W!Managers
      BY <2>1 DEF W!Managers, W!ClientStates
    <3>2. manager' = [manager EXCEPT ![c] = m] /\ old.pc # "new"
      BY <2>1, <2>9 DEF W!Finish
    <3> HIDE DEF m
    <3>3. UNCHANGED <<server, shutdown, file>> /\ box' = W!Leave(c)
      BY <2>9 DEF W!Finish
    <3>4. /\ m.relays \in IF m.pc = "new" THEN {<<Home>>} ELSE RelayLists[c]
          /\ m.relay \in DOMAIN m.relays /\ m.versions \in DOMAIN m.relays \cup {None}
      BY <2>1, <3>1, <3>2
    <3> QED BY <1>1, <2>7, <3>1, <3>2, <3>3, <3>4, WnsManager DEF W!TypeOK
  <2> QED BY <1>8, <2>2, <2>3, <2>4, <2>5, <2>6, <2>8, <2>9 DEF W!ClientStep
<1>9. ASSUME NEW r \in W!Relays, NEW t \in W!Turns, W!Meet(r, t) PROVE W!TypeOK'
  <2>1. box' \in [W!Relays -> [W!Turns -> SUBSET W!Parties]]
    BY <1>1, <1>9 DEF W!Meet, W!TypeOK
  <2>2. UNCHANGED <<shutdown, file>>
    BY <1>9 DEF W!Meet
  <2> QED BY <1>1, <1>9, <2>1, <2>2, WnsMet DEF W!TypeOK
<1> QED BY <1>3, <1>4, <1>5, <1>6, <1>7, <1>8, <1>9 DEF W!Next, W!ServerStep

\* The facts a step has to keep besides the types.
LEMMA WnsVersions == ASSUME W!WnsInv, W!Next PROVE W!VersionsAreCurrent'
<1>1. W!TypeOK /\ W!VersionsAreCurrent
  BY DEF W!WnsInv
<1>2. CASE W!ServerStep \/ W!Expire \/ W!Shutdown
  <2>1. manager' = manager
    BY <1>2 DEF W!ServerStep, W!Allocate, W!StopLoop, W!OpenFile, W!WriteFile, W!Accept,
                W!EndService, W!CloseServer, W!Expire, W!Shutdown
  <2> QED BY <1>1, <2>1 DEF W!VersionsAreCurrent
<1>3. ASSUME NEW c \in Clients, W!ClientStep(c), NEW d \in Clients,
             manager'[d].pc \in {"established", "dilated"}
      PROVE  manager'[d].versions = manager'[d].relay
  <2>1. manager \in [Clients -> W!Managers]
    BY <1>1 DEF W!TypeOK
  <2>2. CASE W!Join(c)
    <3>1. d # c
      BY <1>3, <2>1, <2>2 DEF W!Join, W!OnError, W!Managers
    <3>2. manager'[d] = manager[d]
      BY <2>1, <2>2, <3>1 DEF W!Join
    <3> QED BY <1>1, <1>3, <3>2 DEF W!VersionsAreCurrent
  <2>3. CASE W!Create(c)
    <3>1. d # c
      BY <1>3, <2>1, <2>3 DEF W!Create, W!NewManager
    <3>2. manager'[d] = manager[d]
      BY <2>1, <2>3, <3>1 DEF W!Create
    <3> QED BY <1>1, <1>3, <3>2 DEF W!VersionsAreCurrent
  <2>4. CASE W!Resolve(c)
    <3>1. d # c
      BY <1>3, <2>1, <2>4 DEF W!Resolve, W!OnError, W!Managers
    <3>2. manager'[d] = manager[d]
      BY <2>1, <2>4, <3>1 DEF W!Resolve
    <3> QED BY <1>1, <1>3, <3>2 DEF W!VersionsAreCurrent
  <2>5. CASE W!Verify(c)
    BY <1>1, <1>3, <2>1, <2>5 DEF W!Verify, W!Versions, W!VersionsAreCurrent, W!Managers
  <2>6. CASE W!GiveUp(c) \/ W!Dilate(c) \/ W!LateVersions(c) \/ W!Finish(c)
    BY <1>1, <1>3, <2>1, <2>6
       DEF W!GiveUp, W!Dilate, W!LateVersions, W!Finish, W!VersionsAreCurrent, W!Managers
  <2>7. CASE W!CloseAttempt(c)
    <3>1. W!NextRelay(c).pc \in {"start", "failed"}
      BY <2>1 DEF W!NextRelay, W!Managers
    <3>2. d # c
      BY <1>3, <2>1, <2>7, <3>1 DEF W!CloseAttempt
    <3>3. manager'[d] = manager[d]
      BY <2>1, <2>7, <3>2 DEF W!CloseAttempt
    <3> QED BY <1>1, <1>3, <3>3 DEF W!VersionsAreCurrent
  <2> QED BY <1>3, <2>2, <2>3, <2>4, <2>5, <2>6, <2>7 DEF W!ClientStep
<1>4. ASSUME NEW c \in Clients, W!ClientStep(c) PROVE W!VersionsAreCurrent'
  BY <1>3, <1>4 DEF W!VersionsAreCurrent
<1>5. ASSUME NEW r \in W!Relays, NEW t \in W!Turns, W!Meet(r, t) PROVE W!VersionsAreCurrent'
  BY <1>1, <1>5, WnsMet DEF W!VersionsAreCurrent
<1> QED BY <1>2, <1>4, <1>5 DEF W!Next

LEMMA WnsTurn ==
    ASSUME W!WnsInv, server.pc \notin {"loop", "stopped"}
    PROVE  server.turn \in W!Turns
BY DEF W!WnsInv, W!TypeOK, W!Numbered, W!Turns, W!Servers

LEMMA WnsPublished == ASSUME W!WnsInv, W!Next PROVE W!Published'
<1>1. W!TypeOK /\ W!Published
  BY DEF W!WnsInv
<1>2. CASE W!Allocate
  BY <1>2 DEF W!Allocate, W!Published
<1>3. CASE W!StopLoop \/ W!Accept \/ W!EndService \/ W!CloseServer \/ W!Shutdown
  BY <1>1, <1>3 DEF W!StopLoop, W!Accept, W!EndService, W!CloseServer, W!Shutdown, W!Published,
                    W!TypeOK, W!Servers
<1>4. CASE W!OpenFile
  BY <1>1, <1>4 DEF W!OpenFile, W!Published, W!TypeOK, W!Servers
<1>5. CASE W!WriteFile
  <2>1. server.turn \in W!Turns
    BY <1>5, WnsTurn DEF W!WriteFile
  <2>2. [code |-> server.turn, state |-> "valid"] # None
    BY <2>1, NoneAssumption DEF W!Advertisements
  <2>3. /\ server'.pc = "dilating" /\ (server'.fresh => server'.fresh = TRUE)
        /\ server'.turn = server.turn
    BY <1>1, <1>5 DEF W!WriteFile, W!TypeOK, W!Servers
  <2>4. CASE file' = [code |-> server.turn, state |-> "valid"]
    BY <2>2, <2>3, <2>4 DEF W!Published
  <2>5. CASE ~server'.fresh
    BY <2>3, <2>5 DEF W!Published
  <2>6. ~server.fresh
    BY <1>1, <1>5 DEF W!WriteFile, W!Published
  <2> QED BY <1>1, <1>5, <2>4, <2>5, <2>6
         DEF W!WriteFile, W!TypeOK, W!Servers, W!Advertised
<1>6. CASE W!Expire
  <2>1. file \in W!Advertisements
    BY <1>1, <1>6 DEF W!Expire, W!TypeOK, W!Servers
  <2>2. file'.code = file.code /\ file'.state = "expired" /\ file' \in W!Advertisements
    BY <1>6, <2>1 DEF W!Expire, W!Advertisements
  <2>3. file' # None
    BY <2>2, NoneAssumption
  <2> QED BY <1>1, <1>6, <2>2, <2>3 DEF W!Expire, W!Published
<1>7. ASSUME NEW c \in Clients, W!ClientStep(c) PROVE W!Published'
  <2>1. UNCHANGED <<server, file>>
    BY <1>7 DEF W!ClientStep, W!Create, W!Resolve, W!Join, W!Verify, W!GiveUp, W!LateVersions,
                W!CloseAttempt, W!Dilate, W!Finish
  <2> QED BY <1>1, <2>1 DEF W!Published
<1>8. ASSUME NEW r \in W!Relays, NEW t \in W!Turns, W!Meet(r, t) PROVE W!Published'
  <2>1. UNCHANGED file
    BY <1>8 DEF W!Meet
  <2> QED BY <1>1, <1>8, <2>1, WnsMet DEF W!Published
<1> QED BY <1>2, <1>3, <1>4, <1>5, <1>6, <1>7, <1>8 DEF W!Next, W!ServerStep

LEMMA WnsNumbered == ASSUME W!WnsInv, W!Next PROVE W!Numbered'
<1>1. W!TypeOK /\ W!Numbered
  BY DEF W!WnsInv
<1>2. CASE W!ServerStep \/ W!Expire \/ W!Shutdown
  <2>1. UNCHANGED manager
    BY <1>2 DEF W!ServerStep, W!Allocate, W!StopLoop, W!OpenFile, W!WriteFile, W!Accept,
                W!EndService, W!CloseServer, W!Expire, W!Shutdown
  <2>2. CASE W!Allocate
    BY <1>1, <2>1, <2>2 DEF W!Allocate, W!Numbered, W!TypeOK, W!Servers
  <2>3. CASE ~W!Allocate
    <3>1. /\ server'.turn = server.turn
          /\ server'.pc \notin {"loop", "stopped"} => server.pc \notin {"loop", "stopped"}
      BY <1>1, <1>2, <2>3
         DEF W!ServerStep, W!StopLoop, W!OpenFile, W!WriteFile, W!Accept, W!EndService,
             W!CloseServer, W!Expire, W!Shutdown, W!TypeOK, W!Servers
    <3> QED BY <1>1, <2>1, <3>1 DEF W!Numbered
  <2> QED BY <2>2, <2>3
<1>3. ASSUME NEW c \in Clients, W!ClientStep(c) PROVE W!Numbered'
  <2>1. UNCHANGED server /\ manager \in [Clients -> W!Managers]
    BY <1>1, <1>3 DEF W!ClientStep, W!Create, W!Resolve, W!Join, W!Verify, W!GiveUp,
                      W!LateVersions, W!CloseAttempt, W!Dilate, W!Finish, W!TypeOK
  <2>2. ASSUME NEW d \in Clients, manager'[d].pc = "resolved" PROVE manager'[d].code # None
    <3>1. CASE d # c
      <4>1. manager'[d] = manager[d]
        BY <1>3, <2>1, <3>1
           DEF W!ClientStep, W!Create, W!Resolve, W!Join, W!Verify, W!GiveUp, W!LateVersions,
               W!CloseAttempt, W!Dilate, W!Finish
      <4> QED BY <1>1, <2>2, <4>1 DEF W!Numbered
    <3>2. CASE d = c
      <4>1. CASE W!Resolve(c)
        BY <2>1, <2>2, <3>2, <4>1 DEF W!Resolve, W!Managers, W!OnError
      <4>2. CASE W!Create(c)
        BY <2>1, <2>2, <3>2, <4>2 DEF W!Create, W!NewManager
      <4>4. CASE W!Join(c)
        BY <2>1, <2>2, <3>2, <4>4 DEF W!Join, W!OnError, W!Managers
      <4>5. CASE W!Verify(c)
        BY <2>1, <2>2, <3>2, <4>5 DEF W!Verify, W!Managers
      <4>6. CASE W!GiveUp(c) \/ W!LateVersions(c)
        <5>1. manager[c] \in W!Managers /\ manager[c].pc # "resolved"
          BY <2>1, <4>6 DEF W!GiveUp, W!LateVersions
        <5>2. \/ manager' = [manager EXCEPT ![c] = [@ EXCEPT !.pc = "closing"]]
              \/ manager' = [manager EXCEPT ![c] = [@ EXCEPT !.versions = manager[c].relay]]
          BY <2>1, <4>6 DEF W!GiveUp, W!LateVersions
        <5>3. manager'[c].pc # "resolved"
          BY <2>1, <5>1, <5>2 DEF W!Managers
        <5> QED BY <2>2, <3>2, <5>3
      <4>3. CASE W!CloseAttempt(c)
        <5>1. W!NextRelay(c).pc \in {"start", "failed"}
          BY <2>1 DEF W!NextRelay, W!Managers
        <5> QED BY <2>1, <2>2, <3>2, <4>3, <5>1 DEF W!CloseAttempt
      <4>7. CASE W!Dilate(c)
        BY <2>1, <2>2, <3>2, <4>7 DEF W!Dilate, W!Managers
      <4>8. CASE W!Finish(c)
        BY <2>1, <2>2, <3>2, <4>8 DEF W!Finish, W!Managers
      <4> QED BY <1>3, <4>1, <4>2, <4>3, <4>4, <4>5, <4>6, <4>7, <4>8
              DEF W!ClientStep
    <3> QED BY <3>1, <3>2
  <2> QED BY <1>1, <2>1, <2>2 DEF W!Numbered
<1>4. ASSUME NEW r \in W!Relays, NEW t \in W!Turns, W!Meet(r, t) PROVE W!Numbered'
  BY <1>1, <1>4, WnsMet DEF W!Numbered
<1> QED BY <1>2, <1>3, <1>4 DEF W!Next

LEMMA WnsNext == ASSUME W!WnsInv, [W!Next]_(W!vars) PROVE W!WnsInv'
<1>1. CASE W!Next
  BY <1>1, WnsTypes, WnsVersions, WnsPublished, WnsNumbered DEF W!WnsInv
<1>2. CASE UNCHANGED W!vars
  <2>1. UNCHANGED <<server, shutdown, file, box, manager>>
    BY <1>2 DEF W!vars
  <2> QED BY <2>1 DEF W!WnsInv, W!TypeOK, W!VersionsAreCurrent, W!Published, W!Numbered
<1> QED BY <1>1, <1>2

LEMMA WnsFresh == W!WnsInv => W!FreshCode
BY NoneAssumption DEF W!WnsInv, W!Published, W!FreshCode, W!LookedUp, W!FromFile

-----------------------------------------------------------------------------
\* The first message of a stream, and what its type says of it.
LEMMA RsyncHead ==
    ASSUME NEW s \in Seq(R!Messages), s # <<>>
    PROVE  /\ Head(s) \in R!Messages /\ Tail(s) \in Seq(R!Messages) /\ Head(s) = s[1]
           /\ 1 \in 1 .. Len(s)
           /\ Head(s).type = "MANIFEST" => Head(s).listing \in R!Listing
           /\ Head(s).type \in {"REQUEST", "DELETE"} => Head(s).files \in SUBSET Files
           /\ Head(s).type = "FILE" => Head(s).file \in Files /\ Head(s).content \in Contents
<1>1. 1 \in 1 .. Len(s) /\ Head(s) = s[1]
  BY EmptySeq, LenProperties
<1>2. Head(s) \in R!Messages
  BY <1>1, ElementOfSeq
<1>3. Tail(s) \in Seq(R!Messages)
  OBVIOUS
<1> QED BY <1>1, <1>2, <1>3 DEF R!Messages

\* The messages a sender may write.
LEMMA RsyncMessages ==
    /\ \A l \in R!Listing : R!Manifest(l) \in R!Messages
    /\ \A S \in SUBSET Files : R!Request(S) \in R!Messages /\ R!Delete(S) \in R!Messages
    /\ \A f \in Files, x \in Contents : R!File(f, x) \in R!Messages
    /\ R!Finished \in R!Messages
BY DEF R!Manifest, R!Request, R!Delete, R!File, R!Finished, R!Messages

\* The receiver writes in its working directory.
LEMMA RsyncWritten ==
    ASSUME {dest, cwd} \subseteq [Files -> Contents \cup {None, "torn"}],
           NEW S \in SUBSET Files, NEW x \in Contents \cup {None, "torn"}, R!Written(S, x)
    PROVE  /\ {dest', cwd'} \subseteq [Files -> Contents \cup {None, "torn"}]
           /\ inDest => dest' = [f \in Files |-> IF f \in S THEN x ELSE dest[f]]
<1>1. CASE inDest
  BY <1>1 DEF R!Written
<1>2. CASE ~inDest
  BY <1>2 DEF R!Written
<1> QED BY <1>1, <1>2

\* The files of a request come in an order that leaves none out.
LEMMA RsyncOrder ==
    ASSUME NEW S \in SUBSET Files, NEW order \in R!Orders(S)
    PROVE  /\ order \in Seq(S)
           /\ \A f \in S : \E i \in 1 .. Len(order) : order[i] = f
<1>1. IsFiniteSet(S)
  BY RsyncAssumption, FS_Subset
<1>2. R!Cardinality(S) = Cardinality(S)
  BY DEF R!Cardinality, Cardinality
<1>3. R!Cardinality(S) \in Nat
  BY <1>1, <1>2, FS_CardinalityType
<1>4. order \in [1 .. R!Cardinality(S) -> S] /\ S \subseteq {order[i] : i \in DOMAIN order}
  BY DEF R!Orders
<1>5. order \in Seq(S) /\ DOMAIN order = 1 .. Len(order)
  BY <1>3, <1>4
<1> QED BY <1>4, <1>5

\* What the sender writes: the files, the deletions if there are any, and DONE.
LEMMA RsyncSent ==
    ASSUME R!TypeOK, NEW S \in SUBSET Files, NEW order \in R!Orders(S),
           \A f \in S : source[f] # None,
           toReceiver' = <<>> \o [i \in DOMAIN order |-> R!File(order[i], source[order[i]])]
                              \o R!Deletions \o <<R!Finished>>
    PROVE  /\ toReceiver' \in Seq(R!Messages) /\ toReceiver' # <<>>
           /\ \A i \in 1 .. Len(toReceiver') :
                \/ \E f \in S : toReceiver'[i] = R!File(f, source[f]) /\ i # Len(toReceiver')
                \/ /\ i # Len(toReceiver') /\ withDelete /\ R!ToDelete(mine, theirs) # {}
                   /\ toReceiver'[i] = R!Delete(R!ToDelete(mine, theirs))
                \/ toReceiver'[i] = R!Finished /\ i = Len(toReceiver')
           /\ \A f \in S : \E i \in 1 .. Len(toReceiver') : toReceiver'[i] = R!File(f, source[f])
           /\ withDelete /\ R!ToDelete(mine, theirs) # {} =>
                \E i \in 1 .. Len(toReceiver') : toReceiver'[i] = R!Delete(R!ToDelete(mine, theirs))
<1> DEFINE stream == toReceiver'
           files == [i \in DOMAIN order |-> R!File(order[i], source[order[i]])]
           rest == R!Deletions \o <<R!Finished>>
<1>1. order \in Seq(S) /\ \A f \in S : \E i \in 1 .. Len(order) : order[i] = f
  BY RsyncOrder
<1>2. /\ Len(order) \in Nat /\ DOMAIN order = 1 .. Len(order)
      /\ \A i \in 1 .. Len(order) : order[i] \in S
  BY <1>1
<1>3. \A f \in S : R!File(f, source[f]) \in R!Messages
  <2>1. \A f \in S : source[f] \in Contents
    BY DEF R!TypeOK, R!Listing
  <2> QED BY <2>1, RsyncMessages
<1>4. /\ files \in Seq(R!Messages) /\ Len(files) = Len(order)
      /\ \A i \in 1 .. Len(order) : files[i] = R!File(order[i], source[order[i]])
  BY <1>2, <1>3
<1>5. R!ToDelete(mine, theirs) \in SUBSET Files
  BY DEF R!ToDelete
<1>6. /\ R!Deletions \in Seq(R!Messages)
      /\ \/ R!Deletions = <<>> /\ ~(withDelete /\ R!ToDelete(mine, theirs) # {})
         \/ /\ R!Deletions = <<R!Delete(R!ToDelete(mine, theirs))>>
            /\ withDelete /\ R!ToDelete(mine, theirs) # {}
  <2>1. R!Delete(R!ToDelete(mine, theirs)) \in R!Messages
    BY <1>5, RsyncMessages
  <2>2. <<>> \in Seq(R!Messages) /\ <<R!Delete(R!ToDelete(mine, theirs))>> \in Seq(R!Messages)
    BY <2>1
  <2> QED BY <2>2 DEF R!Deletions
<1>7. /\ rest \in Seq(R!Messages) /\ Len(rest) \in {1, 2} /\ rest[Len(rest)] = R!Finished
      /\ Len(rest) = 2 =>
           /\ rest[1] = R!Delete(R!ToDelete(mine, theirs))
           /\ withDelete /\ R!ToDelete(mine, theirs) # {}
      /\ withDelete /\ R!ToDelete(mine, theirs) # {} =>
           Len(rest) = 2
  <2>1. R!Finished \in R!Messages
    BY RsyncMessages
  <2>2. CASE R!Deletions = <<>>
    <3>1. rest = <<R!Finished>>
      BY <2>2
    <3> QED BY <1>6, <2>1, <2>2, <3>1
  <2>3. CASE R!Deletions = <<R!Delete(R!ToDelete(mine, theirs))>>
    <3> DEFINE d == R!Delete(R!ToDelete(mine, theirs))
    <3>1. rest = <<d>> \o <<R!Finished>>
      BY <2>3
    <3>2. d \in R!Messages
      BY <1>5, RsyncMessages
    <3> HIDE DEF d, rest
    <3>3. rest \in Seq(R!Messages) /\ Len(rest) = 2 /\ rest[1] = d /\ rest[2] = R!Finished
      BY <2>1, <3>1, <3>2
    <3> QED BY <1>6, <2>3, <3>3 DEF d
  <2> QED BY <1>6, <2>2, <2>3
<1> HIDE DEF files
<1>8. stream = files \o rest
  <2>1. stream = <<>> \o files \o R!Deletions \o <<R!Finished>>
    BY DEF files
  <2>2. <<>> \o files = files
    BY <1>4
  <2>3. files \o R!Deletions \o <<R!Finished>> = files \o (R!Deletions \o <<R!Finished>>)
    BY <1>4, <1>6, RsyncMessages, ConcatAssociative
  <2> QED BY <2>1, <2>2, <2>3
<1> HIDE DEF rest
<1>9. /\ stream \in Seq(R!Messages) /\ Len(stream) = Len(order) + Len(rest)
      /\ \A i \in 1 .. Len(order) + Len(rest) :
           stream[i] = IF i <= Len(order) THEN files[i] ELSE rest[i - Len(order)]
  <2>1. /\ files \o rest \in Seq(R!Messages) /\ Len(files \o rest) = Len(files) + Len(rest)
        /\ \A i \in 1 .. Len(files) + Len(rest) :
             (files \o rest)[i] = IF i <= Len(files) THEN files[i] ELSE rest[i - Len(files)]
    BY <1>4, <1>7, ConcatProperties
  <2> QED BY <1>4, <1>8, <2>1
<1> DEFINE n == Len(order)
           d == R!Delete(R!ToDelete(mine, theirs))
<1>10. n \in Nat /\ Len(stream) \in {n + 1, n + 2} /\ stream[Len(stream)] = R!Finished
  BY <1>2, <1>7, <1>9
<1>11. \A i \in 1 .. n : i # Len(stream) /\ \E f \in S : stream[i] = R!File(f, source[f])
  BY <1>2, <1>4, <1>9, <1>10
<1>12. Len(stream) = n + 2 =>
         stream[n + 1] = d /\ withDelete /\ R!ToDelete(mine, theirs) # {}
  BY <1>2, <1>7, <1>9
<1>13. withDelete /\ R!ToDelete(mine, theirs) # {} => Len(stream) = n + 2
  BY <1>2, <1>7, <1>9
<1>14. \A f \in S : \E i \in 1 .. Len(stream) : stream[i] = R!File(f, source[f])
  <2> TAKE f \in S
  <2>1. PICK i \in 1 .. n : order[i] = f
    BY <1>1
  <2>2. i \in 1 .. Len(stream) /\ i <= n
    BY <1>10, <2>1
  <2>3. stream[i] = files[i]
    BY <1>9, <2>2
  <2>4. files[i] = R!File(f, source[f])
    BY <1>4, <2>1
  <2> QED BY <2>2, <2>3, <2>4
<1>15. stream # <<>>
  BY <1>10
<1> HIDE DEF n, d
<1>16. \A i \in 1 .. Len(stream) : i \in 1 .. n \/ i = Len(stream) \/ (i = n + 1 /\ Len(stream) = n + 2)
  BY <1>10
<1>17. n + 1 \in 1 .. n + 2
  BY <1>10
<1> QED BY <1>9, <1>10, <1>11, <1>12, <1>13, <1>14, <1>15, <1>16, <1>17 DEF d
LEMMA RsyncInit == R!Init => R!RsyncInv
<1> SUFFICES ASSUME R!Init PROVE R!RsyncInv
  OBVIOUS
<1>1. /\ R!NoFiles \in R!Listing /\ R!NoFiles \in [Files -> Contents \cup {None, "torn"}]
      /\ <<>> \in Seq(R!Messages)
  BY DEF R!NoFiles, R!Listing
<1>2. R!TypeOK
  BY <1>1 DEF R!Init, R!TypeOK
<1> QED BY <1>1, <1>2 DEF R!Init, R!RsyncInv, R!SyncedWhenDone, R!Source, R!Comparing, R!Streaming

LEMMA RsyncTypes == ASSUME R!RsyncInv, R!Next PROVE R!TypeOK'
<1>1. /\ source \in R!Listing /\ mine \in R!Listing /\ theirs \in R!Listing
      /\ scanned \in R!Listing /\ vanished \subseteq Files
      /\ dest \in [Files -> Contents \cup {None, "torn"}]
      /\ cwd \in [Files -> Contents \cup {None, "torn"}]
      /\ inDest \in BOOLEAN /\ withDelete \in BOOLEAN /\ dryRun \in BOOLEAN
      /\ dropped \in BOOLEAN /\ lost \in BOOLEAN
      /\ sender \in {"off", "connecting", "manifest", "request", "done"}
      /\ receiver \in {"off", "connecting", "manifest", "receiving", "done"}
      /\ open \in Files \cup {None}
      /\ toSender \in Seq(R!Messages) /\ toReceiver \in Seq(R!Messages)
      /\ R!TypeOK /\ R!Source
  BY DEF R!RsyncInv, R!TypeOK
<1>2. CASE R!Begin
  <2>1. source' \in R!Listing /\ dest' \in [Files -> Contents \cup {None, "torn"}]
    BY <1>2 DEF R!Begin, R!Listing
  <2> QED BY <1>1, <1>2, <2>1 DEF R!Begin, R!TypeOK, R!manifests, R!streams
<1>3. CASE R!SendManifest
  <2>1. dest \in R!Listing
    BY <1>1, <1>3 DEF R!SendManifest, R!Source
  <2>2. Append(toSender, R!Manifest(dest)) \in Seq(R!Messages)
    BY <1>1, <2>1, RsyncMessages
  <2> QED BY <1>1, <1>3, <2>1, <2>2 DEF R!SendManifest, R!TypeOK, R!files
<1>4. CASE R!Scan
  BY <1>1, <1>4 DEF R!Scan, R!TypeOK, R!files, R!streams
<1>5. ASSUME NEW f \in Files, R!Vanish(f) PROVE R!TypeOK'
  <2>1. source' \in R!Listing /\ vanished' \subseteq Files
    BY <1>1, <1>5 DEF R!Vanish, R!Listing
  <2> QED BY <1>1, <1>5, <2>1 DEF R!Vanish, R!TypeOK, R!manifests, R!streams
<1>6. CASE R!GetManifest
  <2>1. Head(toSender).listing \in R!Listing /\ Tail(toSender) \in Seq(R!Messages)
    BY <1>1, <1>6, RsyncHead DEF R!GetManifest
  <2>2. Append(toReceiver, R!Manifest(mine)) \in Seq(R!Messages)
    BY <1>1, RsyncMessages
  <2>3. theirs' \in R!Listing /\ toSender' \in Seq(R!Messages) /\ toReceiver' \in Seq(R!Messages)
    BY <1>1, <1>6, <2>1, <2>2 DEF R!GetManifest
  <2>4. /\ dropped' \in BOOLEAN
        /\ sender' \in {"off", "connecting", "manifest", "request", "done"}
    BY <1>1, <1>6 DEF R!GetManifest
  <2> QED BY <1>1, <1>6, <2>3, <2>4 DEF R!GetManifest, R!TypeOK, R!files
<1>7. CASE R!SendRequest
  <2>1. Tail(toReceiver) \in Seq(R!Messages)
    BY <1>1, <1>7, RsyncHead DEF R!SendRequest
  <2>2. R!Requests(R!ToSend(Head(toReceiver).listing, scanned)) \in Seq(R!Messages)
    <3>1. R!ToSend(Head(toReceiver).listing, scanned) \in SUBSET Files
      BY DEF R!ToSend
    <3> QED BY <3>1, RsyncMessages DEF R!Requests
  <2>3. toSender' \in Seq(R!Messages) /\ toReceiver' \in Seq(R!Messages)
    BY <1>1, <1>7, <2>1, <2>2 DEF R!SendRequest
  <2> QED BY <1>1, <1>7, <2>3 DEF R!SendRequest, R!TypeOK, R!files, R!manifests
<1>8. CASE R!SendFiles
  <2>1. Tail(toSender) \in Seq(R!Messages) /\ Head(toSender).files \in SUBSET Files
    BY <1>1, <1>8, RsyncHead DEF R!SendFiles
  <2> DEFINE S == {f \in Head(toSender).files : source[f] # None}
  <2>2. toReceiver = <<>>
    BY <1>1, <1>8 DEF R!RsyncInv, R!Source, R!Comparing, R!SendFiles
  <2>3. PICK order \in R!Orders(S) :
          toReceiver' = toReceiver \o [i \in DOMAIN order |-> R!File(order[i], source[order[i]])]
                                   \o R!Deletions \o <<R!Finished>>
    BY <1>8 DEF R!SendFiles
  <2>4. S \in SUBSET Files /\ \A f \in S : source[f] # None
    BY <2>1
  <2> HIDE DEF S
  <2>5. toReceiver' \in Seq(R!Messages)
    BY <1>1, <2>2, <2>3, <2>4, RsyncSent
  <2> QED BY <1>1, <1>8, <2>1, <2>5 DEF R!SendFiles, R!TypeOK, R!files, R!manifests
<1>9. CASE R!FileStart
  <2>1. Head(toReceiver).file \in Files
    BY <1>1, <1>9, RsyncHead DEF R!FileStart, R!Incoming
  <2>2. /\ {Head(toReceiver).file} \in SUBSET Files /\ R!Written({Head(toReceiver).file}, "torn")
        /\ {dest, cwd} \subseteq [Files -> Contents \cup {None, "torn"}]
    BY <1>1, <1>9, <2>1 DEF R!FileStart
  <2>3. {dest', cwd'} \subseteq [Files -> Contents \cup {None, "torn"}]
    BY <2>2, RsyncWritten
  <2>4. open' \in Files
    BY <1>9, <2>1 DEF R!FileStart
  <2> QED BY <1>1, <1>9, <2>3, <2>4 DEF R!FileStart, R!TypeOK, R!manifests, R!streams
<1>10. CASE R!FileEnd \/ R!FileDelete \/ R!Done
  <2>1. Tail(toReceiver) \in Seq(R!Messages)
    BY <1>1, <1>10, RsyncHead DEF R!FileEnd, R!FileDelete, R!Done, R!Receiving, R!Incoming
  <2>2. {dest', cwd'} \subseteq [Files -> Contents \cup {None, "torn"}]
    <3>1. {dest, cwd} \subseteq [Files -> Contents \cup {None, "torn"}]
      BY <1>1
    <3>2. CASE R!FileEnd
      <4>1. Head(toReceiver).file \in Files /\ Head(toReceiver).content \in Contents
        BY <1>1, <3>2, RsyncHead DEF R!FileEnd, R!Receiving, R!Incoming
      <4>2. R!Written({Head(toReceiver).file}, Head(toReceiver).content)
        BY <3>2 DEF R!FileEnd
      <4>3. {Head(toReceiver).file} \in SUBSET Files
        BY <4>1
      <4> QED BY <3>1, <4>1, <4>2, <4>3, RsyncWritten
    <3>3. CASE R!FileDelete
      <4>1. Head(toReceiver).files \in SUBSET Files
        BY <1>1, <3>3, RsyncHead DEF R!FileDelete, R!Receiving, R!Incoming
      <4>2. R!Written(Head(toReceiver).files, None)
        BY <3>3 DEF R!FileDelete
      <4> QED BY <3>1, <4>1, <4>2, RsyncWritten
    <3>4. CASE R!Done
      BY <3>1, <3>4 DEF R!Done
    <3> QED BY <1>10, <3>2, <3>3, <3>4
  <2>3. /\ toReceiver' \in Seq(R!Messages) /\ open' \in Files \cup {None}
        /\ receiver' \in {"off", "connecting", "manifest", "receiving", "done"}
    BY <1>1, <1>10, <2>1 DEF R!FileEnd, R!FileDelete, R!Done, R!Receiving
  <2>4. UNCHANGED <<source, vanished, inDest, withDelete, dryRun, sender, mine, theirs, scanned,
                    toSender, dropped, lost>>
    BY <1>10 DEF R!FileEnd, R!FileDelete, R!Done, R!Receiving, R!manifests
  <2> QED BY <1>1, <2>2, <2>3, <2>4 DEF R!TypeOK
<1>11. CASE R!Lose
  <2>1. <<>> \in Seq(R!Messages)
    BY EmptySeq
  <2> QED BY <1>1, <1>11, <2>1 DEF R!Lose, R!TypeOK, R!files, R!manifests
<1> QED BY <1>2, <1>3, <1>4, <1>5, <1>6, <1>7, <1>8, <1>9, <1>10, <1>11 DEF R!Next, R!Step

LEMMA RsyncSource == ASSUME R!RsyncInv, R!Next PROVE R!Source'
<1>1. R!TypeOK /\ R!Source /\ (~lost => R!Comparing) /\ <<>> = <<>>
  BY DEF R!RsyncInv
<1>2. CASE R!Begin
  <2>1. dest' \in R!Listing /\ receiver = "off"
    BY <1>1, <1>2 DEF R!Begin, R!Source
  <2>2. vanished' = {} /\ open' = None /\ UNCHANGED <<toSender, toReceiver, lost>>
    BY <1>1, <1>2, <2>1 DEF R!Begin, R!Source, R!streams
  <2> QED BY <1>1, <1>2, <2>1, <2>2 DEF R!Begin, R!Source
<1>3. CASE R!SendManifest
  <2>1. /\ receiver' = "manifest" /\ receiver = "connecting" /\ ~lost' /\ open' = open
        /\ UNCHANGED <<source, vanished, sender, mine>>
    BY <1>3 DEF R!SendManifest, R!files
  <2> QED BY <1>1, <2>1 DEF R!Source
<1>4. CASE R!Scan
  BY <1>1, <1>4 DEF R!Scan, R!Source, R!files, R!streams
<1>5. ASSUME NEW f \in Files, R!Vanish(f) PROVE R!Source'
  BY <1>1, <1>5 DEF R!Vanish, R!Source, R!manifests, R!streams, R!TypeOK, R!Listing
<1>6. CASE R!GetManifest \/ R!SendRequest \/ R!SendFiles
  <2>1. ~lost
    BY <1>1, <1>6 DEF R!GetManifest, R!SendRequest, R!SendFiles, R!Source
  <2>2. UNCHANGED <<source, vanished, dest, mine, open, lost>>
    BY <1>6 DEF R!GetManifest, R!SendRequest, R!SendFiles, R!files, R!manifests
  <2>3. /\ sender' \notin {"off", "connecting"} => sender \notin {"off", "connecting"}
        /\ sender' \in {"off", "connecting"} => sender' = sender
        /\ receiver' \in {"off", "connecting", "manifest"} => receiver' = receiver
        /\ sender' = "off" => receiver' = receiver
    BY <1>1, <1>6, <2>1 DEF R!GetManifest, R!SendRequest, R!SendFiles, R!Source, R!Comparing
  <2> QED BY <1>1, <2>1, <2>2, <2>3 DEF R!Source
<1>7. CASE R!FileStart \/ R!FileEnd \/ R!FileDelete \/ R!Done
  <2>1. receiver = "receiving" /\ receiver' \in {"receiving", "done"} /\ ~lost
    BY <1>1, <1>7 DEF R!FileStart, R!FileEnd, R!FileDelete, R!Done, R!Receiving, R!Incoming, R!Source
  <2>2. UNCHANGED <<source, vanished, sender, mine, lost>>
    BY <1>7 DEF R!FileStart, R!FileEnd, R!FileDelete, R!Done, R!Receiving, R!manifests
  <2> QED BY <1>1, <2>1, <2>2 DEF R!Source
<1>8. CASE R!Lose
  BY <1>1, <1>8 DEF R!Lose, R!Source, R!files, R!manifests
<1> QED BY <1>2, <1>3, <1>4, <1>5, <1>6, <1>7, <1>8 DEF R!Next, R!Step

LEMMA RsyncComparing == ASSUME R!RsyncInv, R!Next, ~lost' PROVE R!Comparing'
<1>1. R!TypeOK /\ R!Source /\ (~lost => R!Comparing /\ R!Streaming)
  BY DEF R!RsyncInv
<1>2. ~lost /\ R!Comparing
  <2>1. CASE R!Lose
    BY <2>1 DEF R!Lose
  <2>2. CASE R!Begin \/ R!Step \/ \E f \in Files : R!Vanish(f)
    BY <1>1, <2>2 DEF R!Begin, R!Step, R!Vanish, R!SendManifest, R!Scan, R!GetManifest,
       R!SendRequest, R!SendFiles, R!FileStart, R!FileEnd, R!FileDelete, R!Done, R!Receiving
  <2> QED BY <1>1, <2>1, <2>2 DEF R!Next
<1>3. toSender \in Seq(R!Messages) /\ toReceiver \in Seq(R!Messages)
  BY <1>1 DEF R!TypeOK
<1>4. CASE R!Begin
  <2>1. receiver = "off" /\ receiver' = "connecting" /\ sender' = "connecting"
    BY <1>1, <1>4 DEF R!Begin, R!Source
  <2>2. UNCHANGED <<toSender, toReceiver>>
    BY <1>4 DEF R!Begin, R!streams
  <2> QED BY <1>2, <2>1, <2>2 DEF R!Comparing
<1>5. CASE R!SendManifest
  <2>1. /\ toSender = <<>> /\ toReceiver = <<>> /\ sender \in {"connecting", "manifest"}
    BY <1>1, <1>2, <1>5 DEF R!SendManifest, R!Comparing, R!Source, R!TypeOK
  <2>2. toSender' = <<R!Manifest(scanned')>> /\ toReceiver' = <<>>
    BY <1>5, <2>1 DEF R!SendManifest
  <2>3. receiver' = "manifest" /\ sender' = sender /\ dest' = dest /\ scanned' = dest
    BY <1>5 DEF R!SendManifest, R!files
  <2>4. R!Listed'
    BY <2>3 DEF R!Listed
  <2>5. R!Manifest(scanned)' = R!Manifest(scanned')
    BY DEF R!Manifest
  <2> QED BY <2>1, <2>2, <2>3, <2>4, <2>5 DEF R!Comparing
<1>6. CASE R!Scan
  <2>1. /\ sender = "connecting" /\ sender' = "manifest"
        /\ UNCHANGED <<dest, inDest, scanned, receiver, toSender, toReceiver>>
    BY <1>6 DEF R!Scan, R!files, R!streams
  <2>2. R!Listed' = R!Listed /\ R!Manifest(scanned)' = R!Manifest(scanned)
    BY <2>1 DEF R!Listed, R!Manifest
  <2> QED BY <1>2, <2>1, <2>2 DEF R!Comparing
<1>7. ASSUME NEW f \in Files, R!Vanish(f) PROVE R!Comparing'
  <2>1. UNCHANGED <<dest, inDest, dryRun, sender, receiver, mine, theirs, scanned, toSender,
                    toReceiver>>
    BY <1>7 DEF R!Vanish, R!manifests, R!streams
  <2> QED BY <1>2, <2>1 DEF R!Comparing, R!Listed, R!Manifest, R!Request, R!ToSend
<1>8. CASE R!GetManifest
  <2>1. /\ receiver = "manifest" /\ toSender = <<R!Manifest(scanned)>> /\ toReceiver = <<>>
        /\ R!Listed
    <3>1. toSender # <<>> /\ Head(toSender).type = "MANIFEST"
      BY <1>8 DEF R!GetManifest
    <3>2. CASE receiver = "receiving"
      <4>1. toSender = <<R!Request(R!ToSend(mine, scanned))>>
        BY <1>2, <3>1, <3>2 DEF R!Comparing
      <4>2. Head(toSender).type = "REQUEST"
        BY <4>1 DEF R!Request
      <4> QED BY <3>1, <4>2
    <3> QED BY <1>1, <1>2, <3>1, <3>2 DEF R!Comparing, R!TypeOK
  <2>2. toSender' = <<>> /\ Head(toSender).listing = scanned
    BY <1>8, <2>1 DEF R!GetManifest, R!Manifest
  <2>3. UNCHANGED <<dest, inDest, dryRun, receiver, mine, scanned>>
    BY <1>8 DEF R!GetManifest, R!files
  <2>4. R!Listed'
    BY <2>1, <2>3 DEF R!Listed
  <2>5. \/ /\ toReceiver' = <<>>
           /\ sender' = "connecting" \/ (sender' = "done" /\ dryRun)
        \/ /\ toReceiver' = <<R!Manifest(mine)>> /\ sender' = "request" /\ theirs' = scanned
    BY <1>8, <2>1, <2>2 DEF R!GetManifest
  <2>6. R!Manifest(mine)' = R!Manifest(mine)
    BY <2>3 DEF R!Manifest
  <2> QED BY <2>1, <2>2, <2>3, <2>4, <2>5, <2>6 DEF R!Comparing
<1>9. CASE R!SendRequest
  <2>1. /\ toSender = <<>> /\ toReceiver = <<R!Manifest(mine)>> /\ sender = "request"
        /\ theirs = scanned /\ R!Listed
    BY <1>2, <1>9 DEF R!SendRequest, R!Comparing
  <2>2. Head(toReceiver).listing = mine /\ toReceiver' = <<>>
    BY <1>9, <2>1 DEF R!SendRequest, R!Manifest
  <2>3. toSender' = <<>> \o <<R!Request(R!ToSend(mine, scanned))>>
    BY <1>9, <2>1, <2>2 DEF R!SendRequest, R!Requests
  <2>4. /\ UNCHANGED <<dest, inDest, sender, mine, theirs, scanned>> /\ receiver' = "receiving"
    BY <1>9 DEF R!SendRequest, R!files, R!manifests
  <2>5. R!Listed' /\ R!Request(R!ToSend(mine, scanned))' = R!Request(R!ToSend(mine, scanned))
    BY <2>1, <2>4 DEF R!Listed, R!Request, R!ToSend
  <2>6. toSender' = <<R!Request(R!ToSend(mine, scanned))>>
    BY <2>3
  <2> QED BY <2>1, <2>2, <2>4, <2>5, <2>6 DEF R!Comparing
<1>10. CASE R!SendFiles
  <2>1. receiver = "receiving" /\ toSender = <<R!Request(R!ToSend(mine, scanned))>>
    <3>1. toSender # <<>> /\ sender = "request"
      BY <1>10 DEF R!SendFiles
    <3> QED BY <1>1, <1>2, <3>1 DEF R!Comparing, R!TypeOK
  <2>2. toSender' = <<>> /\ sender' = "done" /\ receiver' = receiver
    BY <1>10, <2>1 DEF R!SendFiles
  <2> QED BY <2>1, <2>2 DEF R!Comparing
<1>11. CASE R!FileStart \/ R!FileEnd \/ R!FileDelete \/ R!Done
  <2>1. receiver = "receiving" /\ toReceiver # <<>>
    BY <1>11 DEF R!FileStart, R!FileEnd, R!FileDelete, R!Done, R!Receiving, R!Incoming
  <2>2. toSender = <<>> /\ sender = "done"
    BY <1>2, <2>1 DEF R!Comparing
  <2>3. receiver' \in {"receiving", "done"} /\ UNCHANGED <<toSender, sender>>
    BY <1>11, <2>1 DEF R!FileStart, R!FileEnd, R!FileDelete, R!Done, R!Receiving, R!streams
  <2> QED BY <2>2, <2>3 DEF R!Comparing
<1>12. ~R!Lose
  BY DEF R!Lose
<1> QED BY <1>4, <1>5, <1>6, <1>7, <1>8, <1>9, <1>10, <1>11, <1>12 DEF R!Next, R!Step

\* SendFiles puts what the receiver misses on its stream.
LEMMA RsyncFilesSent == ASSUME R!RsyncInv, R!SendFiles PROVE R!Streaming'
<1> DEFINE asked == R!ToSend(mine, scanned)
           S == {f \in asked : source[f] # None}
<1>1. R!TypeOK /\ R!Source /\ (~lost => R!Comparing)
  BY DEF R!RsyncInv
<1>2. /\ receiver = "receiving" /\ toSender = <<R!Request(asked)>> /\ toReceiver = <<>>
      /\ theirs = scanned /\ R!Listed /\ sender = "request"
  <2>1. toSender # <<>> /\ sender = "request"
    BY DEF R!SendFiles
  <2> QED BY <1>1, <2>1 DEF R!Source, R!Comparing, R!TypeOK
<1>3. Head(toSender).files = asked
  BY <1>2 DEF R!Request
<1>4. PICK order \in R!Orders(S) :
        toReceiver' = toReceiver \o [i \in DOMAIN order |-> R!File(order[i], source[order[i]])]
                                 \o R!Deletions \o <<R!Finished>>
  BY <1>3 DEF R!SendFiles
<1>5. S \in SUBSET Files /\ \A f \in S : source[f] # None
  BY DEF R!ToSend
<1> DEFINE stream == toReceiver'
           d == R!Delete(R!ToDelete(mine, theirs))
<1> HIDE DEF S, stream, d
<1>6. /\ stream \in Seq(R!Messages) /\ stream # <<>>
      /\ \A i \in 1 .. Len(stream) :
           \/ \E f \in S : stream[i] = R!File(f, source[f]) /\ i # Len(stream)
           \/ i # Len(stream) /\ withDelete /\ R!ToDelete(mine, theirs) # {} /\ stream[i] = d
           \/ stream[i] = R!Finished /\ i = Len(stream)
      /\ \A f \in S : \E i \in 1 .. Len(stream) : stream[i] = R!File(f, source[f])
      /\ withDelete /\ R!ToDelete(mine, theirs) # {} => \E i \in 1 .. Len(stream) : stream[i] = d
  <2>1. toReceiver' = <<>> \o [i \in DOMAIN order |-> R!File(order[i], source[order[i]])]
                           \o R!Deletions \o <<R!Finished>>
    BY <1>2, <1>4
  <2> QED BY <1>1, <1>5, <2>1, RsyncSent DEF d, stream
<1>7. \A f \in S : f \in Files /\ mine[f] # None /\ source[f] = mine[f]
  BY <1>1, <1>2 DEF R!Source, R!ToSend, S
<1>8. UNCHANGED <<mine, theirs, scanned, dest, inDest, withDelete, vanished>>
  BY DEF R!SendFiles, R!files, R!manifests
<1>9. /\ \A f, x : R!File(f, x).type = "FILE" /\ R!File(f, x).file = f /\ R!File(f, x).content = x
      /\ d.type = "DELETE" /\ d.files = R!ToDelete(mine, scanned) /\ R!Finished.type = "DONE"
  BY <1>2 DEF R!File, R!Delete, R!Finished, d
<1>10. DOMAIN stream = 1 .. Len(stream)
  BY <1>6
<1>11. \A i \in DOMAIN stream :
         /\ stream[i].type \in {"FILE", "DELETE", "DONE"}
         /\ stream[i].type = "DONE" <=> i = Len(stream)
         /\ stream[i].type = "FILE" => stream[i].content = mine[stream[i].file]
         /\ stream[i].type = "DELETE" => stream[i].files = R!ToDelete(mine, scanned)
  <2> TAKE i \in DOMAIN stream
  <2>1. CASE \E f \in S : stream[i] = R!File(f, source[f]) /\ i # Len(stream)
    BY <1>7, <1>9, <2>1
  <2>2. CASE i # Len(stream) /\ stream[i] = d
    BY <1>9, <2>2
  <2>3. CASE stream[i] = R!Finished /\ i = Len(stream)
    BY <1>9, <2>3
  <2> QED BY <1>6, <1>10, <2>1, <2>2, <2>3
<1>12. ASSUME inDest, NEW f \in Files
       PROVE  /\ mine[f] = None => dest[f] \in {scanned[f], None}
              /\ \/ \E i \in DOMAIN stream : stream[i].type = "FILE" /\ stream[i].file = f
                 \/ dest[f] # "torn" /\ (mine[f] # None /\ f \notin vanished => dest[f] = mine[f])
              /\ \/ \E i \in DOMAIN stream : stream[i].type = "DELETE"
                 \/ mine[f] = None /\ withDelete => dest[f] = None
  <2>1. dest[f] = scanned[f] /\ scanned[f] \in Contents \cup {None} /\ dest[f] # "torn"
    BY <1>1, <1>2, <1>12, RsyncAssumption DEF R!Listed, R!TypeOK, R!Listing
  <2>2. f \in S => \E i \in DOMAIN stream : stream[i].type = "FILE" /\ stream[i].file = f
    <3>1. f \in S => \E i \in DOMAIN stream : stream[i] = R!File(f, source[f])
      BY <1>6, <1>10
    <3> QED BY <1>9, <3>1
  <2>3. f \notin S /\ mine[f] # None /\ f \notin vanished => dest[f] = mine[f]
    BY <1>1, <1>2, <2>1 DEF R!Source, R!ToSend, S
  <2>4. \/ \E i \in DOMAIN stream : stream[i].type = "FILE" /\ stream[i].file = f
        \/ dest[f] # "torn" /\ (mine[f] # None /\ f \notin vanished => dest[f] = mine[f])
    BY <2>1, <2>2, <2>3
  <2>5. \/ \E i \in DOMAIN stream : stream[i].type = "DELETE"
        \/ mine[f] = None /\ withDelete => dest[f] = None
    <3>1. CASE withDelete /\ R!ToDelete(mine, theirs) # {}
      BY <1>6, <1>9, <1>10, <3>1
    <3>2. CASE ~(withDelete /\ R!ToDelete(mine, theirs) # {})
      BY <1>2, <2>1, <3>2 DEF R!ToDelete
    <3> QED BY <3>1, <3>2
  <2> QED BY <2>1, <2>4, <2>5
<1>13. R!ToDelete(mine, scanned)' = R!ToDelete(mine, scanned)
  BY <1>8 DEF R!ToDelete
<1> QED BY <1>6, <1>8, <1>11, <1>12, <1>13 DEF R!Streaming, stream

\* The receiver takes a message off its stream, or the first step of one.
LEMMA RsyncReceived ==
    ASSUME R!RsyncInv, R!FileStart \/ R!FileEnd \/ R!FileDelete
    PROVE  R!Streaming'
<1>1. R!TypeOK /\ R!Source /\ (~lost => R!Comparing /\ R!Streaming)
  BY DEF R!RsyncInv
<1>2. /\ receiver = "receiving" /\ toReceiver # <<>> /\ ~lost /\ sender = "done"
  <2>1. receiver = "receiving" /\ toReceiver # <<>>
    BY DEF R!FileStart, R!FileEnd, R!FileDelete, R!Receiving, R!Incoming
  <2> QED BY <1>1, <2>1 DEF R!Source, R!Comparing
<1> DEFINE head == Head(toReceiver)
<1>3. /\ toReceiver \in Seq(R!Messages) /\ head = toReceiver[1] /\ 1 \in DOMAIN toReceiver
      /\ head.type = "FILE" => head.file \in Files /\ head.content \in Contents
      /\ head.type = "DELETE" => head.files \in SUBSET Files
      /\ {dest, cwd} \subseteq [Files -> Contents \cup {None, "torn"}]
      /\ mine \in [Files -> Contents \cup {None}]
  <2>1. toReceiver \in Seq(R!Messages) /\ mine \in [Files -> Contents \cup {None}]
        /\ {dest, cwd} \subseteq [Files -> Contents \cup {None, "torn"}]
    BY <1>1 DEF R!TypeOK, R!Listing
  <2> QED BY <1>2, <2>1, RsyncHead
<1>4. /\ \A i \in DOMAIN toReceiver :
           /\ toReceiver[i].type \in {"FILE", "DELETE", "DONE"}
           /\ toReceiver[i].type = "DONE" <=> i = Len(toReceiver)
           /\ toReceiver[i].type = "FILE" => toReceiver[i].content = mine[toReceiver[i].file]
           /\ toReceiver[i].type = "DELETE" => toReceiver[i].files = R!ToDelete(mine, scanned)
      /\ inDest => \A f \in Files :
           /\ mine[f] = None => dest[f] \in {scanned[f], None}
           /\ \/ \E i \in DOMAIN toReceiver : toReceiver[i].type = "FILE" /\ toReceiver[i].file = f
              \/ dest[f] # "torn" /\ (mine[f] # None /\ f \notin vanished => dest[f] = mine[f])
           /\ \/ \E i \in DOMAIN toReceiver : toReceiver[i].type = "DELETE"
              \/ mine[f] = None /\ withDelete => dest[f] = None
  BY <1>1, <1>2 DEF R!Streaming
<1>5. UNCHANGED <<mine, scanned, inDest, withDelete, vanished, sender, receiver>>
  BY DEF R!FileStart, R!FileEnd, R!FileDelete, R!Receiving, R!manifests
<1>6. R!ToDelete(mine, scanned)' = R!ToDelete(mine, scanned)
  BY <1>5 DEF R!ToDelete
<1>7. head.type # "DONE" /\ (head.type = "FILE" => mine[head.file] # None)
  <2>1. head.type # "DONE"
    BY DEF R!FileStart, R!FileEnd, R!FileDelete, R!Receiving, R!Incoming
  <2> QED BY <1>3, <1>4, <2>1, NoneAssumption
<1> HIDE DEF head
<1>8. CASE R!FileStart
  <2>1. head.type = "FILE" /\ toReceiver' = toReceiver /\ R!Written({head.file}, "torn")
    BY <1>8 DEF R!FileStart, R!Incoming, R!streams, head
  <2>2. inDest => dest' = [f \in Files |-> IF f \in {head.file} THEN "torn" ELSE dest[f]]
    <3> DEFINE S == {head.file}
    <3>1. S \in SUBSET Files /\ R!Written(S, "torn")
      BY <1>3, <2>1
    <3> HIDE DEF S
    <3>2. inDest => dest' = [f \in Files |-> IF f \in S THEN "torn" ELSE dest[f]]
      BY <1>3, <3>1, RsyncWritten
    <3> QED BY <3>2 DEF S
  <2>3. ASSUME inDest, NEW f \in Files
        PROVE  /\ mine[f] = None => dest'[f] \in {scanned[f], None}
               /\ \/ \E i \in DOMAIN toReceiver : toReceiver[i].type = "FILE" /\ toReceiver[i].file = f
                  \/ dest'[f] # "torn" /\ (mine[f] # None /\ f \notin vanished => dest'[f] = mine[f])
               /\ \/ \E i \in DOMAIN toReceiver : toReceiver[i].type = "DELETE"
                  \/ mine[f] = None /\ withDelete => dest'[f] = None
    <3>1. CASE f = head.file
      BY <1>3, <1>7, <2>1, <3>1
    <3>2. CASE f # head.file
      <4>1. dest'[f] = dest[f]
        BY <2>2, <2>3, <3>2
      <4> QED BY <1>4, <2>3, <4>1
    <3> QED BY <3>1, <3>2
  <2> QED BY <1>2, <1>4, <1>5, <1>6, <2>1, <2>3 DEF R!Streaming
<1>9. CASE R!FileEnd \/ R!FileDelete
  <2> DEFINE tail == Tail(toReceiver)
  <2>1. /\ tail \in Seq(R!Messages) /\ DOMAIN tail = 1 .. Len(tail) /\ Len(tail) = Len(toReceiver) - 1
        /\ Len(toReceiver) \in Nat /\ Len(toReceiver) > 1
        /\ \A i \in DOMAIN tail : i + 1 \in DOMAIN toReceiver /\ tail[i] = toReceiver[i + 1]
    <3>1. Len(toReceiver) # 1
      BY <1>3, <1>4, <1>7
    <3>2. Len(toReceiver) \in Nat /\ 1 <= Len(toReceiver)
      BY <1>3
    <3>3. tail \in Seq(R!Messages)
      BY <1>3
    <3>4. /\ Len(tail) = Len(toReceiver) - 1
          /\ \A i \in 1 .. Len(tail) : i + 1 \in DOMAIN toReceiver /\ tail[i] = toReceiver[i + 1]
      BY <1>2, <1>3
    <3> QED BY <3>1, <3>2, <3>3, <3>4
  <2>2. toReceiver' = tail
    BY <1>9 DEF R!FileEnd, R!FileDelete, R!Receiving
  <2> HIDE DEF tail
  <2>3. \A j \in DOMAIN toReceiver :
          toReceiver[j] = head \/ \E i \in DOMAIN tail : tail[i] = toReceiver[j]
    <3> TAKE j \in DOMAIN toReceiver
    <3>1. CASE j = 1
      BY <1>3, <3>1
    <3>2. CASE j # 1
      <4>1. j - 1 \in DOMAIN tail /\ (j - 1) + 1 = j
        BY <1>3, <2>1, <3>2
      <4> QED BY <2>1, <4>1
    <3> QED BY <3>1, <3>2
  <2>4. \A i \in DOMAIN tail :
          /\ tail[i].type \in {"FILE", "DELETE", "DONE"}
          /\ tail[i].type = "DONE" <=> i = Len(tail)
          /\ tail[i].type = "FILE" => tail[i].content = mine[tail[i].file]
          /\ tail[i].type = "DELETE" => tail[i].files = R!ToDelete(mine, scanned)
    <3> TAKE i \in DOMAIN tail
    <3>1. tail[i] = toReceiver[i + 1] /\ i + 1 \in DOMAIN toReceiver
      BY <2>1
    <3>2. i + 1 = Len(toReceiver) <=> i = Len(tail)
      BY <2>1
    <3> QED BY <1>4, <3>1, <3>2
  <2>5. tail # <<>>
    BY <2>1
  <2>6. ASSUME inDest, NEW f \in Files
        PROVE  /\ mine[f] = None => dest'[f] \in {scanned[f], None}
               /\ \/ \E i \in DOMAIN tail : tail[i].type = "FILE" /\ tail[i].file = f
                  \/ dest'[f] # "torn" /\ (mine[f] # None /\ f \notin vanished => dest'[f] = mine[f])
               /\ \/ \E i \in DOMAIN tail : tail[i].type = "DELETE"
                  \/ mine[f] = None /\ withDelete => dest'[f] = None
    <3>1. CASE R!FileEnd
      <4>1. head.type = "FILE" /\ R!Written({head.file}, head.content)
        BY <3>1 DEF R!FileEnd, R!Receiving, R!Incoming, head
      <4>2. dest' = [g \in Files |-> IF g \in {head.file} THEN head.content ELSE dest[g]]
        <5> DEFINE S == {head.file}
        <5>1. S \in SUBSET Files /\ head.content \in Contents /\ R!Written(S, head.content)
          BY <1>3, <4>1
        <5> HIDE DEF S
        <5>2. dest' = [g \in Files |-> IF g \in S THEN head.content ELSE dest[g]]
          BY <1>3, <2>6, <5>1, RsyncWritten
        <5> QED BY <5>2 DEF S
      <4>3. \/ \E i \in DOMAIN tail : tail[i].type = "DELETE"
            \/ mine[f] = None /\ withDelete => dest[f] = None
        BY <1>4, <2>3, <2>6, <4>1
      <4>4. CASE f = head.file
        <5>1. dest'[f] = mine[f] /\ mine[f] # None /\ mine[f] # "torn"
          BY <1>3, <1>4, <1>7, <4>1, <4>2, <4>4, RsyncAssumption
        <5> QED BY <5>1
      <4>5. CASE f # head.file
        <5>1. dest'[f] = dest[f]
          BY <4>2, <4>5
        <5>2. \/ \E i \in DOMAIN tail : tail[i].type = "FILE" /\ tail[i].file = f
              \/ dest[f] # "torn" /\ (mine[f] # None /\ f \notin vanished => dest[f] = mine[f])
          BY <1>4, <2>3, <2>6, <4>5
        <5> QED BY <1>4, <2>6, <4>3, <5>1, <5>2
      <4> QED BY <4>4, <4>5
    <3>2. CASE R!FileDelete
      <4>1. head.type = "DELETE" /\ R!Written(head.files, None)
        BY <3>2 DEF R!FileDelete, R!Receiving, R!Incoming, head
      <4>2. head.files = R!ToDelete(mine, scanned) /\ head.files \in SUBSET Files
        BY <1>3, <1>4, <4>1
      <4>3. dest' = [g \in Files |-> IF g \in head.files THEN None ELSE dest[g]]
        BY <1>3, <2>6, <4>1, <4>2, RsyncWritten
      <4>4. f \in head.files <=> mine[f] = None /\ scanned[f] # None
        BY <4>2 DEF R!ToDelete
      <4>5. \/ \E i \in DOMAIN tail : tail[i].type = "FILE" /\ tail[i].file = f
            \/ dest[f] # "torn" /\ (mine[f] # None /\ f \notin vanished => dest[f] = mine[f])
        BY <1>4, <2>3, <2>6, <4>1
      <4>6. mine[f] = None => dest[f] \in {scanned[f], None}
        BY <1>4, <2>6
      <4>7. CASE f \in head.files
        BY <4>3, <4>4, <4>7, RsyncAssumption
      <4>8. CASE f \notin head.files
        <5>1. dest'[f] = dest[f]
          BY <4>3, <4>8
        <5>2. mine[f] = None => dest[f] = None
          BY <4>4, <4>6, <4>8
        <5> QED BY <4>5, <4>6, <5>1, <5>2
      <4> QED BY <4>7, <4>8
    <3> QED BY <1>9, <3>1, <3>2
  <2> QED BY <1>5, <1>6, <2>2, <2>4, <2>5, <2>6 DEF R!Streaming
<1> QED BY <1>8, <1>9

LEMMA RsyncStreaming == ASSUME R!RsyncInv, R!Next, ~lost' PROVE R!Streaming'
<1>1. R!TypeOK /\ R!Source /\ (~lost => R!Comparing)
  BY DEF R!RsyncInv
<1>2. CASE R!Begin \/ R!SendManifest \/ R!Scan \/ R!Done \/ (\E f \in Files : R!Vanish(f))
  <2>1. ~(receiver' = "receiving" /\ sender' = "done")
    BY <1>2 DEF R!Begin, R!SendManifest, R!Scan, R!Done, R!Vanish
  <2> QED BY <2>1 DEF R!Streaming
<1>3. CASE R!GetManifest
  <2>1. receiver # "receiving" \/ sender' # "done"
    <3>1. toSender # <<>> /\ Head(toSender).type = "MANIFEST" /\ ~lost
      BY <1>1, <1>3 DEF R!GetManifest, R!Source
    <3>2. CASE receiver = "receiving"
      <4>1. toSender = <<R!Request(R!ToSend(mine, scanned))>>
        BY <1>1, <3>1, <3>2 DEF R!Comparing
      <4>2. Head(toSender).type = "REQUEST"
        BY <4>1 DEF R!Request
      <4> QED BY <3>1, <4>2
    <3> QED BY <3>2
  <2>2. receiver' = receiver
    BY <1>3 DEF R!GetManifest
  <2> QED BY <2>1, <2>2 DEF R!Streaming
<1>4. CASE R!SendRequest
  <2>1. sender = "request" /\ sender' = sender
    <3>1. receiver = "manifest" /\ toReceiver # <<>> /\ ~lost /\ sender' = sender
      BY <1>1, <1>4 DEF R!SendRequest, R!Source
    <3> QED BY <1>1, <3>1 DEF R!Comparing
  <2> QED BY <2>1 DEF R!Streaming
<1>5. CASE R!SendFiles
  BY <1>5, RsyncFilesSent
<1>6. CASE R!FileStart \/ R!FileEnd \/ R!FileDelete
  BY <1>6, RsyncReceived
<1>7. ~R!Lose
  BY DEF R!Lose
<1> QED BY <1>2, <1>3, <1>4, <1>5, <1>6, <1>7 DEF R!Next, R!Step

LEMMA RsyncSynced == ASSUME R!RsyncInv, R!Next PROVE R!SyncedWhenDone'
<1>1. R!TypeOK /\ R!Source /\ (~lost => R!Comparing /\ R!Streaming)
  BY DEF R!RsyncInv
<1>2. CASE R!Done
  <2>1. /\ receiver = "receiving" /\ toReceiver # <<>> /\ Head(toReceiver).type = "DONE"
        /\ UNCHANGED <<vanished, inDest, withDelete, mine, dest, lost>>
    BY <1>2 DEF R!Done, R!Receiving, R!Incoming, R!manifests
  <2>2. ~lost /\ sender = "done"
    BY <1>1, <2>1 DEF R!Source, R!Comparing
  <2>3. toReceiver \in Seq(R!Messages) /\ 1 \in DOMAIN toReceiver /\ Head(toReceiver) = toReceiver[1]
    BY <1>1, <2>1, RsyncHead DEF R!TypeOK
  <2>4. \A i \in DOMAIN toReceiver : toReceiver[i].type = "DONE" <=> i = Len(toReceiver)
    BY <1>1, <2>1, <2>2 DEF R!Streaming
  <2>5. Len(toReceiver) = 1
    BY <2>1, <2>3, <2>4
  <2>6. \A i \in DOMAIN toReceiver : toReceiver[i].type = "DONE"
    BY <2>3, <2>4, <2>5
  <2>7. inDest => \A f \in Files :
          /\ dest[f] # "torn" /\ (mine[f] # None /\ f \notin vanished => dest[f] = mine[f])
          /\ mine[f] = None /\ withDelete => dest[f] = None
    BY <1>1, <2>1, <2>2, <2>6 DEF R!Streaming
  <2> QED BY <2>1, <2>7 DEF R!SyncedWhenDone
<1>3. CASE receiver' # "done" \/ lost'
  BY <1>3 DEF R!SyncedWhenDone
<1>4. ASSUME ~R!Done, receiver' = "done", ~lost' PROVE FALSE
  <2>1. ~R!Lose
    BY <1>4 DEF R!Lose
  <2>2. receiver = "done" /\ ~lost
    BY <1>4, <2>1 DEF R!Next, R!Step, R!Begin, R!SendManifest, R!Scan, R!Vanish, R!GetManifest,
       R!SendRequest, R!SendFiles, R!FileStart, R!FileEnd, R!FileDelete, R!Receiving
  <2>3. toSender = <<>> /\ sender = "done"
    BY <1>1, <2>2 DEF R!Comparing
  <2> QED BY <1>4, <2>1, <2>2, <2>3 DEF R!Next, R!Step, R!Begin, R!SendManifest, R!Scan, R!Vanish,
       R!GetManifest, R!SendRequest, R!SendFiles, R!FileStart, R!FileEnd, R!FileDelete,
       R!Receiving, R!Incoming
<1> QED BY <1>2, <1>3, <1>4

LEMMA RsyncNext == ASSUME R!RsyncInv, [R!Next]_(R!vars) PROVE R!RsyncInv'
<1>1. CASE R!Next
  BY <1>1, RsyncTypes, RsyncSource, RsyncComparing, RsyncStreaming, RsyncSynced DEF R!RsyncInv
<1>2. CASE UNCHANGED R!vars
  BY <1>2 DEF R!vars, R!files, R!manifests, R!streams, R!RsyncInv, R!TypeOK, R!Source, R!Comparing,
     R!Streaming, R!SyncedWhenDone, R!Listed, R!ToSend, R!ToDelete, R!Manifest, R!Request
<1> QED BY <1>1, <1>2
-----------------------------------------------------------------------------
\* What each file may hold follows from its name.
LEMMA StoresFiles ==
    /\ Store!AliasFile \in Store!Disk /\ Store!RelayFile \in Store!Disk /\ Store!ConfigFile \in Store!Disk
    /\ \A a \in Addrs : Store!Identity(a) \in Store!Disk /\ Store!Known(a) \in Store!Disk
    /\ \A n \in Names : Store!Claim(n) \in Store!Disk
    /\ \A s \in Spaces : Store!Space(s) \in Store!Disk
    /\ Store!AliasFile[1] = "aliases" /\ Store!RelayFile[1] = "relays" /\ Store!ConfigFile[1] = "config"
    /\ \A x : /\ Store!Identity(x)[1] = "identity" /\ Store!Known(x)[1] = "known"
              /\ Store!Claim(x)[1] = "claim" /\ Store!Space(x)[1] = "space"
BY DEF Store!Disk, Store!AliasFile, Store!RelayFile, Store!ConfigFile, Store!Identity, Store!Known,
       Store!Claim, Store!Space

LEMMA StoresTexts ==
    /\ \A d \in Names \cup Addrs \cup Procs \cup {None, Public}, e \in Store!Entries \cup Store!Roles :
         /\ Store!Content(d, e) \in Store!Texts
         /\ Store!Content(d, e).default = d /\ Store!Content(d, e).entries = e
    /\ Store!NoEntries \in Store!Entries
    /\ \A t \in Store!Texts : t \notin Store!Unreadable
BY StoresAssumption DEF Store!Content, Store!Texts, Store!NoEntries, Store!Entries,
   Store!Unreadable

\* A text with one entry changed.
LEMMA StoresSet ==
    ASSUME NEW t \in Store!Texts, NEW n, NEW v
    PROVE  /\ Store!Set(t, n, v).default = t.default
           /\ DOMAIN Store!Set(t, n, v).entries = DOMAIN t.entries
           /\ \A m \in DOMAIN t.entries :
                Store!Set(t, n, v).entries[m] = IF m = n THEN v ELSE t.entries[m]
           /\ t.entries \in Store!Entries /\ v \in Procs \cup {Old, None} =>
                Store!Set(t, n, v) \in Store!Texts /\ Store!Set(t, n, v).entries \in Store!Entries
           /\ t.entries \in Store!Roles /\ v \in SUBSET {"member", "admin"} =>
                Store!Set(t, n, v) \in Store!Texts /\ Store!Set(t, n, v).entries \in Store!Roles
<1> DEFINE u == Store!Set(t, n, v)
<1>1. u = [t EXCEPT !.entries = [t.entries EXCEPT ![n] = v]]
  BY DEF Store!Set
<1>2. u.default = t.default /\ u.entries = [t.entries EXCEPT ![n] = v]
  BY <1>1 DEF Store!Texts
<1>3. u.entries \in Store!Entries \cup Store!Roles => u \in Store!Texts
  BY <1>1, <1>2 DEF Store!Texts
<1>4. t.entries \in Store!Entries \cup Store!Roles =>
        /\ DOMAIN u.entries = DOMAIN t.entries
        /\ \A m \in DOMAIN t.entries : u.entries[m] = IF m = n THEN v ELSE t.entries[m]
  BY <1>2 DEF Store!Entries, Store!Roles
<1>5. t.entries \in Store!Entries /\ v \in Procs \cup {Old, None} => u.entries \in Store!Entries
  BY <1>2 DEF Store!Entries
<1>6. t.entries \in Store!Roles /\ v \in SUBSET {"member", "admin"} => u.entries \in Store!Roles
  BY <1>2 DEF Store!Roles
<1>7. t.entries \in Store!Entries \cup Store!Roles
  BY DEF Store!Texts
<1> HIDE DEF u
<1> QED BY <1>2, <1>3, <1>4, <1>5, <1>6, <1>7 DEF u

\* What may be written into a file is right for it; this is of constants only.
LEMMA StoresConstant == \A f, t : Store!Good(f, t)' = Store!Good(f, t)
BY DEF Store!Good

Holding == {"confirm", "open", "write", "done"}

\* The invariant survives when every file stays as it is, is ruined or gets a text that
\* is right for it, and no process comes to hold another text than before.
LEMMA StoresKept ==
    ASSUME Store!StoresInv,
           disk' \in [Store!Disk -> Store!Texts \cup Store!Unreadable],
           proc' \in [Procs -> Store!Processes],
           \A f \in Store!Disk : \/ disk'[f] = disk[f] \/ disk'[f] \in Store!Unreadable
                                \/ Store!Good(f, disk'[f]),
           \A q \in Procs :
             /\ proc'[q].pc \in Holding /\ proc'[q].data # None =>
                  \/ Store!Good(proc'[q].file, proc'[q].data)
                  \/ /\ proc[q].pc \in Holding
                     /\ proc'[q].file = proc[q].file /\ proc'[q].data = proc[q].data
             /\ proc'[q].pc \in {"open", "write"} => proc'[q].data # None
    PROVE  Store!StoresInv'
<1>1. Store!Consistent
  BY DEF Store!StoresInv
<1>2. Store!Unreadable' = Store!Unreadable /\ Store!Disk' = Store!Disk
  BY DEF Store!Unreadable, Store!Disk
<1>3. \A f \in Store!Disk : disk'[f] \in Store!Unreadable \/ Store!Good(f, disk'[f])
  BY <1>1 DEF Store!Consistent
<1>4. \A q \in Procs : proc'[q].pc \in Holding /\ proc'[q].data # None =>
                           Store!Good(proc'[q].file, proc'[q].data)
  BY <1>1 DEF Store!Consistent, Holding
<1>5. Store!Consistent'
  BY <1>2, <1>3, <1>4, StoresConstant DEF Store!Consistent, Holding
<1>6. Store!TypeOK'
  BY DEF Store!TypeOK
<1> QED BY <1>5, <1>6 DEF Store!StoresInv

\* What a command may decide once it has read file f: to write a text that is right
\* for the file, or to remove it, now or after a question; or nothing.
Fits(f, o) ==
    /\ o.data \in Store!Texts \cup {None}
    /\ o.pc \in {"done", "failed", "open", "confirm", "unlink"}
    /\ o.pc = "open" => o.data # None
    /\ o.data # None => Store!Good(f, o.data)

LEMMA StoresRun ==
    ASSUME Store!StoresInv, NEW p \in Procs, NEW f \in Store!Disk,
           NEW o, Fits(f, o),
           Store!Run(p, f, o)
    PROVE  Store!StoresInv'
<1> DEFINE new == [pc |-> o.pc, file |-> f, data |-> o.data]
<1>1. Store!TypeOK /\ Store!Consistent
  BY DEF Store!StoresInv
<1>2. proc' = [proc EXCEPT ![p] = new] /\ disk' = disk
  BY DEF Store!Run
<1>3. new.pc = o.pc /\ new.file = f /\ new.data = o.data /\ new \in Store!Processes
  BY DEF Fits, Store!Processes
<1> HIDE DEF new
<1>4. proc'[p] = new /\ \A q \in Procs : q # p => proc'[q] = proc[q]
  BY <1>1, <1>2 DEF Store!TypeOK
<1>5. proc' \in [Procs -> Store!Processes]
  BY <1>1, <1>2, <1>3 DEF Store!TypeOK
<1>6. disk' \in [Store!Disk -> Store!Texts \cup Store!Unreadable]
  BY <1>1, <1>2 DEF Store!TypeOK
<1>7. ASSUME NEW q \in Procs
      PROVE  /\ proc'[q].pc \in Holding /\ proc'[q].data # None =>
                  \/ Store!Good(proc'[q].file, proc'[q].data)
                  \/ /\ proc[q].pc \in Holding
                     /\ proc'[q].file = proc[q].file /\ proc'[q].data = proc[q].data
             /\ proc'[q].pc \in {"open", "write"} => proc'[q].data # None
  <2>1. CASE q = p
    BY <1>3, <1>4, <2>1 DEF Fits
  <2>2. CASE q # p
    BY <1>1, <1>4, <2>2 DEF Store!Consistent
  <2> QED BY <2>1, <2>2
<1> QED BY <1>2, <1>5, <1>6, <1>7, StoresKept

\* The decisions that write nothing.
LEMMA StoresIdle ==
    ASSUME NEW f
    PROVE  Fits(f, Store!Fail) /\ Fits(f, Store!Done) /\ Fits(f, Store!Remove) /\ Fits(f, Store!Ask(None))
BY DEF Fits, Store!Fail, Store!Done, Store!Remove, Store!Ask

\* The decisions that write t.
LEMMA StoresSave ==
    ASSUME NEW f, NEW t \in Store!Texts, Store!Good(f, t)
    PROVE  Fits(f, Store!Save(t)) /\ Fits(f, Store!Ask(t))
<1>1. t # None
  BY StoresTexts DEF Store!Unreadable
<1>2. /\ Store!Save(t).pc = "open" /\ Store!Save(t).data = t
      /\ Store!Ask(t).pc = "confirm" /\ Store!Ask(t).data = t
  BY DEF Store!Save, Store!Ask
<1> QED BY <1>1, <1>2 DEF Fits

\* What a command has read of a file, or takes in its place, fits the file.
LEMMA StoresRead ==
    ASSUME Store!StoresInv
    PROVE  /\ \A f \in Store!Disk : disk[f] \notin Store!Unreadable => Store!Good(f, disk[f])
           /\ Store!Good(Store!AliasFile, Store!Aliases)
           /\ Store!Good(Store!RelayFile, Store!Relays)
           /\ Store!Good(Store!ConfigFile, Store!Config)
<1>1. \A f \in Store!Disk : disk[f] \notin Store!Unreadable => Store!Good(f, disk[f])
  BY DEF Store!StoresInv, Store!Consistent
<1>2. LET e == Store!Content(None, Store!NoEntries) IN
      Store!Good(Store!AliasFile, e) /\ Store!Good(Store!ConfigFile, e)
  BY StoresTexts, StoresFiles DEF Store!Good
<1>3. Store!Good(Store!RelayFile, Store!Content(Public, Store!NoEntries))
  BY StoresTexts, StoresFiles DEF Store!Good
<1> QED BY <1>1, <1>2, <1>3, StoresFiles DEF Store!Aliases, Store!Relays, Store!Config

\* A process goes on without touching a file.
LEMMA StoresStay ==
    ASSUME Store!StoresInv, NEW p \in Procs, NEW pc, Store!Stay(p, pc),
           \/ pc \in {"declined", "failed", "killed", "erase", "unlink"}
           \/ pc = "open" /\ proc[p].pc = "confirm" /\ proc[p].data # None
    PROVE  Store!StoresInv'
<1> DEFINE new == [proc[p] EXCEPT !.pc = pc]
<1>1. Store!TypeOK /\ Store!Consistent
  BY DEF Store!StoresInv
<1>2. proc' = [proc EXCEPT ![p] = new] /\ disk' = disk
  BY DEF Store!Stay
<1>3. /\ new.pc = pc /\ new.file = proc[p].file /\ new.data = proc[p].data
      /\ new \in Store!Processes
  BY <1>1 DEF Store!TypeOK, Store!Processes
<1> HIDE DEF new
<1>4. proc'[p] = new /\ \A q \in Procs : q # p => proc'[q] = proc[q]
  BY <1>1, <1>2 DEF Store!TypeOK
<1>5. proc' \in [Procs -> Store!Processes]
  BY <1>1, <1>2, <1>3 DEF Store!TypeOK
<1>6. disk' \in [Store!Disk -> Store!Texts \cup Store!Unreadable]
  BY <1>1, <1>2 DEF Store!TypeOK
<1>7. ASSUME NEW q \in Procs
      PROVE  /\ proc'[q].pc \in Holding /\ proc'[q].data # None =>
                  /\ proc[q].pc \in Holding
                  /\ proc'[q].file = proc[q].file /\ proc'[q].data = proc[q].data
             /\ proc'[q].pc \in {"open", "write"} => proc'[q].data # None
  <2>1. CASE q = p
    BY <1>3, <1>4, <2>1 DEF Holding
  <2>2. CASE q # p
    BY <1>1, <1>4, <2>2 DEF Store!Consistent
  <2> QED BY <2>1, <2>2
<1> QED BY <1>2, <1>5, <1>6, <1>7, StoresKept

\* The processes once the text of a file is gone.
LEMMA StoresCleared ==
    ASSUME Store!StoresInv, NEW p \in Procs, NEW pc \in {"write", "unlink", "removed"}
    PROVE  LET c == Store!Cleared(p, pc) IN
           /\ c \in [Procs -> Store!Processes]
           /\ c[p].pc = pc /\ c[p].file = proc[p].file /\ c[p].data = proc[p].data
           /\ \A q \in Procs \ {p} :
                /\ c[q].pc = proc[q].pc /\ c[q].file = proc[q].file
                /\ c[q].data = proc[q].data \/ (c[q].data = None /\ proc[q].pc = "done")
<1> DEFINE c == Store!Cleared(p, pc)
<1>1. \A q \in Procs : proc[q] \in Store!Processes
  BY DEF Store!StoresInv, Store!TypeOK
<1>2. c = [q \in Procs |-> c[q]]
  BY DEF Store!Cleared
<1>3. c[p] = [proc[p] EXCEPT !.pc = pc]
  BY DEF Store!Cleared
<1>4. /\ c[p] \in Store!Processes
      /\ c[p].pc = pc /\ c[p].file = proc[p].file /\ c[p].data = proc[p].data
  <2> HIDE DEF c
  <2> QED BY <1>1, <1>3 DEF Store!Processes
<1>5. ASSUME NEW q \in Procs \ {p}
      PROVE  /\ c[q] \in Store!Processes
             /\ c[q].pc = proc[q].pc /\ c[q].file = proc[q].file
             /\ c[q].data = proc[q].data \/ (c[q].data = None /\ proc[q].pc = "done")
  <2>1. \/ c[q] = proc[q]
        \/ c[q] = [proc[q] EXCEPT !.data = None] /\ proc[q].pc = "done"
    BY DEF Store!Cleared, Store!Writers
  <2> HIDE DEF c
  <2> QED BY <1>1, <2>1 DEF Store!Processes
<1> HIDE DEF c
<1>6. c \in [Procs -> Store!Processes]
  BY <1>2, <1>4, <1>5
<1> QED BY <1>4, <1>5, <1>6 DEF c

\* What is read of a file that two have written is right for it, too.
LEMMA StoresBlends ==
    ASSUME Store!StoresInv, NEW p \in Procs, proc[p].pc = "write", NEW text \in Store!Blends(p)
    PROVE  Store!Good(proc[p].file, text)
<1> DEFINE new == proc[p].data
           under == {proc[q].data : q \in Store!Writers(p)} \ {None}
<1>1. Store!Good(proc[p].file, new) /\ proc[p].file \in Store!Disk
  BY DEF Store!StoresInv, Store!Consistent, Store!TypeOK, Store!Processes
<1>2. ASSUME NEW u \in under PROVE Store!Good(proc[p].file, u)
  <2>1. PICK q \in Procs : proc[q].pc = "done" /\ proc[q].file = proc[p].file /\ u = proc[q].data
    BY DEF Store!Writers
  <2> QED BY <2>1 DEF Store!StoresInv, Store!Consistent
<1>3. /\ new \in Store!Texts /\ new.entries \in Store!Entries \cup Store!Roles
      /\ new = [default |-> new.default, entries |-> new.entries]
      /\ new.default \in Names \cup Addrs \cup Procs \cup {None, Public}
  BY <1>1 DEF Store!Good, Store!Texts
<1>4. CASE proc[p].file = Store!RelayFile
  <2>1. PICK e \in Store!Entries :
          /\ \A n \in Names : \/ e[n] = new.entries[n] \/ e[n] # None
          /\ text = [new EXCEPT !.entries = e]
    BY <1>4 DEF Store!Blends, Store!Entries
  <2>2. text \in Store!Texts /\ text.default = new.default /\ text.entries = e
    <3> HIDE DEF new
    <3> QED BY <1>3, <2>1 DEF Store!Texts
  <2>3. /\ new.default \in Names \cup {Public}
        /\ new.default # Public => new.entries[new.default] # None
    BY <1>1, <1>4 DEF Store!Good
  <2> HIDE DEF new
  <2> QED BY <1>4, <2>1, <2>2, <2>3, StoresFiles DEF Store!Good
<1>5. CASE proc[p].file # Store!RelayFile /\ proc[p].file[1] = "space"
  <2>1. PICK u \in under : text = [new EXCEPT !.entries =
             [m \in Persons |-> (new.entries[m] \cap {"admin"}) \cup (u.entries[m] \cap {"member"})]]
    BY <1>5 DEF Store!Blends
  <2> DEFINE e == [m \in Persons |-> (new.entries[m] \cap {"admin"}) \cup (u.entries[m] \cap {"member"})]
  <2>2. e \in Store!Roles /\ \A m \in Persons : "member" \in e[m] <=> "member" \in u.entries[m]
    BY DEF Store!Roles
  <2> HIDE DEF e
  <2>3. text \in Store!Texts /\ text.entries = e
    <3>1. text = [new EXCEPT !.entries = e]
      BY <2>1 DEF e
    <3> HIDE DEF new
    <3> QED BY <1>3, <2>2, <3>1 DEF Store!Texts
  <2>4. Store!Members(text) = Store!Members(u)
    BY <2>2, <2>3 DEF Store!Members
  <2>5. Store!Cardinality(Store!Members(text)) <= MaxMembers
    BY <1>2, <1>5, <2>4 DEF Store!Good
  <2> QED BY <1>5, <2>2, <2>3, <2>5, StoresFiles DEF Store!Good
<1> QED BY <1>4, <1>5 DEF Store!Blends

\* A process changes its file on disk and goes on to pc; no text is in the file then
\* but that of p.
LEMMA StoresEmptied ==
    ASSUME Store!StoresInv, NEW p \in Procs, NEW pc \in {"write", "unlink", "removed"},
           NEW d \in Store!Unreadable, disk' = [disk EXCEPT ![proc[p].file] = d],
           pc = "write" => proc[p].pc = "open",
           proc' \in [Procs -> Store!Processes],
           LET c == Store!Cleared(p, pc) IN
           \A q \in Procs : proc'[q] = c[q] \/ (q # p /\ proc'[q].pc = "unlinked")
    PROVE  Store!StoresInv'
<1> DEFINE c == Store!Cleared(p, pc)
<1>1. Store!TypeOK /\ Store!Consistent
  BY DEF Store!StoresInv
<1>2. proc[p].file \in Store!Disk
  BY <1>1 DEF Store!TypeOK, Store!Processes
<1>3. /\ disk' \in [Store!Disk -> Store!Texts \cup Store!Unreadable]
      /\ \A f \in Store!Disk : disk'[f] = disk[f] \/ disk'[f] \in Store!Unreadable
  BY <1>1, <1>2 DEF Store!TypeOK
<1>4. /\ c[p].pc = pc /\ c[p].file = proc[p].file /\ c[p].data = proc[p].data
      /\ \A q \in Procs \ {p} :
           /\ c[q].pc = proc[q].pc /\ c[q].file = proc[q].file
           /\ c[q].data = proc[q].data \/ (c[q].data = None /\ proc[q].pc = "done")
  BY StoresCleared
<1>5. \A q \in Procs : proc'[q] = c[q] \/ (q # p /\ proc'[q].pc = "unlinked")
  OBVIOUS
<1> HIDE DEF c
<1>6. ASSUME NEW q \in Procs
      PROVE  /\ proc'[q].pc \in Holding /\ proc'[q].data # None =>
                  /\ proc[q].pc \in Holding
                  /\ proc'[q].file = proc[q].file /\ proc'[q].data = proc[q].data
             /\ proc'[q].pc \in {"open", "write"} => proc'[q].data # None
  <2>1. CASE q = p
    BY <1>1, <1>4, <1>5, <2>1 DEF Store!Consistent, Holding
  <2>2. CASE q # p /\ proc'[q] = c[q]
    BY <1>1, <1>4, <2>2 DEF Store!Consistent
  <2>3. CASE proc'[q].pc = "unlinked"
    BY <2>3 DEF Holding
  <2> QED BY <1>5, <2>1, <2>2, <2>3
<1> QED BY <1>3, <1>6, StoresKept

LEMMA StoresWrite ==
    ASSUME Store!StoresInv, NEW p \in Procs, Store!WriteFile(p)
    PROVE  Store!StoresInv'
<1> DEFINE f == proc[p].file
<1>1. Store!TypeOK /\ Store!Consistent /\ f \in Store!Disk
  BY DEF Store!StoresInv, Store!TypeOK, Store!Processes
<1>2. CASE proc[p].pc = "unlinked"
  BY <1>2, StoresStay DEF Store!WriteFile
<1>3. CASE proc[p].pc # "unlinked"
  <2> DEFINE new == [proc[p] EXCEPT !.pc = "done"]
  <2>1. PICK text \in {proc[p].data, Garbled} \cup Store!Blends(p) :
               disk' = [disk EXCEPT ![f] = text]
    BY <1>3 DEF Store!WriteFile
  <2>2. proc[p].pc = "write" /\ proc' = [proc EXCEPT ![p] = new]
    BY <1>3 DEF Store!WriteFile
  <2>3. text = Garbled \/ Store!Good(f, text)
    BY <1>1, <2>1, <2>2, StoresBlends DEF Store!Consistent
  <2> HIDE DEF f
  <2>4. /\ disk' \in [Store!Disk -> Store!Texts \cup Store!Unreadable]
        /\ \A g \in Store!Disk : \/ disk'[g] = disk[g] \/ disk'[g] \in Store!Unreadable
                                 \/ Store!Good(g, disk'[g])
    <3>1. text \in Store!Texts \cup Store!Unreadable
      BY <2>3 DEF Store!Good, Store!Unreadable
    <3>2. text \in Store!Unreadable \/ Store!Good(f, text)
      BY <2>3 DEF Store!Unreadable
    <3> QED BY <1>1, <2>1, <3>1, <3>2 DEF Store!TypeOK
  <2>5. /\ new.pc = "done" /\ new.file = proc[p].file /\ new.data = proc[p].data
        /\ new \in Store!Processes
    BY <1>1 DEF Store!TypeOK, Store!Processes
  <2> HIDE DEF new
  <2>6. proc'[p] = new /\ \A q \in Procs : q # p => proc'[q] = proc[q]
    BY <1>1, <2>2 DEF Store!TypeOK
  <2>7. proc' \in [Procs -> Store!Processes]
    BY <1>1, <2>2, <2>5 DEF Store!TypeOK
  <2>8. ASSUME NEW q \in Procs
        PROVE  /\ proc'[q].pc \in Holding /\ proc'[q].data # None =>
                    /\ proc[q].pc \in Holding
                    /\ proc'[q].file = proc[q].file /\ proc'[q].data = proc[q].data
               /\ proc'[q].pc \in {"open", "write"} => proc'[q].data # None
    <3>1. CASE q = p
      BY <2>2, <2>5, <2>6, <3>1 DEF Holding
    <3>2. CASE q # p
      BY <1>1, <2>6, <3>2 DEF Store!Consistent
    <3> QED BY <3>1, <3>2
  <2> QED BY <2>4, <2>7, <2>8, StoresKept
<1> QED BY <1>2, <1>3

LEMMA StoresSteps ==
    ASSUME Store!StoresInv, NEW p \in Procs,
           \/ Store!Confirm(p) \/ Store!OpenFile(p) \/ Store!WriteFile(p) \/ Store!Erase(p)
           \/ Store!Unlink(p) \/ Store!Kill(p)
    PROVE  Store!StoresInv'
<1>1. {None, Empty, Garbled} = Store!Unreadable
  BY DEF Store!Unreadable
<1>2. \A pc \in {"write", "unlink", "removed"} :
        Store!Cleared(p, pc) \in [Procs -> Store!Processes]
  BY StoresCleared
<1>3. CASE Store!Confirm(p)
  BY <1>3, StoresStay DEF Store!Confirm
<1>4. CASE Store!OpenFile(p)
  BY <1>1, <1>2, <1>4, StoresEmptied DEF Store!OpenFile
<1>5. CASE Store!WriteFile(p)
  BY <1>5, StoresWrite
<1>6. CASE Store!Erase(p)
  <2>1. CASE disk[proc[p].file] = None
    BY <1>6, <2>1, StoresStay DEF Store!Erase
  <2>2. CASE disk[proc[p].file] # None
    BY <1>1, <1>2, <1>6, <2>2, StoresEmptied DEF Store!Erase
  <2> QED BY <2>1, <2>2
<1>7. CASE Store!Unlink(p)
  <2> DEFINE c == Store!Cleared(p, "removed")
  <2>1. /\ disk' = [disk EXCEPT ![proc[p].file] = None] /\ proc[p].pc = "unlink"
        /\ proc' = [q \in Procs |-> IF proc[q].file = proc[p].file /\ proc[q].pc = "write"
                                   THEN [proc[q] EXCEPT !.pc = "unlinked"] ELSE c[q]]
    BY <1>7 DEF Store!Unlink
  <2>2. c \in [Procs -> Store!Processes] /\ \A q \in Procs : proc[q] \in Store!Processes
    BY <1>2 DEF Store!StoresInv, Store!TypeOK
  <2> HIDE DEF c
  <2>3. ASSUME NEW q \in Procs
        PROVE  /\ proc'[q] \in Store!Processes
               /\ proc'[q] = c[q] \/ (q # p /\ proc'[q].pc = "unlinked")
    <3>1. CASE proc[q].file = proc[p].file /\ proc[q].pc = "write"
      <4>1. proc'[q] = [proc[q] EXCEPT !.pc = "unlinked"] /\ q # p
        BY <2>1, <3>1
      <4> QED BY <2>2, <4>1 DEF Store!Processes
    <3>2. CASE ~(proc[q].file = proc[p].file /\ proc[q].pc = "write")
      BY <2>1, <2>2, <3>2
    <3> QED BY <3>1, <3>2
  <2>4. proc' \in [Procs -> Store!Processes]
    <3>1. proc' = [q \in Procs |-> proc'[q]]
      BY <2>1
    <3> QED BY <2>3, <3>1
  <2> QED BY <1>1, <2>1, <2>3, <2>4, StoresEmptied DEF c
<1>8. CASE Store!Kill(p)
  BY <1>8, StoresStay DEF Store!Kill
<1> QED BY <1>3, <1>4, <1>5, <1>6, <1>7, <1>8

\* An entry of a file of names is changed.
LEMMA StoresEntry ==
    ASSUME Store!StoresInv, NEW f \in {Store!AliasFile, Store!RelayFile},
           NEW t \in Store!Texts, t.entries \in Store!Entries,
           NEW n, NEW v \in Procs \cup {Old, None},
           f = Store!RelayFile =>
             /\ t.default \in Names \cup {Public}
             /\ t.default # Public => t.default \in Names /\
                  IF t.default = n THEN v # None ELSE t.entries[t.default] # None
    PROVE  Fits(f, Store!Save(Store!Set(t, n, v))) /\ Fits(f, Store!Ask(Store!Set(t, n, v)))
<1> DEFINE u == Store!Set(t, n, v)
<1>1. /\ u \in Store!Texts /\ u.default = t.default /\ u.entries \in Store!Entries
      /\ DOMAIN u.entries = DOMAIN t.entries
      /\ \A m \in DOMAIN t.entries : u.entries[m] = IF m = n THEN v ELSE t.entries[m]
  BY StoresSet
<1> HIDE DEF u
<1>2. f[1] \in {"aliases", "relays"} /\ DOMAIN t.entries = Names
  BY StoresFiles DEF Store!Entries
<1>3. Store!Good(f, u)
  BY <1>1, <1>2 DEF Store!Good
<1> QED BY <1>1, <1>3, StoresSave DEF u

\* A text without entries.
LEMMA StoresPlain ==
    ASSUME Store!StoresInv, NEW f \in Store!Disk, f[1] \notin {"aliases", "relays", "space"},
           NEW t \in Store!Texts, t.entries = Store!NoEntries
    PROVE  Fits(f, Store!Save(t))
<1>1. Store!Good(f, t)
  BY StoresTexts, StoresFiles DEF Store!Good
<1> QED BY <1>1, StoresSave

LEMMA StoresAliases ==
    ASSUME Store!StoresInv, NEW p \in Procs, NEW n \in Names,
           \/ Store!AliasRemove(p, n) \/ Store!AliasShow(p, n)
           \/ \E force \in BOOLEAN : Store!AliasAdd(p, n, force)
    PROVE  Store!StoresInv'
<1> DEFINE f == Store!AliasFile
           t == Store!Aliases
<1>1. /\ t \in Store!Texts /\ t.entries \in Store!Entries /\ f \in Store!Disk /\ f # Store!RelayFile
  BY StoresRead, StoresFiles DEF Store!Good
<1>2. Fits(f, Store!Save(Store!AliasAdded(p, n)))
  <2> HIDE DEF f, t
  <2>1. Fits(f, Store!Save(Store!Set(t, n, p)))
    BY <1>1, StoresEntry DEF f
  <2> QED BY <2>1 DEF Store!AliasAdded, t
<1>3. Fits(f, Store!Save(Store!Set(t, n, None)))
  <2> HIDE DEF f, t
  <2> QED BY <1>1, StoresEntry DEF f
<1>4. Fits(f, Store!Fail) /\ Fits(f, Store!Done)
  BY StoresIdle
<1>5. PICK o : Fits(f, o) /\ Store!Run(p, f, o)
  BY <1>2, <1>3, <1>4 DEF Store!AliasRemove, Store!AliasShow, Store!AliasAdd
<1> HIDE DEF f
<1> QED BY <1>1, <1>5, StoresRun

LEMMA StoresRelays ==
    ASSUME Store!StoresInv, NEW p \in Procs, NEW n \in Names \cup {Public},
           \/ Store!RelaySetDefault(p, n)
           \/ /\ n \in Names
              /\ \/ Store!RelayRemove(p, n) \/ Store!RelayShow(p, n)
                 \/ \E default \in BOOLEAN :
                      Store!RelayAdd(p, n, default) \/ Store!RelayReceive(p, n, default)
    PROVE  Store!StoresInv'
<1> DEFINE f == Store!RelayFile
           t == Store!Relays
<1>1. /\ t \in Store!Texts /\ t.entries \in Store!Entries /\ f \in Store!Disk
      /\ t.default \in Names \cup {Public}
      /\ t.default # Public => t.entries[t.default] # None
  BY StoresRead, StoresFiles DEF Store!Good
<1>2. p # None
  BY StoresAssumption
<1> HIDE DEF t
<1>3. ASSUME NEW d \in Names \cup {Public}
      PROVE  /\ [t EXCEPT !.default = d] \in Store!Texts
             /\ [t EXCEPT !.default = d].default = d /\ [t EXCEPT !.default = d].entries = t.entries
  BY <1>1 DEF Store!Texts
<1>4. n \in Names => Fits(f, Store!Save(Store!Set(t, n, p)))
  BY <1>1, <1>2, StoresEntry
<1>5. n \in Names => Fits(f, Store!Save(Store!Set([t EXCEPT !.default = n], n, p)))
  <2> DEFINE u == [t EXCEPT !.default = n]
  <2>1. u \in Store!Texts /\ u.default = n /\ u.entries = t.entries
    BY <1>3
  <2> HIDE DEF u
  <2>2. n \in Names => Fits(f, Store!Save(Store!Set(u, n, p)))
    BY <1>1, <1>2, <2>1, StoresEntry
  <2> QED BY <2>2 DEF u
<1>6. n \in Names => \A default \in BOOLEAN : Fits(f, Store!Save(Store!RelayAdded(p, n, default)))
  BY <1>4, <1>5 DEF Store!RelayAdded, t
<1>7. Fits(f, Store!Ask(Store!RelayRemoved(n)))
  <2> DEFINE u == IF t.default = n THEN [t EXCEPT !.default = Public] ELSE t
  <2>1. u \in Store!Texts /\ u.entries = t.entries /\ (u.default = Public \/ (u.default = t.default /\ u.default # n))
    BY <1>1, <1>3
  <2> HIDE DEF u
  <2>2. Fits(f, Store!Ask(Store!Set(u, n, None)))
    BY <1>1, <2>1, StoresEntry
  <2> QED BY <2>2 DEF Store!RelayRemoved, u, t
<1>8. n = Public \/ t.entries[n] # None => Fits(f, Store!Save(Store!RelayDefaulted(n)))
  <2> DEFINE u == [t EXCEPT !.default = n]
  <2>1. u \in Store!Texts /\ u.default = n /\ u.entries = t.entries
    BY <1>3
  <2>2. Store!RelayDefaulted(n) = u
    BY DEF Store!RelayDefaulted, t
  <2> HIDE DEF u
  <2>3. n = Public \/ t.entries[n] # None => Store!Good(f, u)
    BY <1>1, <2>1, StoresFiles DEF Store!Good
  <2> QED BY <1>1, <2>1, <2>2, <2>3, StoresSave
<1>9. Fits(f, Store!Fail) /\ Fits(f, Store!Done)
  BY StoresIdle
<1>10. PICK o : Fits(f, o) /\ Store!Run(p, f, o)
  <2>1. CASE Store!RelaySetDefault(p, n)
    BY <1>8, <1>9, <2>1 DEF Store!RelaySetDefault, t
  <2>2. CASE n \in Names /\ (Store!RelayRemove(p, n) \/ Store!RelayShow(p, n))
    BY <1>7, <1>9, <2>2 DEF Store!RelayRemove, Store!RelayShow
  <2>3. ASSUME n \in Names, NEW default \in BOOLEAN,
               Store!RelayAdd(p, n, default) \/ Store!RelayReceive(p, n, default)
        PROVE  \E o : Fits(f, o) /\ Store!Run(p, f, o)
    <3>1. Fits(f, Store!Save(Store!RelayAdded(p, n, default)))
      BY <1>6, <2>3
    <3> QED BY <1>9, <2>3, <3>1 DEF Store!RelayAdd, Store!RelayReceive
  <2> QED BY <2>1, <2>2, <2>3
<1> HIDE DEF f
<1> QED BY <1>1, <1>10, StoresRun

LEMMA StoresIdentities ==
    ASSUME Store!StoresInv, NEW p \in Procs, NEW a \in Addrs, NEW n \in Names,
           \/ Store!IdentityCreate(p, a) \/ Store!IdentitySetName(p, a) \/ Store!IdentityDelete(p, a)
           \/ Store!SetDefault(p, a) \/ Store!ImportHost(p, a) \/ Store!CacheHost(p, a)
           \/ Store!ClearDefault(p) \/ Store!IdentityShow(p)
           \/ Store!ClaimName(p, n) \/ Store!ReleaseName(p, n)
    PROVE  Store!StoresInv'
<1>1. ASSUME NEW x \in Names \cup Addrs \cup Procs \cup {None, Public}
      PROVE  /\ Store!Content(x, Store!NoEntries) \in Store!Texts
             /\ Store!Content(x, Store!NoEntries).entries = Store!NoEntries
  BY <1>1, StoresTexts
<1>2. /\ Store!Config \in Store!Texts /\ Store!Config.entries = Store!NoEntries
  BY StoresRead, StoresFiles DEF Store!Good
<1>3. ASSUME NEW x \in Addrs \cup {None}
      PROVE  /\ [Store!Config EXCEPT !.default = x] \in Store!Texts
             /\ [Store!Config EXCEPT !.default = x].entries = Store!NoEntries
  <2> DEFINE t == Store!Config
  <2>1. t \in Store!Texts /\ t.entries = Store!NoEntries
    BY <1>2
  <2> HIDE DEF t
  <2>2. [t EXCEPT !.default = x] \in Store!Texts /\ [t EXCEPT !.default = x].entries = Store!NoEntries
    BY <1>3, <2>1 DEF Store!Texts
  <2> QED BY <2>2 DEF t
<1>4. SUFFICES ASSUME NEW f \in Store!Disk, NEW o, Fits(f, o), Store!Run(p, f, o)
               PROVE  Store!StoresInv'
  <2> SUFFICES \E f \in Store!Disk : \E o : Fits(f, o) /\ Store!Run(p, f, o)
    OBVIOUS
  <2>1. CASE \/ Store!IdentityCreate(p, a) \/ Store!IdentitySetName(p, a) \/ Store!IdentityDelete(p, a)
    <3> DEFINE f == Store!Identity(a)
    <3>1. f \in Store!Disk /\ f[1] = "identity" /\ f # Store!RelayFile
      BY StoresFiles
    <3> HIDE DEF f
    <3>2. /\ Fits(f, Store!Save(Store!Content(None, Store!NoEntries)))
          /\ Fits(f, Store!Save(Store!Content(p, Store!NoEntries)))
      BY <1>1, <3>1, StoresPlain
    <3>3. Fits(f, Store!Fail) /\ Fits(f, Store!Ask(None))
      BY <3>1, StoresIdle
    <3> QED BY <2>1, <3>1, <3>2, <3>3
            DEF Store!IdentityCreate, Store!IdentitySetName, Store!IdentityDelete, f
  <2>2. CASE Store!SetDefault(p, a) \/ Store!ClearDefault(p) \/ Store!IdentityShow(p)
    <3> DEFINE f == Store!ConfigFile
    <3>1. f \in Store!Disk /\ f[1] = "config"
      BY StoresFiles
    <3> HIDE DEF f
    <3>2. /\ Fits(f, Store!Save([Store!Config EXCEPT !.default = a]))
          /\ Fits(f, Store!Save([Store!Config EXCEPT !.default = None]))
      BY <1>3, <3>1, StoresPlain
    <3>3. Fits(f, Store!Fail) /\ Fits(f, Store!Done)
      BY StoresIdle
    <3> QED BY <2>2, <3>1, <3>2, <3>3 DEF Store!SetDefault, Store!ClearDefault, Store!IdentityShow, f
  <2>3. CASE Store!ImportHost(p, a) \/ Store!CacheHost(p, a)
    <3> DEFINE f == Store!Known(a)
    <3>1. f \in Store!Disk /\ f[1] = "known"
      BY StoresFiles
    <3> HIDE DEF f
    <3>2. Fits(f, Store!Save(Store!KnownHost))
      BY <1>1, <3>1, StoresPlain DEF Store!KnownHost
    <3>3. Fits(f, Store!Fail) /\ Fits(f, Store!Done)
      BY StoresIdle
    <3> QED BY <2>3, <3>1, <3>2, <3>3 DEF Store!ImportHost, Store!CacheHost, f
  <2>4. CASE Store!ClaimName(p, n) \/ Store!ReleaseName(p, n)
    <3> DEFINE f == Store!Claim(n)
    <3>1. f \in Store!Disk /\ f[1] = "claim" /\ f # Store!RelayFile
      BY StoresFiles
    <3> HIDE DEF f
    <3>2. ASSUME NEW b \in Addrs PROVE Fits(f, Store!Save(Store!NewClaim(b)))
      BY <1>1, <3>1, StoresPlain DEF Store!NewClaim
    <3>3. Fits(f, Store!Fail) /\ Fits(f, Store!Ask(None))
      BY <3>1, StoresIdle
    <3>4. CASE Store!ReleaseName(p, n)
      BY <3>1, <3>3, <3>4 DEF Store!ReleaseName, f
    <3>5. CASE Store!ClaimName(p, n)
      <4>1. Store!Defaults \subseteq Addrs
        BY DEF Store!Defaults, Store!Identities
      <4>2. PICK b \in Addrs, c \in BOOLEAN :
              Store!Run(p, f, IF c THEN Store!Save(Store!NewClaim(b)) ELSE Store!Fail)
        <5>1. CASE \E b \in Addrs : Store!Run(p, f, IF Store!Loaded(Store!Identity(b))
                                            THEN Store!Save(Store!NewClaim(b)) ELSE Store!Fail)
          BY <5>1
        <5>2. CASE \E b \in Store!Defaults : Store!Run(p, f, IF Store!ListFails
                                            THEN Store!Fail ELSE Store!Save(Store!NewClaim(b)))
          BY <4>1, <5>2
        <5> QED BY <3>5, <5>1, <5>2 DEF Store!ClaimName, f
      <4> QED BY <3>1, <3>2, <3>3, <4>2
    <3> QED BY <2>4, <3>4, <3>5
  <2> QED BY <2>1, <2>2, <2>3, <2>4
<1> QED BY <1>4, StoresRun

\* The members of a namespace after the roles of one person changed.
LEMMA StoresMembers ==
    ASSUME NEW c \in Store!Texts, c.entries \in Store!Roles, NEW m \in Persons,
           NEW new \in SUBSET {"member", "admin"},
           Store!Cardinality(Store!Members(c)) <= MaxMembers,
           \/ "member" \in new => m \in Store!Members(c)
           \/ Store!Cardinality(Store!Members(c)) < MaxMembers
    PROVE  /\ Store!Set(c, m, new) \in Store!Texts /\ Store!Set(c, m, new).entries \in Store!Roles
           /\ Store!Cardinality(Store!Members(Store!Set(c, m, new))) <= MaxMembers
<1> DEFINE u == Store!Set(c, m, new)
           old == Store!Members(c)
           now == Store!Members(u)
<1>1. /\ u \in Store!Texts /\ u.entries \in Store!Roles
      /\ \A q \in Persons : u.entries[q] = IF q = m THEN new ELSE c.entries[q]
  <2>1. u \in Store!Texts
    BY StoresSet
  <2>2. u.entries \in Store!Roles
    BY StoresSet
  <2>3. \A q \in DOMAIN c.entries : u.entries[q] = IF q = m THEN new ELSE c.entries[q]
    BY StoresSet
  <2>4. DOMAIN c.entries = Persons
    BY DEF Store!Roles
  <2> QED BY <2>1, <2>2, <2>3, <2>4
<1> HIDE DEF u
<1>2. \A S : Store!Cardinality(S) = Cardinality(S)
  BY DEF Store!Cardinality, Cardinality
<1>3. old \subseteq Persons /\ now \subseteq Persons
  BY DEF Store!Members
<1>4. IsFiniteSet(old) /\ IsFiniteSet(now)
  BY <1>3, StoresAssumption, FS_Subset
<1>5. Cardinality(old) \in Nat /\ Cardinality(now) \in Nat /\ MaxMembers \in Nat
  BY <1>4, StoresAssumption, FS_CardinalityType
<1>6. Cardinality(now) <= MaxMembers
  <2>1. CASE "member" \in new => m \in old
    <3>1. now \subseteq old
      BY <1>1, <2>1 DEF Store!Members
    <3>2. Cardinality(now) <= Cardinality(old)
      BY <1>4, <3>1, FS_Subset
    <3> HIDE DEF old, now
    <3> QED BY <1>2, <1>5, <3>2 DEF old
  <2>2. CASE Store!Cardinality(old) < MaxMembers
    <3>1. now \subseteq old \cup {m}
      BY <1>1 DEF Store!Members
    <3>2. IsFiniteSet(old \cup {m}) /\ Cardinality(old \cup {m}) <= Cardinality(old) + 1
          /\ Cardinality(old \cup {m}) \in Nat
      <4> HIDE DEF old
      <4>1. /\ IsFiniteSet(old \cup {m})
            /\ Cardinality(old \cup {m}) = IF m \in old THEN Cardinality(old) ELSE Cardinality(old) + 1
        BY <1>4, FS_AddElement
      <4> QED BY <1>5, <4>1
    <3>3. Cardinality(now) <= Cardinality(old \cup {m})
      BY <3>1, <3>2, FS_Subset
    <3>4. Cardinality(old) < MaxMembers
      BY <1>2, <2>2
    <3> HIDE DEF old, now
    <3> QED BY <1>5, <3>2, <3>3, <3>4
  <2> QED BY <2>1, <2>2
<1> QED BY <1>1, <1>2, <1>6 DEF u

LEMMA StoresSpaces ==
    ASSUME Store!StoresInv, NEW p \in Procs, NEW s \in Spaces,
           \/ Store!SpaceCreate(p, s)
           \/ \E force \in BOOLEAN : Store!SpaceDelete(p, s, force)
           \/ \E m \in Persons : \/ Store!AddMember(p, s, m) \/ Store!RemoveMember(p, s, m)
                                 \/ Store!AddAdmin(p, s, m) \/ Store!RemoveAdmin(p, s, m)
    PROVE  Store!StoresInv'
<1> DEFINE f == Store!Space(s)
           c == Store!Namespace(s)
<1>1. f \in Store!Disk /\ f[1] = "space" /\ f # Store!RelayFile
  BY StoresFiles
<1>2. c # None =>
        /\ disk[f] = c /\ c \in Store!Texts /\ c.entries \in Store!Roles
        /\ Store!Cardinality(Store!Members(c)) <= MaxMembers
  <2>1. c # None => c = disk[f] /\ disk[f] \notin Store!Unreadable
    BY DEF Store!Namespace, Store!Unreadable
  <2> QED BY <1>1, <2>1, StoresRead DEF Store!Good
<1>3. Fits(f, Store!Fail) /\ Fits(f, Store!Done) /\ Fits(f, Store!Remove)
  BY <1>1, StoresIdle
<1> SUFFICES \E o : Fits(f, o) /\ Store!Run(p, f, o)
  <2> HIDE DEF f
  <2> QED BY <1>1, StoresRun
<1>4. CASE Store!SpaceCreate(p, s)
  <2>1. /\ Store!NewSpace \in Store!Texts /\ Store!NewSpace.entries \in Store!Roles
        /\ Store!Members(Store!NewSpace) = {}
    <3>1. [m \in Persons |-> {}] \in Store!Roles
      BY DEF Store!Roles
    <3>2. /\ Store!NewSpace \in Store!Texts /\ Store!NewSpace.entries = [m \in Persons |-> {}]
      BY <3>1, StoresTexts DEF Store!NewSpace
    <3>3. Store!Members(Store!NewSpace) = {}
      BY <3>2 DEF Store!Members
    <3> QED BY <3>1, <3>2, <3>3
  <2>2. Store!Cardinality({}) = Cardinality({})
    BY DEF Store!Cardinality, Cardinality
  <2>3. Store!Cardinality(Store!Members(Store!NewSpace)) <= MaxMembers
    BY <2>1, <2>2, FS_EmptySet, StoresAssumption
  <2>4. Store!Good(f, Store!NewSpace)
    BY <1>1, <2>1, <2>3, StoresFiles DEF Store!Good
  <2> HIDE DEF f
  <2>5. Fits(f, Store!Save(Store!NewSpace))
    BY <2>1, <2>4, StoresSave
  <2> QED BY <1>3, <1>4, <2>5 DEF Store!SpaceCreate, f
<1>5. CASE \E force \in BOOLEAN : Store!SpaceDelete(p, s, force)
  BY <1>3, <1>5 DEF Store!SpaceDelete
<1>6. ASSUME NEW m \in Persons,
             \/ Store!AddMember(p, s, m) \/ Store!RemoveMember(p, s, m)
             \/ Store!AddAdmin(p, s, m) \/ Store!RemoveAdmin(p, s, m)
      PROVE  \E o : Fits(f, o) /\ Store!Run(p, f, o)
  <2>1. ASSUME c # None, NEW new \in SUBSET {"member", "admin"},
               \/ "member" \in new => m \in Store!Members(c)
               \/ Store!Cardinality(Store!Members(c)) < MaxMembers
        PROVE  Fits(f, Store!Save(Store!Set(c, m, new)))
    <3> DEFINE t == Store!Set(c, m, new)
    <3> HIDE DEF f, c
    <3>1. /\ t \in Store!Texts /\ t.entries \in Store!Roles
          /\ Store!Cardinality(Store!Members(t)) <= MaxMembers
      BY <1>2, <2>1, StoresMembers
    <3> HIDE DEF t
    <3>2. Store!Good(f, t)
      BY <1>1, <3>1, StoresFiles DEF Store!Good
    <3> QED BY <3>1, <3>2, StoresSave DEF t
  <2>2. Fits(f, Store!Fail) /\ Fits(f, Store!Done)
    BY StoresIdle
  <2>3. c # None => c.entries[m] \in SUBSET {"member", "admin"}
    BY <1>2 DEF Store!Roles
  <2>4. c # None => (m \in Store!Members(c) <=> "member" \in c.entries[m])
    BY DEF Store!Members
  <2>5. c # None => Store!Cardinality(Store!Members(c)) \in Nat /\ MaxMembers \in Nat
    <3>1. Store!Cardinality(Store!Members(c)) = Cardinality(Store!Members(c))
      BY DEF Store!Cardinality, Cardinality
    <3>2. Store!Members(c) \subseteq Persons
      BY DEF Store!Members
    <3> QED BY <3>1, <3>2, StoresAssumption, FS_Subset, FS_CardinalityType
  <2>6. CASE Store!AddMember(p, s, m)
    <3>1. c # None /\ ~(Store!Cardinality(Store!Members(c)) >= MaxMembers) =>
            Fits(f, Store!Save(Store!Set(c, m, c.entries[m] \cup {"member"})))
      <4> HIDE DEF f, c
      <4> SUFFICES ASSUME c # None, ~(Store!Cardinality(Store!Members(c)) >= MaxMembers)
                   PROVE  Fits(f, Store!Save(Store!Set(c, m, c.entries[m] \cup {"member"})))
        OBVIOUS
      <4>1. Store!Cardinality(Store!Members(c)) < MaxMembers
        BY <2>5
      <4>2. c.entries[m] \cup {"member"} \in SUBSET {"member", "admin"}
        BY <2>3
      <4> QED BY <2>1, <4>1, <4>2
    <3> QED BY <2>2, <2>6, <3>1 DEF Store!AddMember, Store!Full
  <2>7. ASSUME NEW new, c # None => new \in SUBSET {"member", "admin"} /\
                                    ("member" \in new => m \in Store!Members(c)),
               Store!Change(p, s, m, new)
        PROVE  \E o : Fits(f, o) /\ Store!Run(p, f, o)
    <3>1. c # None => Fits(f, Store!Save(Store!Set(c, m, new)))
      <4> HIDE DEF f, c
      <4> QED BY <2>1, <2>7
    <3> QED BY <2>2, <2>7, <3>1 DEF Store!Change
  <2>8. CASE Store!RemoveMember(p, s, m)
    <3> DEFINE new == IF c = None THEN {} ELSE c.entries[m] \ {"member"}
    <3>1. c # None => new \in SUBSET {"member", "admin"} /\ "member" \notin new
      BY <2>3
    <3>2. Store!Change(p, s, m, new)
      BY <2>8 DEF Store!RemoveMember
    <3> HIDE DEF new, f, c
    <3> QED BY <2>7, <3>1, <3>2
  <2>9. CASE Store!AddAdmin(p, s, m)
    <3> DEFINE new == IF c = None THEN {} ELSE c.entries[m] \cup {"admin"}
    <3>1. c # None => new \in SUBSET {"member", "admin"} /\
                      ("member" \in new => m \in Store!Members(c))
      BY <2>3, <2>4
    <3>2. Store!Change(p, s, m, new)
      BY <2>9 DEF Store!AddAdmin
    <3> HIDE DEF new, f, c
    <3> QED BY <2>7, <3>1, <3>2
  <2>10. CASE Store!RemoveAdmin(p, s, m)
    <3> DEFINE new == IF c = None THEN {} ELSE c.entries[m] \ {"admin"}
    <3>1. c # None => new \in SUBSET {"member", "admin"} /\
                      ("member" \in new => m \in Store!Members(c))
      BY <2>3, <2>4
    <3>2. Store!Change(p, s, m, new)
      BY <2>10 DEF Store!RemoveAdmin
    <3> HIDE DEF new, f, c
    <3> QED BY <2>7, <3>1, <3>2
  <2> QED BY <1>6, <2>6, <2>8, <2>9, <2>10
<1> QED BY <1>4, <1>5, <1>6

\* What was there before fits its file.
LEMMA StoresBefore ==
    ASSUME NEW f \in Store!Disk, NEW n \in Names, NEW a \in Addrs, NEW m \in Persons
    PROVE  Store!Before(f, n, a, m) = None \/ Store!Good(f, Store!Before(f, n, a, m))
<1>1. /\ Store!Prior(n) \in Store!Entries /\ Store!Prior(n)[n] = Old /\ Old # None
  BY StoresAssumption DEF Store!Prior, Store!Entries
<1>2. ASSUME NEW d \in Names \cup Addrs \cup Procs \cup {None, Public},
             NEW e \in Store!Entries \cup Store!Roles
      PROVE  /\ Store!Content(d, e) \in Store!Texts
             /\ Store!Content(d, e).default = d /\ Store!Content(d, e).entries = e
  BY StoresTexts
<1>3. Store!NoEntries \in Store!Entries
  BY StoresTexts
<1>4. ASSUME NEW c, c = Store!Content(None, Store!Prior(n))
      PROVE  Store!Good(Store!AliasFile, c)
  BY <1>1, <1>2, <1>4, StoresFiles DEF Store!Good
<1>5. ASSUME NEW c, c = Store!Content(n, Store!Prior(n))
      PROVE  Store!Good(Store!RelayFile, c)
  BY <1>1, <1>2, <1>5, StoresFiles DEF Store!Good
<1>6. ASSUME NEW x \in {None, a}, NEW c, c = Store!Content(x, Store!NoEntries),
             f[1] \notin {"aliases", "relays", "space"}
      PROVE  Store!Good(f, c)
  BY <1>2, <1>3, <1>6, StoresFiles DEF Store!Good
<1>7. ASSUME f[1] = "space", NEW c,
             c = Store!Content(None, [q \in Persons |-> IF q = m THEN {"member"} ELSE {}])
      PROVE  Store!Good(f, c)
  <2> DEFINE e == [q \in Persons |-> IF q = m THEN {"member"} ELSE {}]
  <2>1. e \in Store!Roles /\ \A q \in Persons : "member" \in e[q] <=> q = m
    BY DEF Store!Roles
  <2> HIDE DEF e
  <2>2. c \in Store!Texts /\ c.entries = e
    BY <1>2, <1>7, <2>1 DEF e
  <2>3. Store!Members(c) = {m}
    BY <2>1, <2>2 DEF Store!Members
  <2>4. Store!Cardinality({m}) = Cardinality({m})
    BY DEF Store!Cardinality, Cardinality
  <2>5. Store!Cardinality(Store!Members(c)) <= MaxMembers
    <3>1. Cardinality({m}) = 1
      BY FS_Singleton
    <3>2. 1 <= MaxMembers
      BY StoresAssumption
    <3> QED BY <2>3, <2>4, <3>1, <3>2
  <2> QED BY <1>7, <2>1, <2>2, <2>5, StoresFiles DEF Store!Good
<1>8. /\ Store!AliasFile # Store!RelayFile
      /\ \A b \in Addrs : Store!Identity(b)[1] \notin {"aliases", "relays", "space"}
      /\ Store!ConfigFile[1] \notin {"aliases", "relays", "space"}
      /\ Store!Claim(n)[1] \notin {"aliases", "relays", "space"}
      /\ Store!RelayFile # Store!AliasFile
  BY StoresFiles
<1> QED BY <1>4, <1>5, <1>6, <1>7, <1>8 DEF Store!Before

LEMMA StoresInit == ASSUME Store!Init PROVE Store!StoresInv
<1> DEFINE n == CHOOSE x \in Names : TRUE
           a == CHOOSE x \in Addrs : TRUE
           m == CHOOSE x \in Persons : TRUE
<1>1. n \in Names /\ a \in Addrs /\ m \in Persons
  BY StoresAssumption
<1>2. /\ disk = [f \in Store!Disk |-> Store!Before(f, n, a, m)]
      /\ proc = [p \in Procs |-> Store!NewProc]
  BY DEF Store!Init
<1> HIDE DEF n, a, m
<1>3. \A f \in Store!Disk : disk[f] = None \/ Store!Good(f, disk[f])
  BY <1>1, <1>2, StoresBefore
<1>4. \A f \in Store!Disk : disk[f] \in Store!Texts \cup Store!Unreadable
  BY <1>3 DEF Store!Good, Store!Unreadable
<1>5. Store!TypeOK
  BY <1>2, <1>4, StoresFiles DEF Store!TypeOK, Store!Processes, Store!NewProc
<1>6. \A p \in Procs : proc[p].pc = "idle"
  BY <1>2 DEF Store!NewProc
<1> QED BY <1>3, <1>5, <1>6 DEF Store!StoresInv, Store!Consistent, Store!Unreadable

LEMMA StoresNext ==
    ASSUME Store!StoresInv, [Store!Next]_(Store!vars)
    PROVE  Store!StoresInv'
<1>1. CASE UNCHANGED Store!vars
  <2>1. disk' = disk /\ proc' = proc
    BY <1>1 DEF Store!vars
  <2> QED BY <2>1, StoresConstant DEF Store!StoresInv, Store!TypeOK, Store!Consistent
<1>2. ASSUME NEW p \in Procs, Store!Command(p)
      PROVE  Store!StoresInv'
  <2>1. PICK n0 \in Names, a0 \in Addrs : TRUE
    BY StoresAssumption
  <2>2. ASSUME NEW n \in Names,
               \/ Store!AliasRemove(p, n) \/ Store!AliasShow(p, n)
               \/ \E flag \in BOOLEAN : Store!AliasAdd(p, n, flag)
        PROVE  Store!StoresInv'
    BY <2>2, StoresAliases
  <2>3. ASSUME NEW n \in Names,
               \/ Store!RelayRemove(p, n) \/ Store!RelayShow(p, n)
               \/ \E flag \in BOOLEAN : Store!RelayAdd(p, n, flag) \/ Store!RelayReceive(p, n, flag)
        PROVE  Store!StoresInv'
    BY <2>3, StoresRelays
  <2>4. ASSUME NEW n \in Names \cup {Public}, Store!RelaySetDefault(p, n)
        PROVE  Store!StoresInv'
    BY <2>4, StoresRelays
  <2>5. ASSUME NEW n \in Names, Store!ClaimName(p, n) \/ Store!ReleaseName(p, n)
        PROVE  Store!StoresInv'
    BY <2>1, <2>5, StoresIdentities
  <2>6. ASSUME NEW a \in Addrs,
               \/ Store!IdentityCreate(p, a) \/ Store!IdentitySetName(p, a)
               \/ Store!IdentityDelete(p, a) \/ Store!SetDefault(p, a) \/ Store!ImportHost(p, a)
               \/ Store!CacheHost(p, a)
        PROVE  Store!StoresInv'
    BY <2>1, <2>6, StoresIdentities
  <2>7. ASSUME Store!ClearDefault(p) \/ Store!IdentityShow(p) PROVE Store!StoresInv'
    BY <2>1, <2>7, StoresIdentities
  <2>8. ASSUME NEW s \in Spaces,
               \/ Store!SpaceCreate(p, s) \/ \E force \in BOOLEAN : Store!SpaceDelete(p, s, force)
               \/ \E m \in Persons : \/ Store!AddMember(p, s, m) \/ Store!RemoveMember(p, s, m)
                                     \/ Store!AddAdmin(p, s, m) \/ Store!RemoveAdmin(p, s, m)
        PROVE  Store!StoresInv'
    BY <2>8, StoresSpaces
  <2> QED BY <1>2, <2>2, <2>3, <2>4, <2>5, <2>6, <2>7, <2>8 DEF Store!Command
<1>3. CASE Store!MixedBefore
  <2>1. \A f \in Store!Disk : disk'[f] \in {None, Garbled}
    BY <1>3 DEF Store!MixedBefore
  <2>2. disk' \in [Store!Disk -> Store!Texts \cup Store!Unreadable] /\ proc' = proc
    BY <1>3 DEF Store!MixedBefore, Store!Unreadable
  <2> QED BY <2>1, <2>2, StoresConstant
          DEF Store!StoresInv, Store!TypeOK, Store!Consistent, Store!Unreadable
<1> QED BY <1>1, <1>2, <1>3, StoresSteps DEF Store!Next

LEMMA StoresConsistent ==
    ASSUME Store!StoresInv
    PROVE  Store!FilesConsistent
<1>1. \A f \in Store!Disk : disk[f] \notin Store!Unreadable => Store!Good(f, disk[f])
  BY StoresRead
<1>2. \A s \in Spaces : Store!Namespace(s) # None =>
        Store!Namespace(s) = disk[Store!Space(s)] /\ disk[Store!Space(s)] \notin Store!Unreadable
  BY DEF Store!Namespace
<1> QED BY <1>1, <1>2, StoresFiles DEF Store!FilesConsistent, Store!Good
-----------------------------------------------------------------------------
LEMMA ToolsInit == ASSUME T!Init PROVE T!TypeOK
<1>1. /\ op \in [T!Ops -> {"unused", "waiting", "ended"}] /\ task \in [T!Ops -> 0 .. 4]
      /\ opened \in [T!Ops -> {"none", "open", "closed"}] /\ protocol \in [T!Sides -> BOOLEAN]
  BY DEF T!Init
<1>2. request \in Seq(T!Ops)
  BY DEF T!Init
<1>3. newest \in 0 .. MaxOps
  BY BoundAssumption DEF T!Init
<1> QED BY <1>1, <1>2, <1>3 DEF T!Init, T!TypeOK

LEMMA ToolsNext == ASSUME T!TypeOK, [T!Next]_(T!vars) PROVE T!TypeOK'
<1> USE DEF T!TypeOK, T!Ops, T!Sides
<1>1. CASE UNCHANGED T!vars
  BY <1>1 DEF T!vars
<1>2. CASE T!Launch
  BY <1>2, ToolsAssumption DEF T!Launch
<1>3. CASE T!RunClient
  <2>1. /\ clientPc' \in {"ready", "failed"}
        /\ UNCHANGED <<tool, up, op, request, task, opened, newest, serverDone, serverPc, answered,
                       unsent>>
    BY <1>3 DEF T!RunClient, T!serverState, T!handlers, T!replies
  <2>2. protocol' \in [T!Sides -> BOOLEAN]
    <3>1. \/ protocol' = protocol
          \/ protocol' = [protocol EXCEPT !["client"] = TRUE]
      BY <1>3 DEF T!RunClient
    <3> QED BY <3>1
  <2> QED BY <2>1, <2>2
<1>4. ASSUME NEW o \in T!Ops, T!Reply(o)
      PROVE  answered' \subseteq T!Ops /\ unsent' \subseteq T!Ops
  BY <1>4 DEF T!Reply
<1>5. T!Disconnect => /\ up' \in BOOLEAN /\ serverDone' \in BOOLEAN
                      /\ opened' \in [T!Ops -> {"none", "open", "closed"}]
  BY DEF T!Disconnect
<1>6. CASE T!FtpWelcome \/ T!PeerConnects
  <2>1. CASE T!FtpWelcome
    BY <2>1 DEF T!FtpWelcome, T!serverState, T!handlers, T!replies
  <2>2. CASE T!PeerConnects
    <3>1. 1 \in T!Ops
      BY BoundAssumption, ToolsAssumption
    <3>2. /\ serverPc' = "running" /\ (T!Reply(1) \/ UNCHANGED <<answered, unsent>>)
          /\ UNCHANGED <<tool, up, clientPc, op, request, task, opened, newest, serverDone>>
      BY <2>2 DEF T!PeerConnects, T!handlers, T!replies
    <3>3. protocol' \in [T!Sides -> BOOLEAN]
      <4>1. \/ protocol' = [protocol EXCEPT !["server"] = TRUE]
            \/ protocol' = [protocol EXCEPT !["server"] = FALSE]
        BY <2>2 DEF T!PeerConnects
      <4> QED BY <4>1
    <3> QED BY <1>4, <3>1, <3>2, <3>3
  <2> QED BY <1>6, <2>1, <2>2
<1>7. CASE T!ClientEnds
  <2>1. /\ clientPc' = "done" /\ T!Disconnect
        /\ UNCHANGED <<tool, protocol, op, request, task, newest, answered, unsent, serverPc>>
    BY <1>7 DEF T!ClientEnds, T!replies
  <2> QED BY <1>5, <2>1
<1>8. CASE T!Lose
  <2>1. /\ T!Disconnect
        /\ UNCHANGED <<tool, protocol, clientPc, op, request, task, newest, answered, unsent, serverPc>>
    BY <1>8 DEF T!Lose, T!replies
  <2> QED BY <1>5, <2>1
<1>9. CASE T!ServerEnds
  BY <1>9 DEF T!ServerEnds, T!replies
<1>10. ASSUME NEW o \in T!Ops, T!Start(o) PROVE T!TypeOK'
  <2>1. /\ T!Issue(o) /\ clientPc' \in {clientPc, "asked"}
    BY <1>10 DEF T!Start, T!PingRequest, T!DnsQuery, T!Trace, T!Scan, T!MountRequest,
                 T!RdpLocalClient, T!VncLocalClient, T!TunnelLocalClient
  <2>2. op' \in [T!Ops -> {"unused", "waiting", "ended"}]
    BY <2>1 DEF T!Issue
  <2>3. request' \in Seq(T!Ops)
    BY <2>1, AppendProperties DEF T!Issue
  <2>4. UNCHANGED <<tool, up, protocol, task, opened, newest, serverDone, serverPc, answered, unsent>>
    BY <2>1 DEF T!Issue, T!serverState, T!handlers, T!replies
  <2> QED BY <2>1, <2>2, <2>3, <2>4
<1>11. ASSUME NEW o \in T!Ops, T!OpEnds(o) PROVE T!TypeOK'
  BY <1>11 DEF T!OpEnds, T!serverState, T!handlers, T!replies
<1>12. ASSUME NEW o \in T!Ops, T!Take(o) PROVE request' \in Seq(T!Ops)
  <2>1. request # <<>> /\ request' = Tail(request)
    BY <1>12 DEF T!Take
  <2> QED BY <2>1, HeadTailProperties
<1>13. ASSUME NEW o \in T!Ops, T!Handle(o) PROVE T!TypeOK'
  <2>1. CASE \/ T!HandlePing(o) \/ T!HandleQuery(o) \/ T!HandleMount(o) \/ T!HandleTunnelOpen(o)
    <3>1. /\ T!Reply(o) \/ UNCHANGED <<answered, unsent>>
          /\ UNCHANGED <<tool, up, protocol, clientPc, op, task, opened, newest, serverDone, serverPc>>
      BY <2>1 DEF T!HandlePing, T!HandleQuery, T!HandleMount, T!HandleTunnelOpen, T!handlers, T!replies
    <3>2. T!Take(o)
      BY <2>1 DEF T!HandlePing, T!HandleQuery, T!HandleMount, T!HandleTunnelOpen
    <3> QED BY <1>4, <1>12, <3>1, <3>2
  <2>2. CASE T!HandleTrace(o) \/ T!HandleScan(o)
    <3>1. /\ task' \in [T!Ops -> 0 .. 4] /\ T!Take(o)
          /\ UNCHANGED <<tool, up, protocol, clientPc, op, opened, newest, answered, unsent,
                         serverDone, serverPc>>
      BY <2>2 DEF T!HandleTrace, T!HandleScan, T!replies
    <3> QED BY <1>12, <3>1
  <2>3. CASE T!SendResult(o)
    <3>1. task[o] - 1 \in 0 .. 4
      BY <2>3 DEF T!SendResult
    <3>2. task' \in [T!Ops -> 0 .. 4]
      BY <2>3, <3>1 DEF T!SendResult
    <3>3. /\ T!Reply(o)
          /\ UNCHANGED <<tool, up, protocol, clientPc, op, request, opened, newest, serverDone, serverPc>>
      BY <2>3 DEF T!SendResult
    <3> QED BY <1>4, <3>2, <3>3
  <2>4. CASE T!HandleRdpConnect(o) \/ T!HandleVncConnect(o)
    <3>1. T!OpenTarget(o)
      BY <2>4 DEF T!HandleRdpConnect, T!HandleVncConnect
    <3>2. /\ T!Take(o) /\ T!Reply(o) /\ newest' \in {o, newest}
          /\ opened' \in [T!Ops -> {"none", "open", "closed"}]
          /\ UNCHANGED <<tool, up, protocol, clientPc, op, task, serverDone, serverPc>>
      BY <3>1 DEF T!OpenTarget
    <3>3. newest' \in 0 .. MaxOps
      BY <3>2, BoundAssumption
    <3> QED BY <1>4, <1>12, <3>2, <3>3
  <2>5. CASE T!Forward(o)
    <3>1. /\ T!Reply(o) /\ serverDone' \in BOOLEAN
          /\ opened' \in [T!Ops -> {"none", "open", "closed"}]
          /\ UNCHANGED <<tool, up, protocol, clientPc, op, request, task, newest, serverPc>>
      BY <2>5 DEF T!Forward
    <3> QED BY <1>4, <3>1
  <2> QED BY <1>13, <2>1, <2>2, <2>3, <2>4, <2>5 DEF T!Handle
<1> QED BY <1>1, <1>2, <1>3, <1>6, <1>7, <1>8, <1>9, <1>10, <1>11, <1>13 DEF T!Next
-----------------------------------------------------------------------------
\* The inductive invariant of the command line is that of every component: a step
\* of the command that runs leaves the state of the others as it is.
CommandsInv ==
    /\ W!WnsInv /\ T!TypeOK /\ R!RsyncInv /\ P!ProxyInv /\ D!DaemonInv /\ Store!StoresInv
    /\ B!BridgeInv

LEMMA CommandsInit == Init => CommandsInv
BY WnsInit, ToolsInit, RsyncInit, ProxyInit, DaemonInit, StoresInit, BridgeInit DEF Init, CommandsInv

LEMMA CommandsNext == CommandsInv /\ [Next]_vars => CommandsInv'
<1> SUFFICES ASSUME CommandsInv, [Next]_vars PROVE CommandsInv'
  OBVIOUS
<1>1. /\ W!WnsInv /\ T!TypeOK /\ R!RsyncInv /\ P!ProxyInv /\ D!DaemonInv /\ Store!StoresInv
      /\ B!BridgeInv
  BY DEF CommandsInv
<1>2. [W!Next]_(W!vars)
  BY DEF Next, Invoke, WnsStep, ToolsStep, RsyncStep, ProxyStep, DaemonStep, StoresStep, BridgeStep,
         vars, wns, W!vars
<1>3. [T!Next]_(T!vars)
  BY DEF Next, Invoke, WnsStep, ToolsStep, RsyncStep, ProxyStep, DaemonStep, StoresStep, BridgeStep,
         vars, tools, T!vars
<1>4. [R!Next]_(R!vars)
  BY DEF Next, Invoke, WnsStep, ToolsStep, RsyncStep, ProxyStep, DaemonStep, StoresStep, BridgeStep,
         vars, rsync, R!vars, R!files, R!manifests, R!streams
<1>5. [P!Next]_(P!vars)
  BY DEF Next, Invoke, WnsStep, ToolsStep, RsyncStep, ProxyStep, DaemonStep, StoresStep, BridgeStep,
         vars, proxy, P!vars, P!client, P!streams, P!payloads
<1>6. [D!Next]_(D!vars)
  BY DEF Next, Invoke, WnsStep, ToolsStep, RsyncStep, ProxyStep, DaemonStep, StoresStep, BridgeStep,
         vars, daemon, D!vars, D!listening, D!conns, D!requests
<1>7. [Store!Next]_(Store!vars)
  BY DEF Next, Invoke, WnsStep, ToolsStep, RsyncStep, ProxyStep, DaemonStep, StoresStep, BridgeStep,
         vars, stores, Store!vars
<1>8. [B!Next]_bridge
  BY DEF Next, Invoke, WnsStep, ToolsStep, RsyncStep, ProxyStep, DaemonStep, StoresStep, BridgeStep,
         vars
<1>9. W!WnsInv' /\ T!TypeOK'
  BY <1>1, <1>2, <1>3, WnsNext, ToolsNext
<1>10. R!RsyncInv' /\ P!ProxyInv'
  BY <1>1, <1>4, <1>5, RsyncNext, ProxyNext
<1>11. D!DaemonInv' /\ Store!StoresInv' /\ B!BridgeInv'
  BY <1>1, <1>6, <1>7, <1>8, DaemonNext, StoresNext, BridgeNext
<1> QED BY <1>9, <1>10, <1>11 DEF CommandsInv

\* For any number of clients, relays, files, channels, connections, commands and
\* operations: no component leaves its types.  In particular a manager never asks
\* for a relay beyond its list (_try_next_relay), and rsync writes no file but those
\* of the manifest.
THEOREM TypesKept == Spec => []TypeOK
<1>1. CommandsInv => TypeOK
  BY DEF CommandsInv, W!WnsInv, R!RsyncInv, P!ProxyInv, D!DaemonInv, Store!StoresInv, B!BridgeInv,
             TypeOK
<1> QED BY <1>1, CommandsInit, CommandsNext, PTL DEF Spec

\* However many relays a manager has tried and left, and whatever of their
\* callbacks came late: a connected client uses the versions of its own peer.
THEOREM VersionsCurrent == Spec => []VersionsAreCurrent
<1>1. CommandsInv => VersionsAreCurrent
  BY DEF CommandsInv, W!WnsInv, VersionsAreCurrent
<1> QED BY <1>1, CommandsInit, CommandsNext, PTL DEF Spec

\* A client that finds a valid advertisement of a waiting WNS server has its code.
THEOREM CodesFresh == Spec => []FreshCode
<1>1. CommandsInv => FreshCode
  BY WnsFresh DEF CommandsInv, FreshCode
<1> QED BY <1>1, CommandsInit, CommandsNext, PTL DEF Spec

\* Any two trees of files: a receiver of rsync that saw DONE has the sender's
\* files, whatever vanished, was lost or was half written on the way.
THEOREM Synced == Spec => []SyncedWhenDone
<1>1. CommandsInv => SyncedWhenDone
  BY DEF CommandsInv, R!RsyncInv, SyncedWhenDone
<1> QED BY <1>1, CommandsInit, CommandsNext, PTL DEF Spec

\* However many channels, each opened once, share the proxy's stream, and whatever
\* comes between the reads of a bridge: a target gets its client's payloads from the
\* first on without a gap, and a client its target's without a gap after the first it
\* gets; sshd gets all payloads of its peer and the peer what is read in order.  Not
\* claimed are the payloads that come before a writer is registered or a connection
\* open, those that ssh drops and those an abandoned read of the fallback pump takes.
THEOREM Streams == Spec => []StreamsKept
<1>1. CommandsInv => StreamsKept
  BY DEF CommandsInv, P!ProxyInv, B!BridgeInv, StreamsKept
<1> QED BY <1>1, CommandsInit, CommandsNext, PTL DEF Spec

\* Once payloads of a proxy's channel are forwarded, the end of either of its two
\* connections is on its way to the other, and a local connection that was open when
\* its subchannel was lost is closed.  Not claimed is the end of a target whose
\* client gave up before, by a timeout or as its reply could not be written.
THEOREM Orphans == Spec => []NoOrphans
<1>1. CommandsInv => NoOrphans
  BY ProxyOrphans DEF CommandsInv, B!BridgeInv, NoOrphans
<1> QED BY <1>1, CommandsInit, CommandsNext, PTL DEF Spec

\* recv of the daemon, any number of calls side by side that time out, take a piece
\* and put its remainder back behind younger data: every byte of a peer is in one
\* place, so that none is lost and none handed out twice.  Their order is not claimed.
THEOREM Reads == Spec => []BytesKept
<1>1. CommandsInv => BytesKept
  BY DEF CommandsInv, D!DaemonInv, BytesKept
<1> QED BY <1>1, CommandsInit, CommandsNext, PTL DEF Spec

\* Nothing of a listener is left once its DELETE was answered.
THEOREM Deleted == Spec => []NothingLeft
<1>1. CommandsInv => NothingLeft
  BY DEF CommandsInv, D!DaemonInv, NothingLeft
<1> QED BY <1>1, CommandsInit, CommandsNext, PTL DEF Spec

\* Any number of commands that write the files under ~/.wh side by side, over each
\* other's text, and are killed anywhere: relays.yaml and the namespaces are
\* consistent as long as they can be read.
THEOREM FilesFit == Spec => []FilesConsistent
<1>1. CommandsInv => FilesConsistent
  BY StoresConsistent DEF CommandsInv, FilesConsistent
<1> QED BY <1>1, CommandsInit, CommandsNext, PTL DEF Spec
=============================================================================
