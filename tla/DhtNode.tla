------------------------------ MODULE DhtNode ------------------------------
(***************************************************************************)
(* The DHT of wh/wns/dht.py: SimpleDHTNode (UDP queries and answers), the  *)
(* AdvertisementServer next to it, and the three operations WNSDHTNode and *)
(* WNSDHTClient run over them: bootstrap, publish and lookup.              *)
(*                                                                         *)
(* An operation is a coroutine that asks one node after the other; each    *)
(* question is one _query call: take the next transaction id, register a   *)
(* future under it, send, wait for the answer or five seconds.  A datagram *)
(* stays in net for ever, so that it may be lost (never received),         *)
(* received twice, late, or out of order; also by a later life of the node *)
(* on the same port, which starts again at transaction id 1.               *)
(*                                                                         *)
(* Node ids are random, so which nodes are closest to a target is a free   *)
(* choice.  A node is known by its address: a routing table is a set of    *)
(* addresses.  A restart of a node is a new process.                       *)
(***************************************************************************)
EXTENDS Naturals, FiniteSets, FiniteSetsExt, Sequences

CONSTANTS
    Nodes,      \* addresses of the nodes
    Public,     \* nodes of the public DHT: up all the time
    Prior,      \* keys that Public nodes serve and have announced already
    Keys,       \* WNS addresses, as info hashes
    Publishes,  \* publish() calls, each once
    Lookups,    \* lookup() calls, each once
    Owner,      \* the node a call is made on
    KeysOf,     \* the WNS addresses it may be about
    Static,     \* Static[n]: configured, environment and public bootstrap nodes
    Found,      \* Found[n]: nodes HTTP and mDNS discovery may add
    K,          \* how many closest nodes are kept (8)
    Rounds,     \* iterations of _find_nodes (3)
    TidSpace,   \* number of transaction ids (65536)
    MaxLives,   \* MaxLives[n], a bound: how often n is started
    None

Tasks == Publishes \cup Lookups

ASSUME OperationAssumption ==
    /\ Public \subseteq Nodes /\ Prior \subseteq Keys
    /\ Publishes \cap Lookups = {} /\ Tasks \cap Nodes = {}
    /\ Owner \in [Tasks -> Nodes] /\ KeysOf \in [Tasks -> SUBSET Keys]
ASSUME SizeAssumption ==
    {K, Rounds, TidSpace} \subseteq Nat \ {0} /\ MaxLives \in [Nodes -> Nat]
ASSUME BootstrapAssumption == Static \in [Nodes -> SUBSET Nodes] /\ Found \in [Nodes -> SUBSET Nodes]

VARIABLES
    status,    \* of a node: "off", "booting" (start() runs) or "running"
    life,      \* how often it was started
    table,     \* _routing_table: the addresses it knows
    announced, \* _announced: pairs of a key and a peer that serves it
    issued,    \* queries sent in this life: the last transaction id, unwrapped
    pending,   \* _pending: the operation whose future waits under an id, or None
    ads,       \* keys the advertisement server of the node has an entry for
    op,        \* the coroutines; the bootstrap of node n is op[n]
    net,       \* datagrams sent
    stored     \* history: <<key, peer, node, life of node>> of every announce stored

process == <<status, life, ads>>        \* of the node's process
knowledge == <<table, announced, stored>>   \* of the DHT
queries == <<issued, pending, net>>

vars == <<process, knowledge, queries, op>>

Ops == Nodes \cup Tasks
NodeOf(o) == IF o \in Nodes THEN o ELSE Owner[o]

\* Wrong form: the counter does not wrap around.
TidNoWrap(no) == no

\* struct.pack("!H", n % 65536).
Tid(no) == no % TidSpace
Tids == 0 .. TidSpace - 1

\* Any K of the known nodes, or all of them when they are fewer.
Closest(S) == kSubset(Min({K, Cardinality(S)}), S)

Idle == [pc |-> "idle", key |-> None, todo |-> {}, next |-> {}, queried |-> {}, round |-> 1,
         call |-> None, answer |-> None, found |-> {}, got |-> None,
         served |-> FALSE, own |-> TRUE]

Ended == {"done", "cancelled"}

Init ==
    /\ status = [n \in Nodes |-> IF n \in Public THEN "running" ELSE "off"]
    /\ life = [n \in Nodes |-> IF n \in Public THEN 1 ELSE 0]
    /\ table = [n \in Nodes |-> {}]
    /\ announced = [n \in Nodes |-> IF n \in Public THEN Prior \X Public ELSE {}]
    /\ issued = [n \in Nodes |-> 0]
    /\ pending = [n \in Nodes |-> [t \in Tids |-> None]]
    /\ ads = [n \in Nodes |-> IF n \in Public THEN Prior ELSE {}]
    /\ op = [o \in Ops |-> Idle]
    /\ net = {}
    /\ stored = {<<k, p, n, 1>> : k \in Prior, p \in Public, n \in Public}
-----------------------------------------------------------------------------
\* get_bootstrap_nodes: the static nodes, and what HTTP and mDNS discovery
\* add to them unless they fail.
BootstrapNodes(n) == {Static[n] \cup S : S \in {{}, Found[n]}}

\* WNSDHTNode.start: a new SimpleDHTNode with an empty table and transaction
\* ids from 1 on the same port, a new advertisement server, then bootstrap.
Start(n) ==
    /\ status[n] = "off"
    /\ life[n] < MaxLives[n]
    /\ \A t \in Tasks : Owner[t] = n => op[t].pc \in {"idle"} \cup Ended
    /\ status' = [status EXCEPT ![n] = "booting"]
    /\ life' = [life EXCEPT ![n] = @ + 1]
    /\ table' = [table EXCEPT ![n] = {}]
    /\ announced' = [announced EXCEPT ![n] = {}]
    /\ issued' = [issued EXCEPT ![n] = 0]
    /\ ads' = [ads EXCEPT ![n] = {}]
    /\ \E seeds \in BootstrapNodes(n) :
         op' = [op EXCEPT ![n] = [Idle EXCEPT !.pc = "boot", !.todo = seeds]]
    /\ UNCHANGED <<pending, net, stored>>

\* The end of start(): every bootstrap node was asked.
Started(n) ==
    /\ status[n] = "booting"
    /\ op[n].call = None /\ op[n].todo = {}
    /\ status' = [status EXCEPT ![n] = "running"]
    /\ op' = [op EXCEPT ![n] = Idle]
    /\ UNCHANGED <<knowledge, queries, life, ads>>

\* WNSDHTNode.stop and SimpleDHTNode.stop: the socket is closed and every
\* pending future cancelled, which ends the operation that waits for it.
\* Nothing is stopped while start() runs.
Stop(n) ==
    LET cancelled == {o \in Ops : NodeOf(o) = n /\ op[o].call # None
                                  /\ op[o].answer = None
                                  /\ pending[n][Tid(op[o].call.no)] = o}
    IN  /\ status[n] = "running" /\ n \notin Public
        /\ status' = [status EXCEPT ![n] = "off"]
        /\ pending' = [pending EXCEPT ![n] = [t \in Tids |-> None]]
        /\ op' = [o \in Ops |->
                    IF o \in cancelled
                    THEN [op[o] EXCEPT !.pc = "cancelled", !.call = None]
                    ELSE op[o]]
        /\ UNCHANGED <<knowledge, life, issued, ads, net>>

\* WNSDHTNode.publish up to the first query: the advertisement is served, and
\* _find_nodes starts from the closest known nodes.
Publish(t) ==
    LET n == Owner[t]
    IN  /\ t \in Publishes /\ op[t].pc = "idle" /\ status[n] = "running"
        /\ \E k \in KeysOf[t], S \in Closest(table[n]) :
             /\ ads' = [ads EXCEPT ![n] = @ \cup {k}]
             /\ op' = [op EXCEPT ![t].pc = "find", ![t].key = k, ![t].todo = S]
        /\ UNCHANGED <<knowledge, queries, status, life>>

\* lookup up to the first query: get_peers starts from the first K nodes of
\* the table.
Lookup(t) ==
    LET n == Owner[t]
    IN  /\ t \in Lookups /\ op[t].pc = "idle" /\ status[n] = "running"
        /\ \E k \in KeysOf[t], S \in Closest(table[n]) :
             op' = [op EXCEPT ![t].pc = "peers", ![t].key = k, ![t].todo = S]
        /\ UNCHANGED <<process, knowledge, queries>>
-----------------------------------------------------------------------------
\* The query an operation sends at this point.
Method(pc) == CASE pc \in {"boot", "find"} -> "find_node"
                [] pc \in {"token", "peers"} -> "get_peers"
                [] pc = "announce" -> "announce_peer"

\* Wrong form: the number stays the same while a query is outstanding.
NextTidReuse(n) ==
    IF \E t \in Tids : pending[n][t] # None THEN issued[n] ELSE issued[n] + 1

\* _next_tid: the counter goes up by one; the id is the counter modulo TidSpace.
NextTid(n) == issued[n] + 1

\* _query: register the future under the new id, whoever waits there, and
\* send.  Without a socket the send does nothing and the call only times out.
Ask(o, m) ==
    LET n == NodeOf(o)
        no == NextTid(n)
        done == op[o].pc \in {"find", "peers"}
    IN  /\ op[o].pc \in {"boot", "find", "token", "announce", "peers"}
        /\ op[o].call = None
        /\ m \in op[o].todo \ op[o].queried
        /\ op' = [op EXCEPT ![o].call = [no |-> no, to |-> m],
                            ![o].queried = IF done THEN @ \cup {m} ELSE @,
                            ![o].todo = IF op[o].pc = "token" THEN @ ELSE @ \ {m}]
        /\ IF status[n] = "off"
           THEN UNCHANGED <<queries>>
           ELSE /\ issued' = [issued EXCEPT ![n] = no]
                /\ pending' = [pending EXCEPT ![n][Tid(no)] = o]
                /\ net' = net \cup
                     {[type |-> "q", from |-> n, to |-> m, tid |-> Tid(no),
                       method |-> Method(op[o].pc),
                       key |-> op[o].key,
                       call |-> <<o, life[n], no>>]}
        /\ UNCHANGED <<process, knowledge>>

\* Wrong form: every announced peer is returned, whatever it serves.
PeersForAny(n, key) == {e[2] : e \in announced[n]}

\* The peers announced for a key: _announced.get(info_hash).
PeersFor(n, key) == {e[2] : e \in {f \in announced[n] : f[1] = key}}

\* _handle_message of a query: answer it; an announce_peer is stored first,
\* under the sender's address and without a look at its token.
HandleQuery(d) ==
    LET n == d.to
        peers == IF d.method = "get_peers" THEN PeersFor(n, d.key) ELSE {}
        stores == d.method = "announce_peer"
    IN  /\ d.type = "q" /\ status[n] # "off"
        /\ announced' = IF stores
                        THEN [announced EXCEPT ![n] = @ \cup {<<d.key, d.from>>}]
                        ELSE announced
        /\ stored' = IF stores
                     THEN stored \cup {<<d.key, d.from, n, life[n]>>} ELSE stored
        /\ \E near \in IF stores \/ peers # {} THEN {{}} ELSE Closest(table[n]) :
             net' = net \cup {[type |-> "r", from |-> n, to |-> d.from,
                               tid |-> d.tid, call |-> d.call,
                               nodes |-> near, values |-> peers]}
        /\ UNCHANGED <<process, table, issued, pending, op>>

\* Wrong form: the future stays registered.
KeepAnswered(n, tid) == pending[n]

\* _pending.pop(tid).
PopPending(n, tid) == [pending[n] EXCEPT ![tid] = None]

\* _handle_message of an answer: the future registered under its id gets it,
\* whoever sent it; the sender joins the routing table in any case.
HandleResponse(d) ==
    LET n == d.to
        o == pending[n][d.tid]
    IN  /\ d.type = "r" /\ status[n] # "off"
        /\ table' = [table EXCEPT ![n] = @ \cup {d.from}]
        /\ pending' = [pending EXCEPT ![n] = PopPending(n, d.tid)]
        /\ op' = IF o = None THEN op
                 ELSE [op EXCEPT ![o].answer = d]
        /\ UNCHANGED <<process, announced, issued, net, stored>>

\* History: r answers the query that o waits for, not an older one.
IsOwn(o, r) == r.call = <<o, life[NodeOf(o)], op[o].call.no>>

\* "if result is not None: notified += 1", as a set of nodes.
Notified(o, r) ==
    IF r = None THEN op[o].found ELSE op[o].found \cup {op[o].call.to}

\* What an operation does with the result of a query, r = None for a timeout:
\* announce asks the same node for a token first and then stores the peer;
\* get_peers collects the values; both walks go on with the nodes returned.
Advance(o, r) ==
    LET q == op[o]
        m == q.call.to
        base == [q EXCEPT !.call = None, !.answer = None,
                          !.own = @ /\ (r # None => IsOwn(o, r))]
        fresh == r.nodes \ q.queried
    IN  CASE q.pc = "boot" -> base
          [] q.pc = "find" ->
               IF r = None THEN base ELSE [base EXCEPT !.next = @ \cup fresh]
          [] q.pc = "token" ->
               IF r = None THEN [base EXCEPT !.todo = @ \ {m}]
               ELSE [base EXCEPT !.pc = "announce", !.next = q.todo \ {m},
                                 !.todo = {m}]
          [] q.pc = "announce" ->
               [base EXCEPT !.pc = "token", !.todo = q.next, !.next = {},
                            !.found = Notified(o, r)]
          [] q.pc = "peers" ->
               IF r = None THEN base
               ELSE [base EXCEPT !.found = @ \cup r.values, !.todo = @ \cup fresh]

\* Nodes the operation adds to the routing table itself.
Learned(o, r) ==
    IF r = None \/ op[o].pc \notin {"boot", "find"} THEN {}
    ELSE r.nodes \cup (IF op[o].pc = "boot" THEN {op[o].call.to} ELSE {})

\* The await of _query returns the answer.
Resume(o) ==
    LET n == NodeOf(o)
    IN  /\ op[o].call # None /\ op[o].answer # None
        /\ op' = [op EXCEPT ![o] = Advance(o, op[o].answer)]
        /\ table' = [table EXCEPT ![n] = @ \cup Learned(o, op[o].answer)]
        /\ UNCHANGED <<process, queries, announced, stored>>

\* _pending.pop(tid, None) after a timeout, whichever future is there by now.
TimeoutPops(o) == PopPending(NodeOf(o), Tid(op[o].call.no))

\* Wrong form: only a query of a node that is up times out.
TimesOutUp(o) ==
    op[o].call # None /\ op[o].answer = None /\ status[NodeOf(o)] # "off"

\* wait_for(future, timeout): also when the socket is closed meanwhile.
TimesOut(o) == op[o].call # None /\ op[o].answer = None

\* The five seconds of _query pass without an answer.
Timeout(o) ==
    LET n == NodeOf(o)
    IN  /\ TimesOut(o)
        /\ op' = [op EXCEPT ![o] = Advance(o, None)]
        /\ pending' = IF status[n] = "off" THEN pending
                      ELSE [pending EXCEPT ![n] = TimeoutPops(o)]
        /\ UNCHANGED <<process, knowledge, issued, net>>

\* The end of a round of _find_nodes: another one with the nodes found, or the
\* announcement to the closest nodes of the table.
EndRound(o) ==
    LET n == NodeOf(o)
        more == op[o].round < Rounds /\ op[o].next # {}
    IN  /\ op[o].pc = "find" /\ op[o].call = None
        /\ op[o].todo \ op[o].queried = {}
        /\ \E S \in Closest(IF more THEN op[o].next ELSE table[n]) :
             op' = [op EXCEPT ![o] =
                      IF more
                      THEN [op[o] EXCEPT !.round = @ + 1, !.todo = S, !.next = {}]
                      ELSE [op[o] EXCEPT !.pc = "token", !.todo = S, !.next = {},
                                         !.queried = {}]]
        /\ UNCHANGED <<process, knowledge, queries>>

\* The walk is over: publish returns, lookup turns to the peers it found.
EndWalk(o) ==
    /\ op[o].pc \in {"token", "peers"} /\ op[o].call = None
    /\ op[o].todo \ op[o].queried = {}
    /\ op' = [op EXCEPT ![o] =
                IF @.pc = "token" THEN [@ EXCEPT !.pc = "done"]
                ELSE [@ EXCEPT !.pc = "fetch", !.todo = op[o].found]]
    /\ UNCHANGED <<process, knowledge, queries>>
-----------------------------------------------------------------------------
\* CodeAdvertisement.to_json: json.dumps with indent=2, a line per field.
AdLines == <<"{", "fields", "}">>

\* The advertisement server of m runs and has an entry for the key.
Serves(m, key) == status[m] # "off" /\ key \in ads[m]

\* AdvertisementServer._handle_client: the lines a GET is answered with; valid
\* says whether the entry has not expired.
ServerLines(m, key, valid) ==
    IF Serves(m, key) /\ valid THEN AdLines ELSE <<"NOT_FOUND">>

\* _fetch_advertisement: connect, ask, read ONE line and parse it; a line that
\* is not the whole JSON text makes from_json raise.
FetchAdvertisement(m, key, valid) ==
    IF status[m] # "off" /\ <<ServerLines(m, key, valid)[1]>> = AdLines THEN key ELSE None

\* lookup asks one peer for the advertisement and returns the first valid one.
Fetch(o, m, valid) ==
    LET ad == FetchAdvertisement(m, op[o].key, valid)
    IN  /\ op[o].pc = "fetch" /\ m \in op[o].todo
        /\ op' = [op EXCEPT ![o].todo = IF ad = None THEN @ \ {m} ELSE {},
                            ![o].served = @ \/ (valid /\ Serves(m, op[o].key)),
                            ![o].got = ad]
        /\ UNCHANGED <<process, knowledge, queries>>

\* lookup returns.
EndLookup(o) ==
    /\ op[o].pc = "fetch" /\ op[o].todo = {}
    /\ op' = [op EXCEPT ![o].pc = "done"]
    /\ UNCHANGED <<process, knowledge, queries>>

OpStep(o) ==
    \/ \E m \in Nodes : Ask(o, m)
    \/ Resume(o) \/ Timeout(o) \/ EndRound(o) \/ EndWalk(o)
    \/ \E m \in Nodes, valid \in BOOLEAN : Fetch(o, m, valid)
    \/ EndLookup(o)

Next ==
    \/ \E n \in Nodes : Start(n) \/ Started(n) \/ Stop(n)
    \/ \E t \in Tasks : Publish(t) \/ Lookup(t)
    \/ \E o \in Ops : OpStep(o)
    \/ \E d \in net : HandleQuery(d) \/ HandleResponse(d)

Spec == Init /\ [][Next]_vars

\* The event loop runs every coroutine that can go on, and the five seconds of
\* a query pass.  Nothing is assumed of the network.
FairSpec ==
    /\ Spec
    /\ \A n \in Nodes : WF_vars(Started(n))
    /\ \A o \in Ops : WF_vars(OpStep(o))
-----------------------------------------------------------------------------
Steps == {"boot", "find", "token", "announce", "peers"}     \* where queries are sent
Calls == [no : Nat \ {0}, to : Nodes]
Origins == Ops \X (Nat \ {0}) \X (Nat \ {0})
Queries == [type : {"q"}, from : Nodes, to : Nodes, tid : Tids,
            method : {"find_node", "get_peers", "announce_peer"}, key : Keys \cup {None},
            call : Origins]
Answers == [type : {"r"}, from : Nodes, to : Nodes, tid : Tids, call : Origins,
            nodes : SUBSET Nodes, values : SUBSET Nodes]
Coroutines ==
    [pc : Steps \cup {"idle", "fetch"} \cup Ended, key : Keys \cup {None}, todo : SUBSET Nodes,
     next : SUBSET Nodes, queried : SUBSET Nodes, round : Nat, call : Calls \cup {None},
     answer : Answers \cup {None}, found : SUBSET Nodes, got : Keys \cup {None},
     served : BOOLEAN, own : BOOLEAN]

\* None is none of the values it is told from.
ASSUME NoneAssumption == None \notin Ops \cup Calls \cup Answers \cup Keys

TypeOK ==
    /\ status \in [Nodes -> {"off", "booting", "running"}]
    /\ life \in [Nodes -> Nat]
    /\ table \in [Nodes -> SUBSET Nodes]
    /\ announced \in [Nodes -> SUBSET (Keys \X Nodes)]
    /\ issued \in [Nodes -> Nat]
    /\ pending \in [Nodes -> [Tids -> Ops \cup {None}]]
    /\ ads \in [Nodes -> SUBSET Keys]
    /\ op \in [Ops -> Coroutines]
    /\ net \subseteq Queries \cup Answers
    /\ \A d \in net : d.type = "q" /\ d.method = "announce_peer" => d.key \in Keys

\* An operation that waits for the answer of a query of this life.
Waits(o) == op[o].call # None /\ op[o].answer = None /\ status[NodeOf(o)] # "off"

\* _pending holds exactly the futures somebody waits for.  What is registered
\* under an id waits for the answer with that id; and as long as no other query
\* of this life had or took its id, the answer to a query can still reach the
\* operation that asked: no other operation's timeout or answer removed its entry.
PendingIsExact ==
    /\ \A n \in Nodes, t \in Tids :
         LET o == pending[n][t]
         IN  o # None => Waits(o) /\ NodeOf(o) = n /\ Tid(op[o].call.no) = t
    /\ \A o \in Ops :
         (/\ Waits(o)
          /\ op[o].call.no <= TidSpace
          /\ issued[NodeOf(o)] < op[o].call.no + TidSpace)
             => pending[NodeOf(o)][Tid(op[o].call.no)] = o

\* In the first life of a node, and until the ids wrap around, an operation only
\* ever gets the answer to its own question, from the node it asked, however
\* late or often answers arrive.
AnswersOwnQuestion ==
    \A o \in Ops :
        (op[o].answer # None /\ life[NodeOf(o)] = 1 /\ op[o].call.no <= TidSpace)
            => IsOwn(o, op[o].answer) /\ op[o].answer.from = op[o].call.to

\* What an operation reports is backed by announcements that were stored, if it
\* got the answers to its own questions only: a lookup collects peers announced
\* to some node for the address it looks up, and a publish counts nodes as
\* notified that did store the announcement, in one of their lives.
ReportsAreStored ==
    /\ \A o \in Lookups :
         op[o].own =>
             \A p \in op[o].found : \E e \in stored : e[1] = op[o].key /\ e[2] = p
    /\ \A o \in Publishes :
         op[o].own =>
             \A m \in op[o].found :
                 \E e \in stored : e[1] = op[o].key /\ e[2] = Owner[o] /\ e[3] = m

\* Which steps a call goes through, and that it waits at some of them only.
Progress ==
    \A o \in Ops :
        /\ o \in Publishes => op[o].pc \in {"idle", "find", "token", "announce"} \cup Ended
        /\ o \in Lookups => op[o].pc \in {"idle", "peers", "fetch"} \cup Ended
        /\ op[o].pc \in {"find", "token", "announce", "peers", "fetch"} => op[o].key \in Keys
        /\ op[o].pc = "idle" => op[o].found = {}
        /\ op[o].call # None => op[o].pc \in Steps
        /\ op[o].call = None => op[o].answer = None

\* The numbers of the queries of a node that is up: issued in this life, and
\* each by one operation.
Numbered ==
    /\ \A n \in Nodes : status[n] # "off" => life[n] > 0
    /\ \A o \in Ops : op[o].call # None /\ status[NodeOf(o)] # "off" =>
         /\ op[o].call.no <= issued[NodeOf(o)]
         /\ \A p \in Ops \ {o} : op[p].call # None /\ NodeOf(p) = NodeOf(o) =>
              op[p].call.no # op[o].call.no

\* Who is registered under an id was the last to take it.
Newest ==
    \A n \in Nodes, t \in Tids :
        pending[n][t] # None => issued[n] < op[pending[n][t]].call.no + TidSpace

\* d is a query of this life of the node of o, or its answer, under the number
\* that o waits for now.
Concerns(d, o) ==
    /\ op[o].call # None /\ NodeOf(o) = NodeOf(d.call[1])
    /\ d.call[2] = life[NodeOf(o)] /\ d.call[3] = op[o].call.no

\* Where a datagram comes from: the node that is asked answers under the id of
\* the query, and a number stands for one query in the life of a node.
Traced ==
    \A d \in net :
        LET n == NodeOf(d.call[1])
            asked == IF d.type = "q" THEN d.to ELSE d.from
        IN  /\ n = IF d.type = "q" THEN d.from ELSE d.to
            /\ d.tid = Tid(d.call[3])
            /\ d.call[2] <= life[n]
            /\ d.call[2] = life[n] => d.call[3] <= issued[n]
            /\ \A o \in Ops : Concerns(d, o) => d.call[1] = o /\ op[o].call.to = asked

\* An answer an operation has got is one that was sent to its node.
Received ==
    \A o \in Ops : op[o].answer # None => op[o].answer \in net /\ op[o].answer.to = NodeOf(o)

\* What a node says was announced was stored, and what the answer to the query
\* that an operation waits for says is so.
Backed ==
    /\ \A n \in Nodes : \A e \in announced[n] : \E s \in stored : s[1] = e[1] /\ s[2] = e[2]
    /\ \A d \in net, o \in Ops : Concerns(d, o) =>
         /\ d.type = "q" => d.key = op[o].key /\ d.method = Method(op[o].pc)
         /\ d.type = "r" /\ op[o].pc = "peers" =>
              \A p \in d.values : \E s \in stored : s[1] = op[o].key /\ s[2] = p
         /\ d.type = "r" /\ op[o].pc = "announce" =>
              \E s \in stored : s[1] = op[o].key /\ s[2] = NodeOf(o) /\ s[3] = d.from

\* The inductive invariant.
DhtInv ==
    /\ TypeOK /\ Progress /\ Numbered /\ PendingIsExact /\ Newest /\ Traced /\ Received
    /\ AnswersOwnQuestion /\ Backed /\ ReportsAreStored

\* Every publish and every lookup that was begun ends, whatever the network
\* does and also when the node is stopped under it.
OperationsEnd ==
    \A o \in Tasks : (op[o].pc # "idle") ~> (op[o].pc \in Ended)

\* The advertisement server's protocol "Server: <json_advertisement>\n" says
\* that a peer which serves an unexpired advertisement hands it to a lookup
\* that asks.
ServedIsFetched ==
    \A o \in Lookups :
        (op[o].pc = "done" /\ op[o].served) => op[o].got # None
=============================================================================
