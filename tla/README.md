# A TLA+ model of the wormhole tools

This directory specifies and verifies parts of the wormhole tools: command
line programs, servers and libraries that connect two machines through a
"wormhole", a short code that both sides know. Paths below are relative to the
repository root; `wh/` stands for `src/wh/`.

## The system

| Component | Code | State | Operations | Hard behaviour |
|---|---|---|---|---|
| Mailbox server | `wh/relay/mailbox.py` | nameplates, mailboxes with messages, subscriptions, per-socket client state | bind, allocate, claim, release, list, open, add, close, ping; connect, disconnect, stop | one task per WebSocket, interleaved at every send; sends that raise in the middle of a fan-out |
| Transit relay | `wh/relay/transit.py` | `pending` by token, a lock, one task per TCP connection, a cleanup task | handshake, match, wait, time out, relay, clean up, stop | polling for one's own entry, timeouts racing matches, drains under the lock |
| Relay server, configuration | `wh/relay/server.py`, `config.py` | the two servers above; `relays.yaml` | start, stop; add, remove, set default | two processes that load, change and save |
| Wormhole manager | `wh/core/wormhole_manager.py` | the current wormhole, code, peer versions, relay index | create, establish with fallback, dilate, close | timeouts racing late answers, state that survives `close` |
| Pipes and forwarders | `wh/core/protocol.py`, `forwarder.py`, `wh/ssh/tunnel.py`, `server.py` | a subchannel, a local stream, a copying task | connect, data, end of file, connection lost | data before the local side is up, loss while it is being opened |
| WNS server, discovery | `wh/wns/server.py`, `discovery.py`, `advertisement.py` | the published code, the running connection | publish, accept, rotate, resolve, expire | stale code between connections, a file read while it is written |
| WNS DHT node | `wh/wns/dht.py` | routing table, announced peers, pending queries, an advertisement server | bootstrap, publish, look up, answer, stop | 16-bit transaction ids, lost, repeated and late answers |
| WNS names, identities, aliases, namespaces | `wh/wns/names.py`, `identity.py`, `aliases.py`, `wh/enterprise/namespace.py` | files under `~/.wh` | create, add, remove, resolve | processes that load, change and save; kills |
| Rate limiter | `wh/enterprise/rate_limiter.py` | token buckets, session counters, quotas | acquire, release, check, record, reset, throttle | checks and updates in different critical sections |
| Policy, authentication, audit, LDAP | `wh/enterprise/*.py` | rules, one challenge per authenticator, a log | evaluate, authenticate, log | shared challenge |
| SSH, HTTP, file transfer | `wh/ssh`, `wh/http`, `wh/transfer` | adapters over a dilated wormhole | serve, request, copy | one end going away |
| Request and reply tools | `wh/cli/ping.py`, `dns.py`, `traceroute.py`, `nmap.py`, `mount.py`, `rdp.py`, `vnc.py`, `ftp.py`, `telnet.py`, `tunnel.py` | one protocol object per side, pending replies | request, handle, reply, time out | replies, timeouts and losses in any order |
| rsync | `wh/cli/rsync.py` | two manifests, a file being received | exchange manifests, request, send, delete | messages before their awaiter, loss in the middle of a file |
| SOCKS proxy | `wh/cli/proxy.py` | channels on both sides of one stream | connect, forward, close, time out | answers racing timeouts, data before the writer |
| Daemon | `wh/cli/daemon.py` | listeners, connections and their queues behind an HTTP interface | listen, accept, send, recv, close | requests that overlap a DELETE |
| JavaScript packages | `packages/*/src` | the same protocol for browsers: dilation, mailbox client, transit | connect, dilate, send | timeout racing a late open |
| Extension, site, mobile, integrations | `browser-extension`, `discovery-site`, `mobile`, `integrations` | user interfaces; web servers that run the command line tool | | |

Clients meet through the two relay servers. One side allocates a nameplate at
the mailbox server, the other claims it; both open the mailbox behind it and
exchange the messages of the key agreement there. Bulk data then goes over a
direct connection or through the transit relay, where both clients present the
same token. The manager wraps one such wormhole; WNS finds the code of a named
server, from a file or the DHT; and every command dilates the wormhole and runs
a protocol of its own over its subchannels, most of them one class that runs on
both ends. The commands share nothing but the files under `~/.wh`. The rate
limiter stands apart: it guards a server's accept path and is shared by all its
clients.

What makes each component correct:

* mailbox server: two clients of one nameplate get the same mailbox; a
  subscriber misses no message, gets none twice and none of another mailbox; a
  mailbox is not deleted under a client that has it open; a dead socket leaves
  nothing behind and delays nobody for ever;
* transit relay: a pair has one token and two clients, nobody is in two pairs,
  nobody is dropped without a reason, the lock is never lost, and every task
  ends when its clients are gone, and sooner if those that stay read what they are sent;
* rate limiter: buckets give no more than their rate, limits on sessions hold, the
  counters equal the sessions, quotas are overrun by a bounded amount;
* manager and WNS: what a connected client uses comes from the attempt and the
  server it is connected to; a fallback ends;
* DHT: an operation takes answers to its own queries only, reports only what
  was announced, and ends;
* pipes, forwarders, proxy, daemon: a stream is delivered in order, no byte is
  lost or doubled where the code means to keep it, and the end of one side of a
  stream reaches the other;
* rsync: who saw DONE has the sender's files;
* tools: every wait ends, and a request is answered;
* stores: a file that can be read is consistent.

## Modules

| Module | What it is |
|---|---|
| `MailboxServer` | the mailbox server, its properties, and the two inductive invariants of the proofs |
| `MCMailboxServer` | its TLC instances (`MCMailboxDelivery`, `MCMailboxRendezvous`, `MCMailboxAllocate`) |
| `MailboxServer_proofs`, `MailboxRendezvous_proofs` | proofs about it: types and delivery; subscriptions, mailboxes and nameplates |
| `TransitRelay` | the transit relay, its properties, and the inductive invariant of the pairing proof |
| `MCTransitRelay` | its TLC instances (`MCTransitRelay`, `MCTransitRelayUp`) |
| `TransitRelay_proofs` | proofs about it |
| `RateLimiter` | the rate limiter, its properties, and the inductive invariant of all of them |
| `MCRateLimiter` | its TLC instances (`MCRateLimiter`, `MCRateLimiterRelease`) |
| `RateLimiter_proofs` | proofs about it |
| `Broadcast` | what a mailbox promises: an atomic broadcast channel |
| `MailboxBroadcast`, `MailboxBroadcast_proofs` | the mapping from `MailboxServer` to `Broadcast`; the proof that it implements it |
| `DhtNode` | the DHT nodes, their network and their operations, and the inductive invariant of their proof |
| `MCDhtNode` | its TLC instances (`MCDhtNode`, `MCDhtLookup`) |
| `DhtNode_proofs` | proofs about it |
| `Wns` | the WNS server, discovery, and the managers of its clients with their fallback |
| `Tools` | the ten request and reply tools (`MCTools`) |
| `Rsync`, `ProxyMux`, `Daemon` | one command each |
| `MCDaemon` | a TLC instance of `Daemon` alone |
| `Bridge` | a subchannel joined to a local stream: `nc`, port forwarder, SSH |
| `Stores` | the files under `~/.wh` and the commands that change them |
| `Commands` | the command line: one of `Wns`, `Tools`, `Rsync`, `ProxyMux`, `Daemon`, `Bridge`, `Stores` runs |
| `MCCommands` | its TLC instance |
| `CommandStreams_proofs`, `Commands_proofs` | proofs about the commands: `Bridge`, `Daemon`, `ProxyMux`; then `Wns`, `Rsync`, `Stores`, `Tools` and the whole |

`PROJECT.json` maps each definition to the lines it models, and lists the runs,
the hazards of the code and the properties that watch them. Next to an operator
such as `Snapshot` stands a wrong version such as `SnapshotEmpty`; it is what
the operator might become by a plausible mistake, and each property is known to
fail when its operator is exchanged for it.

### MailboxServer

Both servers run in one asyncio event loop, so a handler is atomic between two
awaits. In the mailbox server all awaits are sends and the read of the next
message. `pc[c]` says at which await the task of connection `c` is: `recv` (read
the next request), `reply` (send one reply), `replay` (`_handle_open` sends the
copied messages one by one), `notify` (`_handle_add` sends the new message to
the copied subscribers one by one), `done`. `conn[c]` is `client_state`;
`nameplates`, `mailboxes` and `subs` are the server's dictionaries. A send on a
closed socket raises: in the fan-out that drops the subscriber, elsewhere it ends
the task through the `finally` block (`TaskEnds`).

Messages carry no content but a number in the order they were added. `got` and
`twice` record what was put on each socket, `opened` and `opens` what each
client asked for; the server has no such variables, they exist to state the
properties. `conn[c].told` is the mailbox id in the last `claimed` reply.
`token_hex` is modelled as an id that was never used before. Clients send any
request in any order.

`SidesOf` gives each connection the sides it may bind. Clients draw their side
at random, so most runs give each its own (`PrivateSides`), but the delivery
theorems do not need it. `ClaimUnallocated` says whether clients claim numbers
that the server did not allocate; the server accepts such claims.

### TransitRelay

`pc[c]` is where the task of connection `c` is: `handshake` (it reads its line
or waits for the lock), `okself` and `okpeer` (the two drains of a match, under
the lock), `relay`, `sleep` (the polling loop), `remove` (it has seen its timeout
and wants the lock to pop its entry), `close` (the `finally` block), `closing` (its
`wait_closed`), `done`.
`lock` is `_lock`, held across awaits by a match and by the cleanup loop; a
critical section without an await is one step that finds the lock free. The
relaying task has two copying loops; `loops[c]` are those that still run and
`draining[c]` those of them that are in `await dst.drain()`. `clogged` are the
connections whose client does not read what the server has for it: a drain waits for
such a client, a loop that waits sees nothing of its source, and a connection with
unsent bytes is not closed by `close()` alone. All this ends when the client reads or
hangs up, which it may never do. Time
is one flag per connection, `expired`, set at any moment after the connection
registered.

### RateLimiter

Every method holds `_lock` and awaits nothing inside, so a method is one step;
what interleaves are the methods that different clients call. `client[s]` says
how far the client with session id `s` is: `idle` (may call `acquire`), `open` (may
call `acquire` without a session id for a request, `check_bandwidth`, `release`),
`sending` (passed `check_bandwidth`, has not called `record_bytes`). An `acquire`
that raises is `Refuse`: the tokens of the buckets it passed are gone. `Reset` may
happen at any time and leaves the clients where they are.

Time is whole seconds, buckets hold whole tokens, a transfer is one chunk, the
unit of the quotas. `Policy[s]` is what the policy returns for the client `s`; a
limit of 0 is one that is not set (the code tests both alike). `granted` and
`born` of a bucket, and `sent`, are history. Clients use a session id of their
own and name the same identity and address in every call, except that with
`OmitsIp` they leave the address out of `release`.

`DailyOvershoot` deserves a word. The check and the record of a transfer are two
critical sections, and `record_bytes` does not look at the date. So the daily
quota can be overrun: by one chunk of each other client that passed the check at the
same time, and by one chunk of each client that passed it before midnight and is
recorded after midnight, on the counter of the day before. The property says
that this is all.

### Broadcast and MailboxBroadcast

`Broadcast` says what clients may rely on, without tasks, sockets or queues: a
message posted in a mailbox is owed to every member, a new member is owed what
the mailbox keeps, what is owed is sent once, and only a connection that is gone
loses what it is owed. `MailboxBroadcast` maps the server to it: a member is a
subscriber, and what is owed is what some task has yet to send, in a replay or
in a fan-out. `MaxOpens` is at most 1, as the channel promises nothing to a
client that opens a mailbox a second time.

### DhtNode

The network `net` is the set of all datagrams sent, and receiving leaves them
there: so a datagram may be lost, repeated, late or overtaken, even by a later
life of the node on the same port. `op[o]` is a coroutine: the bootstrap of a
node, a `publish` or a `lookup`; its `call` is the query it awaits. `pending` is
`_pending`, indexed by the transaction id that `Tid` wraps at `TidSpace`.
Distances are abstracted: which of the known nodes are closest is any choice.
The advertisement server's TCP exchange is one step, and `ServerLines` and
`AdLines` are the shapes of what one side writes and the other reads.

### Wns

`server` is `_connection_loop`; each turn has a code of its own. The
advertisement file is opened, and so emptied, in one step and written in the
next, and may expire. `manager[c]` is a `WormholeManager`: `relays` and `relay`
are its list and index, `versions` is `_versions`, here the index of the attempt
that delivered it. Clients with a fallback have a timeout, the others wait. The
wormhole library is external. The mailbox server lets any number of clients claim one
code, so `box` holds whoever claims it; two of those who are there exchange keys and
release the nameplate (`Meet`), a third one gets an error. So two clients that resolved
one code may meet each other, while the server waits on: `VersionsAreCurrent` holds
for such a pair too.

### Tools

The ten classes have one form, and so one set of variables: `protocol[side]` is
whether `_protocol` was assigned, `request` the stream to the server, `task[o]`
what the handler of request `o` has yet to reply, `op[o]` the client's wait. The
handlers are actions of their own where they differ. `rdp`, `vnc` and `tunnel`
also hold local and target connections. `serverPc` is `waiting` in the server's
`await connected.wait()`, which has no timeout and which only a subchannel that opens
ends (`PeerConnects`): a server whose peer is lost before that waits for ever, and
`ToolEnds` claims the end of a server only where it has seen the subchannel.

### Rsync, ProxyMux, Daemon

`Rsync` follows both ends through manifest, request, files, deletions and DONE; a
content is a checksum, and a file that is open is `"torn"`. The receiver opens the
file of a FILE message in one step and finishes it in another, and the requested
files may be sent in any order. `ProxyMux` has one
record of both sides per channel, and the two directions of the stream with
numbered payloads. Between `connect` and the writer in the channel's entry stands the
reply to the local connection; if it raises (`ReplyFails`), the entry stays and the
peer is not told, so its target connection stays open. `NoOrphans` therefore speaks of
channels that forward. `Daemon` has the HTTP requests as small processes that begin
and end, with everything else in between: a `send` awaits its body, and a `recv` takes
a piece in one step and answers in another, as `wait_for` runs `get` in a task of its own
before Python 3.12. What is queued are pieces, runs of the bytes a connection sent;
`recv` hands out a piece whole or its first bytes and puts the rest at the end of
the queue. That this is the wrong end is what `ReadInOrder` shows; `BytesKept` says
that no byte is lost or handed out twice all the same.

### Bridge

One variable, a record: the subchannel, the local stream, the copying task and
what went through in either direction. The five kinds differ in what they do with
data that comes before the local stream is open, or after it broke (drop, buffer),
with a full buffer (lose), at the end of the local stream (close, set `_done`,
nothing), and in which end has the protocol it writes to: `BidirectionalPipe` that
listens never gets one, so its input goes nowhere. A pipe whose pump falls back to an
executor gives a read up after half a second, and what the thread still reads is lost
(`ReadAbandoned`). `InOrder` says for each kind what is kept: with `sshd` everything,
with the forwarder everything after the first payload written, and otherwise the
order.

### Stores

A command is a process that reads one file whole, decides, may ask its user,
opens the file, which empties it, and writes it when it closes it; or unlinks it. Nothing
is locked. A process may be killed between any two steps. Two processes may have one
file open: the second text is written over the first from the file's start, so that the
file is then the second text, or the second text with the tail of a longer first one.
After JSON such a tail cannot be parsed (`Garbled`); in YAML it may be unreadable too, or
read as more relays, or as another list of members (`Blends`). A process that writes into
a file that was removed meanwhile writes into nothing. `MixedBefore` lets the files be
unreadable from the start, as commands that overlapped earlier leave them. Each reader
treats an unreadable file as its code does: as empty, or as an error.

A file maps names to the process that wrote the entry, which is all that the properties
tell apart. No name or description is taken to read as a key of its file, and the
namespaces of one name have one limit. That an update may be lost, when a second command
writes back what it read before the first one wrote, is in the model and is no property:
the code takes no step against it.

### Commands

A step of `Commands` is a step of the command that `Invoke` chose; the commands
do not share state, so the reachable states are the sum of theirs and not the
product. `StreamsKept` and `NoOrphans` are what the bridge shares with the proxy.

## Model checking

| Run | Checks | Bounds |
|---|---|---|
| `mailbox_delivery` | `TypeOK`, `NoLostMessage`, `AtMostOnce`, `Isolation`, `EndedUnsubscribed`, `OpenMailboxExists`, the refinement `ImplementsBroadcast`, and under fairness `OwedIsDelivered`, `ClosedTaskEnds` | 2 connections, 2 mailboxes, 2 messages, 1 open each, no nameplates |
| `mailbox_rendezvous` | `AgreeOnMailbox` | 3 connections with private sides, 3 mailboxes, 2 nameplates, no open and no messages; connections and mailboxes symmetric |
| `mailbox_allocate` | violation of `AllocatedIsNew` | 2 connections, 1 nameplate, claims of any number |
| `transit_pairing` | `TypeOK`, `LockHeldInside`, `PendingWaits`, `MatchedOnce`, the action property `NoPhantomMatch`, and under fairness `Settles` | 3 connections, all with one token |
| `transit_relay_up` | violation of `RelayStaysUp` | 2 connections, one token |
| `rate_limiter` | `TypeOK`, `RateBound`, `CountersMatch`, `LimitsHold`, `DailyOvershoot` | 3 clients, two of one identity, two of one address, with different limits; times 0 to 2, a day of 1 second, a month of 2 days |
| `rate_limiter_release` | violation of `ReleaseFreesSlot` | the same, clients release without their address |
| `dht_node` | `TypeOK`, `PendingIsExact`, `AnswersOwnQuestion`, `ReportsAreStored`, and under fairness `OperationsEnd` | a node with two lives and a public one, one publish, one lookup, 2 addresses, 3 transaction ids, 1 closest node, 2 rounds |
| `dht_lookup` | violation of `ServedIsFetched` | the same |
| `commands` | `TypeOK`, `VersionsAreCurrent`, `FreshCode`, `SyncedWhenDone`, `StreamsKept`, `NoOrphans`, `BytesKept`, `NothingLeft`, `FilesConsistent`, and under fairness `FallbackEnds`, `SyncEnds`, `ToolEnds` | WNS: 2 clients, 2 turns, up to 2 relays; tools: all ten, 2 operations; rsync: 2 files, 2 contents; proxy: 2 channels, 3 payloads down, 1 up; daemon: 2 connections, 1 accept, 2 recv, 2 DELETEs, 3 bytes; bridge: 3 payloads in, 2 out; stores: 2 processes, 2 names, 2 identities, 1 namespace |
| `tools_answer` | violation of `RequestsAnswered` | all ten tools, 2 operations |
| `daemon_recv` | violation of `ReadInOrder` | 1 connection, 1 accept, 1 recv, 3 bytes |

Why the bounds are enough to be interesting. Two connections and two messages
reach every overlap of a replay with a fan-out, and of two fan-outs with each
other; the second mailbox lets a message go astray. In the rendezvous run the
third connection makes a nameplate change hands: one client releases while a
second still holds it and a third claims it. In the transit run three
connections with one token reach the case that two cannot: the first is matched
or times out, the third registers under the same token, and the first then looks
at, or pops, an entry that is not its own. A connection is used once; a client
that reconnects is another connection. In the limiter's run the three clients
reach their limits by address and by identity, and three times with days of one
second see two midnights and one change of month, so that a check and its record fall
on different days, and a counter is rolled over twice. In the DHT three
transaction ids are fewer than the queries of a node's two lives, so ids wrap
and late answers of the first life meet queries of the second. In the WNS run two
turns let a client hold the code of a turn that is over, and two clients may meet each
other instead of the server. Two operations of a tool let a late
reply or the loss fall between them. The proxy's first channel has two payloads
so that one comes before the writer and one after; the daemon's three bytes come
in one to three pieces, so that one is split while another is queued, and two `recv`
requests hold a piece each; two DELETEs meet. Three incoming
payloads of a bridge fall before, during and after the opening of the local
stream. In the stores two processes give every overlap of one read-change-write
with another and every mixture of their texts; that a third one reads such a mixture
is there from the start, by `MixedBefore` where it cannot be parsed, and `FilesFit` is
proved for any number of processes.

Deadlock is not checked: both servers may stop, the bounded clients run out of
requests, commands end, and the limiter's clock ends.

Fairness. Mailbox server: weak fairness of every task's own steps that need no
client (a send completes or raises, a loop goes on, a task with a closed socket
ends). The event loop serves every ready task, and a send cannot hang for ever
because the WebSocket library's keepalive closes a socket whose peer stopped
reading. Nothing is assumed about clients: they may send nothing, and never
hang up. Transit relay: some ready task is served and time passes, and the
cleanup loop runs; `HandshakeFails` is among the fair steps because the
handshake is read with a timeout. A drain has no timeout, so a loop in one is
ready only when its client has read or hung up, and neither of these is fair:
`Settles` says what such a client may hold up, and nothing else is held up. The limiter has no liveness property and no
fairness: it never waits. DHT: a coroutine that is ready goes on and the timeout
of a query goes off; nothing is assumed of the network, a query may time out
every time. WNS: a client that tries a relay goes on, its `establish` ends by an
answer or the timeout, and the close of the external wormhole returns. Tools: a
`wait_for` times out, a set event wakes its waiter, and a client whose request is over
or failed ends; that a subchannel opens is not fair. Rsync: both event loops run what is
ready, and `SyncEnds` says which sessions end for that reason alone. Users,
peers, losses and kills are never fair.

### What the violation runs show

* `mailbox_allocate`: `_handle_allocate` (`mailbox.py:215`) hands out the counter's
  value without looking whether a client claimed that number first. The protocol
  document calls this "Request new nameplate"; the entry is replaced, and clients
  that hold the number are sent to different mailboxes. `AgreeOnMailbox` is
  therefore checked for clients that claim allocated numbers only.
* `transit_relay_up`: the client that waited learns of its match by the absence of
  its entry, `_find_or_wait_peer` returns `None` (`transit.py:209`), and
  `_handle_client` goes on to its `finally` block, which closes the connection that
  the matching task relays on. The relay ends although both clients are there;
  the module's docstring says that the server relays once matched. `Settles` and the
  pairing properties hold all the same.
* `rate_limiter_release`: the documentation releases a session without the address it
  was acquired with. `release` counts down only the trackers of the keys it is
  given (`rate_limiter.py:267`), so the address stays charged, and with
  `max_concurrent_connections` set is locked out in the end. `CountersMatch` is
  therefore checked for addresses only where clients name them.
* `dht_lookup`: the advertisement server promises one line of JSON (`dht.py:405`), and
  `to_json` writes several (`advertisement.py:147`). `_fetch_advertisement` reads the
  first, `{`, fails to parse it and gives up, so no lookup over the DHT returns
  anything; this is why the clients of `Wns` find their server in the file only.
* `tools_answer`: the server's side of most tools has no `_protocol`, as nothing assigns it
  there, and its replies are dropped (`ping.py:97`), while `ping.py:219` says that it
  echoes requests as replies. `ToolEnds` shows that the clients end all the same.
* `daemon_recv`: `recv` cuts a piece at `max_bytes` and puts the remainder at the end of
  the queue (`daemon.py:682`), behind what came meanwhile, so the next `recv` gets later
  bytes first. The comment there says that the remainder is put back.

One more disagreement is plain from the code and has no run: `connections_per_minute`
switches the buckets per address and per identity on, but their rate comes from
`requests_per_second` or `requests_per_minute`, or is 60 a minute
(`rate_limiter.py:174`), and `docs/enterprise/rate-limiting.md:67` says that it limits
connections. `RateBound` holds for the rate in use.

## Proofs

All proofs hold for any sets of connections, sides, mailboxes, tokens, clients, nodes,
keys, files, relays and channels, any policy and any bounds. The assumptions are the
ones the modules name, and TLC evaluates them in the runs. Constants have their types;
`None`, `Cleaner`, `Empty`, `Garbled` and `"torn"` are distinct from the values they stand beside.
Beyond that:

* `SizeAssumption` (`DhtNode`): a node has transaction ids, keeps a node and walks a round;
* `OperationAssumption` (`DhtNode`): calls and nodes are told apart, and each call is made
  on one node;
* `WnsAssumption`: there are finitely many clients, and a manager's list of relays is not
  empty, as its constructor puts the default relay there;
* `RsyncAssumption`: a directory has finitely many files;
* `StoresAssumption`: a namespace has a limit, as `max_members = 0` means none, and
  finitely many persons exist;
* `ToolsAssumption`: the tools looked at are tools that exist, and at least one operation
  is.

`MailboxServer_proofs`:

* `TypeCorrect`: `Spec => []TypeOK`. `TypeOK` also ties a task's local state to its
  await, and is inductive as it stands.
* `Delivery`: `Spec => [](NoLostMessage /\ AtMostOnce /\ Isolation)`. None of the
  three is inductive. `DeliveryInv` adds that a message is in one mailbox only
  and unused numbers are nowhere (`Numbering`), that no two tasks notify about the
  same message (`OneSender`), that whatever is subscribed, owed or sent belongs
  to an opened mailbox (`OnlyOpened`), and that what is owed to a client that
  opened once is owed by one task and was not sent (`OwedOnce`). The steps that
  send nothing are handled together (`Quiet`); `Open`, `Replay`, `Add` and `Notify`
  one by one.

`MailboxRendezvous_proofs`:

* `Rendezvous`: `Spec => [](EndedUnsubscribed /\ OpenMailboxExists /\ AgreeOnMailbox)`, by
  `RendezvousInv`. What a client relies on is kept by a side of its own: while it has a
  mailbox open, or holds a nameplate, one of its sides (or `None`, if it did so before
  it bound one) is in the set (`MailboxHeld`, `NameplateHeld`), although it may
  bind another side in between. Only its own requests could discard that side. The
  counter is beyond all nameplates, so `allocate` replaces none; this is where
  clients must claim allocated numbers only. `Subscribed` relates subscriptions to
  `client_state`.

`TransitRelay_proofs`:

* `TypeCorrect`, and `Pairing`:
  `Spec => [](LockHeldInside /\ MatchedOnce /\ PendingWaits)`, and
  `DroppedForAReason`: `Spec => NoPhantomMatch`. All follow from `PairingInv`. It
  adds that a connection before its handshake is known to nobody (`Fresh`), that
  an entry took part in no match, even the entries left behind during shutdown
  (`PendingUnmatched`), that the cleanup loop and a removing task act on expired
  entries (`StaleExpired`), and that a task polling without an entry of its own
  was matched or timed out (`Accounted`). `TypeOK` alone is not inductive: that
  no task takes the lock away from the cleanup loop needs `LockHeldInside`.

`RateLimiter_proofs`, from `LimiterInv`:

* `TypeCorrect`: `Spec => []TypeOK`, with the capacity of buckets.
* `RateLimited`: `Spec => []RateBound`. `GoodBucket` is the strengthening: tokens left
  and tokens given together are within the burst and the rate.
* `SessionsCounted`: `Spec => [](CountersMatch /\ LimitsHold)`. `CountersMatch` needs
  `SessionsOpen`, that a session counted belongs to a client that has not released
  it; `LimitsHold` is inductive with the types. The sessions must be finitely many.
* `QuotaBounded`: `Spec => []DailyOvershoot`. `QuotaInv` splits the day at its first
  check: before it nothing but the chunks in flight at midnight was sent; after
  it the counter misses at most those.

`MailboxBroadcast_proofs`:

* `Implements`: `Spec => ImplementsBroadcast`, where `B!Spec` has no fairness, so that the
  initial states and the steps are all there is to show. The mapping turns each
  handler into one step of `Broadcast` or none: `Open` joins, `Add` posts, `Replay`
  and `Notify` send, `Close` and a raising send leave, and the `finally` block
  forgets, which `Broadcast` allows for a connection that is gone only. Two facts
  come from `DeliveryInv`: a message that a task still owes was not sent before, and no
  other task owes it too, so that sending it takes it out of `due`.

`NeverTwice` and `Isolated`, `EndsUnsubscribed` and `OpenMailboxStays`, `LockDiscipline` and
`PendingClientsWait`, `LimitsAreHeld` state the parts of `Delivery`, `Rendezvous`, `Pairing`
and `SessionsCounted` one by one.

`DhtNode_proofs`, from `DhtInv`:

* `DhtTypes`: `Spec => []TypeOK`. That a query has a life and an `announce_peer` a key is
  part of it, so types need `Numbered` and `Progress`, which says where an operation waits.
* `FuturesExact`: `Spec => []PendingIsExact`. Two facts about `%` carry it: two numbers less
  than `TidSpace` apart have different ids (`TidsDiffer`), and two that are `TidSpace` apart
  the same (`TidWraps`). `Numbered` says that the queries of a running node have different
  numbers, none beyond the counter; `Newest` says that who is registered under an id was the
  last to take it. A start finds the table empty, since who is registered waits, and a node
  that is down has nobody who waits.
* `OwnAnswers`: `Spec => []AnswersOwnQuestion`. `Traced` says of each datagram which query it
  belongs to, and that a number stands for one query in the life of a node. In the first
  life and before the ids wrap around, an answer that arrives under the id of a registered
  operation bears its very number (`SameNumber`).
* `TrueReports`: `Spec => []ReportsAreStored`. `Backed` says that what a node has announced was
  stored, and that an answer which concerns the query an operation waits for says only what
  was stored; `Received` that the answer an operation holds was sent. The steps that send
  and announce nothing and start no node are handled together (`Quiet`).

`CommandStreams_proofs` and `Commands_proofs`: the theorems follow from `CommandsInv`, the
conjunction of the components' invariants. A step of a command keeps the invariant of its
own component, and the others because it leaves their variables alone. `TypesKept` states
the types of all of them; the rest, by component:

* `Bridge` (`BridgeInv`): `Streams` and `Orphans`, the part of the bridge. What was written to
  a local stream ends with a payload that arrived, for the forwarder with the last one while
  the local connection is open; before that nothing was written and sshd has everything
  buffered. While the subchannel is up, what was read was put, but by a pipe that listens
  and by a pump that fell back.
* `Daemon` (`DaemonInv`): `Reads` and `Deleted`. `BytesKept`, which is inductive with the
  types, says that each byte sent is in one place only, handed out, queued or in the
  hands of one `recv`, and there once; `ClosedForGood` that after the answer to a DELETE
  the wormhole is closed and stays so.
* `ProxyMux` (`ProxyInv`): `Streams` and `Orphans` for any number of channels that share one
  stream. `Flow` says which payloads are under way: of one channel they are in order and
  without a gap, and a registered writer goes on with the first of them. `Handshake` relates the
  two ends of a channel and the messages between them; `Told` says that the end of either is
  on its way to the other.
* `Wns` (`WnsInv`): `VersionsCurrent`, which is inductive with the types; `CodesFresh`, by
  `Published` (who publishes rewrites the file first).
* `Rsync` (`RsyncInv`): `Synced`, for any two directories. The invariant goes phase by phase:
  `Comparing` until the receiver has the manifest, `Streaming` while files are on the way
  (what is not yet in the destination is still in the stream, and DONE is its last message),
  `Source` for the files that vanish meanwhile.
* `Stores` (`StoresInv`): `FilesFit`, for any number of processes that write side by side and
  are killed anywhere. `Consistent` says that whatever can be read in a file is right for it,
  and so is what a command is about to write and what one has written into a file that is
  still open: a blend of two such texts is then right too, since its default and its limit
  are those of the text on top.

Only model-checked: the liveness properties, which are out of the prover's
reach (`OwedIsDelivered`, `ClosedTaskEnds`, `Settles`, `OperationsEnd`, `FallbackEnds`,
`SyncEnds`, `ToolEnds`). Every safety property that a passing run checks is also
proved.

## Plan

In this order; each module with its TLC instances, each with the properties of
the hazards listed for it in `PROJECT.json`.

1. Done: `MailboxServer`, `TransitRelay`, `RateLimiter` and their proofs;
   `Broadcast` and the proof that the mailbox server implements it.
2. Done: `DhtNode`, `Wns`, `Tools`, `Rsync`, `ProxyMux`, `Daemon`, `Bridge`,
   `Stores`, composed in `Commands`; the proofs of all their safety properties.
3. To state and prove next: what the liveness properties rest on, as safety (that whoever
   waits has an enabled step, written out as a state predicate), and abstract
   specifications of the transit relay and of the DHT's queries.
4. The rest of the rate limiter: the throttler, with buckets of fractions of a
   token, which may wait for more than a bucket can hold.
5. The dilation state machine and the mailbox client of the JavaScript packages, the
   latter composed with `MailboxServer`.

## Not modelled

Key agreement, signatures and address encoding are cryptography: a signature is
valid or not. LDAP, audit files, policy evaluation and terminal output read,
decide or print and keep no state. `relay/server.py` starts and stops the two
servers. `core/transport.py` is used by no command. HTTP requests and file
transfers are one library call after the other over a wormhole of their own; the
byte formats of HTTP, SSH and SFTP are the libraries'. FTP's command set is behind
a welcome that its client never receives. The daemon's `resolve`, `connect` and
`browse` requests open one wormhole and end. Global names: `claim-name` says that
they are first-come-first-served, and `Stores` shows only that a later claim replaces
an earlier one in the same home directory. The browser extension, the site and
the mobile application are user interfaces with copies of the packages; the web
server integrations start the command line tool and proxy to it.
