---------------------------- MODULE TransitRelay ----------------------------
(***************************************************************************)
(* The transit relay of wh/relay/transit.py: clients that present the same *)
(* token are paired and the server copies bytes between them.              *)
(*                                                                         *)
(* One asyncio task per TCP connection runs _handle_client.  The first     *)
(* client of a token registers in "pending" and polls every 0.1 s; the     *)
(* second pops that entry and relays for both.  _lock is held across the   *)
(* drains of a match and of the cleanup loop, so it is a variable; a       *)
(* critical section without an await is one step that finds it free.       *)
(*                                                                         *)
(* A clock is abstracted to expired[c]: "timeout" seconds have passed      *)
(* since c registered.  Bytes are abstracted to which of the two copying   *)
(* loops of a relay still run, which of these await a drain, and whose     *)
(* client leaves bytes unread, so that the server cannot get rid of them.  *)
(*                                                                         *)
(* Where an operator has a second form right before it, the first is a     *)
(* plausible wrong version that the properties are tested against.         *)
(***************************************************************************)
EXTENDS Naturals, FiniteSets

CONSTANTS
    Conns,    \* TCP connections
    Tokens,   \* tokens of the "please relay" handshake
    TokenOf,  \* TokenOf[c]: the token the client of c presents
    None,     \* Python's None
    Cleaner   \* the task of _cleanup_loop, as a holder of the lock

ASSUME TokenAssumption == TokenOf \in [Conns -> Tokens]
ASSUME ActorAssumption ==
    None \notin Conns /\ Cleaner \notin Conns /\ None # Cleaner

VARIABLES
    running,  \* _running
    swept,    \* stop() has closed the pending connections
    pending,  \* token -> the connection waiting under it, or None
    lock,     \* _lock: its holder, or None
    stale,    \* tokens the cleanup loop found stale and has not handled
    pc,       \* where the task of a connection is
    peer,     \* the connection a task popped from pending
    loops,    \* of a relaying task: which copying loops still run
    draining, \* ... and which of these are in "await dst.drain()"
    clogged,  \* connections whose client is there and does not read: bytes for
              \* it are in the server's buffer
    online,   \* the client's end of the connection is open
    closed,   \* the server closed its end (writer.close())
    expired   \* "timeout" seconds have passed since it registered

flow == <<loops, draining, clogged>>
vars == <<running, swept, pending, lock, stale, pc, peer, flow, online,
          closed, expired>>

\* "to": bytes of c for its peer; "from": bytes of the peer for c.
Directions == {"to", "from"}

Labels == {"off", "handshake", "sleep", "remove", "okself", "okpeer",
           "relay", "close", "closing", "done"}

Init ==
    /\ running = TRUE
    /\ swept = FALSE
    /\ pending = [t \in Tokens |-> None]
    /\ lock = None
    /\ stale = {}
    /\ pc = [c \in Conns |-> "off"]
    /\ peer = [c \in Conns |-> None]
    /\ loops = [c \in Conns |-> {}]
    /\ draining = [c \in Conns |-> {}]
    /\ clogged = {}
    /\ online = [c \in Conns |-> FALSE]
    /\ closed = [c \in Conns |-> FALSE]
    /\ expired = [c \in Conns |-> FALSE]

Goto(c, label) == pc' = [pc EXCEPT ![c] = label]
Waiting(c) == pc[c] \in {"sleep", "remove"}

----------------------------------------------------------------------------
(* _handle_client and _find_or_wait_peer.                                  *)

Connect(c) ==
    /\ running /\ pc[c] = "off"
    /\ online' = [online EXCEPT ![c] = TRUE]
    /\ Goto(c, "handshake")
    /\ UNCHANGED <<running, swept, pending, lock, stale, peer, flow, closed, expired>>

\* End of file, a bad line, an empty token, or no line within the timeout.
HandshakeFails(c) ==
    /\ pc[c] = "handshake"
    /\ Goto(c, "close")
    /\ UNCHANGED <<running, swept, pending, lock, stale, peer, flow,
                   online, closed, expired>>

TakeNothing(t) == pending' = pending
Take(t) == pending' = [pending EXCEPT ![t] = None]

\* The handshake line was read and the lock is free.  Reading the line and
\* waiting for the lock touch nothing that is shared, so both are part of the
\* step that gets the lock.
\*
\* A peer waits under the token: pop it and start to write "ok" to both.
Match(c) ==
    /\ pc[c] = "handshake" /\ lock = None
    /\ pending[TokenOf[c]] # None
    /\ peer' = [peer EXCEPT ![c] = pending[TokenOf[c]]]
    /\ Take(TokenOf[c])
    /\ lock' = c
    /\ Goto(c, "okself")
    /\ UNCHANGED <<running, swept, stale, flow, online, closed, expired>>

Register(c) ==
    /\ pc[c] = "handshake" /\ lock = None
    /\ pending[TokenOf[c]] = None
    /\ pending' = [pending EXCEPT ![TokenOf[c]] = c]
    /\ Goto(c, "sleep")
    /\ UNCHANGED <<running, swept, lock, stale, peer, flow,
                   online, closed, expired>>

\* The two drains of a match.  A drain may raise when that client is gone; the
\* lock is released, and the task that popped the peer gives up.
OkSelf(c) ==
    /\ pc[c] = "okself"
    /\ \/ Goto(c, "okpeer") /\ UNCHANGED lock
       \/ ~online[c] /\ Goto(c, "close") /\ lock' = None
    /\ UNCHANGED <<running, swept, pending, stale, peer, flow, online, closed, expired>>

\* The end of the "async with" block, by return or by exception.
ReleasedOnReturn(c) == IF pc'[c] = "relay" THEN None ELSE lock
Released(c) == None

OkPeer(c) ==
    /\ pc[c] = "okpeer"
    /\ \/ /\ Goto(c, "relay")
          /\ loops' = [loops EXCEPT ![c] = Directions]
       \/ /\ ~online[peer[c]] /\ Goto(c, "close")
          /\ UNCHANGED loops
    /\ lock' = Released(c)
    /\ UNCHANGED <<running, swept, pending, stale, peer, draining, clogged,
                   online, closed, expired>>

\* One turn of the polling loop.  The token being absent means "matched" to
\* the code, which then returns None: the task goes on to close its writer.
Poll(c) ==
    /\ pc[c] = "sleep" /\ running /\ lock = None
    /\ IF pending[TokenOf[c]] = None THEN Goto(c, "close")
       ELSE IF expired[c] THEN Goto(c, "remove")
       ELSE UNCHANGED pc
    /\ UNCHANGED <<running, swept, pending, lock, stale, peer, flow,
                   online, closed, expired>>

\* pending.pop(token, None), whosever entry it is; then "timeout" is written.
Remove(c) ==
    /\ pc[c] = "remove" /\ lock = None
    /\ Take(TokenOf[c])
    /\ Goto(c, "close")
    /\ UNCHANGED <<running, swept, lock, stale, peer, flow,
                   online, closed, expired>>

\* While shutting down: the loop sees _running false and leaves its entry, or
\* the task is cancelled and removes it.
PollStopped(c) ==
    /\ pc[c] = "sleep" /\ ~running
    /\ Goto(c, "close") \/ Goto(c, "remove")
    /\ UNCHANGED <<running, swept, pending, lock, stale, peer, flow,
                   online, closed, expired>>

\* The connection of c is lost to the server: the client hung up, or the server
\* closed it and its last bytes are out.  close() alone gives no end of file
\* while bytes are left in the buffer.
Lost(c) == ~online[c] \/ (closed[c] /\ c \notin clogged)

\* The finally block of _handle_client: close, and wait until it is closed.
Close(c) ==
    /\ pc[c] = "close"
    /\ closed' = [closed EXCEPT ![c] = TRUE]
    /\ Goto(c, "closing")
    /\ UNCHANGED <<running, swept, pending, lock, stale, peer, flow, online, expired>>

Closed(c) ==
    /\ pc[c] = "closing" /\ Lost(c)
    /\ Goto(c, "done")
    /\ UNCHANGED <<running, swept, pending, lock, stale, peer, flow, online, closed, expired>>

----------------------------------------------------------------------------
(* _relay_data: gather of two copying loops.                               *)

Source(c, dir) == IF dir = "to" THEN c ELSE peer[c]
Target(c, dir) == IF dir = "to" THEN peer[c] ELSE c

\* The loops of c that are in "await src.read()".
Reading(c) == IF pc[c] = "relay" THEN loops[c] \ draining[c] ELSE {}

\* Bytes are copied and drain() returns, or waits until the client reads: there
\* is no timeout.  What is written to a connection that is closed is dropped.
\* Bytes sent before the source was lost are read before it is.
Write(c, dir) ==
    LET dst == Target(c, dir)
    IN  /\ dir \in Reading(c)
        /\ ~Lost(Source(c, dir)) /\ ~Lost(dst)
        /\ clogged' \in {clogged, IF closed[dst] THEN clogged ELSE clogged \cup {dst}}
        /\ \/ UNCHANGED draining
           \/ dst \in clogged' /\ draining' = [draining EXCEPT ![c] = @ \cup {dir}]
        /\ UNCHANGED <<running, swept, pending, lock, stale, pc, peer, loops,
                       online, closed, expired>>

\* The client reads what the server has for it, which ends a drain.
Reads(d) ==
    /\ d \in clogged
    /\ clogged' = clogged \ {d}
    /\ draining' = [c \in Conns |-> {dir \in draining[c] : Target(c, dir) # d}]
    /\ UNCHANGED <<running, swept, pending, lock, stale, pc, peer, loops,
                   online, closed, expired>>

\* The connections a loop closes in its finally block: the one it wrote to.
ClosedByLoopNone(dst) == {}
ClosedByLoop(dst) == {dst}

\* A loop ends at end of file or by an exception and closes the writer it
\* copied to; gather returns when both have ended.
LoopEnds(c, dir) ==
    LET dst == Target(c, dir)
    IN  /\ closed' = [x \in Conns |-> closed[x] \/ x \in ClosedByLoop(dst)]
        /\ loops' = [loops EXCEPT ![c] = @ \ {dir}]
        /\ draining' = [draining EXCEPT ![c] = @ \ {dir}]
        /\ Goto(c, IF loops[c] = {dir} THEN "close" ELSE "relay")
        /\ UNCHANGED <<running, swept, pending, lock, stale, peer, clogged,
                       online, expired>>

LoopEof(c, dir) ==
    /\ dir \in Reading(c) /\ Lost(Source(c, dir))
    /\ LoopEnds(c, dir)

\* Bytes arrived for a connection that is lost, and the drain raises.
LoopRaises(c, dir) ==
    /\ dir \in Reading(c) /\ Lost(Target(c, dir))
    /\ LoopEnds(c, dir)

\* The client a drain waits for hangs up: drain() returns or raises.
DrainEnds(c, dir) ==
    /\ pc[c] = "relay" /\ dir \in draining[c] /\ Lost(Target(c, dir))
    /\ \/ LoopEnds(c, dir)
       \/ /\ draining' = [draining EXCEPT ![c] = @ \ {dir}]
          /\ UNCHANGED <<running, swept, pending, lock, stale, pc, peer, loops,
                         clogged, online, closed, expired>>

----------------------------------------------------------------------------
(* _cleanup_loop, stop and the environment.                                *)

StaleTokensAnyAge == {t \in Tokens : pending[t] # None}
StaleTokens == {t \in Tokens : pending[t] # None /\ expired[pending[t]]}

CleanupStart ==
    /\ running /\ lock = None /\ StaleTokens # {}
    /\ lock' = Cleaner
    /\ stale' = StaleTokens
    /\ UNCHANGED <<running, swept, pending, pc, peer, flow, online, closed, expired>>

\* The cleanup loop's hold on the lock ends with its last stale token.
LockAfterKept(t) == Cleaner
LockAfter(t) == IF stale = {t} THEN None ELSE Cleaner

\* Pop one stale entry, write "timeout", close; a drain that raises skips the
\* close.
CleanupOne(t) ==
    /\ lock = Cleaner /\ t \in stale
    /\ Take(t)
    /\ \/ closed' = [closed EXCEPT ![pending[t]] = TRUE]
       \/ ~online[pending[t]] /\ UNCHANGED closed
    /\ stale' = stale \ {t}
    /\ lock' = LockAfter(t)
    /\ UNCHANGED <<running, swept, pc, peer, flow, online, expired>>

\* stop(): clear the flag and cancel the cleanup task.  If that holds the lock
\* it is in the drain of a token it popped; it does not close that writer.
Stop ==
    /\ running
    /\ running' = FALSE
    /\ \/ /\ lock = Cleaner
          /\ \E t \in stale : Take(t)
          /\ lock' = None /\ stale' = {}
       \/ /\ lock # Cleaner
          /\ UNCHANGED <<pending, lock, stale>>
    /\ UNCHANGED <<swept, pc, peer, flow, online, closed, expired>>

\* ... and, once the listening socket is closed, close what is pending.
StopPending ==
    /\ ~running /\ ~swept /\ lock = None
    /\ swept' = TRUE
    /\ closed' = [c \in Conns |-> closed[c] \/ \E t \in Tokens : pending[t] = c]
    /\ pending' = [t \in Tokens |-> None]
    /\ UNCHANGED <<running, lock, stale, pc, peer, flow, online, expired>>

\* A client closes its connection, or learns that the server closed it.
Hangup(c) ==
    /\ online[c]
    /\ online' = [online EXCEPT ![c] = FALSE]
    /\ clogged' = clogged \ {c}
    /\ UNCHANGED <<running, swept, pending, lock, stale, pc, peer, loops,
                   draining, closed, expired>>

\* Time passes.
Expire(c) ==
    /\ Waiting(c) /\ ~expired[c]
    /\ expired' = [expired EXCEPT ![c] = TRUE]
    /\ UNCHANGED <<running, swept, pending, lock, stale, pc, peer, flow,
                   online, closed>>

Step(c) ==
    \/ HandshakeFails(c) \/ Match(c) \/ Register(c)
    \/ OkSelf(c) \/ OkPeer(c) \/ Poll(c) \/ Remove(c) \/ PollStopped(c)
    \/ Close(c) \/ Closed(c)
    \/ \E dir \in Directions : LoopEof(c, dir) \/ DrainEnds(c, dir)

Cleanup == CleanupStart \/ \E t \in Tokens : CleanupOne(t)

Next ==
    \/ \E c \in Conns :
         \/ Connect(c) \/ Step(c) \/ Hangup(c) \/ Reads(c) \/ Expire(c)
         \/ \E dir \in Directions : Write(c, dir) \/ LoopRaises(c, dir)
    \/ Cleanup \/ Stop \/ StopPending

\* The event loop never idles while a task is ready (a client that sends no
\* handshake times out), and time passes.  None of these steps can go round for
\* ever, so it does not matter here in which order the loop serves them.
\* Nothing is assumed of the clients: that they send (Write, LoopRaises), read
\* what was sent (Reads) or hang up.
Fairness ==
    /\ WF_vars(\E c \in Conns : Step(c) \/ Expire(c))
    /\ WF_vars(Cleanup)

Spec == Init /\ [][Next]_vars
FairSpec == Spec /\ Fairness

----------------------------------------------------------------------------
(* Properties.                                                             *)

\* Types, and what a task holds at which await.
TypeOK ==
    /\ running \in BOOLEAN /\ swept \in BOOLEAN
    /\ pending \in [Tokens -> Conns \cup {None}]
    /\ lock \in Conns \cup {None, Cleaner}
    /\ stale \in SUBSET Tokens
    /\ pc \in [Conns -> Labels]
    /\ peer \in [Conns -> Conns \cup {None}]
    /\ loops \in [Conns -> SUBSET Directions]
    /\ draining \in [Conns -> SUBSET Directions]
    /\ clogged \in SUBSET Conns
    /\ online \in [Conns -> BOOLEAN]
    /\ closed \in [Conns -> BOOLEAN]
    /\ expired \in [Conns -> BOOLEAN]
    /\ \A c \in Conns :
         /\ loops[c] # {} <=> pc[c] = "relay"
         /\ draining[c] \subseteq loops[c]
         /\ pc[c] \in {"okself", "okpeer", "relay"} => peer[c] # None
    /\ stale # {} <=> lock = Cleaner

\* The lock is held by a task that is inside a critical section and will get
\* out of it: no task fails while holding it.
LockHeldInside ==
    \A c \in Conns : lock = c <=> pc[c] \in {"okself", "okpeer"}

\* An entry of pending is a client that still waits with an open writer: a
\* match never pops a connection whose task gave up.
PendingWaits ==
    running => \A t \in Tokens : LET c == pending[t] IN
        c # None => TokenOf[c] = t /\ Waiting(c) /\ ~closed[c]

\* The peer of a match presented the same token, is another connection, and
\* is the peer of no other match.
MatchedOnce ==
    \A c, d \in Conns : peer[c] = d =>
        /\ TokenOf[c] = TokenOf[d] /\ c # d /\ peer[d] = None
        /\ \A e \in Conns : peer[e] = d => e = c
        /\ \A t \in Tokens : pending[t] # d

Matched(c) == peer[c] # None \/ \E d \in Conns : peer[d] = c

\* A connection with the token of c timed out.
TokenExpired(c) == \E d \in Conns : TokenOf[d] = TokenOf[c] /\ expired[d]

\* A client that takes the absence of its token for a match was matched, or
\* the timeout of a connection with that token has passed: its own, or that of
\* another whose late "pending.pop" hit the wrong entry.  Nothing else makes
\* the server drop a waiting client.
NoPhantomMatch ==
    [][\A c \in Conns : running /\ pc[c] = "sleep" /\ pc'[c] = "close" =>
          Matched(c) \/ TokenExpired(c)]_vars

\* A client that stays connected and does not read what the server has for it.
Unread(d) == online[d] /\ d \in clogged

\* Nobody is left behind but by a client that does not read.  Once no more
\* clients come and go, every task has ended (no client polls for ever, whatever
\* happened to the entry it registered, and none waits for the lock), except
\* those that relay between two clients that are both still there, and those
\* that one client holds by staying connected without reading: nothing bounds
\* the drain of a relay or the wait for a connection to close.  Otherwise a
\* relay that lost one client is torn down for both.
Settles ==
    <>[](\A c \in Conns :
            \/ pc[c] \in {"off", "done"}
            \/ pc[c] = "relay" /\ ~Lost(c) /\ ~Lost(peer[c])
            \/ pc[c] = "relay" /\ (Unread(c) \/ Unread(peer[c]))
            \/ pc[c] = "closing" /\ Unread(c))

\* "Once matched, server relays data bidirectionally": as long as both clients
\* stay and the server runs, it closes neither connection of a relayed pair.
RelayStaysUp ==
    \A c \in Conns :
        running /\ pc[c] = "relay" /\ online[c] /\ online[peer[c]] =>
            ~closed[c] /\ ~closed[peer[c]]

----------------------------------------------------------------------------
(* The inductive invariant behind the properties above.                    *)

\* A task that has not got past its handshake is known to nobody.
Fresh ==
    \A c \in Conns : pc[c] \in {"off", "handshake"} =>
        /\ peer[c] = None /\ ~closed[c]
        /\ \A t \in Tokens : pending[t] # c
        /\ \A d \in Conns : peer[d] # c

\* An entry of pending is under its own token and took part in no match; this
\* holds during shutdown too, when a task may leave its entry behind.
PendingUnmatched ==
    \A t \in Tokens : LET c == pending[t] IN
        c # None => TokenOf[c] = t /\ peer[c] = None

\* The tokens that the cleanup loop still has to handle are pending and stale,
\* and a task that removes its entry has timed out.
StaleExpired ==
    /\ \A t \in stale : pending[t] # None /\ expired[pending[t]]
    /\ \A c \in Conns : running /\ pc[c] = "remove" => expired[c]

\* A task that polls without an entry of its own was matched or timed out.
Accounted ==
    \A c \in Conns :
        running /\ pc[c] = "sleep" /\ pending[TokenOf[c]] # c =>
            Matched(c) \/ TokenExpired(c)

PairingInv ==
    /\ TypeOK /\ LockHeldInside /\ PendingWaits /\ MatchedOnce
    /\ Fresh /\ PendingUnmatched /\ StaleExpired /\ Accounted
=============================================================================
