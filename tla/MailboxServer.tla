--------------------------- MODULE MailboxServer ---------------------------
(***************************************************************************)
(* The rendezvous ("mailbox") server of wh/relay/mailbox.py.               *)
(*                                                                         *)
(* One asyncio task per WebSocket runs _handle_client: it sends a welcome, *)
(* then handles one client message at a time.  Tasks interleave only at an *)
(* await, so every handler is one atomic action up to its first await, and *)
(* every send is a step of its own.  A send on a closed socket raises; in  *)
(* _handle_add that drops the subscriber, everywhere else it ends the task *)
(* through the finally block of _handle_client.                            *)
(*                                                                         *)
(* Where an operator has a second form right before it (Unsubscribed and   *)
(* UnsubscribedKeeps, ...), the first is a plausible wrong version that    *)
(* the properties are tested against; no action uses it.                   *)
(*                                                                         *)
(* Messages are numbered in the order they are added, so the list          *)
(* Mailbox.messages is a set of numbers read in increasing order.          *)
(***************************************************************************)
EXTENDS Naturals, FiniteSets

CONSTANTS
    Conns,            \* WebSocket connections; each is used once
    Sides,            \* the "side" strings clients identify themselves by
    SidesOf,          \* SidesOf[c]: the sides connection c may bind
    Boxes,            \* mailbox ids
    MaxNameplate,     \* bound: nameplates are 1..MaxNameplate
    MaxOpens,         \* bound: "open" requests of one connection
    MaxMsgs,          \* bound: messages added during a behaviour
    ClaimUnallocated, \* do clients claim numbers the server never allocated?
    None              \* Python's None

ASSUME ConnsAssumption == IsFiniteSet(Conns)
ASSUME SidesAssumption == SidesOf \in [Conns -> SUBSET Sides]
ASSUME BoundsAssumption == 
    MaxNameplate \in Nat /\ MaxOpens \in Nat /\ MaxMsgs \in Nat
ASSUME ClaimAssumption == ClaimUnallocated \in BOOLEAN
ASSUME NoneAssumption ==
    None \notin Sides /\ None \notin Boxes /\ None \notin Nat

VARIABLES
    running,        \* _running
    nextNameplate,  \* _next_nameplate
    nameplates,     \* nameplate id -> [mailbox, sides]
    mailboxes,      \* mailbox id -> [sides, messages]
    usedBoxes,      \* every id that was ever a mailbox (token_hex is fresh)
    subs,           \* client_subscriptions: mailbox id -> set of connections
    conn,           \* client_state of every connection, and the mailbox id
                    \* its last "claimed" reply carried
    alive,          \* is the connection's socket open?
    pc,             \* where the connection's task is
    replay,         \* messages _handle_open still has to send
    fanout,         \* subscribers _handle_add still has to notify
    posting,        \* the message _handle_add is notifying about
    boxOf,          \* message -> the mailbox it was added to
    nextMsg,        \* the number of the next message
    got,            \* messages sent to each connection ...
    twice,          \* ... and those sent to it more than once
    opened,         \* history: the mailboxes each connection ever opened ...
    opens           \* ... and how many "open" requests it sent

server == <<running, nextNameplate, nameplates, mailboxes, usedBoxes, subs>>
history == <<opened, opens>>
posts  == <<boxOf, nextMsg>>
inbox  == <<got, twice>>
vars == <<running, nextNameplate, nameplates, mailboxes, usedBoxes, subs,
          conn, alive, pc, replay, fanout, posting, boxOf, nextMsg,
          got, twice, opened, opens>>

NameplateIds == 1..MaxNameplate
MsgIds == 1..MaxMsgs
OptSide == Sides \cup {None}

Nameplate == [mailbox : Boxes, sides : SUBSET OptSide]
Mailbox == [sides : SUBSET OptSide, messages : SUBSET MsgIds]
ClientState == [side : OptSide,
                nameplate : NameplateIds \cup {None},
                mailbox : Boxes \cup {None},
                told : Boxes \cup {None}]

NewNameplate(b) == [mailbox |-> b, sides |-> {}]
NewMailbox == [sides |-> {}, messages |-> {}]
NewClient == [side |-> None, nameplate |-> None, mailbox |-> None, told |-> None]

\* The dictionary f with f[k] = v; and without the key k.
Put(f, k, v) == [x \in DOMAIN f \cup {k} |-> IF x = k THEN v ELSE f[x]]
Del(f, k) == [x \in DOMAIN f \ {k} |-> f[x]]

\* set.discard under the guard "if side:" of _handle_release, _handle_close.
DiscardSide(S, side) == IF side = None THEN S ELSE S \ {side}

Init ==
    /\ running = TRUE
    /\ nextNameplate = 1
    /\ nameplates = [n \in {} |-> NewNameplate(None)]
    /\ mailboxes = [b \in {} |-> NewMailbox]
    /\ usedBoxes = {}
    /\ subs = [b \in Boxes |-> {}]
    /\ conn = [c \in Conns |-> NewClient]
    /\ alive = [c \in Conns |-> FALSE]
    /\ pc = [c \in Conns |-> "off"]
    /\ replay = [c \in Conns |-> {}]
    /\ fanout = [c \in Conns |-> {}]
    /\ posting = [c \in Conns |-> None]
    /\ boxOf = [m \in MsgIds |-> None]
    /\ nextMsg = 1
    /\ got = [c \in Conns |-> {}]
    /\ twice = [c \in Conns |-> {}]
    /\ opened = [c \in Conns |-> {}]
    /\ opens = [c \in Conns |-> 0]

----------------------------------------------------------------------------
(* The connection's task.                                                  *)

Goto(c, label) == pc' = [pc EXCEPT ![c] = label]

Connect(c) ==
    /\ running /\ pc[c] = "off"
    /\ alive' = [alive EXCEPT ![c] = TRUE]
    /\ Goto(c, "reply")                            \* the welcome message
    /\ UNCHANGED <<server, conn, replay, fanout, posting, posts, inbox, history>>

\* client_subscriptions without c's entry for the mailbox of client_state; a
\* subscription to any other mailbox stays.
UnsubscribedKeeps(c) == subs
Unsubscribed(c) ==
    [b \in Boxes |-> IF b = conn[c].mailbox THEN subs[b] \ {c} ELSE subs[b]]

\* The finally block.
Finally(c) ==
    /\ Goto(c, "done")
    /\ subs' = Unsubscribed(c)
    /\ conn' = [conn EXCEPT ![c] = NewClient]
    /\ replay' = [replay EXCEPT ![c] = {}]
    /\ UNCHANGED <<running, nextNameplate, nameplates, mailboxes, usedBoxes,
                   alive, fanout, posting, posts, inbox, history>>

\* A reply other than a message: welcome, ack, claimed, pong, error, ...
Reply(c) ==
    /\ pc[c] = "reply" /\ alive[c]
    /\ Goto(c, "recv")
    /\ UNCHANGED <<server, conn, alive, replay, fanout, posting, posts,
                   inbox, history>>

\* The awaits whose exception reaches _handle_client and ends the task: its
\* own sends, and reading when a closed socket has no message left.
RaisesUnlessReplying == {"recv", "replay"}
Raises == {"recv", "reply", "replay"}

TaskEnds(c) ==
    /\ pc[c] \in Raises /\ ~alive[c]
    /\ Finally(c)

\* Every handler starts here; a closed socket may have unread messages left.
Handling(c) == pc[c] = "recv"

Bind(c) ==
    /\ Handling(c)
    /\ \E s \in SidesOf[c] : conn' = [conn EXCEPT ![c].side = s]
    /\ Goto(c, "reply")
    /\ UNCHANGED <<server, alive, replay, fanout, posting, posts, inbox, history>>

----------------------------------------------------------------------------
(* Nameplates.                                                             *)

\* The counter alone decides the number: an existing entry is overwritten.
Allocate(c) ==
    /\ Handling(c)
    /\ nextNameplate <= MaxNameplate
    /\ nextNameplate' = nextNameplate + 1
    /\ \E b \in Boxes \ usedBoxes :
         /\ nameplates' = Put(nameplates, nextNameplate, NewNameplate(b))
         /\ mailboxes' = Put(mailboxes, b, NewMailbox)
         /\ usedBoxes' = usedBoxes \cup {b}
    /\ Goto(c, "reply")
    /\ UNCHANGED <<running, subs, conn, alive, replay, fanout, posting,
                   posts, inbox, history>>

\* The numbers a client may know: all, or those the server allocated.
Claimable == IF ClaimUnallocated THEN NameplateIds
             ELSE {n \in NameplateIds : n < nextNameplate}

\* nameplate.sides.add(side); the reply carries nameplate.mailbox_id.
ClaimAs(c, n, np) ==
    /\ nameplates' = Put(nameplates, n,
                         [np EXCEPT !.sides = @ \cup {conn[c].side}])
    /\ conn' = [conn EXCEPT ![c].nameplate = n, ![c].told = np.mailbox]

Claim(c, n) ==
    /\ Handling(c)
    /\ n \in Claimable
    /\ \/ /\ n \in DOMAIN nameplates
          /\ ClaimAs(c, n, nameplates[n])
          /\ UNCHANGED <<mailboxes, usedBoxes>>
       \/ /\ n \notin DOMAIN nameplates
          /\ \E b \in Boxes \ usedBoxes :
               /\ ClaimAs(c, n, NewNameplate(b))
               /\ mailboxes' = Put(mailboxes, b, NewMailbox)
               /\ usedBoxes' = usedBoxes \cup {b}
    /\ Goto(c, "reply")
    /\ UNCHANGED <<running, nextNameplate, subs, alive, replay, fanout,
                   posting, posts, inbox, history>>

ReleaseSideDeletes(n, side) == nameplates' = Del(nameplates, n)

\* Drop the side; a nameplate without sides is deleted.
ReleaseSide(n, side) ==
    LET left == DiscardSide(nameplates[n].sides, side)
    IN  nameplates' = IF left = {} THEN Del(nameplates, n)
                      ELSE Put(nameplates, n, [nameplates[n] EXCEPT !.sides = left])

\* n is data["nameplate"], None when the request names no nameplate.
Release(c, n) ==
    /\ Handling(c)
    /\ LET target == IF n = None THEN conn[c].nameplate ELSE n
       IN  IF target \in DOMAIN nameplates
           THEN ReleaseSide(target, conn[c].side)
           ELSE UNCHANGED nameplates
    /\ conn' = [conn EXCEPT ![c].nameplate = None, ![c].told = None]
    /\ Goto(c, "reply")
    /\ UNCHANGED <<running, nextNameplate, mailboxes, usedBoxes, subs, alive,
                   replay, fanout, posting, posts, inbox, history>>

\* list, ping, an unknown type, invalid JSON: a reply and nothing else.
Query(c) ==
    /\ Handling(c)
    /\ Goto(c, "reply")
    /\ UNCHANGED <<server, conn, alive, replay, fanout, posting, posts,
                   inbox, history>>

----------------------------------------------------------------------------
(* Mailboxes.                                                              *)

\* Where a handler with this work left goes on.
WorkOrStay(work, label) == label
WorkOr(work, label) == IF work = {} THEN "recv" ELSE label

BoxNow(b) == IF b \in DOMAIN mailboxes THEN mailboxes[b] ELSE NewMailbox

\* get_messages(): the list as it is now.
SnapshotEmpty(b) == {}
Snapshot(b) == BoxNow(b).messages

\* Subscribing and copying the list happen before the first await.
Open(c, b) ==
    /\ Handling(c)
    /\ opens[c] < MaxOpens
    /\ mailboxes' = Put(mailboxes, b,
                        [BoxNow(b) EXCEPT !.sides = @ \cup {conn[c].side}])
    /\ usedBoxes' = usedBoxes \cup {b}
    /\ subs' = [subs EXCEPT ![b] = @ \cup {c}]
    /\ conn' = [conn EXCEPT ![c].mailbox = b]
    /\ replay' = [replay EXCEPT ![c] = Snapshot(b)]
    /\ Goto(c, WorkOr(Snapshot(b), "replay"))
    /\ opened' = [opened EXCEPT ![c] = @ \cup {b}]
    /\ opens' = [opens EXCEPT ![c] = @ + 1]
    /\ UNCHANGED <<running, nextNameplate, nameplates, alive, fanout, posting,
                   posts, inbox>>

\* One message put on d's socket.
Deliver(d, m) ==
    /\ got' = [got EXCEPT ![d] = @ \cup {m}]
    /\ twice' = [twice EXCEPT ![d] = IF m \in got[d] THEN @ \cup {m} ELSE @]

\* The rest of the copied list (the variant loops over the list itself).
ReplayLeftLive(c, m) == {k \in BoxNow(conn[c].mailbox).messages : k > m}
ReplayLeft(c, m) == replay[c] \ {m}

Replay(c) ==
    /\ pc[c] = "replay" /\ alive[c]
    /\ \E m \in replay[c] :
         /\ \A k \in replay[c] : m <= k
         /\ Deliver(c, m)
         /\ replay' = [replay EXCEPT ![c] = ReplayLeft(c, m)]
         /\ Goto(c, WorkOr(ReplayLeft(c, m), "replay"))
    /\ UNCHANGED <<server, conn, alive, fanout, posting, posts, history>>

\* "No mailbox open" and "Mailbox not found".
AddRefused(c) ==
    /\ Handling(c)
    /\ conn[c].mailbox \notin DOMAIN mailboxes
    /\ Goto(c, "reply")
    /\ UNCHANGED <<server, conn, alive, replay, fanout, posting, posts,
                   inbox, history>>

\* client_subscriptions.get(mailbox_id)
SubscribersAll(b) == Conns
Subscribers(b) == subs[b]

\* Append the message and copy the set of subscribers to notify.
Add(c) ==
    /\ Handling(c)
    /\ nextMsg <= MaxMsgs
    /\ conn[c].mailbox \in DOMAIN mailboxes
    /\ LET b == conn[c].mailbox
       IN  /\ mailboxes' = [mailboxes EXCEPT ![b].messages = @ \cup {nextMsg}]
           /\ boxOf' = [boxOf EXCEPT ![nextMsg] = b]
           /\ fanout' = [fanout EXCEPT ![c] = Subscribers(b)]
           /\ posting' = [posting EXCEPT ![c] =
                            IF Subscribers(b) = {} THEN None ELSE nextMsg]
           /\ Goto(c, WorkOr(Subscribers(b), "notify"))
    /\ nextMsg' = nextMsg + 1
    /\ UNCHANGED <<running, nextNameplate, nameplates, usedBoxes, subs, conn,
                   alive, replay, inbox, history>>

\* The subscribers left after d's turn, whether its send raised or not.
FanoutLeftAbort(c, d) == IF alive[d] THEN fanout[c] \ {d} ELSE {}
FanoutLeft(c, d) == fanout[c] \ {d}

\* One turn of the loop over the copied subscribers; d's send may raise.
Notify(c, d) ==
    /\ pc[c] = "notify" /\ d \in fanout[c]
    /\ \/ /\ alive[d]
          /\ Deliver(d, posting[c])
          /\ UNCHANGED subs
       \/ /\ ~alive[d]
          /\ subs' = [subs EXCEPT ![boxOf[posting[c]]] = @ \ {d}]
          /\ UNCHANGED inbox
    /\ fanout' = [fanout EXCEPT ![c] = FanoutLeft(c, d)]
    /\ posting' = [posting EXCEPT ![c] = IF FanoutLeft(c, d) = {} THEN None ELSE @]
    /\ Goto(c, WorkOr(FanoutLeft(c, d), "notify"))
    /\ UNCHANGED <<running, nextNameplate, nameplates, mailboxes, usedBoxes,
                   conn, alive, replay, posts, history>>

CloseSideDeletes(b, side) == mailboxes' = Del(mailboxes, b)

\* Drop the side; a mailbox without sides is deleted with its messages.
CloseSide(b, side) ==
    LET left == DiscardSide(mailboxes[b].sides, side)
    IN  mailboxes' = IF left = {} THEN Del(mailboxes, b)
                     ELSE Put(mailboxes, b, [mailboxes[b] EXCEPT !.sides = left])

Close(c) ==
    /\ Handling(c)
    /\ LET b == conn[c].mailbox
       IN  /\ subs' = Unsubscribed(c)
           /\ IF b \in DOMAIN mailboxes
              THEN CloseSide(b, conn[c].side)
              ELSE UNCHANGED mailboxes
    /\ conn' = [conn EXCEPT ![c].mailbox = None]
    /\ Goto(c, "reply")
    /\ UNCHANGED <<running, nextNameplate, nameplates, usedBoxes, alive, replay,
                   fanout, posting, posts, inbox, history>>

----------------------------------------------------------------------------
(* The environment.                                                        *)

\* The client goes away (or misses the library's keepalive).
Hangup(c) ==
    /\ alive[c]
    /\ alive' = [alive EXCEPT ![c] = FALSE]
    /\ UNCHANGED <<server, conn, pc, replay, fanout, posting, posts, inbox, history>>

\* Closing the listening server closes every socket it accepted.
Stop ==
    /\ running
    /\ running' = FALSE
    /\ alive' = [c \in Conns |-> FALSE]
    /\ UNCHANGED <<nextNameplate, nameplates, mailboxes, usedBoxes, subs, conn,
                   pc, replay, fanout, posting, posts, inbox, history>>

Next ==
    \/ \E c \in Conns :
         \/ Connect(c) \/ Reply(c) \/ TaskEnds(c) \/ Hangup(c)
         \/ Bind(c) \/ Allocate(c) \/ Query(c)
         \/ \E n \in NameplateIds : Claim(c, n)
         \/ \E n \in NameplateIds \cup {None} : Release(c, n)
         \/ \E b \in Boxes : Open(c, b)
         \/ Replay(c) \/ AddRefused(c) \/ Add(c) \/ Close(c)
         \/ \E d \in Conns : Notify(c, d)
    \/ Stop

\* The event loop runs every ready task, and a send completes or raises: the
\* WebSocket library's keepalive closes a socket whose peer stopped reading.
Fairness ==
    \A c \in Conns :
        /\ WF_vars(Reply(c))
        /\ WF_vars(Replay(c))
        /\ WF_vars(\E d \in Conns : Notify(c, d))
        /\ WF_vars(TaskEnds(c))

Spec == Init /\ [][Next]_vars
FairSpec == Spec /\ Fairness

----------------------------------------------------------------------------
(* Properties.                                                             *)

\* Types, and which local state a task has at which await: _handle_open has
\* messages left to replay exactly while it replays, _handle_add has
\* subscribers left to notify exactly while it notifies.
TypeOK ==
    /\ running \in BOOLEAN
    /\ nextNameplate \in 1..(MaxNameplate + 1)
    /\ DOMAIN nameplates \subseteq NameplateIds
    /\ nameplates \in [DOMAIN nameplates -> Nameplate]
    /\ DOMAIN mailboxes \subseteq usedBoxes
    /\ mailboxes \in [DOMAIN mailboxes -> Mailbox]
    /\ usedBoxes \subseteq Boxes
    /\ subs \in [Boxes -> SUBSET Conns]
    /\ conn \in [Conns -> ClientState]
    /\ alive \in [Conns -> BOOLEAN]
    /\ pc \in [Conns -> {"off", "recv", "reply", "replay", "notify", "done"}]
    /\ replay \in [Conns -> SUBSET MsgIds]
    /\ fanout \in [Conns -> SUBSET Conns]
    /\ posting \in [Conns -> MsgIds \cup {None}]
    /\ boxOf \in [MsgIds -> Boxes \cup {None}]
    /\ nextMsg \in 1..(MaxMsgs + 1)
    /\ got \in [Conns -> SUBSET MsgIds]
    /\ twice \in [Conns -> SUBSET MsgIds]
    /\ opened \in [Conns -> SUBSET Boxes]
    /\ opens \in [Conns -> 0..MaxOpens]
    /\ \A c \in Conns :
         /\ replay[c] # {} <=> pc[c] = "replay"
         /\ fanout[c] # {} <=> pc[c] = "notify"
         /\ posting[c] # None <=> pc[c] = "notify"

\* m will still be sent to c: by c's own replay or by a sender's fan-out.
Owed(c, m) ==
    \/ m \in replay[c]
    \/ \E d \in Conns : posting[d] = m /\ c \in fanout[d]

\* A subscriber with an open socket misses no message of its mailbox: each one
\* was sent to it, or _handle_open or a running _handle_add still will.  This
\* is why _handle_open must subscribe and copy the list without an await
\* between, whatever other tasks do while it replays.
NoLostMessage ==
    \A b \in DOMAIN mailboxes : \A c \in subs[b] : alive[c] =>
        \A m \in mailboxes[b].messages : m \in got[c] \/ Owed(c, m)

\* A connection that opens one mailbox once is sent no message twice, although
\* _handle_open's replay and any number of _handle_add fan-outs interleave.
AtMostOnce == \A c \in Conns : opens[c] <= 1 => twice[c] = {}

\* A connection is sent messages of the mailboxes it opened and of no other.
Isolation == \A c \in Conns : \A m \in got[c] : boxOf[m] \in opened[c]

\* When the task of a connection that opened once has ended, no mailbox still
\* counts its socket among the subscribers.
EndedUnsubscribed ==
    \A c \in Conns : pc[c] = "done" /\ opens[c] <= 1 =>
        \A b \in Boxes : c \notin subs[b]

\* Clients draw their sides at random: no two connections share one.
PrivateSides ==
    \A c, d \in Conns : c # d => SidesOf[c] \cap SidesOf[d] = {}

\* As long as sides are private, the mailbox a connection has open exists:
\* another client's close never deletes it ("Delete mailbox if empty").
OpenMailboxExists ==
    PrivateSides => \A c \in Conns :
        conn[c].mailbox # None => conn[c].mailbox \in DOMAIN mailboxes

\* Two clients that hold the same nameplate were told the same mailbox, the
\* purpose of the server.  It needs private sides, and clients that claim
\* allocated numbers only: see AllocatedIsNew.
AgreeOnMailbox ==
    PrivateSides /\ ~ClaimUnallocated =>
        \A c, d \in Conns :
            conn[c].nameplate = conn[d].nameplate => conn[c].told = conn[d].told

\* "allocate: request new nameplate": an allocated number is not one that a
\* client holds already.
AllocatedIsNew ==
    [][nextNameplate' # nextNameplate => nextNameplate \notin DOMAIN nameplates]_vars

\* What is owed to a connection is sent to it, unless its socket closes: a slow
\* or broken subscriber delays the others but never cuts them off.
OwedIsDelivered ==
    \A c \in Conns : \A m \in MsgIds :
        Owed(c, m) ~> (m \in got[c] \/ ~alive[c])

\* The task of a closed socket ends, whatever handler it is in.
ClosedTaskEnds ==
    \A c \in Conns : (~alive[c] /\ pc[c] # "off") ~> pc[c] = "done"

----------------------------------------------------------------------------
(* The inductive invariant behind NoLostMessage, AtMostOnce and Isolation. *)

\* A message is in one mailbox only, and an unused number is nowhere.
Numbering ==
    /\ \A b \in DOMAIN mailboxes : \A m \in mailboxes[b].messages :
         m < nextMsg /\ boxOf[m] = b
    /\ \A c \in Conns : \A m \in got[c] \cup replay[c] : m < nextMsg
    /\ \A c \in Conns : pc[c] = "notify" =>
         posting[c] < nextMsg /\ boxOf[posting[c]] # None

\* No two tasks notify about the same message.
OneSender ==
    \A c, d \in Conns :
        c # d /\ pc[c] = "notify" /\ pc[d] = "notify" => posting[c] # posting[d]

\* A connection is subscribed to, and owed and sent messages of, mailboxes it
\* opened.
OnlyOpened ==
    \A c \in Conns :
        /\ \A b \in Boxes : c \in subs[b] => b \in opened[c]
        /\ \A m \in got[c] \cup replay[c] : boxOf[m] \in opened[c]
        /\ \A d \in Conns : c \in fanout[d] => boxOf[posting[d]] \in opened[c]
        /\ opens[c] = 0 => opened[c] = {}
        /\ pc[c] = "off" => opens[c] = 0

\* What is owed to a connection that opened once was not sent to it yet, and
\* is owed to it by one task only.
OwedOnce ==
    \A c \in Conns : opens[c] <= 1 =>
        /\ twice[c] = {}
        /\ replay[c] \cap got[c] = {}
        /\ \A d \in Conns : c \in fanout[d] => posting[d] \notin got[c] \cup replay[c]

DeliveryInv ==
    TypeOK /\ Numbering /\ OneSender /\ OnlyOpened /\ OwedOnce /\ NoLostMessage

----------------------------------------------------------------------------
(* The inductive invariant behind EndedUnsubscribed, OpenMailboxExists and  *)
(* AgreeOnMailbox.                                                         *)

\* A connection that opened once is subscribed to the mailbox of its
\* client_state, and one whose task ended has none.
Subscribed ==
    \A c \in Conns :
        /\ opens[c] = 0 => \A b \in Boxes : c \notin subs[b]
        /\ opens[c] <= 1 => \A b \in Boxes : c \in subs[b] => conn[c].mailbox = b
        /\ pc[c] = "done" => conn[c].mailbox = None

\* The side a connection speaks for is its own, or None before it is bound.
OwnSides(c) == SidesOf[c] \cup {None}
SideBound == \A c \in Conns : conn[c].side \in OwnSides(c)

\* An open mailbox has a side of the client, which no other client discards.
MailboxHeld ==
    \A c \in Conns : conn[c].mailbox # None =>
        /\ conn[c].mailbox \in DOMAIN mailboxes
        /\ mailboxes[conn[c].mailbox].sides \cap OwnSides(c) # {}

\* So does a claimed nameplate, whose mailbox is the one the client was told;
\* the counter is beyond all nameplates.
NameplateHeld ==
    /\ \A c \in Conns :
         /\ conn[c].nameplate = None => conn[c].told = None
         /\ conn[c].nameplate # None =>
              /\ conn[c].nameplate \in DOMAIN nameplates
              /\ nameplates[conn[c].nameplate].sides \cap OwnSides(c) # {}
              /\ nameplates[conn[c].nameplate].mailbox = conn[c].told
    /\ \A n \in DOMAIN nameplates : n < nextNameplate

RendezvousInv ==
    /\ TypeOK /\ Subscribed /\ SideBound
    /\ PrivateSides => MailboxHeld
    /\ PrivateSides /\ ~ClaimUnallocated => NameplateHeld
=============================================================================
