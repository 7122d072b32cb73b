----------------------------- MODULE Broadcast -----------------------------
(***************************************************************************)
(* What the mailbox server promises to clients that open a mailbox once:   *)
(* whatever is posted in a mailbox is sent exactly once to every member    *)
(* that stays, the earlier messages that the mailbox still keeps included. *)
(* It says nothing of tasks, sockets, sides, or of who sends when.         *)
(***************************************************************************)
EXTENDS Naturals

CONSTANTS
    Conns, Boxes,
    MaxMsgs      \* bound: messages are 1..MaxMsgs

VARIABLES
    status,      \* of a connection: "new", "open", "gone"
    member,      \* member[c]: the mailboxes c receives the messages of
    kept,        \* kept[b]: the messages mailbox b keeps
    due,         \* due[c]: messages that must still be sent to c
    sent,        \* sent[c]: messages that were
    posted       \* how many messages were posted

bvars == <<status, member, kept, due, sent, posted>>

Msgs == 1..MaxMsgs

Init ==
    /\ status = [c \in Conns |-> "new"]
    /\ member = [c \in Conns |-> {}]
    /\ kept = [b \in Boxes |-> {}]
    /\ due = [c \in Conns |-> {}]
    /\ sent = [c \in Conns |-> {}]
    /\ posted = 0

Arrive(c) ==
    /\ status[c] = "new"
    /\ status' = [status EXCEPT ![c] = "open"]
    /\ UNCHANGED <<member, kept, due, sent, posted>>

\* Some open connections close; others never notice.
Depart ==
    /\ status' \in [Conns -> {"new", "open", "gone"}]
    /\ \A c \in Conns : status'[c] # status[c] =>
         status[c] = "open" /\ status'[c] = "gone"
    /\ UNCHANGED <<member, kept, due, sent, posted>>

\* A new member is owed what the mailbox keeps.
Join(c, b) ==
    /\ status[c] # "new"
    /\ member' = [member EXCEPT ![c] = @ \cup {b}]
    /\ due' = [due EXCEPT ![c] = @ \cup kept[b]]
    /\ UNCHANGED <<status, kept, sent, posted>>

\* Every member is owed a new message, the sender as well.
Post(b) ==
    /\ posted < MaxMsgs
    /\ posted' = posted + 1
    /\ kept' = [kept EXCEPT ![b] = @ \cup {posted + 1}]
    /\ due' = [c \in Conns |-> IF b \in member[c] THEN due[c] \cup {posted + 1}
                               ELSE due[c]]
    /\ UNCHANGED <<status, member, sent>>

\* What is owed is sent, once.
Send(c, m) ==
    /\ status[c] = "open"
    /\ m \in due[c] \ sent[c]
    /\ sent' = [sent EXCEPT ![c] = @ \cup {m}]
    /\ due' = [due EXCEPT ![c] = @ \ {m}]
    /\ UNCHANGED <<status, member, kept, posted>>

\* A member leaves; what it is owed already is still sent.  The mailbox may
\* go with it.
Leave(c, b) ==
    /\ member' = [member EXCEPT ![c] = @ \ {b}]
    /\ kept' \in {kept, [kept EXCEPT ![b] = {}]}
    /\ UNCHANGED <<status, due, sent, posted>>

\* Only a connection that is gone loses what it is owed.
Forget(c) ==
    /\ status[c] = "gone"
    /\ \E D \in SUBSET due[c] : due' = [due EXCEPT ![c] = D]
    /\ \E B \in SUBSET member[c] : member' = [member EXCEPT ![c] = B]
    /\ UNCHANGED <<status, kept, sent, posted>>

Next ==
    \/ Depart
    \/ \E c \in Conns : Arrive(c) \/ Forget(c)
    \/ \E c \in Conns, b \in Boxes : Join(c, b) \/ Leave(c, b)
    \/ \E b \in Boxes : Post(b)
    \/ \E c \in Conns, m \in Msgs : Send(c, m)

Spec == Init /\ [][Next]_bvars
=============================================================================
