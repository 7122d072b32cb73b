-------------------------- MODULE MailboxBroadcast --------------------------
(***************************************************************************)
(* The server of MailboxServer implements Broadcast, for clients that open *)
(* one mailbox once.                                                       *)
(***************************************************************************)
EXTENDS MailboxServer

ASSUME OpensAssumption == MaxOpens <= 1

\* The refinement mapping: what a task still has to do is what is owed.
statusOf == [c \in Conns |-> IF pc[c] = "off" THEN "new"
                             ELSE IF alive[c] THEN "open" ELSE "gone"]
memberOf == [c \in Conns |-> {b \in Boxes : c \in subs[b]}]
keptOf   == [b \in Boxes |-> BoxNow(b).messages]
dueTo    == [c \in Conns |-> {m \in MsgIds : Owed(c, m)}]

B == INSTANCE Broadcast WITH
        status <- statusOf, member <- memberOf, kept <- keptOf,
        due <- dueTo, sent <- got, posted <- nextMsg - 1

\* Every step of the server, whatever its tasks interleave, is a step of the
\* broadcast it promises or changes nothing of it: a message owed to a client
\* that stays is never dropped, and never sent twice or by anything but its
\* own mailbox.
ImplementsBroadcast == B!Spec
=============================================================================
