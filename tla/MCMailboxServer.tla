-------------------------- MODULE MCMailboxServer --------------------------
(* TLC instances of MailboxServer.                                         *)
EXTENDS MailboxBroadcast, TLC

CONSTANTS c1, c2, c3, s1, s2, s3

\* Every connection draws its own side.
MCPrivate ==
    [c \in Conns |-> CASE c = c1 -> {s1} [] c = c2 -> {s2} [] OTHER -> {s3}]

\* The side of p's image of the connection that owns the side s.
MCImage(p, s) == CHOOSE t \in Sides :
    \E c \in Conns : s \in MCPrivate[c] /\ t \in MCPrivate[p[c]]

\* A connection together with its side may be exchanged for another pair, and
\* a mailbox id for another.
MCSymmetry ==
    Permutations(Boxes) \cup
    {[x \in Conns \cup Sides |-> IF x \in Conns THEN p[x] ELSE MCImage(p, x)] :
        p \in Permutations(Conns)}
=============================================================================
