----------------------------- MODULE MCDhtNode -----------------------------
(* Small instances of the DHT.                                             *)
EXTENDS DhtNode, TLC

CONSTANTS a, s, k1, k2, p1, l1

MCOwner == [t \in {p1, l1} |-> a]
MCKeysOf == p1 :> {k1} @@ l1 :> {k2}
MCLives == a :> 2 @@ s :> 1
MCStatic == [n \in {a, s} |-> {}]
MCFound == a :> {s} @@ s :> {}
=============================================================================
