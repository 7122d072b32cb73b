--------------------------- MODULE MCRateLimiter ---------------------------
(* TLC instances of RateLimiter.                                           *)
EXTENDS RateLimiter, TLC

CONSTANTS s1, s2, s3, alice, ip1

\* Two clients of one identity, two clients behind one address.
MCIdOf == [s \in Sessions |-> IF s = s2 THEN None ELSE alice]
MCIpOf == [s \in Sessions |-> IF s = s3 THEN None ELSE ip1]

MCPolicy ==
    [s \in Sessions |->
        [perMinute |-> IF s = s1 THEN 1 ELSE 0, rate |-> 1, maxConc |-> 2, maxPerId |-> 1,
         maxDay |-> 1, maxMonth |-> 2]]

============================================================================
