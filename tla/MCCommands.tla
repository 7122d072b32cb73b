----------------------------- MODULE MCCommands -----------------------------
(* Instances of the commands: a fallback client and a direct client of one   *)
(* WNS server, every tool, two files, two proxy channels, two connections,   *)
(* a bridge of every kind, two processes at the stores.                      *)
EXTENDS Commands, TLC

CONSTANTS c1, c2, r1, r2, k1, k2

\* c1 falls back from r1 to the server's relay r2, c2 has one relay or the other.
MCRelayLists == (c1 :> {<<r1, r2>>}) @@ (c2 :> {<<r1>>, <<r2>>})

MCMaxDown == <<2, 1>>
MCMaxUp == <<1, 0>>

\* The bytes of k1 come as one, two or three pieces; k2 sends none.
MCMaxBytes == (k1 :> 3) @@ (k2 :> 0)
=============================================================================
