------------------------------ MODULE MCDaemon ------------------------------
(* One connection of one listener, whose peer sends three bytes. *)
EXTENDS Daemon, TLC

CONSTANT k1

MCMaxBytes == k1 :> 3
=============================================================================
