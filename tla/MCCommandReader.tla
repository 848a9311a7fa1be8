-------------------------- MODULE MCCommandReader --------------------------
(* CommandReader with two commands of up to two literals each. *)
EXTENDS CommandReader
=============================================================================
