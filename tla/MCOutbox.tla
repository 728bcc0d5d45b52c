------------------------------ MODULE MCOutbox ------------------------------
(* A phone with two tickets, whose flushes may overlap. *)
EXTENDS Outbox, TLC

CallsOfFlush == Permutations(Flush)
=============================================================================
