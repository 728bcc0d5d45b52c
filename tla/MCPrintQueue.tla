---------------------------- MODULE MCPrintQueue ----------------------------
(***************************************************************************)
(* Small instances of PrintQueue.                                          *)
(***************************************************************************)
EXTENDS PrintQueue, TLC

Workers == Permutations(Worker)

=============================================================================
