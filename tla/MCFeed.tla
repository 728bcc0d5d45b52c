------------------------------- MODULE MCFeed -------------------------------
(***************************************************************************)
(* Small instances of Feed.                                                *)
(***************************************************************************)
EXTENDS Feed

=============================================================================
