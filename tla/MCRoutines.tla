----------------------------- MODULE MCRoutines -----------------------------
(* Small instances of Routines. *)
EXTENDS Routines
=============================================================================
