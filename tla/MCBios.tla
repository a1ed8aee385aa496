------------------------------- MODULE MCBios -------------------------------
(* Small instances of Bios. *)
EXTENDS Bios
=============================================================================
