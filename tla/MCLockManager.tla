--------------------------- MODULE MCLockManager ---------------------------
(* Small instances of LockManager. *)
EXTENDS LockManager
=============================================================================
