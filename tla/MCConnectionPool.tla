-------------------------- MODULE MCConnectionPool --------------------------
(* The pool for TLC: the constants are in ConnectionPool.cfg.                *)
EXTENDS ConnectionPool

=============================================================================
