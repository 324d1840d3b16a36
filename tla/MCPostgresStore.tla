---------------------------- MODULE MCPostgresStore ----------------------------
(* Small instances of PostgresStore for TLC. *)
EXTENDS PostgresStore, TLC

CONSTANTS t1, t2
================================================================================
