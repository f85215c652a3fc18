-------------------------- MODULE MCSQLiteBackend --------------------------
(* A small instance of SQLiteBackend: callers are model values. *)
EXTENDS SQLiteBackend

CONSTANTS w1, w2, r1
=============================================================================
