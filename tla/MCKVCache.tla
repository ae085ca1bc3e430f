------------------------------ MODULE MCKVCache -----------------------------
(* A small instance of KVCache.  Threads are interchangeable, but liveness *)
(* is checked, so no symmetry is used.                                     *)
EXTENDS KVCache
=============================================================================
