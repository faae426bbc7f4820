----------------------------- MODULE MCCompileCache -----------------------------
(* The cache and its clients for TLC: the threads are interchangeable. *)
EXTENDS CacheClients, TLC

Interchangeable == Permutations(Callers)
=============================================================================
