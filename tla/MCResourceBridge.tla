---- MODULE MCResourceBridge ----
(* Model-checking instance of ResourceBridge: two threads, two paths,     *)
(* three fetches, so that a fetch may follow one that timed out.            *)
EXTENDS ResourceBridge
====
