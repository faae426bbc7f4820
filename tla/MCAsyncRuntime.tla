---- MODULE MCAsyncRuntime ----
(* Model-checking instance of AsyncRuntime: a few futures are enough for   *)
(* one to be in the snapshot, one inside the adapter and one queued.       *)
EXTENDS AsyncRuntime
====
