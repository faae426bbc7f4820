---- MODULE MCSignalBus ----
(* Model-checking instance of SignalBus: two callables and a native        *)
(* listener on one signal, and a queue of two, so that the third emission  *)
(* of a frame is dropped.                                                  *)
EXTENDS SignalBus
====
