------------------------------ MODULE MCHotReload ------------------------------
(* HotReload for TLC: the instances are interchangeable, and so are the workers;  *)
(* of two scripts the second is sandboxed.                                        *)
EXTENDS HotReload

CONSTANT Boxed      \* the sandboxed scripts

MCPolicy == [s \in Paths |-> IF s \in Boxed THEN CHOOSE c \in Caps : c # Trusted ELSE Trusted]
Interchangeable == Permutations(Insts) \cup Permutations(Workers)
=============================================================================
