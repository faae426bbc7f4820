---- MODULE MCCrossInherit ----
(* Model-checking instance of CrossInherit: two scripts, a .poly and a .gd  *)
(* base in every inheritance relation, and one registration meanwhile.      *)
EXTENDS CrossInherit
====
