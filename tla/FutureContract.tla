---------------------------- MODULE FutureContract ----------------------------
(***************************************************************************)
(* What PLAsyncRuntime promises a script about one future: it is pending   *)
(* until the runtime either settles it (the adapter reported a result or   *)
(* an error) or drops it (a cancel that came in time, or shutdown); a      *)
(* settled future is notified at most once, and a future that was dropped  *)
(* or notified never changes again.                                        *)
(* AsyncRuntime is shown to implement this specification.                  *)
(***************************************************************************)
CONSTANT Futures

VARIABLE promise

Stages == {"none", "pending", "settled", "notified", "dropped"}

TypeOK == promise \in [Futures -> Stages]

Init == promise = [f \in Futures |-> "none"]

Move(f, from, to) ==
    /\ promise[f] = from
    /\ promise' = [promise EXCEPT ![f] = to]

Submit(f) == Move(f, "none", "pending")

Settle(f) == Move(f, "pending", "settled")

Notify(f) == Move(f, "settled", "notified")

(* A cancel drops one pending future; stop() drops every future and every  *)
(* callback that has not been dispatched.                                  *)
Drop(S) ==
    /\ \A f \in S : promise[f] \in {"pending", "settled"}
    /\ promise' = [f \in Futures |-> IF f \in S THEN "dropped" ELSE promise[f]]

Next ==
    \/ \E f \in Futures : Submit(f) \/ Settle(f) \/ Notify(f)
    \/ \E S \in SUBSET Futures : Drop(S)

Spec == Init /\ [][Next]_promise

===============================================================================
