---- MODULE MCSandboxPolicy ----
(* Model-checking instance of SandboxPolicy: two threads compile two scripts *)
(* of one directory, with sidecar files that trust, restrict, and grant.     *)
EXTENDS SandboxPolicy

Line(k, v) == [key |-> k, val |-> v]
MCSidecars == {
    <<Line("allowed_caps", Caps), Line("sandbox", "trusted")>>,
    <<Line("sandbox", "quarantined"), Line("allowed_caps", Caps)>> }
====
