------------------------------ MODULE SandboxPolicy ------------------------------
(***************************************************************************)
(* RuntimeManager's sandbox registrations and how a compilation comes by   *)
(* its policy: maybe_register_sidecar() looks for a .polylang_config file, *)
(* then is_sandboxed() and sandboxed_caps() route the compilation. Each is *)
(* a critical section of its own, on any thread that compiles; meanwhile   *)
(* the mod loader registers paths too, and the files may be edited. The    *)
(* base script that a file may name goes to PLCrossInherit, which the      *)
(* module CrossInherit models, and is left out.                            *)
(***************************************************************************)
EXTENDS Naturals, SequencesExt

CONSTANTS
    Threads, Paths,      \* threads that compile, scripts (of one directory)
    Caps,                \* the capability bits
    Sidecars,            \* contents of .polylang_config files: sequences of lines
    NoFile,              \* in place of contents
    Unrestricted,        \* how a script without a registration is compiled
    MaxEdits             \* bound on edits of the files

ASSUME PolicyAssumption ==
    MaxEdits \in Nat /\ Paths # {} /\ \A c \in SUBSET Caps : c # Unrestricted

VARIABLES
    policy,       \* sandbox_map_: the allowed_caps of each registered path
    own, dir,     \* the file of each path and the one of the directory
    pc, at,       \* where each thread is, and the path it compiles
    parsed,       \* what it read from a file
    compiled,     \* the policy each script was last compiled under
    saw, calm,    \* history: whether the path was registered when the thread began,
                  \* and whether no file was edited since
    edits         \* history: number of edits

files == <<own, dir, edits>>
threads == <<pc, at, parsed, saw, calm>>
policyVars == <<policy, files, threads, compiled>>

Policies == SUBSET Caps
Nothing == [tier |-> "isolated", caps |-> {}]

-----------------------------------------------------------------------------
(* parse_sidecar_file(): a line sets the tier and with it the capabilities, *)
(* or adds capabilities.                                                   *)
ReadLine(out, line) ==
    IF line.key = "sandbox"
    THEN [tier |-> line.val, caps |-> IF line.val = "trusted" THEN Caps ELSE {}]
    ELSE [out EXCEPT !.caps = @ \cup line.val]

parse_sidecar_file(file) == FoldLeft(ReadLine, Nothing, file)

-----------------------------------------------------------------------------
PolicyTypeOK ==
    /\ DOMAIN policy \subseteq Paths
    /\ own \in [Paths -> {NoFile} \cup Sidecars] /\ dir \in {NoFile} \cup Sidecars
    /\ pc \in [Threads -> {"idle", "own", "dir", "register", "route", "caps"}]
    /\ at \in [Threads -> Paths] /\ DOMAIN parsed = Threads
    /\ DOMAIN compiled = Paths
    /\ saw \in [Threads -> BOOLEAN] /\ calm \in [Threads -> BOOLEAN]
    /\ edits \in 0..MaxEdits

PolicyInit ==
    /\ policy = <<>>
    /\ own \in [Paths -> {NoFile} \cup Sidecars] /\ dir \in {NoFile} \cup Sidecars
    /\ pc = [t \in Threads |-> "idle"]
    /\ at = [t \in Threads |-> CHOOSE p \in Paths : TRUE]
    /\ parsed = [t \in Threads |-> Nothing]
    /\ compiled = [p \in Paths |-> Unrestricted]
    /\ saw = [t \in Threads |-> FALSE] /\ calm = [t \in Threads |-> TRUE]
    /\ edits = 0

\* is_sandboxed()
Sandboxed(p) == p \in DOMAIN policy

\* Fault: a registration replaces the one before it.
Overwritten(p, caps) ==
    [q \in DOMAIN policy \cup {p} |-> IF q = p THEN caps ELSE policy[q]]

\* register_sandboxed_path(): the first registration stays.
Registered(p, caps) ==
    IF Sandboxed(p) THEN policy
    ELSE [q \in DOMAIN policy \cup {p} |-> IF q = p THEN caps ELSE policy[q]]

\* compile_internal(), compile_block() or the reload's compile task begins: a path that
\* is registered needs no file.
Begin(t, p) ==
    /\ pc[t] = "idle"
    /\ at' = [at EXCEPT ![t] = p]
    /\ pc' = [pc EXCEPT ![t] = IF Sandboxed(p) THEN "route" ELSE "own"]
    /\ saw' = [saw EXCEPT ![t] = Sandboxed(p)]
    /\ calm' = [calm EXCEPT ![t] = TRUE]
    /\ UNCHANGED <<policy, files, parsed, compiled>>

Goes(t, where) == pc' = [pc EXCEPT ![t] = where]

\* try_config() opens a file and reads it; a trusted script is not registered.
Read(t, file, missing) ==
    /\ LET p == parse_sidecar_file(file) IN
           IF file = NoFile THEN Goes(t, missing) /\ UNCHANGED parsed
           ELSE IF p.tier = "trusted" THEN Goes(t, "route") /\ UNCHANGED parsed
           ELSE Goes(t, "register") /\ parsed' = [parsed EXCEPT ![t] = p]
    /\ UNCHANGED <<policy, files, at, compiled, saw, calm>>

\* Fault: the file of the directory is not looked for.
OwnOnly(t) == pc[t] = "own" /\ Read(t, own[at[t]], "route")

ReadOwn(t) == pc[t] = "own" /\ Read(t, own[at[t]], "dir")
ReadDir(t) == pc[t] = "dir" /\ Read(t, dir, "route")

RegisterPath(t) ==
    /\ pc[t] = "register"
    /\ policy' = Registered(at[t], parsed[t].caps)
    /\ parsed' = [parsed EXCEPT ![t] = Nothing]
    /\ Goes(t, "route")
    /\ UNCHANGED <<files, at, compiled, saw, calm>>

\* ModLoader registers the script of a mod that asks for a sandbox; a quarantined mod
\* gets no capabilities.
ModRegisters(p, caps) ==
    /\ policy' = Registered(p, caps)
    /\ UNCHANGED <<files, threads, compiled>>

\* The script is compiled, and the thread done with it.
Compiles(t, how) ==
    /\ compiled' = [compiled EXCEPT ![at[t]] = how]
    /\ Goes(t, "idle")

\* is_sandboxed() decides between the two ways to compile.
Route(t) ==
    /\ pc[t] = "route"
    /\ IF Sandboxed(at[t]) THEN Goes(t, "caps") /\ UNCHANGED compiled
       ELSE Compiles(t, Unrestricted)
    /\ UNCHANGED <<policy, files, at, parsed, saw, calm>>

\* sandboxed_caps(), read in a critical section of its own.
ReadCaps(t) ==
    /\ pc[t] = "caps"
    /\ Compiles(t, IF Sandboxed(at[t]) THEN policy[at[t]] ELSE {})
    /\ UNCHANGED <<policy, files, at, parsed, saw, calm>>

\* The user writes or removes a file.
Edit ==
    /\ edits < MaxEdits
    /\ edits' = edits + 1
    /\ calm' = [t \in Threads |-> FALSE]
    /\ \E f \in Sidecars \cup {NoFile} :
           \/ dir' = f /\ UNCHANGED own
           \/ \E p \in Paths : own' = [own EXCEPT ![p] = f] /\ UNCHANGED dir
    /\ UNCHANGED <<policy, pc, at, parsed, compiled, saw>>

PolicyNext ==
    \/ \E t \in Threads :
           \/ \E p \in Paths : Begin(t, p)
           \/ ReadOwn(t) \/ ReadDir(t) \/ RegisterPath(t) \/ Route(t) \/ ReadCaps(t)
    \/ \E p \in Paths, caps \in Policies : ModRegisters(p, caps)
    \/ Edit

PolicySpec == PolicyInit /\ [][PolicyNext]_policyVars

-----------------------------------------------------------------------------
(* Properties *)

\* A script that was compiled sandboxed was compiled with what its path is registered
\* with, although the decision and the capabilities are read apart; so the destructor,
\* which computes the cache key again from the policy, finds it again.
SandboxedKeyFound ==
    \A p \in Paths :
        compiled[p] # Unrestricted => Sandboxed(p) /\ policy[p] = compiled[p]

Governing(p) == IF own[p] # NoFile THEN own[p] ELSE dir
Restricts(file) == file # NoFile /\ parse_sidecar_file(file).tier # "trusted"

\* A compilation that ends unrestricted began before its path was registered, and its
\* sidecar did not restrict it, unless a file was edited while it ran.
RoutedByPolicy ==
    [][\A t \in Threads : pc[t] = "route" /\ pc'[t] = "idle" =>
           /\ ~saw[t]
           /\ calm[t] => ~Restricts(Governing(at[t]))]_policyVars
=============================================================================
