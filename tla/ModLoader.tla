-------------------------------- MODULE ModLoader --------------------------------
(***************************************************************************)
(* ModLoader::load_mod_directory(): the configurations of a directory are  *)
(* read and their scripts registered as sandboxed, the mods are sorted by  *)
(* their dependencies (topo_sort(), a search with three marks), and        *)
(* on_loaded is called for each in that order. It runs on one thread; how  *)
(* a registration meets the compilations of other threads is the module    *)
(* SandboxPolicy (ModRegisters).                                           *)
(***************************************************************************)
EXTENDS FiniteSets, Naturals, SequencesExt

CONSTANTS
    Files, NoFile,   \* the configurations in the directory; none
    Mods, ModOf,     \* names, and the name of the script of each configuration
    Missing, Bad,    \* dependencies without a configuration, and malformed names
    MaxDeps          \* bound on the dependencies of a mod

ASSUME LoaderAssumption ==
    /\ ModOf \in [Files -> Mods] /\ NoFile \notin Files /\ MaxDeps \in Nat
    /\ Missing \cap Mods = {} /\ Bad \cap (Mods \cup Missing) = {}

VARIABLES
    phase,        \* "scan", "sort", "load", "done" or "aborted"
    unread,       \* configurations not read yet
    accepted,     \* history: those accepted
    configs,      \* configs: the configuration of each mod, or NoFile
    boxed,        \* history: the scripts registered as sandboxed
    deps,         \* dep_graph
    roots,        \* mods topo_sort() has still to visit
    state,        \* its marks: 0, 1 (entered) or 2 (left)
    visits,       \* the visits under way: node, and dependencies not looked at yet
    order,        \* the sorted mods
    cycle,        \* the sort has failed
    loaded        \* history: the mods on_loaded was called for

sortVars == <<roots, state, visits, order, cycle>>
vars == <<phase, unread, accepted, configs, boxed, deps, sortVars, loaded>>

Nodes == Mods \cup Missing
DepNames == Nodes \cup Bad
Visit == [node : Nodes, rest : SUBSET DepNames]
Known == {m \in Mods : configs[m] # NoFile}

TypeOK ==
    /\ phase \in {"scan", "sort", "load", "done", "aborted"}
    /\ unread \subseteq Files /\ boxed \subseteq accepted
    /\ accepted \subseteq Files \ unread
    /\ \A m \in Mods : configs[m] \in {NoFile} \cup {f \in accepted : ModOf[f] = m}
    /\ deps \in [Mods -> SUBSET DepNames] /\ roots \subseteq Mods
    /\ state \in [Nodes -> 0..2]
    /\ visits \in Seq(Visit) /\ order \in Seq(Nodes) /\ cycle \in BOOLEAN
    /\ loaded \in Seq(Mods)
    /\ phase \in {"scan", "load", "done", "aborted"} => visits = <<>>

Init ==
    /\ phase = "scan" /\ unread = Files /\ accepted = {}
    /\ configs = [m \in Mods |-> NoFile] /\ boxed = {}
    /\ deps = [m \in Mods |-> {}] /\ roots = {} /\ state = [n \in Nodes |-> 0]
    /\ visits = <<>> /\ order = <<>> /\ cycle = FALSE /\ loaded = <<>>

-----------------------------------------------------------------------------
(* The scan *)

\* A file that cannot be parsed, without an entry or with an unsafe one is skipped.
Skip(f) ==
    /\ phase = "scan" /\ f \in unread
    /\ unread' = unread \ {f}
    /\ UNCHANGED <<phase, accepted, configs, boxed, deps, sortVars, loaded>>

\* The configuration takes the place of one read before under the same name; its
\* script is registered unless it asks for no sandbox or the trusted tier.
Accept(f, boxes) ==
    /\ phase = "scan" /\ f \in unread
    /\ unread' = unread \ {f} /\ accepted' = accepted \cup {f}
    /\ configs' = [configs EXCEPT ![ModOf[f]] = f]
    /\ boxed' = IF boxes THEN boxed \cup {f} ELSE boxed
    /\ UNCHANGED <<phase, deps, sortVars, loaded>>

-----------------------------------------------------------------------------
(* topo_sort() *)

\* The dependencies the files name are drawn here, where they are first used.
SortBegins ==
    /\ phase = "scan" /\ unread = {}
    /\ phase' = "sort"
    /\ \E g \in [Mods -> {d \in SUBSET DepNames : Cardinality(d) <= MaxDeps}] :
           /\ \A m \in Mods \ Known : g[m] = {}
           /\ deps' = g
    /\ roots' = Known
    /\ UNCHANGED <<unread, accepted, configs, boxed, state, visits, order, cycle, loaded>>

DepsOf(n) == IF n \in Mods THEN deps[n] ELSE {}

\* Fault: a node being visited is taken for one already visited.
Entered(n) == state[n] # 0

Left(n) == state[n] = 2

\* visit(n), called where `below' is what is left of the visits under way.
Visits(n, below) ==
    \/ /\ Left(n)
       /\ visits' = below
       /\ UNCHANGED <<state, cycle>>
    \/ /\ ~Left(n) /\ state[n] = 1
       /\ cycle' = TRUE /\ visits' = below
       /\ UNCHANGED state
    \/ /\ state[n] = 0
       /\ state' = [state EXCEPT ![n] = 1]
       /\ visits' = Append(below, [node |-> n, rest |-> DepsOf(n)])
       /\ UNCHANGED cycle

Sorting == phase = "sort" /\ ~cycle
top == Last(visits)

\* The loop over the graph, in the order of a hash table.
VisitRoot(n) ==
    /\ Sorting /\ visits = <<>> /\ n \in roots
    /\ roots' = roots \ {n}
    /\ Visits(n, visits)
    /\ UNCHANGED <<phase, unread, accepted, configs, boxed, deps, order, loaded>>

\* The visit under way, past its dependency d.
Past(d) == Append(Front(visits), [top EXCEPT !.rest = @ \ {d}])

VisitDep(d) ==
    /\ Sorting /\ visits # <<>> /\ d \in top.rest
    /\ IF d \in Bad THEN cycle' = TRUE /\ UNCHANGED <<state, visits>>
       ELSE Visits(d, Past(d))
    /\ UNCHANGED <<phase, unread, accepted, configs, boxed, deps, roots, order, loaded>>

\* Fault: the visit of a node ends before its dependencies were visited.
AnyTop == visits # <<>>

AllVisited == visits # <<>> /\ top.rest = {}

Leave ==
    /\ Sorting /\ AllVisited
    /\ state' = [state EXCEPT ![top.node] = 2]
    /\ order' = Append(order, top.node)
    /\ visits' = Front(visits)
    /\ UNCHANGED <<phase, unread, accepted, configs, boxed, deps, roots, cycle, loaded>>

\* A failed sort unwinds and returns nothing, and the load is given up.
Abort ==
    /\ phase = "sort" /\ cycle
    /\ phase' = "aborted" /\ order' = <<>> /\ visits' = <<>>
    /\ UNCHANGED <<unread, accepted, configs, boxed, deps, roots, state, cycle, loaded>>

Sorted ==
    /\ Sorting /\ roots = {} /\ visits = <<>>
    /\ phase' = "load"
    /\ UNCHANGED <<unread, accepted, configs, boxed, deps, sortVars, loaded>>

-----------------------------------------------------------------------------
(* The callbacks *)

\* A sorted name without a configuration is passed over.
LoadNext ==
    /\ phase = "load" /\ order # <<>>
    /\ order' = Tail(order)
    /\ loaded' = IF Head(order) \in Known THEN Append(loaded, Head(order)) ELSE loaded
    /\ UNCHANGED <<phase, unread, accepted, configs, boxed, deps, roots, state, visits,
                   cycle>>

LoadEnds ==
    /\ phase = "load" /\ order = <<>>
    /\ phase' = "done"
    /\ UNCHANGED <<unread, accepted, configs, boxed, deps, sortVars, loaded>>

Next ==
    \/ \E f \in Files : Skip(f) \/ \E boxes \in BOOLEAN : Accept(f, boxes)
    \/ SortBegins \/ Leave \/ Abort \/ Sorted \/ LoadNext \/ LoadEnds
    \/ \E n \in Mods : VisitRoot(n)
    \/ \E d \in DepNames : VisitDep(d)

Spec == Init /\ [][Next]_vars

-----------------------------------------------------------------------------
(* Properties *)

\* on_loaded is called for a mod at most once, and after everything it depends on that
\* has a configuration.
DependenciesFirst ==
    \A i \in DOMAIN loaded :
        /\ \A j \in DOMAIN loaded : loaded[j] = loaded[i] => j = i
        /\ \A d \in DepsOf(loaded[i]) \cap Known : \E j \in 1..i - 1 : loaded[j] = d

\* The dependency graph by itself: what can be reached from a node in at least a step
\* is in every set that holds the node's dependencies and those of its members.
Closed(S) == \A m \in S : DepsOf(m) \subseteq S
Reach(n) ==
    {d \in DepNames :
        \A S \in SUBSET DepNames : DepsOf(n) \subseteq S /\ Closed(S) => d \in S}
Unsortable == \E n \in Known : n \in Reach(n) \/ Reach(n) \cap Bad # {}

\* A directory is loaded as a whole or not at all: not at all exactly if some mod
\* depends on itself, however indirectly, or on a malformed name.
AllOrNothing ==
    /\ TypeOK
    /\ phase = "done" => Range(loaded) = Known /\ ~Unsortable
    /\ phase = "aborted" => loaded = <<>> /\ Unsortable
=============================================================================
