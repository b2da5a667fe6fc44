------------------------------- MODULE Modules -------------------------------
(***************************************************************************)
(* The life of the add-on modules of a database: the buttons of the module *)
(* form (bin/addons/base/module/module.py) that mark modules to be         *)
(* installed, upgraded or removed, and the system upgrade                  *)
(* (bin/addons/__init__.py: load_modules, create_graph, load_module_graph, *)
(* the iteration of Graph) that carries the marks out, one commit after    *)
(* each package.  An exception or the death of the server may end an       *)
(* upgrade between any two commits.                                        *)
(*                                                                         *)
(* A start of the server loads the modules the same way, without the       *)
(* marks to install and to remove.                                         *)
(*                                                                         *)
(* Only the columns name and state of ir_module_module are modelled; data  *)
(* stands for the records a module owns through ir_model_data, but those   *)
(* it declared noupdate.                                                   *)
(***************************************************************************)
EXTENDS Naturals, Sequences, FiniteSets, SequencesExt

CONSTANTS
    Mod,        \* the modules the addons path offers
    DepGraphs   \* the dependencies they may declare (__terp__.py: 'depends')

ASSUME ModulesAssumption ==
    /\ IsFiniteSet(Mod)
    /\ DepGraphs \subseteq [Mod -> SUBSET Mod]

VARIABLES
    deps,       \* ir_module_module_dependency, and 'depends' in __terp__.py
    state,      \* ir_module_module.state
    data,       \* the modules whose records are in the database
    pool,       \* the modules whose objects the object pool holds
    pc,         \* where load_modules stands
    phase,      \* what it was called for
    packages,   \* create_graph: the queue of packages
    current,    \* create_graph: the packages not in the graph
    later,      \* create_graph: those deferred since the last success
    depth,      \* the graph: Node.depth of each node
    level,      \* Graph.__iter__: the level it is at
    todo,       \* Graph.__iter__: the nodes not yet yielded
    gone        \* load_modules: the removed modules yet to unlink

graphvars == <<packages, current, later, depth>>
walkvars == <<level, todo, gone>>
vars == <<deps, state, data, pool, pc, phase, graphvars, walkvars>>

States == {"uninstalled", "to install", "installed", "to upgrade", "to remove"}
In(set) == {m \in Mod : state[m] \in set}
Graph == DOMAIN depth

TypeOK ==
    /\ deps \in [Mod -> SUBSET Mod]
    /\ state \in [Mod -> States]
    /\ data \subseteq Mod /\ pool \subseteq Mod
    /\ pc \in {"idle", "done", "graph", "load", "remove"}
    /\ phase \in {"start", "upgrade", "reload"}
    /\ packages \in Seq(Mod)
    /\ current \subseteq Mod /\ later \subseteq Mod
    /\ Graph \subseteq Mod /\ depth \in [Graph -> Nat]
    /\ level \in Nat /\ todo \subseteq Graph /\ gone \subseteq Mod

-----------------------------------------------------------------------------
(* The buttons.  The form offers a button in the states the view lists.    *)

\* What a module needs, itself included: the least set closed under deps.
Needs(m) == {x \in Mod : \A S \in SUBSET Mod :
                m \in S /\ (\A y \in S : deps[y] \subseteq S) => x \in S}

\* Both walks recurse; a cycle in their way makes them raise.
NoCycle(set) == \A x \in set : \A d \in deps[x] : x \notin Needs(d)

\* state_upgrade goes from a module to those that depend on it, but not
\* through one that is marked already.
Dependants(m) == {x \in Mod : m \in deps[x]}
Reached(m) == {x \in Mod : \A S \in SUBSET Mod :
                m \in S /\ (\A y \in S : Dependants(y) \ In({"to upgrade"}) \subseteq S)
                => x \in S}

Press == pc \in {"idle", "done"} /\ pc' = "idle"
Mark(set, from, to) ==
    /\ state' = [m \in Mod |-> IF m \in set /\ state[m] = from THEN to ELSE state[m]]
    /\ UNCHANGED <<deps, data, pool, phase, graphvars, walkvars>>

\* button_install: state_change marks the module and all that it needs.
Install(m) ==
    /\ Press /\ state[m] = "uninstalled"
    /\ NoCycle(Needs(m))
    /\ Mark(Needs(m), "uninstalled", "to install")

InstallCancel(m) == Press /\ state[m] = "to install" /\ Mark({m}, "to install", "uninstalled")

\* button_uninstall refuses while a module that depends on it is in use.
Uninstall(m) ==
    /\ Press /\ state[m] = "installed"
    /\ Dependants(m) \subseteq In({"uninstalled", "to remove"})
    /\ Mark({m}, "installed", "to remove")

UninstallCancel(m) == Press /\ state[m] = "to remove" /\ Mark({m}, "to remove", "installed")

\* button_upgrade: state_upgrade marks the module and those that need it.
Upgrade(m) ==
    /\ Press /\ state[m] = "installed"
    /\ NoCycle(Reached(m))
    /\ Mark(Reached(m), "installed", "to upgrade")

UpgradeCancel(m) == Press /\ state[m] = "to upgrade" /\ Mark({m}, "to upgrade", "installed")

-----------------------------------------------------------------------------
(* create_graph: a queue of packages; one whose dependencies are not all   *)
(* in the graph goes back to the end, until a whole round has failed.      *)

\* Mutant: an upgrade lists what a start of the server does.
ListedLess(p) == In({"installed", "to upgrade", "to remove"})

\* load_modules: the modules to load.
Listed(p) ==
    In({"installed", "to upgrade", "to remove"}
        \cup (IF p = "upgrade" THEN {"to install"} ELSE {}))

\* A new pool, and the modules in the order the query returns them.
Load(p) ==
    /\ pc' = "graph" /\ phase' = p /\ pool' = {}
    /\ packages' \in SetToSeqs(Listed(p)')
    /\ current' = Listed(p)' /\ later' = {} /\ depth' = <<>>
    /\ level' = 0 /\ todo' = {} /\ gone' = {}

\* The system upgrade drops the pool and loads it with update_module.
StartUpgrade ==
    /\ pc \in {"idle", "done"}
    /\ UNCHANGED <<deps, state, data>>
    /\ Load("upgrade")

\* The server starts.
StartServer ==
    /\ pc \in {"idle", "done"}
    /\ UNCHANGED <<deps, state, data>>
    /\ Load("start")

\* Mutant: the loop never gives up.
NeverStuck == TRUE
Progress == later \subseteq current /\ later # current
InLoop == pc = "graph" /\ packages # <<>> /\ Progress
Package == Head(packages)

\* Graph.addNode: a node is one level below the deepest of its dependencies.
\* Mutant: below the shallowest.
DepthShallow(p) ==
    IF deps[p] = {} THEN 0
    ELSE 1 + (CHOOSE n \in {depth[d] : d \in deps[p]} : \A d \in deps[p] : n <= depth[d])
DepthOf(p) ==
    IF deps[p] = {} THEN 0
    ELSE 1 + (CHOOSE n \in {depth[d] : d \in deps[p]} : \A d \in deps[p] : n >= depth[d])

GraphAdd ==
    /\ InLoop
    /\ deps[Package] \subseteq Graph
    /\ Package \in current
    /\ later' = {} /\ current' = current \ {Package}
    /\ depth' = [m \in Graph \cup {Package} |-> IF m = Package THEN DepthOf(m) ELSE depth[m]]
    /\ packages' = Tail(packages)
    /\ UNCHANGED <<deps, state, data, pool, pc, phase, walkvars>>

\* Mutant: a package met before its dependencies is dropped.
GraphDrop ==
    /\ InLoop
    /\ ~ (deps[Package] \subseteq Graph)
    /\ later' = later \cup {Package}
    /\ packages' = Tail(packages)
    /\ UNCHANGED <<deps, state, data, pool, pc, phase, current, depth, walkvars>>

GraphDefer ==
    /\ InLoop
    /\ ~ (deps[Package] \subseteq Graph)
    /\ later' = later \cup {Package}
    /\ packages' = Append(Tail(packages), Package)
    /\ UNCHANGED <<deps, state, data, pool, pc, phase, current, depth, walkvars>>

\* Mutant: the packages whose dependencies are not met are walked too.
GraphEndAll ==
    /\ pc = "graph" /\ (packages = <<>> \/ ~ Progress)
    /\ pc' = "load" /\ level' = 0 /\ todo' = Graph \cup current
    /\ UNCHANGED <<deps, state, data, pool, phase, graphvars, gone>>

GraphEnd ==
    /\ pc = "graph" /\ (packages = <<>> \/ ~ Progress)
    /\ pc' = "load" /\ level' = 0 /\ todo' = Graph
    /\ UNCHANGED <<deps, state, data, pool, phase, graphvars, gone>>

-----------------------------------------------------------------------------
(* load_module_graph and the end of load_modules                           *)

\* Graph.__iter__ yields the nodes of a level, in the order of a dictionary.
AtLevel == {m \in todo : depth[m] = level}

\* A package is loaded, its data too if it is marked, and committed.
LoadPackage ==
    /\ pc = "load"
    /\ \E m \in AtLevel :
         /\ todo' = todo \ {m}
         /\ pool' = pool \cup {m}
         /\ IF state[m] \in {"to install", "to upgrade"}
            THEN data' = data \cup {m} /\ state' = [state EXCEPT ![m] = "installed"]
            ELSE UNCHANGED <<data, state>>
    /\ UNCHANGED <<deps, pc, phase, graphvars, level, gone>>

NextLevel ==
    /\ pc = "load" /\ todo # {} /\ AtLevel = {}
    /\ level' = level + 1
    /\ UNCHANGED <<deps, state, data, pool, pc, phase, graphvars, todo, gone>>

\* Mutant: the modules to remove are not looked up.
EndLoadKeep ==
    /\ pc = "load" /\ todo = {}
    /\ pc' = CASE phase = "start" -> "idle" [] phase = "upgrade" -> "remove" [] OTHER -> "done"
    /\ UNCHANGED <<deps, state, data, pool, phase, graphvars, level, todo, gone>>

EndLoad ==
    /\ pc = "load" /\ todo = {}
    /\ pc' = CASE phase = "start" -> "idle" [] phase = "upgrade" -> "remove" [] OTHER -> "done"
    /\ gone' = IF phase = "upgrade" THEN In({"to remove"}) ELSE {}
    /\ UNCHANGED <<deps, state, data, pool, phase, graphvars, level, todo>>

\* The records of a removed module are unlinked, and committed; if the pool
\* lacks one of their objects that raises, as in Crash.
Unlink ==
    /\ pc = "remove"
    /\ \E m \in gone : gone' = gone \ {m} /\ data' = data \ {m}
    /\ UNCHANGED <<deps, state, pool, pc, phase, graphvars, level, todo>>

\* The removed modules are marked, and the pool is loaded again without them.
Finish ==
    /\ pc = "remove" /\ gone = {}
    /\ state' = [m \in Mod |-> IF state[m] = "to remove" THEN "uninstalled" ELSE state[m]]
    /\ UNCHANGED <<deps, data>>
    /\ Load("reload")

\* An exception, or the end of the server: what was committed stays, and so
\* does the part of the pool that is loaded.
Crash ==
    /\ pc \in {"graph", "load", "remove"} /\ pc' = "idle"
    /\ packages' = <<>> /\ current' = {} /\ later' = {} /\ depth' = <<>>
    /\ level' = 0 /\ todo' = {} /\ gone' = {}
    /\ UNCHANGED <<deps, state, data, pool, phase>>

Init ==
    /\ deps \in DepGraphs
    /\ state = [m \in Mod |-> "uninstalled"]
    /\ data = {} /\ pool = {} /\ pc = "idle" /\ phase = "start"
    /\ packages = <<>> /\ current = {} /\ later = {} /\ depth = <<>>
    /\ level = 0 /\ todo = {} /\ gone = {}

Loading ==
    \/ GraphAdd \/ GraphDefer \/ GraphEnd
    \/ LoadPackage \/ NextLevel \/ EndLoad \/ Unlink \/ Finish

Next ==
    \/ \E m \in Mod :
         \/ Install(m) \/ InstallCancel(m)
         \/ Uninstall(m) \/ UninstallCancel(m)
         \/ Upgrade(m) \/ UpgradeCancel(m)
    \/ StartUpgrade \/ StartServer \/ Loading \/ Crash

Spec == Init /\ [][Next]_vars

\* The thread that loads the modules is scheduled.
FairSpec == Spec /\ WF_vars(Loading)

-----------------------------------------------------------------------------
(* Properties.                                                             *)

\* What create_graph should keep of a list: the packages all of whose
\* dependencies, and theirs, are in the list and in no cycle.
Loadable(list) ==
    {m \in list : \A S \in SUBSET Mod :
        (\A x \in list : deps[x] \subseteq S => x \in S) => m \in S}

\* The queue of create_graph, in whatever order it begins, ends with the
\* graph of exactly the packages whose dependencies can all be met.
GraphIsComplete == pc = "load" => Graph = Loadable(Graph \cup current)

\* Modules are loaded after all they depend on: when a package is loaded the
\* objects of its dependencies are in the pool, and when its data is written
\* what its dependencies were marked for has been carried out, whatever marks
\* were cancelled and whatever upgrades died between two packages.
LoadedInOrder ==
    [][/\ \A m \in pool' \ pool : deps[m] \subseteq pool
       /\ \A m \in data' \ data :
            deps[m] \cap In({"uninstalled", "to install", "to upgrade"}) = {}]_vars

\* A module that is not installed, or only about to be, has no data left in
\* the database, even if an upgrade died halfway.
UninstalledHasNoData == data \cap In({"uninstalled", "to install"}) = {}

\* An upgrade that ends has carried out every mark it could: no module is
\* left to remove, and one is left to install or upgrade only if something it
\* needs is neither installed nor about to be.
MarksCarriedOut ==
    pc = "done" =>
        /\ In({"to remove"}) = {}
        /\ In({"to install", "to upgrade"}) \cap Loadable(In(States \ {"uninstalled"})) = {}

\* Loading the modules comes to an end or dies, also when the dependencies of
\* some can never be met.
LoadingEnds == pc = "graph" ~> pc \in {"idle", "done"}

\* Once an upgrade is over no installed module is left without one it depends
\* on: "The module you are trying to remove depends on installed modules" is
\* why button_uninstall refuses.
NoOrphan ==
    pc = "done" =>
        \A m \in In({"installed"}) : deps[m] \subseteq In({"installed", "to upgrade"})
=============================================================================
