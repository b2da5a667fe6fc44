---------------------------- MODULE ModulesProofs ----------------------------
(***************************************************************************)
(* The safety of the module life cycle, for any finite set of modules and  *)
(* any dependencies among them, cycles and missing ones included.          *)
(* The argument: create_graph keeps a graph that is closed under           *)
(* dependencies and whose depths grow along them, and gives up only when   *)
(* every package left misses one; so a walk by levels meets a module after *)
(* all it depends on, and what it leaves marked could not be loaded.       *)
(***************************************************************************)
EXTENDS Modules, FiniteFacts, SequenceTheorems

\* The modules that are in use, or about to be or not to be.
InUse == In(States \ {"uninstalled"})

\* The queue of create_graph holds each package that is not in the graph
\* once, and those deferred since the last success still miss something.
Queue == pc = "graph" =>
    /\ \A i, k \in DOMAIN packages : packages[i] = packages[k] => i = k
    /\ Range(packages) = current
    /\ current \cap Graph = {} /\ later \subseteq current
    /\ \A m \in later : ~ (deps[m] \subseteq Graph)

\* What a node depends on is in the graph, above it.
Layers == \A m \in Graph : deps[m] \subseteq Graph /\ \A d \in deps[m] : depth[d] < depth[m]

\* The graph has nothing that is not loadable.
Least == \A S \in SUBSET Mod :
    (\A x \in Graph \cup current : deps[x] \subseteq S => x \in S) => Graph \subseteq S

\* The packages the graph was given up for miss something.
Stuck == pc = "load" => \A m \in current : ~ (deps[m] \subseteq Graph)

\* The walk goes down the levels, and what it has passed is in the pool and
\* has no mark to be installed or upgraded.
Walk == pc = "load" =>
    /\ \A m \in todo : depth[m] >= level
    /\ Graph \ todo \subseteq pool
    /\ (Graph \ todo) \cap In({"uninstalled", "to install", "to upgrade"}) = {}

\* An upgrade lists all the modules in use, the other phases some of them.
Lists == pc \in {"graph", "load"} =>
    /\ Graph \cup current \subseteq InUse
    /\ phase = "upgrade" => Graph \cup current = InUse

\* No records of what is not installed, and none but those still to unlink of
\* what is removed.
Records == UninstalledHasNoData /\ (pc = "remove" => data \cap In({"to remove"}) \subseteq gone)

\* After the upgrade proper no mark is left that could be carried out.
Reloads == pc = "done" \/ (pc \in {"graph", "load"} /\ phase = "reload")
Carried ==
    /\ Reloads => In({"to remove"}) = {}
    /\ Reloads \/ pc = "remove" => In({"to install", "to upgrade"}) \cap Loadable(InUse) = {}

IInv == TypeOK /\ Queue /\ Layers /\ Least /\ Stuck /\ Walk /\ Lists /\ Records /\ Carried

-----------------------------------------------------------------------------
(* Queues, and the empty graph                                               *)

\* What is left of a queue without repetitions when its head is taken, and
\* when that goes to its end.
LEMMA QueueTail ==
    ASSUME NEW S, NEW s \in Seq(S), s # <<>>,
           \A i, k \in DOMAIN s : s[i] = s[k] => i = k
    PROVE  /\ Head(s) \in Range(s) /\ Tail(s) \in Seq(S)
           /\ Range(Tail(s)) = Range(s) \ {Head(s)}
           /\ \A i, k \in DOMAIN Tail(s) : Tail(s)[i] = Tail(s)[k] => i = k
<1>1. /\ Head(s) = s[1] /\ 1 \in DOMAIN s /\ Tail(s) \in Seq(S)
      /\ DOMAIN Tail(s) = 1 .. Len(s) - 1 /\ DOMAIN s = 1 .. Len(s)
      /\ \A i \in DOMAIN Tail(s) : Tail(s)[i] = s[i + 1]
  OBVIOUS
<1>2. Len(s) \in Nat
  OBVIOUS
<1>3. \A i \in DOMAIN s : i # 1 => i - 1 \in DOMAIN Tail(s) /\ Tail(s)[i - 1] = s[i]
  BY <1>1, <1>2
<1>4. \A i \in DOMAIN Tail(s) : i + 1 \in DOMAIN s /\ i + 1 # 1
  BY <1>1, <1>2
<1>5. Range(Tail(s)) \subseteq Range(s) \ {Head(s)}
  BY <1>1, <1>4 DEF Range
<1>6. Range(s) \ {Head(s)} \subseteq Range(Tail(s))
  <2> SUFFICES ASSUME NEW i \in DOMAIN s, s[i] # Head(s) PROVE s[i] \in Range(Tail(s))
    BY DEF Range
  <2>1. i - 1 \in DOMAIN Tail(s) /\ Tail(s)[i - 1] = s[i]
    BY <1>1, <1>3
  <2> QED BY <2>1 DEF Range
<1>7. \A i, k \in DOMAIN Tail(s) : Tail(s)[i] = Tail(s)[k] => i = k
  <2> SUFFICES ASSUME NEW i \in DOMAIN Tail(s), NEW k \in DOMAIN Tail(s), Tail(s)[i] = Tail(s)[k]
               PROVE  i = k
    OBVIOUS
  <2>1. s[i + 1] = s[k + 1] /\ i + 1 \in DOMAIN s /\ k + 1 \in DOMAIN s
    BY <1>1, <1>4
  <2>2. i + 1 = k + 1
    BY <2>1
  <2> QED BY <2>2, <1>1, <1>2
<1>8. Head(s) \in Range(s)
  BY <1>1 DEF Range
<1> QED BY <1>1, <1>5, <1>6, <1>7, <1>8

\* A package put at the end of the queue.
LEMMA QueueAppend ==
    ASSUME NEW S, NEW s \in Seq(S), NEW e \in S, e \notin Range(s),
           \A i, k \in DOMAIN s : s[i] = s[k] => i = k
    PROVE  /\ Append(s, e) \in Seq(S)
           /\ Range(Append(s, e)) = Range(s) \cup {e}
           /\ \A i, k \in DOMAIN Append(s, e) : Append(s, e)[i] = Append(s, e)[k] => i = k
<1> DEFINE a == Append(s, e)
<1>1. /\ a \in Seq(S) /\ DOMAIN a = 1 .. Len(s) + 1 /\ DOMAIN s = 1 .. Len(s) /\ Len(s) \in Nat
      /\ \A i \in DOMAIN s : a[i] = s[i]
      /\ a[Len(s) + 1] = e
  OBVIOUS
<1> HIDE DEF a
<1>2. \A i \in DOMAIN a : i \in DOMAIN s \/ i = Len(s) + 1
  BY <1>1
<1>3. DOMAIN s \subseteq DOMAIN a /\ Len(s) + 1 \in DOMAIN a
  BY <1>1
<1>4. \A i \in DOMAIN s : s[i] # e
  BY DEF Range
<1>5. Range(a) = Range(s) \cup {e}
  BY <1>1, <1>2, <1>3 DEF Range
<1>6. \A i, k \in DOMAIN a : a[i] = a[k] => i = k
  BY <1>1, <1>2, <1>4
<1> QED BY <1>1, <1>5, <1>6 DEF a

\* A graph without a node.
LEMMA EmptyGraph == DOMAIN <<>> = {} /\ <<>> \in [{} -> Nat]
OBVIOUS

\* An order of a finite set has each of its elements once.
LEMMA Orders ==
    ASSUME NEW S, IsFiniteSet(S), NEW s \in SetToSeqs(S)
    PROVE  /\ s \in Seq(S) /\ Range(s) = S
           /\ \A i, k \in DOMAIN s : s[i] = s[k] => i = k
<1> DEFINE n == Cardinality(S)
<1>1. n \in Nat
  BY FS_CardinalityType
<1>2. s \in [1 .. n -> S] /\ \A i, k \in 1 .. n : i # k => s[i] # s[k]
  BY DEF SetToSeqs
<1>3. IsFiniteSet(1 .. n) /\ Cardinality(1 .. n) = n
  BY <1>1, FS_Interval
<1> HIDE DEF n
<1>4. s \in Injection(1 .. n, S)
  BY <1>2 DEF Injection, IsInjective
<1>5. s \in Surjection(1 .. n, S)
  BY <1>3, <1>4, FS_Injection DEF n
<1>6. s \in Seq(S)
  BY <1>1, <1>2
<1>7. Range(s) = S
  BY <1>2, <1>5 DEF Range, Surjection
<1> QED BY <1>2, <1>6, <1>7

-----------------------------------------------------------------------------
(* The operators of the model                                              *)

\* A node is put below all it depends on.
LEMMA DepthBelow ==
    ASSUME TypeOK, NEW p \in Mod, deps[p] \subseteq Graph
    PROVE  DepthOf(p) \in Nat /\ \A d \in deps[p] : depth[d] < DepthOf(p)
<1> USE ModulesAssumption DEF TypeOK, Graph
<1>1. CASE deps[p] = {}
  BY <1>1 DEF DepthOf
<1>2. CASE deps[p] # {}
  <2> DEFINE D == {depth[d] : d \in deps[p]}
             n == CHOOSE n \in D : \A d \in deps[p] : n >= depth[d]
  <2>1. IsFiniteSet(deps[p])
    BY FS_Subset
  <2>2. \A d \in deps[p] : depth[d] \in Nat
    OBVIOUS
  <2>3. \E x \in deps[p] : \A y \in deps[p] : depth[x] >= depth[y]
    <3> HIDE ModulesAssumption DEF TypeOK, Graph
    <3> QED BY <1>2, <2>1, <2>2, Deepest
  <2>4. \E m \in D : \A d \in deps[p] : m >= depth[d]
    BY <2>3
  <2>5. n \in D /\ \A d \in deps[p] : n >= depth[d]
    BY <2>4
  <2>6. n \in Nat /\ DepthOf(p) = 1 + n
    BY <1>2, <2>2, <2>5 DEF DepthOf
  <2> HIDE DEF n
  <2> QED BY <2>2, <2>5, <2>6
<1> QED BY <1>1, <1>2

\* Fewer packages in the list, fewer can be loaded.
LEMMA LoadableGrows ==
    ASSUME NEW A, NEW B, A \subseteq B
    PROVE  Loadable(A) \subseteq Loadable(B)
BY DEF Loadable

\* A graph that is closed under dependencies and least, and that nothing left
\* over could join, holds just what can be loaded.
LEMMA GraphIsLoadable ==
    ASSUME TypeOK, Layers, Least, \A m \in current : ~ (deps[m] \subseteq Graph)
    PROVE  Graph = Loadable(Graph \cup current)
<1>1. Graph \subseteq Loadable(Graph \cup current)
  BY DEF Least, Loadable
<1>2. Graph \in SUBSET Mod
  BY DEF TypeOK
<1>3. Loadable(Graph \cup current) \subseteq Graph
  BY <1>2 DEF Loadable
<1> QED BY <1>1, <1>3

-----------------------------------------------------------------------------
(* The inductive invariant, one lemma per action                           *)

\* The first state.
LEMMA InitInv == Init => IInv
<1> SUFFICES ASSUME Init PROVE IInv
  OBVIOUS
<1> USE ModulesAssumption DEF Init
<1>1. TypeOK
  BY DEF TypeOK, States, Graph
<1>2. Queue /\ Layers /\ Least /\ Stuck /\ Walk /\ Lists
  BY DEF Queue, Layers, Least, Stuck, Walk, Lists, Graph
<1>3. Records /\ Carried
  BY DEF Records, Carried, UninstalledHasNoData, Reloads
<1> QED BY <1>1, <1>2, <1>3 DEF IInv

\* A button marks modules while none is loaded; none makes a module that has
\* records one that should not have them.
LEMMA MarkInv ==
    ASSUME IInv, NEW set, NEW from \in States, NEW to \in States,
           to \in {"uninstalled", "to install"} => from \in {"uninstalled", "to install"},
           Press, Mark(set, from, to)
    PROVE  IInv'
<1> USE DEF IInv, Press, Mark, graphvars, walkvars
<1>1. TypeOK'
  BY DEF TypeOK, Graph
<1>2. Queue' /\ Stuck' /\ Walk' /\ Lists' /\ Carried'
  BY DEF Queue, Stuck, Walk, Lists, Carried, Reloads
<1>3. Layers' /\ Least'
  BY DEF Layers, Least, Graph
<1>4. Records'
  BY DEF Records, UninstalledHasNoData, In, TypeOK, States
<1> QED BY <1>1, <1>2, <1>3, <1>4

\* A loading begins with an empty graph and each module it lists queued once.
LEMMA LoadInv ==
    ASSUME TypeOK, NEW p \in {"start", "upgrade", "reload"}, Load(p), UNCHANGED deps,
           state' \in [Mod -> States], data' \subseteq Mod, UninstalledHasNoData',
           p = "reload" => /\ In({"to remove"})' = {}
                           /\ (In({"to install", "to upgrade"}) \cap Loadable(InUse))' = {}
    PROVE  IInv'
<1> PICK list : list = Listed(p)'
  OBVIOUS
<1>1. /\ pc' = "graph" /\ phase' = p /\ pool' = {} /\ packages' \in SetToSeqs(list)
      /\ current' = list /\ later' = {} /\ depth' = <<>>
      /\ level' = 0 /\ todo' = {} /\ gone' = {}
  BY DEF Load
<1>2. list \subseteq Mod /\ IsFiniteSet(list)
  BY ModulesAssumption, FS_Subset DEF Listed, In
<1>3. list \subseteq InUse' /\ (p = "upgrade" => list = InUse')
  BY DEF Listed, In, InUse, States
<1>4. /\ packages' \in Seq(list) /\ Range(packages)' = list
      /\ \A i, k \in DOMAIN packages' : packages'[i] = packages'[k] => i = k
  BY <1>1, <1>2, Orders
<1>5. packages' \in Seq(Mod)
  BY <1>2, <1>4, SeqMonotonic
<1>6. (depth \in [{} -> Nat] /\ Graph = {})'
  BY <1>1, EmptyGraph DEF Graph
<1>7. TypeOK'
  BY <1>1, <1>2, <1>5, <1>6 DEF TypeOK
<1>8. Queue' /\ Layers' /\ Least' /\ Stuck' /\ Walk' /\ Lists'
  <2>1. Queue'
    BY <1>1, <1>4, <1>6 DEF Queue
  <2>2. Layers' /\ Least' /\ Stuck' /\ Walk'
    BY <1>1, <1>6 DEF Layers, Least, Stuck, Walk
  <2>3. Lists'
    BY <1>1, <1>3, <1>6 DEF Lists
  <2> QED BY <2>1, <2>2, <2>3
<1>9. Records' /\ Carried'
  BY <1>1 DEF Records, Carried, Reloads
<1> QED BY <1>7, <1>8, <1>9 DEF IInv

\* An upgrade that starts has loaded nothing.
LEMMA StartUpgradeInv == IInv /\ StartUpgrade => IInv'
<1> SUFFICES ASSUME IInv, StartUpgrade PROVE IInv'
  OBVIOUS
<1>1. UninstalledHasNoData'
  BY DEF IInv, StartUpgrade, Records, UninstalledHasNoData, In
<1> QED BY <1>1, LoadInv DEF IInv, StartUpgrade, TypeOK

\* Nor has a server that starts.
LEMMA StartServerInv == IInv /\ StartServer => IInv'
<1> SUFFICES ASSUME IInv, StartServer PROVE IInv'
  OBVIOUS
<1>1. UninstalledHasNoData'
  BY DEF IInv, StartServer, Records, UninstalledHasNoData, In
<1> QED BY <1>1, LoadInv DEF IInv, StartServer, TypeOK

\* What is left marked for an installation could not be loaded with the
\* removed modules either.
LEMMA FinishInv == IInv /\ Finish => IInv'
<1> SUFFICES ASSUME IInv, Finish PROVE IInv'
  OBVIOUS
<1>1. /\ state' = [m \in Mod |-> IF state[m] = "to remove" THEN "uninstalled" ELSE state[m]]
      /\ pc = "remove" /\ gone = {} /\ UNCHANGED <<deps, data>> /\ Load("reload")
      /\ state \in [Mod -> States] /\ data \subseteq Mod /\ TypeOK
  BY DEF Finish, IInv, TypeOK
<1>2. state' \in [Mod -> States]
  BY <1>1 DEF States
<1>3. UninstalledHasNoData'
  <2>1. data \cap In({"to remove"}) = {} /\ UninstalledHasNoData
    BY <1>1 DEF IInv, Records
  <2> QED BY <1>1, <2>1 DEF UninstalledHasNoData, In
<1>4. In({"to remove"})' = {}
  BY <1>1 DEF In
<1>5. InUse' \subseteq InUse /\ In({"to install", "to upgrade"})' = In({"to install", "to upgrade"})
  BY <1>1 DEF InUse, In, States
<1>6. Loadable(InUse') = Loadable(InUse)'
  BY <1>1 DEF Loadable
<1>7. (In({"to install", "to upgrade"}) \cap Loadable(InUse))' = {}
  <2>1. Loadable(InUse') \subseteq Loadable(InUse)
    BY <1>5, LoadableGrows
  <2>2. In({"to install", "to upgrade"}) \cap Loadable(InUse) = {}
    BY <1>1 DEF IInv, Carried
  <2> QED BY <2>1, <2>2, <1>5, <1>6
<1> QED BY <1>1, <1>2, <1>3, <1>4, <1>7, LoadInv

\* A node joins the graph: what it depends on is there, above it, and what
\* remains is queued as before.
LEMMA GraphAddInv == IInv /\ GraphAdd => IInv'
<1> SUFFICES ASSUME IInv, GraphAdd PROVE IInv'
  OBVIOUS
<1> DEFINE p == Package
<1>1. /\ p = Head(packages) /\ packages \in Seq(Mod) /\ packages # <<>> /\ pc = "graph"
      /\ deps[p] \subseteq Graph /\ p \in current /\ p \in Mod
      /\ later' = {} /\ current' = current \ {p} /\ packages' = Tail(packages)
      /\ depth' = [m \in Graph \cup {p} |-> IF m = p THEN DepthOf(m) ELSE depth[m]]
      /\ UNCHANGED <<deps, state, data, pool, pc, phase, level, todo, gone>>
      /\ TypeOK /\ Queue /\ Layers /\ Least
  BY DEF IInv, GraphAdd, InLoop, Package, TypeOK, walkvars
<1>2. p \notin Graph /\ Graph' = Graph \cup {p} /\ Graph' \cup current' = Graph \cup current
  BY <1>1 DEF Queue, Graph
<1>3. DepthOf(p) \in Nat /\ \A d \in deps[p] : depth[d] < DepthOf(p)
  BY <1>1, DepthBelow
<1>4. depth'[p] = DepthOf(p) /\ \A m \in Graph : depth'[m] = depth[m]
  BY <1>1, <1>2
<1>5. /\ packages' \in Seq(Mod) /\ Range(packages') = current \ {p}
      /\ \A i, k \in DOMAIN packages' : packages'[i] = packages'[k] => i = k
  <2> HIDE DEF p
  <2>1. \A i, k \in DOMAIN packages : packages[i] = packages[k] => i = k
    BY <1>1 DEF Queue
  <2>2. Range(packages) = current
    BY <1>1 DEF Queue
  <2> QED BY <1>1, <2>1, <2>2, QueueTail
<1> HIDE DEF p
<1>6. TypeOK'
  BY <1>1, <1>2, <1>3, <1>4, <1>5 DEF TypeOK, Graph
<1>7. Queue'
  BY <1>1, <1>2, <1>5 DEF Queue
<1>8. Layers'
  <2> SUFFICES ASSUME NEW m \in Graph'
               PROVE  deps[m] \subseteq Graph' /\ \A d \in deps[m] : depth'[d] < depth'[m]
    BY <1>1 DEF Layers
  <2>1. CASE m = p
    BY <2>1, <1>1, <1>2, <1>3, <1>4
  <2>2. CASE m \in Graph
    BY <2>2, <1>1, <1>2, <1>4 DEF Layers
  <2> QED BY <2>1, <2>2, <1>2
<1>9. Least'
  BY <1>1, <1>2 DEF Least
<1>10. Stuck' /\ Walk' /\ Lists' /\ Records' /\ Carried'
  <2>1. Stuck' /\ Walk'
    BY <1>1 DEF Stuck, Walk
  <2>2. Lists'
    BY <1>1, <1>2 DEF IInv, Lists, InUse, In
  <2>3. Records' /\ Carried'
    BY <1>1 DEF IInv, Records, UninstalledHasNoData, Carried, Reloads, Loadable, InUse, In
  <2> QED BY <2>1, <2>2, <2>3
<1> QED BY <1>6, <1>7, <1>8, <1>9, <1>10 DEF IInv

\* A package that misses something goes to the end of the queue.
LEMMA GraphDeferInv == IInv /\ GraphDefer => IInv'
<1> SUFFICES ASSUME IInv, GraphDefer PROVE IInv'
  OBVIOUS
<1> DEFINE p == Package
<1>1. /\ p = Head(packages) /\ packages \in Seq(Mod) /\ packages # <<>> /\ pc = "graph"
      /\ ~ (deps[p] \subseteq Graph)
      /\ later' = later \cup {p} /\ packages' = Append(Tail(packages), p)
      /\ UNCHANGED <<deps, state, data, pool, pc, phase, current, depth, level, todo, gone>>
      /\ TypeOK /\ Queue /\ Layers /\ Least
  BY DEF IInv, GraphDefer, InLoop, Package, TypeOK, walkvars
<1>2. Graph' = Graph
  BY <1>1 DEF Graph
<1>3. /\ p \in current /\ Tail(packages) \in Seq(Mod) /\ Range(Tail(packages)) = current \ {p}
      /\ \A i, k \in DOMAIN Tail(packages) : Tail(packages)[i] = Tail(packages)[k] => i = k
  <2> HIDE DEF p
  <2>1. \A i, k \in DOMAIN packages : packages[i] = packages[k] => i = k
    BY <1>1 DEF Queue
  <2>2. Range(packages) = current
    BY <1>1 DEF Queue
  <2> QED BY <1>1, <2>1, <2>2, QueueTail
<1>4. p \in Mod
  BY <1>1, <1>3 DEF TypeOK
<1> HIDE DEF p
<1>5. /\ packages' \in Seq(Mod) /\ Range(packages') = current
      /\ \A i, k \in DOMAIN packages' : packages'[i] = packages'[k] => i = k
  <2> DEFINE t == Tail(packages)
  <2>1. t \in Seq(Mod) /\ p \notin Range(t) /\ packages' = Append(t, p)
        /\ Range(t) \cup {p} = current
        /\ \A i, k \in DOMAIN t : t[i] = t[k] => i = k
    BY <1>1, <1>3
  <2> HIDE DEF t
  <2>2. /\ Append(t, p) \in Seq(Mod) /\ Range(Append(t, p)) = Range(t) \cup {p}
        /\ \A i, k \in DOMAIN Append(t, p) : Append(t, p)[i] = Append(t, p)[k] => i = k
    BY <1>4, <2>1, QueueAppend
  <2> QED BY <2>1, <2>2
<1>6. TypeOK'
  BY <1>1, <1>2, <1>4, <1>5 DEF TypeOK
<1>7. Queue'
  BY <1>1, <1>2, <1>3, <1>5 DEF Queue
<1>8. Layers' /\ Least'
  BY <1>1, <1>2 DEF Layers, Least
<1>9. Stuck' /\ Walk'
  BY <1>1 DEF Stuck, Walk
<1>10. Lists'
  BY <1>1, <1>2 DEF IInv, Lists, InUse, In
<1>11. Records' /\ Carried'
  BY <1>1 DEF IInv, Records, UninstalledHasNoData, Carried, Reloads, Loadable, InUse, In
<1> QED BY <1>6, <1>7, <1>8, <1>9, <1>10, <1>11 DEF IInv

\* The loop ends with an empty queue or after a round without success: either
\* way all that is left misses something.
LEMMA GraphEndInv == IInv /\ GraphEnd => IInv'
<1> SUFFICES ASSUME IInv, GraphEnd PROVE IInv'
  OBVIOUS
<1>1. /\ pc = "graph" /\ (packages = <<>> \/ ~ Progress)
      /\ pc' = "load" /\ level' = 0 /\ todo' = Graph
      /\ UNCHANGED <<deps, state, data, pool, phase, packages, current, later, depth, gone>>
      /\ TypeOK /\ Queue /\ Layers /\ Least
  BY DEF IInv, GraphEnd, graphvars
<1>2. Graph' = Graph
  BY <1>1 DEF Graph
<1>3. \A m \in current : ~ (deps[m] \subseteq Graph)
  <2>1. CASE packages = <<>>
    <3>1. current = {}
      BY <1>1, <2>1 DEF Queue, Range
    <3> QED BY <3>1
  <2>2. CASE ~ Progress
    BY <1>1, <2>2 DEF Queue, Progress
  <2> QED BY <1>1, <2>1, <2>2
<1>4. TypeOK' /\ Queue' /\ Layers' /\ Least'
  BY <1>1, <1>2 DEF TypeOK, Queue, Layers, Least
<1>5. Stuck'
  BY <1>1, <1>2, <1>3 DEF Stuck
<1>6. Walk'
  <2>1. \A m \in Graph : depth[m] >= 0
    BY <1>1 DEF TypeOK
  <2>2. Graph \ todo' = {}
    BY <1>1
  <2> QED BY <1>1, <1>2, <2>1, <2>2 DEF Walk
<1>7. Lists'
  BY <1>1, <1>2 DEF IInv, Lists, InUse, In
<1>8. Records' /\ Carried'
  BY <1>1 DEF IInv, Records, UninstalledHasNoData, Carried, Reloads, Loadable, InUse, In
<1> QED BY <1>4, <1>5, <1>6, <1>7, <1>8 DEF IInv

-----------------------------------------------------------------------------
(* The walk over the graph and the end of the upgrade                      *)

\* What stays when only the pool, the records and the states change.
LEMMA WalkStep ==
    ASSUME IInv, UNCHANGED <<deps, pc, phase, graphvars>>, pc = "load", todo' \subseteq todo
    PROVE  Queue' /\ Layers' /\ Least' /\ Stuck' /\ Graph' = Graph
BY DEF IInv, Queue, Layers, Least, Stuck, Graph, graphvars

\* A package is loaded and what it was marked for carried out.
LEMMA LoadPackageInv == IInv /\ LoadPackage => IInv'
<1> SUFFICES ASSUME IInv, LoadPackage PROVE IInv'
  OBVIOUS
<1>1. PICK m \in AtLevel :
        /\ pc = "load" /\ todo' = todo \ {m} /\ pool' = pool \cup {m}
        /\ IF state[m] \in {"to install", "to upgrade"}
           THEN data' = data \cup {m} /\ state' = [state EXCEPT ![m] = "installed"]
           ELSE UNCHANGED <<data, state>>
        /\ UNCHANGED <<deps, pc, phase, graphvars, level, gone>>
  BY DEF LoadPackage
<1>2. m \in todo /\ m \in Graph /\ m \in Mod /\ depth[m] = level
  BY DEF AtLevel, IInv, TypeOK
<1>3. Queue' /\ Layers' /\ Least' /\ Stuck' /\ Graph' = Graph
  BY <1>1, WalkStep
<1>4. state[m] \in States \ {"uninstalled"}
  BY <1>1, <1>2 DEF IInv, Lists, InUse, In
<1>5. /\ state' \in [Mod -> States] /\ state'[m] \in {"installed", "to remove"}
      /\ \A x \in Mod : x # m => state'[x] = state[x]
      /\ state[m] \in {"installed", "to remove"} => state'[m] = state[m]
  BY <1>1, <1>2, <1>4 DEF IInv, TypeOK, States
<1>6. TypeOK'
  BY <1>1, <1>2, <1>3, <1>5 DEF IInv, TypeOK, graphvars
<1>7. InUse' = InUse
  BY <1>2, <1>4, <1>5 DEF InUse, In, States
<1>8. Walk'
  <2>1. \A x \in todo' : depth'[x] >= level'
    BY <1>1 DEF IInv, Walk, graphvars
  <2>2. Graph' \ todo' = (Graph \ todo) \cup {m}
    BY <1>1, <1>2, <1>3
  <2>3. (Graph \ todo) \cup {m} \subseteq pool'
    BY <1>1 DEF IInv, Walk
  <2>4. ((Graph \ todo) \cup {m}) \cap In({"uninstalled", "to install", "to upgrade"})' = {}
    BY <1>1, <1>2, <1>5 DEF IInv, Walk, In
  <2> QED BY <2>1, <2>2, <2>3, <2>4 DEF Walk
<1>9. Lists'
  BY <1>1, <1>3, <1>7 DEF IInv, Lists, graphvars
<1>10. Records'
  BY <1>1, <1>2, <1>5 DEF IInv, Records, UninstalledHasNoData, In
<1>11. Carried'
  <2>1. In({"to remove"})' = In({"to remove"})
    BY <1>1, <1>2, <1>4, <1>5 DEF In
  <2>2. pc' = "load" /\ (Reloads' <=> Reloads)
    BY <1>1 DEF Reloads
  <2>3. In({"to install", "to upgrade"})' \subseteq In({"to install", "to upgrade"})
    BY <1>1, <1>2, <1>5 DEF In
  <2>4. Loadable(InUse)' = Loadable(InUse)
    BY <1>1, <1>7 DEF Loadable
  <2> QED BY <1>1, <2>1, <2>2, <2>3, <2>4 DEF IInv, Carried
<1> QED BY <1>3, <1>6, <1>8, <1>9, <1>10, <1>11 DEF IInv

\* When a level is loaded, what is left lies at the levels above.
LEMMA NextLevelInv == IInv /\ NextLevel => IInv'
<1> SUFFICES ASSUME IInv, NextLevel PROVE IInv'
  OBVIOUS
<1>1. /\ pc = "load" /\ AtLevel = {} /\ level' = level + 1
      /\ UNCHANGED <<deps, state, data, pool, pc, phase, graphvars, todo, gone>>
      /\ TypeOK /\ Walk
  BY DEF NextLevel, IInv
<1>2. Queue' /\ Layers' /\ Least' /\ Stuck' /\ Graph' = Graph
  BY <1>1, WalkStep
<1>3. TypeOK'
  BY <1>1, <1>2 DEF TypeOK, graphvars
<1>4. Walk'
  <2>1. \A x \in todo : depth[x] \in Nat /\ depth[x] >= level /\ depth[x] # level
    BY <1>1 DEF Walk, TypeOK, AtLevel
  <2>2. \A x \in todo' : depth'[x] >= level'
    BY <1>1, <2>1 DEF TypeOK, graphvars
  <2> QED BY <1>1, <1>2, <2>2 DEF Walk, In
<1>5. Lists'
  BY <1>1, <1>2 DEF IInv, Lists, InUse, In, graphvars
<1>6. Records' /\ Carried'
  BY <1>1 DEF IInv, Records, UninstalledHasNoData, Carried, Reloads, Loadable, InUse, In
<1> QED BY <1>2, <1>3, <1>4, <1>5, <1>6 DEF IInv

\* The walk is over: what could be loaded is, so a mark that is left is one
\* that could not be carried out.
LEMMA EndLoadInv == IInv /\ EndLoad => IInv'
<1> SUFFICES ASSUME IInv, EndLoad PROVE IInv'
  OBVIOUS
<1>1. /\ pc = "load" /\ todo = {} /\ phase \in {"start", "upgrade", "reload"}
      /\ pc' = CASE phase = "start" -> "idle" [] phase = "upgrade" -> "remove" [] OTHER -> "done"
      /\ gone' = IF phase = "upgrade" THEN In({"to remove"}) ELSE {}
      /\ UNCHANGED <<deps, state, data, pool, phase, graphvars, level, todo>>
      /\ TypeOK /\ Layers /\ Least /\ Stuck
  BY DEF EndLoad, IInv, TypeOK
<1>2. /\ phase = "start" => pc' = "idle"
      /\ phase = "upgrade" => pc' = "remove"
      /\ phase = "reload" => pc' = "done"
  BY <1>1
<1>3. pc' \in {"idle", "remove", "done"}
  BY <1>1, <1>2
<1>4. Layers' /\ Least' /\ Graph' = Graph
  BY <1>1 DEF Layers, Least, Graph, graphvars
<1>5. Queue' /\ Stuck' /\ Walk' /\ Lists'
  BY <1>3 DEF Queue, Stuck, Walk, Lists
<1>6. TypeOK'
  BY <1>1, <1>3, <1>4 DEF TypeOK, graphvars, In
<1>7. Records'
  BY <1>1, <1>2 DEF IInv, Records, UninstalledHasNoData, In
<1>8. Carried'
  <2>1. CASE phase = "start"
    BY <2>1, <1>2 DEF Carried, Reloads
  <2>2. CASE phase = "upgrade"
    <3>1. Graph = Loadable(InUse)
      BY <1>1, <2>2, GraphIsLoadable DEF Stuck, IInv, Lists
    <3>2. Graph \cap In({"to install", "to upgrade"}) = {}
      BY <1>1 DEF IInv, Walk, In
    <3>3. (In({"to install", "to upgrade"}) \cap Loadable(InUse))' = {}
      BY <1>1, <3>1, <3>2 DEF Loadable, InUse, In
    <3> QED BY <1>2, <2>2, <3>3 DEF Carried, Reloads
  <2>3. CASE phase = "reload"
    BY <1>1, <1>2, <2>3 DEF IInv, Carried, Reloads, Loadable, InUse, In
  <2> QED BY <1>1, <2>1, <2>2, <2>3
<1> QED BY <1>4, <1>5, <1>6, <1>7, <1>8 DEF IInv

\* The records of a removed module go.
LEMMA UnlinkInv == IInv /\ Unlink => IInv'
<1> SUFFICES ASSUME IInv, Unlink PROVE IInv'
  OBVIOUS
<1>1. PICK m \in gone :
        /\ pc = "remove" /\ gone' = gone \ {m} /\ data' = data \ {m}
        /\ UNCHANGED <<deps, state, pool, pc, phase, graphvars, level, todo>>
  BY DEF Unlink
<1>2. TypeOK'
  BY <1>1 DEF IInv, TypeOK, graphvars, Graph
<1>3. Queue' /\ Stuck' /\ Walk' /\ Lists'
  BY <1>1 DEF Queue, Stuck, Walk, Lists
<1>4. Layers' /\ Least'
  BY <1>1 DEF IInv, Layers, Least, Graph, graphvars
<1>5. Records'
  BY <1>1 DEF IInv, Records, UninstalledHasNoData, In
<1>6. Carried'
  BY <1>1 DEF IInv, Carried, Reloads, Loadable, InUse, In
<1> QED BY <1>2, <1>3, <1>4, <1>5, <1>6 DEF IInv

\* A crash keeps what was committed.
LEMMA CrashInv == IInv /\ Crash => IInv'
<1> SUFFICES ASSUME IInv, Crash PROVE IInv'
  OBVIOUS
<1>1. /\ pc' = "idle" /\ packages' = <<>> /\ current' = {} /\ later' = {} /\ depth' = <<>>
      /\ level' = 0 /\ todo' = {} /\ gone' = {}
      /\ UNCHANGED <<deps, state, data, pool, phase>> /\ TypeOK /\ UninstalledHasNoData
  BY DEF Crash, IInv, Records
<1>2. (depth \in [{} -> Nat] /\ Graph = {})'
  BY <1>1, EmptyGraph DEF Graph
<1>3. packages' \in Seq(Mod)
  BY <1>1
<1>4. TypeOK'
  BY <1>1, <1>2, <1>3 DEF TypeOK
<1>5. Queue' /\ Layers' /\ Least' /\ Stuck' /\ Walk' /\ Lists'
  BY <1>1, <1>2 DEF Queue, Layers, Least, Stuck, Walk, Lists
<1>6. Records' /\ Carried'
  BY <1>1 DEF Records, UninstalledHasNoData, In, Carried, Reloads
<1> QED BY <1>4, <1>5, <1>6 DEF IInv

\* A step that changes nothing.
LEMMA StutterInv == IInv /\ UNCHANGED vars => IInv'
<1> SUFFICES ASSUME IInv, UNCHANGED vars PROVE IInv'
  OBVIOUS
<1> USE DEF IInv, vars, graphvars, walkvars
<1>1. TypeOK' /\ Queue' /\ Layers' /\ Least' /\ Stuck'
  BY DEF TypeOK, Queue, Layers, Least, Stuck, Graph
<1>2. Walk' /\ Lists' /\ Records'
  BY DEF Walk, Lists, Records, UninstalledHasNoData, Graph, InUse, In
<1>3. Carried'
  BY DEF Carried, Reloads, Loadable, InUse, In
<1> QED BY <1>1, <1>2, <1>3

-----------------------------------------------------------------------------
(* The theorems                                                            *)

\* Every step keeps the invariant.
LEMMA NextInv == IInv /\ [Next]_vars => IInv'
<1> SUFFICES ASSUME IInv, [Next]_vars PROVE IInv'
  OBVIOUS
<1>1. ASSUME NEW m \in Mod,
             \/ Install(m) \/ InstallCancel(m)
             \/ Uninstall(m) \/ UninstallCancel(m)
             \/ Upgrade(m) \/ UpgradeCancel(m)
      PROVE  IInv'
  <2> USE <1>1 DEF States
  <2>1. CASE Install(m)
    BY <2>1, MarkInv DEF Install
  <2>2. CASE InstallCancel(m)
    BY <2>2, MarkInv DEF InstallCancel
  <2>3. CASE Uninstall(m)
    BY <2>3, MarkInv DEF Uninstall
  <2>4. CASE UninstallCancel(m)
    BY <2>4, MarkInv DEF UninstallCancel
  <2>5. CASE Upgrade(m)
    BY <2>5, MarkInv DEF Upgrade
  <2>6. CASE UpgradeCancel(m)
    BY <2>6, MarkInv DEF UpgradeCancel
  <2> QED BY <1>1, <2>1, <2>2, <2>3, <2>4, <2>5, <2>6
<1>2. CASE StartUpgrade \/ StartServer
  BY <1>2, StartUpgradeInv, StartServerInv
<1>3. CASE Loading
  BY <1>3, GraphAddInv, GraphDeferInv, GraphEndInv, LoadPackageInv, NextLevelInv,
     EndLoadInv, UnlinkInv, FinishInv DEF Loading
<1>4. CASE Crash
  BY <1>4, CrashInv
<1>5. CASE UNCHANGED vars
  BY <1>5, StutterInv
<1> QED BY <1>1, <1>2, <1>3, <1>4, <1>5 DEF Next

\* The inductive invariant holds in every state of the life of the modules.
THEOREM ModulesInvariant == Spec => []IInv
BY InitInv, NextInv, PTL DEF Spec

\* The variables keep their types: what is queued, deferred, in the graph or
\* still to unlink is a module, and every node of the graph has a depth.
THEOREM TypeCorrect == Spec => []TypeOK
<1>1. IInv => TypeOK
  BY DEF IInv
<1> QED BY <1>1, ModulesInvariant, PTL

\* create_graph keeps all the packages that can be loaded and only those, for
\* any set of modules, any dependencies, cycles and missing ones included,
\* and any order of the query.
THEOREM GraphComplete == Spec => []GraphIsComplete
<1>1. IInv => GraphIsComplete
  BY GraphIsLoadable DEF IInv, Stuck, GraphIsComplete
<1> QED BY <1>1, ModulesInvariant, PTL

\* A module that is not installed, or only about to be, has no data left,
\* wherever upgrades died.
THEOREM NoDataLeft == Spec => []UninstalledHasNoData
<1>1. IInv => UninstalledHasNoData
  BY DEF IInv, Records
<1> QED BY <1>1, ModulesInvariant, PTL

\* An upgrade that ends has carried out all the marks it could.
THEOREM AllCarriedOut == Spec => []MarksCarriedOut
<1>1. IInv => MarksCarriedOut
  BY DEF IInv, Carried, Reloads, MarksCarriedOut, InUse
<1> QED BY <1>1, ModulesInvariant, PTL

\* Modules are loaded after what they depend on, and their data written once
\* the marks of those are carried out.
THEOREM InOrder == Spec => LoadedInOrder
<1> DEFINE Order ==
      /\ \A m \in pool' \ pool : deps[m] \subseteq pool
      /\ \A m \in data' \ data :
           deps[m] \cap In({"uninstalled", "to install", "to upgrade"}) = {}
<1>1. ASSUME IInv, LoadPackage PROVE Order
  <2>1. PICK m \in AtLevel :
          /\ pc = "load" /\ pool' = pool \cup {m}
          /\ data' = data \cup {m} \/ data' = data
    BY <1>1 DEF LoadPackage
  <2>2. m \in todo /\ m \in Graph /\ depth[m] = level
    BY <1>1 DEF AtLevel, IInv, TypeOK
  <2>3. deps[m] \subseteq Graph /\ \A d \in deps[m] : depth[d] < depth[m]
    BY <1>1, <2>2 DEF IInv, Layers
  <2>4. \A d \in deps[m] : d \notin todo
    <3> SUFFICES ASSUME NEW d \in deps[m], d \in todo PROVE FALSE
      OBVIOUS
    <3>1. depth[d] >= level /\ depth[d] \in Nat /\ depth[m] \in Nat
      BY <1>1, <2>1, <2>2, <2>3 DEF IInv, Walk, TypeOK
    <3> QED BY <3>1, <2>2, <2>3
  <2>5. deps[m] \subseteq Graph \ todo
    BY <2>3, <2>4
  <2> QED BY <1>1, <2>1, <2>5 DEF IInv, Walk
<1>2. ASSUME IInv, [Next]_vars, ~ LoadPackage PROVE Order
  <2>1. (pool' \subseteq pool) /\ (data' \subseteq data)
    BY <1>2 DEF Next, Loading, vars, Install, InstallCancel, Uninstall, UninstallCancel,
       Upgrade, UpgradeCancel, Mark, StartUpgrade, StartServer, Load, GraphAdd, GraphDefer,
       GraphEnd, NextLevel, EndLoad, Unlink, Finish, Crash
  <2> QED BY <2>1
<1>3. IInv /\ [Next]_vars => [Order]_vars
  BY <1>1, <1>2
<1> QED BY <1>3, ModulesInvariant, PTL DEF Spec, LoadedInOrder
==============================================================================
