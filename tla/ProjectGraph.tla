---------------------------- MODULE ProjectGraph ----------------------------
(***************************************************************************)
(* The dependency graph of one project: its modules are added and removed, *)
(* their dependencies are replaced after a search for cycles, and starting *)
(* an environment run sorts them.                                          *)
(*                                                                         *)
(* Every handler is a chain of database statements without a transaction;  *)
(* a request stands at the statement it executes next.                     *)
(***************************************************************************)
EXTENDS Integers, FiniteSets, SequencesExt

CONSTANTS
  Module,      \* ids of modules; an id is never used again
  Existing,    \* the modules at the beginning
  Request,     \* requests that may be in flight together
  Asked,       \* lists of dependencies clients ask for
  MaxRestarts  \* bound: restarts of the backend

ASSUME ProjectGraphAssumption ==
  /\ IsFiniteSet(Module) /\ Existing \subseteq Module /\ IsFiniteSet(Request)
  /\ Asked \subseteq Seq(Module)
  /\ MaxRestarts \in Nat

VARIABLES
  rows,         \* project_modules of the project
  fresh,        \* ids not used yet
  deps,         \* project_module_dependencies: <<m, d>> says m needs d
  moduleCount,  \* projects.module_count
  req,          \* requests in flight
  restarts,     \* restarts so far (only to bound them)
  overlapped,   \* history: two replacements searched and wrote at once
  doubled       \* history: a module was removed by two requests

vars == <<rows, fresh, deps, moduleCount, req, restarts, overlapped, doubled>>

----------------------------------------------------------------------------

\* mod and ids: the module and the list of dependencies asked for; todo: what
\* of ids is not looked up, or not searched from, yet; listed: the modules it
\* read; graph: the dependencies it searches or sorts; frames: for every call
\* of dfs, the dependencies it has not come to; visited: by this search; queue
\* and order: of the sort.
Req == [at : {"idle",
              "targets", "graph", "search", "delete", "insert",  \* PUT dependencies
              "increment",                                       \* POST modules
              "drop", "decrement",                               \* DELETE module
              "read", "sort"},                                   \* POST environment run
        mod : Module \cup {"none"}, ids : Seq(Module), todo : Seq(Module),
        listed : SUBSET Module, graph : SUBSET (Module \X Module),
        frames : Seq(SUBSET Module), visited : SUBSET Module,
        queue : Seq(Module), order : Seq(Module)]

Idle == [at |-> "idle", mod |-> "none", ids |-> <<>>, todo |-> <<>>,
         listed |-> {}, graph |-> {}, frames |-> <<>>, visited |-> {},
         queue |-> <<>>, order |-> <<>>]

Goto(r, step) == req' = [req EXCEPT ![r].at = step]
Answer(r)     == req' = [req EXCEPT ![r] = Idle]

\* r has searched for cycles, or is about to, and has not written yet.
Replacing(r) == req[r].at \in {"graph", "search", "delete", "insert"}

\* r searches or sorts in memory: nothing else runs until it is done.
Computing(r) == req[r].at \in {"search", "sort"}

\* Every set of modules has one that needs none of the others.
Acyclic(graph) ==
  \A S \in (SUBSET Module) \ {{}} : \E m \in S : \A d \in S : <<m, d>> \notin graph

DependenciesOf(m) == {d \in Module : <<m, d>> \in deps}

TypeOK ==
  /\ rows \subseteq Module /\ fresh \subseteq Module /\ rows \cap fresh = {}
  /\ deps \subseteq rows \X rows
  /\ moduleCount \in Int
  /\ req \in [Request -> Req]
  /\ \A r \in Request :
       req[r].at \in {"targets", "graph", "search", "delete", "insert", "drop"} => req[r].mod \in Module
  /\ restarts \in 0 .. MaxRestarts
  /\ overlapped \in BOOLEAN /\ doubled \in BOOLEAN

Init ==
  /\ rows = Existing /\ fresh = Module \ Existing
  /\ deps = {}
  /\ moduleCount = Cardinality(Existing)
  /\ req = [r \in Request |-> Idle]
  /\ restarts = 0
  /\ overlapped = FALSE /\ doubled = FALSE

----------------------------------------------------------------------------
(* PUT dependencies *)

AskDependencies(r, m, ids) ==
  /\ req[r] = Idle /\ m \in rows
  /\ req' = [req EXCEPT ![r] = [Idle EXCEPT !.at = "targets", !.mod = m, !.ids = ids,
                                            !.todo = ids]]
  /\ UNCHANGED <<rows, fresh, deps, moduleCount, restarts, overlapped, doubled>>

\* The targets are looked up one by one.
LookUpTarget(r) ==
  /\ req[r].at = "targets" /\ req[r].todo # <<>>
  /\ IF Head(req[r].todo) \in rows THEN req' = [req EXCEPT ![r].todo = Tail(@)] ELSE Answer(r)
  /\ UNCHANGED <<rows, fresh, deps, moduleCount, restarts, overlapped, doubled>>

\* detectCycle: the modules are listed before their dependencies are read.
ListModules(r) ==
  /\ req[r].at = "targets" /\ req[r].todo = <<>>
  /\ req' = [req EXCEPT ![r].at = "graph", ![r].listed = rows]
  /\ overlapped' = (overlapped \/ \E q \in Request : Replacing(q))
  /\ UNCHANGED <<rows, fresh, deps, moduleCount, restarts, doubled>>

DetectCycle(r) ==
  /\ req[r].at = "graph"
  /\ req' = [req EXCEPT ![r].at = "search", ![r].todo = req[r].ids,
                        ![r].graph = {e \in deps : e[1] \in req[r].listed}]
  /\ UNCHANGED <<rows, fresh, deps, moduleCount, restarts, overlapped, doubled>>

\* The search starts afresh from every id of the list.
SearchFrom(r) ==
  /\ req[r].at = "search" /\ req[r].frames = <<>> /\ req[r].todo # <<>>
  /\ req' = [req EXCEPT ![r].todo = Tail(@), ![r].visited = {req[r].mod},
                        ![r].frames = <<{Head(req[r].todo)}>>]
  /\ UNCHANGED <<rows, fresh, deps, moduleCount, restarts, overlapped, doubled>>

\* Mutant of Visit: only the direct dependencies are looked at.
VisitDirectly(r) ==
  LET n == Len(req[r].frames) IN
  /\ req[r].at = "search" /\ n > 0
  /\ \E d \in req[r].frames[n] :
       IF d = req[r].mod THEN Answer(r)
       ELSE req' = [req EXCEPT ![r].frames[n] = @ \ {d}, ![r].visited = @ \cup {d}]
  /\ UNCHANGED <<rows, fresh, deps, moduleCount, restarts, overlapped, doubled>>

\* Mutant of Visit: what was visited is left before the module is recognized.
VisitedFirst(r) ==
  LET n == Len(req[r].frames) IN
  /\ req[r].at = "search" /\ n > 0
  /\ \E d \in req[r].frames[n] :
       LET rest == [req[r].frames EXCEPT ![n] = @ \ {d}]
           next == {c \in Module : <<d, c>> \in req[r].graph}
       IN  \/ d \in req[r].visited /\ req' = [req EXCEPT ![r].frames = rest]
           \/ d = req[r].mod /\ d \notin req[r].visited /\ Answer(r)
           \/ /\ d # req[r].mod /\ d \notin req[r].visited
              /\ req' = [req EXCEPT ![r].frames = Append(rest, next), ![r].visited = @ \cup {d}]
  /\ UNCHANGED <<rows, fresh, deps, moduleCount, restarts, overlapped, doubled>>

\* dfs is called for the next dependency of the innermost call. The module
\* itself is found: 400. What was visited is left at once.
Visit(r) ==
  LET n == Len(req[r].frames) IN
  /\ req[r].at = "search" /\ n > 0
  /\ \E d \in req[r].frames[n] :
       LET rest == [req[r].frames EXCEPT ![n] = @ \ {d}]
           next == {c \in Module : <<d, c>> \in req[r].graph}
       IN  \/ d = req[r].mod /\ Answer(r)
           \/ /\ d # req[r].mod /\ d \in req[r].visited
              /\ req' = [req EXCEPT ![r].frames = rest]
           \/ /\ d # req[r].mod /\ d \notin req[r].visited
              /\ req' = [req EXCEPT ![r].frames = Append(rest, next), ![r].visited = @ \cup {d}]
  /\ UNCHANGED <<rows, fresh, deps, moduleCount, restarts, overlapped, doubled>>

\* A call that has no dependency left returns.
Return(r) ==
  LET n == Len(req[r].frames) IN
  /\ req[r].at = "search" /\ n > 0 /\ req[r].frames[n] = {}
  /\ req' = [req EXCEPT ![r].frames = SubSeq(@, 1, n - 1)]
  /\ UNCHANGED <<rows, fresh, deps, moduleCount, restarts, overlapped, doubled>>

NoCycle(r) ==
  /\ req[r].at = "search" /\ req[r].frames = <<>> /\ req[r].todo = <<>>
  /\ req' = [req EXCEPT ![r].at = "delete", ![r].listed = {}, ![r].graph = {}, ![r].visited = {}]
  /\ UNCHANGED <<rows, fresh, deps, moduleCount, restarts, overlapped, doubled>>

\* Mutant of DeleteDependencies: new dependencies are added to the old ones.
DeleteIfNone(r) ==
  /\ req[r].at = "delete"
  /\ deps' = IF req[r].ids = <<>> THEN {e \in deps : e[1] # req[r].mod} ELSE deps
  /\ IF req[r].ids = <<>> THEN Answer(r) ELSE Goto(r, "insert")
  /\ UNCHANGED <<rows, fresh, moduleCount, restarts, overlapped, doubled>>

DeleteDependencies(r) ==
  /\ req[r].at = "delete"
  /\ deps' = {e \in deps : e[1] # req[r].mod}
  /\ IF req[r].ids = <<>> THEN Answer(r) ELSE Goto(r, "insert")
  /\ UNCHANGED <<rows, fresh, moduleCount, restarts, overlapped, doubled>>

\* One INSERT of all rows: a repeated or existing pair breaks the unique
\* index, a module removed meanwhile the foreign keys, and none is inserted.
InsertDependencies(r) ==
  LET ids == ToSet(req[r].ids)
      new == {req[r].mod} \X ids
      ok  == IsInjective(req[r].ids) /\ new \cap deps = {} /\ {req[r].mod} \cup ids \subseteq rows
  IN
  /\ req[r].at = "insert"
  /\ deps' = IF ok THEN deps \cup new ELSE deps
  /\ Answer(r)
  /\ UNCHANGED <<rows, fresh, moduleCount, restarts, overlapped, doubled>>

----------------------------------------------------------------------------
(* POST and DELETE modules *)

AddModule(r, m) ==
  /\ req[r] = Idle /\ m \in fresh
  /\ rows' = rows \cup {m} /\ fresh' = fresh \ {m}
  /\ Goto(r, "increment")
  /\ UNCHANGED <<deps, moduleCount, restarts, overlapped, doubled>>

IncrementCount(r) ==
  /\ req[r].at = "increment"
  /\ moduleCount' = moduleCount + 1
  /\ Answer(r)
  /\ UNCHANGED <<rows, fresh, deps, restarts, overlapped, doubled>>

AskRemoval(r, m) ==
  /\ req[r] = Idle /\ m \in rows
  /\ req' = [req EXCEPT ![r] = [Idle EXCEPT !.at = "drop", !.mod = m]]
  /\ UNCHANGED <<rows, fresh, deps, moduleCount, restarts, overlapped, doubled>>

\* Mutant of DropModule: who finds nothing to delete is done, and so is who
\* deletes.
DropAndAnswer(r) ==
  LET m == req[r].mod IN
  /\ req[r].at = "drop"
  /\ rows' = rows \ {m}
  /\ deps' = {e \in deps : e[1] # m /\ e[2] # m}
  /\ doubled' = (doubled \/ m \notin rows)
  /\ Answer(r)
  /\ UNCHANGED <<fresh, moduleCount, restarts, overlapped>>

\* Mutant of DropModule: the dependencies on the module stay.
DropOwnDependencies(r) ==
  LET m == req[r].mod IN
  /\ req[r].at = "drop"
  /\ rows' = rows \ {m}
  /\ deps' = {e \in deps : e[1] # m}
  /\ doubled' = (doubled \/ m \notin rows)
  /\ req' = [req EXCEPT ![r] = [Idle EXCEPT !.at = "decrement"]]
  /\ UNCHANGED <<fresh, moduleCount, restarts, overlapped>>

\* The runs of a module refer to it and the database does not let it go.
RefuseRemoval(r) ==
  /\ req[r].at = "drop" /\ req[r].mod \in rows
  /\ Answer(r)
  /\ UNCHANGED <<rows, fresh, deps, moduleCount, restarts, overlapped, doubled>>

\* The dependencies of and on the module go with it. The count is changed
\* even if another request deleted the row.
DropModule(r) ==
  LET m == req[r].mod IN
  /\ req[r].at = "drop"
  /\ rows' = rows \ {m}
  /\ deps' = {e \in deps : e[1] # m /\ e[2] # m}
  /\ doubled' = (doubled \/ m \notin rows)
  /\ req' = [req EXCEPT ![r] = [Idle EXCEPT !.at = "decrement"]]
  /\ UNCHANGED <<fresh, moduleCount, restarts, overlapped>>

DecrementCount(r) ==
  /\ req[r].at = "decrement"
  /\ moduleCount' = moduleCount - 1
  /\ Answer(r)
  /\ UNCHANGED <<rows, fresh, deps, restarts, overlapped, doubled>>

----------------------------------------------------------------------------
(* POST environment run *)

\* The in-degree of m once done are sorted. What m waits for counts even if
\* it is not listed.
Unmet(m, graph, done) == {d \in Module : <<m, d>> \in graph /\ d \notin done}

\* topologicalSort begins; without modules there is nothing to run.
ListForRun(r) ==
  /\ req[r] = Idle /\ rows # {}
  /\ req' = [req EXCEPT ![r] = [Idle EXCEPT !.at = "read", !.listed = rows]]
  /\ UNCHANGED <<rows, fresh, deps, moduleCount, restarts, overlapped, doubled>>

\* The queue begins with the modules that need no other, in some order.
ReadDependencies(r) ==
  LET graph == {e \in deps : e[1] \in req[r].listed} IN
  /\ req[r].at = "read"
  /\ \E roots \in SetToSeqs({m \in req[r].listed : Unmet(m, graph, {}) = {}}) :
       req' = [req EXCEPT ![r].at = "sort", ![r].graph = graph, ![r].queue = roots]
  /\ UNCHANGED <<rows, fresh, deps, moduleCount, restarts, overlapped, doubled>>

\* Mutant of TakeModule: a module is queued when the first it needs is done.
TakeAndQueueAll(r) ==
  LET order == Append(req[r].order, Head(req[r].queue))
      ready == {m \in Module : <<m, Head(req[r].queue)>> \in req[r].graph}
  IN
  /\ req[r].at = "sort" /\ req[r].queue # <<>>
  /\ Len(order) <= Cardinality(req[r].listed)
  /\ \E next \in SetToSeqs(ready) :
       req' = [req EXCEPT ![r].queue = Tail(@) \o next, ![r].order = order]
  /\ UNCHANGED <<rows, fresh, deps, moduleCount, restarts, overlapped, doubled>>

\* One round of Kahn's algorithm. A module is queued when the last one it
\* needs is done.
TakeModule(r) ==
  LET order == Append(req[r].order, Head(req[r].queue))
      ready == {m \in Module : /\ <<m, Head(req[r].queue)>> \in req[r].graph
                               /\ Unmet(m, req[r].graph, ToSet(order)) = {}}
  IN
  /\ req[r].at = "sort" /\ req[r].queue # <<>>
  /\ \E next \in SetToSeqs(ready) :
       req' = [req EXCEPT ![r].queue = Tail(@) \o next, ![r].order = order]
  /\ UNCHANGED <<rows, fresh, deps, moduleCount, restarts, overlapped, doubled>>

\* An order that misses modules is an error of the request, any other becomes
\* the order of the environment run.
FinishSort(r) ==
  /\ req[r].at = "sort" /\ req[r].queue = <<>>
  /\ Answer(r)
  /\ UNCHANGED <<rows, fresh, deps, moduleCount, restarts, overlapped, doubled>>

----------------------------------------------------------------------------

Restart ==
  /\ restarts < MaxRestarts /\ restarts' = restarts + 1
  /\ req' = [r \in Request |-> Idle]
  /\ UNCHANGED <<rows, fresh, deps, moduleCount, overlapped, doubled>>

Replace(r) ==
  \/ \E m \in Module, ids \in Asked : AskDependencies(r, m, ids)
  \/ LookUpTarget(r) \/ ListModules(r) \/ DetectCycle(r)
  \/ DeleteDependencies(r) \/ InsertDependencies(r)

Manage(r) ==
  \/ \E m \in Module : AddModule(r, m) \/ AskRemoval(r, m)
  \/ IncrementCount(r) \/ DropModule(r) \/ RefuseRemoval(r) \/ DecrementCount(r)

Run(r) == ListForRun(r) \/ ReadDependencies(r)

Search(r) == SearchFrom(r) \/ Visit(r) \/ Return(r) \/ NoCycle(r)
Sort(r)   == TakeModule(r) \/ FinishSort(r)

Next ==
  \/ \E r \in Request : Search(r) \/ Sort(r)
  \/ /\ \A r \in Request : ~Computing(r)
     /\ (\E r \in Request : Replace(r) \/ Manage(r) \/ Run(r)) \/ Restart

Spec == Init /\ [][Next]_vars

----------------------------------------------------------------------------
(* Properties *)

\* The dependencies have no cycle as long as no two replacements overlap:
\* what is searched is what is written, whatever else happens between.
AcyclicDependencies == ~overlapped => Acyclic(deps)

\* The search finds the module only if the replacement would close a cycle in
\* what was read, and passes only what closes none, whatever the graph and the
\* order it is searched in.
SearchIsExact ==
  \A r \in Request :
    LET m    == req[r].mod
        n    == Len(req[r].frames)
        kept == {e \in req[r].graph : e[1] # m}
        replaced == kept \cup {m} \X ToSet(req[r].ids)
    IN
    req[r].at = "search" =>
      /\ n > 0 => (m \in req[r].frames[n] => ~Acyclic(replaced))
      /\ n = 0 /\ req[r].todo = <<>> /\ Acyclic(kept) => Acyclic(replaced)

\* The dependencies of a module only grow to become what one request asked
\* for: never a mixture of the old and the new ones, or of two requests that
\* do not overlap.
NeverMixed ==
  [][~overlapped' => \A m \in Module :
       \/ DependenciesOf(m)' \subseteq DependenciesOf(m)
       \/ \E r \in Request : req[r].mod = m /\ DependenciesOf(m)' = ToSet(req[r].ids)]_vars

\* The execution order of a run has every module once, and none before one it
\* needs.
OrderFollowsDependencies ==
  \A r \in Request : LET order == req[r].order IN
    \A i, j \in DOMAIN order :
      /\ i # j => order[i] # order[j]
      /\ <<order[i], order[j]>> \in req[r].graph => j < i

\* The sort only fails if there is a cycle, or a module was added while it
\* read the graph: a project can be run.
SortCompletes ==
  \A r \in Request : req[r].at = "sort" /\ req[r].queue = <<>> =>
    \/ ToSet(req[r].order) = req[r].listed
    \/ ~Acyclic(req[r].graph)
    \/ \E e \in req[r].graph : e[2] \notin req[r].listed

\* topologicalSort sorts: what it returns is an order of the dependencies, and
\* it fails on nothing that has one, whatever else happens to the graph while
\* it is read.
TopologicalSort == OrderFollowsDependencies /\ SortCompletes

\* The count of modules is right when nothing is in flight, unless a restart
\* came between two statements or one module was removed twice.
CountIsRight ==
  restarts = 0 /\ ~doubled /\ (\A r \in Request : req[r] = Idle) =>
    moduleCount = Cardinality(rows)
=============================================================================
