---------------------------- MODULE RouteLedger ----------------------------
(***************************************************************************)
(* One project aggregate: its versions in an ordered tree, the current     *)
(* version, and the work recorded against them: todos, deferred items and  *)
(* the work items whose records these are.                                 *)
(*                                                                         *)
(* An action is one command, from the load of the aggregate to the save    *)
(* of the changed one: saves are compare-and-set (CanonicalReplace), so    *)
(* commands on one project take effect one after the other.  Route changes *)
(* are committed L3 operations (ExactCommit says which commits happen);    *)
(* their gates are evaluated again at the commit, on the aggregate they    *)
(* change.  Ids are numbers in order of creation.                          *)
(***************************************************************************)
EXTENDS VersionTree

CONSTANTS
  MaxVersion,                   \* bounds: how many of each are ever created
  MaxTodo,
  MaxDeferred,
  MaxBatch                      \* bound: versions in one batch

VARIABLES
  versions,                     \* id -> version
  currentVersionId,             \* project.currentVersionId
  todos,                        \* id -> todo
  deferredItems,                \* id -> deferred item
  workItems                     \* id -> work item

vars == <<versions, currentVersionId, todos, deferredItems, workItems>>
work == <<todos, deferredItems, workItems>>

VersionId == 1..MaxVersion

ASSUME LedgerAssumption ==
  /\ MaxVersion \in Nat /\ MaxTodo \in Nat /\ MaxDeferred \in Nat /\ MaxBatch \in Nat
  /\ Null \notin Nat \cup ({"todo", "deferred"} \X Nat)

VersionState == {"wait", "ready", "running", "suspend", "complete", "close"}

Version == [parent : VersionId \cup {Null}, previous : VersionId \cup {Null},
            next : VersionId \cup {Null}, order : VersionId,
            state : VersionState, isCurrent : BOOLEAN]

\* source is the deferred item that an activated one came from.
Todo == [workItem : Nat, version : VersionId, source : Nat \cup {Null},
         status : {"wait", "closed", "converted"}]

Deferred == [workItem : Nat, origin : VersionId, target : VersionId,
             status : {"pending", "activated", "resolved"},
             activatedTodo : Nat \cup {Null}]

\* activeRecord is <<type, id>>.
WorkItem == [status : {"active", "closed"},
             activeRecord : ({"todo", "deferred"} \X Nat) \cup {Null}]

TypeOK ==
  /\ \E n \in 0..MaxVersion : versions \in [1..n -> Version]
  /\ currentVersionId \in DOMAIN versions \cup {Null}
  /\ todos \in Seq(Todo) /\ deferredItems \in Seq(Deferred) /\ workItems \in Seq(WorkItem)

-----------------------------------------------------------------------------

\* initProject, with or without a first version.
Init ==
  /\ \/ versions = <<>> /\ currentVersionId = Null
     \/ /\ versions = <<[Created EXCEPT !.order = 1, !.isCurrent = TRUE]>>
        /\ currentVersionId = 1
        /\ MaxVersion > 0
  /\ todos = <<>> /\ deferredItems = <<>> /\ workItems = <<>>

Become(v, state) == versions' = [versions EXCEPT ![v].state = state]

\* Faulty variant: the version left keeps its mark.
SwitchedKeepsMark(vs, v, left) ==
  [u \in DOMAIN vs |->
    IF u = v THEN [vs[u] EXCEPT !.isCurrent = TRUE]
    ELSE IF u = currentVersionId THEN [vs[u] EXCEPT !.state = left]
    ELSE vs[u]]

\* Marks v as current in `vs'; the version that was current is left in `left'.
Switched(vs, v, left) ==
  [u \in DOMAIN vs |->
    IF u = v THEN [vs[u] EXCEPT !.isCurrent = TRUE]
    ELSE IF u = currentVersionId THEN [vs[u] EXCEPT !.isCurrent = FALSE, !.state = left]
    ELSE vs[u]]

\* A running version is suspended when it stops being current.
LeftState ==
  IF currentVersionId = Null THEN "wait"
  ELSE IF versions[currentVersionId].state = "running" THEN "suspend"
  ELSE versions[currentVersionId].state

-----------------------------------------------------------------------------
(* The life of a version.                                                  *)

Due(v) == {d \in DOMAIN deferredItems :
             deferredItems[d].status = "pending" /\ deferredItems[d].target = v}

StartGate(v) == versions[v].state = "ready" /\ Due(v) = {}

\* The order of the route decides what is downstream.
Downstream(u, v) == versions[v].order > versions[u].order

CloseGate(v) ==
  /\ versions[v].state = "complete"
  /\ \A t \in DOMAIN todos : todos[t].version = v => todos[t].status # "wait"
  /\ \A d \in DOMAIN deferredItems :
       deferredItems[d].status = "pending" /\ deferredItems[d].origin = v =>
         Downstream(v, deferredItems[d].target)

PrepareVersion(v) ==
  /\ versions[v].state = "wait"
  /\ Become(v, "ready")
  /\ UNCHANGED <<currentVersionId, work>>

StartVersion(v) ==
  /\ StartGate(v)
  /\ Become(v, "running")
  /\ UNCHANGED <<currentVersionId, work>>

MarkVersionComplete(v) ==
  /\ versions[v].state = "running"
  /\ Become(v, "complete")
  /\ UNCHANGED <<currentVersionId, work>>

CloseVersion(v) ==
  /\ CloseGate(v)
  /\ Become(v, "close")
  /\ UNCHANGED <<currentVersionId, work>>

ShutdownVersion(v) ==
  /\ versions[v].state # "close"
  /\ Become(v, "close")
  /\ UNCHANGED <<currentVersionId, work>>

ReopenVersion(v) ==
  /\ versions[v].state \in {"close", "suspend"}
  /\ Become(v, "ready")
  /\ UNCHANGED <<currentVersionId, work>>

SetCurrentVersion(v) ==
  /\ versions' = Switched(versions, v, LeftState)
  /\ currentVersionId' = v
  /\ UNCHANGED work

\* From a closed current version to the next of its siblings.
AdvanceGate(v) ==
  /\ currentVersionId # Null
  /\ versions[currentVersionId].state = "close"
  /\ versions[currentVersionId].next = v
  /\ StartGate(v)

\* The version moved to is started.
AdvanceToVersion(v) ==
  /\ AdvanceGate(v)
  /\ versions' = [Switched(versions, v, LeftState) EXCEPT ![v].state = "running"]
  /\ currentVersionId' = v
  /\ UNCHANGED work

-----------------------------------------------------------------------------
(* The tree.  Every change of it reads the whole tree first.               *)

NewVersion == Cardinality(DOMAIN versions) + 1
Neighbour == DOMAIN versions \cup {Null}

\* The first version of an empty route becomes the current one.
CreateVersion ==
  /\ NewVersion \in VersionId
  /\ \E place \in ToCreate(versions) :
       LET added == Added(versions, NewVersion, place)
       IN  IF DOMAIN versions = {}
           THEN /\ versions' = [added EXCEPT ![NewVersion].isCurrent = TRUE]
                /\ currentVersionId' = NewVersion
           ELSE versions' = added /\ UNCHANGED currentVersionId
  /\ UNCHANGED work

InsertVersion ==
  /\ NewVersion \in VersionId
  /\ \E previous, next \in Neighbour : \E place \in ToInsert(versions, previous, next) :
       versions' = Added(versions, NewVersion, place)
  /\ UNCHANGED <<currentVersionId, work>>

CreateChildVersion ==
  /\ NewVersion \in VersionId
  /\ \E parent \in DOMAIN versions, previous, next \in Neighbour :
       \E place \in ToAddChild(versions, parent, previous, next) :
         versions' = Added(versions, NewVersion, place)
  /\ UNCHANGED <<currentVersionId, work>>

ReorderVersions(v) ==
  /\ \E previous, next \in Neighbour : \E place \in ToReorder(versions, v, previous, next) :
       versions' = Moved(versions, v, place)
  /\ UNCHANGED <<currentVersionId, work>>

\* The versions after each item of a batch: an item goes after the one before
\* it, and before what the batch goes before.  The second and later items name
\* the parent that the first was given.
Planned(n, parent, after, before) ==
  LET plan[i \in 0..n] ==
        IF i = 0
        THEN {[vs |-> versions, parent |-> parent, previous |-> after]}
        ELSE UNION {LET v == NewVersion + i - 1 IN
               {[vs |-> Added(was.vs, v, place), parent |-> place.parent, previous |-> v] :
                  place \in IF {was.parent, was.previous, before} = {Null}
                            THEN ToCreate(was.vs)
                            ELSE IF was.parent = Null
                            THEN ToInsert(was.vs, was.previous, before)
                            ELSE ToAddChild(was.vs, was.parent, was.previous, before)}
               : was \in plan[i - 1]}
  IN  plan[n]

\* A todo of its own work item in each version of `list'.
WithTodos(list) ==
  /\ todos' = todos \o [i \in DOMAIN list |->
                [workItem |-> Len(workItems) + i, version |-> list[i],
                 source |-> Null, status |-> "wait"]]
  /\ workItems' = workItems \o [i \in DOMAIN list |->
                [status |-> "active", activeRecord |-> <<"todo", Len(todos) + i>>]]

\* The commit makes a child of every item that has a parent, so that the first
\* one too needs a parent that is open.  The old current version keeps its state.
\* The items' first todos are created in the order of the items.
BatchCreateVersions(n, parent, after, before) ==
  /\ \E plan \in Planned(n, parent, after, before) :
       LET new == DOMAIN plan.vs \ DOMAIN versions IN
       /\ Mutable(versions, plan.parent)
       /\ \/ /\ DOMAIN versions # {}
             /\ versions' = plan.vs /\ UNCHANGED currentVersionId
          \/ \E setCurrentTo \in new :
               /\ versions' = Switched(plan.vs, setCurrentTo,
                    IF currentVersionId = Null THEN "wait"
                    ELSE versions[currentVersionId].state)
               /\ currentVersionId' = setCurrentTo
       /\ \E k \in 0..(MaxTodo - Len(todos)) : \E list \in [1..k -> new] :
            (\A i, j \in 1..k : i < j => list[i] <= list[j]) /\ WithTodos(list)
  /\ UNCHANGED deferredItems

-----------------------------------------------------------------------------
(* The work recorded against versions.                                     *)

CreateTodo(v) ==
  /\ Len(todos) < MaxTodo
  /\ WithTodos(<<v>>)
  /\ UNCHANGED <<versions, currentVersionId, deferredItems>>

ActiveTodo(t) ==
  /\ todos[t].status = "wait"
  /\ workItems[todos[t].workItem].activeRecord = <<"todo", t>>

ActiveDeferred(d) ==
  LET workItem == workItems[deferredItems[d].workItem] IN
  /\ deferredItems[d].status = "pending"
  /\ workItem.status = "active"
  /\ workItem.activeRecord = <<"deferred", d>>

\* Faulty variant: the work item still names its last record.
FinishKeepsPointer(w) == workItems' = [workItems EXCEPT ![w].status = "closed"]

Finish(w) == workItems' = [workItems EXCEPT ![w] = [status |-> "closed", activeRecord |-> Null]]

CloseTodo(t) ==
  /\ ActiveTodo(t)
  /\ todos' = [todos EXCEPT ![t].status = "closed"]
  /\ Finish(todos[t].workItem)
  /\ UNCHANGED <<versions, currentVersionId, deferredItems>>

NewDeferred(w, origin, target) ==
  [workItem |-> w, origin |-> origin, target |-> target,
   status |-> "pending", activatedTodo |-> Null]

\* defer_work, of new work.
DeferNewWork(origin, target) ==
  /\ Len(deferredItems) < MaxDeferred
  /\ Downstream(origin, target)
  /\ deferredItems' = Append(deferredItems, NewDeferred(Len(workItems) + 1, origin, target))
  /\ workItems' = Append(workItems,
       [status |-> "active", activeRecord |-> <<"deferred", Len(deferredItems) + 1>>])
  /\ UNCHANGED <<versions, currentVersionId, todos>>

\* Faulty variant: the todo stays open beside its deferral.
DeferTodoLeavesOpen(t, target) ==
  LET w == todos[t].workItem IN
  /\ Len(deferredItems) < MaxDeferred
  /\ Downstream(todos[t].version, target)
  /\ ActiveTodo(t) /\ workItems[w].status = "active"
  /\ deferredItems' = Append(deferredItems, NewDeferred(w, todos[t].version, target))
  /\ workItems' = [workItems EXCEPT ![w].activeRecord = <<"deferred", Len(deferredItems) + 1>>]
  /\ UNCHANGED <<versions, currentVersionId, todos>>

\* defer_work, of a todo.
DeferTodo(t, target) ==
  LET w == todos[t].workItem IN
  /\ Len(deferredItems) < MaxDeferred
  /\ Downstream(todos[t].version, target)
  /\ ActiveTodo(t) /\ workItems[w].status = "active"
  /\ todos' = [todos EXCEPT ![t].status = "converted"]
  /\ deferredItems' = Append(deferredItems, NewDeferred(w, todos[t].version, target))
  /\ workItems' = [workItems EXCEPT ![w].activeRecord = <<"deferred", Len(deferredItems) + 1>>]
  /\ UNCHANGED <<versions, currentVersionId>>

\* review_deferred: a todo in the version it was deferred to.
ActivateDeferred(d) ==
  LET w == deferredItems[d].workItem
      t == Len(todos) + 1
  IN
  /\ t <= MaxTodo
  /\ ActiveDeferred(d)
  /\ todos' = Append(todos,
       [workItem |-> w, version |-> deferredItems[d].target, source |-> d, status |-> "wait"])
  /\ deferredItems' = [deferredItems EXCEPT ![d].status = "activated", ![d].activatedTodo = t]
  /\ workItems' = [workItems EXCEPT ![w].activeRecord = <<"todo", t>>]
  /\ UNCHANGED <<versions, currentVersionId>>

\* Faulty variant: any other version will do.
DeferAgainAnywhere(d, target) ==
  /\ ActiveDeferred(d)
  /\ deferredItems[d].target # target
  /\ deferredItems' = [deferredItems EXCEPT ![d].target = target]
  /\ UNCHANGED <<versions, currentVersionId, todos, workItems>>

\* review_deferred: downstream of the version it is deferred to so far.
DeferAgain(d, target) ==
  /\ ActiveDeferred(d)
  /\ Downstream(deferredItems[d].target, target)
  /\ deferredItems' = [deferredItems EXCEPT ![d].target = target]
  /\ UNCHANGED <<versions, currentVersionId, todos, workItems>>

\* Faulty variant: the work item stays active.
ResolveDeferredKeepsItem(d) ==
  /\ ActiveDeferred(d)
  /\ deferredItems' = [deferredItems EXCEPT ![d].status = "resolved"]
  /\ UNCHANGED <<versions, currentVersionId, todos, workItems>>

ResolveDeferred(d) ==
  /\ ActiveDeferred(d)
  /\ deferredItems' = [deferredItems EXCEPT ![d].status = "resolved"]
  /\ Finish(deferredItems[d].workItem)
  /\ UNCHANGED <<versions, currentVersionId, todos>>

-----------------------------------------------------------------------------

Lifecycle ==
  \E v \in DOMAIN versions :
    \/ PrepareVersion(v) \/ StartVersion(v) \/ MarkVersionComplete(v) \/ CloseVersion(v)
    \/ ShutdownVersion(v) \/ ReopenVersion(v) \/ SetCurrentVersion(v) \/ AdvanceToVersion(v)

TreeChange ==
  /\ Readable(versions)
  /\ \/ CreateVersion \/ InsertVersion \/ CreateChildVersion
     \/ \E v \in DOMAIN versions : ReorderVersions(v)
     \/ \E n \in {n \in 1..MaxBatch : NewVersion + n - 1 \in VersionId} :
          \E parent, after, before \in Neighbour :
            BatchCreateVersions(n, parent, after, before)

Work ==
  \/ \E v \in DOMAIN versions : CreateTodo(v)
  \/ \E t \in DOMAIN todos : CloseTodo(t)
  \/ \E u, v \in DOMAIN versions : DeferNewWork(u, v)
  \/ \E t \in DOMAIN todos, v \in DOMAIN versions : DeferTodo(t, v)
  \/ \E d \in DOMAIN deferredItems : ActivateDeferred(d) \/ ResolveDeferred(d)
  \/ \E d \in DOMAIN deferredItems, v \in DOMAIN versions : DeferAgain(d, v)

Next == Lifecycle \/ TreeChange \/ Work

Spec == Init /\ [][Next]_vars

-----------------------------------------------------------------------------
(* Properties.                                                             *)

\* Every save leaves a tree that the next command can read, and orders that
\* number the versions along the route: no sequence of creations, insertions,
\* batches and moves leaves a pointer that makes buildOrderedTree throw, which
\* would refuse every later change of the tree.
RouteIsReadable ==
  /\ Readable(versions)
  /\ LET route == Traversal(Lists(versions))
     IN  \A i \in DOMAIN route : versions[route[i]].order = i

\* The version project.currentVersionId names is the one version marked
\* isCurrent, whichever of five commands switched it; a route has no current
\* version only as long as it is empty.
CurrentIsMarked ==
  /\ DOMAIN versions # {} => currentVersionId \in DOMAIN versions
  /\ \A v \in DOMAIN versions : versions[v].isCurrent <=> v = currentVersionId

\* The records of w that are open.
OpenRecords(w) ==
  {<<"todo", t>> : t \in {t \in DOMAIN todos :
                           todos[t].workItem = w /\ todos[t].status = "wait"}}
  \cup
  {<<"deferred", d>> : d \in {d \in DOMAIN deferredItems :
                           deferredItems[d].workItem = w /\ deferredItems[d].status = "pending"}}

\* Work keeps one identity through todo, deferral and activation
\* (validateWorkItemLineage, without which the aggregate cannot be saved): an
\* active work item has exactly one open record, the one it names, a closed one
\* has none, and an activated deferral names a todo of the same work item.
LineageIsSound ==
  /\ \A w \in DOMAIN workItems :
       OpenRecords(w) = IF workItems[w].status = "active"
                        THEN {workItems[w].activeRecord} ELSE {}
  /\ \A d \in DOMAIN deferredItems : deferredItems[d].status = "activated" =>
       /\ deferredItems[d].activatedTodo \in DOMAIN todos
       /\ todos[deferredItems[d].activatedTodo].workItem = deferredItems[d].workItem

Forest == INSTANCE OrderedForest WITH
  Version <- VersionId,
  lists <- [p \in VersionId \cup {Null} |->
              IF p \in DOMAIN versions \cup {Null} THEN Siblings(versions, p) ELSE <<>>]

\* Rewriting every pointer of the route is, as a whole, the insertion of new
\* versions in one place or the move of one version within its siblings: no
\* command carries another version along, gives it another parent or loses it.
ImplementsForest == Forest!Spec

Forward(d) == Downstream(deferredItems[d].origin, deferredItems[d].target)

OrderKept ==
  \A u, v \in DOMAIN versions :
    Downstream(u, v) => versions'[u].order < versions'[v].order

\* Deferred work lies ahead of where it came from, however often it is deferred
\* again and whatever is inserted into the route in between: only a move of
\* versions past each other can put its review behind its origin.
DeferredStaysAhead ==
  [][OrderKept => \A d \in DOMAIN deferredItems' :
       (d \in DOMAIN deferredItems => Forward(d)) => Forward(d)']_vars

\* Closed history is immutable except for a successor appended to a closed
\* top-level tail (docs/specification/core-contract-evidence-matrix.md,
\* RL-ROUTE-004): a closed version keeps its parent, its neighbours and its
\* children.
ClosedHistoryStays ==
  [][\A v \in DOMAIN versions : versions[v].state = "close" =>
       /\ versions'[v].parent = versions[v].parent
       /\ versions'[v].previous = versions[v].previous
       /\ \/ versions'[v].next = versions[v].next
          \/ versions[v].parent = Null /\ versions[v].next = Null
       /\ Children(versions', v) = Children(versions, v)]_vars
=============================================================================
