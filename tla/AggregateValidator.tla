------------------------- MODULE AggregateValidator -------------------------
(***************************************************************************)
(* What a load demands of an aggregate: the rules that                     *)
(* packages/json/src/validator.ts applies to the documents of a canonical  *)
(* root before anything is read from them.  A save applies none of them:   *)
(* an aggregate that breaks one can be written, and cannot be read again.  *)
(*                                                                         *)
(* The rules about records the route does not have here (proposals,        *)
(* approvals, receipts, events, constraints, assets, undo records) and     *)
(* about the shape of single fields are left out.                          *)
(***************************************************************************)
EXTENDS RouteLedger

(* The tree, from the pointers of its versions. *)

Pointers == {"parent", "previous", "next"}

\* validateVersionReference
Referenced(vs, v, pointer) == vs[v][pointer] \in (DOMAIN vs \cup {Null}) \ {v}

\* validateVersionChainCycles: the chain from each version comes to an end.
Acyclic(vs, pointer) ==
  \A loop \in SUBSET DOMAIN vs :
    loop # {} => \E v \in loop : vs[v][pointer] \notin loop

Mirrored(vs, v, pointer, back) ==
  vs[v][pointer] \in DOMAIN vs =>
    /\ vs[vs[v][pointer]].parent = vs[v].parent
    /\ vs[vs[v][pointer]][back] = v

\* One head, one tail, and a way from the head through all children of p.
Chained(vs, p) ==
  LET group == Children(vs, p)
      heads == {v \in group : vs[v].previous = Null}
      tails == {v \in group : vs[v].next = Null}
      visited[i \in 0..Cardinality(group)] ==
        IF i = 0 THEN heads
        ELSE visited[i - 1] \cup ({vs[v].next : v \in visited[i - 1]} \cap group)
  IN  Cardinality(group) > 1 =>
        Cardinality(heads) = 1 /\ Cardinality(tails) = 1 /\ visited[Cardinality(group)] = group

\* validateVersionSiblingStructure
SiblingStructure(vs) ==
  /\ \A v \in DOMAIN vs : Mirrored(vs, v, "previous", "next") /\ Mirrored(vs, v, "next", "previous")
  /\ \A p \in DOMAIN vs \cup {Null} : Chained(vs, p)

ValidTree(vs) ==
  /\ \A v \in DOMAIN vs, pointer \in Pointers : Referenced(vs, v, pointer)
  /\ \A pointer \in Pointers : Acyclic(vs, pointer)
  /\ SiblingStructure(vs)

-----------------------------------------------------------------------------

ValidCurrent ==
  /\ IF currentVersionId = Null THEN DOMAIN versions = {}
     ELSE currentVersionId \in DOMAIN versions
  /\ \A v \in DOMAIN versions : versions[v].isCurrent = (v = currentVersionId)

\* validateWorkItemLineage
ValidLineage(w) ==
  LET children == OpenRecords(w) IN
  IF workItems[w].status = "closed"
  THEN workItems[w].activeRecord = Null /\ children = {}
  ELSE workItems[w].activeRecord # Null /\ children = {workItems[w].activeRecord}

ValidTodo(todo) ==
  todo.workItem \in DOMAIN workItems /\ todo.version \in DOMAIN versions

\* collectDeferredItemInvariantViolations, and the references.
ValidDeferred(d) ==
  LET deferred == deferredItems[d] IN
  /\ deferred.workItem \in DOMAIN workItems
  /\ {deferred.origin, deferred.target} \subseteq DOMAIN versions
  /\ IF deferred.status = "activated"
     THEN /\ deferred.activatedTodo \in DOMAIN todos
          /\ todos[deferred.activatedTodo].workItem = deferred.workItem
          /\ todos[deferred.activatedTodo].source = d
     ELSE deferred.activatedTodo = Null

\* validateProjectAggregateSnapshot finds no error.
Valid ==
  /\ ValidTree(versions)
  /\ ValidCurrent
  /\ \A w \in DOMAIN workItems : ValidLineage(w)
  /\ \A t \in DOMAIN todos : ValidTodo(todos[t])
  /\ \A d \in DOMAIN deferredItems : ValidDeferred(d)

-----------------------------------------------------------------------------

\* Whatever a command saves can be loaded again: no sequence of them leaves
\* pointers, a current version, work items or deferrals that the validator of
\* the next load refuses, which would lock the project for good.
SavesAreValid == Valid

\* What decoding the documents of a root gives: records with their fields.  The
\* order of a version is whatever number its document has; no rule looks at it.
Decoded ==
  /\ \E n \in 0..MaxVersion :
       versions \in [1..n -> [parent : VersionId \cup {Null}, previous : VersionId \cup {Null},
                              next : VersionId \cup {Null}, order : Int,
                              state : VersionState, isCurrent : BOOLEAN]]
  /\ todos \in Seq(Todo) /\ deferredItems \in Seq(Deferred) /\ workItems \in Seq(WorkItem)

\* A project that somebody else wrote, another release, a merge or an editor, from
\* the load that accepts it on.
LoadedSpec == Decoded /\ Valid /\ [][Next]_vars

\* Two readers of the same pointers: those the validator lets in are those from
\* which the tree can be read, whatever an editor or a merge made of them.  A
\* root that loads is one whose tree can be changed.
RulesAgree(n) ==
  LET Pointer == 1..n \cup {Null}
  IN  \A vs \in [1..n -> [parent : Pointer, previous : Pointer, next : Pointer]] :
        ValidTree(vs) <=> Readable(vs)
=============================================================================
