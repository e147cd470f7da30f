----------------------------- MODULE RouteGuide -----------------------------
(***************************************************************************)
(* What the read side advises: the next action of the current version, the *)
(* operations that are legal on a version, the guide from the current      *)
(* version to a target, and the plan that closes a version out.            *)
(*                                                                         *)
(* Each is computed from the aggregate by code of its own, apart from the  *)
(* commands that carry the advice out; here each is an operator of the     *)
(* route's state, and the commands are those of RouteLedger.  An advice is *)
(* the action and the record it is about.  There is no pending proposal:   *)
(* while there is one every adviser names it and nothing else.  Legacy     *)
(* undo records and constraint checks, which no caller passes, are left    *)
(* out.                                                                    *)
(***************************************************************************)
EXTENDS RouteLedger

ASSUME AuditAssumption == Null # {}     \* an audit that names nothing is one

Advise(action, id) == <<action, id>>
Nothing == Advise("none", Null)

OpenTodos(v) == {t \in DOMAIN todos : todos[t].version = v /\ todos[t].status = "wait"}

\* Pending deferrals out of v that do not lie downstream of it.
Misrouted(v) ==
  {d \in DOMAIN deferredItems :
     /\ deferredItems[d].status = "pending" /\ deferredItems[d].origin = v
     /\ ~Downstream(v, deferredItems[d].target)}

Running == {v \in DOMAIN versions : versions[v].state = "running"}

-----------------------------------------------------------------------------
(* The close gate, with the residual audit it demands: Null when nobody    *)
(* has declared one, otherwise the records that take over what is left,    *)
(* <<"todo", id>> and <<"deferred", id, target>>.                          *)

Items ==
  ({"todo"} \X (DOMAIN todos))
  \cup ({"deferred"} \X (DOMAIN deferredItems) \X (DOMAIN versions))

TakesOver(v, item) ==
  LET id == item[2] IN
  IF item[1] = "todo"
  THEN todos[id].status = "wait" /\ Downstream(v, todos[id].version)
  ELSE /\ deferredItems[id].status = "pending" /\ deferredItems[id].origin = v
       /\ deferredItems[id].target = item[3] /\ Downstream(v, item[3])

\* Faulty variant: forgets the work deferred from v.
CloseBlockersWithoutDeferred(v, audit) ==
  LET found == [not_complete  |-> versions[v].state # "complete",
                open_todos    |-> OpenTodos(v) # {},
                missing_audit |-> audit = Null,
                residual      |-> audit # Null /\ \E item \in audit : ~TakesOver(v, item)]
  IN  {code \in DOMAIN found : found[code]}

CloseBlockers(v, audit) ==
  LET found == [not_complete  |-> versions[v].state # "complete",
                open_todos    |-> OpenTodos(v) # {},
                misrouted     |-> Misrouted(v) # {},
                missing_audit |-> audit = Null,
                residual      |-> audit # Null /\ \E item \in audit : ~TakesOver(v, item)]
  IN  {code \in DOMAIN found : found[code]}

CloseAllowed(v, audit) == CloseBlockers(v, audit) = {}

-----------------------------------------------------------------------------
(* get_next_action.                                                        *)

\* The current version is running or complete.  Without a pending proposal
\* nobody has declared an audit.
AtWork(c) ==
  LET open == OpenTodos(c)
      next == versions[c].next
      due == IF next # Null /\ versions[next].state = "ready" THEN Due(next) ELSE {}
  IN
  IF versions[c].state = "running"
  THEN IF open # {} THEN Advise("work_todo", Min(open))
       ELSE IF due = {} THEN Advise("decision_required", c) ELSE Nothing
  ELSE IF open # {} THEN Advise("close_todo", Min(open))
  ELSE IF CloseBlockers(c, Null) = {"missing_audit"} THEN Advise("review_residual_audit", c)
  ELSE IF Misrouted(c) # {} THEN Advise("review_deferred", Min(Misrouted(c)))
  ELSE Advise("review_context", c)

\* Faulty variant: the gate of the version to be started is not asked.
TowardsUngated(v, action) ==
  IF versions[v].state = "wait" THEN Advise("prepare_version", v)
  ELSE IF versions[v].state = "ready" THEN Advise(action, v)
  ELSE Nothing

\* On the way to a running v, which `action' would start.
Towards(v, action) ==
  IF versions[v].state = "wait" THEN Advise("prepare_version", v)
  ELSE IF versions[v].state = "ready"
  THEN IF Due(v) # {} THEN Advise("review_deferred", Min(Due(v))) ELSE Advise(action, v)
  ELSE Nothing

\* The current version is waiting, ready, suspended or closed.
Ahead(c) ==
  LET next == versions[c].next IN
  IF versions[c].state # "close" THEN Towards(c, "start_version")
  ELSE IF next # Null THEN Towards(next, "advance_to_version")
  ELSE IF versions[c].parent = Null THEN Advise("create_version", c)
  ELSE Nothing

\* `aborted': the current version was closed by a shutdown.
NextAction(aborted) ==
  LET c == currentVersionId IN
  IF c = Null THEN Advise("create_version", Null)
  ELSE IF versions[c].state \in {"running", "complete"} THEN AtWork(c)
  ELSE IF versions[c].state = "close" /\ aborted THEN Advise("review_context", c)
  ELSE IF Cardinality(Running) = 1 THEN Advise("set_current_version", Min(Running))
  ELSE IF Running # {} THEN Nothing
  ELSE Ahead(c)

-----------------------------------------------------------------------------
(* The workflow of a transition, and the operations that are legal on v.   *)

\* Faulty variant: a running version needs no step, current or not.
TransitionUnlessRunning(v) ==
  LET first == IF v = currentVersionId THEN "start_version" ELSE "set_current_version" IN
  IF versions[v].state = "running" THEN Advise("noop", v)
  ELSE IF StartGate(v) THEN Advise(first, v)
  ELSE Advise("blocked", v)

\* The first step that makes v the running current version.
Transition(v) ==
  LET first == IF v = currentVersionId THEN "start_version" ELSE "set_current_version" IN
  IF versions[v].state = "running"
  THEN IF v = currentVersionId THEN Advise("noop", v) ELSE Advise(first, v)
  ELSE IF StartGate(v) THEN Advise(first, v)
  ELSE Advise("blocked", v)

Legal(v, audit) ==
  LET state == versions[v].state
      allowed == [prepare_version       |-> state = "wait",
                  transition_version    |-> Transition(v)[1] \notin {"noop", "blocked"},
                  mark_version_complete |-> state = "running",
                  close_version         |-> CloseAllowed(v, audit),
                  shutdown_version      |-> state # "close",
                  reopen_version        |-> state \in {"close", "suspend"},
                  set_current_version   |-> ~versions[v].isCurrent]
  IN  {action \in DOMAIN allowed : allowed[action]}

-----------------------------------------------------------------------------
(* The guide from the current version to a target: its one step that is    *)
(* ready, or why there is none.                                            *)

\* The target is the current version itself.
ToCurrent(v, audit) ==
  LET state == versions[v].state IN
  CASE state = "wait"                -> Advise("prepare_version", v)
    [] state \in {"running", "close"} -> Advise("noop", v)
    [] state = "ready" -> IF StartGate(v) THEN Advise("start_version", v) ELSE Advise("blocked", v)
    [] state = "complete" ->
         IF CloseAllowed(v, audit) THEN Advise("close_version", v) ELSE Advise("blocked", v)
    [] OTHER -> Advise("manual_review", v)

\* Another version: the boundary of the current one is closed first.
ToAnother(c, v, audit) ==
  IF versions[v].state \in {"suspend", "complete", "close"} THEN Advise("manual_review", v)
  ELSE IF versions[c].state # "close"
  THEN IF CloseAllowed(c, audit) THEN Advise("close_version", c) ELSE Advise("blocked", c)
  ELSE IF versions[v].state = "wait" THEN Advise("prepare_version", v)
  ELSE IF StartGate(v) /\ versions[c].next = v THEN Advise("advance_to_version", v)
  ELSE Transition(v)

Guide(v, audit) ==
  IF v = currentVersionId THEN ToCurrent(v, audit) ELSE ToAnother(currentVersionId, v, audit)

-----------------------------------------------------------------------------
(* plan_version_closeout: the first step of the plan.  `audit' is that of  *)
(* the latest committed close of v, which a reopened version still has.    *)

Plan(v, audit) ==
  LET open == OpenTodos(v) IN
  IF versions[v].state = "close" THEN Advise("noop", v)
  ELSE IF open # {} THEN Advise("close_todo", Min(open))
  ELSE IF versions[v].state = "running" THEN Advise("mark_version_complete", v)
  ELSE IF CloseAllowed(v, audit) THEN Advise("close_version", v)
  ELSE IF versions[v].state = "complete" /\ audit = Null THEN Advise("review_residual_audit", v)
  ELSE Nothing

\* The next action of the close-out view (get_version_closeout), from code of
\* its own and in another order.
CloseoutAction(v, audit) ==
  LET open == OpenTodos(v) IN
  IF versions[v].state = "close" THEN Nothing
  ELSE IF open # {} THEN Advise("close_todo", Min(open))
  ELSE IF versions[v].state = "running" THEN Advise("mark_version_complete", v)
  ELSE IF versions[v].state = "complete" /\ "missing_audit" \in CloseBlockers(v, audit)
  THEN Advise("review_residual_audit", v)
  ELSE IF CloseAllowed(v, audit) THEN Advise("close_version", v)
  ELSE Nothing

-----------------------------------------------------------------------------
(* The commands that carry an advice out.                                  *)

Review(d) ==
  \/ ActivateDeferred(d) \/ ResolveDeferred(d)
  \/ \E v \in DOMAIN versions : DeferAgain(d, v)

\* When work is over the agent marks the version complete: it has none to add.
Execute(advice) ==
  LET action == advice[1]
      id == advice[2]
  IN
  \/ action = "create_version" /\ Readable(versions) /\ CreateVersion
  \/ action \in {"work_todo", "close_todo"} /\ CloseTodo(id)
  \/ action \in {"decision_required", "mark_version_complete"} /\ MarkVersionComplete(id)
  \/ action = "review_deferred" /\ Review(id)
  \/ action = "prepare_version" /\ PrepareVersion(id)
  \/ action = "start_version" /\ StartVersion(id)
  \/ action = "set_current_version" /\ SetCurrentVersion(id)
  \/ action = "advance_to_version" /\ AdvanceToVersion(id)
  \/ action = "close_version" /\ CloseVersion(id)
  \/ action = "shutdown_version" /\ ShutdownVersion(id)
  \/ action = "reopen_version" /\ ReopenVersion(id)

\* Advice that asks for no command.
Pauses == {"none", "noop", "blocked", "manual_review", "review_context", "review_residual_audit"}

\* What the command needs that carries the advice out: its guard holds in the
\* state the advice was read from.
Ready(advice) ==
  LET action == advice[1]
      id == advice[2]
  IN
  \/ action \in Pauses
  \/ action = "create_version" /\ Readable(versions) /\ ToCreate(versions) # {}
  \/ action \in {"work_todo", "close_todo"} /\ id \in DOMAIN todos /\ ActiveTodo(id)
  \/ action = "review_deferred" /\ id \in DOMAIN deferredItems /\ ActiveDeferred(id)
  \/ /\ id \in DOMAIN versions
     /\ \/ action \in {"decision_required", "mark_version_complete"} /\ versions[id].state = "running"
        \/ action = "prepare_version" /\ versions[id].state = "wait"
        \/ action = "start_version" /\ StartGate(id)
        \/ action = "set_current_version"
        \/ action = "advance_to_version" /\ AdvanceGate(id)
        \/ action = "close_version" /\ CloseGate(id)
        \/ action = "shutdown_version" /\ versions[id].state # "close"
        \/ action = "reopen_version" /\ versions[id].state \in {"close", "suspend"}

-----------------------------------------------------------------------------
(* Properties.                                                             *)

\* Every audit that a close may declare, or none.
Audits == {Null} \cup SUBSET Items

\* Whatever an adviser names, with the input it hands out, the command accepts
\* in the state the advice was read from: the five projections and the guards
\* of the domain services, the tree and the work items agree.
AdviceIsAccepted ==
  /\ \A aborted \in BOOLEAN : Ready(NextAction(aborted))
  /\ \A v \in DOMAIN versions, audit \in Audits :
       Ready(Guide(v, audit)) /\ Ready(Plan(v, audit)) /\ Ready(CloseoutAction(v, audit))

\* Everything that a command carries out, as advice.
Commands ==
  ({"prepare_version", "start_version", "mark_version_complete", "close_version",
    "shutdown_version", "reopen_version", "set_current_version",
    "advance_to_version"} \X (DOMAIN versions))
  \cup ({"close_todo"} \X (DOMAIN todos))
  \cup ({"review_deferred"} \X (DOMAIN deferredItems))
  \cup (IF NewVersion \in VersionId THEN {<<"create_version", Null>>} ELSE {})

\* Ready is no more and no less than what lets the command go through.
ReadyIsExact == \A a \in Commands : Ready(a) <=> ENABLED Execute(a)

\* The operations shown as legal on v, with an audit, are the ready ones; of a
\* transition the first step, of a close one whose audit names only records
\* that take the work over.
LegalIsReady(v, audit) ==
  LET legal == Legal(v, audit) IN
  /\ \A action \in {"prepare_version", "mark_version_complete", "shutdown_version",
                    "reopen_version"} :
       action \in legal <=> Ready(Advise(action, v))
  /\ Ready(Transition(v))
  /\ "transition_version" \in legal <=> Transition(v)[1] \notin Pauses
  /\ "close_version" \in legal => Ready(Advise("close_version", v))
  /\ audit # Null /\ (\A item \in audit : TakesOver(v, item)) =>
       ("close_version" \in legal <=> Ready(Advise("close_version", v)))
  /\ "set_current_version" \in legal <=> v # currentVersionId

\* The operations shown as legal are those whose command would go through, no
\* more and no fewer; only making the current version current is not offered,
\* though it would be accepted.
LegalOperationsAreExact ==
  /\ ReadyIsExact
  /\ \A v \in DOMAIN versions, audit \in Audits : LegalIsReady(v, audit)

\* What is still to come of the life of a version that is not interrupted.
Later == [wait     |-> {"ready", "running", "complete", "close"},
          ready    |-> {"running", "complete", "close"},
          running  |-> {"complete", "close"},
          complete |-> {"close"},
          close    |-> {},
          suspend  |-> {}]
StatesToCome == {pair \in (DOMAIN versions) \X VersionState : pair[2] \in Later[versions[pair[1]].state]}

Pending == {d \in DOMAIN deferredItems : deferredItems[d].status = "pending"}

\* How far the work to be reviewed can still be put off.
Postponements ==
  {pair \in Pending \X (DOMAIN versions) : Downstream(deferredItems[pair[1]].target, pair[2])}

Uncreated == VersionId \ DOMAIN versions
Waiting == {t \in DOMAIN todos : todos[t].status = "wait"}
LeftIdle == {v \in {currentVersionId} : v # Null /\ versions[v].state # "running"}

\* What is left to do, from what may bring the rest back to what brings nothing
\* back: a new version has its life before it, an activated deferral is a todo,
\* and a version is started after the work that was due in it.
Remaining == <<Uncreated, Pending, Postponements, Waiting, StatesToCome, LeftIdle>>

\* The first of the sets that differs has lost members.
Below(new, old) ==
  \E i \in DOMAIN old :
    /\ new[i] # old[i] /\ new[i] \subseteq old[i]
    /\ \A j \in 1..(i - 1) : new[j] = old[j]

\* Every command that carries out what get_next_action says leaves less to do:
\* whatever it brings back, such as the todo of an activated deferral, it pays
\* for with something that no advice brings back.  So the advice cannot lead in
\* a circle, however the agent reviews what is deferred.
AdviceDescends == [][Execute(NextAction(FALSE)) => Below(Remaining', Remaining)]_vars

\* An agent that does what get_next_action says, and nothing else, comes to an
\* end: no advice undoes what an earlier one led to.
AdviceSettles ==
  <>[][Execute(NextAction(FALSE))]_vars => <>[][FALSE]_vars

\* Nothing but the guide's own steps stands between the current version and v.
OpenWay(v) ==
  /\ v \in DOMAIN versions
  /\ \A t \in DOMAIN todos : todos[t].status # "wait"
  /\ \A d \in DOMAIN deferredItems : deferredItems[d].status # "pending"
  /\ IF v = currentVersionId THEN versions[v].state # "suspend"
     ELSE /\ versions[currentVersionId].state \in {"complete", "close"}
          /\ versions[v].state \in {"wait", "ready", "running"}

Guided(v) == OpenWay(v) /\ Execute(Guide(v, {}))

Arrived(v) == v = currentVersionId /\ versions[v].state \in {"running", "close"}

\* What the guide has left to do on the way to v.
WayTo(v) == <<StatesToCome, {v} \ {currentVersionId}>>

\* On an open way the guide never stops short of its target: it names a step,
\* and every step of it leaves the way open and shorter.
GuideAdvances ==
  /\ [](\A v \in DOMAIN versions : OpenWay(v) /\ ~Arrived(v) => Guide(v, {})[1] \notin Pauses)
  /\ [][\A v \in DOMAIN versions : Guided(v) => OpenWay(v)' /\ Below(WayTo(v)', WayTo(v))]_vars

\* An agent that does what the guide to v says, and nothing else, while no work
\* is left on the way, reaches it: v is current, and running or closed.  No
\* step the guide names leads to a state for which it has no further step.
GuideArrives ==
  \A v \in VersionId :
    <>[][Guided(v)]_vars /\ WF_vars(Guided(v)) /\ <>[]OpenWay(v)
      => <>Arrived(v)
=============================================================================
