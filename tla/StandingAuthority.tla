-------------------------- MODULE StandingAuthority --------------------------
(***************************************************************************)
(* The authority of one binding: the authorization profile in the registry *)
(* (installLocalL3AuthorizationProfile, bind), the calls of the broker     *)
(* that read and change it, and the decisions of its standing policy with  *)
(* their budgets (requestExactDecision), kept in the state file.           *)
(*                                                                         *)
(* Transactions on the state file are one step each, which is what         *)
(* AuthorityStateLock shows of them.  Of an authorization that has been    *)
(* decided only the stages are here: consumed, claimed and finalized by a  *)
(* commit, which is the subject of ExactCommit, or revoked.                *)
(***************************************************************************)
EXTENDS Naturals, Sequences, FiniteSets

CONSTANTS Call,         \* processes that call the broker
          Work,         \* the tasks each of them takes on
          Proposal,     \* what is to be decided
          Policy,       \* standing policies
          RuleId,
          Rules,        \* the rules of each policy, in order
          AlwaysPrompt, \* the proposals each policy leaves to the user
          Budget,       \* decisionBudget of each rule
          MaxRevision,  \* bound: no change is begun beyond this revision
          NoPolicy, NoProfile, NoLock, NoRule

Status == {"active", "disabled"}
Mode == {"interactive", "preauthorized"}
Rule == [id : RuleId, effect : {"allow", "deny"}, proposals : SUBSET Proposal]

\* validateL3AuthorizationProfile: no policy without a mode that uses it.
Semantics == {s \in [status : Status, mode : Mode, policy : Policy \cup {NoPolicy}] :
                s.mode = "interactive" => s.policy = NoPolicy}
Profile == [schema : {2, 3}, revision : Nat, epoch : Nat, means : Semantics]
Digest == [epoch : Nat, means : Semantics]

\* Of an authorization, and of its receipt once it is consumed.
Stage == {"active", "authorized", "commit_claimed", "committed", "revoked"}

\* What a call is for, or has done so far.
Tasks == [kind : {"bind", "install", "configure", "revoke", "installed", "refused"}]
  \cup [kind : {"decide"}, proposal : Proposal]

ASSUME AuthorityAssumption ==
  /\ Work \in [Call -> SUBSET Tasks]
  /\ Rules \in [Policy -> Seq(Rule)]
  /\ AlwaysPrompt \in [Policy -> SUBSET Proposal]
  /\ Budget \in [RuleId -> Nat \ {0}]
  /\ MaxRevision \in Nat
  /\ NoPolicy \notin Policy
  /\ NoRule \notin RuleId
  /\ NoLock \notin Call
  /\ NoProfile \notin Profile

VARIABLES
  registry,  \* profile.json, or NoProfile
  lock,      \* whose profile.lock is there
  usage,     \* decisions spent: a function of digests and rules
  grants,    \* authorizations: a function of digests and proposals
  active,    \* the digest that was activated last
  pc,        \* where each call is
  task,      \* what it is for
  bound,     \* the profile it has read
  wanted     \* the profile it installs

state == <<usage, grants, active>>
vars == <<registry, lock, usage, grants, active, pc, task, bound, wanted>>

\* Faulty variant: the revision is part of the digest.
DigestOfAll(p) == p

\* digestL3AuthorizationProfile: of everything but the revision and the times.
DigestOf(p) == [epoch |-> p.epoch, means |-> p.means]

Over == {"idle", "done", "failed"}
Holding == {"read", "compare", "write", "unlock"}

\* A profile of an earlier schema may be there.
Init ==
  /\ registry \in {NoProfile} \cup
       [schema : {2}, revision : {1}, epoch : {1}, means : Semantics]
  /\ lock = NoLock
  /\ usage = [k \in {} |-> 0]
  /\ grants = [id \in {} |-> NoRule]
  /\ active = NoProfile
  /\ pc = [c \in Call |-> "idle"]
  /\ task = [c \in Call |-> [kind |-> "bind"]]
  /\ bound = [c \in Call |-> NoProfile]
  /\ wanted = [c \in Call |-> NoProfile]

At(c, phase) == pc[c] = phase
Goto(c, phase) == pc' = [pc EXCEPT ![c] = phase]
Kind(c) == task[c].kind

\* A call ends, with a result or an error.
End(c, phase) ==
  /\ Goto(c, phase)
  /\ task' = [task EXCEPT ![c] = [kind |-> "bind"]]
  /\ bound' = [bound EXCEPT ![c] = NoProfile]
  /\ wanted' = [wanted EXCEPT ![c] = NoProfile]

-----------------------------------------------------------------------------
(* The registry.                                                           *)

\* Faulty variant: the lock directory is created with recursive: true.
LockAnyway == TRUE

\* withBindingLock: mkdir fails as long as the directory is there.
LockIsFree == lock = NoLock

Lock(c) ==
  /\ pc[c] \in {"lock", "lock to install"}
  /\ LockIsFree
  /\ lock' = c
  /\ Goto(c, IF At(c, "lock") THEN "read" ELSE "compare")
  /\ UNCHANGED <<registry, state, task, bound, wanted>>

\* After five seconds of waiting.
GiveUp(c) ==
  /\ pc[c] \in {"lock", "lock to install"}
  /\ lock # NoLock
  /\ End(c, "failed")
  /\ UNCHANGED <<registry, lock, state>>

\* migrateProfileV2.
Migrated(p) ==
  IF p.schema = 2
  THEN [p EXCEPT !.schema = 3, !.revision = @ + 1, !.epoch = @ + 1]
  ELSE p

\* readAndMigrateProfile, for a bind.
Read(c) ==
  /\ At(c, "read")
  /\ IF registry = NoProfile
     THEN UNCHANGED <<registry, bound>>
     ELSE registry' = Migrated(registry) /\ bound' = [bound EXCEPT ![c] = Migrated(registry)]
  /\ Goto(c, "unlock")
  /\ UNCHANGED <<lock, state, task, wanted>>

\* The checks of installLocalL3AuthorizationProfile against what it replaces;
\* from is what its caller replaces.
MayReplace(old, from, new) ==
  IF old = NoProfile
  THEN from = NoProfile /\ new.revision = 1 /\ new.epoch = 1
  ELSE /\ from # NoProfile /\ old.revision = from.revision
       /\ new.revision = old.revision + 1
       /\ new.epoch = IF new.means = old.means THEN old.epoch ELSE old.epoch + 1

\* installLocalL3AuthorizationProfile up to the comparison: a migration is
\* written even if the installation is then refused.
Compare(c) ==
  /\ At(c, "compare")
  /\ registry' = IF registry = NoProfile THEN NoProfile ELSE Migrated(registry)
  /\ IF MayReplace(registry', bound[c], wanted[c])
     THEN Goto(c, "write") /\ UNCHANGED task
     ELSE Goto(c, "unlock") /\ task' = [task EXCEPT ![c] = [kind |-> "refused"]]
  /\ UNCHANGED <<lock, state, bound, wanted>>

\* writeJsonAtomic.  What follows is a bind.
Write(c) ==
  /\ At(c, "write")
  /\ registry' = wanted[c]
  /\ task' = [task EXCEPT ![c] = [kind |-> "installed"]]
  /\ Goto(c, "unlock")
  /\ UNCHANGED <<lock, state, bound, wanted>>

\* The directory is removed.
Unlock(c) ==
  /\ At(c, "unlock")
  /\ lock' = NoLock
  /\ IF Kind(c) = "installed" THEN End(c, "lock")
     ELSE IF Kind(c) = "refused" \/ bound[c] = NoProfile THEN End(c, "failed")
     ELSE Goto(c, "activate") /\ UNCHANGED <<task, bound, wanted>>
  /\ UNCHANGED <<registry, state>>

-----------------------------------------------------------------------------
(* The authority state.                                                    *)


\* isStaleProvenance: decided under another profile.
Stale(id, p) == id.digest # DigestOf(p)

\* A commit is under way, or was left behind, under another profile.
Refuses(p) ==
  \E id \in DOMAIN grants : grants[id].status = "commit_claimed" /\ Stale(id, p)

\* activatePolicy: what was decided under another digest, and whose commit is
\* not claimed yet, is revoked ...
Activate(c) ==
  /\ At(c, "activate")
  /\ ~Refuses(bound[c])
  /\ active' = DigestOf(bound[c])
  /\ grants' = [id \in DOMAIN grants |->
       IF Stale(id, bound[c]) /\ grants[id].status \in {"active", "authorized"}
       THEN [grants[id] EXCEPT !.status = "revoked"] ELSE grants[id]]
  /\ IF Kind(c) = "bind" THEN End(c, "done")
     ELSE Goto(c, "bound") /\ UNCHANGED <<task, bound, wanted>>
  /\ UNCHANGED <<registry, lock, usage>>

\* ... unless it throws, and with it the call, and changes nothing.
ActivateRefused(c) ==
  /\ At(c, "activate")
  /\ Refuses(bound[c])
  /\ End(c, "failed")
  /\ UNCHANGED <<registry, lock, state>>

\* ruleMatches, over the conditions that hold at present.
Matching(policy, effect, proposal, holding) ==
  {i \in DOMAIN Rules[policy] :
     /\ Rules[policy][i].effect = effect
     /\ proposal \in Rules[policy][i].proposals
     /\ Rules[policy][i].id \in holding}

\* evaluateL3AuthorizationPolicy: the rule that allows the proposal.
AllowedBy(policy, proposal, holding) ==
  LET allow == Matching(policy, "allow", proposal, holding)
  IN IF \/ Matching(policy, "deny", proposal, holding) # {}
        \/ proposal \in AlwaysPrompt[policy]
        \/ allow = {}
     THEN NoRule
     ELSE Rules[policy][CHOOSE i \in allow : \A j \in allow : i <= j].id

Spent(k) == IF k \in DOMAIN usage THEN usage[k] ELSE 0

\* Faulty variant: the last decision counts as none.
NearlyExhausted(k) == Spent(k) > Budget[k.rule]

Exhausted(k) == Spent(k) >= Budget[k.rule]

\* Faulty variant: only authorizations that still can be used are looked for.
ActiveGrant(id) == id \in DOMAIN grants /\ grants[id].status = "active"

Granted(id) == id \in DOMAIN grants

\* An authorization is issued, and charged to its rule.
Issue(id, key) ==
  /\ key.rule # NoRule /\ ~Granted(id) /\ ~Exhausted(key)
  /\ usage' = [k \in DOMAIN usage \cup {key} |->
                 IF k = key THEN Spent(key) + 1 ELSE usage[k]]
  /\ grants' = [i \in DOMAIN grants \cup {id} |->
                  IF i = id THEN [rule |-> key.rule, status |-> "active"] ELSE grants[i]]
  /\ UNCHANGED active

\* requestExactDecision, under the conditions that hold: an authorization that
\* exists is returned again.
DecideUnder(c, holding) ==
  LET digest == DigestOf(bound[c])
      rule == AllowedBy(bound[c].means.policy, task[c].proposal, holding)
      id == [digest |-> digest, proposal |-> task[c].proposal]
      key == [digest |-> digest, rule |-> rule]
  IN \/ rule = NoRule /\ End(c, "failed") /\ UNCHANGED state
     \/ rule # NoRule /\ Granted(id) /\ End(c, "done") /\ UNCHANGED state
     \/ rule # NoRule /\ ~Granted(id) /\ Exhausted(key) /\ End(c, "failed") /\ UNCHANGED state
     \/ Issue(id, key) /\ End(c, "done")

Decide(c) ==
  /\ At(c, "bound") /\ Kind(c) = "decide"
  /\ bound[c].means.status = "active" /\ bound[c].means.policy # NoPolicy
  /\ \E holding \in SUBSET RuleId : DecideUnder(c, holding)
  /\ UNCHANGED <<registry, lock>>

\* The stages of the commit of a proposal.
Advance(id, from, to) ==
  /\ grants[id].status = from
  /\ grants' = [grants EXCEPT ![id].status = to]
  /\ UNCHANGED <<registry, lock, usage, active, pc, task, bound, wanted>>

Consume(id) == Advance(id, "active", "authorized")
Claim(id) == Advance(id, "authorized", "commit_claimed")
Finalize(id) == Advance(id, "commit_claimed", "committed")
Commit(id) == Consume(id) \/ Claim(id) \/ Finalize(id)

-----------------------------------------------------------------------------
(* The calls of the broker.                                                *)

\* A decision needs an active profile with a policy.
CannotDecide(c) ==
  /\ At(c, "bound") /\ Kind(c) = "decide"
  /\ bound[c].means.status # "active" \/ bound[c].means.policy = NoPolicy
  /\ End(c, "failed")
  /\ UNCHANGED <<registry, lock, state>>

Install(c, means, epoch) ==
  /\ wanted' = [wanted EXCEPT ![c] =
       [schema |-> 3, revision |-> bound[c].revision + 1, epoch |-> epoch, means |-> means]]
  /\ Goto(c, "lock to install")

\* configureStandingPolicy, after the user's decision.
Configure(c) ==
  /\ At(c, "bound") /\ Kind(c) = "configure"
  /\ LET old == bound[c]
     IN IF old.means.status = "active" /\ old.means.mode = "preauthorized"
        THEN \E p \in Policy :
               /\ Install(c, [old.means EXCEPT !.policy = p], old.epoch + 1)
               /\ UNCHANGED <<task, bound>>
        ELSE End(c, "failed")
  /\ UNCHANGED <<registry, lock, state>>

\* revokeAccess.
Revoke(c) ==
  /\ At(c, "bound") /\ Kind(c) = "revoke"
  /\ Install(c, [bound[c].means EXCEPT !.status = "disabled"], bound[c].epoch + 1)
  /\ UNCHANGED <<registry, lock, state, task, bound>>

\* Of configureStandingPolicy and revokeAccess: the profile is no longer the
\* one that the caller knows.
Conflict(c) ==
  /\ At(c, "bound") /\ Kind(c) \in {"configure", "revoke"}
  /\ End(c, "failed")
  /\ UNCHANGED <<registry, lock, state>>

\* installProfile starts from a profile its caller has seen, if any.
StartInstall(c) ==
  /\ \/ /\ bound' = [bound EXCEPT ![c] = NoProfile]
        /\ \E s \in Semantics : wanted' = [wanted EXCEPT ![c] =
             [schema |-> 3, revision |-> 1, epoch |-> 1, means |-> s]]
     \/ /\ registry # NoProfile
        /\ bound' = [bound EXCEPT ![c] = registry]
        /\ \E s \in Semantics, e \in {registry.epoch, registry.epoch + 1} :
             wanted' = [wanted EXCEPT ![c] =
               [schema |-> 3, revision |-> registry.revision + 1, epoch |-> e, means |-> s]]
  /\ Goto(c, "lock to install")

Start(c, t) ==
  /\ pc[c] \in Over
  /\ registry # NoProfile /\ t.kind \in {"install", "configure", "revoke"} =>
       registry.revision < MaxRevision
  /\ task' = [task EXCEPT ![c] = t]
  /\ IF t.kind = "install" THEN StartInstall(c)
     ELSE Goto(c, "lock") /\ UNCHANGED <<bound, wanted>>
  /\ UNCHANGED <<registry, lock, state>>

\* The process of a call dies.
Crash(c) ==
  /\ pc[c] \notin Over
  /\ End(c, "failed")
  /\ UNCHANGED <<registry, lock, state>>

-----------------------------------------------------------------------------
Step(c) ==
  \/ Lock(c) \/ Read(c) \/ Compare(c) \/ Write(c) \/ Unlock(c)
  \/ Activate(c) \/ ActivateRefused(c) \/ Decide(c) \/ CannotDecide(c) \/ Configure(c) \/ Revoke(c)

Next ==
  \/ \E c \in Call : Step(c) \/ GiveUp(c) \/ Conflict(c) \/ Crash(c)
       \/ \E t \in Work[c] : Start(c, t)
  \/ \E id \in DOMAIN grants : Commit(id)

Spec == Init /\ [][Next]_vars

\* Calls run on, and a process that binds does so again and again: it neither
\* dies nor waits in vain every time.  No commit need ever be finished.
Fairness ==
  /\ \A c \in Call : WF_vars(Step(c))
  /\ \A c \in Call : [kind |-> "bind"] \in Work[c] =>
       /\ SF_vars(lock = NoLock /\ Start(c, [kind |-> "bind"]))
       /\ SF_vars(Lock(c)) /\ SF_vars(Activate(c))

LiveSpec == Spec /\ Fairness

-----------------------------------------------------------------------------
(* Properties.                                                             *)

TypeOK ==
  /\ registry \in Profile \cup {NoProfile}
  /\ lock \in Call \cup {NoLock}
  /\ \A k \in DOMAIN usage : k \in [digest : Digest, rule : RuleId] /\ usage[k] \in Nat
  /\ \A id \in DOMAIN grants :
       /\ id \in [digest : Digest, proposal : Proposal]
       /\ grants[id] \in [rule : RuleId, status : Stage]
  /\ active \in Digest \cup {NoProfile}
  /\ pc \in [Call -> Over \cup Holding \cup {"lock", "lock to install", "activate", "bound"}]
  /\ task \in [Call -> Tasks]
  /\ bound \in [Call -> Profile \cup {NoProfile}]
  /\ wanted \in [Call -> Profile \cup {NoProfile}]

ChargedTo(k) ==
  {id \in DOMAIN grants : id.digest = k.digest /\ grants[id].rule = k.rule}

\* However often a decision is asked for again, by whomever and under whatever
\* rule matches by then, every authorization has been charged once, to a rule
\* that had not spent its budget (requestExactDecision).
DecisionsAreBudgeted ==
  /\ \A k \in DOMAIN usage :
       usage[k] = Cardinality(ChargedTo(k)) /\ usage[k] <= Budget[k.rule]
  /\ \A id \in DOMAIN grants :
       [digest |-> id.digest, rule |-> grants[id].rule] \in DOMAIN usage

Onward == [active |-> {"authorized", "revoked"}, authorized |-> {"commit_claimed", "revoked"},
           commit_claimed |-> {"committed"}, committed |-> {}, revoked |-> {}]

\* Under one profile a proposal is authorized once: whatever is decided again,
\* activated or committed, an authorization that was consumed or revoked is
\* never made usable again, and one that a commit has claimed never revoked.
DecidedOnce ==
  [][\A id \in DOMAIN grants :
       /\ id \in DOMAIN grants'
       /\ \/ grants'[id] = grants[id]
          \/ /\ grants'[id].rule = grants[id].rule
             /\ grants'[id].status \in Onward[grants[id].status]]_vars

\* A profile is only replaced by one that was made from it: an installation, a
\* policy or a revocation never undoes a change its author has not seen.
NoLostChange ==
  [][\A c \in Call : At(c, "write") /\ ~At(c, "write")' /\ registry' # registry
       => bound[c] = registry /\ registry' = wanted[c]]_vars

\* Whoever held the lock of the binding is gone.
Orphaned == lock # NoLock /\ pc[lock] \notin Holding

=============================================================================
