----------------------- MODULE StandingAuthorityProofs -----------------------
(***************************************************************************)
(* Theorems about the authority of a binding, for any number of calls,     *)
(* proposals, policies and rules, and for every budget.                    *)
(***************************************************************************)
EXTENDS StandingAuthority, FiniteSetTheorems, TLAPS

\* Phases in which a call has what it needs.
HasRead == {"activate", "bound"}
Installs == {"lock to install", "compare", "write"}

Equipped ==
  \A c \in Call : /\ pc[c] \in HasRead => bound[c] # NoProfile
                  /\ pc[c] \in Installs => wanted[c] # NoProfile

TypeInv == TypeOK /\ Equipped

-----------------------------------------------------------------------------
\* A set of natural numbers that is not empty has a least element.
LEMMA LeastExists ==
  ASSUME NEW S \in SUBSET Nat, S # {}
  PROVE  \E i \in S : \A j \in S : i <= j
<1>1. IsWellFoundedOn(OpToRel(<, Nat), Nat)
  BY NatLessThanWellFounded
<1>2. PICK i \in S : \A j \in S : ~ (<<j, i>> \in OpToRel(<, Nat))
  BY <1>1, WFMin
<1>3. \A j \in S : ~ (j < i)
  BY <1>2 DEF OpToRel
<1>4. \A j \in S : j \in Nat /\ i \in Nat
  OBVIOUS
<1> QED BY <1>3, <1>4

\* A policy allows by one of its rules, or not at all.
LEMMA AllowedByType ==
  ASSUME NEW policy \in Policy, NEW proposal, NEW holding
  PROVE  AllowedBy(policy, proposal, holding) \in RuleId \cup {NoRule}
<1> DEFINE allow == Matching(policy, "allow", proposal, holding)
<1>1. Rules[policy] \in Seq(Rule)
  BY AuthorityAssumption DEF AuthorityAssumption
<1>2. allow \subseteq DOMAIN Rules[policy] /\ allow \in SUBSET Nat
  BY <1>1 DEF Matching
<1>3. CASE allow = {}
  BY <1>3 DEF AllowedBy
<1>4. CASE allow # {}
  <2>1. \E i \in allow : \A j \in allow : i <= j
    BY <1>2, <1>4, LeastExists
  <2> DEFINE first == CHOOSE i \in allow : \A j \in allow : i <= j
  <2>2. first \in allow
    BY <2>1
  <2>3. Rules[policy][first] \in Rule
    BY <1>1, <1>2, <2>2
  <2>4. Rules[policy][first].id \in RuleId
    BY <2>3 DEF Rule
  <2> QED BY <2>4 DEF AllowedBy
<1> QED BY <1>3, <1>4

\* What is computed from a profile.
LEMMA ProfileFacts ==
  ASSUME NEW p \in Profile
  PROVE  /\ p # NoProfile
         /\ DigestOf(p) \in Digest
         /\ Migrated(p) \in Profile
         /\ \/ Migrated(p) = p
            \/ Migrated(p).revision = p.revision + 1
<1>1. p # NoProfile
  BY AuthorityAssumption DEF AuthorityAssumption
<1>2. DigestOf(p) \in Digest
  BY DEF DigestOf, Digest, Profile
<1>3. CASE p.schema = 2
  <2>1. Migrated(p) = [p EXCEPT !.schema = 3, !.revision = p.revision + 1, !.epoch = p.epoch + 1]
    BY <1>3 DEF Migrated
  <2>2. p.revision \in Nat /\ p.epoch \in Nat
    BY DEF Profile
  <2>3. p.revision + 1 \in Nat /\ p.epoch + 1 \in Nat
    BY <2>2
  <2>4. Migrated(p) \in Profile /\ Migrated(p).revision = p.revision + 1
    BY <2>1, <2>3 DEF Profile
  <2> QED BY <1>1, <1>2, <2>4
<1>4. CASE p.schema # 2
  BY <1>1, <1>2, <1>4 DEF Migrated
<1> QED BY <1>3, <1>4

\* The profiles a call makes from the one it is bound to.
LEMMA SemanticsFacts ==
  ASSUME NEW s \in Semantics
  PROVE  /\ [s EXCEPT !.status = "disabled"] \in Semantics
         /\ s.mode = "preauthorized" =>
              \A p \in Policy : [s EXCEPT !.policy = p] \in Semantics
         /\ s.policy \in Policy \cup {NoPolicy}
BY DEF Semantics, Status, Mode

\* Whatever is consumed or activated, a key that is not there counts nothing.
LEMMA SpentType ==
  ASSUME TypeOK, NEW k
  PROVE  Spent(k) \in Nat /\ Spent(k) + 1 \in Nat
<1>1. Spent(k) \in Nat
  BY DEF TypeOK, Spent
<1>2. \A n \in Nat : n + 1 \in Nat
  OBVIOUS
<1> QED BY <1>1, <1>2

-----------------------------------------------------------------------------
LEMMA TypeInit == Init => TypeInv
<1> SUFFICES ASSUME Init PROVE TypeInv
  OBVIOUS
<1>1. registry \in Profile \cup {NoProfile}
  BY DEF Init, Profile
<1> QED BY <1>1 DEF Init, TypeInv, TypeOK, Equipped, Over, Tasks, HasRead, Installs

\* A call that ends, wherever it goes next, is typed.
LEMMA EndType ==
  ASSUME TypeInv, NEW c \in Call, NEW phase \in {"done", "failed", "lock"}, End(c, phase)
  PROVE  /\ pc' \in [Call -> Over \cup Holding \cup {"lock", "lock to install", "activate", "bound"}]
         /\ task' \in [Call -> Tasks]
         /\ bound' \in [Call -> Profile \cup {NoProfile}]
         /\ wanted' \in [Call -> Profile \cup {NoProfile}]
         /\ Equipped'
BY DEF End, Goto, TypeInv, TypeOK, Equipped, Over, Holding, Tasks, HasRead, Installs

\* Steps that are about the registry.
LEMMA TypeRegistry ==
  ASSUME TypeInv, NEW c \in Call,
         Lock(c) \/ GiveUp(c) \/ Read(c) \/ Compare(c) \/ Write(c) \/ Unlock(c)
  PROVE  TypeInv'
<1> USE DEF TypeInv, TypeOK, Equipped, At, Goto, Kind, Over, Holding, HasRead, Installs, Tasks, state
<1>1. CASE Lock(c)
  BY <1>1 DEF Lock
<1>2. CASE GiveUp(c)
  BY <1>2, EndType DEF GiveUp
<1>3. CASE Read(c)
  <2>1. CASE registry = NoProfile
    BY <1>3, <2>1 DEF Read
  <2>2. CASE registry # NoProfile
    <3>1. Migrated(registry) \in Profile
      BY <2>2, ProfileFacts
    <3>2. /\ registry' = Migrated(registry)
          /\ bound' = [bound EXCEPT ![c] = Migrated(registry)]
          /\ pc' = [pc EXCEPT ![c] = "unlock"]
          /\ UNCHANGED <<lock, usage, grants, active, task, wanted>>
      BY <1>3, <2>2 DEF Read
    <3>3. bound' \in [Call -> Profile \cup {NoProfile}]
      BY <3>1, <3>2
    <3>4. pc' \in [Call -> Over \cup Holding \cup {"lock", "lock to install", "activate", "bound"}]
      BY <3>2
    <3>5. Equipped'
      BY <3>2
    <3> QED BY <3>1, <3>2, <3>3, <3>4, <3>5
  <2> QED BY <2>1, <2>2
<1>4. CASE Compare(c)
  <2>1. registry' \in Profile \cup {NoProfile}
    BY <1>4, ProfileFacts DEF Compare
  <2>2. CASE MayReplace(registry', bound[c], wanted[c])
    BY <1>4, <2>1, <2>2 DEF Compare
  <2>3. CASE ~ MayReplace(registry', bound[c], wanted[c])
    <3>1. /\ pc' = [pc EXCEPT ![c] = "unlock"]
          /\ task' = [task EXCEPT ![c] = [kind |-> "refused"]]
          /\ UNCHANGED <<lock, usage, grants, active, bound, wanted>>
      BY <1>4, <2>3 DEF Compare
    <3>2. task' \in [Call -> Tasks]
      BY <3>1
    <3>3. pc' \in [Call -> Over \cup Holding \cup {"lock", "lock to install", "activate", "bound"}]
      BY <3>1
    <3>4. Equipped'
      BY <3>1
    <3> QED BY <2>1, <3>1, <3>2, <3>3, <3>4
  <2> QED BY <2>2, <2>3
<1>5. CASE Write(c)
  BY <1>5 DEF Write
<1>6. CASE Unlock(c)
  <2>1. CASE Kind(c) = "installed"
    BY <1>6, <2>1, EndType DEF Unlock
  <2>2. CASE Kind(c) # "installed" /\ (Kind(c) = "refused" \/ bound[c] = NoProfile)
    BY <1>6, <2>2, EndType DEF Unlock
  <2>3. CASE Kind(c) # "installed" /\ ~ (Kind(c) = "refused" \/ bound[c] = NoProfile)
    BY <1>6, <2>3 DEF Unlock
  <2> QED BY <2>1, <2>2, <2>3
<1> QED BY <1>1, <1>2, <1>3, <1>4, <1>5, <1>6

\* Steps that are about the state file.
LEMMA TypeState ==
  ASSUME TypeInv, NEW c \in Call,
         Activate(c) \/ ActivateRefused(c) \/ Decide(c) \/ CannotDecide(c)
  PROVE  TypeInv'
<1> USE DEF TypeInv, TypeOK, Equipped, At, Goto, Kind, Over, Holding, HasRead, Installs, state
<1>1. CASE Activate(c)
  <2>1. bound[c] \in Profile
    BY <1>1 DEF Activate
  <2>2. active' \in Digest
    BY <1>1, <2>1, ProfileFacts DEF Activate
  <2>3. /\ DOMAIN grants' = DOMAIN grants
        /\ \A id \in DOMAIN grants :
             grants'[id] \in [rule : RuleId, status : Stage]
    BY <1>1 DEF Activate, Stage
  <2>4. UNCHANGED <<registry, lock, usage>>
    BY <1>1 DEF Activate
  <2>5. CASE Kind(c) = "bind"
    <3>1. End(c, "done")
      BY <1>1, <2>5 DEF Activate
    <3> QED BY <2>2, <2>3, <2>4, <3>1, EndType
  <2>6. CASE Kind(c) # "bind"
    <3>1. pc' = [pc EXCEPT ![c] = "bound"] /\ UNCHANGED <<task, bound, wanted>>
      BY <1>1, <2>6 DEF Activate
    <3>2. pc' \in [Call -> Over \cup Holding \cup {"lock", "lock to install", "activate", "bound"}]
      BY <3>1
    <3>3. bound[c] # NoProfile
      BY <2>1, ProfileFacts
    <3>4. Equipped'
      BY <3>1, <3>3
    <3> QED BY <2>2, <2>3, <2>4, <3>1, <3>2, <3>4
  <2> QED BY <2>5, <2>6
<1>2. CASE Decide(c)
  <2>1. bound[c] \in Profile
    BY <1>2 DEF Decide
  <2>2. PICK holding \in SUBSET RuleId : DecideUnder(c, holding)
    BY <1>2 DEF Decide
  <2> DEFINE digest == DigestOf(bound[c])
             rule == AllowedBy(bound[c].means.policy, task[c].proposal, holding)
             id == [digest |-> digest, proposal |-> task[c].proposal]
             key == [digest |-> digest, rule |-> rule]
  <2>3. End(c, "failed") \/ End(c, "done")
    BY <2>2 DEF DecideUnder
  <2>4. UNCHANGED <<registry, lock>>
    BY <1>2 DEF Decide
  <2>5. CASE UNCHANGED state
    BY <2>3, <2>4, <2>5, EndType
  <2>6. CASE Issue(id, key)
    <3>1. bound[c].means \in Semantics
      BY <2>1 DEF Profile
    <3>2. rule \in RuleId \cup {NoRule}
      BY <1>2, <3>1, SemanticsFacts, AllowedByType DEF Decide
    <3>3. digest \in Digest
      BY <2>1, ProfileFacts
    <3>4. task[c].proposal \in Proposal
      BY <1>2 DEF Decide, Tasks
    <3>5. rule \in RuleId
      BY <2>6, <3>2 DEF Issue
    <3>6. /\ usage' = [k \in DOMAIN usage \cup {key} |-> IF k = key THEN Spent(key) + 1 ELSE usage[k]]
          /\ grants' = [i \in DOMAIN grants \cup {id} |->
                           IF i = id THEN [rule |-> rule, status |-> "active"] ELSE grants[i]]
          /\ UNCHANGED active
      BY <2>6 DEF Issue
    <3>7. Spent(key) + 1 \in Nat
      BY SpentType
    <3>k. key \in [digest : Digest, rule : RuleId] /\ id \in [digest : Digest, proposal : Proposal]
      BY <3>3, <3>4, <3>5
    <3>g. [rule |-> rule, status |-> "active"] \in [rule : RuleId, status : Stage]
      BY <3>5 DEF Stage
    <3> HIDE DEF key, id, rule, digest
    <3>8. \A k \in DOMAIN usage' : k \in [digest : Digest, rule : RuleId] /\ usage'[k] \in Nat
      <4> SUFFICES ASSUME NEW k \in DOMAIN usage'
                   PROVE  k \in [digest : Digest, rule : RuleId] /\ usage'[k] \in Nat
        OBVIOUS
      <4>1. k \in DOMAIN usage \cup {key}
        BY <3>6
      <4>2. CASE k = key
        <5>1. usage'[k] = Spent(key) + 1
          BY <3>6, <4>1, <4>2
        <5>2. usage'[k] \in Nat
          BY <3>7, <5>1
        <5>3. k \in [digest : Digest, rule : RuleId]
          BY <3>k, <4>2
        <5> QED BY <5>2, <5>3
      <4>3. CASE k # key
        BY <3>6, <4>1, <4>3
      <4> QED BY <4>2, <4>3
    <3>9. \A i \in DOMAIN grants' :
            /\ i \in [digest : Digest, proposal : Proposal]
            /\ grants'[i] \in [rule : RuleId, status : Stage]
      BY <3>k, <3>g, <3>6
    <3> QED BY <2>3, <2>4, <3>6, <3>8, <3>9, EndType
  <2>7. UNCHANGED state \/ Issue(id, key)
    BY <2>2 DEF DecideUnder
  <2> QED BY <2>5, <2>6, <2>7
<1>3. CASE CannotDecide(c) \/ ActivateRefused(c)
  BY <1>3, EndType DEF CannotDecide, ActivateRefused
<1> QED BY <1>1, <1>2, <1>3

\* A step of a commit moves one authorization on.
LEMMA CommitFacts ==
  ASSUME TypeInv, NEW used \in DOMAIN grants, Commit(used)
  PROVE  /\ \E to \in Stage : /\ to \in Onward[grants[used].status]
                             /\ grants' = [grants EXCEPT ![used] = [grants[used] EXCEPT !.status = to]]
         /\ UNCHANGED <<registry, lock, usage, active, pc, task, bound, wanted>>
<1>1. ASSUME NEW from, NEW to \in Stage, Advance(used, from, to)
      PROVE  /\ grants[used].status = from
             /\ grants' = [grants EXCEPT ![used] = [grants[used] EXCEPT !.status = to]]
             /\ UNCHANGED <<registry, lock, usage, active, pc, task, bound, wanted>>
  BY <1>1 DEF Advance
<1> QED BY <1>1 DEF Commit, Consume, Claim, Finalize, Stage, Onward

LEMMA TypeCommit ==
  ASSUME TypeInv, NEW used \in DOMAIN grants, Commit(used)
  PROVE  TypeInv'
<1> USE DEF TypeInv, TypeOK, Equipped
<1>1. PICK to \in Stage : grants' = [grants EXCEPT ![used] = [grants[used] EXCEPT !.status = to]]
  BY CommitFacts
<1>2. \A id \in DOMAIN grants : grants[id] \in [rule : RuleId, status : Stage]
  OBVIOUS
<1>3. [grants[used] EXCEPT !.status = to] \in [rule : RuleId, status : Stage]
  BY <1>2
<1>4. \A id \in DOMAIN grants' :
        /\ id \in [digest : Digest, proposal : Proposal]
        /\ grants'[id] \in [rule : RuleId, status : Stage]
  BY <1>1, <1>2, <1>3
<1> QED BY <1>4, CommitFacts

\* The profile that a call sends to be installed is a profile.
LEMMA InstallType ==
  ASSUME TypeInv, NEW c \in Call, bound[c] \in Profile,
         NEW means \in Semantics, NEW epoch \in Nat, Install(c, means, epoch),
         UNCHANGED <<registry, lock, state, task, bound>>
  PROVE  TypeInv'
<1> DEFINE new == [schema |-> 3, revision |-> bound[c].revision + 1, epoch |-> epoch, means |-> means]
<1>1. bound[c].revision + 1 \in Nat
  BY DEF Profile
<1>2. new \in Profile
  BY <1>1 DEF Profile
<1>3. new # NoProfile
  BY <1>2, ProfileFacts
<1>4. wanted' = [wanted EXCEPT ![c] = new] /\ pc' = [pc EXCEPT ![c] = "lock to install"]
  BY DEF Install, Goto
<1> HIDE DEF new
<1>5. wanted' \in [Call -> Profile \cup {NoProfile}]
  BY <1>2, <1>4 DEF TypeInv, TypeOK
<1>6. pc' \in [Call -> Over \cup Holding \cup {"lock", "lock to install", "activate", "bound"}]
  BY <1>4 DEF TypeInv, TypeOK
<1>7. Equipped'
  BY <1>3, <1>4 DEF TypeInv, TypeOK, Equipped, HasRead, Installs
<1> QED BY <1>5, <1>6, <1>7 DEF TypeInv, TypeOK, state

\* Steps of the broker's calls.
LEMMA TypeCalls ==
  ASSUME TypeInv, NEW c \in Call,
         Configure(c) \/ Revoke(c) \/ Conflict(c) \/ Crash(c) \/ \E t \in Work[c] : Start(c, t)
  PROVE  TypeInv'
<1>1. CASE Configure(c)
  <2>1. bound[c] \in Profile
    BY <1>1 DEF Configure, At, TypeInv, TypeOK, Equipped, HasRead
  <2>2. bound[c].means \in Semantics /\ bound[c].epoch \in Nat
    BY <2>1 DEF Profile
  <2>3. CASE bound[c].means.status = "active" /\ bound[c].means.mode = "preauthorized"
    <3>1. PICK p \in Policy :
            /\ Install(c, [bound[c].means EXCEPT !.policy = p], bound[c].epoch + 1)
            /\ UNCHANGED <<task, bound>>
      BY <1>1, <2>3 DEF Configure
    <3>2. [bound[c].means EXCEPT !.policy = p] \in Semantics
      BY <2>2, <2>3, SemanticsFacts
    <3>3. bound[c].epoch + 1 \in Nat
      BY <2>2
    <3> QED BY <1>1, <2>1, <3>1, <3>2, <3>3, InstallType DEF Configure
  <2>4. CASE ~ (bound[c].means.status = "active" /\ bound[c].means.mode = "preauthorized")
    <3>1. End(c, "failed") /\ UNCHANGED <<registry, lock, state>>
      BY <1>1, <2>4 DEF Configure
    <3> QED BY <3>1, EndType DEF TypeInv, TypeOK, state
  <2> QED BY <2>3, <2>4
<1>2. CASE Revoke(c)
  <2>1. bound[c] \in Profile
    BY <1>2 DEF Revoke, At, TypeInv, TypeOK, Equipped, HasRead
  <2>2. bound[c].means \in Semantics /\ bound[c].epoch \in Nat
    BY <2>1 DEF Profile
  <2>3. [bound[c].means EXCEPT !.status = "disabled"] \in Semantics /\ bound[c].epoch + 1 \in Nat
    BY <2>2, SemanticsFacts
  <2> QED BY <1>2, <2>1, <2>3, InstallType DEF Revoke
<1>3. CASE Conflict(c)
  BY <1>3, EndType DEF Conflict, TypeInv, TypeOK, state
<1>4. CASE Crash(c)
  BY <1>4, EndType DEF Crash, TypeInv, TypeOK, state
<1>5. CASE \E t \in Work[c] : Start(c, t)
  <2>1. PICK t \in Work[c] : Start(c, t)
    BY <1>5
  <2>2. t \in Tasks
    BY AuthorityAssumption DEF AuthorityAssumption
  <2>3. task' = [task EXCEPT ![c] = t] /\ UNCHANGED <<registry, lock, usage, grants, active>>
    BY <2>1 DEF Start, state
  <2>4. task' \in [Call -> Tasks]
    BY <2>2, <2>3 DEF TypeInv, TypeOK
  <2>5. CASE t.kind # "install"
    <3>1. pc' = [pc EXCEPT ![c] = "lock"] /\ UNCHANGED <<bound, wanted>>
      BY <2>1, <2>5 DEF Start, Goto
    <3> QED BY <2>3, <2>4, <3>1 DEF TypeInv, TypeOK, Equipped, HasRead, Installs
  <2>6. CASE t.kind = "install"
    <3>1. StartInstall(c)
      BY <2>1, <2>6 DEF Start
    <3>2. PICK from \in Profile \cup {NoProfile}, new \in Profile :
            /\ bound' = [bound EXCEPT ![c] = from]
            /\ wanted' = [wanted EXCEPT ![c] = new]
      <4>1. CASE bound' = [bound EXCEPT ![c] = NoProfile]
                 /\ \E s \in Semantics : wanted' = [wanted EXCEPT ![c] =
                       [schema |-> 3, revision |-> 1, epoch |-> 1, means |-> s]]
        <5>1. \A s \in Semantics :
                [schema |-> 3, revision |-> 1, epoch |-> 1, means |-> s] \in Profile
          BY DEF Profile
        <5> QED BY <4>1, <5>1
      <4>2. CASE /\ registry # NoProfile
                 /\ bound' = [bound EXCEPT ![c] = registry]
                 /\ \E s \in Semantics, e \in {registry.epoch, registry.epoch + 1} :
                      wanted' = [wanted EXCEPT ![c] =
                        [schema |-> 3, revision |-> registry.revision + 1, epoch |-> e, means |-> s]]
        <5>1. registry \in Profile
          BY <4>2 DEF TypeInv, TypeOK
        <5>2. registry.revision + 1 \in Nat /\ {registry.epoch, registry.epoch + 1} \subseteq Nat
          BY <5>1 DEF Profile
        <5>3. \A s \in Semantics, e \in {registry.epoch, registry.epoch + 1} :
                [schema |-> 3, revision |-> registry.revision + 1, epoch |-> e, means |-> s] \in Profile
          BY <5>2 DEF Profile
        <5> QED BY <4>2, <5>1, <5>3
      <4> QED BY <3>1, <4>1, <4>2 DEF StartInstall
    <3>3. new # NoProfile
      BY <3>2, ProfileFacts
    <3>4. pc' = [pc EXCEPT ![c] = "lock to install"]
      BY <3>1 DEF StartInstall, Goto
    <3>5. Equipped'
      BY <3>2, <3>3, <3>4 DEF TypeInv, TypeOK, Equipped, HasRead, Installs
    <3> QED BY <2>3, <2>4, <3>2, <3>4, <3>5 DEF TypeInv, TypeOK
  <2> QED BY <2>5, <2>6
<1> QED BY <1>1, <1>2, <1>3, <1>4, <1>5

LEMMA TypeStep ==
  ASSUME TypeInv, [Next]_vars
  PROVE  TypeInv'
<1>1. CASE Next
  <2>1. ASSUME NEW c \in Call, Step(c) \/ GiveUp(c) \/ Conflict(c) \/ Crash(c)
                                 \/ \E t \in Work[c] : Start(c, t)
        PROVE  TypeInv'
    BY <2>1, TypeRegistry, TypeState, TypeCalls DEF Step
  <2>2. ASSUME NEW id \in DOMAIN grants, Commit(id) PROVE TypeInv'
    BY <2>2, TypeCommit
  <2> QED BY <1>1, <2>1, <2>2 DEF Next
<1>2. CASE UNCHANGED vars
  BY <1>2 DEF TypeInv, TypeOK, Equipped, vars
<1> QED BY <1>1, <1>2

\* Whatever the calls do, in whatever order, and wherever they stop: what is
\* stored and what the calls carry is well formed, and a call acts for a
\* profile it has read (bind, installLocalL3AuthorizationProfile).
THEOREM AuthorityTypeCorrect == Spec => []TypeOK
<1>1. TypeInv => TypeOK
  BY DEF TypeInv
<1>2. TypeInv /\ [Next]_vars => TypeInv'
  BY TypeStep
<1> QED BY <1>1, <1>2, TypeInit, PTL DEF Spec

-----------------------------------------------------------------------------
(* Budgets.                                                                *)

BudgetInv == TypeInv /\ IsFiniteSet(DOMAIN grants) /\ DecisionsAreBudgeted

\* Steps that issue nothing: authorizations keep their rules, and no budget is
\* touched.
NothingIssued ==
  /\ usage' = usage
  /\ DOMAIN grants' = DOMAIN grants
  /\ \A id \in DOMAIN grants : grants'[id].rule = grants[id].rule

LEMMA BudgetKept ==
  ASSUME BudgetInv, NothingIssued
  PROVE  IsFiniteSet(DOMAIN grants') /\ DecisionsAreBudgeted'
<1>1. \A k : ChargedTo(k)' = ChargedTo(k)
  BY DEF ChargedTo, NothingIssued
<1>2. \A k \in DOMAIN usage' :
         usage'[k] = Cardinality(ChargedTo(k)') /\ usage'[k] <= Budget[k.rule]
  BY <1>1 DEF BudgetInv, DecisionsAreBudgeted, NothingIssued
<1>3. \A id \in DOMAIN grants' :
         [digest |-> id.digest, rule |-> grants'[id].rule] \in DOMAIN usage'
  BY DEF BudgetInv, DecisionsAreBudgeted, NothingIssued
<1> QED BY <1>2, <1>3 DEF BudgetInv, DecisionsAreBudgeted, NothingIssued

\* An authorization is charged to a rule that had something left.
LEMMA BudgetIssue ==
  ASSUME BudgetInv, NEW digest \in Digest, NEW rule \in RuleId, NEW proposal \in Proposal,
         Issue([digest |-> digest, proposal |-> proposal], [digest |-> digest, rule |-> rule])
  PROVE  IsFiniteSet(DOMAIN grants') /\ DecisionsAreBudgeted'
<1> DEFINE id == [digest |-> digest, proposal |-> proposal]
           key == [digest |-> digest, rule |-> rule]
           new == [rule |-> rule, status |-> "active"]
<1>1. /\ id \notin DOMAIN grants /\ ~Exhausted(key)
      /\ usage' = [k \in DOMAIN usage \cup {key} |-> IF k = key THEN Spent(key) + 1 ELSE usage[k]]
      /\ grants' = [i \in DOMAIN grants \cup {id} |-> IF i = id THEN new ELSE grants[i]]
  BY DEF Issue, Granted
<1>2. id.digest = digest /\ key.digest = digest /\ key.rule = rule /\ new.rule = rule
  OBVIOUS
<1>3. \A k \in DOMAIN usage : k = [digest |-> k.digest, rule |-> k.rule]
  <2>1. \A k \in [digest : Digest, rule : RuleId] : k = [digest |-> k.digest, rule |-> k.rule]
    OBVIOUS
  <2> QED BY <2>1 DEF BudgetInv, TypeInv, TypeOK
<1>4. Spent(key) \in Nat /\ Spent(key) + 1 \in Nat
  BY SpentType DEF BudgetInv, TypeInv
<1>5. Budget[rule] \in Nat
  BY AuthorityAssumption DEF AuthorityAssumption
<1>6. \A k : IsFiniteSet(ChargedTo(k))
  <2>1. \A k : ChargedTo(k) \subseteq DOMAIN grants
    BY DEF ChargedTo
  <2> QED BY <2>1, FS_Subset DEF BudgetInv
<1>7. Spent(key) = Cardinality(ChargedTo(key))
  <2>1. CASE key \in DOMAIN usage
    BY <2>1 DEF Spent, BudgetInv, DecisionsAreBudgeted
  <2>2. CASE key \notin DOMAIN usage
    <3>1. ChargedTo(key) = {}
      <4> SUFFICES ASSUME NEW i \in ChargedTo(key) PROVE FALSE
        OBVIOUS
      <4>1. i \in DOMAIN grants /\ i.digest = digest /\ grants[i].rule = rule
        BY DEF ChargedTo
      <4>2. [digest |-> i.digest, rule |-> grants[i].rule] \in DOMAIN usage
        BY <4>1 DEF BudgetInv, DecisionsAreBudgeted
      <4> QED BY <2>2, <4>1, <4>2
    <3> QED BY <2>2, <3>1, FS_EmptySet DEF Spent
  <2> QED BY <2>1, <2>2
<1>8. Spent(key) < Budget[rule]
  BY <1>1, <1>2, <1>4, <1>5 DEF Exhausted
<1> HIDE DEF id, key, new
<1>9. ChargedTo(key)' = ChargedTo(key) \cup {id}
  BY <1>1, <1>2 DEF ChargedTo
<1>10. \A k : k.digest # digest \/ k.rule # rule => ChargedTo(k)' = ChargedTo(k)
  BY <1>1, <1>2 DEF ChargedTo
<1>11. Cardinality(ChargedTo(key)') = Spent(key) + 1
  <2>1. id \notin ChargedTo(key)
    BY <1>1 DEF ChargedTo
  <2>2. Cardinality(ChargedTo(key) \cup {id}) = Cardinality(ChargedTo(key)) + 1
    BY <1>6, <2>1, FS_AddElement
  <2> QED BY <1>7, <1>9, <2>2
<1>12. \A k \in DOMAIN usage' :
          usage'[k] = Cardinality(ChargedTo(k)') /\ usage'[k] <= Budget[k.rule]
  <2> SUFFICES ASSUME NEW k \in DOMAIN usage'
               PROVE  usage'[k] = Cardinality(ChargedTo(k)') /\ usage'[k] <= Budget[k.rule]
    OBVIOUS
  <2>1. CASE k = key
    <3>1. usage'[k] = Spent(key) + 1
      BY <1>1, <2>1
    <3>2. Spent(key) + 1 <= Budget[rule]
      BY <1>4, <1>5, <1>8
    <3> QED BY <1>2, <1>11, <2>1, <3>1, <3>2
  <2>2. CASE k # key
    <3>1. k \in DOMAIN usage /\ usage'[k] = usage[k]
      BY <1>1, <2>2
    <3>2. k.digest # digest \/ k.rule # rule
      BY <1>3, <2>2, <3>1 DEF key
    <3>3. ChargedTo(k)' = ChargedTo(k)
      BY <1>10, <3>2
    <3> QED BY <3>1, <3>3 DEF BudgetInv, DecisionsAreBudgeted
  <2> QED BY <2>1, <2>2
<1>13. \A i \in DOMAIN grants' :
          [digest |-> i.digest, rule |-> grants'[i].rule] \in DOMAIN usage'
  <2> SUFFICES ASSUME NEW i \in DOMAIN grants'
               PROVE  [digest |-> i.digest, rule |-> grants'[i].rule] \in DOMAIN usage'
    OBVIOUS
  <2>1. CASE i = id
    BY <1>1, <1>2, <2>1 DEF key
  <2>2. CASE i # id
    BY <1>1, <2>2 DEF BudgetInv, DecisionsAreBudgeted
  <2> QED BY <2>1, <2>2
<1>14. IsFiniteSet(DOMAIN grants')
  BY <1>1, FS_AddElement DEF BudgetInv
<1> QED BY <1>12, <1>13, <1>14 DEF DecisionsAreBudgeted

\* A decision issues at most one authorization, under the profile and the rule
\* it was taken by.
LEMMA DecideForms ==
  ASSUME TypeInv, NEW c \in Call, Decide(c)
  PROVE  \/ UNCHANGED state
         \/ \E digest \in Digest, rule \in RuleId, proposal \in Proposal :
              Issue([digest |-> digest, proposal |-> proposal], [digest |-> digest, rule |-> rule])
<1>1. bound[c] \in Profile
  BY DEF Decide, At, TypeInv, TypeOK, Equipped, HasRead
<1>2. PICK holding \in SUBSET RuleId : DecideUnder(c, holding)
  BY DEF Decide
<1> DEFINE digest == DigestOf(bound[c])
           rule == AllowedBy(bound[c].means.policy, task[c].proposal, holding)
           proposal == task[c].proposal
<1>3. CASE UNCHANGED state
  BY <1>3
<1>4. CASE Issue([digest |-> digest, proposal |-> proposal], [digest |-> digest, rule |-> rule])
  <2>1. bound[c].means \in Semantics
    BY <1>1 DEF Profile
  <2>2. rule \in RuleId \cup {NoRule}
    BY <2>1, SemanticsFacts, AllowedByType DEF Decide
  <2>3. digest \in Digest
    BY <1>1, ProfileFacts
  <2>4. proposal \in Proposal
    BY DEF Decide, Kind, Tasks, TypeInv, TypeOK
  <2>5. rule \in RuleId
    BY <1>4, <2>2 DEF Issue
  <2> HIDE DEF digest, rule, proposal
  <2> QED BY <1>4, <2>3, <2>4, <2>5
<1> QED BY <1>2, <1>3, <1>4 DEF DecideUnder

\* What a step that issues nothing can do to the authorizations.
LEMMA OtherSteps ==
  ASSUME TypeInv, [Next]_vars, ~ \E c \in Call : Decide(c)
  PROVE  NothingIssued
<1>1. ASSUME NEW c \in Call, Activate(c) PROVE NothingIssued
  BY <1>1 DEF Activate, NothingIssued, TypeInv, TypeOK
<1>2. ASSUME NEW id \in DOMAIN grants, Commit(id) PROVE NothingIssued
  <2>1. PICK to \in Stage : /\ grants' = [grants EXCEPT ![id] = [grants[id] EXCEPT !.status = to]]
                            /\ usage' = usage
    BY <1>2, CommitFacts
  <2>2. [grants[id] EXCEPT !.status = to].rule = grants[id].rule
    BY DEF TypeInv, TypeOK
  <2> QED BY <2>1, <2>2 DEF NothingIssued
<1>3. CASE UNCHANGED <<usage, grants>>
  BY <1>3 DEF NothingIssued
<1>4. ASSUME NEW c \in Call, Lock(c) \/ Read(c) \/ Compare(c) \/ Write(c) \/ Unlock(c)
                                \/ ActivateRefused(c) \/ CannotDecide(c) \/ Configure(c) \/ Revoke(c)
      PROVE  UNCHANGED <<usage, grants>>
  BY <1>4 DEF Lock, Read, Compare, Write, Unlock, ActivateRefused, CannotDecide, Configure, Revoke, state
<1>5. ASSUME NEW c \in Call, GiveUp(c) \/ Conflict(c) \/ Crash(c) \/ \E t \in Work[c] : Start(c, t)
      PROVE  UNCHANGED <<usage, grants>>
  BY <1>5 DEF GiveUp, Conflict, Crash, Start, state
<1>6. CASE UNCHANGED vars
  BY <1>3, <1>6 DEF vars
<1> QED BY <1>1, <1>2, <1>3, <1>4, <1>5, <1>6 DEF Next, Step

LEMMA BudgetStep == ASSUME BudgetInv, [Next]_vars PROVE BudgetInv'
<1>1. TypeInv'
  BY TypeStep DEF BudgetInv
<1>2. CASE \E c \in Call : Decide(c)
  <2>1. PICK c \in Call : Decide(c)
    BY <1>2
  <2>2. CASE UNCHANGED state
    BY <1>1, <2>2, BudgetKept DEF BudgetInv, NothingIssued, state
  <2>3. CASE \E digest \in Digest, rule \in RuleId, proposal \in Proposal :
               Issue([digest |-> digest, proposal |-> proposal], [digest |-> digest, rule |-> rule])
    BY <1>1, <2>3, BudgetIssue DEF BudgetInv
  <2> QED BY <2>1, <2>2, <2>3, DecideForms DEF BudgetInv
<1>3. CASE ~ \E c \in Call : Decide(c)
  BY <1>1, <1>3, OtherSteps, BudgetKept DEF BudgetInv
<1> QED BY <1>2, <1>3

LEMMA BudgetInit == Init => BudgetInv
<1> SUFFICES ASSUME Init PROVE BudgetInv
  OBVIOUS
<1>1. DOMAIN usage = {} /\ DOMAIN grants = {}
  BY DEF Init
<1> QED BY <1>1, TypeInit, FS_EmptySet DEF BudgetInv, DecisionsAreBudgeted

\* For every set of rules and every budget: however decisions, their retries,
\* activations and commits interleave, a rule never authorizes more than its
\* budget, and every authorization is charged to exactly one (requestExactDecision).
THEOREM DecisionsStayInBudget == Spec => []DecisionsAreBudgeted
<1>1. BudgetInv => DecisionsAreBudgeted
  BY DEF BudgetInv
<1> QED BY <1>1, BudgetInit, BudgetStep, PTL DEF Spec

-----------------------------------------------------------------------------
(* Authorizations are final.                                               *)

FinalStep ==
  \A id \in DOMAIN grants :
    /\ id \in DOMAIN grants'
    /\ \/ grants'[id] = grants[id]
       \/ /\ grants'[id].rule = grants[id].rule
          /\ grants'[id].status \in Onward[grants[id].status]

LEMMA FinalDecide == ASSUME TypeInv, NEW c \in Call, Decide(c) PROVE FinalStep
<1>1. CASE UNCHANGED state
  BY <1>1 DEF state, FinalStep
<1>2. CASE \E digest \in Digest, rule \in RuleId, proposal \in Proposal :
             Issue([digest |-> digest, proposal |-> proposal], [digest |-> digest, rule |-> rule])
  BY <1>2 DEF Issue, Granted, FinalStep
<1> QED BY <1>1, <1>2, DecideForms

\* A proposal is decided once under a profile: what was consumed or revoked
\* stays so, and what a commit has claimed is not revoked, whatever is activated (requestExactDecision, activatePolicy).
THEOREM AuthorizedOnce == Spec => DecidedOnce
<1>1. TypeInv /\ [Next]_vars => [FinalStep]_vars
  <2> SUFFICES ASSUME TypeInv, [Next]_vars PROVE [FinalStep]_vars
    OBVIOUS
  <2>1. ASSUME NEW c \in Call, Decide(c) PROVE FinalStep
    BY <2>1, FinalDecide
  <2>2. ASSUME NEW c \in Call, Activate(c) PROVE FinalStep
    <3>1. ASSUME NEW id \in DOMAIN grants, grants'[id] # grants[id]
          PROVE  /\ grants[id].status \in {"active", "authorized"}
                 /\ grants'[id] = [grants[id] EXCEPT !.status = "revoked"]
      BY <2>2, <3>1 DEF Activate
    <3>2. \A id \in DOMAIN grants : grants[id] \in [rule : RuleId, status : Stage]
      BY DEF TypeInv, TypeOK
    <3>3. ASSUME NEW id \in DOMAIN grants, grants'[id] # grants[id]
          PROVE  /\ grants'[id].rule = grants[id].rule
                 /\ grants'[id].status \in Onward[grants[id].status]
      <4>1. grants[id] \in [rule : RuleId, status : Stage]
        BY <3>2
      <4>2. grants'[id].rule = grants[id].rule /\ grants'[id].status = "revoked"
        BY <3>1, <3>3, <4>1
      <4>3. grants[id].status \in {"active", "authorized"}
        BY <3>1, <3>3
      <4>4. "revoked" \in Onward["active"] /\ "revoked" \in Onward["authorized"]
        BY DEF Onward
      <4> QED BY <4>2, <4>3, <4>4
    <3>4. DOMAIN grants' = DOMAIN grants
      BY <2>2 DEF Activate
    <3> QED BY <3>3, <3>4 DEF FinalStep
  <2>3. ASSUME NEW id \in DOMAIN grants, Commit(id) PROVE FinalStep
    <3>1. PICK to \in Stage : /\ to \in Onward[grants[id].status]
                             /\ grants' = [grants EXCEPT ![id] = [grants[id] EXCEPT !.status = to]]
      BY <2>3, CommitFacts
    <3>2. grants[id] \in [rule : RuleId, status : Stage]
      BY DEF TypeInv, TypeOK
    <3>3. grants'[id].rule = grants[id].rule /\ grants'[id].status = to
      BY <3>1, <3>2
    <3> QED BY <3>1, <3>3 DEF FinalStep
  <2>4. ASSUME NEW c \in Call, Lock(c) \/ Read(c) \/ Compare(c) \/ Write(c) \/ Unlock(c)
                                  \/ ActivateRefused(c) \/ CannotDecide(c) \/ Configure(c) \/ Revoke(c)
        PROVE  FinalStep
    BY <2>4 DEF Lock, Read, Compare, Write, Unlock, ActivateRefused, CannotDecide, Configure, Revoke, state, FinalStep
  <2>5. ASSUME NEW c \in Call, GiveUp(c) \/ Conflict(c) \/ Crash(c) \/ \E t \in Work[c] : Start(c, t)
        PROVE  FinalStep
    BY <2>5 DEF GiveUp, Conflict, Crash, Start, state, FinalStep
  <2> QED BY <2>1, <2>2, <2>3, <2>4, <2>5 DEF Next, Step
<1>2. TypeInv /\ [Next]_vars => TypeInv'
  BY TypeStep
<1> QED BY <1>1, <1>2, TypeInit, PTL DEF Spec, DecidedOnce, FinalStep

-----------------------------------------------------------------------------
(* Nobody's change is lost.                                                *)

\* What a call has read is an earlier profile, or the one that is there.
Follows(c) ==
  bound[c] # NoProfile =>
    /\ registry # NoProfile
    /\ bound[c].revision <= registry.revision
    /\ bound[c].revision = registry.revision => bound[c] = registry

\* An installation that was compared is still about the profile that is there.
Compared(c) ==
  At(c, "write") =>
    /\ bound[c] = registry
    /\ registry # NoProfile => wanted[c].revision = registry.revision + 1

ChangeInv ==
  /\ TypeInv
  /\ \A c \in Call : (pc[c] \in Holding => lock = c) /\ Follows(c) /\ Compared(c)

\* Whoever is at the registry is alone there.
LEMMA Alone ==
  ASSUME ChangeInv, NEW c \in Call, pc[c] \in Holding, NEW d \in Call, d # c
  PROVE  pc[d] \notin Holding
BY DEF ChangeInv

\* Steps that leave the registry alone and at most forget or reread it.
LEMMA ChangeQuiet ==
  ASSUME ChangeInv, TypeInv', NEW c \in Call,
         registry' = registry, bound'[c] \in {bound[c], NoProfile, registry},
         lock' = lock \/ (pc[c] = "unlock" /\ lock' = NoLock),
         pc'[c] \notin Holding,
         \A d \in Call \ {c} : pc'[d] = pc[d] /\ bound'[d] = bound[d] /\ wanted'[d] = wanted[d]
  PROVE  ChangeInv'
<1> SUFFICES ASSUME NEW d \in Call
             PROVE  (pc[d] \in Holding => lock = d)' /\ Follows(d)' /\ Compared(d)'
  BY DEF ChangeInv
<1>1. CASE d = c
  <2>1. Follows(d)'
    <3>1. CASE bound'[c] = registry /\ registry # NoProfile
      <4>1. registry \in Profile
        BY <3>1 DEF ChangeInv, TypeInv, TypeOK
      <4>2. registry.revision <= registry.revision
        BY <4>1 DEF Profile
      <4> QED BY <1>1, <3>1, <4>2 DEF Follows
    <3>2. CASE bound'[c] \in {bound[c], NoProfile}
      BY <1>1, <3>2 DEF ChangeInv, Follows
    <3> QED BY <1>1, <3>1, <3>2 DEF Follows
  <2> QED BY <1>1, <2>1 DEF Compared, At, Holding
<1>2. CASE d # c
  <2>1. pc'[d] = pc[d] /\ bound'[d] = bound[d] /\ wanted'[d] = wanted[d]
    BY <1>2
  <2>2. pc[d] \in Holding => lock' = d
    BY <1>2 DEF ChangeInv, Holding
  <2> QED BY <2>1, <2>2 DEF ChangeInv, Follows, Compared, At
<1> QED BY <1>1, <1>2

\* What the end of a call, a new phase and an installation leave alone.
LEMMA EndForgets ==
  ASSUME TypeInv, NEW c \in Call, NEW phase, End(c, phase)
  PROVE  /\ pc'[c] = phase /\ bound'[c] = NoProfile
         /\ \A d \in Call \ {c} : pc'[d] = pc[d] /\ bound'[d] = bound[d] /\ wanted'[d] = wanted[d]
BY DEF End, Goto, TypeInv, TypeOK

LEMMA ChangeCalls ==
  ASSUME ChangeInv, TypeInv', NEW c \in Call,
         \/ GiveUp(c) \/ Unlock(c) \/ Activate(c) \/ ActivateRefused(c) \/ Decide(c) \/ CannotDecide(c)
         \/ Configure(c) \/ Revoke(c) \/ Conflict(c) \/ Crash(c)
         \/ \E t \in Work[c] : Start(c, t)
  PROVE  ChangeInv'
<1> DEFINE Quiet ==
      /\ registry' = registry /\ bound'[c] \in {bound[c], NoProfile, registry}
      /\ lock' = lock \/ (pc[c] = "unlock" /\ lock' = NoLock)
      /\ pc'[c] \notin Holding
      /\ \A d \in Call \ {c} : pc'[d] = pc[d] /\ bound'[d] = bound[d] /\ wanted'[d] = wanted[d]
<1>0. TypeInv /\ TypeOK
  BY DEF ChangeInv, TypeInv
<1>1. CASE GiveUp(c)
  <2>1. End(c, "failed") /\ UNCHANGED <<registry, lock>>
    BY <1>1 DEF GiveUp
  <2>2. Quiet
    BY <1>0, <2>1, EndForgets DEF Holding
  <2> QED BY <2>2, ChangeQuiet
<1>2. CASE Unlock(c)
  <2>1. CASE \E phase \in {"lock", "failed"} : End(c, phase)
    <3>1. Quiet
      BY <1>0, <1>2, <2>1, EndForgets DEF Unlock, At, Holding
    <3> QED BY <3>1, ChangeQuiet
  <2>2. CASE Goto(c, "activate") /\ UNCHANGED <<task, bound, wanted>>
    <3>1. Quiet
      BY <1>0, <1>2, <2>2 DEF Unlock, At, Goto, Holding, TypeOK
    <3> QED BY <3>1, ChangeQuiet
  <2> QED BY <1>2, <2>1, <2>2 DEF Unlock
<1>3. CASE Activate(c)
  <2>1. CASE End(c, "done")
    <3>1. Quiet
      BY <1>0, <1>3, <2>1, EndForgets DEF Activate, Holding
    <3> QED BY <3>1, ChangeQuiet
  <2>2. CASE Goto(c, "bound") /\ UNCHANGED <<task, bound, wanted>>
    <3>1. Quiet
      BY <1>0, <1>3, <2>2 DEF Activate, Goto, Holding, TypeOK
    <3> QED BY <3>1, ChangeQuiet
  <2> QED BY <1>3, <2>1, <2>2 DEF Activate
<1>4. CASE Decide(c)
  <2>1. End(c, "failed") \/ End(c, "done")
    BY <1>4 DEF Decide, DecideUnder
  <2>2. Quiet
    BY <1>0, <1>4, <2>1, EndForgets DEF Decide, Holding
  <2> QED BY <2>2, ChangeQuiet
<1>5. CASE ActivateRefused(c) \/ CannotDecide(c) \/ Conflict(c) \/ Crash(c)
  <2>1. End(c, "failed") /\ UNCHANGED <<registry, lock>>
    BY <1>5 DEF ActivateRefused, CannotDecide, Conflict, Crash
  <2>2. Quiet
    BY <1>0, <2>1, EndForgets DEF Holding
  <2> QED BY <2>2, ChangeQuiet
<1>6. CASE Configure(c) \/ Revoke(c)
  <2>1. CASE End(c, "failed")
    <3>1. Quiet
      BY <1>0, <1>6, <2>1, EndForgets DEF Configure, Revoke, Holding
    <3> QED BY <3>1, ChangeQuiet
  <2>2. CASE bound' = bound /\ \E means, epoch : Install(c, means, epoch)
    <3>1. pc' = [pc EXCEPT ![c] = "lock to install"] /\ \E new : wanted' = [wanted EXCEPT ![c] = new]
      BY <2>2 DEF Install, Goto
    <3>2. Quiet
      BY <1>0, <1>6, <2>2, <3>1 DEF Configure, Revoke, Holding, TypeOK
    <3> QED BY <3>2, ChangeQuiet
  <2> QED BY <1>6, <2>1, <2>2 DEF Configure, Revoke
<1>7. CASE \E t \in Work[c] : Start(c, t)
  <2>1. PICK t \in Work[c] : Start(c, t)
    BY <1>7
  <2>2. CASE t.kind # "install"
    <3>1. Quiet
      BY ZenonT(60), <1>0, <2>1, <2>2 DEF Start, Goto, Holding, TypeOK
    <3> QED BY <3>1, ChangeQuiet
  <2>3. CASE t.kind = "install"
    <3>1. StartInstall(c) /\ UNCHANGED <<registry, lock>>
      BY <2>1, <2>3 DEF Start
    <3>2. \E new : wanted' = [wanted EXCEPT ![c] = new]
      BY <3>1 DEF StartInstall
    <3>3. \E from \in {NoProfile, registry} : bound' = [bound EXCEPT ![c] = from]
      BY <3>1 DEF StartInstall
    <3>4. Quiet
      BY ZenonT(60), <1>0, <3>1, <3>2, <3>3 DEF StartInstall, Goto, Holding, TypeOK
    <3> QED BY <3>4, ChangeQuiet
  <2> QED BY <2>2, <2>3
<1> QED BY <1>1, <1>2, <1>3, <1>4, <1>5, <1>6, <1>7

\* A migration or an installation overtakes whoever was bound before.
LEMMA Overtaken ==
  ASSUME ChangeInv, TypeInv', NEW c \in Call, pc[c] \in Holding,
         registry' # NoProfile, lock' = lock, pc'[c] \in Holding,
         registry' = registry \/ registry = NoProfile \/ registry'.revision = registry.revision + 1,
         \/ bound'[c] = bound[c]
         \/ bound'[c] = registry',
         At(c, "write")' => bound'[c] = registry' /\ wanted'[c].revision = registry'.revision + 1,
         \A d \in Call \ {c} : pc'[d] = pc[d] /\ bound'[d] = bound[d] /\ wanted'[d] = wanted[d]
  PROVE  ChangeInv'
<1>0. TypeOK /\ TypeOK'
  BY DEF ChangeInv, TypeInv
<1>1. \A p \in Profile : p.revision \in Nat
  BY DEF Profile
<1>2. ASSUME NEW d \in Call, bound'[d] = bound[d] PROVE Follows(d)'
  <2>1. CASE bound[d] = NoProfile
    BY <1>2, <2>1 DEF Follows
  <2>2. CASE bound[d] # NoProfile
    <3>1. registry # NoProfile /\ bound[d].revision <= registry.revision
          /\ (bound[d].revision = registry.revision => bound[d] = registry)
      BY <2>2 DEF ChangeInv, Follows
    <3>2. bound[d] \in Profile /\ registry \in Profile
      BY <1>0, <2>2, <3>1 DEF TypeOK
    <3>3. bound[d].revision \in Nat /\ registry.revision \in Nat
      BY <1>1, <3>2
    <3>4. CASE registry' = registry
      BY <1>2, <3>1, <3>4 DEF Follows
    <3>5. CASE registry'.revision = registry.revision + 1
      BY <1>2, <3>1, <3>3, <3>5 DEF Follows
    <3> QED BY <3>1, <3>4, <3>5
  <2> QED BY <2>1, <2>2
<1>3. ASSUME NEW d \in Call, bound'[d] = registry' PROVE Follows(d)'
  <2>1. registry' \in Profile
    BY <1>0 DEF TypeOK
  <2>2. registry'.revision \in Nat
    BY <1>1, <2>1
  <2> QED BY <1>3, <2>2 DEF Follows
<1> SUFFICES ASSUME NEW d \in Call
             PROVE  (pc[d] \in Holding => lock = d)' /\ Follows(d)' /\ Compared(d)'
  BY DEF ChangeInv
<1>4. CASE d = c
  <2>1. lock' = c
    BY DEF ChangeInv
  <2> QED BY <1>2, <1>3, <1>4, <2>1 DEF Compared
<1>5. CASE d # c
  <2>1. pc'[d] \notin Holding
    BY <1>5, Alone
  <2> QED BY <1>2, <1>5, <2>1 DEF Compared, At, Holding
<1> QED BY <1>4, <1>5

LEMMA ChangeRegistry ==
  ASSUME ChangeInv, TypeInv', NEW c \in Call, Lock(c) \/ Read(c) \/ Compare(c) \/ Write(c)
  PROVE  ChangeInv'
<1>0. TypeOK /\ TypeOK' /\ TypeInv
  BY DEF ChangeInv, TypeInv
<1>1. CASE Lock(c)
  <2>1. /\ lock = NoLock /\ lock' = c
        /\ pc'[c] \in {"read", "compare"} /\ \A d \in Call \ {c} : pc'[d] = pc[d]
        /\ UNCHANGED <<registry, bound, wanted>>
    BY <1>0, <1>1 DEF Lock, LockIsFree, Goto, TypeOK
  <2>2. ASSUME NEW d \in Call PROVE (pc[d] \in Holding => lock = d)' /\ Follows(d)' /\ Compared(d)'
    <3>1. Follows(d)'
      BY <2>1 DEF ChangeInv, Follows
    <3>2. CASE d = c
      BY <2>1, <3>1, <3>2 DEF Compared, At
    <3>3. CASE d # c
      <4>1. pc[d] \notin Holding
        BY <2>1, AuthorityAssumption DEF ChangeInv, AuthorityAssumption
      <4> QED BY <2>1, <3>1, <3>3, <4>1 DEF Compared, At, Holding
    <3> QED BY <3>2, <3>3
  <2> QED BY <2>2 DEF ChangeInv
<1>2. CASE Read(c)
  <2>1. pc[c] \in Holding /\ lock' = lock
    BY <1>2 DEF Read, At, Holding
  <2>2. pc'[c] = "unlock" /\ wanted' = wanted /\ \A d \in Call \ {c} : pc'[d] = pc[d]
    BY <1>0, <1>2 DEF Read, Goto, TypeOK
  <2>3. CASE registry = NoProfile
    <3>1. UNCHANGED <<registry, bound>>
      BY <1>2, <2>3 DEF Read
    <3>2. ASSUME NEW d \in Call PROVE (pc[d] \in Holding => lock = d)' /\ Follows(d)' /\ Compared(d)'
      <4>1. Follows(d)'
        BY <3>1 DEF ChangeInv, Follows
      <4>2. CASE d = c
        BY <2>1, <2>2, <4>1, <4>2 DEF Compared, At, ChangeInv
      <4>3. CASE d # c
        BY <2>1, <2>2, <3>1, <4>1, <4>3 DEF Compared, At, ChangeInv
      <4> QED BY <4>2, <4>3
    <3> QED BY <3>2 DEF ChangeInv
  <2>4. CASE registry # NoProfile
    <3>1. registry' = Migrated(registry) /\ bound' = [bound EXCEPT ![c] = Migrated(registry)]
      BY <1>2, <2>4 DEF Read
    <3>2. /\ registry' # NoProfile
          /\ registry' = registry \/ registry'.revision = registry.revision + 1
      BY <1>0, <2>4, <3>1, ProfileFacts DEF TypeOK
    <3>3. bound'[c] = registry' /\ \A d \in Call \ {c} : bound'[d] = bound[d]
      BY <1>0, <3>1 DEF TypeOK
    <3>4. ~At(c, "write")' /\ pc'[c] \in Holding
      BY <2>2 DEF At, Holding
    <3> QED BY <2>1, <2>2, <3>2, <3>3, <3>4, Overtaken
  <2> QED BY <2>3, <2>4
<1>3. CASE Compare(c)
  <2>1. pc[c] \in Holding /\ UNCHANGED <<lock, bound, wanted>>
    BY <1>3 DEF Compare, At, Holding
  <2>2. pc'[c] \in {"write", "unlock"} /\ \A d \in Call \ {c} : pc'[d] = pc[d]
    BY <1>0, <1>3 DEF Compare, Goto, TypeOK
  <2>3. At(c, "write")' => MayReplace(registry', bound[c], wanted[c])
    BY <1>0, <1>3 DEF Compare, Goto, At, TypeOK
  <2>4. CASE registry = NoProfile
    <3>1. registry' = NoProfile
      BY <1>3, <2>4 DEF Compare
    <3>2. ASSUME NEW d \in Call PROVE (pc[d] \in Holding => lock = d)' /\ Follows(d)' /\ Compared(d)'
      <4>1. Follows(d)'
        BY <2>1, <2>4 DEF ChangeInv, Follows
      <4>2. CASE d = c
        <5>1. Compared(c)'
          BY <2>1, <2>3, <3>1 DEF MayReplace, Compared, At
        <5> QED BY <2>1, <4>1, <4>2, <5>1 DEF ChangeInv
      <4>3. CASE d # c
        BY <2>1, <2>2, <2>4, <3>1, <4>1, <4>3 DEF Compared, At, ChangeInv
      <4> QED BY <4>2, <4>3
    <3> QED BY <3>2 DEF ChangeInv
  <2>5. CASE registry # NoProfile
    <3>1. registry' = Migrated(registry)
      BY <1>3, <2>5 DEF Compare
    <3>2. registry \in Profile
      BY <1>0, <2>5 DEF TypeOK
    <3>3. /\ registry' # NoProfile /\ registry' \in Profile
          /\ registry' = registry \/ registry'.revision = registry.revision + 1
      BY <3>1, <3>2, ProfileFacts
    <3>4. At(c, "write")' => bound'[c] = registry' /\ wanted'[c].revision = registry'.revision + 1
      <4> SUFFICES ASSUME At(c, "write")'
                   PROVE  bound[c] = registry' /\ wanted[c].revision = registry'.revision + 1
        BY <2>1
      <4>1. /\ bound[c] # NoProfile /\ registry'.revision = bound[c].revision
            /\ wanted[c].revision = registry'.revision + 1
        BY <2>3, <3>3 DEF MayReplace
      <4>2. /\ bound[c].revision <= registry.revision
            /\ (bound[c].revision = registry.revision => bound[c] = registry)
        BY <4>1 DEF ChangeInv, Follows
      <4>3. registry.revision \in Nat /\ registry'.revision \in Nat
        BY <3>2, <3>3 DEF Profile
      <4>4. registry' = registry
        <5>1. registry'.revision <= registry.revision
          BY <4>1, <4>2
        <5>2. registry'.revision # registry.revision + 1
          BY <4>3, <5>1
        <5> QED BY <3>3, <5>2
      <4> QED BY <4>1, <4>2, <4>4
    <3>5. pc'[c] \in Holding /\ bound'[c] = bound[c]
          /\ \A d \in Call \ {c} : bound'[d] = bound[d] /\ wanted'[d] = wanted[d]
      BY <2>1, <2>2 DEF Holding
    <3> QED BY <2>1, <2>2, <3>3, <3>4, <3>5, Overtaken
  <2> QED BY <2>4, <2>5
<1>4. CASE Write(c)
  <2>1. /\ pc[c] = "write" /\ registry' = wanted[c] /\ UNCHANGED <<lock, bound, wanted>>
        /\ pc' = [pc EXCEPT ![c] = "unlock"]
    BY <1>4 DEF Write, At, Goto
  <2>2. wanted[c] # NoProfile
    BY <1>0, <2>1 DEF TypeInv, Equipped, Installs
  <2>3. registry = NoProfile \/ registry'.revision = registry.revision + 1
    BY <2>1 DEF ChangeInv, Compared, At
  <2>4. pc[c] \in Holding /\ pc'[c] = "unlock" /\ \A d \in Call \ {c} : pc'[d] = pc[d]
    BY <1>0, <2>1 DEF TypeOK, Holding
  <2>5. ~At(c, "write")' /\ pc'[c] \in Holding
    BY <2>4 DEF At, Holding
  <2> QED BY <2>1, <2>2, <2>3, <2>4, <2>5, Overtaken
<1> QED BY <1>1, <1>2, <1>3, <1>4

LEMMA ChangeInit == Init => ChangeInv
<1> SUFFICES ASSUME Init PROVE ChangeInv
  OBVIOUS
<1>1. \A c \in Call : pc[c] = "idle" /\ bound[c] = NoProfile
  BY DEF Init
<1> QED BY <1>1, TypeInit DEF ChangeInv, Follows, Compared, At, Holding

LEMMA ChangeStep == ASSUME ChangeInv, [Next]_vars PROVE ChangeInv'
<1>0. TypeInv'
  BY TypeStep DEF ChangeInv
<1>1. ASSUME NEW c \in Call, Step(c) \/ GiveUp(c) \/ Conflict(c) \/ Crash(c)
                                \/ \E t \in Work[c] : Start(c, t)
      PROVE  ChangeInv'
  BY <1>0, <1>1, ChangeRegistry, ChangeCalls DEF Step
<1>2. CASE UNCHANGED <<registry, lock, pc, bound, wanted>>
  BY <1>0, <1>2 DEF ChangeInv, Follows, Compared, At
<1>3. ASSUME NEW id \in DOMAIN grants, Commit(id) PROVE UNCHANGED <<registry, lock, pc, bound, wanted>>
  BY <1>3, CommitFacts DEF ChangeInv
<1>4. CASE UNCHANGED vars
  BY <1>2, <1>4 DEF vars
<1> QED BY <1>1, <1>2, <1>3, <1>4 DEF Next

\* However many servers install, configure and revoke: a profile is only
\* replaced by one made from it, although its author read it without the lock
\* (installLocalL3AuthorizationProfile compares the revision again).
THEOREM ChangesAreSeen == Spec => NoLostChange
<1>1. ChangeInv /\ [Next]_vars =>
        [\A c \in Call : At(c, "write") /\ ~At(c, "write")' /\ registry' # registry
            => bound[c] = registry /\ registry' = wanted[c]]_vars
  <2> SUFFICES ASSUME ChangeInv, [Next]_vars, NEW c \in Call,
                      At(c, "write"), ~At(c, "write")', registry' # registry
               PROVE  bound[c] = registry /\ registry' = wanted[c]
    OBVIOUS
  <2>0. TypeOK
    BY DEF ChangeInv, TypeInv
  <2>1. bound[c] = registry
    BY DEF ChangeInv, Compared
  <2>2. ASSUME NEW d \in Call, Read(d) \/ Compare(d) \/ Write(d) PROVE d = c /\ Write(c)
    <3>1. pc[c] = "write" /\ pc[d] \in Holding /\ pc[c] \in Holding
      BY <2>2 DEF Read, Compare, Write, At, Holding
    <3>2. d = c
      BY <3>1, Alone
    <3> QED BY <2>2, <3>1, <3>2 DEF Read, Compare, At
  <2>3. ASSUME NEW d \in Call,
               \/ Lock(d) \/ Unlock(d) \/ Activate(d) \/ ActivateRefused(d) \/ Decide(d)
               \/ CannotDecide(d)
               \/ Configure(d) \/ Revoke(d)
        PROVE  registry' = registry
    BY <2>3 DEF Lock, Unlock, Activate, ActivateRefused, Decide, CannotDecide, Configure, Revoke
  <2>4. ASSUME NEW d \in Call, GiveUp(d) \/ Conflict(d) \/ Crash(d) \/ \E t \in Work[d] : Start(d, t)
        PROVE  registry' = registry
    BY <2>4 DEF GiveUp, Conflict, Crash, Start
  <2>5. ASSUME NEW id \in DOMAIN grants, Commit(id) PROVE registry' = registry
    BY <2>5, CommitFacts DEF ChangeInv
  <2>6. Write(c)
    BY <2>2, <2>3, <2>4, <2>5 DEF Next, Step, vars
  <2> QED BY <2>1, <2>6 DEF Write
<1> QED BY <1>1, ChangeInit, ChangeStep, PTL DEF Spec, NoLostChange
=============================================================================
