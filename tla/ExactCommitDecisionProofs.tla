---------------------- MODULE ExactCommitDecisionProofs ----------------------
(***************************************************************************)
(* The exact commit protocol implements L3Decision, for any number of      *)
(* processes, calls, operations, authorizations and profiles.              *)
(*                                                                         *)
(* Between the validation of a commit and its save, other calls consume,   *)
(* revoke, claim and finalize receipts and save the aggregate.  What a     *)
(* call knows stays true all the same: of its own snapshot because a save  *)
(* compares the head revision, of its receipt because a claim cannot be    *)
(* revoked, and of a committed operation because no save takes it back.    *)
(* That is the invariant (Backed); with it, every step has one of a few    *)
(* effects on the aggregate and on the store (Effect), from which every    *)
(* theorem here follows.                                                   *)
(***************************************************************************)
EXTENDS ExactCommitProofs

\* The receipt of x is claimed, and cannot be revoked any more.
Claimed(s, x) ==
  s[AuthOf(x)].artifact = x /\ s[AuthOf(x)].receipt \in {"commit_claimed", "committed"}

Validated == {"own1", "claim", "own2", "save"}

\* What a call relies on in each phase, given the store and the aggregate.
Backed(k, s, cn) ==
  /\ k.pc = "record" => k.snap.art[k.art] = "none"
  /\ k.pc \in Validated \cup {"expire"} =>
       /\ k.snap.status[k.op] = "pending"
       /\ k.snap.art[k.art] = "approved"
       /\ AuthOp[AuthOf(k.art)] = k.op
  /\ k.pc \in Validated => k.snap.route = k.snap.digest[k.op]
  /\ k.pc \in {"own2", "save"} => Claimed(s, k.art)
  /\ k.pc \in {"own3", "finalize"} =>
       cn.status[k.op] = "committed" /\ cn.artifact[k.op] = k.art

DecisionInv ==
  /\ Shape /\ AppliedOnce /\ ReceiptBacksCommit
  /\ \A c \in Call : Backed(call[c], store, canon)

-----------------------------------------------------------------------------
(* What a step can do to the store and to the aggregate.                   *)

StoreEffect ==
  \/ store' = store
  \/ \E a \in Auth : store' = Issue(store, a)
  \/ \E x \in ArtifactId : store' = Consume(store, AuthOf(x), x)
  \/ \E x \in ArtifactId : CanClaim(store, x) /\ store' = Claim(store, x)
  \/ \E x \in ArtifactId :
       /\ CanFinalize(store, x) /\ store' = Finalize(store, x)
       /\ canon.status[AuthOp[AuthOf(x)]] = "committed"
       /\ canon.artifact[AuthOp[AuthOf(x)]] = x
  \/ \E e : ~RotationBlocked(store, e) /\ store' = ActivatePolicy(store, e)

\* An artifact is recorded or expires, or nothing happens that matters here.
Records ==
  /\ canon'.status = canon.status /\ canon'.artifact = canon.artifact
  /\ canon'.commits = canon.commits
  /\ \/ canon'.art = canon.art
     \/ \E x \in ArtifactId, as \in {"approved", "expired"} :
          canon.art[x] \in {"none", "approved"} /\ canon'.art = [canon.art EXCEPT ![x] = as]

Rejects(o) ==
  /\ canon.status[o] = "pending"
  /\ canon'.status = [canon.status EXCEPT ![o] = "rejected"]
  /\ canon'.artifact = canon.artifact /\ canon'.commits = canon.commits
  /\ canon'.art = canon.art

Commits(o, x) ==
  /\ canon.status[o] = "pending" /\ canon.art[x] = "approved"
  /\ AuthOp[AuthOf(x)] = o /\ Claimed(store, x)
  /\ canon.route = canon.digest[o]
  /\ canon'.status = [canon.status EXCEPT ![o] = "committed"]
  /\ canon'.artifact = [canon.artifact EXCEPT ![o] = x]
  /\ canon'.art = [canon.art EXCEPT ![x] = "consumed"]
  /\ canon'.commits = [canon.commits EXCEPT ![o] = canon.commits[o] + 1]

CanonEffect ==
  \/ Records
  \/ \E o \in Op : Rejects(o)
  \/ \E o \in Op, x \in ArtifactId : Commits(o, x)

Effect ==
  \/ StoreEffect /\ canon' = canon
  \/ CanonEffect /\ store' = store

\* What no step takes back.
Forward(s, t, cn, dn) ==
  /\ \A x \in ArtifactId : Claimed(s, x) => Claimed(t, x)
  /\ \A o \in Op : cn.status[o] = "committed" =>
       dn.status[o] = "committed" /\ dn.artifact[o] = cn.artifact[o]

LEMMA BackedForward ==
  ASSUME NEW k, NEW s, NEW t, NEW cn, NEW dn,
         k.pc \in HasArtifact => k.art \in ArtifactId,
         k.pc # "idle" => k.op \in Op,
         Backed(k, s, cn), Forward(s, t, cn, dn)
  PROVE  Backed(k, t, dn)
BY DEF Backed, Forward, Validated, HasArtifact, Owned

\* A claimed receipt belongs to the artifact its authorization was consumed with.
LEMMA EffectForward ==
  ASSUME Shape, Effect
  PROVE  Forward(store, store', canon, canon')
<1>0. /\ store \in StoreState /\ ReceiptsConsistent(store) /\ canon \in Canonical
      /\ \A x \in ArtifactId : AuthOf(x) \in Auth
  BY DEF Shape, TypeOK, AuthOf, ArtifactId
<1>1. ASSUME StoreEffect, NEW y \in ArtifactId, Claimed(store, y)
      PROVE  Claimed(store', y)
  <2> DEFINE a == AuthOf(y)
  <2>0. a \in Auth /\ store[a].artifact = y
        /\ store[a].receipt \in {"commit_claimed", "committed"} /\ store[a].status = "consumed"
    BY <1>0, <1>1 DEF Claimed, ReceiptsConsistent
  <2>t. store[a] \in Entry
    BY <1>0, <2>0 DEF StoreState
  <2> SUFFICES store'[a].artifact = y /\ store'[a].receipt \in {"commit_claimed", "committed"}
    BY DEF Claimed
  <2> HIDE DEF a
  <2>1. CASE store' = store
    BY <2>0, <2>1
  <2>2. ASSUME NEW b \in Auth, store' = Issue(store, b) PROVE store'[a] = store[a]
    BY <1>0, <2>0, <2>2 DEF Issue, StoreState
  <2>3. ASSUME NEW x \in ArtifactId, store' = Consume(store, AuthOf(x), x) PROVE store'[a] = store[a]
    BY <1>0, <2>0, <2>3 DEF Consume, StoreState
  <2>4. ASSUME NEW x \in ArtifactId, CanClaim(store, x), store' = Claim(store, x)
        PROVE store'[a] = store[a]
    BY <1>0, <2>0, <2>4 DEF Claim, StoreState
  <2>5. ASSUME NEW x \in ArtifactId, CanFinalize(store, x), store' = Finalize(store, x)
        PROVE store'[a].artifact = y /\ store'[a].receipt \in {"commit_claimed", "committed"}
    BY <1>0, <2>0, <2>t, <2>5 DEF Finalize, StoreState, Entry
  <2>6. ASSUME NEW e, store' = ActivatePolicy(store, e) PROVE store'[a] = store[a]
    BY <1>0, <2>0, <2>6 DEF ActivatePolicy, Revoke
  <2> QED BY <1>1, <2>0, <2>1, <2>2, <2>3, <2>4, <2>5, <2>6 DEF StoreEffect
<1>2. ASSUME CanonEffect, NEW o \in Op, canon.status[o] = "committed"
      PROVE  canon'.status[o] = "committed" /\ canon'.artifact[o] = canon.artifact[o]
  BY <1>0, <1>2 DEF CanonEffect, Records, Rejects, Commits, Canonical
<1> QED BY <1>1, <1>2 DEF Forward, Effect

\* Only a finalization settles a receipt.
LEMMA SettledBy ==
  ASSUME Shape, StoreEffect, NEW a \in Auth, store'[a].receipt = "committed"
  PROVE  \/ store[a].receipt = "committed" /\ store'[a].artifact = store[a].artifact
         \/ /\ store'[a].artifact = store[a].artifact
            /\ canon.status[AuthOp[a]] = "committed"
            /\ canon.artifact[AuthOp[a]] = store[a].artifact
<1>0. /\ store \in StoreState /\ ReceiptsConsistent(store) /\ store[a] \in Entry
      /\ \A x \in ArtifactId : AuthOf(x) \in Auth
  BY DEF Shape, TypeOK, AuthOf, ArtifactId, StoreState
<1>1. CASE store' = store
  BY <1>1
<1>2. ASSUME NEW b \in Auth, store' = Issue(store, b)
      PROVE store[a].receipt = "committed" /\ store'[a].artifact = store[a].artifact
  BY <1>0, <1>2 DEF Issue, StoreState, Entry
<1>3. ASSUME NEW x \in ArtifactId, store' = Consume(store, AuthOf(x), x) PROVE store'[a] = store[a]
  BY <1>0, <1>3 DEF Consume, StoreState
<1>4. ASSUME NEW x \in ArtifactId, CanClaim(store, x), store' = Claim(store, x)
      PROVE store'[a] = store[a]
  <2>1. CASE a # AuthOf(x)
    BY <1>0, <1>4, <2>1 DEF Claim, StoreState
  <2>2. CASE a = AuthOf(x) /\ store[a].receipt \notin {"commit_claimed", "committed"}
    <3>1. store'[a] = [store[a] EXCEPT !.receipt = "commit_claimed", !.claim = ClaimId(x)]
      BY <1>0, <1>4, <2>2 DEF Claim, StoreState
    <3>2. store'[a].receipt = "commit_claimed"
      BY <1>0, <3>1 DEF Entry
    <3> QED BY <3>2
  <2> QED BY <1>4, <2>1, <2>2 DEF Claim
<1>5. ASSUME NEW x \in ArtifactId, CanFinalize(store, x), store' = Finalize(store, x),
             canon.status[AuthOp[AuthOf(x)]] = "committed",
             canon.artifact[AuthOp[AuthOf(x)]] = x
      PROVE  \/ store'[a] = store[a]
             \/ /\ store'[a].artifact = store[a].artifact
                /\ canon.status[AuthOp[a]] = "committed"
                /\ canon.artifact[AuthOp[a]] = store[a].artifact
  <2>1. CASE a # AuthOf(x)
    BY <1>0, <1>5, <2>1 DEF Finalize, StoreState
  <2>2. CASE a = AuthOf(x)
    <3>1. store'[a] = [store[a] EXCEPT !.receipt = "committed"] /\ store[a].artifact = x
      BY <1>0, <1>5, <2>2 DEF Finalize, CanFinalize, HasReceipt, StoreState
    <3>2. store'[a].artifact = x
      BY <1>0, <3>1 DEF Entry
    <3> QED BY <1>5, <2>2, <3>1, <3>2
  <2> QED BY <2>1, <2>2
<1>6. ASSUME NEW e, store' = ActivatePolicy(store, e) PROVE store'[a] = store[a]
  <2>1. store'[a] \in {store[a], Revoke(store, a)[a]}
    BY <1>6 DEF ActivatePolicy
  <2>2. CASE store[a].status = "active"
    <3>1. store[a].receipt = "none" /\ [store[a] EXCEPT !.status = "revoked"].receipt = "none"
      BY <1>0, <2>2 DEF ReceiptsConsistent, Entry
    <3> QED BY <1>0, <2>1, <2>2, <3>1 DEF Revoke, StoreState
  <2>3. CASE store[a].status = "consumed" /\ store[a].receipt = "authorized"
    <3>1. [store[a] EXCEPT !.receipt = "revoked"].receipt = "revoked"
      BY <1>0 DEF Entry
    <3> QED BY <1>0, <2>1, <2>3, <3>1 DEF Revoke, StoreState
  <2> QED BY <2>1, <2>2, <2>3 DEF Revoke
<1> QED BY <1>1, <1>2, <1>3, <1>4, <1>5, <1>6 DEF StoreEffect

\* Every effect keeps the receipts in step with the commits.
LEMMA EffectKeepsBacking ==
  ASSUME Shape, Shape', AppliedOnce, ReceiptBacksCommit, Effect
  PROVE  AppliedOnce' /\ ReceiptBacksCommit'
<1>0. /\ store \in StoreState /\ ReceiptsConsistent(store) /\ canon \in Canonical
      /\ store' \in StoreState /\ ReceiptsConsistent(store')
      /\ \A x \in ArtifactId : AuthOf(x) \in Auth
      /\ \A a \in Auth : AuthOp[a] \in Op
  BY StoreAssumption DEF Shape, TypeOK, AuthOf, ArtifactId, ReceiptsConsistent
<1>1. ASSUME NEW o \in Op, canon'.status[o] = "committed"
      PROVE  \/ canon.status[o] = "committed" /\ canon'.artifact[o] = canon.artifact[o]
             \/ \E x \in ArtifactId : Commits(o, x)
  BY ZenonT(60), <1>0, <1>1 DEF Effect, CanonEffect, Records, Rejects, Commits, Canonical
<1>2. ASSUME NEW o \in Op, canon.status[o] = "committed"
      PROVE  canon'.status[o] = "committed" /\ canon'.artifact[o] = canon.artifact[o]
  BY <1>2, EffectForward DEF Forward
<1>3. ASSUME NEW o \in Op, NEW x \in ArtifactId, canon'.status[o] = "committed",
             canon'.artifact[o] = x
      PROVE  /\ AuthOp[AuthOf(x)] = o /\ canon'.art[x] = "consumed"
             /\ Claimed(store', x)
  <2>1. CASE canon.status[o] = "committed" /\ canon'.artifact[o] = canon.artifact[o]
    <3>1. AuthOp[AuthOf(x)] = o /\ canon.art[x] = "consumed" /\ Claimed(store, x)
      BY <1>3, <2>1 DEF ReceiptBacksCommit, Claimed
    <3>2. canon'.art[x] = "consumed"
      BY <1>0, <3>1 DEF Effect, CanonEffect, Records, Rejects, Commits, Canonical
    <3>3. Claimed(store', x)
      BY <3>1, EffectForward DEF Forward
    <3> QED BY <3>1, <3>2, <3>3
  <2>2. ASSUME NEW y \in ArtifactId, Commits(o, y)
        PROVE  AuthOp[AuthOf(x)] = o /\ canon'.art[x] = "consumed" /\ Claimed(store', x)
    <3>1. y = x /\ canon'.art[x] = "consumed"
      BY <1>0, <1>3, <2>2 DEF Commits, Canonical
    <3> QED BY <2>2, <3>1, EffectForward DEF Forward, Commits
  <2> QED BY <1>1, <1>3, <2>1, <2>2
<1>4. ASSUME NEW o \in Op, canon'.status[o] = "committed" PROVE canon'.artifact[o] \in ArtifactId
  BY <1>4 DEF Shape, CommitNamed
<1>5. \A o \in Op : canon'.status[o] = "committed" =>
        LET x == canon'.artifact[o] IN
        /\ x \in ArtifactId /\ AuthOp[AuthOf(x)] = o /\ canon'.art[x] = "consumed"
        /\ store'[AuthOf(x)].artifact = x
        /\ store'[AuthOf(x)].receipt \in {"commit_claimed", "committed"}
        /\ store'[AuthOf(x)].claim = ClaimId(x)
  BY <1>0, <1>3, <1>4 DEF Claimed, ReceiptsConsistent
<1>6. ASSUME NEW a \in Auth, store'[a].receipt = "committed"
      PROVE  /\ canon'.status[AuthOp[a]] = "committed"
             /\ canon'.artifact[AuthOp[a]] = store'[a].artifact
  <2>1. CASE StoreEffect /\ canon' = canon
    BY <1>6, <2>1, SettledBy DEF ReceiptBacksCommit
  <2>2. CASE CanonEffect /\ store' = store
    BY <1>0, <1>2, <1>6, <2>2 DEF ReceiptBacksCommit
  <2> QED BY <2>1, <2>2 DEF Effect
<1>7. AppliedOnce'
  <2>1. CASE canon' = canon \/ Records
    BY <2>1 DEF Records, AppliedOnce
  <2>2. ASSUME NEW o \in Op, Rejects(o) PROVE AppliedOnce'
    BY <1>0, <2>2 DEF Rejects, AppliedOnce, Canonical
  <2>3. ASSUME NEW o \in Op, NEW x \in ArtifactId, Commits(o, x) PROVE AppliedOnce'
    <3>1. canon.commits[o] = 0
      BY <2>3 DEF Commits, AppliedOnce
    <3>2. /\ canon'.status = [canon.status EXCEPT ![o] = "committed"]
          /\ canon'.commits = [canon.commits EXCEPT ![o] = 1]
      BY <2>3, <3>1 DEF Commits
    <3>3. canon.status \in [Op -> {"pending", "committed", "rejected"}] /\ canon.commits \in [Op -> Nat]
      BY <1>0 DEF Canonical
    <3> QED BY <3>2, <3>3 DEF AppliedOnce
  <2> QED BY <2>1, <2>2, <2>3 DEF Effect, CanonEffect
<1> QED BY <1>5, <1>6, <1>7 DEF ReceiptBacksCommit

-----------------------------------------------------------------------------
(* Every step has one of the effects, and leaves its call backed.          *)

Unbacked == Phases \ ({"record", "expire", "own3", "finalize"} \cup Validated)

\* In most phases a call relies on nothing.
LEMMA BackedFree ==
  ASSUME NEW k, k.pc \in Unbacked, NEW s, NEW cn
  PROVE  Backed(k, s, cn)
BY DEF Backed, Unbacked, Validated

\* Where a call is after it went on or failed.
LEMMA Lands ==
  ASSUME Shape, NEW c \in Call
  PROVE  /\ \A phase : Goto(c, phase) => call'[c] = [call[c] EXCEPT !.pc = phase] /\ call'[c].pc = phase
         /\ Fail(c) => call'[c].pc = "idle"
         /\ FailOwned(c) => call'[c].pc = "release"
         /\ \A x : ToCommit(c, x) => call'[c].pc = "acquire"
<1>0. call \in [Call -> CallState] /\ call[c] \in CallState
  BY DEF Shape, TypeOK
<1>1. ASSUME NEW phase, Goto(c, phase)
      PROVE  call'[c] = [call[c] EXCEPT !.pc = phase] /\ call'[c].pc = phase
  BY <1>0, <1>1 DEF Goto, CallState
<1>2. Fail(c) => call'[c].pc = "idle"
  BY <1>0 DEF Fail, IdleCall
<1>3. FailOwned(c) => call'[c].pc = "release"
  BY <1>0 DEF FailOwned, CallState
<1>4. ASSUME NEW x, ToCommit(c, x) PROVE call'[c].pc = "acquire"
  BY <1>0, <1>4 DEF ToCommit, CallState
<1> QED BY <1>1, <1>2, <1>3, <1>4

\* A save changes what it was given.
LEMMA SavedFields ==
  ASSUME Shape, NEW s \in Canonical, Save(s)
  PROVE  /\ canon'.status = s.status /\ canon'.artifact = s.artifact
         /\ canon'.art = s.art /\ canon'.commits = s.commits
BY DEF Save, Canonical

\* The steps before the commit.
LEMMA AuthorizeEffect ==
  ASSUME DecisionInv, NEW c \in Call, AuthorizeSteps(c)
  PROVE  Effect /\ Backed(call'[c], store', canon')
<1> USE DEF At
<1>0. /\ Shape /\ call \in [Call -> CallState] /\ call[c] \in CallState
      /\ WellShaped(call[c]) /\ Backed(call[c], store, canon)
      /\ canon \in Canonical
  BY DEF DecisionInv, Shape, TypeOK, CallShape
<1>a. canon' = canon /\ store' = store => Effect
  BY DEF Effect, StoreEffect
<1>b. call'[c].pc \in Unbacked => Backed(call'[c], store', canon')
  BY BackedFree
<1>c. {"idle", "activate", "decide", "consult", "authorize", "mint", "consume", "reload",
       "acquire", "validate", "release"} \subseteq Unbacked
  BY DEF Unbacked, Phases, Owned, Validated
<1>1. CASE Activate(c)
  <2>1. Effect
    BY <1>1 DEF Activate, Effect, StoreEffect
  <2>2. call'[c].pc \in {"idle", "decide"}
    BY <1>0, <1>1, Lands DEF Activate
  <2> QED BY <1>b, <1>c, <2>1, <2>2
<1>2. CASE DecideReplay(c) \/ DecideRejected(c) \/ DecidePending(c) \/ Authorize(c)
  <2>1. canon' = canon /\ store' = store
    BY <1>2 DEF DecideReplay, DecideRejected, DecidePending, Authorize
  <2>2. call'[c].pc \in {"acquire", "idle", "consult", "mint"}
    BY <1>0, <1>2, Lands DEF DecideReplay, DecideRejected, DecidePending, Authorize
  <2> QED BY <1>a, <1>b, <1>c, <2>1, <2>2
<1>3. CASE DecideDeny(c)
  <2>1. call'[c].pc = "idle" /\ store' = store
    BY <1>0, <1>3, Lands DEF DecideDeny
  <2>2. CASE canon' = canon
    BY <1>a, <1>b, <1>c, <2>1, <2>2
  <2>3. CASE /\ canon.status[call[c].op] = "pending"
             /\ Save([canon EXCEPT !.status[call[c].op] = "rejected"])
    <3> DEFINE s == [canon EXCEPT !.status[call[c].op] = "rejected"]
    <3>1. call[c].op \in Op
      BY <1>0, <1>3 DEF DecideDeny, WellShaped
    <3>2. s \in Canonical
      BY <1>0, <3>1 DEF Canonical
    <3>3. /\ s.status = [canon.status EXCEPT ![call[c].op] = "rejected"]
          /\ s.artifact = canon.artifact /\ s.art = canon.art /\ s.commits = canon.commits
      BY <1>0 DEF Canonical
    <3> HIDE DEF s
    <3>4. Save(s)
      BY <2>3 DEF s
    <3>5. Rejects(call[c].op)
      BY <1>0, <2>3, <3>2, <3>3, <3>4, SavedFields DEF Rejects
    <3>6. Effect
      BY <2>1, <3>1, <3>5 DEF Effect, CanonEffect
    <3> QED BY <1>b, <1>c, <2>1, <3>6
  <2> QED BY <1>3, <2>2, <2>3 DEF DecideDeny
<1>4. ASSUME NEW a \in Auth, DecideAllow(c, a) PROVE Effect /\ Backed(call'[c], store', canon')
  <2>1. Effect
    BY <1>4 DEF DecideAllow, Effect, StoreEffect
  <2>2. call'[c].pc = "authorize"
    BY <1>0, <1>4 DEF DecideAllow, CallState
  <2> QED BY <1>b, <1>c, <2>1, <2>2
<1>5. ASSUME NEW x \in ArtifactId, CommitArtifact(c, x) PROVE Effect /\ Backed(call'[c], store', canon')
  <2>1. canon' = canon /\ store' = store /\ call'[c].pc = "acquire"
    BY <1>0, <1>5, Lands DEF CommitArtifact
  <2> QED BY <1>a, <1>b, <1>c, <2>1
<1>6. CASE Mint(c)
  <2>1. canon' = canon /\ store' = store /\ call'[c].pc = "consume"
    BY <1>0, <1>6 DEF Mint, CallState
  <2> QED BY <1>a, <1>b, <1>c, <2>1
<1>7. CASE ConsumeAuthorization(c)
  <2>1. call[c].art \in ArtifactId /\ AuthOf(call[c].art) = call[c].auth
    BY <1>0, <1>7 DEF ConsumeAuthorization, WellShaped, HasArtifact
  <2>2. Effect
    BY <1>7, <2>1 DEF ConsumeAuthorization, Effect, StoreEffect
  <2>3. call'[c].pc \in {"reload", "idle"}
    BY <1>0, <1>7, Lands DEF ConsumeAuthorization
  <2> QED BY <1>b, <1>c, <2>2, <2>3
<1>8. CASE Reload(c)
  <2>1. canon' = canon /\ store' = store
    BY <1>8 DEF Reload
  <2>2. CASE ToCommit(c, call[c].art)
    <3>1. call'[c].pc = "acquire"
      BY <1>0, <2>2, Lands
    <3> QED BY <1>a, <1>b, <1>c, <2>1, <3>1
  <2>3. CASE canon.art[call[c].art] = "none" /\ call' = [call EXCEPT ![c].pc = "record", ![c].snap = canon]
    <3>1. call'[c].pc = "record" /\ call'[c].snap = canon /\ call'[c].art = call[c].art
      BY <1>0, <2>3 DEF CallState
    <3>2. Backed(call'[c], store', canon')
      BY <2>3, <3>1 DEF Backed, Validated
    <3> QED BY <1>a, <2>1, <3>2
  <2>4. call[c].art \in ArtifactId /\ canon.art[call[c].art] \in ArtifactStatus
    BY <1>0, <1>8 DEF Reload, WellShaped, HasArtifact, Canonical
  <2> QED BY <1>8, <2>2, <2>3, <2>4 DEF Reload, ArtifactStatus
<1>9. CASE RecordArtifact(c)
  <2>0. call[c].art \in ArtifactId /\ call[c].snap.art[call[c].art] = "none"
    BY <1>0, <1>9 DEF RecordArtifact, WellShaped, HasArtifact, Backed
  <2>1. call'[c].pc \in {"idle", "acquire"} /\ store' = store
    BY <1>0, <1>9, Lands DEF RecordArtifact
  <2>2. CASE canon' = canon
    BY <1>a, <1>b, <1>c, <2>1, <2>2
  <2>3. CASE HeadMatches(call[c].snap)
    <3> DEFINE s == [canon EXCEPT !.art[call[c].art] = "approved"]
    <3>1. call[c].snap = canon
      BY <1>0, <1>9, <2>3 DEF RecordArtifact, HeadMatches, Shape, SnapshotFresh, HasSnapshot
    <3>2. s \in Canonical
      BY <1>0, <2>0 DEF Canonical, ArtifactStatus
    <3>3. /\ s.art = [canon.art EXCEPT ![call[c].art] = "approved"]
          /\ s.artifact = canon.artifact /\ s.status = canon.status /\ s.commits = canon.commits
      BY <1>0 DEF Canonical
    <3>4. Save(s)
      BY <1>9, <2>3, <3>1 DEF RecordArtifact
    <3> HIDE DEF s
    <3>5. Records
      BY ZenonT(60), <1>0, <2>0, <3>1, <3>2, <3>3, <3>4, SavedFields DEF Records
    <3>6. Effect
      BY <2>1, <3>5 DEF Effect, CanonEffect
    <3> QED BY <1>b, <1>c, <2>1, <3>6
  <2> QED BY <1>9, <2>2, <2>3 DEF RecordArtifact
<1> QED BY <1>1, <1>2, <1>3, <1>4, <1>5, <1>6, <1>7, <1>8, <1>9 DEF AuthorizeSteps

\* A receipt that was claimed is claimed for this artifact.
LEMMA ClaimSticks ==
  ASSUME Shape, NEW x \in ArtifactId, CanClaim(store, x)
  PROVE  Claimed(Claim(store, x), x)
<1> DEFINE a == AuthOf(x)
<1>1. a \in Auth /\ store \in StoreState /\ store[a] \in Entry /\ store[a].artifact = x
  BY DEF Shape, TypeOK, AuthOf, ArtifactId, StoreState, CanClaim, HasReceipt
<1>2. CASE store[a].receipt \notin {"commit_claimed", "committed"}
  <2>1. Claim(store, x)[a] = [store[a] EXCEPT !.receipt = "commit_claimed", !.claim = ClaimId(x)]
    BY <1>1, <1>2 DEF Claim, StoreState
  <2>2. Claim(store, x)[a].artifact = x /\ Claim(store, x)[a].receipt = "commit_claimed"
    BY <1>1, <2>1 DEF Entry
  <2> QED BY <2>2 DEF Claimed
<1> QED BY <1>1, <1>2 DEF Claim, Claimed

\* The steps from acquiring the ownership to releasing it.
LEMMA CommitEffect ==
  ASSUME DecisionInv, NEW c \in Call, CommitSteps(c)
  PROVE  Effect /\ Backed(call'[c], store', canon')
<1> USE DEF At
<1>0. /\ Shape /\ call \in [Call -> CallState] /\ call[c] \in CallState
      /\ WellShaped(call[c]) /\ Backed(call[c], store, canon)
      /\ canon \in Canonical
  BY DEF DecisionInv, Shape, TypeOK, CallShape
<1>a. canon' = canon /\ store' = store => Effect
  BY DEF Effect, StoreEffect
<1>b. call'[c].pc \in {"idle", "validate", "release"} => Backed(call'[c], store', canon')
  BY BackedFree DEF Unbacked, Phases, Owned, Validated
<1>c. call[c].pc \in Owned => call[c].op \in Op /\ call[c].art \in ArtifactId
  BY <1>0 DEF WellShaped, HasArtifact, Owned
<1>1. CASE Acquire(c)
  <2>1. canon' = canon /\ store' = store
    BY <1>1 DEF Acquire
  <2>2. call'[c].pc \in {"idle", "validate"}
    <3>1. CASE Fail(c)
      BY <1>0, <3>1, Lands
    <3>2. ASSUME NEW t, call' = [call EXCEPT ![c].pc = "validate", ![c].token = t]
          PROVE call'[c].pc = "validate"
      BY <1>0, <3>2 DEF CallState
    <3> QED BY <1>1, <3>1, <3>2 DEF Acquire
  <2> QED BY <1>a, <1>b, <2>1, <2>2
<1>2. CASE Validate(c)
  <2> DEFINE phase == ValidatedPhase(c)
             snap == IF phase \in {"expire", "own1"} THEN canon ELSE NoSnapshot
             o == call[c].op
             x == call[c].art
  <2>1. canon' = canon /\ store' = store
    BY <1>2 DEF Validate
  <2>2. /\ call'[c].pc = phase /\ call'[c].op = o /\ call'[c].art = x
        /\ call'[c].snap = snap
    <3> HIDE DEF phase
    <3>1. call' = [call EXCEPT ![c].pc = phase, ![c].epoch = None, ![c].snap = snap]
      BY <1>2 DEF Validate, phase
    <3> HIDE DEF snap
    <3> QED BY <1>0, <3>1 DEF CallState
  <2>3. /\ phase \in {"own3", "expire", "own1", "release"}
        /\ phase = "own3" => Replayable(canon, o, x)
        /\ phase \in {"expire", "own1"} =>
             canon.status[o] = "pending" /\ ArtifactUsable(canon, o, x, call[c].epoch)
        /\ phase = "own1" => canon.route = canon.digest[o]
    BY DEF ValidatedPhase
  <2> HIDE DEF phase, o, x
  <2>4. Backed(call'[c], store', canon')
    BY <2>1, <2>2, <2>3 DEF Backed, Validated, Replayable, ArtifactUsable
  <2> QED BY <1>a, <2>1, <2>4
<1>3. CASE SaveExpired(c)
  <2>0. /\ call[c].art \in ArtifactId /\ call[c].snap.art[call[c].art] = "approved"
        /\ store' = store
    BY <1>0, <1>c, <1>3 DEF SaveExpired, Backed, Owned
  <2>1. call'[c].pc = "release"
    BY <1>0, <1>3, Lands DEF SaveExpired
  <2>2. CASE canon' = canon
    BY <1>a, <1>b, <2>0, <2>1, <2>2
  <2>3. CASE HeadMatches(call[c].snap)
    <3> DEFINE s == [canon EXCEPT !.art[call[c].art] = "expired"]
    <3>1. call[c].snap = canon
      BY <1>0, <1>3, <2>3 DEF SaveExpired, HeadMatches, Shape, SnapshotFresh, HasSnapshot
    <3>2. s \in Canonical
      BY <1>0, <2>0 DEF Canonical, ArtifactStatus
    <3>3. /\ s.art = [canon.art EXCEPT ![call[c].art] = "expired"]
          /\ s.artifact = canon.artifact /\ s.status = canon.status /\ s.commits = canon.commits
      BY <1>0 DEF Canonical
    <3>4. Save(s)
      BY <1>3, <2>3, <3>1 DEF SaveExpired
    <3> HIDE DEF s
    <3>5. Records
      BY ZenonT(60), <1>0, <2>0, <3>1, <3>2, <3>3, <3>4, SavedFields DEF Records
    <3>6. Effect
      BY <2>0, <3>5 DEF Effect, CanonEffect
    <3> QED BY <1>b, <2>1, <3>6
  <2> QED BY <1>3, <2>2, <2>3 DEF SaveExpired
<1>4. ASSUME NEW here, NEW there, RequireOwnership(c, here, there),
             <<here, there>> \in {<<"own1", "claim">>, <<"own2", "save">>, <<"own3", "finalize">>}
      PROVE  Effect /\ Backed(call'[c], store', canon')
  <2>1. canon' = canon /\ store' = store
    BY <1>4 DEF RequireOwnership
  <2>2. call'[c].pc = "release" \/ Goto(c, there)
    BY <1>0, <1>4, Lands DEF RequireOwnership
  <2>3. CASE Goto(c, there)
    <3>1. call'[c] = [call[c] EXCEPT !.pc = there] /\ call'[c].pc = there
      BY <1>0, <2>3, Lands
    <3>2. /\ call'[c].op = call[c].op /\ call'[c].art = call[c].art
          /\ call'[c].snap = call[c].snap
      BY <1>0, <3>1 DEF CallState
    <3>3. call[c].pc = here
      BY <1>4 DEF RequireOwnership
    <3>4. Backed(call'[c], store', canon')
      BY <1>0, <1>4, <2>1, <3>1, <3>2, <3>3 DEF Backed, Validated
    <3> QED BY <1>a, <2>1, <3>4
  <2> QED BY <1>a, <1>b, <2>1, <2>2, <2>3
<1>5. CASE ClaimReceipt(c)
  <2>0. call[c].art \in ArtifactId /\ canon' = canon
    BY <1>c, <1>5 DEF ClaimReceipt, Owned
  <2>1. CASE FailOwned(c) /\ store' = store
    BY <1>0, <1>a, <1>b, <2>0, <2>1, Lands
  <2>2. CASE CanClaim(store, call[c].art) /\ store' = Claim(store, call[c].art) /\ Goto(c, "own2")
    <3>1. Effect
      BY <2>0, <2>2 DEF Effect, StoreEffect
    <3>2. /\ call'[c].pc = "own2" /\ call'[c].op = call[c].op /\ call'[c].art = call[c].art
          /\ call'[c].snap = call[c].snap
      <4>1. call'[c] = [call[c] EXCEPT !.pc = "own2"] /\ call'[c].pc = "own2"
        BY <1>0, <2>2, Lands
      <4> QED BY <1>0, <4>1 DEF CallState
    <3>3. Claimed(store', call[c].art)
      BY <1>0, <2>0, <2>2, ClaimSticks
    <3>4. Backed(call'[c], store', canon')
      BY <1>0, <1>5, <3>2, <3>3 DEF ClaimReceipt, Backed, Validated
    <3> QED BY <3>1, <3>4
  <2> QED BY <1>5, <2>1, <2>2 DEF ClaimReceipt
<1>6. CASE SaveCommit(c)
  <2> DEFINE o == call[c].op
             x == call[c].art
  <2>0. o \in Op /\ x \in ArtifactId /\ store' = store
    BY <1>c, <1>6 DEF SaveCommit, Owned
  <2>1. CASE FailOwned(c) /\ canon' = canon
    BY <1>0, <1>a, <1>b, <2>0, <2>1, Lands
  <2>2. CASE HeadMatches(call[c].snap)
    <3>1. call[c].snap = canon
      BY <1>0, <1>6, <2>2 DEF SaveCommit, HeadMatches, Shape, SnapshotFresh, HasSnapshot
    <3>2. PICK r \in Route : Save(Committed(canon, o, x, r))
      BY <1>6, <2>2, <3>1 DEF SaveCommit
    <3> DEFINE s == Committed(canon, o, x, r)
    <3>3. s \in Canonical
      BY <1>0, <2>0, CanonicalUpdates DEF ArtifactStatus
    <3>4. /\ s.status = [canon.status EXCEPT ![o] = "committed"]
          /\ s.artifact = [canon.artifact EXCEPT ![o] = x]
          /\ s.art = [canon.art EXCEPT ![x] = "consumed"]
          /\ s.commits = [canon.commits EXCEPT ![o] = canon.commits[o] + 1]
      BY <1>0 DEF Committed, Canonical
    <3>5. /\ canon.status[o] = "pending" /\ canon.art[x] = "approved"
          /\ AuthOp[AuthOf(x)] = o /\ Claimed(store, x)
          /\ canon.route = canon.digest[o]
      BY <1>0, <1>6, <3>1 DEF SaveCommit, Backed, Validated
    <3>6. call'[c].pc = "release" \/ (call'[c].pc = "own3" /\ call'[c].op = o /\ call'[c].art = x)
      <4>1. CASE FailOwned(c)
        BY <1>0, <4>1, Lands
      <4>2. CASE call' = [call EXCEPT ![c].pc = "own3", ![c].snap = NoSnapshot]
        BY <1>0, <4>2 DEF CallState
      <4> QED BY <1>6, <2>2, <4>1, <4>2 DEF SaveCommit
    <3> HIDE DEF s, o, x
    <3>7. Commits(o, x)
      BY <1>0, <3>2, <3>3, <3>4, <3>5, SavedFields DEF Commits, s
    <3>8. Effect
      BY <2>0, <3>7 DEF Effect, CanonEffect
    <3>9. canon'.status[o] = "committed" /\ canon'.artifact[o] = x
      BY <1>0, <2>0, <3>7 DEF Commits, Canonical
    <3>10. call'[c].pc = "own3" => Backed(call'[c], store', canon')
      BY <3>6, <3>9 DEF Backed, Validated
    <3> QED BY <1>b, <3>6, <3>8, <3>10
  <2> QED BY <1>6, <2>1, <2>2 DEF SaveCommit
<1>7. CASE FinalizeReceipt(c)
  <2>0. /\ call[c].op \in Op /\ call[c].art \in ArtifactId /\ canon' = canon
        /\ canon.status[call[c].op] = "committed" /\ canon.artifact[call[c].op] = call[c].art
    BY <1>0, <1>c, <1>7 DEF FinalizeReceipt, Backed, Owned
  <2>1. AuthOp[AuthOf(call[c].art)] = call[c].op
    BY <2>0 DEF DecisionInv, ReceiptBacksCommit
  <2>2. Effect
    BY <1>7, <2>0, <2>1 DEF FinalizeReceipt, Effect, StoreEffect
  <2>3. call'[c].pc = "release"
    BY <1>0, <1>7, Lands DEF FinalizeReceipt
  <2> QED BY <1>b, <2>2, <2>3
<1>8. CASE ReleaseOwnership(c)
  <2>1. canon' = canon /\ store' = store /\ Fail(c)
    BY <1>8 DEF ReleaseOwnership, Fail
  <2> QED BY <1>0, <1>a, <1>b, <2>1, Lands
<1> QED BY <1>1, <1>2, <1>3, <1>4, <1>5, <1>6, <1>7, <1>8 DEF CommitSteps

\* The steps that no call takes: only an ordinary write and the broker's own
\* activation reach the aggregate and the store.
LEMMA EnvironmentEffect ==
  ASSUME DecisionInv, Environment
  PROVE  /\ Effect
         /\ \A d \in Call : call'[d] = call[d] \/ call'[d].pc = "idle"
<1>0. /\ Shape /\ call \in [Call -> CallState] /\ canon \in Canonical
  BY DEF DecisionInv, Shape, TypeOK
<1>1. CASE OrdinaryWrite
  <2>1. PICK r \in Route : Save([canon EXCEPT !.route = r])
    BY <1>1 DEF OrdinaryWrite
  <2> DEFINE s == [canon EXCEPT !.route = r]
  <2>2. /\ s \in Canonical /\ s.art = canon.art
        /\ s.artifact = canon.artifact /\ s.status = canon.status /\ s.commits = canon.commits
    BY <1>0 DEF Canonical
  <2>3. Save(s)
    BY <2>1
  <2> HIDE DEF s
  <2>4. Records
    BY <1>0, <2>2, <2>3, SavedFields DEF Records
  <2> QED BY <1>1, <2>4 DEF OrdinaryWrite, Effect, CanonEffect
<1>2. CASE BrokerActivate
  BY <1>2 DEF BrokerActivate, Effect, StoreEffect
<1>3. CASE InstallProfile \/ (\E a \in Auth : ExpireAuthorization(a)) \/ (\E o \in Op : LapseLease(o))
  BY <1>3 DEF InstallProfile, ExpireAuthorization, LapseLease, Effect, StoreEffect
<1>4. ASSUME NEW p \in Process, Exit(p)
      PROVE  Effect /\ \A d \in Call : call'[d] = call[d] \/ call'[d].pc = "idle"
  BY <1>4 DEF Exit, IdleCall, Effect, StoreEffect
<1>5. ASSUME NEW p \in Process, Boot(p) PROVE Effect /\ call' = call
  BY <1>5 DEF Boot, Effect, StoreEffect
<1> QED BY <1>1, <1>2, <1>3, <1>4, <1>5 DEF Environment

\* Every step has one of the effects, and leaves every call backed.
LEMMA StepEffect ==
  ASSUME DecisionInv, [Next]_vars
  PROVE  Effect /\ \A d \in Call : Backed(call'[d], store', canon')
<1>0. /\ Shape /\ call \in [Call -> CallState]
      /\ \A d \in Call : WellShaped(call[d]) /\ Backed(call[d], store, canon)
  BY DEF DecisionInv, Shape, TypeOK, CallShape
<1>1. ASSUME NEW d \in Call, Effect, call'[d] = call[d] PROVE Backed(call'[d], store', canon')
  <2>1. /\ call[d].pc \in HasArtifact => call[d].art \in ArtifactId
        /\ call[d].pc # "idle" => call[d].op \in Op
    BY <1>0 DEF WellShaped
  <2> QED BY <1>0, <1>1, <2>1, EffectForward, BackedForward
<1>2. ASSUME NEW d \in Call, call'[d].pc \in {"idle", "activate"}
      PROVE  Backed(call'[d], store', canon')
  BY <1>2, BackedFree DEF Unbacked, Phases, Owned, Validated
<1>3. ASSUME NEW c \in Call, Proceed(c)
      PROVE  Effect /\ \A d \in Call : Backed(call'[d], store', canon')
  <2>1. Effect /\ Backed(call'[c], store', canon')
    BY <1>3, AuthorizeEffect, CommitEffect DEF Proceed
  <2>2. \A d \in Call : d # c => call'[d] = call[d]
    BY <1>0, <1>3, AuthorizeShape, CommitShape DEF Proceed, StepOK, CallOK
  <2> QED BY <1>1, <2>1, <2>2
<1>4. ASSUME NEW c \in Call, NEW o \in Op, StartCall(c, o)
      PROVE  Effect /\ \A d \in Call : Backed(call'[d], store', canon')
  <2>1. Effect
    BY <1>4 DEF StartCall, Effect, StoreEffect
  <2>2. call'[c].pc = "activate" /\ \A d \in Call : d # c => call'[d] = call[d]
    BY <1>0, <1>4 DEF StartCall, IdleCall
  <2> QED BY <1>1, <1>2, <2>1, <2>2
<1>5. CASE Environment
  BY <1>1, <1>2, <1>5, EnvironmentEffect
<1>6. CASE UNCHANGED vars
  <2>1. Effect /\ call' = call
    BY <1>6 DEF vars, Effect, StoreEffect
  <2> QED BY <1>1, <2>1
<1> QED BY <1>3, <1>4, <1>5, <1>6 DEF Next

LEMMA DecisionInit == Init => DecisionInv
<1> SUFFICES ASSUME Init PROVE DecisionInv
  OBVIOUS
<1>1. AppliedOnce /\ ReceiptBacksCommit
  BY DEF Init, AppliedOnce, ReceiptBacksCommit, EmptyStore
<1>2. \A c \in Call : Backed(call[c], store, canon)
  BY BackedFree DEF Init, IdleCall, Unbacked, Phases, Owned, Validated
<1> QED BY <1>1, <1>2, ShapeInit DEF DecisionInv

LEMMA DecisionStep == DecisionInv /\ [Next]_vars => DecisionInv' /\ Effect
<1> SUFFICES ASSUME DecisionInv, [Next]_vars PROVE DecisionInv' /\ Effect
  OBVIOUS
<1>1. Effect /\ \A d \in Call : Backed(call'[d], store', canon')
  BY StepEffect
<1>2. Shape /\ Shape'
  BY ShapeStep DEF DecisionInv
<1>3. AppliedOnce' /\ ReceiptBacksCommit'
  BY <1>1, <1>2, EffectKeepsBacking DEF DecisionInv
<1> QED BY <1>1, <1>2, <1>3 DEF DecisionInv

-----------------------------------------------------------------------------
(* The theorems.                                                           *)

\* The mutation of an operation is put on record at most once, and exactly
\* once if the operation is committed, whatever retries, replays, crashes and
\* other writers do in between.
THEOREM CommitsApplyOnce == Spec => []AppliedOnce
BY DecisionInit, DecisionStep, PTL DEF Spec, DecisionInv

\* A committed operation is backed by a consumed artifact and a claimed
\* receipt of an authorization for this very operation, and no receipt is
\* final without its commit.
THEOREM CommitsAreBacked == Spec => []ReceiptBacksCommit
BY DecisionInit, DecisionStep, PTL DEF Spec, DecisionInv

\* An operation is committed onto the route it was proposed at, however long
\* ago the digest was compared.
THEOREM CommitsOnApprovedRoute == Spec => CommitsApprovedRoute
<1>1. ASSUME DecisionInv, [Next]_vars
      PROVE  [\A o \in Op : canon.status[o] = "pending" /\ canon'.status[o] = "committed"
                => canon.route = canon.digest[o]]_vars
  <2>1. Effect /\ canon \in Canonical
    BY <1>1, DecisionStep DEF DecisionInv, Shape, TypeOK
  <2> QED BY <2>1 DEF Effect, CanonEffect, Records, Rejects, Commits, Canonical
<1> QED BY <1>1, DecisionInit, DecisionStep, PTL DEF Spec, CommitsApprovedRoute

\* No concurrent save takes a decision back or revives a spent artifact.
THEOREM DecisionsStayFinal == Spec => DecisionsAreFinal
<1>1. ASSUME DecisionInv, [Next]_vars
      PROVE  [/\ \A o \in Op : canon.status[o] # "pending" =>
                   /\ canon'.status[o] = canon.status[o]
                   /\ canon'.artifact[o] = canon.artifact[o]
              /\ \A x \in ArtifactId : canon.art[x] \in {"consumed", "expired"}
                   => canon'.art[x] = canon.art[x]]_vars
  <2>1. Effect /\ canon \in Canonical
    BY <1>1, DecisionStep DEF DecisionInv, Shape, TypeOK
  <2> QED BY ZenonT(60), <2>1 DEF Effect, CanonEffect, Records, Rejects, Commits, Canonical
<1> QED BY <1>1, DecisionInit, DecisionStep, PTL DEF Spec, DecisionsAreFinal

-----------------------------------------------------------------------------
(* Retrying a commit that was saved.                                       *)

Settled(o) == \E a \in Auth : AuthOp[a] = o /\ store[a].receipt = "committed"

\* A call that comes with the artifact of a committed operation passes the
\* validation as a replay, and the store lets it finalize the receipt.
ReplayAccepted ==
  \A c \in Call :
    /\ /\ call[c].pc = "validate" /\ canon.status[call[c].op] = "committed"
       /\ call[c].art = canon.artifact[call[c].op]
       => ValidatedPhase(c) = "own3"
    /\ call[c].pc \in {"own3", "finalize"} => CanFinalize(store, call[c].art)

\* A call that reaches the finalization settles its operation, which stays so.
ReplaySettles ==
  [][/\ \A c \in Call : FinalizeReceipt(c) => Settled(call[c].op)'
     /\ \A o \in Op : Settled(o) => Settled(o)']_vars

LEMMA FinalizableBy ==
  ASSUME DecisionInv, NEW c \in Call, call[c].pc \in {"own3", "finalize"}
  PROVE  /\ call[c].art \in ArtifactId /\ AuthOf(call[c].art) \in Auth
         /\ AuthOp[AuthOf(call[c].art)] = call[c].op
         /\ CanFinalize(store, call[c].art)
<1> DEFINE x == call[c].art
<1>1. /\ call[c].op \in Op /\ canon.status[call[c].op] = "committed"
      /\ canon.artifact[call[c].op] = x
  BY DEF DecisionInv, Backed, Shape, CallShape, WellShaped, Owned
<1>2. /\ x \in ArtifactId /\ AuthOp[AuthOf(x)] = call[c].op
      /\ store[AuthOf(x)].artifact = x /\ store[AuthOf(x)].claim = ClaimId(x)
      /\ store[AuthOf(x)].receipt \in {"commit_claimed", "committed"}
  BY <1>1 DEF DecisionInv, ReceiptBacksCommit
<1> QED
  BY <1>2 DEF CanFinalize, HasReceipt, ArtifactId, AuthOf

\* A final receipt is never reopened.
LEMMA FinalStays ==
  ASSUME Shape, StoreEffect \/ store' = store, NEW a \in Auth, store[a].receipt = "committed"
  PROVE  store'[a].receipt = "committed"
<1>1. /\ store \in StoreState /\ store[a] \in Entry /\ store[a].status = "consumed"
      /\ \A x \in ArtifactId : AuthOf(x) \in Auth
  BY DEF Shape, TypeOK, StoreState, ReceiptsConsistent, AuthOf, ArtifactId
<1>2. CASE store' = store
  BY <1>2
<1>3. ASSUME NEW b \in Auth, store' = Issue(store, b) PROVE store'[a] = store[a]
  BY <1>1, <1>3 DEF Issue, StoreState
<1>4. ASSUME NEW x \in ArtifactId, store' = Consume(store, AuthOf(x), x)
      PROVE  store'[a] = store[a]
  BY <1>1, <1>4 DEF Consume, StoreState
<1>5. ASSUME NEW x \in ArtifactId, store' = Claim(store, x) PROVE store'[a] = store[a]
  BY <1>1, <1>5 DEF Claim, StoreState
<1>6. ASSUME NEW x \in ArtifactId, store' = Finalize(store, x)
      PROVE  store'[a].receipt = "committed"
  BY <1>1, <1>6 DEF Finalize, StoreState, Entry
<1>7. ASSUME NEW e, store' = ActivatePolicy(store, e) PROVE store'[a] = store[a]
  BY <1>1, <1>7 DEF ActivatePolicy, Revoke
<1> QED
  BY <1>2, <1>3, <1>4, <1>5, <1>6, <1>7 DEF StoreEffect

\* Nothing that happens after the canonical save keeps a retry from finalizing
\* the receipt: not what the first call left behind, not another retry, not an
\* expiry, a revocation or a rotation of the profile.
THEOREM RetriesSettle == Spec => []ReplayAccepted /\ ReplaySettles
<1>1. ASSUME DecisionInv PROVE ReplayAccepted
  <2>1. ASSUME NEW c \in Call, call[c].pc = "validate",
               canon.status[call[c].op] = "committed", call[c].art = canon.artifact[call[c].op]
        PROVE  ValidatedPhase(c) = "own3"
    <3>1. call[c].op \in Op
      BY <1>1, <2>1 DEF DecisionInv, Shape, CallShape, WellShaped
    <3>2. canon.art[call[c].art] = "consumed"
      BY <1>1, <2>1, <3>1 DEF DecisionInv, ReceiptBacksCommit
    <3>3. Replayable(canon, call[c].op, call[c].art)
      BY <2>1, <3>2 DEF Replayable
    <3>4. canon.status[call[c].op] # "pending"
      BY <2>1
    <3> QED
      BY <3>3, <3>4 DEF ValidatedPhase
  <2> QED
    BY <1>1, <2>1, FinalizableBy DEF ReplayAccepted
<1>2. ASSUME DecisionInv, [Next]_vars
      PROVE  /\ \A c \in Call : FinalizeReceipt(c) => Settled(call[c].op)'
             /\ \A o \in Op : Settled(o) => Settled(o)'
  <2>1. store \in StoreState
    BY <1>2 DEF DecisionInv, Shape, TypeOK
  <2>2. ASSUME NEW c \in Call, FinalizeReceipt(c) PROVE Settled(call[c].op)'
    <3> DEFINE a == AuthOf(call[c].art)
    <3>1. a \in Auth /\ AuthOp[a] = call[c].op /\ CanFinalize(store, call[c].art)
      BY <1>2, <2>2, FinalizableBy DEF FinalizeReceipt, At
    <3>2. store' = [store EXCEPT ![a].receipt = "committed"]
      BY <2>2, <3>1 DEF FinalizeReceipt, Finalize
    <3>3. store'[a].receipt = "committed"
      BY <2>1, <3>1, <3>2 DEF StoreState, Entry
    <3>4. call'[c].op = call[c].op
      BY <1>2, <2>2 DEF FinalizeReceipt, Goto, DecisionInv, Shape, TypeOK, CallState
    <3> HIDE DEF a
    <3> QED
      BY <3>1, <3>3, <3>4 DEF Settled
  <2>3. ASSUME NEW a \in Auth, store[a].receipt = "committed"
        PROVE  store'[a].receipt = "committed"
    BY <1>2, <2>3, DecisionStep, FinalStays DEF DecisionInv, Effect
  <2> QED
    BY <2>2, <2>3 DEF Settled
<1> QED
  BY <1>1, <1>2, DecisionInit, DecisionStep, PTL DEF Spec, ReplaySettles

-----------------------------------------------------------------------------
(* The refinement.                                                         *)

Standing(e) ==
  IF e.receipt = "committed" THEN "settled"
  ELSE IF e.receipt = "commit_claimed" THEN "reserved"
  ELSE IF "revoked" \in {e.status, e.receipt} THEN "revoked"
  ELSE "open"

\* What an authority is worth depends on its entry alone.
LEMMA AuthorityStands ==
  ASSUME NEW a
  PROVE  AuthorityOf(a) = Standing(store[a]) /\ AuthorityOf(a)' = Standing(store'[a])
BY DEF AuthorityOf, Standing

\* What the steps of the store are to the abstract authorities.
LEMMA StoreStands ==
  ASSUME Shape, ReceiptBacksCommit, StoreEffect
  PROVE  \/ \A a \in Auth : Standing(store'[a]) = Standing(store[a])
         \/ \E b \in Auth :
              /\ Standing(store[b]) = "open" /\ Standing(store'[b]) = "reserved"
              /\ \A a \in Auth \ {b} : store'[a] = store[a]
         \/ \E b \in Auth :
              /\ Standing(store[b]) = "reserved" /\ Standing(store'[b]) = "settled"
              /\ canon.status[AuthOp[b]] = "committed"
              /\ AuthOf(canon.artifact[AuthOp[b]]) = b
              /\ \A a \in Auth \ {b} : store'[a] = store[a]
         \/ \A a \in Auth : \/ Standing(store'[a]) = Standing(store[a])
                            \/ Standing(store[a]) = "open" /\ Standing(store'[a]) = "revoked"
<1>0. /\ store \in StoreState /\ ReceiptsConsistent(store)
      /\ \A x \in ArtifactId : AuthOf(x) \in Auth
      /\ \A a \in Auth : store[a] \in Entry
  BY DEF Shape, TypeOK, AuthOf, ArtifactId, StoreState
<1>1. ASSUME NEW b \in Auth, store' = Issue(store, b), NEW a \in Auth
      PROVE  Standing(store'[a]) = Standing(store[a])
  <2>1. store'[a] = store[a] \/ (store[a].status = "none" /\ store'[a] = [store[a] EXCEPT !.status = "active"])
    BY <1>0, <1>1 DEF Issue, StoreState
  <2>2. store[a].status = "none" => [store[a] EXCEPT !.status = "active"].status = "active"
                                    /\ [store[a] EXCEPT !.status = "active"].receipt = store[a].receipt
    BY <1>0 DEF Entry
  <2> QED BY <2>1, <2>2 DEF Standing
<1>2. ASSUME NEW x \in ArtifactId, store' = Consume(store, AuthOf(x), x), NEW a \in Auth
      PROVE  Standing(store'[a]) = Standing(store[a])
  <2>1. CASE store'[a] = store[a]
    BY <2>1
  <2>2. CASE store'[a] # store[a]
    <3>1. store[a].status = "active" /\ store'[a].receipt = "authorized" /\ store'[a].status = "consumed"
      BY <1>0, <1>2, <2>2 DEF Consume, StoreState
    <3>2. store[a].receipt = "none"
      BY <1>0, <3>1 DEF ReceiptsConsistent
    <3> QED BY <3>1, <3>2 DEF Standing
  <2> QED BY <2>1, <2>2
<1>3. ASSUME NEW x \in ArtifactId, CanClaim(store, x), store' = Claim(store, x), store' # store
      PROVE  /\ Standing(store[AuthOf(x)]) = "open" /\ Standing(store'[AuthOf(x)]) = "reserved"
             /\ \A a \in Auth \ {AuthOf(x)} : store'[a] = store[a]
  <2> DEFINE b == AuthOf(x)
  <2>1. /\ store[b].receipt \notin {"none", "revoked", "commit_claimed", "committed"}
        /\ store' = [store EXCEPT ![b] = [store[b] EXCEPT !.receipt = "commit_claimed", !.claim = ClaimId(x)]]
    BY <1>3 DEF Claim, CanClaim, HasReceipt
  <2>2. b \in Auth /\ store[b] \in Entry /\ store[b].status = "consumed"
    BY <1>0, <2>1 DEF ReceiptsConsistent
  <2>3. store'[b] = [store[b] EXCEPT !.receipt = "commit_claimed", !.claim = ClaimId(x)]
        /\ \A a \in Auth \ {b} : store'[a] = store[a]
    BY <1>0, <2>1, <2>2 DEF StoreState
  <2>4. store'[b].receipt = "commit_claimed"
    BY <2>2, <2>3 DEF Entry
  <2> QED BY <2>1, <2>2, <2>3, <2>4 DEF Standing
<1>4. ASSUME NEW x \in ArtifactId, CanFinalize(store, x), store' = Finalize(store, x)
      PROVE  /\ \/ Standing(store[AuthOf(x)]) = Standing(store'[AuthOf(x)])
                \/ Standing(store[AuthOf(x)]) = "reserved" /\ Standing(store'[AuthOf(x)]) = "settled"
             /\ \A a \in Auth \ {AuthOf(x)} : store'[a] = store[a]
  <2> DEFINE b == AuthOf(x)
  <2>1. b \in Auth /\ store[b] \in Entry /\ store[b].receipt \in {"commit_claimed", "committed"}
    BY <1>0, <1>4 DEF CanFinalize
  <2>2. store'[b] = [store[b] EXCEPT !.receipt = "committed"]
        /\ \A a \in Auth \ {b} : store'[a] = store[a]
    BY <1>0, <1>4, <2>1 DEF Finalize, StoreState
  <2>3. store'[b].receipt = "committed"
    BY <2>1, <2>2 DEF Entry
  <2> QED BY <2>1, <2>2, <2>3 DEF Standing
<1>5. ASSUME NEW e, store' = ActivatePolicy(store, e), NEW a \in Auth
      PROVE  \/ Standing(store'[a]) = Standing(store[a])
             \/ Standing(store[a]) = "open" /\ Standing(store'[a]) = "revoked"
  <2>1. store'[a] \in {store[a], Revoke(store, a)[a]}
    BY <1>5 DEF ActivatePolicy
  <2>2. CASE store[a].status = "active"
    <3>1. store[a].receipt = "none"
      BY <1>0, <2>2 DEF ReceiptsConsistent
    <3>2. [store[a] EXCEPT !.status = "revoked"].receipt = "none"
          /\ [store[a] EXCEPT !.status = "revoked"].status = "revoked"
      BY <1>0, <3>1 DEF Entry
    <3>3. Revoke(store, a)[a] = [store[a] EXCEPT !.status = "revoked"]
      BY <1>0, <2>2 DEF Revoke, StoreState
    <3> QED BY <2>1, <2>2, <3>1, <3>2, <3>3 DEF Standing
  <2>3. CASE store[a].status = "consumed" /\ store[a].receipt = "authorized"
    <3>1. [store[a] EXCEPT !.receipt = "revoked"].receipt = "revoked"
      BY <1>0 DEF Entry
    <3>2. Revoke(store, a)[a] = [store[a] EXCEPT !.receipt = "revoked"]
      BY <1>0, <2>3 DEF Revoke, StoreState
    <3> QED BY <2>1, <2>3, <3>1, <3>2 DEF Standing
  <2> QED BY <2>1, <2>2, <2>3 DEF Revoke
<1>6. CASE store' = store
  BY <1>6
<1>7. ASSUME NEW x \in ArtifactId, CanFinalize(store, x), store' = Finalize(store, x),
             canon.status[AuthOp[AuthOf(x)]] = "committed",
             canon.artifact[AuthOp[AuthOf(x)]] = x
      PROVE  \/ \A a \in Auth : Standing(store'[a]) = Standing(store[a])
             \/ \E b \in Auth :
                  /\ Standing(store[b]) = "reserved" /\ Standing(store'[b]) = "settled"
                  /\ canon.status[AuthOp[b]] = "committed"
                  /\ AuthOf(canon.artifact[AuthOp[b]]) = b
                  /\ \A a \in Auth \ {b} : store'[a] = store[a]
  <2> HIDE DEF Standing
  <2>1. AuthOf(x) \in Auth
    BY <1>0
  <2> QED BY <1>4, <1>7, <2>1
<1> QED BY <1>0, <1>1, <1>2, <1>3, <1>5, <1>6, <1>7 DEF StoreEffect

\* The protocol implements the abstract decision: every operation is decided
\* once, by an authority that was reserved for it before and is settled after.
\* The first claim of a receipt reserves, the save commits, the first
\* finalization settles, a rotation revokes what is open; every other step of
\* the code stutters.
THEOREM CommitImplementsDecision == Spec => ImplementsDecision
<1> DEFINE D == [o \in Op |-> DecisionOf(o)]
           B == [o \in Op |-> CommittingAuth(o)]
           A == [a \in Auth |-> AuthorityOf(a)]
<1>1. Init => Abstract!Init
  <2> SUFFICES ASSUME Init PROVE Abstract!Init
    OBVIOUS
  <2>1. \A o \in Op : DecisionOf(o) = "pending" /\ CommittingAuth(o) = None
    BY DEF Init, DecisionOf, CommittingAuth
  <2>2. ASSUME NEW a \in Auth PROVE AuthorityOf(a) = "open"
    BY AuthorityStands DEF Init, EmptyStore, Standing
  <2> QED BY <2>1, <2>2 DEF Abstract!Init
<1>2. ASSUME DecisionInv, [Next]_vars
      PROVE  [Abstract!Next]_(Abstract!vars)
  <2>0. Effect /\ Shape /\ ReceiptBacksCommit /\ canon \in Canonical
    BY <1>2, DecisionStep DEF DecisionInv, Shape, TypeOK
  <2>1. CASE StoreEffect /\ canon' = canon
    <3>1. D' = D /\ B' = B
      BY <2>1 DEF DecisionOf, CommittingAuth
    <3>2. \A a \in Auth : A[a] = Standing(store[a]) /\ A'[a] = Standing(store'[a])
      BY AuthorityStands
    <3>d. A = [a \in Auth |-> A[a]] /\ A' = [a \in Auth |-> A'[a]]
      OBVIOUS
    <3> HIDE DEF D, B, A
    <3>3. CASE \A a \in Auth : Standing(store'[a]) = Standing(store[a])
      <4>1. A' = A
        BY <3>2, <3>3, <3>d
      <4> QED BY <3>1, <4>1 DEF Abstract!vars, A, B, D
    <3>4. ASSUME NEW b \in Auth,
                 Standing(store[b]) = "open", Standing(store'[b]) = "reserved",
                 \A a \in Auth \ {b} : store'[a] = store[a]
          PROVE  Abstract!Next
      <4>1. A[b] = "open" /\ A' = [A EXCEPT ![b] = "reserved"]
        BY <3>2, <3>4, <3>d
      <4>2. Abstract!Reserve(b)
        BY <3>1, <4>1 DEF Abstract!Reserve, A, B, D
      <4> QED BY <4>2 DEF Abstract!Next
    <3>5. ASSUME NEW b \in Auth,
                 Standing(store[b]) = "reserved", Standing(store'[b]) = "settled",
                 canon.status[AuthOp[b]] = "committed",
                 AuthOf(canon.artifact[AuthOp[b]]) = b,
                 \A a \in Auth \ {b} : store'[a] = store[a]
          PROVE  Abstract!Next
      <4>1. A[b] = "reserved" /\ A' = [A EXCEPT ![b] = "settled"]
        BY <3>2, <3>5, <3>d
      <4>2. B[AuthOp[b]] = b
        BY <3>5, StoreAssumption DEF B, CommittingAuth
      <4>3. Abstract!Settle(b)
        BY <3>1, <4>1, <4>2 DEF Abstract!Settle, A, B, D
      <4> QED BY <4>3 DEF Abstract!Next
    <3>6. CASE \A a \in Auth : \/ Standing(store'[a]) = Standing(store[a])
                               \/ Standing(store[a]) = "open" /\ Standing(store'[a]) = "revoked"
      <4> DEFINE R == {a \in Auth : Standing(store'[a]) # Standing(store[a])}
      <4>1. \A a \in R : A[a] = "open"
        BY <3>2, <3>6
      <4>2. A' = [a \in Auth |-> IF a \in R THEN "revoked" ELSE A[a]]
        BY <3>2, <3>6, <3>d
      <4>3. R \in SUBSET Auth
        OBVIOUS
      <4> HIDE DEF R
      <4>4. Abstract!Revoke(R)
        BY <3>1, <4>1, <4>2, <4>3 DEF Abstract!Revoke, A, B, D
      <4> QED BY <4>3, <4>4 DEF Abstract!Next
    <3> QED BY <2>0, <2>1, <3>3, <3>4, <3>5, <3>6, StoreStands
  <2>2. CASE CanonEffect /\ store' = store
    <3>1. A' = A
      BY <2>2 DEF AuthorityOf
    <3>2. CASE Records
      <4>1. D' = D /\ B' = B
        BY <3>2 DEF Records, DecisionOf, CommittingAuth
      <4> HIDE DEF D, B, A
      <4> QED BY <3>1, <4>1 DEF Abstract!vars, A, B, D
    <3>3. ASSUME NEW o \in Op, Rejects(o) PROVE Abstract!Next
      <4>1. D[o] = "pending" /\ D' = [D EXCEPT ![o] = "rejected"] /\ B' = B
        BY <2>0, <3>3 DEF Rejects, DecisionOf, CommittingAuth, Canonical
      <4> HIDE DEF D, B, A
      <4>2. Abstract!Reject(o)
        BY <3>1, <4>1 DEF Abstract!Reject, A, B, D
      <4> QED BY <4>2 DEF Abstract!Next
    <3>4. ASSUME NEW o \in Op, NEW x \in ArtifactId, Commits(o, x) PROVE Abstract!Next
      <4> DEFINE b == AuthOf(x)
      <4>0. b \in Auth /\ AuthOp[b] = o
        BY <3>4 DEF Commits, AuthOf, ArtifactId
      <4>1. D[o] = "pending" /\ D' = [D EXCEPT ![o] = "committed"]
        BY <2>0, <3>4 DEF Commits, DecisionOf, Canonical
      <4>2. B' = [B EXCEPT ![o] = b]
        BY <2>0, <3>4 DEF Commits, CommittingAuth, Canonical
      <4>3. A[b] = "reserved"
        <5>1. store[b].receipt \in {"commit_claimed", "committed"}
          BY <3>4 DEF Commits, Claimed
        <5>2. store[b].receipt # "committed"
          BY <2>0, <3>4, <4>0 DEF Commits, ReceiptBacksCommit
        <5>3. Standing(store[b]) = "reserved"
          BY <5>1, <5>2 DEF Standing
        <5> QED BY <4>0, <5>3, AuthorityStands
      <4> HIDE DEF D, B, A, b
      <4>4. Abstract!Commit(o, b)
        BY <3>1, <4>0, <4>1, <4>2, <4>3 DEF Abstract!Commit, A, B, D
      <4> QED BY <4>0, <4>4 DEF Abstract!Next
    <3> QED BY <2>2, <3>2, <3>3, <3>4 DEF CanonEffect
  <2> QED BY <2>0, <2>1, <2>2 DEF Effect
<1> QED BY <1>1, <1>2, DecisionInit, DecisionStep, PTL DEF Spec, ImplementsDecision, Abstract!Spec
=============================================================================
