-------------------------- MODULE ExactCommitProofs --------------------------
(***************************************************************************)
(* Proofs about the exact commit protocol, for any number of processes,    *)
(* calls, operations, authorizations and profiles, and any bounds.         *)
(***************************************************************************)
EXTENDS ExactCommit, TLAPS

Shape ==
  /\ TypeOK /\ CallShape /\ CommitNamed /\ SnapshotFresh
  /\ ReceiptsConsistent(store)

-----------------------------------------------------------------------------
(* What the operators return.                                              *)

StoreOK(s) == s \in StoreState /\ ReceiptsConsistent(s)

\* Every operation of the store keeps it well formed and consistent.
LEMMA StoreIssue ==
  ASSUME NEW s, StoreOK(s), NEW a \in Auth
  PROVE  StoreOK(Issue(s, a))
  BY DEF StoreOK, Issue, StoreState, ReceiptsConsistent, Entry, AuthorizationStatus

\* Consuming an authorization into an artifact it is bound to.
LEMMA StoreConsume ==
  ASSUME NEW s, StoreOK(s), NEW x \in ArtifactId
  PROVE  StoreOK(Consume(s, AuthOf(x), x))
<1>1. AuthOf(x) \in Auth /\ ClaimId(x) \in ArtifactId \X Op
  BY StoreAssumption DEF AuthOf, ArtifactId, ClaimId
<1> QED
  BY <1>1 DEF StoreOK, Consume, StoreState, ReceiptsConsistent, Entry,
              AuthorizationStatus, ReceiptStatus

\* Claiming a receipt of this very artifact.
LEMMA StoreClaim ==
  ASSUME NEW s, StoreOK(s), NEW x \in ArtifactId, CanClaim(s, x)
  PROVE  StoreOK(Claim(s, x))
<1>1. AuthOf(x) \in Auth /\ ClaimId(x) \in ArtifactId \X Op
  BY StoreAssumption DEF AuthOf, ArtifactId, ClaimId
<1>2. s[AuthOf(x)] \in Entry /\ s[AuthOf(x)].artifact = x
  BY <1>1 DEF StoreOK, StoreState, CanClaim, HasReceipt
<1> DEFINE r == [s[AuthOf(x)] EXCEPT !.receipt = "commit_claimed", !.claim = ClaimId(x)]
<1>3. /\ r \in Entry /\ r.receipt = "commit_claimed" /\ r.claim = ClaimId(x)
      /\ r.artifact = x /\ r.status = s[AuthOf(x)].status
  BY <1>1, <1>2 DEF Entry, ReceiptStatus
<1>4. CASE s[AuthOf(x)].receipt \notin {"commit_claimed", "committed"}
  <2>1. Claim(s, x) = [s EXCEPT ![AuthOf(x)] = r]
    BY <1>4 DEF Claim
  <2> HIDE DEF r
  <2>2. s[AuthOf(x)].receipt # "none"
    BY <1>4 DEF CanClaim, HasReceipt
  <2> QED BY <1>1, <1>3, <2>1, <2>2 DEF StoreOK, StoreState, ReceiptsConsistent
<1> QED BY <1>4 DEF Claim

\* Finalizing a claimed receipt.
LEMMA StoreFinalize ==
  ASSUME NEW s, StoreOK(s), NEW x \in ArtifactId, CanFinalize(s, x)
  PROVE  StoreOK(Finalize(s, x))
<1>1. AuthOf(x) \in Auth /\ ClaimId(x) \in ArtifactId \X Op
  BY StoreAssumption DEF AuthOf, ArtifactId, ClaimId
<1> QED
  BY <1>1 DEF StoreOK, Finalize, CanFinalize, HasReceipt, StoreState,
              ReceiptsConsistent, Entry, ReceiptStatus

\* Revoking what another profile issued.
LEMMA StoreActivate ==
  ASSUME NEW s, StoreOK(s), NEW e
  PROVE  StoreOK(ActivatePolicy(s, e))
<1>1. ASSUME NEW a \in Auth
      PROVE  /\ Revoke(s, a)[a] \in Entry
             /\ Revoke(s, a)[a].artifact = s[a].artifact
             /\ Revoke(s, a)[a].claim = s[a].claim
             /\ Revoke(s, a)[a].receipt # "none" <=> s[a].receipt # "none"
             /\ Revoke(s, a)[a].status = "consumed" <=> s[a].status = "consumed"
             /\ Revoke(s, a)[a].receipt \in {"commit_claimed", "committed"}
                  <=> s[a].receipt \in {"commit_claimed", "committed"}
  BY DEF Revoke, StoreOK, StoreState, Entry, AuthorizationStatus, ReceiptStatus
<1> QED BY <1>1 DEF StoreOK, StoreState, ReceiptsConsistent, ActivatePolicy

\* A new authority state file.
LEMMA StoreEmpty == StoreOK(EmptyStore)
  BY DEF StoreOK, EmptyStore, StoreState, ReceiptsConsistent, Entry,
         AuthorizationStatus, ReceiptStatus

\* Every operation of the coordinator maps a record to a record.
LEMMA CoordinatorOperations ==
  ASSUME NEW rec \in CoordinationRecord, NEW token \in Token,
         NEW lease \in {"live", "lapsed"}
  PROVE  /\ Acquired(token) \in CoordinationRecord
         /\ [Renewed(rec) EXCEPT !.lease = lease] \in CoordinationRecord
         /\ [rec EXCEPT !.lease = lease] \in CoordinationRecord
         /\ Released(rec, token) \in CoordinationRecord
  BY DEF CoordinationRecord, Token, Acquired, Renewed, Released

\* The parts of the aggregate that the protocol updates stay well formed.
LEMMA CanonicalUpdates ==
  ASSUME NEW s \in Canonical, canon \in Canonical,
         NEW o \in Op, NEW x \in ArtifactId, NEW r \in Route,
         NEW status \in {"pending", "committed", "rejected"},
         NEW as \in ArtifactStatus
  PROVE  /\ [s EXCEPT !.rev = canon.rev + 1] \in Canonical
         /\ [s EXCEPT !.status[o] = status] \in Canonical
         /\ [s EXCEPT !.art[x] = as] \in Canonical
         /\ [s EXCEPT !.route = r] \in Canonical
         /\ Committed(s, o, x, r) \in Canonical
<1>1. /\ [s EXCEPT !.rev = canon.rev + 1] \in Canonical
      /\ [s EXCEPT !.route = r] \in Canonical
  BY DEF Canonical
<1>2. [s EXCEPT !.status[o] = status] \in Canonical
  BY DEF Canonical
<1>3. [s EXCEPT !.art[x] = as] \in Canonical
  BY DEF Canonical
<1>4. Committed(s, o, x, r) \in Canonical
  <2> DEFINE st == [s.status EXCEPT ![o] = "committed"]
             af == [s.artifact EXCEPT ![o] = x]
             at == [s.art EXCEPT ![x] = "consumed"]
             cs == [s.commits EXCEPT ![o] = s.commits[o] + 1]
             t == [s EXCEPT !.status = st, !.artifact = af, !.art = at,
                            !.commits = cs, !.route = r]
  <2>1. Committed(s, o, x, r) = t
    BY DEF Committed
  <2>2. /\ st \in [Op -> {"pending", "committed", "rejected"}]
        /\ af \in [Op -> ArtifactId \cup {NoArtifact}]
        /\ at \in [ArtifactId -> ArtifactStatus]
        /\ cs \in [Op -> Nat]
    BY DEF Canonical, ArtifactStatus
  <2> HIDE DEF st, af, at, cs
  <2>3. t \in Canonical
    BY <2>2 DEF Canonical
  <2> QED BY <2>1, <2>3
<1> QED BY <1>1, <1>2, <1>3, <1>4

-----------------------------------------------------------------------------
(* Type correctness.                                                       *)

\* A step of one call keeps every call well formed if its new state is.
LEMMA CallUpdate ==
  ASSUME call \in [Call -> CallState], CallShape, NEW c \in Call,
         NEW k \in CallState, WellShaped(k), call' = [call EXCEPT ![c] = k]
  PROVE  call' \in [Call -> CallState] /\ CallShape'
  BY DEF CallShape, WellShaped, Owned, Bound, Deciding, HasArtifact, HasSnapshot

\* A call that is not running.
LEMMA Idle == IdleCall \in CallState /\ WellShaped(IdleCall)
  BY DEF IdleCall, CallState, WellShaped, Phases, Owned, Bound, Deciding,
         HasArtifact, HasSnapshot

\* What a call's step must show: its new state, and where the snapshot that
\* it may carry comes from.
CallOK(c) ==
  \E k \in CallState :
    /\ WellShaped(k)
    /\ call' = [call EXCEPT ![c] = k]
    /\ k.pc \in HasSnapshot => \/ k.snap = canon
                               \/ k.snap = call[c].snap /\ call[c].pc \in HasSnapshot

CanonOK == canon' = canon \/ (canon' \in Canonical /\ canon'.rev = canon.rev + 1)

\* Calls keep their shape and their snapshots under any step of one call.
LEMMA CallStep ==
  ASSUME Shape, NEW c \in Call, CallOK(c), CanonOK
  PROVE  call' \in [Call -> CallState] /\ CallShape' /\ SnapshotFresh'
<1>1. PICK k \in CallState :
        /\ WellShaped(k)
        /\ call' = [call EXCEPT ![c] = k]
        /\ k.pc \in HasSnapshot => \/ k.snap = canon
                                   \/ k.snap = call[c].snap /\ call[c].pc \in HasSnapshot
  BY DEF CallOK
<1>2. call' \in [Call -> CallState] /\ CallShape'
  BY <1>1, CallUpdate DEF Shape, TypeOK
<1>3. ASSUME NEW d \in Call, call'[d].pc \in HasSnapshot
      PROVE  /\ call'[d].snap \in Canonical
             /\ call'[d].snap.rev <= canon.rev
             /\ call'[d].snap.rev = canon.rev => call'[d].snap = canon
  <2>1. CASE d = c
    BY <1>1, <1>2, <1>3, <2>1 DEF Shape, TypeOK, SnapshotFresh, CallShape, WellShaped, Canonical
  <2>2. CASE d # c
    BY <1>1, <1>3, <2>2 DEF Shape, TypeOK, SnapshotFresh, CallShape, WellShaped
  <2> QED BY <2>1, <2>2
<1>4. SnapshotFresh'
  <2>1. canon.rev \in Nat
    BY DEF Shape, TypeOK, Canonical
  <2>2. ASSUME NEW d \in Call, call'[d].pc \in HasSnapshot PROVE call'[d].snap.rev \in Nat
    BY <1>3, <2>2 DEF Canonical
  <2> QED BY <1>3, <2>1, <2>2 DEF SnapshotFresh, CanonOK
<1> QED BY <1>2, <1>4

\* The states a call is left in by jumping to a phase, by reaching the
\* commit, and by failing.
LEMMA CallForms ==
  ASSUME Shape, NEW c \in Call
  PROVE  /\ Fail(c) => CallOK(c)
         /\ FailOwned(c) /\ call[c].pc \in Owned => CallOK(c)
         /\ \A x \in ArtifactId : ToCommit(c, x) /\ call[c].pc \in Bound => CallOK(c)
         /\ \A pc \in Phases : Goto(c, pc) /\ WellShaped([call[c] EXCEPT !.pc = pc])
              /\ (pc \in HasSnapshot => call[c].pc \in HasSnapshot) => CallOK(c)
<1> USE DEF Owned, Bound, Deciding, HasArtifact, HasSnapshot, Phases
<1>0. call[c] \in CallState /\ WellShaped(call[c]) /\ call \in [Call -> CallState]
  BY DEF Shape, TypeOK, CallShape
<1>1. Fail(c) => CallOK(c)
  BY Idle DEF Fail, CallOK, IdleCall
<1>2. ASSUME FailOwned(c), call[c].pc \in Owned PROVE CallOK(c)
  <2> DEFINE k == [call[c] EXCEPT !.pc = "release", !.snap = NoSnapshot]
  <2>1. k \in CallState /\ WellShaped(k) /\ k.pc = "release"
    BY ZenonT(60), <1>0, <1>2 DEF CallState, WellShaped
  <2>2. call' = [call EXCEPT ![c] = k]
    BY <1>0, <1>2 DEF FailOwned
  <2> QED BY <2>1, <2>2 DEF CallOK
<1>3. ASSUME NEW x \in ArtifactId, ToCommit(c, x), call[c].pc \in Bound PROVE CallOK(c)
  <2> DEFINE k == [call[c] EXCEPT !.pc = "acquire", !.art = x, !.auth = None,
                                  !.snap = NoSnapshot]
  <2>1. k \in CallState /\ WellShaped(k) /\ k.pc = "acquire"
    BY ZenonT(60), <1>0, <1>3 DEF CallState, WellShaped
  <2>2. call' = [call EXCEPT ![c] = k]
    BY <1>0, <1>3 DEF ToCommit
  <2> QED BY <2>1, <2>2 DEF CallOK
<1>4. ASSUME NEW pc \in Phases, Goto(c, pc), WellShaped([call[c] EXCEPT !.pc = pc]),
             pc \in HasSnapshot => call[c].pc \in HasSnapshot
      PROVE  CallOK(c)
  <2> DEFINE k == [call[c] EXCEPT !.pc = pc]
  <2>1. k \in CallState /\ k.pc = pc /\ k.snap = call[c].snap
    BY <1>0, <1>4 DEF CallState
  <2>2. call' = [call EXCEPT ![c] = k]
    BY <1>0, <1>4 DEF Goto
  <2> QED BY <2>1, <2>2, <1>4 DEF CallOK
<1> QED BY <1>1, <1>2, <1>3, <1>4

\* What a step of one call must show to keep the shape of the state.
StepOK(c) ==
  /\ CallOK(c) /\ CanonOK /\ CommitNamed'
  /\ StoreOK(store')
  /\ coord' \in [Op -> CoordinationRecord]
  /\ active' \in Epoch
  /\ UNCHANGED host

\* What StepOK says of a step is enough to keep the shape of the state.
LEMMA StepKeepsShape ==
  ASSUME Shape, NEW c \in Call, StepOK(c)
  PROVE  Shape'
<1>1. call' \in [Call -> CallState] /\ CallShape' /\ SnapshotFresh'
  BY CallStep DEF StepOK
<1>2. canon' \in Canonical
  BY DEF StepOK, CanonOK, Shape, TypeOK
<1> QED BY <1>1, <1>2 DEF StepOK, StoreOK, Shape, TypeOK, ReceiptsConsistent, host

\* A saved aggregate is well formed if its content is, and names the
\* artifacts of its committed operations if its content does.
LEMMA SaveOK ==
  ASSUME Shape, NEW s \in Canonical, Save(s),
         \A o \in Op : s.status[o] = "committed" => s.artifact[o] \in ArtifactId
  PROVE  CanonOK /\ CommitNamed' /\ canon' = [s EXCEPT !.rev = canon.rev + 1]
<1>1. canon' = [s EXCEPT !.rev = canon.rev + 1] /\ canon.rev \in Nat
  BY DEF Save, Shape, TypeOK, Canonical
<1>2. canon' \in Canonical /\ canon'.rev = canon.rev + 1
      /\ canon'.status = s.status /\ canon'.artifact = s.artifact
  BY <1>1 DEF Canonical
<1> QED BY <1>1, <1>2 DEF CanonOK, CommitNamed

\* The steps from binding the profile to recording the artifact.
LEMMA AuthorizeShape ==
  ASSUME Shape, NEW c \in Call, AuthorizeSteps(c)
  PROVE  StepOK(c)
<1> USE StoreAssumption, CallForms
    DEF At, Phases, Owned, Bound, Deciding, HasArtifact, HasSnapshot
<1>0. /\ call[c] \in CallState /\ WellShaped(call[c]) /\ call \in [Call -> CallState]
      /\ StoreOK(store) /\ canon \in Canonical
      /\ coord \in [Op -> CoordinationRecord] /\ active \in Epoch
      /\ CommitNamed
  BY DEF Shape, TypeOK, CallShape, StoreOK
<1>a. UNCHANGED canon => CanonOK /\ CommitNamed'
  BY <1>0 DEF CanonOK, CommitNamed
<1>1. CASE Activate(c)
  <2>1. call[c].op \in Op /\ call[c].epoch \in Epoch
    BY <1>0, <1>1 DEF Activate, WellShaped
  <2>2. CallOK(c)
    BY <1>0, <1>1, <2>1 DEF Activate, WellShaped, CallState
  <2>3. StoreOK(store') /\ active' \in Epoch
    <3>1. StoreOK(ActivatePolicy(store, call[c].epoch))
      BY <1>0, StoreActivate
    <3>2. /\ store' = store \/ store' = ActivatePolicy(store, call[c].epoch)
          /\ active' = active \/ active' = call[c].epoch
      BY <1>1 DEF Activate
    <3> QED BY <1>0, <2>1, <3>1, <3>2
  <2> QED BY <1>0, <1>a, <1>1, <2>2, <2>3 DEF Activate, StepOK
<1>2. CASE DecideReplay(c)
  <2>1. call[c].op \in Op /\ canon.artifact[call[c].op] \in ArtifactId
    BY <1>0, <1>2 DEF DecideReplay, WellShaped, CommitNamed
  <2> QED BY <1>0, <1>a, <1>2, <2>1 DEF DecideReplay, StepOK
<1>3. CASE DecideRejected(c)
  BY <1>0, <1>a, <1>3 DEF DecideRejected, StepOK
<1>4. CASE DecidePending(c)
  <2>1. CallOK(c)
    BY <1>0, <1>4 DEF DecidePending, WellShaped, CallState
  <2> QED BY <1>0, <1>a, <1>4, <2>1 DEF DecidePending, StepOK
<1>5. CASE DecideDeny(c)
  <2>1. call[c].op \in Op
    BY <1>0, <1>5 DEF DecideDeny, WellShaped
  <2>2. CASE Save([canon EXCEPT !.status[call[c].op] = "rejected"])
    <3> DEFINE s == [canon EXCEPT !.status[call[c].op] = "rejected"]
    <3>1. /\ s \in Canonical
          /\ \A o \in Op : s.status[o] = "committed" => s.artifact[o] \in ArtifactId
      BY <1>0, <2>1 DEF Canonical, CommitNamed
    <3> QED BY <1>0, <1>5, <2>2, <3>1, SaveOK DEF DecideDeny, StepOK
  <2> QED BY <1>0, <1>a, <1>5, <2>2 DEF DecideDeny, StepOK
<1>6. ASSUME NEW a \in Auth, DecideAllow(c, a) PROVE StepOK(c)
  <2> DEFINE k == [call[c] EXCEPT !.pc = "authorize", !.auth = a]
  <2>1. k \in CallState /\ WellShaped(k) /\ k.pc = "authorize"
    BY <1>0, <1>6 DEF DecideAllow, CallState, WellShaped
  <2>2. call' = [call EXCEPT ![c] = k]
    BY <1>0, <1>6 DEF DecideAllow
  <2>3. StoreOK(store')
    BY <1>0, <1>6, StoreIssue DEF DecideAllow
  <2> QED BY <1>0, <1>a, <1>6, <2>1, <2>2, <2>3 DEF DecideAllow, StepOK, CallOK
<1>7. ASSUME NEW x \in ArtifactId, CommitArtifact(c, x) PROVE StepOK(c)
  BY <1>0, <1>a, <1>7 DEF CommitArtifact, StepOK
<1>8. CASE Authorize(c)
  <2>1. CallOK(c)
    BY <1>0, <1>8 DEF Authorize, WellShaped, CallState, ApprovedArtifacts
  <2> QED BY <1>0, <1>a, <1>8, <2>1 DEF Authorize, StepOK
<1>9. CASE Mint(c)
  <2> DEFINE x == IF store[call[c].auth].receipt = "none" THEN <<call[c].auth, c>>
                  ELSE store[call[c].auth].artifact
             k == [call[c] EXCEPT !.pc = "consume", !.art = x]
  <2>1. call[c].auth \in Auth
    BY <1>0, <1>9 DEF Mint, WellShaped
  <2>2. x \in ArtifactId /\ AuthOf(x) = call[c].auth
    BY <1>0, <2>1 DEF StoreOK, ReceiptsConsistent, ArtifactId, AuthOf
  <2>3. call' = [call EXCEPT ![c] = k]
    BY <1>0, <1>9 DEF Mint
  <2> HIDE DEF x
  <2>4. k \in CallState /\ WellShaped(k) /\ k.pc = "consume"
    BY <1>0, <1>9, <2>2 DEF Mint, CallState, WellShaped
  <2> QED BY <1>0, <1>a, <1>9, <2>3, <2>4 DEF Mint, StepOK, CallOK
<1>10. CASE ConsumeAuthorization(c)
  <2>1. call[c].art \in ArtifactId /\ AuthOf(call[c].art) = call[c].auth
    BY <1>0, <1>10 DEF ConsumeAuthorization, WellShaped
  <2>2. StoreOK(store')
    <3>1. StoreOK(Consume(store, call[c].auth, call[c].art))
      BY <1>0, <2>1, StoreConsume
    <3>2. store' = store \/ store' = Consume(store, call[c].auth, call[c].art)
      BY <1>10 DEF ConsumeAuthorization
    <3> QED BY <1>0, <3>1, <3>2
  <2>3. CallOK(c)
    BY <1>0, <1>10 DEF ConsumeAuthorization, WellShaped, CallState
  <2> QED BY <1>0, <1>a, <1>10, <2>2, <2>3 DEF ConsumeAuthorization, StepOK
<1>11. CASE Reload(c)
  <2>1. call[c].art \in ArtifactId
    BY <1>0, <1>11 DEF Reload, WellShaped
  <2>2. CASE canon.art[call[c].art] # "none"
    BY <1>0, <1>a, <1>11, <2>1, <2>2 DEF Reload, StepOK
  <2>3. CASE canon.art[call[c].art] = "none"
    <3> DEFINE k == [call[c] EXCEPT !.pc = "record", !.snap = canon]
    <3>1. k \in CallState /\ WellShaped(k) /\ k.snap = canon
      BY <1>0, <1>11 DEF Reload, CallState, WellShaped
    <3>2. call' = [call EXCEPT ![c] = k]
      BY <1>0, <1>11, <2>3 DEF Reload
    <3> QED BY <1>0, <1>a, <1>11, <3>1, <3>2 DEF Reload, StepOK, CallOK
  <2> QED BY <2>2, <2>3
<1>12. CASE RecordArtifact(c)
  <2>1. call[c].art \in ArtifactId
    BY <1>0, <1>12 DEF RecordArtifact, WellShaped
  <2>2. CallOK(c)
    BY <1>0, <1>12, <2>1 DEF RecordArtifact
  <2>3. CASE HeadMatches(call[c].snap)
    <3> DEFINE s == [canon EXCEPT !.art[call[c].art] = "approved"]
    <3>1. call[c].snap = canon
      BY <1>12, <2>3 DEF RecordArtifact, HeadMatches, Shape, SnapshotFresh
    <3>2. Save(s)
      BY <1>12, <2>3, <3>1 DEF RecordArtifact
    <3>3. /\ s \in Canonical
          /\ \A o \in Op : s.status[o] = "committed" => s.artifact[o] \in ArtifactId
      BY <1>0, <2>1 DEF Canonical, CommitNamed, ArtifactStatus
    <3> QED BY <1>0, <1>12, <2>2, <3>2, <3>3, SaveOK DEF RecordArtifact, StepOK
  <2> QED BY <1>0, <1>a, <1>12, <2>2, <2>3 DEF RecordArtifact, StepOK
<1> QED BY <1>1, <1>2, <1>3, <1>4, <1>5, <1>6, <1>7, <1>8, <1>9, <1>10, <1>11, <1>12
        DEF AuthorizeSteps

\* Renewing and asserting the ownership.
LEMMA RequireOwnershipShape ==
  ASSUME Shape, NEW c \in Call, NEW here \in Owned, NEW there \in Owned \ {"validate"},
         there \in HasSnapshot => here \in HasSnapshot,
         RequireOwnership(c, here, there)
  PROVE  StepOK(c)
<1> USE CallForms DEF At, Phases, Owned, Bound, Deciding, HasArtifact, HasSnapshot
<1>0. /\ call[c] \in CallState /\ WellShaped(call[c]) /\ call \in [Call -> CallState]
      /\ StoreOK(store) /\ canon \in Canonical
      /\ coord \in [Op -> CoordinationRecord] /\ active \in Epoch
      /\ CommitNamed /\ call[c].pc = here
  BY DEF Shape, TypeOK, CallShape, StoreOK, RequireOwnership
<1>1. WellShaped([call[c] EXCEPT !.pc = there])
  BY <1>0 DEF CallState, WellShaped
<1>2. CallOK(c)
  BY <1>0, <1>1 DEF RequireOwnership
<1>3. call[c].op \in Op /\ call[c].token \in Token
  BY <1>0 DEF WellShaped
<1>4. coord' \in [Op -> CoordinationRecord]
  <2> DEFINE rec == coord[call[c].op]
  <2>1. \A lease \in {"live", "lapsed"} :
          [Renewed(rec) EXCEPT !.lease = lease] \in CoordinationRecord
    BY ZenonT(60), <1>0, <1>3 DEF CoordinationRecord, Renewed
  <2>2. \/ coord' = coord
        \/ \E lease \in {"live", "lapsed"} :
             coord' = [coord EXCEPT ![call[c].op] = [Renewed(rec) EXCEPT !.lease = lease]]
    BY DEF RequireOwnership
  <2> HIDE DEF rec
  <2> QED BY <1>0, <1>3, <2>1, <2>2
<1> QED
  BY <1>0, <1>2, <1>4 DEF RequireOwnership, StepOK, CanonOK, CommitNamed

\* The steps from acquiring the ownership to releasing it.
LEMMA CommitShape ==
  ASSUME Shape, NEW c \in Call, CommitSteps(c)
  PROVE  StepOK(c)
<1> USE StoreAssumption, CommitAssumption, CallForms
    DEF At, Phases, Owned, Bound, Deciding, HasArtifact, HasSnapshot
<1>0. /\ call[c] \in CallState /\ WellShaped(call[c]) /\ call \in [Call -> CallState]
      /\ StoreOK(store) /\ canon \in Canonical
      /\ coord \in [Op -> CoordinationRecord] /\ active \in Epoch
      /\ CommitNamed
  BY DEF Shape, TypeOK, CallShape, StoreOK
<1>a. UNCHANGED canon => CanonOK /\ CommitNamed'
  BY <1>0 DEF CanonOK, CommitNamed
<1>1. CASE Acquire(c)
  <2> DEFINE o == call[c].op
             token == NextToken(coord[o], OwnerOf(c))
             k == [call[c] EXCEPT !.pc = "validate", !.token = token]
  <2>1. o \in Op
    BY <1>0, <1>1 DEF Acquire, WellShaped
  <2>2. token \in Token
    <3>1. coord[o].generation + 1 \in Nat
      <4>1. coord[o] \in CoordinationRecord
        BY <1>0, <2>1
      <4>2. \A rec \in CoordinationRecord : rec.generation \in Nat
        BY DEF CoordinationRecord
      <4>3. coord[o].generation \in Nat
        BY ONLY <4>1, <4>2
      <4> QED BY ONLY <4>3
    <3>2. OwnerOf(c) \in Owner
      BY DEF OwnerOf, Owner, Shape, TypeOK
    <3> QED BY <3>1, <3>2 DEF NextToken, Token
  <2>3. k \in CallState /\ WellShaped(k) /\ k.pc = "validate"
    BY <1>0, <1>1, <2>2 DEF Acquire, CallState, WellShaped
  <2>4. call' = [call EXCEPT ![c] = k] \/ Fail(c)
    BY <1>0, <1>1 DEF Acquire
  <2>5. CallOK(c)
    BY <2>3, <2>4 DEF CallOK
  <2>6. coord' \in [Op -> CoordinationRecord]
    <3>1. coord' = coord \/ coord' = [coord EXCEPT ![o] = Acquired(token)]
      BY <1>1 DEF Acquire
    <3>2. Acquired(token) \in CoordinationRecord
      BY <2>2 DEF Acquired, CoordinationRecord, Token
    <3> QED BY <1>0, <3>1, <3>2
  <2> QED BY <1>0, <1>a, <1>1, <2>5, <2>6 DEF Acquire, StepOK
<1>2. CASE Validate(c)
  <2> DEFINE phase == ValidatedPhase(c)
             snap == IF phase \in {"expire", "own1"} THEN canon ELSE NoSnapshot
             k == [call[c] EXCEPT !.pc = phase, !.epoch = None, !.snap = snap]
  <2>1. phase \in {"own3", "expire", "own1", "release"}
    BY DEF ValidatedPhase
  <2>2. call' = [call EXCEPT ![c] = k]
    BY <1>0, <1>2 DEF Validate
  <2> HIDE DEF phase
  <2>3. /\ k \in CallState /\ WellShaped(k)
        /\ k.pc \in HasSnapshot => k.snap = canon
    BY ZenonT(60), <1>0, <1>2, <2>1 DEF Validate, CallState, WellShaped
  <2>4. CallOK(c)
    BY <2>2, <2>3 DEF CallOK
  <2> QED BY <1>0, <1>a, <1>2, <2>4 DEF Validate, StepOK
<1>3. CASE SaveExpired(c)
  <2>1. call[c].art \in ArtifactId
    BY <1>0, <1>3 DEF SaveExpired, WellShaped
  <2>2. CASE HeadMatches(call[c].snap)
    <3> DEFINE s == [canon EXCEPT !.art[call[c].art] = "expired"]
    <3>1. call[c].snap = canon
      BY <1>3, <2>2 DEF SaveExpired, HeadMatches, Shape, SnapshotFresh
    <3>2. Save(s)
      BY <1>3, <2>2, <3>1 DEF SaveExpired
    <3>3. /\ s \in Canonical
          /\ \A o \in Op : s.status[o] = "committed" => s.artifact[o] \in ArtifactId
      BY <1>0, <2>1 DEF Canonical, CommitNamed, ArtifactStatus
    <3> QED BY <1>0, <1>3, <3>2, <3>3, SaveOK DEF SaveExpired, StepOK
  <2> QED BY <1>0, <1>a, <1>3, <2>2 DEF SaveExpired, StepOK
<1>4. CASE ClaimReceipt(c)
  <2>1. call[c].art \in ArtifactId
    BY <1>0, <1>4 DEF ClaimReceipt, WellShaped
  <2>2. StoreOK(store')
    <3>1. CanClaim(store, call[c].art) => StoreOK(Claim(store, call[c].art))
      BY <1>0, <2>1, StoreClaim
    <3> QED BY <1>0, <1>4, <3>1 DEF ClaimReceipt
  <2>3. CallOK(c)
    BY <1>0, <1>4 DEF ClaimReceipt, WellShaped, CallState
  <2> QED BY <1>0, <1>a, <1>4, <2>2, <2>3 DEF ClaimReceipt, StepOK
<1>5. CASE SaveCommit(c)
  <2>1. call[c].op \in Op /\ call[c].art \in ArtifactId
    BY <1>0, <1>5 DEF SaveCommit, WellShaped
  <2>2. CallOK(c)
    <3> DEFINE k == [call[c] EXCEPT !.pc = "own3", !.snap = NoSnapshot]
    <3>1. k \in CallState /\ WellShaped(k) /\ k.pc = "own3"
      BY <1>0, <1>5 DEF SaveCommit, CallState, WellShaped
    <3>2. FailOwned(c) \/ call' = [call EXCEPT ![c] = k]
      BY <1>0, <1>5 DEF SaveCommit
    <3> QED BY <1>5, <3>1, <3>2 DEF SaveCommit, CallOK
  <2>3. CASE HeadMatches(call[c].snap)
    <3>1. call[c].snap = canon
      BY <1>5, <2>3 DEF SaveCommit, HeadMatches, Shape, SnapshotFresh
    <3>2. PICK r \in Route : Save(Committed(canon, call[c].op, call[c].art, r))
      BY <1>5, <2>3, <3>1 DEF SaveCommit
    <3> DEFINE s == Committed(canon, call[c].op, call[c].art, r)
    <3>3. s \in Canonical
      BY <1>0, <2>1, CanonicalUpdates DEF ArtifactStatus
    <3>4. \A o \in Op : s.status[o] = "committed" => s.artifact[o] \in ArtifactId
      BY <1>0, <2>1 DEF Committed, Canonical, CommitNamed
    <3> QED BY <1>0, <1>5, <2>2, <3>2, <3>3, <3>4, SaveOK DEF SaveCommit, StepOK
  <2> QED BY <1>0, <1>a, <1>5, <2>2, <2>3 DEF SaveCommit, StepOK
<1>6. CASE FinalizeReceipt(c)
  <2>1. call[c].art \in ArtifactId
    BY <1>0, <1>6 DEF FinalizeReceipt, WellShaped
  <2>2. StoreOK(store')
    <3>1. CanFinalize(store, call[c].art) => StoreOK(Finalize(store, call[c].art))
      BY <1>0, <2>1, StoreFinalize
    <3> QED BY <1>0, <1>6, <3>1 DEF FinalizeReceipt
  <2>3. CallOK(c)
    BY <1>0, <1>6 DEF FinalizeReceipt, WellShaped, CallState
  <2> QED BY <1>0, <1>a, <1>6, <2>2, <2>3 DEF FinalizeReceipt, StepOK
<1>7. CASE ReleaseOwnership(c)
  <2>1. call[c].op \in Op /\ call[c].token \in Token
    BY <1>0, <1>7 DEF ReleaseOwnership, WellShaped
  <2>2. coord' \in [Op -> CoordinationRecord]
    BY <1>0, <1>7, <2>1, CoordinatorOperations DEF ReleaseOwnership
  <2>3. Fail(c)
    BY <1>7 DEF ReleaseOwnership, Fail
  <2> QED BY <1>0, <1>a, <1>7, <2>2, <2>3 DEF ReleaseOwnership, StepOK
<1>8. /\ RequireOwnership(c, "own1", "claim") => StepOK(c)
      /\ RequireOwnership(c, "own2", "save") => StepOK(c)
      /\ RequireOwnership(c, "own3", "finalize") => StepOK(c)
  BY RequireOwnershipShape
<1> QED BY <1>1, <1>2, <1>3, <1>4, <1>5, <1>6, <1>7, <1>8 DEF CommitSteps

\* Exit, Boot, and the other steps that no call takes.
LEMMA EnvironmentShape ==
  ASSUME Shape, Environment
  PROVE  Shape'
<1> USE DEF host
<1>0. /\ call \in [Call -> CallState] /\ CallShape /\ SnapshotFresh
      /\ StoreOK(store) /\ canon \in Canonical /\ canon.rev \in Nat
      /\ coord \in [Op -> CoordinationRecord] /\ active \in Epoch /\ registry \in Epoch
      /\ expired \subseteq Auth
      /\ running \in [Process -> BOOLEAN] /\ started \in [Process -> Nat]
      /\ CommitNamed
  BY DEF Shape, TypeOK, StoreOK, Canonical
<1>a. UNCHANGED <<call, canon>> => CommitNamed' /\ CallShape' /\ SnapshotFresh'
  BY <1>0 DEF CommitNamed, CallShape, SnapshotFresh
<1>1. CASE OrdinaryWrite
  <2>1. PICK r \in Route : Save([canon EXCEPT !.route = r])
    BY <1>1 DEF OrdinaryWrite
  <2> DEFINE s == [canon EXCEPT !.route = r]
  <2>2. /\ s \in Canonical
        /\ \A o \in Op : s.status[o] = "committed" => s.artifact[o] \in ArtifactId
    BY <1>0 DEF Canonical, CommitNamed
  <2>3. CanonOK /\ CommitNamed'
    BY <2>1, <2>2, SaveOK
  <2>4. canon' \in Canonical /\ CallShape'
    BY <1>0, <1>1, <2>3 DEF CanonOK, OrdinaryWrite, CallShape
  <2>5. SnapshotFresh'
    <3>1. \A c \in Call : call[c].pc \in HasSnapshot => call[c].snap.rev \in Nat
      BY <1>0 DEF CallShape, WellShaped, Canonical
    <3> QED BY <1>0, <1>1, <2>3, <3>1 DEF CanonOK, OrdinaryWrite, SnapshotFresh
  <2> QED BY <1>0, <1>1, <2>3, <2>4, <2>5 DEF OrdinaryWrite, Shape, TypeOK, StoreOK, ReceiptsConsistent
<1>2. CASE InstallProfile
  BY <1>0, <1>a, <1>2 DEF InstallProfile, Shape, TypeOK, StoreOK, ReceiptsConsistent
<1>3. CASE BrokerActivate
  <2>1. StoreOK(ActivatePolicy(store, registry))
    BY <1>0, StoreActivate
  <2>2. store' \in StoreState /\ ReceiptsConsistent(store)'
    BY <1>3, <2>1 DEF BrokerActivate, StoreOK, ReceiptsConsistent
  <2> QED BY <1>0, <1>a, <1>3, <2>2 DEF BrokerActivate, Shape, TypeOK
<1>4. ASSUME NEW a \in Auth, ExpireAuthorization(a) PROVE Shape'
  BY <1>0, <1>a, <1>4 DEF ExpireAuthorization, Shape, TypeOK, StoreOK, ReceiptsConsistent
<1>5. ASSUME NEW o \in Op, LapseLease(o) PROVE Shape'
  <2>1. coord[o] \in CoordinationRecord
    BY <1>0
  <2>2. [coord[o] EXCEPT !.lease = "lapsed"] \in CoordinationRecord
    BY <2>1 DEF CoordinationRecord
  <2>3. coord' \in [Op -> CoordinationRecord]
    BY <1>0, <1>5, <2>2 DEF LapseLease
  <2> QED BY <1>0, <1>a, <1>5, <2>3 DEF LapseLease, Shape, TypeOK, StoreOK, ReceiptsConsistent
<1>6. ASSUME NEW p \in Process, Exit(p) PROVE Shape'
  <2>1. \A c \in Call : call'[c] = IdleCall \/ call'[c] = call[c]
    BY <1>6 DEF Exit
  <2>2. call' \in [Call -> CallState]
    BY <1>0, <1>6, <2>1, Idle DEF Exit
  <2>3. CallShape'
    BY <1>0, <2>1, Idle DEF CallShape
  <2>4. SnapshotFresh'
    BY <1>0, <1>6, <2>1 DEF Exit, SnapshotFresh, IdleCall, HasSnapshot
  <2>5. running' \in [Process -> BOOLEAN]
    BY <1>0, <1>6 DEF Exit
  <2> QED BY <1>0, <1>6, <2>2, <2>3, <2>4, <2>5
          DEF Exit, Shape, TypeOK, StoreOK, ReceiptsConsistent, CommitNamed
<1>7. ASSUME NEW p \in Process, Boot(p) PROVE Shape'
  BY <1>0, <1>a, <1>7 DEF Boot, Shape, TypeOK, StoreOK, ReceiptsConsistent
<1> QED BY <1>1, <1>2, <1>3, <1>4, <1>5, <1>6, <1>7 DEF Environment

\* The initial states have the shape.
LEMMA ShapeInit == Init => Shape
<1> SUFFICES ASSUME Init PROVE Shape
  OBVIOUS
<1>1. canon \in Canonical /\ CommitNamed
  BY DEF Init, Canonical, CommitNamed, ArtifactStatus
<1>2. store \in StoreState /\ ReceiptsConsistent(store)
  BY StoreEmpty DEF Init, StoreOK
<1>3. coord \in [Op -> CoordinationRecord]
  BY DEF Init, CoordinationRecord, NoRecord
<1>4. call \in [Call -> CallState] /\ CallShape /\ SnapshotFresh
  BY Idle DEF Init, CallShape, SnapshotFresh, IdleCall, HasSnapshot
<1> QED BY <1>1, <1>2, <1>3, <1>4 DEF Init, Shape, TypeOK

\* Every step keeps the shape.
LEMMA ShapeStep == Shape /\ [Next]_vars => Shape'
<1> SUFFICES ASSUME Shape, [Next]_vars PROVE Shape'
  OBVIOUS
<1>1. ASSUME NEW c \in Call, Proceed(c) PROVE Shape'
  BY <1>1, AuthorizeShape, CommitShape, StepKeepsShape DEF Proceed
<1>2. ASSUME NEW c \in Call, NEW o \in Op, StartCall(c, o) PROVE Shape'
  <2> DEFINE k == [IdleCall EXCEPT !.pc = "activate", !.op = o, !.epoch = registry]
  <2>1. k \in CallState /\ WellShaped(k) /\ k.pc = "activate"
    BY Idle DEF IdleCall, CallState, WellShaped, Phases, Owned, Bound, Deciding,
                HasArtifact, HasSnapshot, Shape, TypeOK
  <2>2. CallOK(c)
    BY <1>2, <2>1 DEF StartCall, CallOK, HasSnapshot
  <2>3. StepOK(c)
    BY <1>2, <2>2 DEF StartCall, StepOK, CanonOK, StoreOK, Shape, TypeOK, CommitNamed
  <2> QED BY <2>3, StepKeepsShape
<1>3. CASE Environment
  BY <1>3, EnvironmentShape
<1>4. CASE UNCHANGED vars
  BY <1>4 DEF vars, Shape, TypeOK, CallShape, CommitNamed, SnapshotFresh, ReceiptsConsistent
<1> QED BY <1>1, <1>2, <1>3, <1>4 DEF Next

\* Every variable keeps the shape the persisted schemas give it, snapshots
\* that are still current equal the aggregate on disk, and every receipt
\* belongs to the one artifact its authorization was consumed with.
THEOREM TypeCorrect == Spec => [](TypeOK /\ SnapshotFresh)
<1>1. Spec => []Shape
  BY ShapeInit, ShapeStep, PTL DEF Spec
<1> QED BY <1>1, PTL DEF Shape

-----------------------------------------------------------------------------
(* Mutual exclusion of the commits of one operation.                       *)

\* While a live call owns an operation no other call acquires it: its owner
\* is never judged dead, whichever process asks.
LEMMA LiveOwnerBlocks ==
  ASSUME Shape, OwnersOnRecord, NEW c \in Call, NEW d \in Call,
         call[c].pc \in Owned, running[CallProcess[d]]
  PROVE  ~CanAcquire(coord[call[c].op], CallProcess[d], running, started)
<1>1. /\ running[CallProcess[c]]
      /\ call[c].token.owner = OwnerOf(c)
      /\ Owns(coord[call[c].op], call[c].token)
  BY DEF OwnersOnRecord, Owned
<1>2. coord[call[c].op].status = "owned" /\ coord[call[c].op].owner = OwnerOf(c)
  BY <1>1 DEF Owns
<1>3. OwnerLiveness(OwnerOf(c), CallProcess[d], running, started) = "alive"
  BY <1>1 DEF OwnerLiveness, OwnerOf
<1> QED BY <1>2, <1>3 DEF CanAcquire

\* A step that leaves every coordination record and every process alone, and
\* starts no ownership, keeps the owners on record.
LEMMA OwnersUnchanged ==
  ASSUME OwnersOnRecord, UNCHANGED <<coord, running, started>>,
         \A c \in Call : \/ call'[c] = call[c]
                         \/ call'[c].pc = "idle"
                         \/ /\ call'[c].pc \notin Owned
                            /\ running[CallProcess[c]]
                         \/ /\ call[c].pc \in Owned
                            /\ call'[c].op = call[c].op
                            /\ call'[c].token = call[c].token
  PROVE  OwnersOnRecord'
  BY DEF OwnersOnRecord, OwnerOf, Owned

\* Before it acquires, a call owns nothing and disturbs no owner.
LEMMA OwnersAuthorize ==
  ASSUME Shape, OwnersOnRecord, NEW c \in Call, AuthorizeSteps(c)
  PROVE  OwnersOnRecord'
<1>1. call \in [Call -> CallState] /\ call[c].pc # "idle" /\ running[CallProcess[c]]
  BY DEF Shape, TypeOK, OwnersOnRecord, AuthorizeSteps, At, Activate, DecideReplay,
         DecideRejected, DecidePending, DecideDeny, DecideAllow, CommitArtifact,
         Authorize, Mint, ConsumeAuthorization, Reload, RecordArtifact
<1>2. UNCHANGED <<coord, running, started>>
  BY DEF AuthorizeSteps, host, Activate, DecideReplay,
         DecideRejected, DecidePending, DecideDeny, DecideAllow, CommitArtifact,
         Authorize, Mint, ConsumeAuthorization, Reload, RecordArtifact
<1>3. \A d \in Call : d # c => call'[d] = call[d]
  BY <1>1 DEF AuthorizeSteps, Activate, DecideReplay,
         DecideRejected, DecidePending, DecideDeny, DecideAllow, CommitArtifact,
         Authorize, Mint, ConsumeAuthorization, Reload, RecordArtifact,
         Goto, Fail, ToCommit
<1>4. call'[c].pc \notin Owned
  <2>0. call[c] \in CallState
    BY <1>1
  <2>1. ASSUME NEW phase, Goto(c, phase) PROVE call'[c].pc = phase
    BY <1>1, <2>0, <2>1 DEF Goto, CallState
  <2>2. Fail(c) => call'[c].pc = "idle"
    BY <1>1 DEF Fail, IdleCall
  <2>3. ASSUME NEW x, ToCommit(c, x) PROVE call'[c].pc = "acquire"
    BY <1>1, <2>0, <2>3 DEF ToCommit, CallState
  <2>4. /\ Activate(c) => call'[c].pc \notin Owned
        /\ DecideReplay(c) \/ DecideRejected(c) \/ DecidePending(c) => call'[c].pc \notin Owned
        /\ DecideDeny(c) => call'[c].pc \notin Owned
        /\ ConsumeAuthorization(c) => call'[c].pc \notin Owned
    BY <2>1, <2>2, <2>3 DEF Activate, DecideReplay, DecideRejected, DecidePending,
                            DecideDeny, ConsumeAuthorization, Owned
  <2>5. ASSUME NEW a \in Auth, DecideAllow(c, a) PROVE call'[c].pc \notin Owned
    BY <1>1, <2>0, <2>5 DEF DecideAllow, CallState, Owned
  <2>6. ASSUME NEW x \in ArtifactId, CommitArtifact(c, x) PROVE call'[c].pc \notin Owned
    BY <2>3, <2>6 DEF CommitArtifact, Owned
  <2>7. Authorize(c) => call'[c].pc \notin Owned
    BY <2>1, <2>2, <2>3 DEF Authorize, Owned
  <2>8. Mint(c) => call'[c].pc \notin Owned
    BY <1>1, <2>0 DEF Mint, CallState, Owned
  <2>9. Reload(c) => call'[c].pc \notin Owned
    BY <1>1, <2>0, <2>3 DEF Reload, CallState, Owned
  <2>10. RecordArtifact(c) => call'[c].pc \notin Owned
    BY <2>2, <2>3 DEF RecordArtifact, Owned
  <2> QED BY <2>4, <2>5, <2>6, <2>7, <2>8, <2>9, <2>10 DEF AuthorizeSteps
<1> QED BY <1>1, <1>2, <1>3, <1>4, OwnersUnchanged

\* The record of an operation has one owner, which names its call.
LEMMA OwnersExclude ==
  ASSUME OwnersOnRecord
  PROVE  MutualExclusion
<1>1. SUFFICES ASSUME NEW c \in Call, NEW d \in Call,
                      call[c].pc \in Owned, call[d].pc \in Owned, call[c].op = call[d].op
               PROVE  c = d
  BY DEF MutualExclusion
<1>2. coord[call[c].op].owner = OwnerOf(c) /\ coord[call[c].op].owner = OwnerOf(d)
  BY <1>1 DEF OwnersOnRecord, Owns
<1>3. OwnerOf(c).attempt = c /\ OwnerOf(d).attempt = d
  BY DEF OwnerOf
<1> QED BY <1>2, <1>3

\* A call that owns an operation and takes a step that changes its record
\* keeps its token on the record or gives up the ownership; no other call
\* owns this operation, so no other owner is disturbed.
LEMMA OwnersCommit ==
  ASSUME Shape, OwnersOnRecord, NEW c \in Call, CommitSteps(c)
  PROVE  OwnersOnRecord'
<1> USE DEF At
<1>0. /\ call \in [Call -> CallState] /\ call[c] \in CallState /\ WellShaped(call[c])
      /\ coord \in [Op -> CoordinationRecord]
      /\ \A d \in Call : WellShaped(call[d])
  BY DEF Shape, TypeOK, CallShape
<1>a. \A d \in Call : /\ call[d].pc \in Owned => call[d].op \in Op /\ call[d].token \in Token
                      /\ call[d].pc # "idle" => running[CallProcess[d]]
  BY <1>0 DEF OwnersOnRecord, WellShaped, Owned
<1>1. CASE Acquire(c)
  <2> DEFINE o == call[c].op
             token == NextToken(coord[o], OwnerOf(c))
  <2>1. CASE Fail(c) /\ UNCHANGED coord
    BY <1>0, <1>1, <2>1, OwnersUnchanged DEF Acquire, Fail, IdleCall, host
  <2>2. CASE /\ CanAcquire(coord[o], CallProcess[c], running, started)
             /\ coord' = [coord EXCEPT ![o] = Acquired(token)]
             /\ call' = [call EXCEPT ![c].pc = "validate", ![c].token = token]
    <3>1. o \in Op /\ running[CallProcess[c]] /\ UNCHANGED <<running, started>>
      BY <1>0, <1>1, <1>a DEF Acquire, WellShaped, host
    <3>2. /\ call'[c].pc = "validate" /\ call'[c].token = token /\ call'[c].op = o
          /\ \A d \in Call : d # c => call'[d] = call[d]
      BY <1>0, <2>2 DEF CallState
    <3>3. Owns(coord'[o], token) /\ token.owner = OwnerOf(c)
      BY <1>0, <2>2, <3>1 DEF Owns, Acquired, NextToken
    <3>4. \A d \in Call : call[d].pc \in Owned => call[d].op # o
      BY <2>2, <3>1, LiveOwnerBlocks
    <3>5. \A d \in Call \ {c} : call[d].pc \in Owned => coord'[call[d].op] = coord[call[d].op]
      BY <1>0, <1>a, <2>2, <3>4
    <3>6. OwnerOf(c)' = OwnerOf(c) /\ \A d \in Call : OwnerOf(d)' = OwnerOf(d)
      BY <3>1 DEF OwnerOf
    <3> HIDE DEF token, o
    <3> QED BY <3>1, <3>2, <3>3, <3>5, <3>6 DEF OwnersOnRecord, Owned
  <2> QED BY <1>1, <2>1, <2>2 DEF Acquire
<1>2. ASSUME NEW here \in Owned, NEW there \in Owned, RequireOwnership(c, here, there)
      PROVE  OwnersOnRecord'
  <2> DEFINE o == call[c].op
             t == call[c].token
  <2>1. /\ call[c].pc = here /\ o \in Op /\ running[CallProcess[c]]
        /\ Owns(coord[o], t) /\ UNCHANGED <<running, started>>
    BY <1>2, <1>a DEF RequireOwnership, OwnersOnRecord, Owned, host
  <2>2. PICK lease \in {"live", "lapsed"} :
          coord' = [coord EXCEPT ![o] = [Renewed(coord[o]) EXCEPT !.lease = lease]]
    BY <1>2, <2>1 DEF RequireOwnership
  <2>3. /\ call'[c].pc \in Owned /\ call'[c].op = o /\ call'[c].token = t
        /\ \A d \in Call : d # c => call'[d] = call[d]
    BY <1>0, <1>2, <2>1 DEF RequireOwnership, Goto, FailOwned, CallState, Owned
  <2>4. coord[o] \in CoordinationRecord
    BY <1>0, <2>1
  <2>5. \A u \in Token : Owns(coord[o], u) => Owns(coord'[o], u)
    BY <1>0, <2>1, <2>2, <2>4 DEF Owns, Renewed, CoordinationRecord
  <2>6. \A d \in Call : call[d].pc \in Owned =>
          Owns(coord'[call[d].op], call[d].token)
    BY <1>0, <1>a, <2>2, <2>5 DEF OwnersOnRecord
  <2>7. \A d \in Call : OwnerOf(d)' = OwnerOf(d)
    BY <2>1 DEF OwnerOf
  <2> QED BY <2>1, <2>3, <2>6, <2>7 DEF OwnersOnRecord
<1>3. CASE ReleaseOwnership(c)
  <2> DEFINE o == call[c].op
  <2>1. /\ o \in Op /\ call[c].pc \in Owned /\ UNCHANGED <<running, started>>
        /\ coord' = [coord EXCEPT ![o] = Released(@, call[c].token)]
        /\ call' = [call EXCEPT ![c] = IdleCall]
    BY <1>3, <1>a DEF ReleaseOwnership, Owned, host
  <2>2. \A d \in Call \ {c} : call[d].pc \in Owned => call[d].op # o
    BY <2>1, OwnersExclude DEF MutualExclusion
  <2>3. \A d \in Call \ {c} : call[d].pc \in Owned => coord'[call[d].op] = coord[call[d].op]
    BY <1>0, <1>a, <2>1, <2>2
  <2>4. \A d \in Call : OwnerOf(d)' = OwnerOf(d)
    BY <2>1 DEF OwnerOf
  <2>5. call'[c].pc = "idle" /\ \A d \in Call : d # c => call'[d] = call[d]
    BY <1>0, <2>1 DEF IdleCall
  <2> QED BY <2>1, <2>3, <2>4, <2>5 DEF OwnersOnRecord, Owned
<1>4. CASE Validate(c) \/ SaveExpired(c) \/ ClaimReceipt(c) \/ SaveCommit(c) \/ FinalizeReceipt(c)
  <2>1. call[c].pc \in Owned /\ UNCHANGED <<coord, running, started>>
    BY <1>4 DEF Validate, SaveExpired, ClaimReceipt, SaveCommit, FinalizeReceipt, Owned, host
  <2>2. /\ call'[c].op = call[c].op /\ call'[c].token = call[c].token
        /\ \A d \in Call : d # c => call'[d] = call[d]
    BY <1>0, <1>4 DEF Validate, SaveExpired, ClaimReceipt, SaveCommit, FinalizeReceipt,
                      Goto, FailOwned, CallState
  <2> QED BY <2>1, <2>2, OwnersUnchanged
<1> QED BY <1>1, <1>2, <1>3, <1>4 DEF CommitSteps, Owned

\* The environment: a process that dies takes its calls with it, and one that
\* is started has none.
LEMMA OwnersEnvironment ==
  ASSUME Shape, OwnersOnRecord, Environment
  PROVE  OwnersOnRecord'
<1>0. /\ coord \in [Op -> CoordinationRecord] /\ call \in [Call -> CallState]
      /\ running \in [Process -> BOOLEAN] /\ started \in [Process -> Nat]
      /\ \A d \in Call : CallProcess[d] \in Process
  BY CommitAssumption DEF Shape, TypeOK
<1>1. CASE OrdinaryWrite \/ InstallProfile \/ BrokerActivate
           \/ \E a \in Auth : ExpireAuthorization(a)
  <2>1. UNCHANGED <<coord, running, started, call>>
    BY <1>1 DEF OrdinaryWrite, InstallProfile, BrokerActivate, ExpireAuthorization, host
  <2> QED BY <2>1, OwnersUnchanged
<1>2. ASSUME NEW o \in Op, LapseLease(o) PROVE OwnersOnRecord'
  <2>1. /\ coord' = [coord EXCEPT ![o].lease = "lapsed"]
        /\ UNCHANGED <<running, started, call>>
    BY <1>2 DEF LapseLease, host
  <2>2. \A q \in Op : /\ coord'[q].status = coord[q].status
                      /\ coord'[q].generation = coord[q].generation
                      /\ coord'[q].owner = coord[q].owner
    BY <1>0, <2>1 DEF CoordinationRecord
  <2>3. \A d \in Call : call[d].pc \in Owned => call[d].op \in Op
    BY DEF Shape, CallShape, WellShaped, Owned
  <2> QED BY <2>1, <2>2, <2>3 DEF OwnersOnRecord, OwnerOf, Owns
<1>3. ASSUME NEW p \in Process, Exit(p) PROVE OwnersOnRecord'
  <2>1. /\ UNCHANGED <<coord, started>>
        /\ \A d \in Call : IF CallProcess[d] = p
             THEN call'[d].pc = "idle"
             ELSE call'[d] = call[d] /\ running'[CallProcess[d]] = running[CallProcess[d]]
    BY <1>0, <1>3 DEF Exit, IdleCall
  <2> QED BY <2>1 DEF OwnersOnRecord, OwnerOf, Owned
<1>4. ASSUME NEW p \in Process, Boot(p) PROVE OwnersOnRecord'
  <2>1. /\ UNCHANGED <<coord, call>> /\ ~running[p]
        /\ \A d \in Call : CallProcess[d] # p =>
             /\ running'[CallProcess[d]] = running[CallProcess[d]]
             /\ started'[CallProcess[d]] = started[CallProcess[d]]
    BY <1>0, <1>4 DEF Boot
  <2>2. \A d \in Call : CallProcess[d] = p => call[d].pc = "idle"
    BY <2>1 DEF OwnersOnRecord
  <2> QED BY <2>1, <2>2 DEF OwnersOnRecord, OwnerOf, Owned
<1> QED BY <1>1, <1>2, <1>3, <1>4 DEF Environment

\* Every step keeps the owners on record.
LEMMA OwnersStep == Shape /\ OwnersOnRecord /\ [Next]_vars => OwnersOnRecord'
<1> SUFFICES ASSUME Shape, OwnersOnRecord, [Next]_vars PROVE OwnersOnRecord'
  OBVIOUS
<1>1. ASSUME NEW c \in Call, Proceed(c) PROVE OwnersOnRecord'
  BY <1>1, OwnersAuthorize, OwnersCommit DEF Proceed
<1>2. ASSUME NEW c \in Call, NEW o \in Op, StartCall(c, o) PROVE OwnersOnRecord'
  <2>1. /\ running[CallProcess[c]] /\ UNCHANGED <<coord, running, started>>
        /\ call'[c].pc = "activate"
        /\ \A d \in Call : d # c => call'[d] = call[d]
    BY <1>2 DEF StartCall, IdleCall, host, Shape, TypeOK
  <2> QED BY <2>1, OwnersUnchanged DEF Owned
<1>3. CASE Environment
  BY <1>3, OwnersEnvironment
<1>4. CASE UNCHANGED vars
  BY <1>4, OwnersUnchanged DEF vars
<1> QED BY <1>1, <1>2, <1>3, <1>4 DEF Next

\* Two calls are never both between acquiring and releasing the ownership of
\* one operation, however often processes die, process ids are given away
\* and leases lapse.
THEOREM CommitsExclude == Spec => []MutualExclusion
<1>1. Init => Shape /\ OwnersOnRecord
  BY ShapeInit DEF Init, OwnersOnRecord, IdleCall, Owned
<1>2. Shape /\ OwnersOnRecord /\ [Next]_vars => Shape' /\ OwnersOnRecord'
  BY ShapeStep, OwnersStep
<1>3. Shape /\ OwnersOnRecord => MutualExclusion
  BY OwnersExclude
<1> QED BY <1>1, <1>2, <1>3, PTL DEF Spec

-----------------------------------------------------------------------------
(* Taking over.                                                            *)

Attended(o) == \E c \in Call : call[c].pc \in Owned /\ call[c].op = o

\* The life of the process this owner was in is over.
Over(owner) == running[owner.pid] => started[owner.pid] # owner.startedAt

\* An ownership on record is that of a call at work, or was left by a process
\* that died with the call: no failure of a call leaves it behind.
LeftByTheDead ==
  \A o \in Op : coord[o].status = "owned" =>
    /\ coord[o].owner \in Owner
    /\ coord[o].owner.startedAt <= started[coord[o].owner.pid]
    /\ Attended(o) \/ Over(coord[o].owner)

\* A process that takes the owner for alive, because another process has got
\* its process id.
Deceived(p, o) ==
  /\ coord[o].status = "owned"
  /\ coord[o].owner.pid # p /\ running[coord[o].owner.pid]

CanTakeOver(p, o) == running[p] /\ CanAcquire(coord[o], p, running, started)

\* Once nobody is at the commit of an operation and the lease has lapsed, every
\* process that is not deceived can acquire it, and one that runs is not.
TakenOver ==
  \A o \in Op : ~Attended(o) /\ coord[o].lease = "lapsed" =>
    /\ \A p \in Process : running[p] /\ ~Deceived(p, o) => CanTakeOver(p, o)
    /\ (\E p \in Process : running[p]) => \E p \in Process : CanTakeOver(p, o)

\* A step of a call that keeps the records and the processes as they are, and
\* its ownership if it has one.
LEMMA HoldersUnchanged ==
  ASSUME LeftByTheDead, UNCHANGED <<coord, running, started>>,
         \A c \in Call : call[c].pc \in Owned =>
           call'[c].pc \in Owned /\ call'[c].op = call[c].op
  PROVE  LeftByTheDead'
  BY DEF LeftByTheDead, Attended, Over

LEMMA HoldersAuthorize ==
  ASSUME Shape, LeftByTheDead, NEW c \in Call, AuthorizeSteps(c)
  PROVE  LeftByTheDead'
<1>1. call[c].pc \notin Owned
  BY DEF Owned, AuthorizeSteps, At, Activate, DecideReplay, DecideRejected,
         DecidePending, DecideDeny, DecideAllow, CommitArtifact, Authorize, Mint,
         ConsumeAuthorization, Reload, RecordArtifact
<1>2. UNCHANGED <<coord, running, started>>
  BY DEF AuthorizeSteps, host, Activate, DecideReplay, DecideRejected,
         DecidePending, DecideDeny, DecideAllow, CommitArtifact, Authorize, Mint,
         ConsumeAuthorization, Reload, RecordArtifact
<1>3. \A d \in Call : d # c => call'[d] = call[d]
  BY DEF Shape, TypeOK, AuthorizeSteps, Activate, DecideReplay, DecideRejected,
         DecidePending, DecideDeny, DecideAllow, CommitArtifact, Authorize, Mint,
         ConsumeAuthorization, Reload, RecordArtifact, Goto, Fail, ToCommit
<1> QED
  BY <1>1, <1>2, <1>3, HoldersUnchanged

\* A call that owns an operation works on as its owner until it releases it,
\* and then the record is free.
LEMMA HoldersCommit ==
  ASSUME Shape, OwnersOnRecord, LeftByTheDead, NEW c \in Call, CommitSteps(c)
  PROVE  LeftByTheDead'
<1> USE DEF At
<1>0. /\ call \in [Call -> CallState] /\ call[c] \in CallState /\ WellShaped(call[c])
      /\ coord \in [Op -> CoordinationRecord] /\ started \in [Process -> Nat]
      /\ CallProcess[c] \in Process
  BY CommitAssumption DEF Shape, TypeOK, CallShape
<1>1. CASE Acquire(c)
  <2> DEFINE o == call[c].op
             token == NextToken(coord[o], OwnerOf(c))
  <2>0. o \in Op /\ call[c].pc \notin Owned /\ UNCHANGED <<running, started>>
    BY <1>0, <1>1 DEF Acquire, WellShaped, Owned, host
  <2>1. CASE Fail(c) /\ UNCHANGED coord
    <3>1. \A d \in Call : d # c => call'[d] = call[d]
      BY <1>0, <2>1 DEF Fail
    <3> QED
      BY <2>0, <2>1, <3>1, HoldersUnchanged
  <2>2. CASE /\ coord' = [coord EXCEPT ![o] = Acquired(token)]
             /\ call' = [call EXCEPT ![c].pc = "validate", ![c].token = token]
    <3>1. /\ call'[c].pc \in Owned /\ call'[c].op = o
          /\ \A d \in Call : d # c => call'[d] = call[d]
      BY <1>0, <2>2 DEF CallState, Owned
    <3>2. coord'[o].owner = OwnerOf(c) /\ \A q \in Op \ {o} : coord'[q] = coord[q]
      BY <1>0, <2>0, <2>2 DEF Acquired, NextToken
    <3>3. /\ OwnerOf(c) \in Owner /\ OwnerOf(c).pid = CallProcess[c]
          /\ OwnerOf(c).startedAt = started[CallProcess[c]]
      BY <1>0 DEF OwnerOf, Owner
    <3>4. \A q \in Op : Attended(q) => Attended(q)'
      BY <2>0, <3>1 DEF Attended
    <3>5. ASSUME NEW q \in Op, q = o PROVE Attended(q)'
      BY <3>1, <3>5 DEF Attended
    <3> HIDE DEF o, token
    <3>6. ASSUME NEW q \in Op, coord'[q].status = "owned"
          PROVE  /\ coord'[q].owner \in Owner
                 /\ coord'[q].owner.startedAt <= started[coord'[q].owner.pid]
                 /\ Attended(q)' \/ Over(coord[q].owner)'
      <4>1. CASE q = o
        BY <1>0, <3>2, <3>3, <3>5, <4>1
      <4>2. CASE q # o
        BY <2>0, <3>2, <3>4, <3>6, <4>2 DEF LeftByTheDead, Over
      <4> QED
        BY <4>1, <4>2
    <3> QED
      BY <2>0, <3>6 DEF LeftByTheDead
  <2> QED
    BY <1>1, <2>1, <2>2 DEF Acquire
<1>2. ASSUME NEW here \in Owned, NEW there \in Owned, RequireOwnership(c, here, there)
      PROVE  LeftByTheDead'
  <2> DEFINE o == call[c].op
  <2>1. o \in Op /\ call[c].pc \in Owned /\ UNCHANGED <<running, started>>
    BY <1>0, <1>2 DEF RequireOwnership, WellShaped, Owned, host
  <2>2. \A d \in Call : call[d].pc \in Owned => call'[d].pc \in Owned /\ call'[d].op = call[d].op
    BY <1>0, <1>2 DEF RequireOwnership, Goto, FailOwned, CallState, Owned
  <2>3. \A q \in Op : coord'[q].status = coord[q].status /\ coord'[q].owner = coord[q].owner
    <3>1. CASE UNCHANGED coord
      BY <3>1
    <3>2. CASE \E lease \in {"live", "lapsed"} :
                 coord' = [coord EXCEPT ![o] = [Renewed(coord[o]) EXCEPT !.lease = lease]]
      BY <1>0, <2>1, <3>2 DEF Renewed, CoordinationRecord
    <3> QED
      BY <1>2, <3>1, <3>2 DEF RequireOwnership
  <2> QED
    BY <2>1, <2>2, <2>3 DEF LeftByTheDead, Attended, Over
<1>3. CASE ReleaseOwnership(c)
  <2> DEFINE o == call[c].op
  <2>1. /\ o \in Op /\ Owns(coord[o], call[c].token) /\ UNCHANGED <<running, started>>
        /\ coord' = [coord EXCEPT ![o] = Released(@, call[c].token)]
        /\ \A d \in Call : d # c => call'[d] = call[d]
    BY <1>0, <1>3 DEF ReleaseOwnership, OwnersOnRecord, WellShaped, Owned, host
  <2>2. coord'[o].status = "released" /\ \A q \in Op \ {o} : coord'[q] = coord[q]
    BY <1>0, <2>1 DEF Released, CoordinationRecord
  <2>3. \A q \in Op \ {o} : Attended(q) => Attended(q)'
    BY <2>1 DEF Attended
  <2> HIDE DEF o
  <2> QED
    BY <2>1, <2>2, <2>3 DEF LeftByTheDead, Over
<1>4. CASE Validate(c) \/ SaveExpired(c) \/ ClaimReceipt(c) \/ SaveCommit(c) \/ FinalizeReceipt(c)
  <2>1. UNCHANGED <<coord, running, started>>
    BY <1>4 DEF Validate, SaveExpired, ClaimReceipt, SaveCommit, FinalizeReceipt, host
  <2>2. call'[c].op = call[c].op /\ \A d \in Call : d # c => call'[d] = call[d]
    BY <1>0, <1>4 DEF Validate, SaveExpired, ClaimReceipt, SaveCommit, FinalizeReceipt,
                      Goto, FailOwned, CallState
  <2>3. call'[c].pc \in Owned
    <3>1. CASE Validate(c)
      <4>1. call'[c].pc = ValidatedPhase(c)
        BY <1>0, <3>1 DEF Validate, CallState
      <4> QED
        BY <4>1 DEF ValidatedPhase, Owned
    <3>2. CASE SaveExpired(c) \/ ClaimReceipt(c) \/ SaveCommit(c) \/ FinalizeReceipt(c)
      BY <1>0, <3>2 DEF SaveExpired, ClaimReceipt, SaveCommit, FinalizeReceipt, Goto,
                        FailOwned, CallState, Owned
    <3> QED
      BY <1>4, <3>1, <3>2
  <2> QED
    BY <2>1, <2>2, <2>3, HoldersUnchanged
<1> QED
  BY <1>1, <1>2, <1>3, <1>4 DEF CommitSteps, Owned

\* A process that dies ends a life, and one that is started begins another.
LEMMA HoldersEnvironment ==
  ASSUME Shape, OwnersOnRecord, LeftByTheDead, Environment
  PROVE  LeftByTheDead'
<1>0. /\ coord \in [Op -> CoordinationRecord] /\ call \in [Call -> CallState]
      /\ running \in [Process -> BOOLEAN] /\ started \in [Process -> Nat]
      /\ MaxStart \in Nat
  BY CommitAssumption DEF Shape, TypeOK
<1>1. CASE OrdinaryWrite \/ InstallProfile \/ BrokerActivate
           \/ \E a \in Auth : ExpireAuthorization(a)
  <2>1. UNCHANGED <<coord, running, started, call>>
    BY <1>1 DEF OrdinaryWrite, InstallProfile, BrokerActivate, ExpireAuthorization, host
  <2> QED
    BY <2>1, HoldersUnchanged
<1>2. ASSUME NEW o \in Op, LapseLease(o) PROVE LeftByTheDead'
  <2>1. UNCHANGED <<running, started, call>>
    BY <1>2 DEF LapseLease, host
  <2>2. \A q \in Op : coord'[q].status = coord[q].status /\ coord'[q].owner = coord[q].owner
    BY <1>0, <1>2 DEF LapseLease, CoordinationRecord
  <2> QED
    BY <2>1, <2>2 DEF LeftByTheDead, Attended, Over
<1>3. ASSUME NEW p \in Process, Exit(p) PROVE LeftByTheDead'
  <2>1. UNCHANGED <<coord, started>> /\ running' = [running EXCEPT ![p] = FALSE]
    BY <1>3 DEF Exit
  <2>2. \A o \in Op : Over(coord[o].owner) => Over(coord[o].owner)'
    BY <1>0, <2>1 DEF Over
  <2>3. ASSUME NEW o \in Op, coord[o].status = "owned", Attended(o)
        PROVE  Attended(o)' \/ Over(coord[o].owner)'
    <3>1. PICK c \in Call : call[c].pc \in Owned /\ call[c].op = o
      BY <2>3 DEF Attended
    <3>2. coord[o].owner.pid = CallProcess[c]
      <4>1. call[c].token.owner = OwnerOf(c) /\ Owns(coord[call[c].op], call[c].token)
        BY <3>1 DEF OwnersOnRecord
      <4> QED
        BY <3>1, <4>1 DEF Owns, OwnerOf
    <3>3. CASE CallProcess[c] = p
      BY <1>0, <2>1, <3>2, <3>3 DEF Over
    <3>4. CASE CallProcess[c] # p
      <4>1. call'[c] = call[c]
        BY <1>3, <3>4 DEF Exit
      <4> QED
        BY <3>1, <4>1 DEF Attended
    <3> QED
      BY <3>3, <3>4
  <2> QED
    BY <2>1, <2>2, <2>3 DEF LeftByTheDead
<1>4. ASSUME NEW p \in Process, Boot(p) PROVE LeftByTheDead'
  <2>1. UNCHANGED <<coord, call>> /\ running' = [running EXCEPT ![p] = TRUE]
    BY <1>4 DEF Boot
  <2>2. PICK t \in 2..MaxStart :
          (\A q \in Process : started[q] < t) /\ started' = [started EXCEPT ![p] = t]
    BY <1>4 DEF Boot
  <2>3. t \in Nat
    BY <1>0
  <2>4. ASSUME NEW o \in Op, coord[o].status = "owned"
        PROVE  /\ coord[o].owner.startedAt <= started'[coord[o].owner.pid]
               /\ Over(coord[o].owner) => Over(coord[o].owner)'
    <3>1. /\ coord[o].owner.pid \in Process /\ coord[o].owner.startedAt \in Nat
          /\ coord[o].owner.startedAt <= started[coord[o].owner.pid]
      BY <2>4 DEF LeftByTheDead, Owner
    <3>2. CASE coord[o].owner.pid = p
      BY <1>0, <2>1, <2>2, <2>3, <3>1, <3>2 DEF Over
    <3>3. CASE coord[o].owner.pid # p
      BY <1>0, <2>1, <2>2, <3>1, <3>3 DEF Over
    <3> QED
      BY <3>2, <3>3
  <2> QED
    BY <2>1, <2>4 DEF LeftByTheDead, Attended
<1> QED
  BY <1>1, <1>2, <1>3, <1>4 DEF Environment

LEMMA HoldersStep ==
  Shape /\ OwnersOnRecord /\ LeftByTheDead /\ [Next]_vars => LeftByTheDead'
<1> SUFFICES ASSUME Shape, OwnersOnRecord, LeftByTheDead, [Next]_vars PROVE LeftByTheDead'
  OBVIOUS
<1>1. ASSUME NEW c \in Call, Proceed(c) PROVE LeftByTheDead'
  BY <1>1, HoldersAuthorize, HoldersCommit DEF Proceed
<1>2. ASSUME NEW c \in Call, NEW o \in Op, StartCall(c, o) PROVE LeftByTheDead'
  <2>1. /\ call[c].pc \notin Owned /\ UNCHANGED <<coord, running, started>>
        /\ \A d \in Call : d # c => call'[d] = call[d]
    BY <1>2 DEF StartCall, At, Owned, host, Shape, TypeOK
  <2> QED
    BY <2>1, HoldersUnchanged
<1>3. CASE Environment
  BY <1>3, HoldersEnvironment
<1>4. CASE UNCHANGED vars
  BY <1>4, HoldersUnchanged DEF vars
<1> QED
  BY <1>1, <1>2, <1>3, <1>4 DEF Next

\* No commit is locked out for good: whatever fails, dies, pauses or is started
\* again under the process id of another, an ownership nobody uses any more can
\* be taken over once its lease has lapsed, by some process that runs.  Only a
\* process id in use again makes the others wait, for a call of that process.
THEOREM OwnershipComesBack == Spec => []TakenOver
<1>1. Init => Shape /\ OwnersOnRecord /\ LeftByTheDead
  BY ShapeInit DEF Init, OwnersOnRecord, LeftByTheDead, NoRecord, IdleCall, Owned
<1>2. Shape /\ OwnersOnRecord /\ LeftByTheDead /\ [Next]_vars
        => Shape' /\ OwnersOnRecord' /\ LeftByTheDead'
  BY ShapeStep, OwnersStep, HoldersStep
<1>3. ASSUME Shape, LeftByTheDead PROVE TakenOver
  <2> SUFFICES ASSUME NEW o \in Op, ~Attended(o), coord[o].lease = "lapsed"
               PROVE  /\ \A p \in Process : running[p] /\ ~Deceived(p, o) => CanTakeOver(p, o)
                      /\ (\E p \in Process : running[p]) => \E p \in Process : CanTakeOver(p, o)
    BY DEF TakenOver
  <2>1. CASE coord[o].status # "owned"
    BY <2>1 DEF CanTakeOver, CanAcquire
  <2>2. CASE coord[o].status = "owned"
    <3>1. coord[o].owner.pid \in Process /\ Over(coord[o].owner)
      BY <1>3, <2>2 DEF LeftByTheDead, Owner
    <3>2. ASSUME NEW p \in Process, running[p], ~Deceived(p, o) PROVE CanTakeOver(p, o)
      BY <2>2, <3>1, <3>2 DEF CanTakeOver, CanAcquire, OwnerLiveness, Deceived, Over
    <3>3. ASSUME NEW p \in Process, running[p] PROVE \E q \in Process : CanTakeOver(q, o)
      <4>1. CASE running[coord[o].owner.pid]
        BY <3>1, <3>2, <4>1 DEF Deceived
      <4>2. CASE ~running[coord[o].owner.pid]
        BY <3>2, <3>3, <4>2 DEF Deceived
      <4> QED
        BY <4>1, <4>2
    <3> QED
      BY <3>2, <3>3
  <2> QED
    BY <2>1, <2>2
<1> QED
  BY <1>1, <1>2, <1>3, PTL DEF Spec

-----------------------------------------------------------------------------
(* The generations.                                                        *)

\* A record stays with its owner, or goes to the next generation.
Fenced(old, new) ==
  \/ new.generation = old.generation /\ new.owner = old.owner
  \/ new.generation = old.generation + 1

\* Every step of a call that touches a coordination record fences it.
LEMMA FenceCommit ==
  ASSUME Shape, NEW c \in Call, CommitSteps(c), NEW q \in Op
  PROVE  Fenced(coord[q], coord'[q])
<1> USE DEF At
<1>0. /\ coord \in [Op -> CoordinationRecord] /\ WellShaped(call[c])
      /\ coord[q] \in CoordinationRecord
  BY DEF Shape, TypeOK, CallShape
<1>1. CASE coord' = coord
  BY <1>1 DEF Fenced
<1>2. CASE Acquire(c)
  <2> DEFINE token == NextToken(coord[call[c].op], OwnerOf(c))
  <2>1. coord' = coord \/ coord' = [coord EXCEPT ![call[c].op] = Acquired(token)]
    BY <1>2 DEF Acquire
  <2>2. Acquired(token).generation = coord[call[c].op].generation + 1
    BY DEF Acquired, NextToken
  <2> HIDE DEF token
  <2>3. CASE q = call[c].op /\ coord' = [coord EXCEPT ![call[c].op] = Acquired(token)]
    BY <1>0, <2>2, <2>3 DEF Fenced
  <2>4. CASE q # call[c].op \/ coord' = coord
    BY <1>0, <2>1, <2>4 DEF Fenced
  <2> QED BY <2>1, <2>3, <2>4
<1>3. ASSUME NEW here, NEW there, RequireOwnership(c, here, there)
      PROVE  Fenced(coord[q], coord'[q])
  <2>1. ASSUME NEW lease \in {"live", "lapsed"},
               coord' = [coord EXCEPT ![call[c].op] = [Renewed(coord[call[c].op]) EXCEPT !.lease = lease]]
        PROVE  Fenced(coord[q], coord'[q])
    <3>1. CASE q = call[c].op
      <4>1. coord'[q] = [Renewed(coord[q]) EXCEPT !.lease = lease]
        BY <1>0, <2>1, <3>1
      <4> QED BY <1>0, <4>1 DEF Fenced, Renewed, CoordinationRecord
    <3>2. CASE q # call[c].op
      BY <1>0, <2>1, <3>2 DEF Fenced
    <3> QED BY <3>1, <3>2
  <2> QED BY <1>1, <1>3, <2>1 DEF RequireOwnership
<1>4. CASE ReleaseOwnership(c)
  <2>1. coord' = [coord EXCEPT ![call[c].op] = Released(@, call[c].token)]
    BY <1>4 DEF ReleaseOwnership
  <2>2. CASE q = call[c].op
    <3>1. coord'[q] = Released(coord[q], call[c].token)
      BY <1>0, <2>1, <2>2
    <3> QED BY <1>0, <3>1 DEF Fenced, Released, CoordinationRecord
  <2>3. CASE q # call[c].op
    BY <1>0, <2>1, <2>3 DEF Fenced
  <2> QED BY <2>2, <2>3
<1>5. CASE Validate(c) \/ SaveExpired(c) \/ ClaimReceipt(c) \/ SaveCommit(c) \/ FinalizeReceipt(c)
  BY <1>1, <1>5 DEF Validate, SaveExpired, ClaimReceipt, SaveCommit, FinalizeReceipt
<1> QED BY <1>2, <1>3, <1>4, <1>5 DEF CommitSteps

\* Every other step leaves the records to their owners.
LEMMA FenceStep ==
  ASSUME Shape, [Next]_vars, NEW q \in Op
  PROVE  Fenced(coord[q], coord'[q])
<1>0. coord \in [Op -> CoordinationRecord]
  BY DEF Shape, TypeOK
<1>1. CASE coord' = coord
  BY <1>1 DEF Fenced
<1>2. ASSUME NEW c \in Call, AuthorizeSteps(c) PROVE coord' = coord
  BY <1>2 DEF AuthorizeSteps, Activate, DecideReplay, DecideRejected, DecidePending,
              DecideDeny, DecideAllow, CommitArtifact, Authorize, Mint,
              ConsumeAuthorization, Reload, RecordArtifact
<1>3. ASSUME NEW c \in Call, NEW o \in Op, StartCall(c, o) PROVE coord' = coord
  BY <1>3 DEF StartCall
<1>4. ASSUME NEW o \in Op, LapseLease(o) PROVE Fenced(coord[q], coord'[q])
  <2>1. coord' = [coord EXCEPT ![o].lease = "lapsed"] /\ coord[o] \in CoordinationRecord
    BY <1>0, <1>4 DEF LapseLease
  <2>2. coord'[q].generation = coord[q].generation /\ coord'[q].owner = coord[q].owner
    BY <1>0, <2>1 DEF CoordinationRecord
  <2> QED BY <2>2 DEF Fenced
<1>5. CASE Environment
  BY <1>1, <1>4, <1>5 DEF Environment, OrdinaryWrite, InstallProfile, BrokerActivate,
                          ExpireAuthorization, Exit, Boot
<1>6. CASE UNCHANGED vars
  BY <1>1, <1>6 DEF vars
<1> QED BY <1>1, <1>2, <1>3, <1>5, <1>6, FenceCommit DEF Next, Proceed

\* The generation of a commit never goes back, and another owner always comes
\* with a higher one: a release keeps the generation on record.
THEOREM OwnersAreFenced == Spec => GenerationFences
<1>1. ASSUME Shape, [Next]_vars
      PROVE  \A o \in Op : /\ coord'[o].generation >= coord[o].generation
                           /\ coord'[o].owner # coord[o].owner
                                => coord'[o].generation > coord[o].generation
  <2>1. TAKE o \in Op
  <2>2. coord[o].generation \in Nat
    <3>1. coord[o] \in CoordinationRecord
      BY <1>1, <2>1 DEF Shape, TypeOK
    <3> QED BY <3>1 DEF CoordinationRecord
  <2>3. Fenced(coord[o], coord'[o])
    BY <1>1, <2>1, FenceStep
  <2> QED BY <2>2, <2>3 DEF Fenced
<1> QED BY <1>1, ShapeInit, ShapeStep, PTL DEF Spec, GenerationFences
=============================================================================
