----------------------------- MODULE ExactCommit -----------------------------
(***************************************************************************)
(* The exact commit protocol for L3 (high-risk) route operations.  Calls   *)
(* of several server processes, sharing one canonical project and one      *)
(* authority state file, bind the installed authorization profile, obtain  *)
(* an exact authorization for a pending operation, consume it into an      *)
(* approval artifact, and commit the operation under a leased ownership:   *)
(*   acquire - validate - claim receipt - save canonical - finalize receipt*)
(*   - release.                                                            *)
(* Between any two of these steps other calls, ordinary project writes,    *)
(* profile rotation, the clock, and the death of a process may intervene.  *)
(*                                                                         *)
(* Granularity: one action per access to shared durable state, i.e. per    *)
(* transaction of the authority state file and per load or save of the     *)
(* canonical aggregate (a save is atomic under the canonical write lock    *)
(* and checks the head revision; the modules CanonicalReplace and          *)
(* AuthorityStateLock look inside those two).                              *)
(***************************************************************************)
EXTENDS ExactAuthorizationStore, Naturals, FiniteSets

CONSTANTS Process,        \* operating-system process ids
          CallProcess,    \* the process each call runs in
          Route,          \* live route states an L3 digest tells apart
          MaxRevision,    \* bound: ordinary writes stop at this head revision
          MaxGeneration,  \* Number.MAX_SAFE_INTEGER of the commit generation
          MaxStart,       \* bound: the latest process start time
          Pausing,        \* bound: generations whose owner may pause past its
                          \* lease between renewing and asserting it
          None

INSTANCE ExactCommitCoordinator WITH Attempt <- Call

ASSUME CommitAssumption ==
  /\ CallProcess \in [Call -> Process]
  /\ Epoch \subseteq Nat
  /\ MaxRevision \in Nat /\ MaxGeneration \in Nat /\ MaxStart \in Nat
  /\ Pausing \subseteq Nat

VARIABLES
  canon,      \* the canonical project aggregate on disk
  store,      \* exact authorizations and receipts (authority state file)
  coord,      \* commit coordination records (authority state file)
  active,     \* the profile last activated (authority state file)
  registry,   \* the profile installed in the host registry
  expired,    \* authorizations whose expiresAt has passed
  running,    \* which process ids are running
  started,    \* processStartedAt of each process id
  call        \* the state of each call

vars == <<canon, store, coord, active, registry, expired, running, started, call>>
host == <<registry, expired, running, started>>

-----------------------------------------------------------------------------
(* The canonical aggregate, as far as this protocol reads or writes it.    *)

ArtifactStatus == {"none", "approved", "consumed", "expired"}

Canonical ==
  [rev      : Nat,                                   \* headRevision
   route    : Route,                                 \* live gate state
   digest   : [Op -> Route],                         \* digest at proposal
   status   : [Op -> {"pending", "committed", "rejected"}],
   artifact : [Op -> ArtifactId \cup {NoArtifact}],  \* approvalArtifactId
   art      : [ArtifactId -> ArtifactStatus],        \* approvalArtifacts
   commits  : [Op -> Nat]]       \* pending_operation.committed events on record

NoSnapshot == [rev |-> None]
NoToken == [generation |-> 0]

\* Phases in which a call holds an ownership token.
Owned == {"validate", "expire", "own1", "claim", "own2", "save", "own3",
          "finalize", "release"}

Phases == Owned \cup {"idle", "activate", "decide", "consult", "authorize",
                      "mint", "consume", "reload", "record", "acquire"}

IdleCall == [pc |-> "idle", op |-> None, epoch |-> None, auth |-> None,
             art |-> NoArtifact, token |-> NoToken, snap |-> NoSnapshot]

Goto(c, phase) == call' = [call EXCEPT ![c].pc = phase]

\* A field of a call is cleared once no later step of the call reads it.
ToCommit(c, x) ==
  call' = [call EXCEPT ![c].pc = "acquire", ![c].art = x,
                       ![c].auth = None, ![c].snap = NoSnapshot]

\* The call throws before it owns the commit; afterwards it throws through
\* the finally that releases the ownership.
Fail(c) == call' = [call EXCEPT ![c] = IdleCall]
FailOwned(c) == call' = [call EXCEPT ![c].pc = "release", ![c].snap = NoSnapshot]

At(c, phase) == call[c].pc = phase

\* Faulty variant: a save does not compare the head revision.
HeadUnchecked(snap) == TRUE

\* saveProjectAggregate: rejects a snapshot whose head revision is not the
\* one on disk (STALE_SNAPSHOT).
HeadMatches(snap) == snap.rev = canon.rev
Save(content) == canon' = [content EXCEPT !.rev = canon.rev + 1]

Init ==
  /\ canon \in [rev : {0}, route : Route, digest : [Op -> Route],
                status : {[o \in Op |-> "pending"]},
                artifact : {[o \in Op |-> NoArtifact]},
                art : {[x \in ArtifactId |-> "none"]},
                commits : {[o \in Op |-> 0]}]
  /\ store = EmptyStore
  /\ coord = [o \in Op |-> NoRecord]
  /\ registry \in {e \in Epoch : \A f \in Epoch : e <= f}
  /\ active = registry
  /\ expired = {}
  /\ running = [p \in Process |-> TRUE]
  /\ started = [p \in Process |-> 1]
  /\ call = [c \in Call |-> IdleCall]

-----------------------------------------------------------------------------
(* Binding the host-owned profile, at the start of every tool call.        *)

\* ensureBrokerBinding, first half: registry.bind reads the installed profile.
StartCall(c, o) ==
  /\ At(c, "idle")
  /\ running[CallProcess[c]]
  /\ call' = [call EXCEPT ![c] = [IdleCall EXCEPT !.pc = "activate",
                                    !.op = o, !.epoch = registry]]
  /\ UNCHANGED <<canon, store, coord, active, host>>

\* Second half: the runtime is loaded for the profile that was read, and
\* activates its policy, or throws while a stale receipt is claimed.
Activate(c) ==
  /\ At(c, "activate")
  /\ IF RotationBlocked(store, call[c].epoch)
     THEN Fail(c) /\ UNCHANGED <<store, active>>
     ELSE /\ store' = ActivatePolicy(store, call[c].epoch)
          /\ active' = call[c].epoch
          /\ Goto(c, "decide")
  /\ UNCHANGED <<canon, coord, host>>

-----------------------------------------------------------------------------
(* Deciding and authorizing (executeExistingL3Proposal).  The proposal is  *)
(* loaded once; the decision that follows does not lock it.                *)

\* A committed proposal goes straight to the commit, as an exact replay.
DecideReplay(c) ==
  /\ At(c, "decide")
  /\ canon.status[call[c].op] = "committed"
  /\ ToCommit(c, canon.artifact[call[c].op])
  /\ UNCHANGED <<canon, store, coord, active, host>>

DecideRejected(c) ==
  /\ At(c, "decide")
  /\ canon.status[call[c].op] = "rejected"
  /\ Fail(c)
  /\ UNCHANGED <<canon, store, coord, active, host>>

DecidePending(c) ==
  /\ At(c, "decide")
  /\ canon.status[call[c].op] = "pending"
  /\ Goto(c, "consult")
  /\ UNCHANGED <<canon, store, coord, active, host>>

\* The decision adapter allows the proposal: it issues an authorization with
\* the provenance of the profile this call was bound to, or finds the one
\* already issued under the same id.
DecideAllow(c, a) ==
  /\ At(c, "consult")
  /\ AuthOp[a] = call[c].op
  /\ AuthEpoch[a] = call[c].epoch
  /\ store' = Issue(store, a)
  /\ call' = [call EXCEPT ![c].pc = "authorize", ![c].auth = a]
  /\ UNCHANGED <<canon, coord, active, host>>

\* Faulty variant: the rejection does not look at the status it replaces.
DecideDenyUnchecked(c) ==
  /\ At(c, "consult")
  /\ Save([canon EXCEPT !.status[call[c].op] = "rejected"])
  /\ Fail(c)
  /\ UNCHANGED <<store, coord, active, host>>

\* The decision denies the proposal: rejectL3Operation loads it again and
\* saves it rejected.  Nothing changes when it is no longer pending, when the
\* save finds a newer head revision, or when the adapter needs user input.
DecideDeny(c) ==
  /\ At(c, "consult")
  /\ \/ /\ canon.status[call[c].op] = "pending"
        /\ Save([canon EXCEPT !.status[call[c].op] = "rejected"])
     \/ UNCHANGED canon
  /\ Fail(c)
  /\ UNCHANGED <<store, coord, active, host>>

\* commit_l3_operation: the caller names an artifact on record itself.
CommitArtifact(c, x) ==
  /\ At(c, "decide")
  /\ canon.art[x] # "none"
  /\ ToCommit(c, x)
  /\ UNCHANGED <<canon, store, coord, active, host>>

\* authorizeL3Operation up to the first receipt lookup.  An approved artifact
\* of the same authorization is returned as it is.
ApprovedArtifacts(o, a) ==
  {x \in ArtifactId : AuthOf(x) = a /\ AuthOp[a] = o /\ canon.art[x] = "approved"
                        /\ HasReceipt(store, x)}

Authorize(c) ==
  LET found == ApprovedArtifacts(call[c].op, call[c].auth) IN
  /\ At(c, "authorize")
  /\ \/ /\ canon.status[call[c].op] # "pending"
        /\ Fail(c)
     \/ /\ canon.status[call[c].op] = "pending"
        /\ found = {}
        /\ Goto(c, "mint")
     \/ /\ canon.status[call[c].op] = "pending"
        /\ \E x \in found : ToCommit(c, x)
  /\ UNCHANGED <<canon, store, coord, active, host>>

\* getReceipt: reuse the artifact id of a receipt on record or mint one.
Mint(c) ==
  LET a == call[c].auth IN
  /\ At(c, "mint")
  /\ call' = [call EXCEPT ![c].pc = "consume",
                ![c].art = IF store[a].receipt = "none" THEN <<a, c>>
                           ELSE store[a].artifact]
  /\ UNCHANGED <<canon, store, coord, active, host>>

ConsumeAuthorization(c) ==
  LET a == call[c].auth  x == call[c].art IN
  /\ At(c, "consume")
  /\ IF CanConsume(store, a, call[c].op, x, a \in expired)
     THEN store' = Consume(store, a, x) /\ Goto(c, "reload")
     ELSE Fail(c) /\ UNCHANGED store
  /\ UNCHANGED <<canon, coord, active, host>>

\* The snapshot is loaded again; an artifact already recorded is returned,
\* whatever its status.  The status of the operation is not looked at again.
Reload(c) ==
  /\ At(c, "reload")
  /\ IF canon.art[call[c].art] # "none"
     THEN ToCommit(c, call[c].art)
     ELSE call' = [call EXCEPT ![c].pc = "record", ![c].snap = canon]
  /\ UNCHANGED <<canon, store, coord, active, host>>

RecordArtifact(c) ==
  LET snap == call[c].snap IN
  /\ At(c, "record")
  /\ IF HeadMatches(snap)
     THEN /\ Save([snap EXCEPT !.art[call[c].art] = "approved"])
          /\ \/ ToCommit(c, call[c].art)
             \/ Fail(c)   \* saved, but the read-model sync or the caller failed
     ELSE Fail(c) /\ UNCHANGED canon
  /\ UNCHANGED <<store, coord, active, host>>

-----------------------------------------------------------------------------
(* Committing (commitL3Operation).                                         *)

OwnerOf(c) == [pid |-> CallProcess[c], startedAt |-> started[CallProcess[c]],
               attempt |-> c]

Acquire(c) ==
  LET o == call[c].op
      token == NextToken(coord[o], OwnerOf(c))
  IN
  /\ At(c, "acquire")
  /\ IF /\ CanAcquire(coord[o], CallProcess[c], running, started)
        /\ token.generation <= MaxGeneration
     THEN /\ coord' = [coord EXCEPT ![o] = Acquired(token)]
          /\ call' = [call EXCEPT ![c].pc = "validate", ![c].token = token]
     ELSE Fail(c) /\ UNCHANGED coord
  /\ UNCHANGED <<canon, store, active, host>>

\* assertArtifact and the receipt verification, for an artifact on record.
\* An artifact of the wrong profile epoch is refused here, by the profile
\* the call was bound to.
ArtifactUsable(s, o, x, e) ==
  /\ s.art[x] = "approved"
  /\ AuthOp[AuthOf(x)] = o
  /\ AuthEpoch[AuthOf(x)] = e
  /\ HasReceipt(store, x)

\* Faulty variant: a committed operation is not replayed.
NeverReplayable(s, o, x) == FALSE

\* replay: a committed operation accepts the very artifact that committed it.
Replayable(s, o, x) ==
  s.status[o] = "committed" /\ s.artifact[o] = x /\ s.art[x] = "consumed"

\* Everything between the load and the first ownership check.  The live
\* gate description must still have the digest the operation was proposed at.
ValidatedPhase(c) ==
  LET o == call[c].op  x == call[c].art IN
  CASE Replayable(canon, o, x) -> "own3"
    [] canon.status[o] = "pending" /\ ArtifactUsable(canon, o, x, call[c].epoch)
         /\ AuthOf(x) \in expired -> "expire"
    [] canon.status[o] = "pending" /\ ArtifactUsable(canon, o, x, call[c].epoch)
         /\ AuthOf(x) \notin expired /\ canon.route = canon.digest[o] -> "own1"
    [] OTHER -> "release"

Validate(c) ==
  /\ At(c, "validate")
  /\ call' = [call EXCEPT ![c].pc = ValidatedPhase(c), ![c].epoch = None,
       ![c].snap = IF ValidatedPhase(c) \in {"expire", "own1"} THEN canon
                   ELSE NoSnapshot]
  /\ UNCHANGED <<canon, store, coord, active, host>>

\* An expired artifact is marked so, and the call throws.
SaveExpired(c) ==
  LET snap == call[c].snap IN
  /\ At(c, "expire")
  /\ IF HeadMatches(snap)
     THEN Save([snap EXCEPT !.art[call[c].art] = "expired"])
     ELSE UNCHANGED canon
  /\ FailOwned(c)
  /\ UNCHANGED <<store, coord, active, host>>

\* requireOwnership: renew, then assert; the lease may lapse in between.
RequireOwnership(c, here, there) ==
  LET o == call[c].op  t == call[c].token IN
  /\ At(c, here)
  /\ IF Owns(coord[o], t)
     THEN \E lease \in {"live", "lapsed"} :
            LET renewed == [Renewed(coord[o]) EXCEPT !.lease = lease] IN
            /\ lease = "lapsed" => t.generation \in Pausing
            /\ coord' = [coord EXCEPT ![o] = renewed]
            /\ IF AssertOwned(renewed, t) THEN Goto(c, there) ELSE FailOwned(c)
     ELSE FailOwned(c) /\ UNCHANGED coord
  /\ UNCHANGED <<canon, store, active, host>>

ClaimReceipt(c) ==
  /\ At(c, "claim")
  /\ IF CanClaim(store, call[c].art)
     THEN store' = Claim(store, call[c].art) /\ Goto(c, "own2")
     ELSE FailOwned(c) /\ UNCHANGED store
  /\ UNCHANGED <<canon, coord, active, host>>

\* Faulty variant: the operation stays pending.
CommittedStillPending(snap, o, x, r) ==
  [snap EXCEPT !.artifact[o] = x, !.art[x] = "consumed", !.commits[o] = @ + 1, !.route = r]

\* The route mutation was applied to the loaded snapshot; it is saved with
\* the operation committed and the artifact consumed, or not at all.
Committed(snap, o, x, r) ==
  [snap EXCEPT !.status[o] = "committed", !.artifact[o] = x,
               !.art[x] = "consumed", !.commits[o] = @ + 1, !.route = r]

SaveCommit(c) ==
  LET snap == call[c].snap IN
  /\ At(c, "save")
  /\ IF HeadMatches(snap)
     THEN /\ \E r \in Route : Save(Committed(snap, call[c].op, call[c].art, r))
          /\ \/ call' = [call EXCEPT ![c].pc = "own3", ![c].snap = NoSnapshot]
             \/ FailOwned(c)  \* saved, but the read-model sync failed
     ELSE FailOwned(c) /\ UNCHANGED canon
  /\ UNCHANGED <<store, coord, active, host>>

FinalizeReceipt(c) ==
  /\ At(c, "finalize")
  /\ store' = IF CanFinalize(store, call[c].art)
              THEN Finalize(store, call[c].art) ELSE store
  /\ Goto(c, "release")
  /\ UNCHANGED <<canon, coord, active, host>>

ReleaseOwnership(c) ==
  LET o == call[c].op IN
  /\ At(c, "release")
  /\ coord' = [coord EXCEPT ![o] = Released(@, call[c].token)]
  /\ call' = [call EXCEPT ![c] = IdleCall]
  /\ UNCHANGED <<canon, store, active, host>>

-----------------------------------------------------------------------------
(* The environment.                                                        *)

\* Any other write to the project that leaves L3 records alone.
OrdinaryWrite ==
  /\ canon.rev < MaxRevision
  /\ \E r \in Route \ {canon.route} : Save([canon EXCEPT !.route = r])
  /\ UNCHANGED <<store, coord, active, host, call>>

\* The host installs another profile.  The broker's own bind afterwards is
\* BrokerActivate; the installation is durable whether or not it succeeds.
InstallProfile ==
  /\ registry + 1 \in Epoch
  /\ registry' = registry + 1
  /\ UNCHANGED <<canon, store, coord, active, expired, running, started, call>>

BrokerActivate ==
  /\ ~RotationBlocked(store, registry)
  /\ store' = ActivatePolicy(store, registry)
  /\ active' = registry
  /\ UNCHANGED <<canon, coord, host, call>>

ExpireAuthorization(a) ==
  /\ store[a].status # "none"
  /\ a \notin expired
  /\ expired' = expired \cup {a}
  /\ UNCHANGED <<canon, store, coord, active, registry, running, started, call>>

LapseLease(o) ==
  /\ coord[o].status = "owned"
  /\ coord[o].lease = "live"
  /\ coord' = [coord EXCEPT ![o].lease = "lapsed"]
  /\ UNCHANGED <<canon, store, active, host, call>>

\* A process dies with every call in it.
Exit(p) ==
  /\ running[p]
  /\ \A q \in Process : started[q] < MaxStart
  /\ running' = [running EXCEPT ![p] = FALSE]
  /\ call' = [c \in Call |-> IF CallProcess[c] = p THEN IdleCall ELSE call[c]]
  /\ UNCHANGED <<canon, store, coord, active, registry, expired, started>>

\* A server is started again and gets the same process id.
Boot(p) ==
  /\ ~running[p]
  /\ running' = [running EXCEPT ![p] = TRUE]
  /\ \E t \in 2..MaxStart :
       /\ \A q \in Process : started[q] < t
       /\ started' = [started EXCEPT ![p] = t]
  /\ UNCHANGED <<canon, store, coord, active, registry, expired, call>>

-----------------------------------------------------------------------------
AuthorizeSteps(c) ==
  \/ Activate(c)
  \/ DecideReplay(c) \/ DecideRejected(c) \/ DecidePending(c) \/ DecideDeny(c)
  \/ \E a \in Auth : DecideAllow(c, a)
  \/ \E x \in ArtifactId : CommitArtifact(c, x)
  \/ Authorize(c) \/ Mint(c) \/ ConsumeAuthorization(c)
  \/ Reload(c) \/ RecordArtifact(c)

CommitSteps(c) ==
  \/ Acquire(c) \/ Validate(c) \/ SaveExpired(c)
  \/ RequireOwnership(c, "own1", "claim") \/ ClaimReceipt(c)
  \/ RequireOwnership(c, "own2", "save") \/ SaveCommit(c)
  \/ RequireOwnership(c, "own3", "finalize") \/ FinalizeReceipt(c)
  \/ ReleaseOwnership(c)

Proceed(c) == AuthorizeSteps(c) \/ CommitSteps(c)

Environment ==
  \/ OrdinaryWrite \/ InstallProfile \/ BrokerActivate
  \/ \E a \in Auth : ExpireAuthorization(a)
  \/ \E o \in Op : LapseLease(o)
  \/ \E p \in Process : Exit(p) \/ Boot(p)

Next ==
  \/ \E c \in Call : Proceed(c) \/ \E o \in Op : StartCall(c, o)
  \/ Environment

Spec == Init /\ [][Next]_vars

\* Fairness.  A handler runs on once its call has started; a caller retries
\* and, as long as it does, sometimes executes the proposal; a lease that is
\* not renewed lapses; a server that died is started again.  Nothing makes
\* the host install a profile, write to the project, or kill a process.
Fairness ==
  /\ \A c \in Call :
       /\ WF_vars(Proceed(c))
       /\ \A o \in Op : SF_vars(StartCall(c, o))
       /\ SF_vars(DecideReplay(c))
  /\ \A o \in Op : WF_vars(LapseLease(o))
  /\ \A p \in Process : WF_vars(Boot(p))

LiveSpec == Spec /\ Fairness

-----------------------------------------------------------------------------
(* Properties.                                                             *)

CallState ==
  [pc    : Phases,
   op    : Op \cup {None},
   epoch : Epoch \cup {None},
   auth  : Auth \cup {None},
   art   : ArtifactId \cup {NoArtifact},
   token : Token \cup {NoToken},
   snap  : Canonical \cup {NoSnapshot}]

\* Every variable has the shape the persisted schemas give it.
TypeOK ==
  /\ canon \in Canonical
  /\ store \in StoreState
  /\ coord \in [Op -> CoordinationRecord]
  /\ active \in Epoch
  /\ registry \in Epoch
  /\ expired \subseteq Auth
  /\ running \in [Process -> BOOLEAN]
  /\ started \in [Process -> Nat]
  /\ call \in [Call -> CallState]

\* What a call carries in each phase, and what a committed operation names.
\* (Part of the inductive invariant; it makes every action well defined.)
Deciding == {"authorize", "mint", "consume", "reload", "record"}
Bound == Deciding \cup {"activate", "decide", "consult", "acquire", "validate"}
HasArtifact == Owned \cup {"consume", "reload", "record", "acquire"}
HasSnapshot == {"record", "expire", "own1", "claim", "own2", "save"}

WellShaped(k) ==
  /\ k.pc # "idle"        => k.op \in Op
  /\ k.pc \in Bound       => k.epoch \in Epoch
  /\ k.pc \in Deciding    => k.auth \in Auth
  /\ k.pc \in HasArtifact => k.art \in ArtifactId
  /\ k.pc \in {"consume", "reload", "record"} => AuthOf(k.art) = k.auth
  /\ k.pc \in Owned       => k.token \in Token
  /\ k.pc \in HasSnapshot => k.snap \in Canonical

CallShape == \A c \in Call : WellShaped(call[c])

CommitNamed ==
  \A o \in Op : canon.status[o] = "committed" => canon.artifact[o] \in ArtifactId

\* Head revisions identify saved aggregates: a snapshot whose revision is
\* still the head is the aggregate on disk.
SnapshotFresh ==
  \A c \in Call : call[c].pc \in HasSnapshot =>
    /\ call[c].snap.rev <= canon.rev
    /\ call[c].snap.rev = canon.rev => call[c].snap = canon

\* A call that owns a commit runs in a live process, and the record on disk
\* carries its token.
OwnersOnRecord ==
  \A c \in Call :
    /\ ~running[CallProcess[c]] => call[c].pc = "idle"
    /\ call[c].pc \in Owned =>
         /\ call[c].token.owner = OwnerOf(c)
         /\ Owns(coord[call[c].op], call[c].token)

\* Two calls are never both between acquiring and releasing the ownership of
\* the same operation: not after a lease lapsed, not after a process died
\* and its process id was given to another (commitL3Operation, acquire).
MutualExclusion ==
  \A c, d \in Call :
    c # d /\ call[c].pc \in Owned /\ call[d].pc \in Owned
      => call[c].op # call[d].op

\* The mutation of an operation is applied and put on record at most once,
\* and exactly once if the operation is committed (commitOwned).
AppliedOnce ==
  \A o \in Op :
    canon.commits[o] = IF canon.status[o] = "committed" THEN 1 ELSE 0

\* A committed operation names one consumed artifact whose authorization was
\* decided for this very operation, consumed into this very artifact, and
\* claimed by the claim of this artifact; and a receipt is final only if its
\* operation is committed with it (claimCommit before save before
\* finalizeCommit).
ReceiptBacksCommit ==
  /\ \A o \in Op : canon.status[o] = "committed" =>
       LET x == canon.artifact[o] IN
       /\ x \in ArtifactId
       /\ AuthOp[AuthOf(x)] = o
       /\ canon.art[x] = "consumed"
       /\ store[AuthOf(x)].artifact = x
       /\ store[AuthOf(x)].receipt \in {"commit_claimed", "committed"}
       /\ store[AuthOf(x)].claim = ClaimId(x)
  /\ \A a \in Auth : store[a].receipt = "committed" =>
       /\ canon.status[AuthOp[a]] = "committed"
       /\ canon.artifact[AuthOp[a]] = store[a].artifact

\* An operation is committed only onto the live route state it was proposed
\* and approved at: nothing slips in between the digest comparison and the
\* save (assertArtifact, liveMatches, expected head revision).
CommitsApprovedRoute ==
  [][\A o \in Op : canon.status[o] = "pending" /\ canon'.status[o] = "committed"
       => canon.route = canon.digest[o]]_vars

\* A decision is final: no concurrent save takes a committed or rejected
\* operation back, and no consumed or expired artifact is approved again.
DecisionsAreFinal ==
  [][/\ \A o \in Op : canon.status[o] # "pending" =>
          /\ canon'.status[o] = canon.status[o]
          /\ canon'.artifact[o] = canon.artifact[o]
     /\ \A x \in ArtifactId : canon.art[x] \in {"consumed", "expired"}
          => canon'.art[x] = canon.art[x]]_vars

\* The generation fences owners: it never decreases, and another owner
\* always comes with a higher one (release keeps the last generation).
GenerationFences ==
  [][\A o \in Op :
       /\ coord'[o].generation >= coord[o].generation
       /\ coord'[o].owner # coord[o].owner
            => coord'[o].generation > coord[o].generation]_vars

\* The protocol implements the abstract decision.
DecisionOf(o) == canon.status[o]
CommittingAuth(o) == IF canon.status[o] = "committed"
                     THEN AuthOf(canon.artifact[o]) ELSE None
AuthorityOf(a) ==
  IF store[a].receipt = "committed" THEN "settled"
  ELSE IF store[a].receipt = "commit_claimed" THEN "reserved"
  ELSE IF "revoked" \in {store[a].status, store[a].receipt} THEN "revoked"
  ELSE "open"

Abstract == INSTANCE L3Decision WITH
  NoAuth <- None,
  decision <- [o \in Op |-> DecisionOf(o)],
  committedBy <- [o \in Op |-> CommittingAuth(o)],
  authority <- [a \in Auth |-> AuthorityOf(a)]

ImplementsDecision == Abstract!Spec

\* Attempts that may still fail: one per pause, and one per process death.
Disturbances == Cardinality(Pausing) + Cardinality(Process) * (MaxStart - 1)

\* After a crash, a pause or a failure between the canonical save and the
\* finalization, exact retries finalize the receipt: as soon as one of them is
\* not disturbed itself, unless the generations run out before.
SavedCommitIsSettled ==
  \A o \in Op :
    canon.status[o] = "committed" /\ coord[o].generation + Disturbances < MaxGeneration
      ~> \E a \in Auth : AuthOp[a] = o /\ store[a].receipt = "committed"

\* A claimed receipt can always still be completed: its artifact stays usable
\* until the commit is saved.  The documents say so; the code does not keep it.
ClaimKeepsArtifact ==
  \A a \in Auth : store[a].receipt = "commit_claimed"
    => canon.art[store[a].artifact] \in {"approved", "consumed"}

\* Rotating the profile invalidates the uncommitted authority of the old
\* one: no operation is committed by the authority of a profile other than
\* the active one.  The documents say so; the code does not keep it.
CommitsUnderActiveProfile ==
  [][\A o \in Op : canon.status[o] = "pending" /\ canon'.status[o] = "committed"
       => LET a == AuthOf(canon'.artifact[o]) IN
          a \in Interactive \/ AuthEpoch[a] = active]_vars
=============================================================================
