--------------------------- MODULE CanonicalReplace ---------------------------
(***************************************************************************)
(* Canonical JSON storage: loads and saves of the project aggregate, and   *)
(* the replacement of the canonical entries they go through                *)
(* (JsonFirstStorage over packages/json/src/filesystem.ts).                *)
(*                                                                         *)
(* A client loads the aggregate, which recovers a replacement that was     *)
(* interrupted, and then saves one of its own: under the write lock it     *)
(* reads the canonical entries again, compares them with what it loaded,   *)
(* stages the new entries next to the old, moves the old ones to a backup, *)
(* the new ones into place, and removes the replacement directory.  The    *)
(* manifest in that directory says how far it got.  Other clients create a *)
(* project: they save without having loaded one.                           *)
(*                                                                         *)
(* Granularity: one action per top-level entry read, removed, copied or    *)
(* renamed, and per manifest written; the removal of the directory takes   *)
(* its parts away in any order.  A lock directory is created together with *)
(* its metadata, and a lock that is not renewed is taken over only when    *)
(* its owner is dead: staleAfterMs is taken to be longer than a living     *)
(* owner goes without a renewal.  A project exists from the start, and     *)
(* there is no read model to fall back to.                                 *)
(***************************************************************************)
EXTENDS Naturals

CONSTANTS Client,
          Entries,    \* how many top-level entries there are, in the order of
                      \* ROUTELEDGER_CANONICAL_TOP_LEVEL_ENTRIES
          Seed,       \* the aggregate that is there at the start
          Lacking,    \* pairs of an aggregate and an entry it does not have
          MaxFaults,  \* bound: how many crashes and failed renames
          Beyond,     \* bound: whether to follow a behaviour beyond its first
                      \* overrun
          Absent, NoOwner

Entry == 1..Entries
Aggregate == Client \cup {Seed}

\* The first entry is project.json, the one whose presence means a project.
Project == 1

ASSUME ReplaceAssumption ==
  /\ Entries \in Nat \ {0}
  /\ Lacking \subseteq Aggregate \X (Entry \ {Project})
  /\ MaxFaults \in Nat /\ Beyond \in BOOLEAN
  /\ Seed \notin Client /\ Absent \notin Aggregate /\ NoOwner \notin Client

VARIABLES
  canonical,  \* the entries at the canonical root
  backup,     \* the entries in the backup directory of the replacement
  next,       \* the entries staged in the replacement
  manifest,   \* state of the replacement's manifest
  owner,      \* whose the write lock is
  faults,     \* how many crashes and failed renames there were
  pc,         \* where each client is
  purpose,    \* what the client's recovery or removal is a part of
  at,         \* the entry a client is at
  plan,       \* the entries a recovery is to restore
  view,       \* the entries a client has read
  head,       \* headRevision: the aggregate a client's load returned, Empty
              \* for the null of a client that creates a project
  outcome,    \* what became of the client's save
  mixed,      \* history: the clients whose load reads entries that changed
              \* since it began to read
  overrun     \* history: whether two clients were at work on the replacement
              \* at once, or a crash left half of a complete backup

files == <<canonical, backup, next, manifest>>
local == <<purpose, at, plan, view, head>>
vars == <<files, owner, faults, pc, local, outcome, mixed, overrun>>

Contents == [Entry -> Aggregate \cup {Absent}]
Empty == [e \in Entry |-> Absent]

\* The entries of a whole aggregate: client c writes the aggregate named c.
Whole(a) == [e \in Entry |-> IF <<a, e>> \in Lacking THEN Absent ELSE a]

\* What validating a document set may find.  A whole aggregate is valid, one
\* without project.json is not; a mixture may or may not be consistent.
Validity(c) ==
  IF c[Project] = Absent THEN {FALSE}
  ELSE IF \E a \in Aggregate : c = Whole(a) THEN {TRUE} ELSE BOOLEAN

Manifests == {"none", "staged", "backup_created", "applied"}
Recovering == {"remove", "copy", "clear"}
Reading == {"access", "assert", "examine", "read", "check"} \cup Recovering
Replacing == {"stage_manifest", "stage", "backup", "backup_manifest", "apply",
              "apply_manifest"}
Saving == Replacing \cup {"release"}
Over == {"done", "dead"}
Phases == {"idle", "loaded"} \cup Reading \cup Saving \cup Over

At(c, phase) == pc[c] = phase
Goto(c, phase) == pc' = [pc EXCEPT ![c] = phase]
Ends(c, what) == outcome' = [outcome EXCEPT ![c] = what]

Init ==
  /\ canonical = Whole(Seed) /\ backup = Empty /\ next = Empty
  /\ manifest = "none" /\ owner = NoOwner /\ faults = 0
  /\ pc = [c \in Client |-> "idle"]
  /\ purpose = [c \in Client |-> "load"]
  /\ at = [c \in Client |-> 1]
  /\ plan = [c \in Client |-> {}]
  /\ view = [c \in Client |-> Empty]
  /\ head = [c \in Client |-> Whole(Seed)]
  /\ outcome = [c \in Client |-> "none"]
  /\ mixed = {} /\ overrun = FALSE

\* Faulty variant: the loop runs one entry too far.
StepPast(c, after) ==
  IF at[c] <= Entries
  THEN at' = [at EXCEPT ![c] = @ + 1] /\ UNCHANGED pc
  ELSE at' = [at EXCEPT ![c] = 1] /\ Goto(c, after)

\* One step of a loop over the entries: the next entry, or on to the phase after.
Step(c, after) ==
  IF at[c] < Entries
  THEN at' = [at EXCEPT ![c] = @ + 1] /\ UNCHANGED pc
  ELSE at' = [at EXCEPT ![c] = 1] /\ Goto(c, after)

-----------------------------------------------------------------------------
(* The write lock.                                                         *)

\* throwIfWriteInProgress, at the start of a load.
Look(c) ==
  /\ At(c, "idle") /\ owner = NoOwner
  /\ Goto(c, "access")
  /\ UNCHANGED <<files, owner, faults, local, outcome>>

\* initProject: a save that expects no project, without a load before it.
InitProject(c) ==
  /\ At(c, "idle")
  /\ head' = [head EXCEPT ![c] = Empty]
  /\ Goto(c, "loaded")
  /\ UNCHANGED <<files, owner, faults, purpose, at, plan, view, outcome>>

\* saveProjectAggregate acquires the lock.  While it is taken the attempt
\* returns WRITE_IN_PROGRESS, which the caller may make again.
Acquire(c) ==
  /\ At(c, "loaded") /\ owner = NoOwner
  /\ owner' = c
  /\ purpose' = [purpose EXCEPT ![c] = "source"]
  /\ Goto(c, "access")
  /\ UNCHANGED <<files, faults, at, plan, view, head, outcome>>

\* A stale lock is removed by whoever finds it.
Reap(c) ==
  /\ pc[c] \in {"idle", "assert", "loaded"}
  /\ owner \in Client /\ pc[owner] = "dead"
  /\ owner' = NoOwner
  /\ UNCHANGED <<files, faults, pc, local, outcome>>

\* release, in the finally block of a save.
Release(c) ==
  /\ At(c, "release")
  /\ owner' = IF owner = c THEN NoOwner ELSE owner
  /\ Goto(c, "done")
  /\ UNCHANGED <<files, faults, local, outcome>>

-----------------------------------------------------------------------------
(* loadJsonSourceIfPresent: without project.json there is no project, and  *)
(* nothing is recovered.                                                   *)

\* Where a load, or the read under the lock, goes when it cannot succeed.
GiveUp(c, why) ==
  /\ Ends(c, why)
  /\ Goto(c, IF purpose[c] = "load" THEN "done" ELSE "release")

\* assertExpectedHeadRevision, on what the read under the lock found; the
\* replacement begins with a recovery.
AssertHead(c, found) ==
  IF found # head[c] THEN GiveUp(c, "stale") /\ UNCHANGED purpose
  ELSE /\ purpose' = [purpose EXCEPT ![c] = "apply"]
       /\ Goto(c, "assert") /\ UNCHANGED outcome

Access(c) ==
  /\ At(c, "access")
  /\ \/ /\ canonical[Project] # Absent
        /\ Goto(c, "assert") /\ UNCHANGED <<purpose, outcome>>
     \/ /\ canonical[Project] = Absent /\ purpose[c] = "load"
        /\ GiveUp(c, "absent") /\ UNCHANGED purpose
     \/ /\ canonical[Project] = Absent /\ purpose[c] = "source"
        /\ AssertHead(c, Empty)
  /\ UNCHANGED <<files, owner, faults, at, plan, view, head>>

-----------------------------------------------------------------------------
(* recoverRouteLedgerJsonReplacement.                                      *)

\* assertNoActiveRouteLedgerWriteLock: none but one's own.  Otherwise
\* WRITE_IN_PROGRESS, and the call may be made again.
AssertNoLock(c) ==
  /\ At(c, "assert") /\ owner \in {NoOwner, c}
  /\ Goto(c, "examine")
  /\ UNCHANGED <<files, owner, faults, local, outcome>>

Backed == {e \in Entry : backup[e] # Absent}
NothingLeft == manifest = "none" /\ backup = Empty /\ next = Empty

\* Faulty variant: only the entries the backup has are restored.
RestorableBacked(valid) ==
  IF manifest = "staged" \/ manifest = "backup_created" \/ ~valid THEN Backed ELSE {}

\* The entries to restore: all of them, also those the old aggregate lacked,
\* once the backup is known to be complete.
Restorable(valid) ==
  IF manifest = "backup_created" THEN Entry
  ELSE IF manifest = "staged" \/ ~valid THEN Backed ELSE {}

\* What comes after the recovery, or after the removal of the directory.
Onward(c) == IF purpose[c] = "apply" THEN "stage_manifest"
             ELSE IF purpose[c] = "save" THEN "release" ELSE "read"

Examine(c) ==
  /\ At(c, "examine")
  /\ \E valid \in Validity(canonical) :
       /\ plan' = [plan EXCEPT ![c] = Restorable(valid)]
       /\ Goto(c, IF NothingLeft THEN Onward(c)
                  ELSE IF Restorable(valid) # {} THEN "remove" ELSE "clear")
  /\ UNCHANGED <<files, owner, faults, purpose, at, view, head, outcome>>

\* removeSelectedCanonicalEntriesFromJsonRoot.
Remove(c) ==
  LET e == at[c] IN
  /\ At(c, "remove")
  /\ canonical' = [canonical EXCEPT ![e] = IF e \in plan[c] THEN Absent ELSE @]
  /\ Step(c, "copy")
  /\ UNCHANGED <<backup, next, manifest, owner, faults, purpose, plan, view, head, outcome>>

\* The copies: an entry the backup does not have is passed over.
Copy(c) ==
  LET e == at[c] IN
  /\ At(c, "copy")
  /\ canonical' = [canonical EXCEPT ![e] =
                     IF e \in plan[c] /\ backup[e] # Absent THEN backup[e] ELSE @]
  /\ Step(c, "clear")
  /\ UNCHANGED <<backup, next, manifest, owner, faults, purpose, plan, view, head, outcome>>

\* clearReplacementDirectory: its parts go in any order.
Clear(c) ==
  /\ At(c, "clear") /\ ~NothingLeft
  /\ \/ manifest # "none" /\ manifest' = "none" /\ UNCHANGED <<backup, next>>
     \/ next # Empty /\ next' = Empty /\ UNCHANGED <<backup, manifest>>
     \/ \E e \in Backed : backup' = [backup EXCEPT ![e] = Absent] /\ UNCHANGED <<next, manifest>>
  /\ UNCHANGED <<canonical, owner, faults, pc, local, outcome>>

Cleared(c) ==
  /\ At(c, "clear") /\ NothingLeft
  /\ Goto(c, Onward(c))
  /\ UNCHANGED <<files, owner, faults, local, outcome>>

-----------------------------------------------------------------------------
(* Reading the documents, and what is made of them.                        *)

Read(c) ==
  LET e == at[c] IN
  /\ At(c, "read")
  /\ view' = [view EXCEPT ![c][e] = canonical[e]]
  /\ Step(c, "check")
  /\ UNCHANGED <<files, owner, faults, purpose, plan, head, outcome>>

\* The load returns the snapshot, with its head revision.
Loaded(c) ==
  /\ At(c, "check") /\ purpose[c] = "load"
  /\ \E valid \in Validity(view[c]) :
       IF valid THEN /\ head' = [head EXCEPT ![c] = view[c]]
                     /\ Goto(c, "loaded") /\ UNCHANGED outcome
       ELSE GiveUp(c, "invalid") /\ UNCHANGED head
  /\ UNCHANGED <<files, owner, faults, purpose, at, plan, view>>

\* Faulty variant: what is there now is not compared with what was loaded.
CheckHeadNever(c) ==
  /\ At(c, "check") /\ purpose[c] = "source"
  /\ purpose' = [purpose EXCEPT ![c] = "apply"]
  /\ Goto(c, "assert")
  /\ UNCHANGED <<files, owner, faults, at, plan, view, head, outcome>>

CheckHead(c) ==
  /\ At(c, "check") /\ purpose[c] = "source"
  /\ \E valid \in Validity(view[c]) :
       IF valid THEN AssertHead(c, view[c]) ELSE GiveUp(c, "invalid") /\ UNCHANGED purpose
  /\ UNCHANGED <<files, owner, faults, at, plan, view, head>>

-----------------------------------------------------------------------------
(* applyRouteLedgerJsonReplacement, after its recovery.                    *)

\* Clear whatever there is, and write the first manifest.
StageManifest(c) ==
  /\ At(c, "stage_manifest")
  /\ backup' = Empty /\ next' = Empty /\ manifest' = "staged"
  /\ Goto(c, "stage")
  /\ UNCHANGED <<canonical, owner, faults, local, outcome>>

Stage(c) ==
  /\ At(c, "stage")
  /\ next' = Whole(c)
  /\ Goto(c, "backup")
  /\ UNCHANGED <<canonical, backup, manifest, owner, faults, local, outcome>>

MoveToBackup(c) ==
  LET e == at[c] IN
  /\ At(c, "backup")
  /\ IF canonical[e] = Absent THEN UNCHANGED <<canonical, backup>>
     ELSE /\ backup' = [backup EXCEPT ![e] = canonical[e]]
          /\ canonical' = [canonical EXCEPT ![e] = Absent]
  /\ Step(c, "backup_manifest")
  /\ UNCHANGED <<next, manifest, owner, faults, purpose, plan, view, head, outcome>>

BackupCreated(c) ==
  /\ At(c, "backup_manifest")
  /\ manifest' = "backup_created"
  /\ Goto(c, "apply")
  /\ UNCHANGED <<canonical, backup, next, owner, faults, local, outcome>>

\* An entry that is not in the directory is passed over.
MoveIntoPlace(c) ==
  LET e == at[c] IN
  /\ At(c, "apply")
  /\ IF next[e] = Absent THEN UNCHANGED <<canonical, next>>
     ELSE /\ canonical' = [canonical EXCEPT ![e] = next[e]]
          /\ next' = [next EXCEPT ![e] = Absent]
  /\ Step(c, "apply_manifest")
  /\ UNCHANGED <<backup, manifest, owner, faults, purpose, plan, view, head, outcome>>

\* From here on a recovery keeps the new entries.
Applied(c) ==
  /\ At(c, "apply_manifest")
  /\ manifest' = "applied"
  /\ Ends(c, "landed")
  /\ purpose' = [purpose EXCEPT ![c] = "save"]
  /\ Goto(c, "clear")
  /\ UNCHANGED <<canonical, backup, next, owner, faults, at, plan, view, head>>

-----------------------------------------------------------------------------
(* Faults.                                                                 *)

\* A rename keeps failing: the save throws, and releases the lock.
RenameFails(c) ==
  /\ pc[c] \in {"backup", "apply"} /\ faults < MaxFaults
  /\ faults' = faults + 1
  /\ Ends(c, "failed") /\ Goto(c, "release")
  /\ UNCHANGED <<files, owner, local>>

\* The process dies.
Crash(c) ==
  /\ pc[c] \notin Over \cup {"idle", "loaded"} /\ faults < MaxFaults
  /\ faults' = faults + 1
  /\ Goto(c, "dead")
  /\ UNCHANGED <<files, owner, local, outcome>>

ClientStep(c) ==
  \/ Look(c) \/ InitProject(c) \/ Acquire(c) \/ Reap(c) \/ Release(c)
  \/ Access(c) \/ AssertNoLock(c) \/ Examine(c)
  \/ Remove(c) \/ Copy(c) \/ Clear(c) \/ Cleared(c)
  \/ Read(c) \/ Loaded(c) \/ CheckHead(c)
  \/ StageManifest(c) \/ Stage(c) \/ MoveToBackup(c) \/ BackupCreated(c)
  \/ MoveIntoPlace(c) \/ Applied(c)
  \/ RenameFails(c) \/ Crash(c)

-----------------------------------------------------------------------------
(* History: what goes wrong between clients that do not wait for one       *)
(* another.  A load holds no lock.                                         *)

\* A load reads the entries.
Fetches(c) == purpose[c] = "load" /\ pc[c] \in {"read", "check"}

\* A client that may change the files.
Working(c) == pc[c] \in Recovering \cup Replacing
Alone == \A c, d \in Client : Working(c) /\ Working(d) => c = d

\* A crash interrupts the removal that ends a restoration, with entries of the
\* backup gone and the manifest still there.
Tears(c) == Crash(c) /\ At(c, "clear") /\ manifest = "backup_created" /\ backup # canonical

Record ==
  /\ mixed' = {c \in Client : Fetches(c)' /\ (c \in mixed \/ canonical' # canonical)}
  /\ overrun' = (overrun \/ ~Alone' \/ \E c \in Client : Tears(c))

Next ==
  /\ Beyond \/ ~overrun
  /\ \E c \in Client : ClientStep(c)
  /\ Record

Spec == Init /\ [][Next]_vars

-----------------------------------------------------------------------------
TypeOK ==
  /\ canonical \in Contents /\ backup \in Contents /\ next \in Contents
  /\ manifest \in Manifests /\ owner \in Client \cup {NoOwner}
  /\ faults \in 0..MaxFaults
  /\ pc \in [Client -> Phases]
  /\ purpose \in [Client -> {"load", "source", "apply", "save"}]
  /\ at \in [Client -> 1..Entries]
  /\ plan \in [Client -> SUBSET Entry]
  /\ view \in [Client -> Contents] /\ head \in [Client -> Contents]
  /\ outcome \in [Client -> {"none", "landed", "absent", "invalid", "stale", "failed"}]
  /\ mixed \in SUBSET Client /\ overrun \in BOOLEAN

\* The entries a recovery that ran to its end now would leave.  A client that
\* removes the directory after a restoration has restored them already.
Recovered ==
  IF \E c \in Client : At(c, "clear") /\ manifest = "backup_created" THEN canonical
  ELSE IF manifest = "backup_created" THEN backup
  ELSE IF manifest = "staged"
    THEN [e \in Entry |-> IF backup[e] # Absent THEN backup[e] ELSE canonical[e]]
  ELSE canonical

\* Whatever step a save or a recovery was interrupted at, the canonical root
\* and the replacement directory together hold one whole aggregate, and the
\* recovery finds it (the order of moves and manifests in
\* applyRouteLedgerJsonReplacement against recoverRouteLedgerJsonReplacement),
\* until a recovery and a save, or two recoveries, are at work at once, or a
\* crash tears a complete backup apart.
AggregateKept == overrun \/ \E a \in Aggregate : Recovered = Whole(a)

\* When nothing has failed and nobody is at work, the canonical root is a whole
\* aggregate: saves and loads of living processes do not destroy it (the write
\* lock, and the look at it before a recovery).  The code does not keep this:
\* a load may begin a recovery in the midst of a save.
SettledIsWhole ==
  faults = 0 /\ (\A c \in Client : pc[c] \in {"idle", "loaded", "done"})
    => \E a \in Aggregate : canonical = Whole(a)

\* While a project exists no load reports that there is none (the check for
\* project.json in loadJsonSourceIfPresent, which comes before the recovery).
\* The code does not keep this.
PresentIsSeen == \A c \in Client : outcome[c] # "absent"

\* Some save failed half-way or died.
Interrupted ==
  \E c \in Client : purpose[c] # "load" /\ (pc[c] = "dead" \/ outcome[c] = "failed")

\* Saves and loads act on the aggregate as on one register: a save takes
\* effect at once, at the moment its manifest says "applied", only over the
\* aggregate its client loaded, and a load returns the whole of what the last
\* such save wrote, whichever steps crashes and failed renames interrupt.  Only
\* once a save was interrupted can a client that creates a project replace the
\* one there is (project.json may be in the backup when it is looked for).  A
\* load that reads while entries are moved may return anything, but a save on
\* top of that is refused.  Nothing is promised beyond an overrun.
Register == INSTANCE CanonicalRegister
              WITH Initial <- Whole(Seed), Nothing <- Empty, Written <- Whole,
                   value <- Recovered, interrupted <- Interrupted, void <- overrun
ImplementsRegister == Register!Spec
=============================================================================
