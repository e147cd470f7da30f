------------------------- MODULE CanonicalReplaceProofs -------------------------
(***************************************************************************)
(* Proofs about CanonicalReplace, for any number of clients, entries and   *)
(* faults.                                                                 *)
(***************************************************************************)
EXTENDS CanonicalReplace, TLAPS

-----------------------------------------------------------------------------
(* The inductive invariant, of everything up to an overrun.                *)

\* A save from acquiring the lock to releasing it.
Locked(c) == purpose[c] # "load" /\ pc[c] \in Reading \cup Saving

\* What a client is about in each phase, and where its loops stand.
Purposeful ==
  \A c \in Client :
    /\ pc[c] \in {"idle", "loaded"} => purpose[c] = "load"
    /\ pc[c] \in {"access", "read", "check"} => purpose[c] \in {"load", "source"}
    /\ pc[c] \in {"assert", "examine", "remove", "copy"} => purpose[c] \in {"load", "source", "apply"}
    /\ pc[c] \in Replacing => purpose[c] = "apply"
    /\ pc[c] = "release" => purpose[c] \in {"source", "apply", "save"}
    /\ pc[c] \notin Over \cup {"release", "remove", "copy", "read", "backup", "apply"} => at[c] = 1

\* The lock is its owner's, and at most one client changes the files.
Apart == Alone /\ \A c \in Client : Locked(c) => owner = c

Ordered == Purposeful /\ Apart

Merged == [e \in Entry |-> IF backup[e] # Absent THEN backup[e] ELSE canonical[e]]

\* A recovery restores every entry the backup has, and, when the backup is
\* known to be complete, removes all the others.
Restores(c) ==
  \/ manifest = "backup_created" /\ plan[c] = Entry
  \/ manifest = "staged" /\ plan[c] = Backed

\* How far the files are in each phase of a client that changes them, and that
\* nothing is left of a replacement while the owner of the lock reads.
FilesOf(c) ==
  /\ pc[c] = "remove" => /\ Restores(c)
                         /\ \A e \in plan[c] : e < at[c] => canonical[e] = Absent
  /\ pc[c] = "copy" => /\ Restores(c)
                       /\ \A e \in plan[c] : canonical[e] = IF e < at[c] THEN backup[e] ELSE Absent
  /\ pc[c] = "clear" => /\ \E a \in Aggregate : canonical = Whole(a)
                        /\ manifest = "staged" => \A e \in Backed : backup[e] = canonical[e]
  /\ pc[c] \in {"read", "check"} /\ purpose[c] = "source" => NothingLeft
  /\ pc[c] = "stage_manifest" => NothingLeft
  /\ pc[c] = "stage" => manifest = "staged" /\ backup = Empty
  /\ pc[c] = "backup" => /\ manifest = "staged" /\ next = Whole(c)
                         /\ \A e \in Entry : /\ e < at[c] => canonical[e] = Absent
                                             /\ e >= at[c] => backup[e] = Absent
  /\ pc[c] = "backup_manifest" => manifest = "staged" /\ canonical = Empty /\ next = Whole(c)
  /\ pc[c] = "apply" => /\ manifest = "backup_created"
                        /\ \A e \in Entry : IF e < at[c] THEN canonical[e] = Whole(c)[e]
                                             ELSE canonical[e] = Absent /\ next[e] = Whole(c)[e]
  /\ pc[c] = "apply_manifest" => manifest = "backup_created" /\ canonical = Whole(c)

KeptInv ==
  /\ TypeOK /\ Ordered
  /\ \E a \in Aggregate : Recovered = Whole(a)
  /\ \A c \in Client : FilesOf(c)

-----------------------------------------------------------------------------
(* Whole aggregates, and equality of contents.                             *)

\* The entries of an aggregate are contents, project.json is among them, and
\* contents without it are no aggregate.
LEMMA WholeContents ==
  ASSUME NEW a \in Aggregate
  PROVE  Whole(a) \in Contents /\ Whole(a)[Project] # Absent
BY ReplaceAssumption DEF ReplaceAssumption, Whole, Contents, Entry, Project, Aggregate

\* Contents are equal if they agree on every entry.
LEMMA SameContents ==
  ASSUME NEW f \in Contents, NEW g \in Contents, \A e \in Entry : f[e] = g[e]
  PROVE  f = g
BY DEF Contents

LEMMA EmptyContents == Empty \in Contents
BY DEF Empty, Contents

\* What is put in place of an entry leaves contents contents.
LEMMA SetEntry ==
  ASSUME NEW f \in Contents, NEW e \in Entry, NEW a \in Aggregate \cup {Absent}
  PROVE  [f EXCEPT ![e] = a] \in Contents
BY DEF Contents

\* The entries up to one are those before it, and itself.
LEMMA UpTo ==
  ASSUME NEW e \in Entry, NEW k \in Entry, e <= k
  PROVE  (e < k /\ e # k) \/ e = k
BY ReplaceAssumption DEF ReplaceAssumption, Entry

\* A step of a loop over the entries keeps the types.
LEMMA StepTypes ==
  ASSUME TypeOK, NEW c \in Client, NEW after \in Phases, Step(c, after)
  PROVE  at' \in [Client -> 1..Entries] /\ pc' \in [Client -> Phases] /\ at[c] \in Entry
BY ReplaceAssumption DEF ReplaceAssumption, TypeOK, Step, Goto, Entry

-----------------------------------------------------------------------------
(* Type correctness.                                                       *)

LEMMA InitTypes == Init => TypeOK
<1> SUFFICES ASSUME Init PROVE TypeOK
  OBVIOUS
<1>1. /\ canonical \in Contents /\ backup \in Contents /\ next \in Contents
      /\ manifest \in Manifests /\ owner \in Client \cup {NoOwner} /\ faults \in 0..MaxFaults
  BY WholeContents, EmptyContents, ReplaceAssumption DEF ReplaceAssumption, Init, Manifests, Aggregate
<1>2. /\ pc \in [Client -> Phases]
      /\ purpose \in [Client -> {"load", "source", "apply", "save"}]
      /\ at \in [Client -> 1..Entries]
      /\ plan \in [Client -> SUBSET Entry]
  BY ReplaceAssumption DEF ReplaceAssumption, Init, Phases
<1>3. /\ view \in [Client -> Contents] /\ head \in [Client -> Contents]
      /\ outcome \in [Client -> {"none", "landed", "absent", "invalid", "stale", "failed"}]
      /\ mixed \in SUBSET Client /\ overrun \in BOOLEAN
  BY WholeContents, EmptyContents DEF Init, Aggregate
<1> QED BY <1>1, <1>2, <1>3 DEF TypeOK

\* Every variable keeps its type, whoever races and whatever a crash
\* interrupts.
THEOREM TypeCorrect == Spec => []TypeOK
<1>1. Init => TypeOK
  BY InitTypes
<1>2. TypeOK /\ [Next]_vars => TypeOK'
  <2> SUFFICES ASSUME TypeOK, [Next]_vars PROVE TypeOK'
    OBVIOUS
  <2>0. mixed' \in SUBSET Client /\ overrun' \in BOOLEAN
    BY DEF TypeOK, Next, Record, vars
  <2> USE <2>0, ReplaceAssumption DEF ReplaceAssumption, TypeOK, Goto, Ends, GiveUp, AssertHead, Phases, Reading,
        Recovering, Replacing, Saving, Over, At, files, local, Manifests
  <2>1. CASE UNCHANGED vars
    BY <2>1 DEF vars
  <2>2. ASSUME NEW c \in Client, Look(c) PROVE TypeOK'
    BY <2>2 DEF Look
  <2>3. ASSUME NEW c \in Client, Acquire(c) PROVE TypeOK'
    BY <2>3 DEF Acquire
  <2>24. ASSUME NEW c \in Client, InitProject(c) PROVE TypeOK'
    BY <2>24, EmptyContents DEF InitProject
  <2>4. ASSUME NEW c \in Client, Reap(c) PROVE TypeOK'
    BY <2>4 DEF Reap
  <2>5. ASSUME NEW c \in Client, Release(c) PROVE TypeOK'
    BY <2>5 DEF Release
  <2>6. ASSUME NEW c \in Client, Access(c) PROVE TypeOK'
    BY <2>6 DEF Access
  <2>7. ASSUME NEW c \in Client, AssertNoLock(c) PROVE TypeOK'
    BY <2>7 DEF AssertNoLock
  <2>8. ASSUME NEW c \in Client, Examine(c) PROVE TypeOK'
    <3>1. \A valid : Restorable(valid) \in SUBSET Entry
      BY DEF Restorable, Backed
    <3> QED BY <2>8, <3>1 DEF Examine, Onward
  <2>9. ASSUME NEW c \in Client, Remove(c) PROVE TypeOK'
    BY <2>9, StepTypes, SetEntry DEF Remove, Contents
  <2>10. ASSUME NEW c \in Client, Copy(c) PROVE TypeOK'
    BY <2>10, StepTypes, SetEntry DEF Copy, Contents
  <2>11. ASSUME NEW c \in Client, Clear(c) PROVE TypeOK'
    BY <2>11, EmptyContents DEF Clear, Contents, Backed
  <2>12. ASSUME NEW c \in Client, Cleared(c) PROVE TypeOK'
    BY <2>12 DEF Cleared, Onward
  <2>13. ASSUME NEW c \in Client, Read(c) PROVE TypeOK'
    BY <2>13, StepTypes, SetEntry DEF Read, Contents
  <2>14. ASSUME NEW c \in Client, Loaded(c) PROVE TypeOK'
    BY <2>14 DEF Loaded
  <2>15. ASSUME NEW c \in Client, CheckHead(c) PROVE TypeOK'
    BY <2>15 DEF CheckHead
  <2>16. ASSUME NEW c \in Client, StageManifest(c) PROVE TypeOK'
    BY <2>16, EmptyContents DEF StageManifest
  <2>17. ASSUME NEW c \in Client, Stage(c) PROVE TypeOK'
    BY <2>17, WholeContents DEF Stage, Aggregate
  <2>18. ASSUME NEW c \in Client, MoveToBackup(c) PROVE TypeOK'
    BY ZenonT(60), <2>18, StepTypes, SetEntry DEF MoveToBackup, Contents
  <2>19. ASSUME NEW c \in Client, BackupCreated(c) PROVE TypeOK'
    BY <2>19 DEF BackupCreated
  <2>20. ASSUME NEW c \in Client, MoveIntoPlace(c) PROVE TypeOK'
    BY ZenonT(60), <2>20, StepTypes, SetEntry DEF MoveIntoPlace, Contents
  <2>21. ASSUME NEW c \in Client, Applied(c) PROVE TypeOK'
    BY <2>21 DEF Applied
  <2>22. ASSUME NEW c \in Client, RenameFails(c) PROVE TypeOK'
    BY <2>22 DEF RenameFails
  <2>23. ASSUME NEW c \in Client, Crash(c) PROVE TypeOK'
    BY <2>23 DEF Crash
  <2> QED
    BY <2>1, <2>2, <2>3, <2>4, <2>5, <2>6, <2>7, <2>8, <2>9, <2>10, <2>11, <2>12, <2>13, <2>14,
       <2>15, <2>16, <2>17, <2>18, <2>19, <2>20, <2>21, <2>22, <2>23, <2>24 DEF Next, ClientStep
<1> QED
  BY <1>1, <1>2, PTL DEF Spec
-----------------------------------------------------------------------------
(* At most one client changes the files.                                   *)

LEMMA OrderedStep ==
  ASSUME TypeOK, Ordered, Alone', NEW c \in Client, ClientStep(c)
  PROVE  Ordered'
<1> USE DEF TypeOK, Ordered, Purposeful, Apart, Locked, Replacing, Goto, Ends, GiveUp, AssertHead,
        Phases, Reading, Recovering, Saving, Over, At, files, local
<1>2. CASE Look(c)
  BY <1>2, ReplaceAssumption DEF ReplaceAssumption, Look
<1>3. CASE Acquire(c)
  BY <1>3, ReplaceAssumption DEF ReplaceAssumption, Acquire
<1>24. CASE InitProject(c)
  BY <1>24 DEF InitProject
<1>4. CASE Reap(c)
  BY <1>4 DEF Reap
<1>5. CASE Release(c)
  BY <1>5 DEF Release
<1>6. CASE Access(c)
  BY <1>6 DEF Access
<1>7. CASE AssertNoLock(c)
  BY <1>7 DEF AssertNoLock
<1>8. CASE Examine(c)
  BY <1>8 DEF Examine, Onward
<1>9. CASE Remove(c)
  BY <1>9 DEF Remove, Step
<1>10. CASE Copy(c)
  BY <1>10 DEF Copy, Step
<1>11. CASE Clear(c)
  BY <1>11 DEF Clear
<1>12. CASE Cleared(c)
  BY <1>12 DEF Cleared, Onward
<1>13. CASE Read(c)
  BY <1>13 DEF Read, Step
<1>14. CASE Loaded(c)
  BY <1>14 DEF Loaded
<1>15. CASE CheckHead(c)
  BY <1>15 DEF CheckHead
<1>16. CASE StageManifest(c)
  BY <1>16 DEF StageManifest
<1>17. CASE Stage(c)
  BY <1>17 DEF Stage
<1>18. CASE MoveToBackup(c)
  BY <1>18 DEF MoveToBackup, Step
<1>19. CASE BackupCreated(c)
  BY <1>19 DEF BackupCreated
<1>20. CASE MoveIntoPlace(c)
  BY <1>20 DEF MoveIntoPlace, Step
<1>21. CASE Applied(c)
  BY <1>21 DEF Applied
<1>22. CASE RenameFails(c)
  BY <1>22 DEF RenameFails
<1>23. CASE Crash(c)
  BY <1>23 DEF Crash
<1> QED
  BY <1>2, <1>3, <1>4, <1>5, <1>6, <1>7, <1>8, <1>9, <1>10, <1>11, <1>12, <1>13, <1>14, <1>15, <1>16, <1>17, <1>18, <1>19, <1>20, <1>21, <1>22, <1>23, <1>24 DEF ClientStep
-----------------------------------------------------------------------------
(* What a recovery would find is changed by one step alone.                *)

\* No two clients change the files.
LEMMA WorksAlone ==
  ASSUME TypeOK, Ordered, NEW c \in Client, NEW d \in Client, Working(c), Working(d)
  PROVE  c = d
BY DEF Ordered, Apart, Alone

LEMMA RecoveredType == TypeOK => Recovered \in Contents
BY DEF TypeOK, Recovered, Contents

\* What a recovery would find while a client removes the directory ...
Clearing(now, old, state) ==
  IF state = "staged" THEN [e \in Entry |-> IF old[e] # Absent THEN old[e] ELSE now[e]] ELSE now

\* ... are the canonical entries.
LEMMA ClearIsDone ==
  ASSUME NEW now \in Contents, NEW old \in Contents, NEW state,
         state = "staged" => \A e \in Entry : old[e] # Absent => old[e] = now[e]
  PROVE  Clearing(now, old, state) = now
BY DEF Clearing, Contents

LEMMA RecoveredClear ==
  ASSUME KeptInv, NEW c \in Client, pc[c] = "clear"
  PROVE  Recovered = canonical
<1>1. Recovered = Clearing(canonical, backup, manifest)
  BY DEF Recovered, Clearing, At
<1>2. manifest = "staged" => \A e \in Entry : backup[e] # Absent => backup[e] = canonical[e]
  BY DEF KeptInv, FilesOf, Backed
<1> QED BY <1>1, <1>2, ClearIsDone DEF KeptInv, TypeOK

\* Recovered is a function of the canonical entries, the backup, the manifest,
\* and of whether a client removes the directory of a complete backup.
LEMMA RecoveredStable ==
  ASSUME UNCHANGED <<canonical, backup, manifest>>,
         manifest # "backup_created" \/ \A d \in Client : pc'[d] = "clear" <=> pc[d] = "clear"
  PROVE  Recovered' = Recovered
BY DEF Recovered, At

\* Where a client is does not depend on the steps of another.
LEMMA OthersStay ==
  ASSUME TypeOK, NEW c \in Client, NEW d \in Client \ {c}, NEW f,
         Step(c, f) \/ Goto(c, f) \/ UNCHANGED pc
  PROVE  pc'[d] = pc[d]
BY DEF TypeOK, Step, Goto

LEMMA RecoveredRemove ==
  ASSUME KeptInv, NEW c \in Client, Remove(c)
  PROVE  Recovered' = Recovered
<1> USE DEF KeptInv, TypeOK
<1>1. Restores(c) /\ pc[c] = "remove" /\ at[c] \in Entry
  BY DEF FilesOf, Remove, At, Entry
<1>2. \A d \in Client : pc[d] # "clear" /\ pc'[d] # "clear"
  BY <1>1, WorksAlone DEF Working, Recovering, Remove, Step, Goto
<1>3. CASE manifest = "backup_created"
  BY <1>2, <1>3 DEF Recovered, At, Remove
<1>4. CASE manifest = "staged"
  <2>1. Recovered = Merged /\ Recovered' = Merged'
    BY <1>4 DEF Recovered, Merged, Remove
  <2>2. \A e \in Entry : backup[e] = Absent => canonical'[e] = canonical[e]
    BY <1>1, <1>4 DEF Restores, Backed, Remove, Contents
  <2> QED BY <2>1, <2>2 DEF Merged, Remove
<1> QED BY <1>1, <1>3, <1>4 DEF Restores

\* The copied entries, once they are all copied.
LEMMA CopyDone ==
  ASSUME KeptInv, NEW c \in Client, Copy(c), ~(at[c] < Entries)
  PROVE  /\ canonical' = Recovered
         /\ \A e \in Backed : backup[e] = canonical'[e]
<1> USE DEF KeptInv, TypeOK
<1>1. /\ Restores(c) /\ pc[c] = "copy" /\ at[c] = Entries /\ Entries \in Entry
      /\ \A e \in plan[c] : canonical[e] = IF e < at[c] THEN backup[e] ELSE Absent
  BY ReplaceAssumption DEF ReplaceAssumption, FilesOf, Copy, At, Entry
<1>2. \A e \in plan[c] : canonical'[e] = backup[e]
  BY <1>1, ReplaceAssumption DEF ReplaceAssumption, Copy, Contents, Entry
<1>3. \A e \in Entry \ plan[c] : canonical'[e] = canonical[e]
  BY <1>1 DEF Copy, Contents
<1>4. \A e \in Backed : backup[e] = canonical'[e]
  BY <1>1, <1>2 DEF Restores, Backed
<1>5. \A d \in Client : pc[d] # "clear"
  BY <1>1, WorksAlone DEF Working, Recovering
<1>6. \A e \in Entry : canonical'[e] = Recovered[e]
  BY <1>1, <1>2, <1>3, <1>5 DEF Recovered, Restores, Backed, At
<1>7. canonical' \in Contents
  BY <1>1, SetEntry DEF Copy, Contents
<1> QED BY <1>4, <1>6, <1>7, RecoveredType, SameContents

LEMMA RecoveredCopy ==
  ASSUME KeptInv, NEW c \in Client, Copy(c), TypeOK'
  PROVE  Recovered' = Recovered
<1> USE DEF KeptInv
<1>1. Restores(c) /\ pc[c] = "copy" /\ at[c] \in Entry
  BY DEF FilesOf, Copy, At, Entry, TypeOK
<1>2. \A d \in Client : pc[d] # "clear" /\ (d # c => pc'[d] # "clear")
  BY <1>1, WorksAlone DEF Working, Recovering, Copy, Step, Goto, TypeOK
<1>3. CASE at[c] < Entries
  <2>1. pc' = pc
    BY <1>3 DEF Copy, Step
  <2>2. CASE manifest = "backup_created"
    BY <1>2, <2>1, <2>2 DEF Recovered, At, Copy
  <2>3. CASE manifest = "staged"
    <3>1. Recovered = Merged /\ Recovered' = Merged'
      BY <2>3 DEF Recovered, Merged, Copy
    <3>2. \A e \in Entry : backup[e] = Absent => canonical'[e] = canonical[e]
      BY <1>1, <2>3 DEF Copy, Contents, TypeOK
    <3> QED BY <3>1, <3>2 DEF Merged, Copy
  <2> QED BY <1>1, <2>2, <2>3 DEF Restores
<1>4. CASE ~(at[c] < Entries)
  <2>1. pc'[c] = "clear" /\ canonical' = Recovered /\ \A e \in Backed : backup[e] = canonical'[e]
    BY <1>4, CopyDone DEF Copy, Step, Goto, TypeOK
  <2>2. \A e \in Entry : backup'[e] # Absent => backup'[e] = canonical'[e]
    BY <2>1 DEF Copy, Backed
  <2>3. Recovered' = Clearing(canonical', backup', manifest')
    BY <2>1 DEF Recovered, Clearing, At
  <2> QED BY <2>1, <2>2, <2>3, ClearIsDone DEF TypeOK
<1> QED BY <1>3, <1>4
\* Removing a part of the directory leaves the canonical entries as they are,
\* and the rest of the backup in agreement with them.
LEMMA RecoveredRemoval ==
  ASSUME KeptInv, NEW c \in Client, Clear(c), TypeOK'
  PROVE  /\ Recovered' = Recovered
         /\ manifest' = "staged" => \A e \in Entry : backup'[e] # Absent => backup'[e] = canonical'[e]
<1> USE DEF KeptInv
<1>1. pc[c] = "clear" /\ pc' = pc /\ canonical' = canonical
  BY DEF Clear, At
<1>2. Recovered = canonical
  BY <1>1, RecoveredClear
<1>3. manifest = "staged" => \A e \in Entry : backup[e] # Absent => backup[e] = canonical[e]
  BY <1>1 DEF FilesOf, Backed
<1>4. manifest' = "staged" => manifest = "staged"
  BY DEF Clear
<1>5. \A e \in Entry : backup'[e] # Absent => backup'[e] = backup[e]
  BY DEF Clear, TypeOK, Contents
<1>6. manifest' = "staged" => \A e \in Entry : backup'[e] # Absent => backup'[e] = canonical'[e]
  BY <1>1, <1>3, <1>4, <1>5
<1>7. Recovered' = Clearing(canonical', backup', manifest')
  BY <1>1 DEF Recovered, Clearing, At
<1>8. canonical' \in Contents /\ backup' \in Contents
  BY DEF TypeOK
<1>9. Clearing(canonical', backup', manifest') = canonical'
  BY <1>6, <1>8, ClearIsDone
<1> QED BY <1>1, <1>2, <1>6, <1>7, <1>9

LEMMA RecoveredStage ==
  ASSUME KeptInv, NEW c \in Client, StageManifest(c) \/ Stage(c)
  PROVE  Recovered' = Recovered
<1> USE DEF KeptInv
<1>1. CASE StageManifest(c)
  <2>1. manifest = "none" /\ manifest' = "staged" /\ backup' = Empty /\ canonical' = canonical
    BY <1>1 DEF FilesOf, StageManifest, At, NothingLeft
  <2>2. Recovered = canonical /\ Recovered' = Clearing(canonical, Empty, "staged")
    BY <2>1 DEF Recovered, Clearing
  <2>3. \A e \in Entry : Empty[e] = Absent
    BY DEF Empty
  <2> QED BY <2>2, <2>3, EmptyContents, ClearIsDone DEF TypeOK
<1>2. CASE Stage(c)
  <2>1. manifest # "backup_created"
    BY <1>2 DEF FilesOf, Stage, At
  <2> QED BY <1>2, <2>1, RecoveredStable DEF Stage
<1> QED BY <1>1, <1>2

LEMMA RecoveredMoveToBackup ==
  ASSUME KeptInv, NEW c \in Client, MoveToBackup(c)
  PROVE  Recovered' = Recovered
<1> USE DEF KeptInv, TypeOK
<1>1. manifest = "staged" /\ manifest' = "staged" /\ at[c] \in Entry /\ backup[at[c]] = Absent
  BY DEF FilesOf, MoveToBackup, At, Entry
<1>2. Recovered = Merged /\ Recovered' = Merged'
  BY <1>1 DEF Recovered, Merged
<1>3. \A e \in Entry : (IF backup'[e] # Absent THEN backup'[e] ELSE canonical'[e])
                          = (IF backup[e] # Absent THEN backup[e] ELSE canonical[e])
  BY <1>1 DEF MoveToBackup, Contents
<1> QED BY <1>2, <1>3 DEF Merged

LEMMA RecoveredApply ==
  ASSUME KeptInv, NEW c \in Client, BackupCreated(c) \/ MoveIntoPlace(c)
  PROVE  Recovered' = Recovered
<1> USE DEF KeptInv, TypeOK
<1>1. Working(c) /\ \A d \in Client : pc[d] # "clear" /\ pc'[d] # "clear"
  BY WorksAlone DEF BackupCreated, MoveIntoPlace, Step, Goto, At, Working, Replacing, Recovering
<1>2. CASE BackupCreated(c)
  <2>1. manifest = "staged" /\ canonical = Empty /\ backup' = backup /\ manifest' = "backup_created"
    BY <1>2 DEF FilesOf, BackupCreated, At
  <2>2. Recovered = Merged /\ Recovered' = backup
    BY <1>1, <2>1 DEF Recovered, Merged, At
  <2>3. \A e \in Entry : Recovered[e] = backup[e]
    BY <2>1, <2>2 DEF Merged, Empty
  <2> QED BY <2>2, <2>3, RecoveredType, SameContents
<1>3. CASE MoveIntoPlace(c)
  BY <1>1, <1>3 DEF FilesOf, MoveIntoPlace, Recovered, At
<1> QED BY <1>2, <1>3

\* A save takes effect when its manifest says so.
LEMMA RecoveredApplied ==
  ASSUME KeptInv, NEW c \in Client, Applied(c)
  PROVE  Recovered' = Whole(c)
BY DEF KeptInv, FilesOf, Applied, Recovered, At

\* A step that leaves the files alone.
LEMMA RecoveredUntouched ==
  ASSUME KeptInv, NEW c \in Client, ~Tears(c),
         \/ Look(c) \/ InitProject(c) \/ Acquire(c) \/ Reap(c) \/ Release(c) \/ Access(c) \/ AssertNoLock(c)
         \/ Examine(c) \/ Cleared(c) \/ Read(c) \/ Loaded(c) \/ CheckHead(c)
         \/ RenameFails(c) \/ Crash(c)
  PROVE  Recovered' = Recovered
<1> USE DEF KeptInv, TypeOK
<1>1. UNCHANGED <<canonical, backup, manifest>>
  BY DEF Look, InitProject, Acquire, Reap, Release, Access, AssertNoLock, Examine, Cleared, Read, Loaded,
     CheckHead, RenameFails, Crash, files
<1>2. CASE manifest # "backup_created"
  BY <1>1, <1>2, RecoveredStable
<1>3. CASE Crash(c) /\ pc[c] = "clear" /\ manifest = "backup_created"
  <2>1. Recovered = canonical /\ backup = canonical
    BY <1>3, RecoveredClear DEF Tears, At
  <2>2. \A d \in Client : pc'[d] # "clear"
    BY <1>3, WorksAlone DEF Working, Recovering, Crash, Goto
  <2> QED BY <1>1, <1>3, <2>1, <2>2 DEF Recovered, At
<1>4. CASE ~(Crash(c) /\ pc[c] = "clear") /\ manifest = "backup_created"
  <2>1. \A d \in Client : d # c => pc'[d] = pc[d]
    BY DEF Look, InitProject, Acquire, Reap, Release, Access, AssertNoLock, Examine, Cleared, Read, Loaded,
       CheckHead, RenameFails, Crash, Step, Goto, GiveUp, AssertHead
  <2>2. pc[c] # "clear"
    BY <1>4 DEF Look, InitProject, Acquire, Reap, Release, Access, AssertNoLock, Examine, Cleared, Read, Loaded,
       CheckHead, RenameFails, Crash, At, NothingLeft
  <2>3. pc'[c] # "clear"
    <3>1. CASE Examine(c)
      <4>1. \A valid : Restorable(valid) # {}
        BY <1>4, ReplaceAssumption DEF ReplaceAssumption, Restorable, Entry
      <4> QED BY <1>4, <3>1, <4>1 DEF Examine, Goto, Onward, NothingLeft
    <3>2. CASE ~Examine(c)
      BY <2>2, <3>2 DEF Look, InitProject, Acquire, Reap, Release, Access, AssertNoLock, Cleared, Read, Loaded,
         CheckHead, RenameFails, Crash, Step, Goto, GiveUp, AssertHead, Onward
    <3> QED BY <3>1, <3>2
  <2> QED BY <1>1, <2>1, <2>2, <2>3, RecoveredStable
<1> QED BY <1>2, <1>3, <1>4
\* Every step but one leaves what a recovery would find as it is.
LEMMA RecoveredStep ==
  ASSUME KeptInv, TypeOK', NEW c \in Client, ClientStep(c), ~Tears(c)
  PROVE  IF Applied(c) THEN Recovered' = Whole(c) ELSE Recovered' = Recovered
BY RecoveredUntouched, RecoveredRemove, RecoveredCopy, RecoveredRemoval, RecoveredStage,
   RecoveredMoveToBackup, RecoveredApply, RecoveredApplied DEF ClientStep

-----------------------------------------------------------------------------
(* How far the files are.                                                  *)

\* A step changes where its own client is, and no other.
LEMMA Frame ==
  ASSUME TypeOK, NEW c \in Client, ClientStep(c), NEW d \in Client, d # c
  PROVE  pc'[d] = pc[d] /\ at'[d] = at[d] /\ plan'[d] = plan[d]
         /\ purpose'[d] = purpose[d] /\ view'[d] = view[d] /\ head'[d] = head[d]
         /\ outcome'[d] = outcome[d]
<1> USE DEF TypeOK, Goto, Step, Ends, GiveUp, AssertHead, local, files
<1>1. CASE Look(c) \/ InitProject(c) \/ Acquire(c) \/ Reap(c) \/ Release(c) \/ Access(c) \/ AssertNoLock(c)
  BY <1>1 DEF Look, InitProject, Acquire, Reap, Release, Access, AssertNoLock
<1>2. CASE Examine(c) \/ Remove(c) \/ Copy(c) \/ Clear(c) \/ Cleared(c)
  BY <1>2 DEF Examine, Remove, Copy, Clear, Cleared
<1>3. CASE Read(c) \/ Loaded(c) \/ CheckHead(c) \/ StageManifest(c) \/ Stage(c)
  BY <1>3 DEF Read, Loaded, CheckHead, StageManifest, Stage
<1>4. CASE MoveToBackup(c) \/ BackupCreated(c) \/ MoveIntoPlace(c) \/ Applied(c)
  BY <1>4 DEF MoveToBackup, BackupCreated, MoveIntoPlace, Applied
<1>5. CASE RenameFails(c) \/ Crash(c)
  BY <1>5 DEF RenameFails, Crash
<1> QED BY <1>1, <1>2, <1>3, <1>4, <1>5 DEF ClientStep

\* While the owner of the lock reads, another may at most be about to end its
\* own removal of the directory.
LEMMA SourceReads ==
  ASSUME KeptInv, NEW d \in Client, pc[d] \in {"read", "check"}, purpose[d] = "source",
         NEW c \in Client, Working(c)
  PROVE  pc[c] = "clear" /\ NothingLeft
<1> USE DEF KeptInv
<1>1. NothingLeft
  BY DEF FilesOf
<1>2. pc[c] \notin Replacing
  BY DEF Ordered, Purposeful, Apart, Locked, Replacing, Reading, Saving
<1>3. pc[c] \notin {"remove", "copy"}
  BY <1>1 DEF FilesOf, Restores, NothingLeft
<1> QED BY <1>1, <1>2, <1>3 DEF Working, Recovering

\* It changes nothing any more.
LEMMA SourceUndisturbed ==
  ASSUME KeptInv, NEW d \in Client, pc[d] \in {"read", "check"}, purpose[d] = "source",
         NEW c \in Client, ClientStep(c)
  PROVE  UNCHANGED files
<1>1. Working(c) => pc[c] = "clear" /\ NothingLeft
  BY SourceReads
<1> QED
  BY <1>1 DEF ClientStep, Working, Recovering, Replacing, At, files, Look, InitProject, Acquire, Reap, Release,
     Access, AssertNoLock, Examine, Remove, Copy, Clear, Cleared, Read, Loaded, CheckHead, StageManifest,
     Stage, MoveToBackup, BackupCreated, MoveIntoPlace, Applied, RenameFails, Crash

\* When the one who steps works on the files, the others do not.
LEMMA OthersIdle ==
  ASSUME KeptInv, NEW c \in Client, ClientStep(c), Working(c), NEW d \in Client, d # c
  PROVE  FilesOf(d)'
<1>1. ~Working(d)
  BY WorksAlone DEF KeptInv
<1>2. pc'[d] = pc[d] /\ purpose'[d] = purpose[d]
  BY Frame DEF KeptInv
<1>3. pc[d] \in {"read", "check"} /\ purpose[d] = "source" => NothingLeft'
  BY SourceReads, SourceUndisturbed DEF files, NothingLeft
<1> QED BY <1>1, <1>2, <1>3 DEF FilesOf, Working, Recovering, Replacing

\* The steps that leave the files alone.
Quiet(c) ==
  \/ Look(c) \/ InitProject(c) \/ Acquire(c) \/ Reap(c) \/ Release(c) \/ Access(c) \/ AssertNoLock(c)
  \/ Examine(c) \/ Read(c) \/ Loaded(c) \/ CheckHead(c) \/ Crash(c)

LEMMA OthersUntouched ==
  ASSUME KeptInv, NEW c \in Client, Quiet(c), NEW d \in Client, d # c
  PROVE  FilesOf(d)'
<1>1. UNCHANGED files
  BY DEF Quiet, Look, InitProject, Acquire, Reap, Release, Access, AssertNoLock, Examine, Read, Loaded, CheckHead,
     Crash
<1>2. pc'[d] = pc[d] /\ at'[d] = at[d] /\ plan'[d] = plan[d] /\ purpose'[d] = purpose[d]
  BY Frame DEF Quiet, ClientStep, KeptInv
<1> QED
  BY <1>1, <1>2 DEF KeptInv, FilesOf, files, Restores, Backed, NothingLeft
\* When a recovery begins, the recovered entries are a whole aggregate; and
\* when they are the canonical ones, validating them succeeds.
LEMMA OwnExamine ==
  ASSUME KeptInv, Alone', NEW c \in Client, Examine(c)
  PROVE  FilesOf(c)'
<1> USE DEF KeptInv, TypeOK
<1>1. at[c] = 1 /\ purpose[c] \in {"load", "source", "apply"}
  BY DEF Ordered, Purposeful, Examine, At, Phases, Over
<1>2. PICK valid \in Validity(canonical) :
        /\ plan'[c] = Restorable(valid)
        /\ pc'[c] = IF NothingLeft THEN Onward(c)
                    ELSE IF Restorable(valid) # {} THEN "remove" ELSE "clear"
  BY DEF Examine, Goto
<1>3. UNCHANGED files /\ at' = at
  BY DEF Examine
<1>4. pc'[c] = "clear" => \A d \in Client : pc[d] # "clear"
  <2>1. \A d \in Client : d # c => pc'[d] = pc[d]
    BY DEF Examine, Goto
  <2> QED BY <2>1 DEF Alone, Working, Recovering, Examine, At
<1>5. CASE NothingLeft
  <2>1. pc'[c] \in {"read", "stage_manifest"} /\ NothingLeft'
    BY <1>1, <1>2, <1>3, <1>5 DEF Onward, NothingLeft, files
  <2> QED BY <2>1 DEF FilesOf
<1>6. CASE ~NothingLeft /\ manifest = "backup_created"
  <2>1. plan'[c] = Entry /\ pc'[c] = "remove"
    BY <1>2, <1>6, ReplaceAssumption DEF ReplaceAssumption, Restorable, Entry
  <2> QED BY <1>1, <1>3, <1>6, <2>1 DEF FilesOf, Restores, files, Entry
<1>7. CASE ~NothingLeft /\ manifest = "staged"
  <2>1. plan'[c] = Backed
    BY <1>2, <1>7 DEF Restorable
  <2>2. CASE Backed # {}
    <3>1. pc'[c] = "remove"
      BY <1>2, <1>7, <2>1, <2>2
    <3> QED BY <1>1, <1>3, <1>7, <2>1, <3>1 DEF FilesOf, Restores, files, Backed, Entry
  <2>3. CASE Backed = {}
    <3>1. pc'[c] = "clear"
      BY <1>2, <1>7, <2>1, <2>3
    <3>2. \A e \in Entry : Recovered[e] = canonical[e]
      BY <1>4, <1>7, <2>3, <3>1 DEF Recovered, Backed
    <3>3. Recovered = canonical
      BY <3>2, RecoveredType, SameContents
    <3> QED BY <1>3, <2>3, <3>1, <3>3 DEF FilesOf, files, Backed
  <2> QED BY <2>2, <2>3
<1>8. CASE ~NothingLeft /\ manifest \notin {"backup_created", "staged"}
  <2>1. Recovered = canonical
    BY <1>8 DEF Recovered
  <2>2. PICK a \in Aggregate : canonical = Whole(a)
    BY <2>1
  <2>3. valid = TRUE
    BY <1>2, <2>2, WholeContents DEF Validity
  <2>4. pc'[c] = "clear"
    BY <1>2, <1>8, <2>3 DEF Restorable
  <2> QED BY <1>3, <1>8, <2>2, <2>4 DEF FilesOf, files
<1> QED BY <1>5, <1>6, <1>7, <1>8

LEMMA OwnRecovery ==
  ASSUME KeptInv, TypeOK', NEW c \in Client, Remove(c) \/ Copy(c) \/ Clear(c) \/ Cleared(c)
  PROVE  FilesOf(c)'
<1> USE DEF KeptInv, TypeOK, At, Goto
<1>1. CASE Remove(c)
  <2>1. /\ pc[c] = "remove" /\ Restores(c) /\ at[c] \in Entry /\ Entries \in Nat
        /\ \A e \in plan[c] : e < at[c] => canonical[e] = Absent
    BY <1>1, ReplaceAssumption DEF ReplaceAssumption, FilesOf, Remove, Entry
  <2>2. Restores(c)'
    BY <1>1, <2>1 DEF Remove, Restores, Backed
  <2>3. \A e \in plan[c] : e <= at[c] => canonical'[e] = Absent
    BY <1>1, <2>1 DEF Remove, Contents, Entry
  <2>4. CASE at[c] < Entries
    <3>1. pc'[c] = "remove" /\ at'[c] = at[c] + 1 /\ plan'[c] = plan[c]
      BY <1>1, <2>1, <2>4 DEF Remove, Step
    <3>2. \A e \in plan'[c] : e < at'[c] => canonical'[e] = Absent
      BY <2>1, <2>3, <3>1 DEF Entry
    <3> QED BY <2>2, <3>1, <3>2 DEF FilesOf
  <2>5. CASE ~(at[c] < Entries)
    <3>1. pc'[c] = "copy" /\ at'[c] = 1 /\ plan'[c] = plan[c]
      BY <1>1, <2>5 DEF Remove, Step
    <3>2. \A e \in plan'[c] : canonical'[e] = Absent /\ ~(e < at'[c])
      BY <2>1, <2>3, <2>5, <3>1 DEF Entry
    <3> QED BY <2>2, <3>1, <3>2 DEF FilesOf
  <2> QED BY <2>4, <2>5
<1>2. CASE Copy(c)
  <2>1. /\ pc[c] = "copy" /\ Restores(c) /\ at[c] \in Entry /\ Entries \in Nat
        /\ \A e \in plan[c] : canonical[e] = IF e < at[c] THEN backup[e] ELSE Absent
    BY <1>2, ReplaceAssumption DEF ReplaceAssumption, FilesOf, Copy, Entry
  <2>2. CASE at[c] < Entries
    <3>1. pc'[c] = "copy" /\ at'[c] = at[c] + 1 /\ plan'[c] = plan[c] /\ Restores(c)'
      BY <1>2, <2>1, <2>2 DEF Copy, Step, Restores, Backed
    <3>2. \A e \in plan[c] : canonical'[e] = IF e <= at[c] THEN backup[e] ELSE Absent
      BY <1>2, <2>1 DEF Copy, Contents, Entry
    <3>3. \A e \in plan'[c] : canonical'[e] = IF e < at'[c] THEN backup'[e] ELSE Absent
      BY <1>2, <2>1, <3>1, <3>2 DEF Copy, Entry
    <3> QED BY <3>1, <3>3 DEF FilesOf
  <2>3. CASE ~(at[c] < Entries)
    <3>1. pc'[c] = "clear" /\ backup' = backup
      BY <1>2, <2>3 DEF Copy, Step
    <3>2. canonical' = Recovered /\ \A e \in Backed : backup[e] = canonical'[e]
      BY <1>2, <2>3, CopyDone
    <3> QED BY <3>1, <3>2 DEF FilesOf, Backed
  <2> QED BY <2>2, <2>3
<1>3. CASE Clear(c)
  <2>1. pc'[c] = "clear" /\ canonical' = canonical /\ \E a \in Aggregate : canonical = Whole(a)
    BY <1>3 DEF Clear, FilesOf
  <2>2. manifest' = "staged" => \A e \in Entry : backup'[e] # Absent => backup'[e] = canonical'[e]
    BY <1>3, RecoveredRemoval
  <2> QED BY <2>1, <2>2 DEF FilesOf, Backed
<1>4. CASE Cleared(c)
  <2>1. pc[c] = "clear" /\ pc'[c] = Onward(c) /\ NothingLeft /\ NothingLeft'
    BY <1>4 DEF Cleared, files, NothingLeft
  <2> QED BY <2>1 DEF FilesOf, Onward
<1> QED BY <1>1, <1>2, <1>3, <1>4
LEMMA OwnStage ==
  ASSUME KeptInv, NEW c \in Client, StageManifest(c) \/ Stage(c)
  PROVE  FilesOf(c)'
<1> USE DEF KeptInv, TypeOK, At, Goto
<1>1. CASE StageManifest(c)
  <2>1. pc'[c] = "stage" /\ manifest' = "staged" /\ backup' = Empty
    BY <1>1 DEF StageManifest
  <2> QED BY <2>1 DEF FilesOf
<1>2. CASE Stage(c)
  <2>1. pc'[c] = "backup" /\ manifest' = "staged" /\ backup' = Empty /\ next' = Whole(c)
    BY <1>2 DEF Stage, FilesOf
  <2>2. at'[c] = 1
    BY <1>2 DEF Stage, Ordered, Purposeful, Over, local
  <2>3. \A e \in Entry : Empty[e] = Absent /\ ~(e < 1)
    BY ReplaceAssumption DEF ReplaceAssumption, Empty, Entry
  <2> QED BY <2>1, <2>2, <2>3 DEF FilesOf
<1> QED BY <1>1, <1>2

LEMMA OwnMoveToBackup ==
  ASSUME KeptInv, TypeOK', NEW c \in Client, MoveToBackup(c)
  PROVE  FilesOf(c)'
<1> USE DEF KeptInv, TypeOK, At, Goto
<1>1. /\ pc[c] = "backup" /\ manifest = "staged" /\ next = Whole(c)
      /\ at[c] \in Entry /\ Entries \in Nat
      /\ \A e \in Entry : /\ e < at[c] => canonical[e] = Absent
                          /\ e >= at[c] => backup[e] = Absent
  BY ReplaceAssumption DEF ReplaceAssumption, FilesOf, MoveToBackup, Entry
<1>2. manifest' = "staged" /\ next' = Whole(c)
  BY <1>1 DEF MoveToBackup
<1>3. \A e \in Entry : e <= at[c] => canonical'[e] = Absent
  BY <1>1 DEF MoveToBackup, Contents, Entry
<1>4. \A e \in Entry : e > at[c] => backup'[e] = Absent
  BY <1>1 DEF MoveToBackup, Contents, Entry
<1>5. CASE at[c] < Entries
  <2>1. pc'[c] = "backup" /\ at'[c] = at[c] + 1
    BY <1>1, <1>5 DEF MoveToBackup, Step
  <2>2. \A e \in Entry : (e < at'[c] => e <= at[c]) /\ (e >= at'[c] => e > at[c])
    BY <1>1, <2>1 DEF Entry
  <2> QED BY <1>2, <1>3, <1>4, <2>1, <2>2 DEF FilesOf
<1>6. CASE ~(at[c] < Entries)
  <2>1. pc'[c] = "backup_manifest"
    BY <1>1, <1>6 DEF MoveToBackup, Step
  <2>2. \A e \in Entry : canonical'[e] = Empty[e]
    BY <1>1, <1>3, <1>6 DEF Entry, Empty
  <2>3. canonical' = Empty
    BY <2>2, EmptyContents, SameContents
  <2> QED BY <1>2, <2>1, <2>3 DEF FilesOf
<1> QED BY <1>5, <1>6

LEMMA OwnApply ==
  ASSUME KeptInv, TypeOK', NEW c \in Client, BackupCreated(c) \/ MoveIntoPlace(c) \/ Applied(c)
  PROVE  FilesOf(c)'
<1> USE DEF KeptInv, TypeOK, At, Goto
<1>1. CASE BackupCreated(c)
  <2>1. /\ pc'[c] = "apply" /\ manifest' = "backup_created"
        /\ canonical' = Empty /\ next' = Whole(c)
    BY <1>1 DEF BackupCreated, FilesOf
  <2>2. at'[c] = 1
    BY <1>1 DEF BackupCreated, Ordered, Purposeful, Over, local
  <2>3. \A e \in Entry : Empty[e] = Absent /\ ~(e < 1)
    BY ReplaceAssumption DEF ReplaceAssumption, Empty, Entry
  <2> QED BY <2>1, <2>2, <2>3 DEF FilesOf
<1>2. CASE MoveIntoPlace(c)
  <2>1. /\ pc[c] = "apply" /\ manifest = "backup_created" /\ at[c] \in Entry /\ Entries \in Nat
        /\ \A e \in Entry : IF e < at[c] THEN canonical[e] = Whole(c)[e]
                            ELSE canonical[e] = Absent /\ next[e] = Whole(c)[e]
    BY <1>2, ReplaceAssumption DEF ReplaceAssumption, FilesOf, MoveIntoPlace, Entry
  <2>0. /\ \A e \in Entry : e # at[c] => canonical'[e] = canonical[e] /\ next'[e] = next[e]
        /\ canonical'[at[c]] = next[at[c]]
    <3>1. \A e \in Entry : e # at[c] => canonical'[e] = canonical[e] /\ next'[e] = next[e]
      BY <1>2 DEF MoveIntoPlace, Contents
    <3>2. canonical'[at[c]] = next[at[c]]
      BY <1>2, <2>1 DEF MoveIntoPlace, Contents, Entry
    <3> QED BY <3>1, <3>2
  <2>2. \A e \in Entry : e <= at[c] => canonical'[e] = Whole(c)[e]
    <3>1. next[at[c]] = Whole(c)[at[c]]
      BY <2>1 DEF Entry
    <3>2. \A e \in Entry : e < at[c] => canonical[e] = Whole(c)[e]
      BY <2>1
    <3> QED BY <2>0, <2>1, <3>1, <3>2, UpTo
  <2>3. \A e \in Entry : e > at[c] => canonical'[e] = Absent /\ next'[e] = Whole(c)[e]
    BY <2>0, <2>1 DEF Entry
  <2>4. manifest' = "backup_created"
    BY <1>2, <2>1 DEF MoveIntoPlace
  <2>5. CASE at[c] < Entries
    <3>1. pc'[c] = "apply" /\ at'[c] = at[c] + 1
      BY <1>2, <2>1, <2>5 DEF MoveIntoPlace, Step
    <3>2. \A e \in Entry : (e < at'[c] => e <= at[c]) /\ (~(e < at'[c]) => e > at[c])
      BY <2>1, <3>1 DEF Entry
    <3> QED BY <2>2, <2>3, <2>4, <3>1, <3>2 DEF FilesOf
  <2>6. CASE ~(at[c] < Entries)
    <3>1. pc'[c] = "apply_manifest"
      BY <1>2, <2>6 DEF MoveIntoPlace, Step
    <3>2. \A e \in Entry : canonical'[e] = Whole(c)[e]
      BY <2>1, <2>2, <2>6 DEF Entry
    <3>3. canonical' = Whole(c)
      BY <3>2, WholeContents, SameContents DEF Aggregate
    <3> QED BY <2>4, <3>1, <3>3 DEF FilesOf
  <2> QED BY <2>5, <2>6
<1>3. CASE Applied(c)
  <2>1. pc'[c] = "clear" /\ manifest' = "applied" /\ canonical' = Whole(c)
    BY <1>3 DEF Applied, FilesOf
  <2> QED BY <2>1 DEF FilesOf, Aggregate
<1> QED BY <1>1, <1>2, <1>3

LEMMA OwnRest ==
  ASSUME KeptInv, NEW c \in Client,
         \/ Look(c) \/ InitProject(c) \/ Acquire(c) \/ Reap(c) \/ Release(c) \/ Access(c) \/ AssertNoLock(c)
         \/ Read(c) \/ Loaded(c) \/ CheckHead(c) \/ RenameFails(c) \/ Crash(c)
  PROVE  FilesOf(c)'
<1> USE DEF KeptInv, TypeOK, At, Goto
<1>1. CASE Read(c)
  <2>1. pc'[c] \in {"read", "check"} /\ purpose'[c] = purpose[c] /\ (purpose[c] = "source" => NothingLeft')
    BY <1>1 DEF Read, Step, FilesOf, files, NothingLeft
  <2> QED BY <2>1 DEF FilesOf
<1>2. CASE ~Read(c)
  <2>1. pc'[c] \in {"idle", "access", "assert", "examine", "loaded", "release", "done", "dead"}
    BY <1>2 DEF Look, InitProject, Acquire, Reap, Release, Access, AssertNoLock, Loaded, CheckHead, RenameFails,
       Crash, GiveUp, AssertHead
  <2> QED BY <2>1 DEF FilesOf
<1> QED BY <1>1, <1>2

LEMMA FilesStep ==
  ASSUME KeptInv, Alone', TypeOK', NEW c \in Client, ClientStep(c), NEW d \in Client
  PROVE  FilesOf(d)'
<1>1. CASE d = c
  BY <1>1, OwnExamine, OwnRecovery, OwnStage, OwnMoveToBackup, OwnApply, OwnRest DEF ClientStep
<1>2. CASE d # c /\ Working(c)
  BY <1>2, OthersIdle
<1>3. CASE d # c /\ ~Working(c)
  <2>1. Quiet(c)
    BY <1>3 DEF ClientStep, Quiet, Working, Recovering, Replacing, Remove, Copy, Clear, Cleared,
       StageManifest, Stage, MoveToBackup, BackupCreated, MoveIntoPlace, Applied, RenameFails, At
  <2> QED BY <1>3, <2>1, OthersUntouched
<1> QED BY <1>1, <1>2, <1>3

\* The start satisfies the invariant.
LEMMA KeptInit == Init => KeptInv
<1> SUFFICES ASSUME Init PROVE KeptInv
  OBVIOUS
<1>1. TypeOK
  BY InitTypes
<1>2. \A c \in Client : pc[c] = "idle" /\ purpose[c] = "load" /\ at[c] = 1
  BY DEF Init
<1>3. Ordered
  BY <1>2 DEF Ordered, Purposeful, Apart, Alone, Working, Locked, Replacing, Reading, Recovering, Saving
<1>4. \E a \in Aggregate : Recovered = Whole(a)
  <2>1. Recovered = Whole(Seed)
    BY DEF Init, Recovered
  <2> QED BY <2>1 DEF Aggregate
<1>5. \A c \in Client : FilesOf(c)
  BY <1>2 DEF FilesOf
<1> QED BY <1>1, <1>3, <1>4, <1>5 DEF KeptInv

\* As long as there is no overrun, only one client is at work, and no crash
\* tears a complete backup apart.
LEMMA NoOverrun ==
  ASSUME TypeOK, Next, ~overrun'
  PROVE  ~overrun /\ Alone' /\ Record /\ \A c \in Client : ~Tears(c)
BY DEF TypeOK, Next, Record

LEMMA KeptStep ==
  ASSUME TypeOK, TypeOK', ~overrun => KeptInv, [Next]_vars
  PROVE  ~overrun' => KeptInv'
<1>1. CASE UNCHANGED vars
  BY <1>1 DEF vars, files, local, KeptInv, TypeOK, Ordered, Purposeful, Apart, Alone, Locked,
     Recovered, At, FilesOf, Restores, Backed, NothingLeft, Working
<1>2. ASSUME Next, ~overrun', NEW c \in Client, ClientStep(c) PROVE KeptInv'
  <2>0. KeptInv /\ Alone' /\ ~Tears(c)
    BY <1>2, NoOverrun
  <2>1. Ordered'
    BY <1>2, <2>0, OrderedStep DEF KeptInv
  <2>2. \E a \in Aggregate : Recovered' = Whole(a)
    <3>1. c \in Aggregate
      BY DEF Aggregate
    <3> QED BY <1>2, <2>0, <3>1, RecoveredStep DEF KeptInv
  <2>3. \A d \in Client : FilesOf(d)'
    BY <1>2, <2>0, FilesStep
  <2> QED BY <2>1, <2>2, <2>3 DEF KeptInv
<1> QED BY <1>1, <1>2 DEF Next

\* Whatever step a save or a recovery is interrupted at, and however often, a
\* recovery finds one whole aggregate, unless two clients were at work on the
\* replacement at once or a crash tore a complete backup apart.
THEOREM KeptWhole == Spec => []AggregateKept
<1>1. TypeOK /\ TypeOK' /\ (~overrun => KeptInv) /\ [Next]_vars => (~overrun' => KeptInv')
  BY KeptStep
<1>2. Init => (~overrun => KeptInv)
  BY KeptInit
<1>3. TypeOK /\ (~overrun => KeptInv) => AggregateKept
  BY DEF KeptInv, AggregateKept, TypeOK
<1> QED BY <1>1, <1>2, <1>3, TypeCorrect, PTL DEF Spec

-----------------------------------------------------------------------------
(* What nobody is at work on is settled.                                   *)

\* As long as nothing has failed, whatever is left of a replacement belongs to a
\* client that is at work on it.
Tending == Recovering \cup {"stage", "backup", "backup_manifest", "apply", "apply_manifest"}
Tended == faults = 0 /\ ~NothingLeft => \E c \in Client : pc[c] \in Tending

\* A client that is not at work on the replacement leaves it alone, or begins.
LEMMA TendedOther ==
  ASSUME TypeOK, Tended, NEW c \in Client, ClientStep(c), pc[c] \notin Tending
  PROVE  Tended'
<1> USE DEF Tending, Recovering
<1>1. CASE StageManifest(c)
  BY <1>1 DEF StageManifest, At, Goto, Tended, TypeOK
<1>2. CASE ~StageManifest(c)
  <2>1. UNCHANGED files
    BY <1>2 DEF ClientStep, Look, InitProject, Acquire, Reap, Release, Access, AssertNoLock, Examine,
       Remove, Copy, Clear, Cleared, Read, Loaded, CheckHead, Stage, MoveToBackup, BackupCreated,
       MoveIntoPlace, Applied, RenameFails, Crash, At
  <2>2. \A d \in Client : d # c => pc'[d] = pc[d]
    BY DEF TypeOK, ClientStep, Look, InitProject, Acquire, Reap, Release, Access, AssertNoLock, Examine,
       Remove, Copy, Clear, Cleared, Read, Loaded, CheckHead, StageManifest, Stage, MoveToBackup,
       BackupCreated, MoveIntoPlace, Applied, RenameFails, Crash, Goto, GiveUp, AssertHead, Step
  <2>3. faults' = 0 => faults = 0
    BY DEF TypeOK, ClientStep, Look, InitProject, Acquire, Reap, Release, Access, AssertNoLock, Examine,
       Remove, Copy, Clear, Cleared, Read, Loaded, CheckHead, StageManifest, Stage, MoveToBackup,
       BackupCreated, MoveIntoPlace, Applied, RenameFails, Crash
  <2> QED BY <2>1, <2>2, <2>3 DEF Tended, files, NothingLeft
<1> QED BY <1>1, <1>2

\* A client at work stays at work until nothing is left, or fails.
LEMMA TendedWorker ==
  ASSUME TypeOK, Tended, NEW c \in Client, ClientStep(c), pc[c] \in Tending
  PROVE  Tended'
<1> USE DEF Tending, Recovering
<1>1. CASE Remove(c) \/ Copy(c) \/ Clear(c) \/ Stage(c) \/ MoveToBackup(c) \/ BackupCreated(c)
             \/ MoveIntoPlace(c) \/ Applied(c)
  <2>1. pc'[c] \in Tending
    BY <1>1 DEF TypeOK, Remove, Copy, Clear, Stage, MoveToBackup, BackupCreated, MoveIntoPlace, Applied,
       At, Goto, Step
  <2> QED BY <2>1 DEF Tended
<1>2. CASE Cleared(c)
  BY <1>2 DEF Cleared, Tended, NothingLeft, files
<1>3. CASE RenameFails(c) \/ Crash(c)
  BY <1>3 DEF RenameFails, Crash, Tended, TypeOK
<1>4. ~(Look(c) \/ InitProject(c) \/ Acquire(c) \/ Reap(c) \/ Release(c) \/ Access(c) \/ AssertNoLock(c)
        \/ Examine(c) \/ Read(c) \/ Loaded(c) \/ CheckHead(c) \/ StageManifest(c))
  BY DEF Look, InitProject, Acquire, Reap, Release, Access, AssertNoLock, Examine, Read, Loaded, CheckHead,
     StageManifest, At
<1> QED BY <1>1, <1>2, <1>3, <1>4 DEF ClientStep

\* Once nobody is at work and nothing has failed, the canonical root is a whole
\* aggregate: a recovery that is at work beside a save, or beside another, is
\* the only thing that saves and loads can do to destroy it (throwIfWriteInProgress,
\* assertNoActiveRouteLedgerWriteLock).
THEOREM SettledWhole == Spec => [](overrun \/ SettledIsWhole)
<1>1. Init => Tended
  BY DEF Init, Tended, NothingLeft
<1>2. TypeOK /\ Tended /\ [Next]_vars => Tended'
  <2>1. UNCHANGED vars /\ Tended => Tended'
    BY DEF vars, files, Tended, NothingLeft
  <2> QED BY <2>1, TendedOther, TendedWorker DEF Next
<1>3. AggregateKept /\ Tended => overrun \/ SettledIsWhole
  <2> SUFFICES ASSUME AggregateKept, ~overrun, Tended, faults = 0, \A c \in Client : pc[c] \in {"idle", "loaded", "done"}
               PROVE  \E a \in Aggregate : canonical = Whole(a)
    BY DEF SettledIsWhole
  <2>1. NothingLeft
    BY DEF Tended, Tending, Recovering
  <2>2. Recovered = canonical
    BY <2>1 DEF NothingLeft, Recovered
  <2> QED BY <2>2 DEF AggregateKept
<1> QED BY <1>1, <1>2, <1>3, KeptWhole, TypeCorrect, PTL DEF Spec

-----------------------------------------------------------------------------
(* Saves and loads act on a register.                                      *)

\* Entries do not change while a client reads them: the owner of the lock, and
\* a load that is not mixed up with a save or a recovery.
Steady(c) == purpose[c] = "source" \/ c \notin mixed

\* What was read is what is there, and what was there when the head was
\* checked still is, unless the client creates a project after a save was
\* interrupted; no outcome is decided twice.
HeadsOf(c) ==
  /\ pc[c] \in {"read", "check"} /\ Steady(c) => Recovered = canonical
  /\ pc[c] = "read" /\ Steady(c) => \A e \in Entry : e < at[c] => view[c][e] = canonical[e]
  /\ pc[c] = "check" /\ Steady(c) => view[c] = canonical
  /\ purpose[c] = "apply" /\ pc[c] \in {"assert", "examine"} \cup Recovering \cup Replacing
       => head[c] = Recovered \/ (head[c] = Empty /\ Interrupted)
  /\ pc[c] \notin Over \cup {"release"} /\ purpose[c] # "save" => outcome[c] = "none"

\* As long as no save was interrupted, nothing is restored, and project.json
\* is in its place whenever nobody replaces the entries.
Untorn ==
  ~Interrupted =>
    /\ \A d \in Client : pc[d] \in Recovering => purpose[d] = "save"
    /\ (\A d \in Client : ~Working(d)) => NothingLeft /\ canonical[Project] # Absent

HeadsInv == Untorn /\ \A c \in Client : HeadsOf(c)

LEMMA HeadsInit == Init => HeadsInv
<1> SUFFICES ASSUME Init PROVE HeadsInv
  OBVIOUS
<1>1. \A c \in Client : HeadsOf(c)
  BY DEF Init, HeadsOf, Recovering, Replacing
<1>2. NothingLeft /\ canonical[Project] # Absent
  BY WholeContents DEF Init, NothingLeft, Aggregate
<1>3. \A c \in Client : pc[c] \notin Recovering
  BY DEF Init, Recovering
<1> QED BY <1>1, <1>2, <1>3 DEF HeadsInv, Untorn

\* A save is interrupted by a crash or by a failed rename ...
LEMMA InterruptedSame ==
  ASSUME KeptInv, HeadsInv, NEW c \in Client, ClientStep(c), ~RenameFails(c), ~Crash(c)
  PROVE  Interrupted' = Interrupted
<1> USE DEF KeptInv, TypeOK
<1>1. \A d \in Client : d # c => pc'[d] = pc[d] /\ purpose'[d] = purpose[d] /\ outcome'[d] = outcome[d]
  BY Frame
<1>2. pc[c] # "dead" /\ pc'[c] # "dead"
  BY DEF ClientStep, Look, InitProject, Acquire, Reap, Release, Access, AssertNoLock, Examine, Remove,
     Copy, Clear, Cleared, Read, Loaded, CheckHead, StageManifest, Stage, MoveToBackup, BackupCreated,
     MoveIntoPlace, Applied, At, Goto, Step, GiveUp, AssertHead, Onward
<1>3. \/ purpose'[c] = purpose[c] /\ outcome'[c] = outcome[c]
      \/ outcome[c] = "none" /\ outcome'[c] # "failed"
  <2>1. Access(c) \/ Loaded(c) \/ CheckHead(c) \/ Acquire(c) \/ Applied(c) => outcome[c] = "none"
    BY DEF Access, Loaded, CheckHead, Acquire, Applied, At, HeadsInv, HeadsOf, Over, Ordered, Purposeful,
       Replacing
  <2>2. CASE Access(c) \/ Loaded(c) \/ CheckHead(c) \/ Acquire(c) \/ Applied(c)
    BY <2>1, <2>2 DEF Access, Loaded, CheckHead, Acquire, Applied, Ends, GiveUp, AssertHead
  <2>3. CASE ~(Access(c) \/ Loaded(c) \/ CheckHead(c) \/ Acquire(c) \/ Applied(c))
    BY <2>3 DEF ClientStep, Look, InitProject, Reap, Release, AssertNoLock, Examine, Remove,
       Copy, Clear, Cleared, Read, StageManifest, Stage, MoveToBackup, BackupCreated,
       MoveIntoPlace, local
  <2> QED BY <2>2, <2>3
<1> QED BY <1>1, <1>2, <1>3 DEF Interrupted

\* ... and stays so.
LEMMA InterruptedStays ==
  ASSUME KeptInv, HeadsInv, NEW c \in Client, ClientStep(c), Interrupted
  PROVE  Interrupted'
<1>1. CASE RenameFails(c) \/ Crash(c)
  <2>1. /\ purpose' = purpose
        /\ \A d \in Client : pc[d] = "dead" => pc'[d] = "dead"
        /\ \A d \in Client : outcome[d] = "failed" => outcome'[d] = "failed"
    BY <1>1 DEF KeptInv, TypeOK, RenameFails, Crash, Goto, Ends, local, Over
  <2> QED BY <2>1 DEF Interrupted
<1>2. CASE ~RenameFails(c) /\ ~Crash(c)
  BY <1>2, InterruptedSame
<1> QED BY <1>1, <1>2

\* As long as no save was interrupted, nobody works on the files while the
\* owner of the lock looks for project.json.
LEMMA NobodyElseWorks ==
  ASSUME KeptInv, HeadsInv, ~Interrupted, NEW c \in Client, pc[c] = "access", purpose[c] = "source"
  PROVE  \A d \in Client : ~Working(d)
<1> SUFFICES ASSUME NEW d \in Client, Working(d) PROVE FALSE
  OBVIOUS
<1>1. purpose[d] # "load"
  BY DEF KeptInv, Ordered, Purposeful, HeadsInv, Untorn, Working, Replacing
<1>2. Locked(c) /\ Locked(d)
  BY <1>1 DEF Locked, Working, Reading, Saving
<1> QED BY <1>2 DEF KeptInv, Ordered, Apart, Working, Recovering, Replacing

LEMMA UntornStep ==
  ASSUME KeptInv, HeadsInv, Alone', NEW c \in Client, ClientStep(c)
  PROVE  Untorn'
<1> SUFFICES ASSUME ~Interrupted'
             PROVE  /\ \A d \in Client : pc'[d] \in Recovering => purpose'[d] = "save"
                    /\ (\A d \in Client : ~Working(d)') => NothingLeft' /\ canonical'[Project] # Absent
  BY DEF Untorn
<1> USE DEF KeptInv, TypeOK
<1>1. /\ ~Interrupted
      /\ \A d \in Client : pc[d] \in Recovering => purpose[d] = "save"
      /\ (\A d \in Client : ~Working(d)) => NothingLeft /\ canonical[Project] # Absent
  BY InterruptedStays DEF HeadsInv, Untorn
<1>2. \A d \in Client : d # c => pc'[d] = pc[d] /\ purpose'[d] = purpose[d]
  BY Frame
<1>3. Examine(c) => pc'[c] \in {"stage_manifest", "read"}
  <2> SUFFICES ASSUME Examine(c) PROVE pc'[c] \in {"stage_manifest", "read"}
    OBVIOUS
  <2>1. pc[c] = "examine"
    BY DEF Examine, At
  <2>2. pc'[c] \in {"remove", "clear"} => NothingLeft
    <3> SUFFICES ASSUME pc'[c] \in {"remove", "clear"} PROVE NothingLeft
      OBVIOUS
    <3>1. \A d \in Client : d # c => ~Working(d)
      BY <1>2 DEF Alone, Working, Recovering
    <3>2. ~Working(c)
      BY <2>1 DEF Working, Recovering, Replacing
    <3> QED BY <1>1, <3>1, <3>2
  <2>3. purpose[c] # "save"
    BY <2>1 DEF Ordered, Purposeful
  <2> QED BY <2>2, <2>3 DEF Examine, Goto, Onward
<1>4. pc'[c] \in Recovering => purpose'[c] = "save"
  <2>1. CASE Examine(c) \/ Applied(c)
    BY <1>3, <2>1 DEF Applied, Recovering
  <2>2. CASE Remove(c) \/ Copy(c) \/ Clear(c)
    BY <1>1, <2>2 DEF Remove, Copy, Clear, At, Recovering, local
  <2>3. CASE ~(\/ Examine(c) \/ Applied(c) \/ Remove(c) \/ Copy(c) \/ Clear(c)) /\ pc' # pc
    <3>1. pc'[c] \notin Recovering
      BY <2>3 DEF ClientStep, Look, InitProject, Acquire, Reap, Release, Access, AssertNoLock,
         Cleared, Read, Loaded, CheckHead, StageManifest, Stage, MoveToBackup, BackupCreated,
         MoveIntoPlace, RenameFails, Crash, Goto, Step, GiveUp, AssertHead, Onward, Recovering, files, local
    <3> QED BY <3>1
  <2>4. CASE ~(\/ Examine(c) \/ Applied(c) \/ Remove(c) \/ Copy(c) \/ Clear(c)) /\ pc' = pc
    <3>1. pc[c] \notin Recovering
      BY <2>4 DEF ClientStep, Look, InitProject, Acquire, Reap, Release, Access, AssertNoLock,
         Cleared, Read, Loaded, CheckHead, StageManifest, Stage, MoveToBackup, BackupCreated,
         MoveIntoPlace, RenameFails, Crash, At, Goto, Step, GiveUp, AssertHead, Onward, Recovering, Over
    <3> QED BY <2>4, <3>1
  <2> QED BY <2>1, <2>2, <2>3, <2>4
<1>5. ASSUME \A d \in Client : ~Working(d)' PROVE NothingLeft' /\ canonical'[Project] # Absent
  <2>1. CASE ~Working(c)
    <3>1. \A d \in Client : ~Working(d)
      BY <1>2, <1>5, <2>1 DEF Working
    <3>2. UNCHANGED files
      BY <2>1 DEF ClientStep, Working, Recovering, Replacing, At, Look, InitProject, Acquire, Reap, Release,
         Access, AssertNoLock, Examine, Remove, Copy, Clear, Cleared, Read, Loaded, CheckHead,
         StageManifest, Stage, MoveToBackup, BackupCreated, MoveIntoPlace, Applied, RenameFails, Crash
    <3> QED BY <1>1, <3>1, <3>2 DEF files, NothingLeft
  <2>2. CASE Working(c)
    <3>1. ~RenameFails(c) /\ ~Crash(c)
      <4>1. purpose[c] # "load"
        BY <1>1, <2>2 DEF Working, Ordered, Purposeful
      <4>2. RenameFails(c) => purpose'[c] # "load" /\ outcome'[c] = "failed"
        BY <4>1 DEF RenameFails, Ends, local
      <4>3. Crash(c) => purpose'[c] # "load" /\ pc'[c] = "dead"
        BY <4>1 DEF Crash, Goto, local
      <4> QED BY <4>2, <4>3 DEF Interrupted
    <3>2. Cleared(c)
      BY <1>5, <2>2, <3>1 DEF ClientStep, Working, Recovering, Replacing, At, Look, InitProject, Acquire, Reap,
         Release, Access, AssertNoLock, Examine, Remove, Copy, Clear, Read, Loaded, CheckHead,
         StageManifest, Stage, MoveToBackup, BackupCreated, MoveIntoPlace, Applied, Goto, Step, local
    <3>3. PICK a \in Aggregate : canonical = Whole(a)
      BY <3>2 DEF Cleared, At, FilesOf
    <3> QED BY <3>2, <3>3, WholeContents DEF Cleared, files, NothingLeft
  <2> QED BY <2>1, <2>2
<1> QED BY <1>2, <1>1, <1>4, <1>5

\* A client's reading and its head are not disturbed by the steps of others.
LEMMA HeadsOthers ==
  ASSUME KeptInv, HeadsInv, Record, TypeOK', NEW c \in Client, ClientStep(c), ~Tears(c), NEW d \in Client, d # c
  PROVE  HeadsOf(d)'
<1> USE DEF KeptInv, HeadsInv
<1>1. /\ pc'[d] = pc[d] /\ at'[d] = at[d] /\ purpose'[d] = purpose[d]
      /\ view'[d] = view[d] /\ head'[d] = head[d] /\ outcome'[d] = outcome[d]
  BY Frame
<1>2. pc[d] \in {"read", "check"} /\ Steady(d)' => canonical' = canonical /\ Steady(d) /\ Recovered' = canonical'
  <2> SUFFICES ASSUME pc[d] \in {"read", "check"}, Steady(d)'
               PROVE  canonical' = canonical /\ Steady(d) /\ Recovered' = canonical'
    OBVIOUS
  <2>1. purpose[d] = "source" => canonical' = canonical /\ Steady(d)
    BY SourceUndisturbed DEF files, Steady
  <2>2. purpose[d] # "source" => canonical' = canonical /\ Steady(d)
    <3> SUFFICES ASSUME purpose[d] # "source" PROVE canonical' = canonical /\ Steady(d)
      OBVIOUS
    <3>1. purpose[d] = "load" /\ d \notin mixed'
      BY <1>1 DEF Steady, Ordered, Purposeful
    <3> QED BY <1>1, <3>1 DEF Record, Fetches, Steady
  <2>3. canonical' = canonical /\ Steady(d)
    BY <2>1, <2>2
  <2>4. Recovered = canonical
    BY <2>3 DEF HeadsOf
  <2>5. Applied(c) => canonical = Whole(c)
    BY DEF Applied, At, FilesOf
  <2> QED BY <2>3, <2>4, <2>5, RecoveredStep
<1>3. purpose[d] = "apply" /\ pc[d] \in {"assert", "examine"} \cup Recovering \cup Replacing
        => Recovered' = Recovered
  <2>1. Applied(c) => purpose[c] = "apply" /\ pc[c] = "apply_manifest"
    BY DEF Applied, At, Ordered, Purposeful, Replacing
  <2>2. purpose[d] = "apply" /\ pc[d] \in {"assert", "examine"} \cup Recovering \cup Replacing
          => ~Applied(c)
    BY <2>1 DEF Ordered, Apart, Locked, Reading, Saving, Recovering, Replacing
  <2> QED BY <2>2, RecoveredStep
<1>4. Interrupted => Interrupted'
  BY InterruptedStays
<1> QED BY <1>1, <1>2, <1>3, <1>4 DEF HeadsOf

LEMMA HeadsOwnRead ==
  ASSUME KeptInv, HeadsInv, Record, TypeOK', NEW c \in Client, Read(c)
  PROVE  HeadsOf(c)'
<1> USE DEF KeptInv, TypeOK, HeadsInv
<1>0. /\ Steady(c)' => Steady(c)
      /\ Steady(c) => Recovered' = canonical'
  <2>1. pc[c] = "read" /\ pc'[c] \in {"read", "check"} /\ purpose' = purpose /\ canonical' = canonical
    BY DEF Read, At, Step, Goto, files
  <2>2. Recovered' = Recovered
    BY RecoveredUntouched DEF Tears, Crash, Read, At, Over
  <2> QED BY <2>1, <2>2 DEF Steady, Record, Fetches, HeadsOf, Ordered, Purposeful
<1>1. /\ pc[c] = "read" /\ at[c] \in Entry /\ Entries \in Nat
      /\ canonical' = canonical /\ purpose' = purpose /\ outcome' = outcome
      /\ Steady(c) => \A e \in Entry : e < at[c] => view[c][e] = canonical[e]
  BY ReplaceAssumption DEF ReplaceAssumption, HeadsOf, Read, At, Entry, files
<1>2. Steady(c) => \A e \in Entry : e <= at[c] => view'[c][e] = canonical'[e]
  BY <1>1 DEF Read, Contents, Entry
<1>3. outcome'[c] = "none" /\ purpose'[c] # "apply"
  BY <1>1 DEF HeadsOf, Over, Ordered, Purposeful
<1>4. CASE at[c] < Entries
  <2>1. pc'[c] = "read" /\ at'[c] = at[c] + 1
    BY <1>1, <1>4 DEF Read, Step
  <2>2. \A e \in Entry : e < at'[c] => e <= at[c]
    BY <1>1, <2>1 DEF Entry
  <2> QED BY <1>0, <1>2, <1>3, <2>1, <2>2 DEF HeadsOf
<1>5. CASE ~(at[c] < Entries)
  <2>1. pc'[c] = "check"
    BY <1>1, <1>5 DEF Read, Step, Goto
  <2>2. Steady(c) => \A e \in Entry : view'[c][e] = canonical'[e]
    BY <1>1, <1>2, <1>5 DEF Entry
  <2>3. Steady(c) => view'[c] = canonical'
    BY <2>2, SameContents
  <2> QED BY <1>0, <1>3, <2>1, <2>3 DEF HeadsOf
<1> QED BY <1>4, <1>5

LEMMA HeadsOwn ==
  ASSUME KeptInv, HeadsInv, Record, TypeOK', NEW c \in Client, ClientStep(c), ~Tears(c)
  PROVE  HeadsOf(c)'
<1> USE DEF KeptInv, TypeOK, HeadsInv
<1>1. CASE Read(c)
  BY <1>1, HeadsOwnRead
<1>2. CASE CheckHead(c)
  <2>1. Recovered' = Recovered /\ pc[c] = "check" /\ purpose[c] = "source" /\ view[c] = Recovered
        /\ outcome[c] = "none" /\ head' = head
    BY <1>2, RecoveredUntouched DEF CheckHead, At, HeadsOf, Steady, Over
  <2>2. \/ pc'[c] = "release" /\ purpose'[c] = "source"
        \/ pc'[c] = "assert" /\ purpose'[c] = "apply" /\ view[c] = head[c] /\ outcome' = outcome
    BY <1>2, <2>1 DEF CheckHead, GiveUp, AssertHead, Goto
  <2> QED BY <2>1, <2>2 DEF HeadsOf, Recovering, Replacing, Over
<1>3. CASE Applied(c)
  <2>1. pc'[c] = "clear" /\ purpose'[c] = "save"
    BY <1>3 DEF Applied, Goto
  <2> QED BY <2>1 DEF HeadsOf
<1>4. CASE Look(c) \/ Acquire(c) \/ Reap(c) \/ Release(c) \/ AssertNoLock(c)
  <2>1. Recovered' = Recovered
    BY <1>4, RecoveredUntouched
  <2>2. purpose'[c] # "apply" \/ (pc'[c] = "examine" /\ pc[c] = "assert" /\ purpose'[c] = purpose[c])
        \/ (pc' = pc /\ purpose' = purpose) \/ pc'[c] \in {"release", "done"}
    BY <1>4 DEF Look, Acquire, Reap, Release, AssertNoLock, Goto, local, At, Ordered,
       Purposeful
  <2>3. pc'[c] \notin {"read", "check"} /\ head' = head
    BY <1>4 DEF Look, Acquire, Reap, Release, AssertNoLock, Goto, local, At
  <2>4. pc'[c] \notin Over \cup {"release"} /\ purpose'[c] # "save" => outcome'[c] = "none"
    BY <1>4 DEF Look, Acquire, Reap, Release, AssertNoLock, Goto, local, At, Over,
       Ordered, Purposeful, HeadsOf
  <2>5. Interrupted => Interrupted'
    BY InterruptedStays
  <2> QED BY <2>1, <2>2, <2>3, <2>4, <2>5 DEF HeadsOf, Recovering, Replacing
<1>7. CASE InitProject(c)
  <2>1. pc'[c] = "loaded" /\ purpose'[c] = "load" /\ outcome'[c] = "none"
    BY <1>7 DEF InitProject, At, Goto, HeadsOf, Over, Ordered, Purposeful
  <2> QED BY <2>1 DEF HeadsOf, Over
<1>8. CASE Access(c)
  <2>1. pc[c] = "access" /\ purpose[c] \in {"load", "source"} /\ outcome[c] = "none" /\ head' = head
    BY <1>8 DEF Access, At, Ordered, Purposeful, HeadsOf, Over
  <2>2. \/ pc'[c] = "assert" /\ purpose'[c] = purpose[c] /\ outcome' = outcome
        \/ pc'[c] \in {"done", "release"}
        \/ /\ pc'[c] = "assert" /\ outcome' = outcome /\ head[c] = Empty
           /\ purpose[c] = "source" /\ canonical[Project] = Absent
    BY <1>8 DEF Access, Goto, GiveUp, AssertHead
  <2>3. purpose[c] = "source" /\ canonical[Project] = Absent => Interrupted
    BY <2>1, NobodyElseWorks DEF Untorn
  <2>4. Interrupted => Interrupted'
    BY InterruptedStays
  <2> QED BY <2>1, <2>2, <2>3, <2>4 DEF HeadsOf, Over, Recovering, Replacing
<1>5. CASE Loaded(c) \/ RenameFails(c) \/ Crash(c)
  <2>1. pc'[c] \in {"loaded", "done", "release", "dead"}
    BY <1>5 DEF Loaded, RenameFails, Crash, Goto, GiveUp, AssertHead, At
  <2>2. pc'[c] = "loaded" => outcome'[c] = "none"
    BY <1>5 DEF Loaded, RenameFails, Crash, Goto, GiveUp, AssertHead, At, Over, HeadsOf
  <2> QED BY <2>1, <2>2 DEF HeadsOf, Over, Recovering, Replacing
<1>6. CASE \/ Examine(c) \/ Remove(c) \/ Copy(c) \/ Clear(c) \/ Cleared(c) \/ StageManifest(c)
           \/ Stage(c) \/ MoveToBackup(c) \/ BackupCreated(c) \/ MoveIntoPlace(c)
  <2>1. Recovered' = Recovered /\ head' = head /\ purpose' = purpose /\ outcome' = outcome
    BY <1>6, RecoveredStep DEF Examine, Remove, Copy, Clear, Cleared, StageManifest, Stage, MoveToBackup,
       BackupCreated, MoveIntoPlace, Applied, At, local
  <2>2. pc[c] \in {"assert", "examine"} \cup Recovering \cup Replacing
    BY <1>6 DEF Examine, Remove, Copy, Clear, Cleared, StageManifest, Stage, MoveToBackup,
       BackupCreated, MoveIntoPlace, At, Recovering, Replacing
  <2>3. pc'[c] # "check" /\ (pc'[c] = "read" => at'[c] = 1 /\ NothingLeft /\ UNCHANGED files)
    BY <1>6 DEF Examine, Remove, Copy, Clear, Cleared, StageManifest, Stage, MoveToBackup,
       BackupCreated, MoveIntoPlace, At, Goto, Step, local, Onward, Ordered, Purposeful, Over
  <2>7. pc'[c] = "read" => Recovered' = canonical'
    BY <2>3 DEF NothingLeft, files, Recovered
  <2>4. \A e \in Entry : ~(e < 1)
    BY ReplaceAssumption DEF ReplaceAssumption, Entry
  <2>5. purpose[c] # "save" => outcome[c] = "none"
    BY <2>2 DEF HeadsOf, Over, Recovering, Replacing
  <2>6. Interrupted => Interrupted'
    BY InterruptedStays
  <2> QED BY <2>1, <2>2, <2>3, <2>4, <2>5, <2>6, <2>7 DEF HeadsOf
<1> QED BY <1>1, <1>2, <1>3, <1>4, <1>5, <1>6, <1>7, <1>8 DEF ClientStep

\* A step that decides no outcome, loads nothing and interrupts no save is a
\* stutter of the register.
LEMMA StepIsRegister ==
  ASSUME KeptInv, HeadsInv, TypeOK', UNCHANGED overrun, NEW c \in Client, ClientStep(c), ~Tears(c)
  PROVE  [Register!Next]_(Register!vars)
<1> USE DEF KeptInv, TypeOK, HeadsInv
<1>1. CASE Applied(c)
  <2>1. /\ Recovered' = Whole(c) /\ outcome[c] = "none"
        /\ head[c] = Recovered \/ (head[c] = Empty /\ Interrupted)
    BY <1>1, RecoveredApplied DEF Applied, At, HeadsOf, Replacing, Over, Ordered, Purposeful
  <2>2. outcome' = [outcome EXCEPT ![c] = "landed"] /\ head' = head
    BY <1>1 DEF Applied, Ends
  <2>3. Interrupted' = Interrupted
    <3>1. pc[c] = "apply_manifest" /\ pc'[c] # "dead"
      BY <1>1 DEF Applied, At, Goto
    <3> QED BY <3>1, InterruptedSame DEF RenameFails, Crash, Goto
  <2>4. Register!Save(c)
    BY <2>1, <2>2, <2>3 DEF Register!Save
  <2> QED BY <2>4 DEF Register!Next
<1>2. CASE Loaded(c) /\ outcome' = outcome
  <2>1. Recovered' = Recovered /\ outcome[c] = "none" /\ (c \notin mixed => view[c] = Recovered)
    BY <1>2, RecoveredUntouched DEF Loaded, At, HeadsOf, Steady, Over
  <2>2. head' = [head EXCEPT ![c] = view[c]] \/ head' = head
    BY <1>2 DEF Loaded
  <2>3. Interrupted' = Interrupted
    BY <1>2, InterruptedSame DEF Loaded, RenameFails, Crash, At, GiveUp, Goto
  <2>4. CASE head' = [head EXCEPT ![c] = view[c]]
    <3>1. head'[c] = view[c]
      BY <2>4
    <3>2. Register!Load(c)
      BY <1>2, <2>1, <2>3, <2>4, <3>1 DEF Register!Load
    <3> QED BY <3>2 DEF Register!Next
  <2>5. CASE head' = head
    BY <1>2, <2>1, <2>3, <2>5 DEF Register!vars
  <2> QED BY <2>2, <2>4, <2>5
<1>3. CASE InitProject(c)
  <2>1. Recovered' = Recovered /\ outcome[c] = "none" /\ outcome' = outcome
    BY <1>3, RecoveredUntouched DEF InitProject, At, HeadsOf, Over, Ordered, Purposeful
  <2>2. Interrupted' = Interrupted
    BY <1>3, InterruptedSame DEF InitProject, RenameFails, Crash, At, Over
  <2>3. Register!Create(c)
    BY <1>3, <2>1, <2>2 DEF InitProject, Register!Create
  <2> QED BY <2>3 DEF Register!Next
<1>4. CASE ~Applied(c) /\ ~Loaded(c) /\ ~InitProject(c) /\ outcome' = outcome
  <2>1. Recovered' = Recovered
    BY <1>4, RecoveredStep
  <2>2. head' = head
    BY <1>4 DEF ClientStep, local, Look, Acquire, Reap, Release, Access, AssertNoLock, Examine, Remove,
       Copy, Clear, Cleared, Read, CheckHead, StageManifest, Stage, MoveToBackup, BackupCreated,
       MoveIntoPlace, RenameFails, Crash
  <2>3. Interrupted => Interrupted'
    BY InterruptedStays
  <2>4. CASE Interrupted' = Interrupted
    BY <1>4, <2>1, <2>2, <2>4 DEF Register!vars
  <2>5. CASE Interrupted' /\ ~Interrupted
    BY <1>4, <2>1, <2>2, <2>5 DEF Register!Interrupt, Register!Next, Interrupted
  <2> QED BY <2>3, <2>4, <2>5 DEF Interrupted
<1>5. CASE ~Applied(c) /\ outcome' # outcome
  <2>1. Access(c) \/ Loaded(c) \/ CheckHead(c) \/ RenameFails(c)
    BY <1>5 DEF ClientStep, local, Look, InitProject, Acquire, Reap, Release, AssertNoLock, Examine, Remove,
       Copy, Clear, Cleared, Read, StageManifest, Stage, MoveToBackup, BackupCreated,
       MoveIntoPlace, Crash
  <2>2. Recovered' = Recovered /\ head' = head
    BY <1>5, <2>1, RecoveredUntouched DEF Access, Loaded, CheckHead, RenameFails, GiveUp, AssertHead, local
  <2>3. outcome[c] = "none"
    BY <2>1 DEF Access, Loaded, CheckHead, RenameFails, At, HeadsOf, Over, Ordered, Purposeful, Replacing
  <2>4. \E why \in {"absent", "invalid", "stale", "failed"} : outcome' = [outcome EXCEPT ![c] = why]
    BY <1>5, <2>1 DEF Access, Loaded, CheckHead, RenameFails, GiveUp, AssertHead, Ends
  <2>5. Interrupted => Interrupted'
    BY InterruptedStays
  <2>6. Interrupted' \in {Interrupted, TRUE}
    BY <2>5 DEF Interrupted
  <2>7. Register!Fail(c)
    BY <2>2, <2>3, <2>4, <2>6 DEF Register!Fail
  <2> QED BY <2>7 DEF Register!Next
<1> QED BY <1>1, <1>2, <1>3, <1>4, <1>5

LEMMA HeadsStep ==
  ASSUME TypeOK, TypeOK', ~overrun => KeptInv /\ HeadsInv, [Next]_vars
  PROVE  ~overrun' => HeadsInv'
<1>1. CASE UNCHANGED vars
  BY <1>1 DEF vars, files, local, HeadsInv, HeadsOf, Steady, Recovered, At, Untorn, Interrupted, Working, NothingLeft
<1>2. ASSUME Next, ~overrun', NEW c \in Client, ClientStep(c) PROVE HeadsInv'
  <2>1. KeptInv /\ HeadsInv /\ Alone' /\ Record /\ ~Tears(c)
    BY <1>2, NoOverrun
  <2>2. Untorn'
    BY <1>2, <2>1, UntornStep
  <2>3. \A d \in Client : HeadsOf(d)'
    BY <1>2, <2>1, HeadsOwn, HeadsOthers
  <2> QED BY <2>2, <2>3 DEF HeadsInv
<1> QED BY <1>1, <1>2 DEF Next

\* Every step is a step of the register, or a stutter; once there was an
\* overrun the register promises nothing.
LEMMA RegisterStep ==
  ASSUME TypeOK, TypeOK', ~overrun => KeptInv /\ HeadsInv, [Next]_vars
  PROVE  [Register!Next]_(Register!vars)
<1>1. CASE UNCHANGED vars
  BY <1>1 DEF vars, files, local, Register!vars, Recovered, Interrupted, At
<1>2. CASE overrun' = TRUE
  BY <1>2 DEF Register!Next
<1>3. ASSUME Next, ~overrun', NEW c \in Client, ClientStep(c) PROVE [Register!Next]_(Register!vars)
  <2>1. KeptInv /\ HeadsInv /\ ~Tears(c) /\ ~overrun
    BY <1>3, NoOverrun
  <2>2. UNCHANGED overrun
    BY <1>3, <2>1 DEF TypeOK
  <2> QED BY <1>3, <2>1, <2>2, StepIsRegister
<1> QED BY <1>1, <1>2, <1>3 DEF Next, TypeOK

\* Canonical storage is a register: a save takes effect at one step, over the
\* aggregate its client loaded, a load that is not mixed up with a save returns
\* what the last such save wrote, and no crash, failed rename or recovery
\* changes it, until there is an overrun.
THEOREM StorageIsRegister == Spec => ImplementsRegister
<1>1. Init => Register!Init
  BY DEF Init, Register!Init, Recovered, Interrupted
<1>2. Init => (~overrun => KeptInv /\ HeadsInv)
  BY KeptInit, HeadsInit
<1>3. TypeOK /\ TypeOK' /\ (~overrun => KeptInv /\ HeadsInv) /\ [Next]_vars => (~overrun' => KeptInv' /\ HeadsInv')
  BY KeptStep, HeadsStep
<1>4. TypeOK /\ TypeOK' /\ (~overrun => KeptInv /\ HeadsInv) /\ [Next]_vars => [Register!Next]_(Register!vars)
  BY RegisterStep
<1> QED
  BY <1>1, <1>2, <1>3, <1>4, TypeCorrect, PTL
  DEF Spec, ImplementsRegister, Register!Spec
=============================================================================
