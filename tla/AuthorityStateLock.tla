-------------------------- MODULE AuthorityStateLock --------------------------
(***************************************************************************)
(* The local authority state file and its lock directory                   *)
(* (LocalL3AuthorityStateFile).  A transaction acquires the lock, reads    *)
(* the state, computes, asserts that it still owns the lock, reads the     *)
(* revision again, asserts once more, replaces the file and releases.      *)
(*                                                                         *)
(* Granularity: one action per file-system call on the state file or the   *)
(* lock path.  The lock directory is created under another name with its   *)
(* metadata in it and renamed into place, so it never lacks metadata; all  *)
(* other steps on it, taking it over and releasing it included, are a look *)
(* followed by a rename of whatever is there by then.                      *)
(*                                                                         *)
(* Each transaction runs once.  The locked validation that initialize does *)
(* after creating the file is a transaction that changes nothing.          *)
(***************************************************************************)
EXTENDS Naturals

CONSTANTS Process,     \* operating-system process ids
          Txn,         \* transactions, each with a lockId of its own
          TxnProcess,  \* the process each transaction runs in
          Mortal,      \* processes that may die
          Reused,      \* process ids that may be given to another process
          LateBeats,   \* whether a live owner's heartbeats may come too late
          FileExists,  \* whether the state file is there at the start
          Absent, NoLock

ASSUME LockAssumption ==
  /\ TxnProcess \in [Txn -> Process]
  /\ Mortal \subseteq Process /\ Reused \subseteq Process
  /\ LateBeats \in BOOLEAN /\ FileExists \in BOOLEAN
  /\ NoLock \notin Txn \cup [id : Txn, pid : Process, lapsed : BOOLEAN]
  /\ Absent \notin [rev : Nat, done : SUBSET Txn]

VARIABLES
  file,     \* the state file
  lock,     \* the lock directory and its metadata.json
  running,  \* which process ids answer kill(pid, 0)
  pc,       \* where each transaction is
  snap,     \* the state each transaction read
  seen,     \* whether a waiter saw the lock directory's mtime lapsed
  beat,     \* each transaction's heartbeat
  \* History variables: no step depends on them.
  judged,   \* whose lock each waiter has judged stale, NoLock if it was gone
  robbed    \* whether a waiter has ever renamed away another lock than that

vars == <<file, lock, running, pc, snap, seen, beat, judged, robbed>>

\* A state is its revision and the transactions it holds the effects of.
State == [rev : Nat, done : SUBSET Txn]
EmptyState == [rev |-> 0, done |-> {}]

Lock == [id : Txn, pid : Process, lapsed : BOOLEAN]

\* Faulty variant: metadata written without its timestamps.
OwnLockUnstamped(t) == [id |-> t, pid |-> TxnProcess[t]]

OwnLock(t) == [id |-> t, pid |-> TxnProcess[t], lapsed |-> FALSE]

\* Phases between acquiring and releasing the lock, while the heartbeat runs.
Holding == {"read", "assert", "reread", "reassert", "write"}
Waiting == {"try", "contended", "stat", "judge", "steal"}
Over == {"done", "failed", "dead"}
Phases == Holding \cup Waiting \cup Over \cup {"start", "create", "release", "unlock"}

At(t, phase) == pc[t] = phase
Goto(t, phase) == pc' = [pc EXCEPT ![t] = phase]

Init ==
  /\ file = IF FileExists THEN EmptyState ELSE Absent
  /\ lock = NoLock
  /\ running = [p \in Process |-> TRUE]
  /\ pc = [t \in Txn |-> "start"]
  /\ snap = [t \in Txn |-> EmptyState]
  /\ seen = [t \in Txn |-> FALSE]
  /\ beat = [t \in Txn |-> "idle"]
  /\ judged = [t \in Txn |-> NoLock]
  /\ robbed = FALSE

-----------------------------------------------------------------------------
(* initialize, before it takes the lock.                                   *)

\* The check that the file exists ...
Probe(t) ==
  /\ At(t, "start")
  /\ Goto(t, IF file = Absent THEN "create" ELSE "try")
  /\ UNCHANGED <<file, lock, running, snap, seen, beat, judged, robbed>>

\* ... and the replacement of whatever is there by then.
Create(t) ==
  /\ At(t, "create")
  /\ file' = EmptyState
  /\ Goto(t, "try")
  /\ UNCHANGED <<lock, running, snap, seen, beat, judged, robbed>>

-----------------------------------------------------------------------------
(* acquireLock.                                                            *)

\* Faulty variant: the lock directory is replaced when it is in the way.
AttemptForced(t) ==
  /\ At(t, "try")
  /\ lock' = OwnLock(t) /\ Goto(t, "read")
  /\ UNCHANGED <<file, running, snap, seen, beat, judged, robbed>>

\* Rename the candidate onto the lock path: fails if there is a lock.
Attempt(t) ==
  /\ At(t, "try")
  /\ IF lock = NoLock
     THEN lock' = OwnLock(t) /\ Goto(t, "read")
     ELSE Goto(t, "contended") /\ UNCHANGED lock
  /\ UNCHANGED <<file, running, snap, seen, beat, judged, robbed>>

\* Was it contention?  If the lock is gone by now the rename error itself is
\* thrown (and only Windows tries again).
Contended(t) ==
  /\ At(t, "contended")
  /\ IF lock = NoLock THEN \E next \in {"failed", "try"} : Goto(t, next)
     ELSE Goto(t, "stat")
  /\ UNCHANGED <<file, lock, running, snap, seen, beat, judged, robbed>>

Stat(t) ==
  /\ At(t, "stat")
  /\ IF lock = NoLock
     THEN Goto(t, "try") /\ UNCHANGED seen
     ELSE Goto(t, "judge") /\ seen' = [seen EXCEPT ![t] = lock.lapsed]
  /\ UNCHANGED <<file, lock, running, snap, beat, judged, robbed>>

\* Faulty variant: takeover on the passage of time alone.
NobodyAlive(l) == FALSE

\* isProcessAlive of the owner; a lock without metadata has no owner.
OwnerAlive(l) == l # NoLock /\ running[l.pid]

\* Faulty variant: the time of the last renewal cannot be read.
LeaseNeverExpired(t) == FALSE

\* The lease has expired by the metadata, or, if the directory has meanwhile
\* been renamed away, by the time lstat reported for it.
LeaseExpired(t) ==
  IF lock = NoLock THEN seen[t] ELSE lock.lapsed

Judge(t) ==
  /\ At(t, "judge")
  /\ IF LeaseExpired(t) /\ ~OwnerAlive(lock)
     THEN /\ Goto(t, "steal")
          /\ judged' = [judged EXCEPT ![t] = IF lock = NoLock THEN NoLock ELSE lock.id]
     ELSE Goto(t, "try") /\ UNCHANGED judged
  /\ seen' = [seen EXCEPT ![t] = FALSE]
  /\ UNCHANGED <<file, lock, running, snap, beat, robbed>>

\* The lock directory is renamed away, whoever's it is by now.
Steal(t) ==
  /\ At(t, "steal")
  /\ lock' = NoLock
  /\ robbed' = (robbed \/ (lock # NoLock /\ lock.id # judged[t]))
  /\ judged' = [judged EXCEPT ![t] = NoLock]
  /\ Goto(t, "try")
  /\ UNCHANGED <<file, running, snap, seen, beat>>

Timeout(t) ==
  /\ At(t, "try")
  /\ Goto(t, "failed")
  /\ UNCHANGED <<file, lock, running, snap, seen, beat, judged, robbed>>

-----------------------------------------------------------------------------
(* transact, under the lock.                                               *)

HoldsLock(t) == lock # NoLock /\ lock.id = t

\* assertOwned waits for a heartbeat under way and fails if one has failed.
Owned(t) == beat[t] = "idle" /\ HoldsLock(t)

ReadState(t) ==
  /\ At(t, "read")
  /\ snap' = [snap EXCEPT ![t] = file]
  /\ Goto(t, "assert")
  /\ UNCHANGED <<file, lock, running, seen, beat, judged, robbed>>

Assert(t, here, there) ==
  /\ At(t, here)
  /\ beat[t] # "writing"
  /\ Goto(t, IF Owned(t) THEN there ELSE "release")
  /\ UNCHANGED <<file, lock, running, snap, seen, beat, judged, robbed>>

\* The revision must not have moved; a transaction that changed nothing
\* returns without writing.
Reread(t) ==
  /\ At(t, "reread")
  /\ \/ file.rev = snap[t].rev /\ Goto(t, "reassert")
     \/ Goto(t, "release")
  /\ UNCHANGED <<file, lock, running, snap, seen, beat, judged, robbed>>

\* Faulty variant: the revision is not raised.
WriteSameRevision(t) ==
  /\ At(t, "write")
  /\ file' = [rev |-> snap[t].rev, done |-> snap[t].done \cup {t}]
  /\ Goto(t, "release")
  /\ UNCHANGED <<lock, running, snap, seen, beat, judged, robbed>>

\* writeAtomic: the file is replaced by a rename.
Write(t) ==
  /\ At(t, "write")
  /\ file' = [rev |-> snap[t].rev + 1, done |-> snap[t].done \cup {t}]
  /\ Goto(t, "release")
  /\ UNCHANGED <<lock, running, snap, seen, beat, judged, robbed>>

\* release stops the heartbeat, and looks whose lock it is ...
Release(t) ==
  /\ At(t, "release")
  /\ beat[t] # "writing"
  /\ Goto(t, IF HoldsLock(t) THEN "unlock" ELSE "done")
  /\ beat' = [beat EXCEPT ![t] = "idle"]
  /\ UNCHANGED <<file, lock, running, snap, seen, judged, robbed>>

\* ... before it renames it away.
Unlock(t) ==
  /\ At(t, "unlock")
  /\ lock' = NoLock
  /\ Goto(t, "done")
  /\ UNCHANGED <<file, running, snap, seen, beat, judged, robbed>>

\* renewLock: reads the metadata, and writes its own to the lock path.
BeatRead(t) ==
  /\ pc[t] \in Holding
  /\ beat[t] = "idle"
  /\ beat' = [beat EXCEPT ![t] = IF HoldsLock(t) THEN "writing" ELSE "failed"]
  /\ UNCHANGED <<file, lock, running, pc, snap, seen, judged, robbed>>

BeatWrite(t) ==
  /\ beat[t] = "writing"
  /\ IF lock = NoLock
     THEN beat' = [beat EXCEPT ![t] = "failed"] /\ UNCHANGED lock
     ELSE beat' = [beat EXCEPT ![t] = "idle"] /\ lock' = OwnLock(t)
  /\ UNCHANGED <<file, running, pc, snap, seen, judged, robbed>>

-----------------------------------------------------------------------------
(* The environment.                                                        *)

\* 30 seconds pass without a heartbeat.
Lapse ==
  /\ lock # NoLock
  /\ ~lock.lapsed
  /\ LateBeats \/ ~running[lock.pid]
  /\ lock' = [lock EXCEPT !.lapsed = TRUE]
  /\ UNCHANGED <<file, running, pc, snap, seen, beat, judged, robbed>>

Exit(p) ==
  /\ p \in Mortal
  /\ running[p]
  /\ running' = [running EXCEPT ![p] = FALSE]
  /\ pc' = [t \in Txn |-> IF TxnProcess[t] = p /\ pc[t] \notin Over THEN "dead" ELSE pc[t]]
  /\ beat' = [t \in Txn |-> IF TxnProcess[t] = p THEN "idle" ELSE beat[t]]
  /\ UNCHANGED <<file, lock, snap, seen, judged, robbed>>

\* The process id of a dead process is given to another one.
Reuse(p) ==
  /\ p \in Reused
  /\ ~running[p]
  /\ running' = [running EXCEPT ![p] = TRUE]
  /\ UNCHANGED <<file, lock, pc, snap, seen, beat, judged, robbed>>

-----------------------------------------------------------------------------
Wait(t) == Attempt(t) \/ Contended(t) \/ Stat(t) \/ Judge(t) \/ Steal(t)

Transact(t) ==
  \/ ReadState(t) \/ Assert(t, "assert", "reread") \/ Reread(t)
  \/ Assert(t, "reassert", "write") \/ Write(t) \/ Release(t) \/ Unlock(t)

Step(t) == Probe(t) \/ Create(t) \/ Wait(t) \/ Transact(t) \/ BeatWrite(t)

Terminated == (\A t \in Txn : pc[t] \in Over) /\ UNCHANGED vars

Next ==
  \/ \E t \in Txn : Step(t) \/ Timeout(t) \/ BeatRead(t)
  \/ Lapse
  \/ \E p \in Process : Exit(p) \/ Reuse(p)
  \/ Terminated

Spec == Init /\ [][Next]_vars

\* A transaction runs on as long as its process does (its assertions, again
\* and again between two heartbeats), and a lock that nobody renews lapses.
\* Nothing forces a wait to time out, a heartbeat to come, or a process to die.
Fairness ==
  /\ WF_vars(Lapse)
  /\ \A t \in Txn : /\ WF_vars(Probe(t) \/ Create(t) \/ Wait(t))
                    /\ WF_vars(BeatWrite(t))
                    /\ SF_vars(Transact(t))

LiveSpec == Spec /\ Fairness

-----------------------------------------------------------------------------
(* Properties.                                                             *)

TypeOK ==
  /\ file \in State \cup {Absent}
  /\ lock \in Lock \cup {NoLock}
  /\ running \in [Process -> BOOLEAN]
  /\ pc \in [Txn -> Phases]
  /\ snap \in [Txn -> State]
  /\ seen \in [Txn -> BOOLEAN]
  /\ beat \in [Txn -> {"idle", "writing", "failed"}]
  /\ judged \in [Txn -> Txn \cup {NoLock}]
  /\ robbed \in BOOLEAN

\* Until a waiter has renamed away another lock than the one it judged stale, two
\* transactions are never under the lock together (acquireLock, releaseOwnedLock).
OneHolder ==
  ~robbed => \A t, u \in Txn : pc[t] \in Holding /\ pc[u] \in Holding => t = u

\* The state as the next transaction finds it: one that is past its revision
\* check will replace the file whatever an initialization puts there.
Checked == {t \in Txn : pc[t] \in {"reassert", "write"}}
Current == IF file = Absent THEN EmptyState ELSE file
Settled == IF Checked = {} THEN Current ELSE snap[CHOOSE t \in Checked : TRUE]

\* The file implements atomic transactions: read, compute and replace are one
\* step, on top of everything written before (transact).  If there is no file
\* at the start, only an initialization may undo them (initialize).  The
\* promise is void once a waiter has removed another lock than it judged.
Transactions == INSTANCE StateTransactions
                  WITH state <- Settled, void <- robbed, Unborn <- ~FileExists
ImplementsTransactions == Transactions!Spec

\* What was written stays: no writer, and no initialization, replaces the
\* file by a state that misses an earlier transaction.
WritesStay == [][Current.done \subseteq Current'.done]_vars

\* Until a waiter has renamed away another lock than the one it judged stale, the
\* lock is that of its owner until this one unlocks it or has died: a release
\* or a heartbeat that comes late never touches a newer owner's lock, and the
\* owner a waiter has judged dead does not come back.
OnlyDeadLosesLock ==
  [][~robbed' /\ lock # NoLock =>
       IF lock' = NoLock THEN pc[lock.id] \in {"unlock", "dead"}
                         ELSE lock'.id = lock.id]_vars

\* The lock of a transaction that died, whose process id is another's now.
HeldByStranger == lock # NoLock /\ pc[lock.id] = "dead" /\ running[lock.pid]

\* A transaction that waits for the lock of a dead process, or of a live one,
\* gets the lock in the end, unless it gives up or dies itself, or the dead
\* owner's process id has been given to another process (isProcessAlive).
WaitersRun ==
  \A t \in Txn : pc[t] \in Waiting ~> pc[t] \notin Waiting \/ HeldByStranger
=============================================================================
