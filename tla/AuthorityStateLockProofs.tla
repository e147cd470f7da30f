----------------------- MODULE AuthorityStateLockProofs -----------------------
(***************************************************************************)
(* Theorems about the authority state file, for any number of transactions *)
(* and processes, whoever dies, whichever process id is used again and     *)
(* however late the heartbeats come.  What is stored is well formed        *)
(* whatever happens.  Mutual exclusion and atomicity hold up to one event: *)
(* a waiter that has judged a lock stale renames away what is there by the *)
(* time it comes to it, and that may be another lock.  Nothing else breaks *)
(* them: not a death, a lapsed lease, a reused process id, an              *)
(* initialization, a late release or heartbeat, nor any number of waiters. *)
(***************************************************************************)
EXTENDS AuthorityStateLock, TLAPS

\* Phases in which a transaction has the lock, release included.
Locked == Holding \cup {"release", "unlock"}

\* Nobody has looked for a lock, or read a state, before there was a file.
Untouched == \A t \in Txn : pc[t] \in {"start", "create", "dead"}

StoredInv == TypeOK /\ (file = Absent => Untouched)

\* A process takes all its transactions with it.
DeadTogether == \A t \in Txn : running[TxnProcess[t]] = FALSE => pc[t] \in Over

\* The lock names a transaction that has it, or that died with it.
LockNamesOwner ==
  lock # NoLock => lock.pid = TxnProcess[lock.id] /\ pc[lock.id] \in Locked \cup {"dead"}

\* Whoever has the lock is named by it, and every heartbeat finds it so.
OwnersLocked ==
  \A t \in Txn : /\ pc[t] \in Locked => HoldsLock(t)
                 /\ beat[t] # "failed"
                 /\ beat[t] = "writing" => pc[t] \in Holding \cup {"release"}

\* Whoever's lock a waiter is about to rename away, by its judgement, died.
JudgedDead ==
  \A t \in Txn : pc[t] = "steal" /\ judged[t] # NoLock => pc[judged[t]] = "dead"

\* What holds of the lock until a waiter removes another one than it judged ...
LockInv == StoredInv /\ DeadTogether /\ LockNamesOwner /\ OwnersLocked /\ JudgedDead

\* ... and of the file: nobody's snapshot misses what the file has while it is
\* used, only an initialization may have put the empty state under it, and a
\* transaction that is in either is over.
Using == {"assert", "reread", "reassert", "write"}
Kept  == {"release", "unlock", "done", "dead"}

Numbered(s) == s.rev = 0 => s = EmptyState

FileInv ==
  /\ \A t \in Txn : pc[t] \in Using =>
       /\ snap[t] = file \/ (file = EmptyState /\ ~FileExists)
       /\ Numbered(snap[t])
       /\ \A u \in snap[t].done : pc[u] \in Kept
  /\ file # Absent => Numbered(file) /\ \A u \in file.done : pc[u] \in Kept
  /\ FileExists => file # Absent /\ \A t \in Txn : pc[t] # "create"

\* The inductive invariant.
Inv == StoredInv /\ (robbed = FALSE => LockInv /\ FileInv)

-----------------------------------------------------------------------------
\* The lock a transaction writes is its own, and fresh.
LEMMA OwnLockFacts ==
  ASSUME NEW t \in Txn
  PROVE  /\ OwnLock(t) \in Lock /\ OwnLock(t) # NoLock
         /\ OwnLock(t).id = t /\ OwnLock(t).lapsed = FALSE
<1>1. TxnProcess[t] \in Process
  BY LockAssumption DEF LockAssumption
<1>2. OwnLock(t) \in Lock
  BY <1>1 DEF OwnLock, Lock
<1>3. NoLock \notin Lock
  BY LockAssumption DEF LockAssumption, Lock
<1> QED BY <1>2, <1>3 DEF OwnLock

LEMMA StoredInit == Init => StoredInv
<1> SUFFICES ASSUME Init PROVE StoredInv
  OBVIOUS
<1>1. EmptyState \in State
  BY DEF EmptyState, State
<1>2. file \in State \cup {Absent}
  BY <1>1 DEF Init
<1>3. \A t \in Txn : pc[t] = "start"
  BY DEF Init
<1>4. pc \in [Txn -> Phases]
  BY DEF Init, Phases
<1>5. /\ lock \in Lock \cup {NoLock} /\ running \in [Process -> BOOLEAN]
      /\ snap \in [Txn -> State] /\ seen \in [Txn -> BOOLEAN]
      /\ beat \in [Txn -> {"idle", "writing", "failed"}]
      /\ judged \in [Txn -> Txn \cup {NoLock}] /\ robbed \in BOOLEAN
  BY <1>1 DEF Init
<1> QED BY <1>2, <1>3, <1>4, <1>5 DEF StoredInv, Untouched, TypeOK

LEMMA StoredWait ==
  ASSUME StoredInv, NEW t \in Txn, Probe(t) \/ Create(t) \/ Wait(t) \/ Timeout(t)
  PROVE  StoredInv'
<1> USE DEF StoredInv, Untouched, TypeOK, At, Goto, Phases, Holding, Waiting, Over
<1>1. CASE Probe(t)
  BY <1>1 DEF Probe
<1>2. CASE Create(t)
  <2>1. EmptyState \in State /\ EmptyState # Absent
    BY LockAssumption DEF LockAssumption, EmptyState, State
  <2> QED BY <1>2, <2>1 DEF Create
<1>3. CASE Attempt(t)
  <2>1. OwnLock(t) \in Lock
    BY OwnLockFacts
  <2>2. lock' \in Lock \cup {NoLock}
    BY <1>3, <2>1 DEF Attempt
  <2> QED BY <1>3, <2>2 DEF Attempt
<1>4. CASE Contended(t)
  BY <1>4 DEF Contended
<1>5. CASE Stat(t)
  <2>1. seen' \in [Txn -> BOOLEAN]
    <3>1. CASE lock = NoLock
      BY <1>5, <3>1 DEF Stat
    <3>2. CASE lock # NoLock
      <4>1. lock.lapsed \in BOOLEAN
        BY <3>2 DEF Lock
      <4> QED BY <1>5, <3>2, <4>1 DEF Stat
    <3> QED BY <3>1, <3>2
  <2> QED BY <1>5, <2>1 DEF Stat
<1>6. CASE Judge(t)
  <2>1. seen' \in [Txn -> BOOLEAN]
    BY <1>6 DEF Judge
  <2>2. judged' \in [Txn -> Txn \cup {NoLock}]
    <3>1. lock # NoLock => lock.id \in Txn
      BY DEF Lock
    <3> QED BY <1>6, <3>1 DEF Judge
  <2> QED BY <1>6, <2>1, <2>2 DEF Judge
<1>7. CASE Steal(t)
  <2>1. robbed' \in BOOLEAN
    BY <1>7 DEF Steal
  <2> QED BY <1>7, <2>1 DEF Steal
<1>8. CASE Timeout(t)
  BY <1>8 DEF Timeout
<1> QED BY <1>1, <1>2, <1>3, <1>4, <1>5, <1>6, <1>7, <1>8 DEF Wait

LEMMA StoredTransact ==
  ASSUME StoredInv, NEW t \in Txn, Transact(t) \/ BeatRead(t) \/ BeatWrite(t)
  PROVE  StoredInv'
<1> USE DEF StoredInv, Untouched, TypeOK, At, Goto, Phases, Holding, Waiting, Over
<1>1. CASE ReadState(t)
  <2>1. file \in State
    BY <1>1 DEF ReadState
  <2> QED BY <1>1, <2>1 DEF ReadState
<1>2. ASSUME NEW here \in {"assert", "reassert"}, NEW there \in {"reread", "write"}, Assert(t, here, there)
      PROVE  StoredInv'
  BY <1>2 DEF Assert
<1>3. CASE Reread(t)
  BY <1>3 DEF Reread
<1>4. CASE Write(t)
  <2>1. file' \in State
    BY <1>4 DEF Write, State
  <2>2. file' # Absent
    BY <2>1, LockAssumption DEF LockAssumption, State
  <2> QED BY <1>4, <2>1, <2>2 DEF Write
<1>5. CASE Release(t) \/ Unlock(t)
  BY <1>5 DEF Release, Unlock
<1>6. CASE BeatRead(t)
  BY <1>6 DEF BeatRead
<1>7. CASE BeatWrite(t)
  <2>1. OwnLock(t) \in Lock
    BY OwnLockFacts
  <2> QED BY <1>7, <2>1 DEF BeatWrite
<1> QED BY <1>1, <1>2, <1>3, <1>4, <1>5, <1>6, <1>7 DEF Transact

LEMMA StoredNext == ASSUME StoredInv, [Next]_vars PROVE StoredInv'
<1> USE DEF StoredInv, Untouched, TypeOK
<1>1. CASE UNCHANGED vars
  BY <1>1 DEF vars
<1>2. CASE Lapse
  BY <1>2 DEF Lapse, Lock
<1>3. ASSUME NEW p \in Process, Exit(p) \/ Reuse(p) PROVE StoredInv'
  BY ZenonT(60), <1>3 DEF Exit, Reuse, Phases, Over
<1>4. CASE Next
  BY <1>1, <1>2, <1>3, <1>4, StoredWait, StoredTransact DEF Next, Step, Terminated
<1> QED BY <1>1, <1>4

\* Whoever dies, lapses or takes a lock over: no transaction reads a state
\* that is not there, and what is written is a state (initialize, transact).
THEOREM StoredStateCorrect == Spec => []TypeOK
<1>1. StoredInv => TypeOK
  BY DEF StoredInv
<1> QED BY <1>1, StoredInit, StoredNext, PTL DEF Spec

-----------------------------------------------------------------------------
\* The start satisfies the invariant.
LEMMA LockInvInit == Init => LockInv
<1> SUFFICES ASSUME Init PROVE LockInv
  OBVIOUS
<1>1. StoredInv
  BY StoredInit
<1>2. \A t \in Txn : running[TxnProcess[t]] = TRUE
  BY LockAssumption DEF LockAssumption, Init
<1>3. \A t \in Txn : pc[t] = "start" /\ beat[t] = "idle"
  BY DEF Init
<1>4. lock = NoLock
  BY DEF Init
<1>5. DeadTogether /\ LockNamesOwner /\ OwnersLocked /\ JudgedDead
  BY <1>2, <1>3, <1>4 DEF DeadTogether, LockNamesOwner, OwnersLocked, JudgedDead, Locked, Holding
<1> QED BY <1>1, <1>5 DEF LockInv

\* A step that moves t between phases before the lock, and leaves the lock and
\* the processes alone, keeps the invariant.
LEMMA LockInvMove ==
  ASSUME LockInv, StoredInv', NEW t \in Txn,
         UNCHANGED <<lock, running, beat>>,
         pc[t] \notin Over \cup Locked,
         NEW phase \in Waiting \cup {"create", "failed"}, pc' = [pc EXCEPT ![t] = phase],
         \A u \in Txn : u # t => judged'[u] = judged[u],
         phase = "steal" => judged'[t] = NoLock \/ pc[judged'[t]] = "dead"
  PROVE  LockInv'
<1> USE DEF Locked, Holding, Waiting, Over
<1>1. pc \in [Txn -> Phases]
  BY DEF LockInv, StoredInv, TypeOK
<1>2. pc'[t] = phase /\ \A u \in Txn : u # t => pc'[u] = pc[u]
  BY <1>1
<1>3. DeadTogether'
  BY <1>2 DEF LockInv, DeadTogether
<1>4. LockNamesOwner'
  <2>1. lock # NoLock => lock.id \in Txn /\ lock.id # t
    BY DEF LockInv, StoredInv, TypeOK, Lock, LockNamesOwner
  <2> QED BY <1>2, <2>1 DEF LockInv, LockNamesOwner
<1>5. OwnersLocked'
  BY <1>2 DEF LockInv, OwnersLocked, HoldsLock
<1>6. JudgedDead'
  <2>1. \A v \in Txn : pc[v] = "dead" => pc'[v] = "dead"
    BY <1>2
  <2>2. \A u \in Txn : judged'[u] # NoLock => judged'[u] \in Txn
    BY DEF StoredInv, TypeOK
  <2>3. \A u \in Txn : u # t => (pc'[u] = "steal" /\ judged'[u] # NoLock => pc[judged'[u]] = "dead")
    BY <1>2 DEF LockInv, JudgedDead
  <2> QED BY <1>2, <2>1, <2>2, <2>3 DEF JudgedDead
<1> QED BY <1>3, <1>4, <1>5, <1>6 DEF LockInv

\* Taking the free lock.
LEMMA LockInvAcquire ==
  ASSUME LockInv, StoredInv', NEW t \in Txn, Attempt(t), lock = NoLock
  PROVE  LockInv'
<1> USE DEF Locked, Holding, Waiting, Over
<1>1. pc \in [Txn -> Phases] /\ pc[t] = "try"
  BY DEF LockInv, StoredInv, TypeOK, Attempt, At
<1>2. /\ lock' # NoLock /\ lock'.id = t /\ lock'.pid = TxnProcess[t]
      /\ pc' = [pc EXCEPT ![t] = "read"] /\ UNCHANGED <<running, beat, judged>>
  BY OwnLockFacts DEF Attempt, Goto, OwnLock
<1>3. pc'[t] = "read" /\ \A u \in Txn : u # t => pc'[u] = pc[u]
  BY <1>1, <1>2
<1>4. DeadTogether'
  BY <1>1, <1>2, <1>3 DEF LockInv, DeadTogether
<1>5. LockNamesOwner'
  BY <1>2, <1>3 DEF LockNamesOwner
<1>6. OwnersLocked'
  BY <1>1, <1>2, <1>3 DEF LockInv, OwnersLocked, HoldsLock
<1>7. JudgedDead'
  <2>1. \A u \in Txn : judged[u] # NoLock => judged[u] \in Txn
    BY DEF LockInv, StoredInv, TypeOK
  <2> QED BY <1>1, <1>2, <1>3, <2>1 DEF LockInv, JudgedDead
<1> QED BY <1>4, <1>5, <1>6, <1>7 DEF LockInv

\* Taking over: the lock a waiter renames away is the one it judged, and its
\* owner is dead.
LEMMA LockInvSteal ==
  ASSUME LockInv, StoredInv', NEW t \in Txn, Steal(t), robbed' = FALSE
  PROVE  /\ lock # NoLock => pc[lock.id] = "dead"
         /\ LockInv'
<1> USE DEF Locked, Holding, Waiting, Over
<1>1. pc \in [Txn -> Phases] /\ pc[t] = "steal"
  BY DEF LockInv, StoredInv, TypeOK, Steal, At
<1>2. /\ lock' = NoLock /\ pc' = [pc EXCEPT ![t] = "try"] /\ UNCHANGED <<running, beat>>
      /\ \A u \in Txn : u # t => judged'[u] = judged[u]
  BY DEF Steal, Goto, LockInv, StoredInv, TypeOK
<1>3. pc'[t] = "try" /\ \A u \in Txn : u # t => pc'[u] = pc[u]
  BY <1>1, <1>2
<1>4. lock # NoLock => pc[lock.id] = "dead"
  <2>1. lock # NoLock => lock.id = judged[t]
    BY DEF Steal
  <2>2. lock # NoLock => lock.id \in Txn
    BY DEF LockInv, StoredInv, TypeOK, Lock
  <2>3. NoLock \notin Txn
    BY LockAssumption DEF LockAssumption
  <2> QED BY <1>1, <2>1, <2>2, <2>3 DEF LockInv, JudgedDead
<1>5. DeadTogether'
  BY <1>1, <1>2, <1>3 DEF LockInv, DeadTogether
<1>6. LockNamesOwner'
  BY <1>2 DEF LockNamesOwner
<1>7. OwnersLocked'
  <2>1. \A u \in Txn : pc[u] \notin Locked
    BY <1>4 DEF LockInv, OwnersLocked, HoldsLock
  <2>2. \A u \in Txn : beat[u] # "writing"
    BY <2>1 DEF LockInv, OwnersLocked
  <2>3. \A u \in Txn : pc'[u] \notin Locked
    BY <1>3, <2>1
  <2> QED BY <1>2, <2>2, <2>3 DEF LockInv, OwnersLocked
<1>8. JudgedDead'
  <2>1. \A u \in Txn : judged[u] # NoLock => judged[u] \in Txn
    BY DEF LockInv, StoredInv, TypeOK
  <2>2. \A v \in Txn : pc[v] = "dead" => pc'[v] = "dead"
    BY <1>1, <1>3
  <2>3. \A u \in Txn : pc'[u] = "steal" => u # t /\ pc[u] = "steal" /\ judged'[u] = judged[u]
    BY <1>2, <1>3
  <2> QED BY <2>1, <2>2, <2>3 DEF LockInv, JudgedDead
<1> QED BY <1>4, <1>5, <1>6, <1>7, <1>8 DEF LockInv

\* The judgement: a lock whose owner's process does not run was left by a
\* transaction that died.
LEMMA LockInvJudge ==
  ASSUME LockInv, StoredInv', NEW t \in Txn, Judge(t)
  PROVE  LockInv'
<1> DEFINE phase == IF LeaseExpired(t) /\ ~OwnerAlive(lock) THEN "steal" ELSE "try"
<1>1. pc[t] = "judge" /\ pc' = [pc EXCEPT ![t] = phase] /\ UNCHANGED <<lock, running, beat>>
  BY DEF Judge, At, Goto
<1>2. pc[t] \notin Over \cup Locked /\ phase \in Waiting \cup {"create", "failed"}
  BY <1>1 DEF Over, Locked, Holding, Waiting
<1>3. \A u \in Txn : u # t => judged'[u] = judged[u]
  BY DEF Judge, LockInv, StoredInv, TypeOK
<1>4. phase = "steal" => judged'[t] = NoLock \/ pc[judged'[t]] = "dead"
  <2>1. CASE lock = NoLock /\ phase = "steal"
    BY <2>1 DEF Judge, LockInv, StoredInv, TypeOK
  <2>2. CASE lock # NoLock /\ phase = "steal"
    <3>1. lock.id \in Txn /\ lock.pid = TxnProcess[lock.id] /\ pc[lock.id] \in Locked \cup {"dead"}
      BY <2>2 DEF LockInv, LockNamesOwner, StoredInv, TypeOK, Lock
    <3>2. TxnProcess[lock.id] \in Process
      BY <3>1, LockAssumption DEF LockAssumption
    <3>3. running[TxnProcess[lock.id]] = FALSE
      BY <2>2, <3>1, <3>2 DEF OwnerAlive, LockInv, StoredInv, TypeOK
    <3>4. pc[lock.id] \in Over
      BY <3>1, <3>3 DEF LockInv, DeadTogether
    <3>5. pc[lock.id] = "dead"
      BY <3>1, <3>4 DEF Locked, Holding, Over
    <3>6. judged'[t] = lock.id
      BY <2>2 DEF Judge, LockInv, StoredInv, TypeOK
    <3> QED BY <3>5, <3>6
  <2> QED BY <2>1, <2>2
<1> HIDE DEF phase
<1> QED BY <1>1, <1>2, <1>3, <1>4, LockInvMove

\* A step of a transaction through initialize and acquireLock keeps the invariant.
LEMMA LockInvWait ==
  ASSUME LockInv, NEW t \in Txn, Probe(t) \/ Create(t) \/ Wait(t) \/ Timeout(t), robbed' = FALSE
  PROVE  LockInv'
<1>1. StoredInv'
  BY StoredWait DEF LockInv
<1>2. CASE Probe(t) \/ Create(t) \/ Timeout(t) \/ Contended(t) \/ Stat(t) \/ (Attempt(t) /\ lock # NoLock)
  <2>1. PICK phase \in {"create", "try", "failed", "stat", "contended", "judge"} :
               pc' = [pc EXCEPT ![t] = phase]
    BY <1>2 DEF Probe, Create, Timeout, Contended, Stat, Attempt, Goto
  <2>2. pc[t] \notin Over \cup Locked /\ UNCHANGED <<lock, running, beat, judged>>
    BY <1>2 DEF Probe, Create, Timeout, Contended, Stat, Attempt, At, Over, Locked, Holding
  <2>3. phase \in Waiting \cup {"create", "failed"} /\ phase # "steal"
    BY DEF Waiting
  <2> QED BY <1>1, <2>1, <2>2, <2>3, LockInvMove
<1>3. CASE Attempt(t) /\ lock = NoLock
  BY <1>1, <1>3, LockInvAcquire
<1> QED BY <1>1, <1>2, <1>3, LockInvSteal, LockInvJudge DEF Wait

\* A step under the lock that stays under it.
LEMMA LockInvHold ==
  ASSUME LockInv, StoredInv', NEW t \in Txn,
         UNCHANGED <<lock, running, judged>>,
         pc[t] \in Locked, NEW phase \in Locked, pc' = [pc EXCEPT ![t] = phase],
         \A u \in Txn : u # t => beat'[u] = beat[u],
         beat'[t] # "failed",
         beat'[t] = "writing" => phase \in Holding \cup {"release"}
  PROVE  LockInv'
<1> USE DEF Locked, Holding, Over
<1>1. pc'[t] = phase /\ \A u \in Txn : u # t => pc'[u] = pc[u]
  BY DEF LockInv, StoredInv, TypeOK
<1>2. DeadTogether'
  BY <1>1 DEF LockInv, DeadTogether
<1>3. LockNamesOwner'
  BY <1>1 DEF LockInv, LockNamesOwner, StoredInv, TypeOK, Lock
<1>4. OwnersLocked'
  BY <1>1 DEF LockInv, OwnersLocked, HoldsLock
<1>5. JudgedDead'
  <2>1. \A u \in Txn : judged[u] # NoLock => judged[u] \in Txn
    BY DEF LockInv, StoredInv, TypeOK
  <2> QED BY <1>1, <2>1 DEF LockInv, JudgedDead
<1> QED BY <1>2, <1>3, <1>4, <1>5 DEF LockInv

\* Letting the lock go.
LEMMA LockInvUnlock ==
  ASSUME LockInv, StoredInv', NEW t \in Txn, Unlock(t)
  PROVE  LockInv'
<1> USE DEF Locked, Holding, Over
<1>1. /\ pc[t] = "unlock" /\ HoldsLock(t)
      /\ lock' = NoLock /\ pc' = [pc EXCEPT ![t] = "done"] /\ UNCHANGED <<running, beat, judged>>
  BY DEF Unlock, At, Goto, LockInv, OwnersLocked
<1>2. pc'[t] = "done" /\ \A u \in Txn : u # t => pc'[u] = pc[u]
  BY <1>1 DEF LockInv, StoredInv, TypeOK
<1>3. \A u \in Txn : pc[u] \in Locked => u = t
  BY <1>1 DEF LockInv, OwnersLocked, HoldsLock
<1>4. DeadTogether'
  BY <1>1, <1>2 DEF LockInv, DeadTogether
<1>5. LockNamesOwner'
  BY <1>1 DEF LockNamesOwner
<1>6. OwnersLocked'
  <2>1. \A u \in Txn : beat[u] # "writing"
    BY <1>1, <1>3 DEF LockInv, OwnersLocked
  <2> QED BY <1>1, <1>2, <1>3, <2>1 DEF LockInv, OwnersLocked
<1>7. JudgedDead'
  <2>1. \A u \in Txn : judged[u] # NoLock => judged[u] \in Txn
    BY DEF LockInv, StoredInv, TypeOK
  <2> QED BY <1>1, <1>2, <2>1 DEF LockInv, JudgedDead
<1> QED BY <1>4, <1>5, <1>6, <1>7 DEF LockInv

\* A heartbeat finds its own lock, and leaves it its own.
LEMMA LockInvBeat ==
  ASSUME LockInv, StoredInv', NEW t \in Txn, BeatRead(t) \/ BeatWrite(t)
  PROVE  LockInv' /\ lock' # NoLock /\ lock'.id = lock.id
<1> USE DEF Locked, Holding, Over
<1>1. pc[t] \in Holding \cup {"release"} /\ HoldsLock(t) /\ UNCHANGED <<running, pc, judged>>
  BY DEF LockInv, OwnersLocked, BeatRead, BeatWrite
<1>2. /\ \A u \in Txn : u # t => beat'[u] = beat[u]
      /\ beat'[t] # "failed"
      /\ lock' = lock \/ lock' = OwnLock(t)
  BY <1>1 DEF BeatRead, BeatWrite, HoldsLock, LockInv, StoredInv, TypeOK
<1>3. lock' # NoLock /\ lock'.id = t /\ lock'.pid = TxnProcess[t]
  <2>1. CASE lock' = OwnLock(t)
    BY <2>1, OwnLockFacts DEF OwnLock
  <2>2. CASE lock' = lock
    BY <1>1, <2>2 DEF LockInv, LockNamesOwner, HoldsLock
  <2> QED BY <1>2, <2>1, <2>2
<1>4. DeadTogether'
  BY <1>1 DEF LockInv, DeadTogether
<1>5. LockNamesOwner'
  BY <1>1, <1>3 DEF LockNamesOwner
<1>6. OwnersLocked'
  BY <1>1, <1>2, <1>3 DEF LockInv, OwnersLocked, HoldsLock
<1>7. JudgedDead'
  BY <1>1 DEF LockInv, JudgedDead
<1> QED BY <1>1, <1>3, <1>4, <1>5, <1>6, <1>7 DEF LockInv, HoldsLock

\* A step of a transaction under the lock, or of its heartbeat, keeps it.
LEMMA LockInvTransact ==
  ASSUME LockInv, NEW t \in Txn, Transact(t) \/ BeatRead(t) \/ BeatWrite(t)
  PROVE  LockInv'
<1>1. StoredInv'
  BY StoredTransact DEF LockInv
<1>2. CASE ReadState(t) \/ Reread(t) \/ Write(t) \/ Assert(t, "assert", "reread")
              \/ Assert(t, "reassert", "write")
  <2>1. PICK phase \in {"assert", "reread", "reassert", "write", "release"} :
               pc' = [pc EXCEPT ![t] = phase]
    BY <1>2 DEF ReadState, Reread, Write, Assert, Goto
  <2>2. pc[t] \in Holding /\ UNCHANGED <<lock, running, beat, judged>>
    BY <1>2 DEF ReadState, Reread, Write, Assert, At, Holding
  <2>3. pc[t] \in Locked /\ phase \in Locked /\ phase \in Holding \cup {"release"}
    BY <2>2 DEF Locked, Holding
  <2>4. beat'[t] # "failed"
    BY <2>2 DEF LockInv, OwnersLocked
  <2> QED BY <1>1, <2>1, <2>2, <2>3, <2>4, LockInvHold
<1>3. CASE Release(t)
  <2>1. pc[t] \in Locked /\ HoldsLock(t)
    BY <1>3 DEF Release, At, Locked, LockInv, OwnersLocked
  <2>2. pc' = [pc EXCEPT ![t] = "unlock"] /\ "unlock" \in Locked /\ UNCHANGED <<lock, running, judged>>
    BY <1>3, <2>1 DEF Release, Goto, Locked
  <2>3. beat'[t] = "idle" /\ \A u \in Txn : u # t => beat'[u] = beat[u]
    BY <1>3 DEF Release, LockInv, StoredInv, TypeOK
  <2> QED BY <1>1, <2>1, <2>2, <2>3, LockInvHold
<1> QED BY <1>1, <1>2, <1>3, LockInvUnlock, LockInvBeat DEF Transact

\* Time, deaths and new processes keep the invariant.
LEMMA LockInvEnvironment ==
  ASSUME LockInv, StoredInv', Lapse \/ \E p \in Process : Exit(p) \/ Reuse(p)
  PROVE  LockInv' /\ (lock # NoLock => lock' # NoLock /\ lock'.id = lock.id)
<1> USE DEF Locked, Holding, Waiting, Over
<1>1. CASE Lapse
  <2>1. /\ lock # NoLock /\ lock' # NoLock
        /\ lock'.id = lock.id /\ lock'.pid = lock.pid
        /\ UNCHANGED <<running, pc, beat, judged>>
    BY <1>1, LockAssumption DEF Lapse, LockAssumption, LockInv, StoredInv, TypeOK, Lock
  <2>2. LockNamesOwner'
    BY <2>1 DEF LockInv, LockNamesOwner
  <2>3. DeadTogether'
    BY <2>1 DEF LockInv, DeadTogether
  <2>4. OwnersLocked'
    BY <2>1 DEF LockInv, OwnersLocked, HoldsLock
  <2>5. JudgedDead'
    BY <2>1 DEF LockInv, JudgedDead
  <2> QED BY <2>1, <2>2, <2>3, <2>4, <2>5 DEF LockInv
<1>2. ASSUME NEW p \in Process, Exit(p) PROVE LockInv' /\ lock' = lock
  <2>1. /\ \A t \in Txn : pc'[t] = IF TxnProcess[t] = p /\ pc[t] \notin Over THEN "dead" ELSE pc[t]
        /\ \A t \in Txn : beat'[t] = IF TxnProcess[t] = p THEN "idle" ELSE beat[t]
        /\ \A q \in Process : running'[q] = IF q = p THEN FALSE ELSE running[q]
        /\ UNCHANGED <<lock, judged>>
    BY <1>2 DEF Exit, LockInv, StoredInv, TypeOK
  <2>2. \A t \in Txn : TxnProcess[t] \in Process
    BY LockAssumption DEF LockAssumption
  <2>3. DeadTogether'
    BY <2>1, <2>2 DEF LockInv, DeadTogether
  <2>4. LockNamesOwner'
    <3>1. lock # NoLock => lock.id \in Txn
      BY DEF LockInv, StoredInv, TypeOK, Lock
    <3> QED BY <2>1, <3>1 DEF LockInv, LockNamesOwner
  <2>5. OwnersLocked'
    BY <2>1 DEF LockInv, OwnersLocked, HoldsLock
  <2>6. JudgedDead'
    <3>1. \A u \in Txn : judged[u] # NoLock => judged[u] \in Txn
      BY DEF LockInv, StoredInv, TypeOK
    <3> QED BY <2>1, <3>1 DEF LockInv, JudgedDead
  <2> QED BY <2>1, <2>3, <2>4, <2>5, <2>6 DEF LockInv
<1>3. ASSUME NEW p \in Process, Reuse(p) PROVE LockInv' /\ lock' = lock
  <2>1. \A q \in Process : running'[q] = FALSE => running[q] = FALSE
    BY <1>3 DEF Reuse, LockInv, StoredInv, TypeOK
  <2>2. \A t \in Txn : TxnProcess[t] \in Process
    BY LockAssumption DEF LockAssumption
  <2>3. UNCHANGED <<lock, pc, beat, judged>>
    BY <1>3 DEF Reuse
  <2>4. DeadTogether'
    BY <2>1, <2>2, <2>3 DEF LockInv, DeadTogether
  <2>5. LockNamesOwner' /\ OwnersLocked' /\ JudgedDead'
    BY <2>3 DEF LockInv, LockNamesOwner, OwnersLocked, HoldsLock, JudgedDead
  <2> QED BY <2>3, <2>4, <2>5 DEF LockInv
<1> QED BY <1>1, <1>2, <1>3

\* Every step keeps the invariant, but for the removal of another lock.
LEMMA LockInvNext ==
  ASSUME LockInv, [Next]_vars, robbed' = FALSE
  PROVE  LockInv'
<1>1. CASE UNCHANGED vars
  BY <1>1 DEF vars, LockInv, StoredInv, TypeOK, Untouched, DeadTogether, LockNamesOwner,
     OwnersLocked, HoldsLock, JudgedDead
<1>2. StoredInv'
  BY StoredNext DEF LockInv
<1>3. CASE Next
  BY <1>1, <1>2, <1>3, LockInvWait, LockInvTransact, LockInvEnvironment, LockInvBeat DEF Next, Step, Terminated
<1> QED BY <1>1, <1>3

-----------------------------------------------------------------------------
\* The start satisfies the file invariant.
LEMMA FileInvInit == Init => FileInv
BY LockAssumption DEF LockAssumption, Init, FileInv, EmptyState, Using, Numbered

\* A step that leaves the file and the snapshots alone, and in which t neither
\* comes to use its snapshot nor leaves what it wrote behind.
LEMMA FileInvMove ==
  ASSUME LockInv, FileInv, NEW t \in Txn, UNCHANGED <<file, snap>>,
         NEW phase, pc' = [pc EXCEPT ![t] = phase],
         phase \in Using => pc[t] \in Using,
         pc[t] \in Kept => phase \in Kept,
         phase = "create" => file = Absent
  PROVE  FileInv'
<1>1. pc \in [Txn -> Phases] /\ snap \in [Txn -> State] /\ file \in State \cup {Absent}
  BY DEF LockInv, StoredInv, TypeOK
<1>2. pc'[t] = phase /\ \A u \in Txn : u # t => pc'[u] = pc[u]
  BY <1>1
<1>3. \A u \in Txn : /\ pc'[u] \in Using => pc[u] \in Using
                     /\ pc[u] \in Kept => pc'[u] \in Kept
  BY <1>2
<1>4. \A u \in Txn : snap[u].done \subseteq Txn
  BY <1>1 DEF State
<1>5. file # Absent => file.done \subseteq Txn
  BY <1>1 DEF State
<1>6. ASSUME NEW u \in Txn, pc'[u] \in Using
      PROVE  /\ snap[u] = file \/ (file = EmptyState /\ ~FileExists)
             /\ Numbered(snap[u])
             /\ \A v \in snap[u].done : pc'[v] \in Kept
  BY <1>3, <1>4, <1>6 DEF FileInv
<1>7. file # Absent => Numbered(file) /\ \A u \in file.done : pc'[u] \in Kept
  BY <1>3, <1>5 DEF FileInv
<1>8. FileExists => file # Absent /\ \A u \in Txn : pc'[u] # "create"
  BY <1>2 DEF FileInv
<1> QED BY <1>6, <1>7, <1>8 DEF FileInv, Numbered

\* The transaction under the lock replaces the file by its own state.
LEMMA FileInvWrite ==
  ASSUME LockInv, FileInv, NEW t \in Txn, Write(t)
  PROVE  FileInv'
<1>1. pc \in [Txn -> Phases] /\ snap \in [Txn -> State]
  BY DEF LockInv, StoredInv, TypeOK
<1>2. /\ pc[t] = "write" /\ pc' = [pc EXCEPT ![t] = "release"]
      /\ file' = [rev |-> snap[t].rev + 1, done |-> snap[t].done \cup {t}]
  BY DEF Write, At, Goto
<1>3. pc'[t] = "release" /\ \A u \in Txn : u # t => pc'[u] = pc[u]
  BY <1>1, <1>2
<1>4. \A u \in Txn : u # t => pc[u] \notin Using
  BY <1>2 DEF LockInv, OwnersLocked, HoldsLock, Locked, Holding, Using
<1>5. \A u \in Txn : pc'[u] \notin Using
  BY <1>3, <1>4 DEF Using
<1>6. snap[t] \in State
  BY <1>1
<1>7. file' # Absent /\ file'.rev # 0
  BY <1>2, <1>6, LockAssumption DEF LockAssumption, State
<1>8. \A u \in file'.done : pc'[u] \in Kept
  <2>1. \A u \in snap[t].done : pc[u] \in Kept /\ u \in Txn
    BY <1>2, <1>6 DEF FileInv, State, Using
  <2>2. \A u \in snap[t].done : pc'[u] \in Kept
    BY <1>3, <2>1 DEF Kept
  <2> QED BY <1>2, <1>3, <2>2 DEF Kept
<1>9. FileExists => \A u \in Txn : pc'[u] # "create"
  BY <1>3 DEF FileInv
<1> QED BY <1>5, <1>7, <1>8, <1>9 DEF FileInv, Numbered

\* An initialization may come under a transaction that has read the file.
LEMMA FileInvCreate ==
  ASSUME LockInv, FileInv, NEW t \in Txn, Create(t)
  PROVE  FileInv'
<1>1. pc \in [Txn -> Phases] /\ snap \in [Txn -> State]
  BY DEF LockInv, StoredInv, TypeOK
<1>2. pc[t] = "create" /\ file' = EmptyState /\ pc' = [pc EXCEPT ![t] = "try"] /\ snap' = snap
  BY DEF Create, At, Goto
<1>3. pc'[t] = "try" /\ \A u \in Txn : u # t => pc'[u] = pc[u]
  BY <1>1, <1>2
<1>4. ~FileExists
  BY <1>2 DEF FileInv
<1>5. ASSUME NEW u \in Txn, pc'[u] \in Using
      PROVE  Numbered(snap[u]) /\ \A v \in snap[u].done : pc'[v] \in Kept
  <2>1. pc[u] \in Using /\ snap[u].done \subseteq Txn
    BY <1>1, <1>3, <1>5 DEF Using, State
  <2>2. Numbered(snap[u]) /\ \A v \in snap[u].done : pc[v] \in Kept
    BY <2>1 DEF FileInv
  <2>3. \A v \in Txn : pc[v] \in Kept => pc'[v] \in Kept
    BY <1>2, <1>3 DEF Kept
  <2> QED BY <2>1, <2>2, <2>3
<1>6. EmptyState # Absent /\ EmptyState.done = {} /\ Numbered(EmptyState)
  BY LockAssumption DEF LockAssumption, EmptyState, Numbered
<1> QED BY <1>2, <1>4, <1>5, <1>6 DEF FileInv, Numbered

LEMMA FileInvRead ==
  ASSUME LockInv, FileInv, NEW t \in Txn, ReadState(t)
  PROVE  FileInv'
<1>1. pc \in [Txn -> Phases] /\ snap \in [Txn -> State] /\ file \in State \cup {Absent}
  BY DEF LockInv, StoredInv, TypeOK
<1>2. /\ pc[t] = "read" /\ file' = file /\ snap' = [snap EXCEPT ![t] = file]
      /\ pc' = [pc EXCEPT ![t] = "assert"]
  BY DEF ReadState, At, Goto
<1>3. /\ snap'[t] = file /\ \A u \in Txn : u # t => snap'[u] = snap[u]
      /\ pc'[t] = "assert" /\ \A u \in Txn : u # t => pc'[u] = pc[u]
  BY <1>1, <1>2
<1>4. \A u \in Txn : u # t => pc'[u] \notin Using
  BY <1>2, <1>3 DEF LockInv, OwnersLocked, HoldsLock, Locked, Holding, Using
<1>5. file # Absent /\ file.done \subseteq Txn
  BY <1>1, <1>2 DEF LockInv, StoredInv, Untouched, State
<1>6. \A u \in Txn : pc[u] \in Kept => pc'[u] \in Kept
  BY <1>2, <1>3 DEF Kept
<1>7. Numbered(file) /\ \A u \in file.done : pc'[u] \in Kept
  BY <1>5, <1>6 DEF FileInv
<1>8. FileExists => \A u \in Txn : pc'[u] # "create"
  BY <1>3 DEF FileInv
<1> QED BY <1>2, <1>3, <1>4, <1>5, <1>7, <1>8 DEF FileInv, Numbered

\* Every step of a transaction keeps the file invariant.
LEMMA FileInvStep ==
  ASSUME LockInv, FileInv, NEW t \in Txn, Step(t) \/ Timeout(t) \/ BeatRead(t)
  PROVE  FileInv'
<1>1. pc \in [Txn -> Phases]
  BY DEF LockInv, StoredInv, TypeOK
<1> DEFINE Moves(phase) ==
             /\ pc' = [pc EXCEPT ![t] = phase]
             /\ UNCHANGED <<file, snap>>
             /\ phase \in Using => pc[t] \in Using
             /\ pc[t] \in Kept => phase \in Kept
             /\ phase = "create" => file = Absent
<1>2. \A phase : Moves(phase) => FileInv'
  BY FileInvMove
<1>3. CASE Probe(t)
  <2>1. Moves("create") \/ Moves("try")
    BY <1>3 DEF Probe, At, Goto, Using, Kept
  <2> QED BY <1>2, <2>1
<1>4. CASE Wait(t) \/ Timeout(t)
  <2>1. \E phase \in Waiting \cup {"read", "failed"} : pc' = [pc EXCEPT ![t] = phase]
    BY <1>4 DEF Wait, Attempt, Contended, Stat, Judge, Steal, Timeout, Goto, Waiting
  <2>2. pc[t] \in Waiting /\ UNCHANGED <<file, snap>>
    BY <1>4 DEF Wait, Attempt, Contended, Stat, Judge, Steal, Timeout, At, Waiting
  <2>3. \E phase \in Waiting \cup {"read", "failed"} : Moves(phase)
    BY <2>1, <2>2 DEF Waiting, Using, Kept
  <2> QED BY <1>2, <2>3
<1>5. CASE Reread(t) \/ Release(t) \/ Unlock(t)
  <2>1. Moves("reassert") \/ Moves("release") \/ Moves("unlock") \/ Moves("done")
    BY <1>5 DEF Reread, Release, Unlock, At, Goto, Using, Kept
  <2> QED BY <1>2, <2>1
<1>6. CASE Assert(t, "assert", "reread") \/ Assert(t, "reassert", "write")
  <2>1. Moves("reread") \/ Moves("write") \/ Moves("release")
    BY <1>6 DEF Assert, At, Goto, Using, Kept
  <2> QED BY <1>2, <2>1
<1>7. CASE BeatRead(t) \/ BeatWrite(t)
  <2>1. Moves(pc[t]) \/ UNCHANGED <<file, snap, pc>>
    BY <1>7 DEF BeatRead, BeatWrite
  <2>2. UNCHANGED <<file, snap, pc>> => FileInv'
    BY DEF FileInv, Numbered
  <2> QED BY <1>2, <2>1, <2>2
<1> HIDE DEF Moves
<1> QED BY <1>3, <1>4, <1>5, <1>6, <1>7, FileInvWrite, FileInvCreate, FileInvRead DEF Step, Transact

\* Every step keeps the file invariant.
LEMMA FileInvNext ==
  ASSUME LockInv, FileInv, [Next]_vars
  PROVE  FileInv'
<1>1. CASE UNCHANGED vars
  BY <1>1 DEF vars, FileInv, Numbered
<1>2. CASE Lapse \/ \E p \in Process : Reuse(p)
  BY <1>2 DEF Lapse, Reuse, FileInv, Numbered
<1>3. ASSUME NEW p \in Process, Exit(p) PROVE FileInv'
  <2>1. file' = file /\ snap' = snap /\ \A t \in Txn : pc'[t] = pc[t] \/ pc'[t] = "dead"
    BY <1>3 DEF Exit
  <2>2. file # Absent => file.done \subseteq Txn
    BY DEF LockInv, StoredInv, TypeOK, State
  <2>3. \A t \in Txn : snap[t].done \subseteq Txn
    BY DEF LockInv, StoredInv, TypeOK, State
  <2>4. \A t \in Txn : /\ pc'[t] \in Using => pc[t] \in Using
                       /\ pc[t] \in Kept => pc'[t] \in Kept
                       /\ pc'[t] = "create" => pc[t] = "create"
    BY <2>1 DEF Using, Kept
  <2>5. ASSUME NEW t \in Txn, pc'[t] \in Using
        PROVE  /\ snap[t] = file \/ (file = EmptyState /\ ~FileExists)
               /\ Numbered(snap[t])
               /\ \A u \in snap[t].done : pc'[u] \in Kept
    BY <2>3, <2>4, <2>5 DEF FileInv
  <2>6. file # Absent => Numbered(file) /\ \A u \in file.done : pc'[u] \in Kept
    BY <2>2, <2>4 DEF FileInv
  <2>7. FileExists => file # Absent /\ \A t \in Txn : pc'[t] # "create"
    BY <2>4 DEF FileInv
  <2> QED BY <2>1, <2>5, <2>6, <2>7 DEF FileInv, Numbered
<1>4. CASE Next
  BY <1>1, <1>2, <1>3, <1>4, FileInvStep DEF Next, Terminated
<1> QED BY <1>1, <1>4

-----------------------------------------------------------------------------
\* What a waiter has removed another lock for is never forgotten.
LEMMA RobbedStays == ASSUME StoredInv, [Next]_vars, robbed' = FALSE PROVE robbed = FALSE
BY DEF StoredInv, TypeOK, Next, Step, Probe, Create, Wait, Attempt, Contended, Stat, Judge, Steal,
   Timeout, Transact, ReadState, Assert, Reread, Write, Release, Unlock, BeatRead, BeatWrite,
   Lapse, Exit, Reuse, Terminated, vars

\* Every reachable state satisfies the invariant.
THEOREM LockInvariant == Spec => []Inv
<1>1. Init => Inv
  BY StoredInit, LockInvInit, FileInvInit DEF Inv
<1>2. ASSUME Inv, [Next]_vars PROVE Inv'
  BY <1>2, StoredNext, RobbedStays, LockInvNext, FileInvNext DEF Inv
<1> QED BY <1>1, <1>2, PTL DEF Spec

\* Mutual exclusion of the lock directory (acquireLock, releaseOwnedLock): two
\* transactions are never under the lock together, before a waiter has renamed
\* away another lock than the one it judged stale, whoever dies, whatever
\* process id is given away again, and however late the heartbeats come.
THEOREM LockExcludes == Spec => []OneHolder
<1>1. Inv => OneHolder
  BY DEF Inv, LockInv, StoredInv, TypeOK, OwnersLocked, OneHolder, Locked, HoldsLock
<1> QED BY <1>1, LockInvariant, PTL

\* The lock goes when its own transaction lets it go, or when that transaction
\* has died, and no heartbeat puts another owner's name on it: the only way
\* to lose it alive is a waiter that renames away another lock than the one
\* it judged (acquireLock, releaseOwnedLock, renewLock).
THEOREM LockLeavesTheLiving == Spec => OnlyDeadLosesLock
<1> DEFINE Loses == ~robbed' /\ lock # NoLock =>
                      IF lock' = NoLock THEN pc[lock.id] \in {"unlock", "dead"}
                                        ELSE lock'.id = lock.id
<1>1. ASSUME Inv, [Next]_vars, robbed' = FALSE, lock # NoLock
      PROVE  IF lock' = NoLock THEN pc[lock.id] \in {"unlock", "dead"} ELSE lock'.id = lock.id
  <2>1. LockInv /\ StoredInv'
    BY <1>1, RobbedStays, StoredNext DEF Inv
  <2>2. ASSUME NEW t \in Txn, Unlock(t) PROVE lock' = NoLock /\ pc[lock.id] = "unlock"
    BY <2>1, <2>2 DEF Unlock, At, LockInv, OwnersLocked, Locked, HoldsLock
  <2>3. ASSUME NEW t \in Txn, Steal(t) PROVE lock' = NoLock /\ pc[lock.id] = "dead"
    <3>1. lock' = NoLock
      BY <2>3 DEF Steal
    <3> QED BY <1>1, <2>1, <2>3, <3>1, LockInvSteal
  <2>4. ASSUME NEW t \in Txn, BeatRead(t) \/ BeatWrite(t) PROVE lock' # NoLock /\ lock'.id = lock.id
    BY <2>1, <2>4, LockInvBeat
  <2>5. ASSUME NEW t \in Txn, Step(t) \/ Timeout(t), ~Unlock(t), ~Steal(t), ~BeatWrite(t)
        PROVE  lock' = lock
    BY <1>1, <2>5 DEF Step, Probe, Create, Wait, Attempt, Contended, Stat, Judge, Timeout, Transact,
       ReadState, Assert, Reread, Write, Release
  <2>6. Lapse \/ (\E p \in Process : Exit(p) \/ Reuse(p)) => lock' # NoLock /\ lock'.id = lock.id
    BY <1>1, <2>1, LockInvEnvironment
  <2>7. CASE UNCHANGED vars
    BY <1>1, <2>7 DEF vars
  <2>8. CASE Next
    BY <1>1, <2>2, <2>3, <2>4, <2>5, <2>6, <2>7, <2>8 DEF Next, Step, Terminated
  <2> QED BY <1>1, <2>7, <2>8
<1>2. ASSUME Inv, Inv', [Next]_vars PROVE [Loses]_vars
  <2>1. robbed' \in BOOLEAN
    BY <1>2 DEF Inv, StoredInv, TypeOK
  <2> QED BY <1>1, <1>2, <2>1
<1> QED BY <1>2, LockInvariant, PTL DEF Spec, OnlyDeadLosesLock

\* The lock is that of a transaction at work or of a dead one, and whoever judges
\* the lapsed lock of a dead one goes on to remove it, unless its process id is
\* in use again.
DeadLockGoes ==
  /\ [](lock # NoLock => robbed \/ pc[lock.id] \in Locked \cup {"dead"})
  /\ [][\A t \in Txn :
          Judge(t) /\ lock # NoLock /\ lock.lapsed /\ pc[lock.id] = "dead"
            => pc'[t] = "steal" \/ HeldByStranger]_vars

\* No lock is orphaned: no failure, late heartbeat or lost race leaves one behind
\* in a process that lives, and the lock of a dead process, unless its process
\* id is in use again, stops no waiter that comes by (acquireLock, releaseOwnedLock).
THEOREM NoLockIsOrphaned == Spec => DeadLockGoes
<1> DEFINE Named == lock # NoLock => robbed \/ pc[lock.id] \in Locked \cup {"dead"}
           Judges == \A t \in Txn :
             Judge(t) /\ lock # NoLock /\ lock.lapsed /\ pc[lock.id] = "dead"
               => pc'[t] = "steal" \/ HeldByStranger
<1>1. Inv => Named
  BY DEF Inv, LockInv, LockNamesOwner, StoredInv, TypeOK
<1>2. Inv => Judges
  <2> SUFFICES ASSUME Inv, NEW t \in Txn, Judge(t), lock # NoLock, lock.lapsed,
                      pc[lock.id] = "dead", ~running[lock.pid]
               PROVE  pc'[t] = "steal"
    BY DEF HeldByStranger
  <2>1. LeaseExpired(t) /\ ~OwnerAlive(lock)
    BY DEF LeaseExpired, OwnerAlive
  <2>2. pc \in [Txn -> Phases]
    BY DEF Inv, StoredInv, TypeOK
  <2> QED
    BY <2>1, <2>2 DEF Judge, Goto
<1>3. Inv => [Judges]_vars
  BY <1>2
<1> QED
  BY <1>1, <1>3, LockInvariant, PTL DEF Spec, DeadLockGoes

-----------------------------------------------------------------------------
\* What the next transaction finds is the snapshot of the one past its check,
\* if there is one: there is at most one under the lock.
LEMMA SettledFacts ==
  ASSUME LockInv
  PROVE  /\ \A t \in Checked : Settled = snap[t]
         /\ Checked = {} => Settled = Current
<1>1. ASSUME NEW t \in Checked PROVE Checked = {t}
  BY <1>1 DEF Checked, LockInv, OwnersLocked, HoldsLock, Locked, Holding
<1>2. ASSUME NEW t \in Checked PROVE Settled = snap[t]
  <2>1. Checked = {t} /\ Checked # {}
    BY <1>1
  <2>2. (CHOOSE u \in Checked : TRUE) \in Checked
    BY <2>1
  <2> QED BY <2>1, <2>2 DEF Settled
<1> QED BY <1>2 DEF Settled

\* A replacement of the file by the transaction past its check is its atomic
\* effect, on top of what it has read.
LEMMA WriteIsApply ==
  ASSUME LockInv, LockInv', FileInv, NEW t \in Txn, Write(t)
  PROVE  Transactions!Apply(t)
<1>1. pc \in [Txn -> Phases] /\ snap \in [Txn -> State]
  BY DEF LockInv, StoredInv, TypeOK
<1>2. /\ pc[t] = "write" /\ pc' = [pc EXCEPT ![t] = "release"]
      /\ file' = [rev |-> snap[t].rev + 1, done |-> snap[t].done \cup {t}]
  BY DEF Write, At, Goto
<1>3. Settled = snap[t] /\ t \notin snap[t].done
  BY <1>2, SettledFacts DEF Checked, FileInv, Using, Kept
<1>4. \A u \in Txn : pc[u] \in {"reassert", "write"} => u = t
  BY <1>2 DEF LockInv, OwnersLocked, HoldsLock, Locked, Holding
<1>5. Checked' = {}
  BY <1>1, <1>2, <1>4 DEF Checked
<1>6. file' # Absent
  BY <1>1, <1>2, LockAssumption DEF LockAssumption, State
<1>7. Settled' = file'
  BY <1>5, <1>6 DEF Settled, Current
<1> QED BY <1>2, <1>3, <1>7 DEF Transactions!Apply

\* Any other step changes what the next transaction finds only if it
\* initializes the file, or gives up a replacement that would have undone that.
LEMMA OtherIsInitialize ==
  ASSUME LockInv, LockInv', FileInv, FileInv', Next, \A t \in Txn : ~Write(t)
  PROVE  Transactions!Initialize \/ Settled' = Settled
<1>1. pc \in [Txn -> Phases] /\ snap \in [Txn -> State]
  BY DEF LockInv, StoredInv, TypeOK
<1>2. ASSUME NEW t \in Txn, Create(t) PROVE Transactions!Initialize \/ Settled' = Settled
  <2>1. /\ ~FileExists /\ file' = EmptyState /\ snap' = snap
        /\ pc[t] = "create" /\ pc' = [pc EXCEPT ![t] = "try"]
    BY <1>2 DEF Create, At, Goto, FileInv
  <2>2. Checked' = Checked
    BY <1>1, <2>1 DEF Checked
  <2>3. CASE Checked = {}
    <3>1. Settled' = EmptyState
      BY <2>1, <2>2, <2>3 DEF Settled, Current
    <3> QED BY <2>1, <3>1 DEF Transactions!Initialize, Transactions!Empty, EmptyState
  <2>4. CASE Checked # {}
    BY <2>1, <2>2, <2>4 DEF Settled
  <2> QED BY <2>3, <2>4
<1>3. ASSUME NEW t \in Txn, ReadState(t) PROVE Settled' = Settled
  <2>1. pc[t] = "read" /\ pc' = [pc EXCEPT ![t] = "assert"] /\ file' = file
    BY <1>3 DEF ReadState, At, Goto
  <2>2. Checked = {}
    BY <2>1 DEF Checked, LockInv, OwnersLocked, HoldsLock, Locked, Holding
  <2>3. Checked' = {}
    BY <1>1, <2>1, <2>2 DEF Checked
  <2> QED BY <2>1, <2>2, <2>3 DEF Settled, Current
<1>4. ASSUME NEW t \in Txn, Reread(t) PROVE Settled' = Settled
  <2>1. /\ pc[t] = "reread" /\ UNCHANGED <<file, snap>>
        /\ \/ file.rev = snap[t].rev /\ pc' = [pc EXCEPT ![t] = "reassert"]
           \/ pc' = [pc EXCEPT ![t] = "release"]
    BY <1>4 DEF Reread, At, Goto
  <2>2. Checked = {}
    BY <2>1 DEF Checked, LockInv, OwnersLocked, HoldsLock, Locked, Holding
  <2>3. CASE file.rev = snap[t].rev /\ pc' = [pc EXCEPT ![t] = "reassert"]
    <3>1. t \in Checked'
      BY <1>1, <2>3 DEF Checked
    <3>2. Settled' = snap'[t]
      <4>1. Checked' = {t}
        BY <3>1 DEF Checked, LockInv, OwnersLocked, HoldsLock, Locked, Holding
      <4>2. (CHOOSE u \in Checked' : TRUE) = t
        BY <4>1
      <4> QED BY <3>1, <4>2 DEF Settled
    <3>3. file # Absent /\ (snap[t] = file \/ file = EmptyState) /\ Numbered(snap[t])
      BY <2>1 DEF FileInv, Using, LockInv, StoredInv, Untouched
    <3>4. snap[t] = file
      BY <2>3, <3>3 DEF Numbered, EmptyState
    <3> QED BY <2>1, <2>2, <3>2, <3>3, <3>4 DEF Settled, Current
  <2>4. CASE pc' = [pc EXCEPT ![t] = "release"]
    <3>1. Checked' = {}
      BY <1>1, <2>2, <2>4 DEF Checked
    <3> QED BY <2>1, <2>2, <3>1 DEF Settled, Current
  <2> QED BY <2>1, <2>3, <2>4
<1>5. ASSUME UNCHANGED <<file, snap>>, Checked' \subseteq Checked
      PROVE  Transactions!Initialize \/ Settled' = Settled
  <2>1. CASE Checked' = Checked
    BY <1>5, <2>1 DEF Settled, Current
  <2>2. CASE Checked' # Checked
    <3>1. PICK t \in Checked : t \notin Checked'
      BY <1>5, <2>2
    <3>2. Checked = {t}
      BY <3>1 DEF Checked, LockInv, OwnersLocked, HoldsLock, Locked, Holding
    <3>3. Checked' = {} /\ Settled = snap[t]
      BY <1>5, <3>1, <3>2, SettledFacts
    <3>4. t \in Txn /\ pc[t] \in {"reassert", "write"}
      BY <3>1 DEF Checked
    <3>5. file # Absent /\ (snap[t] = file \/ (file = EmptyState /\ ~FileExists))
      BY <3>4 DEF FileInv, Using, LockInv, StoredInv, Untouched
    <3>6. Settled' = file
      BY <1>5, <3>3, <3>5 DEF Settled, Current
    <3> QED BY <3>3, <3>5, <3>6 DEF Transactions!Initialize, Transactions!Empty, EmptyState
  <2> QED BY <2>1, <2>2
<1>6. ASSUME NEW t \in Txn, Step(t) \/ Timeout(t) \/ BeatRead(t), ~Write(t), ~Create(t), ~ReadState(t), ~Reread(t)
      PROVE  UNCHANGED <<file, snap>> /\ Checked' \subseteq Checked
  <2>1. UNCHANGED <<file, snap>>
    BY <1>6 DEF Step, Probe, Wait, Attempt, Contended, Stat, Judge, Steal, Timeout, Transact,
       Assert, Release, Unlock, BeatRead, BeatWrite
  <2>2. \/ pc' = pc
        \/ \E phase : /\ pc' = [pc EXCEPT ![t] = phase]
                      /\ phase \in {"reassert", "write"} => pc[t] \in {"reassert", "write"}
    <3>1. CASE Probe(t) \/ Wait(t) \/ Timeout(t)
      BY <3>1 DEF Probe, Wait, Attempt, Contended, Stat, Judge, Steal, Timeout, Goto
    <3>2. CASE Assert(t, "assert", "reread") \/ Assert(t, "reassert", "write")
      BY <3>2 DEF Assert, At, Goto
    <3>3. CASE Release(t) \/ Unlock(t)
      BY <3>3 DEF Release, Unlock, Goto
    <3>4. CASE BeatRead(t) \/ BeatWrite(t)
      BY <3>4 DEF BeatRead, BeatWrite
    <3> QED BY <1>6, <3>1, <3>2, <3>3, <3>4 DEF Step, Transact
  <2>3. Checked' \subseteq Checked
    BY <1>1, <2>2 DEF Checked
  <2> QED BY <2>1, <2>3
<1>7. ASSUME Lapse \/ (\E p \in Process : Exit(p) \/ Reuse(p)) \/ Terminated
      PROVE  UNCHANGED <<file, snap>> /\ Checked' \subseteq Checked
  <2>1. CASE Lapse \/ (\E p \in Process : Reuse(p)) \/ Terminated
    BY <2>1 DEF Lapse, Reuse, Terminated, vars, Checked
  <2>2. ASSUME NEW p \in Process, Exit(p) PROVE UNCHANGED <<file, snap>> /\ Checked' \subseteq Checked
    <3>1. UNCHANGED <<file, snap>> /\ \A t \in Txn : pc'[t] = pc[t] \/ pc'[t] = "dead"
      BY <2>2 DEF Exit
    <3> QED BY <3>1 DEF Checked
  <2> QED BY <1>7, <2>1, <2>2
<1> QED BY <1>2, <1>3, <1>4, <1>5, <1>6, <1>7 DEF Next

\* Transactions on the state file are atomic (transact, initialize): the file
\* goes through the states of StateTransactions, for any number of transactions
\* in any number of processes, whether or not it exists at the start, until a
\* waiter has renamed away another lock than the one it judged stale.
THEOREM FileIsAtomic == Spec => ImplementsTransactions
<1>1. Init => Transactions!Init
  <2>1. ASSUME Init PROVE Checked = {} /\ Current = EmptyState /\ robbed = FALSE
    BY <2>1, LockAssumption DEF LockAssumption, Init, Current, Checked, EmptyState
  <2> QED BY <2>1 DEF Transactions!Init, Transactions!Empty, Settled, EmptyState
<1>2. ASSUME Inv, Inv', [Next]_vars PROVE [Transactions!Next]_<<Settled, robbed>>
  <2>1. CASE robbed' = FALSE
    <3>1. robbed = FALSE /\ LockInv /\ FileInv /\ LockInv' /\ FileInv'
      BY <1>2, <2>1, RobbedStays DEF Inv
    <3>2. CASE UNCHANGED vars
      BY <3>2 DEF vars, Settled, Current, Checked
    <3>3. ASSUME NEW t \in Txn, Write(t) PROVE Transactions!Next
      BY <2>1, <3>1, <3>3, WriteIsApply DEF Transactions!Next
    <3>4. CASE Next /\ \A t \in Txn : ~Write(t)
      BY <2>1, <3>1, <3>4, OtherIsInitialize DEF Transactions!Next
    <3> QED BY <1>2, <3>2, <3>3, <3>4
  <2>2. CASE robbed' = TRUE
    BY <2>2 DEF Transactions!Next
  <2> QED BY <1>2, <2>1, <2>2 DEF Inv, StoredInv, TypeOK
<1> QED
  BY <1>1, <1>2, LockInvariant, PTL DEF Spec, ImplementsTransactions, Transactions!Spec

\* What a transaction wrote stays: no later one writes a state that misses it,
\* and only an initialization that found no file takes it out again, until a
\* waiter has renamed away another lock than the one it judged (transact).
WrittenOnly ==
  [][~robbed' => Current.done \subseteq Current'.done \/ \E t \in Txn : Create(t)]_vars

\* What lock_overwrite shows to fail after that one event holds before it.
THEOREM WrittenStays == Spec => WrittenOnly
<1> DEFINE Stays == ~robbed' => Current.done \subseteq Current'.done \/ \E t \in Txn : Create(t)
<1>1. ASSUME Inv, [Next]_vars, robbed' = FALSE, \A t \in Txn : ~Create(t)
      PROVE  Current.done \subseteq Current'.done
  <2>1. LockInv /\ FileInv
    BY <1>1, RobbedStays DEF Inv
  <2>2. ASSUME NEW t \in Txn, Write(t) PROVE Current.done \subseteq Current'.done
    <3>1. /\ pc[t] = "write" /\ snap[t] \in State
          /\ file' = [rev |-> snap[t].rev + 1, done |-> snap[t].done \cup {t}]
      BY <2>1, <2>2 DEF Write, At, LockInv, StoredInv, TypeOK
    <3>2. file # Absent /\ (snap[t] = file \/ file = EmptyState)
      BY <2>1, <3>1 DEF FileInv, Using, LockInv, StoredInv, Untouched
    <3>3. file' # Absent /\ file.done \subseteq file'.done
      BY <3>1, <3>2, LockAssumption DEF LockAssumption, State, EmptyState
    <3> QED BY <3>2, <3>3 DEF Current
  <2>3. ASSUME NEW t \in Txn, Step(t) \/ Timeout(t) \/ BeatRead(t), ~Write(t), ~Create(t)
        PROVE  file' = file
    BY <2>3 DEF Step, Probe, Wait, Attempt, Contended, Stat, Judge, Steal, Timeout, Transact,
       ReadState, Assert, Reread, Release, Unlock, BeatRead, BeatWrite
  <2>4. Lapse \/ (\E p \in Process : Exit(p) \/ Reuse(p)) \/ UNCHANGED vars => file' = file
    BY DEF Lapse, Exit, Reuse, vars
  <2>5. file' = file => Current.done \subseteq Current'.done
    BY DEF Current
  <2> QED BY <1>1, <2>2, <2>3, <2>4, <2>5 DEF Next, Terminated
<1>2. ASSUME Inv, Inv', [Next]_vars PROVE [Stays]_vars
  <2>1. robbed' \in BOOLEAN
    BY <1>2 DEF Inv, StoredInv, TypeOK
  <2> QED BY <1>1, <1>2, <2>1
<1> QED BY <1>2, LockInvariant, PTL DEF Spec, WrittenOnly
=============================================================================
