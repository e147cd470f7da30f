---------------------------- MODULE ProjectWrites ----------------------------
(***************************************************************************)
(* Reading and writing a project through JSON-first storage                *)
(* (JsonFirstStorageAdapter): canonical JSON behind a write lock, and a    *)
(* SQLite read model that is brought up to date after every save and, when *)
(* it has fallen behind, by loads.  On top of it the two writes that deal  *)
(* with their own repetition: the ordinary write with an idempotency       *)
(* receipt (executeOrdinaryWrite), and the L3 proposal that is read back   *)
(* and taken back if it was stored garbled (proposeL3Operation).           *)
(*                                                                         *)
(* A project is the set of the writes in it, and its head revision is that *)
(* set: the code's revision is a hash of the documents.  Reading the       *)
(* documents and replacing them are one step each, which is what           *)
(* CanonicalReplace shows of them.                                         *)
(***************************************************************************)
EXTENDS Naturals, FiniteSets

CONSTANTS Client,    \* agents with a server process of their own
          Request,   \* what may be asked for
          Asks,      \* the requests each client makes
          Kind,      \* of each request: "read", "ordinary" or "proposal"
          KeyOf,     \* the idempotency key of each request, or NoKey
          Garbled,   \* proposals that do not read back as they were stored
          MaxCalls,  \* how many writes each client attempts
          NoKey, NoLock, None

ASSUME WritesAssumption ==
  /\ Request # {}
  /\ Asks \in [Client -> SUBSET Request]
  /\ Kind \in [Request -> {"read", "ordinary", "proposal"}]
  /\ \A r \in Request : KeyOf[r] # NoKey => Kind[r] = "ordinary"
  /\ Garbled \subseteq {r \in Request : Kind[r] = "proposal"}
  /\ MaxCalls \in [Client -> Nat]
  /\ NoLock \notin [by : Client, call : Nat, lapsed : BOOLEAN]
  /\ None \notin [by : Client, call : Nat, req : Request, time : Nat]

VARIABLES
  canon,   \* the canonical project
  sqlite,  \* the project in the read model, or Missing
  lock,    \* the write lock
  clock,   \* the time of the last write attempted
  calls,   \* how many writes each client has attempted
  pc,      \* where each client is
  stage,   \* what its present load or save is for
  req,     \* what it was asked for
  base,    \* the project it loaded
  next,    \* the project it saves
  result,  \* what became of its save
  answer   \* the write it reported to its agent, or None

storage == <<canon, sqlite, lock>>
vars == <<canon, sqlite, lock, clock, calls, pc, stage, req, base, next, result, answer>>

Write == [by : Client, call : Nat, req : Request, time : Nat]
Lock == [by : Client, call : Nat, lapsed : BOOLEAN]

\* There is no read model, or it cannot be opened.
Missing == {None}

Loading == {"load", "inspect", "rebuild", "mirror", "mirror again", "apply"}
Saving == {"check", "replace", "sync", "sync again", "release"}
Over == {"idle", "done", "failed"}

Init ==
  /\ canon = {}
  /\ sqlite \in {{}, Missing}
  /\ lock = NoLock
  /\ clock = 0
  /\ calls = [c \in Client |-> 0]
  /\ pc = [c \in Client |-> "idle"]
  /\ stage = [c \in Client |-> "first"]
  /\ req = [c \in Client |-> CHOOSE r \in Request : TRUE]
  /\ base = [c \in Client |-> {}]
  /\ next = [c \in Client |-> {}]
  /\ result = [c \in Client |-> "none"]
  /\ answer = [c \in Client |-> None]

At(c, phase) == pc[c] = phase
Goto(c, phase) == pc' = [pc EXCEPT ![c] = phase]

-----------------------------------------------------------------------------
(* The read model.                                                         *)

\* The freshness of p, the time of its latest record, is after that of q.
Newer(p, q) == \E w \in p : \A v \in q : v.time < w.time

\* getBlockingConflict: the contents differ and the read model is not older.
Blocking(json, view) ==
  view # Missing /\ view # json /\ ~Newer(json, view)

\* inspectSqliteState, which may find that SQLite cannot be opened.
Views == {sqlite, Missing}

\* syncJsonSnapshotToSqlite: writes the project p in one transaction on top
\* of the read model's own revision.  If that fails, the database files are
\* removed ...
Sync(c, p, here, again, there) ==
  /\ At(c, here)
  /\ \/ sqlite' = p /\ Goto(c, there)
     \/ sqlite' = Missing /\ Goto(c, again)
  /\ UNCHANGED <<canon, lock, clock, calls, stage, req, base, next, result, answer>>

\* ... and it is tried once more; another failure is only logged.
SyncAgain(c, p, again, there) ==
  /\ At(c, again)
  /\ sqlite' \in {sqlite, p}
  /\ Goto(c, there)
  /\ UNCHANGED <<canon, lock, clock, calls, stage, req, base, next, result, answer>>

-----------------------------------------------------------------------------
(* The write lock: refused while somebody has it, taken over when stale.   *)

Held == lock # NoLock /\ ~lock.lapsed

\* Faulty variant: metadata written without its times.
OwnLockUnstamped(c) == [by |-> c, call |-> calls[c]]

OwnLock(c) == [by |-> c, call |-> calls[c], lapsed |-> FALSE]
HasLock(c) == lock # NoLock /\ lock.by = c /\ lock.call = calls[c]

-----------------------------------------------------------------------------
(* loadProjectAggregate.                                                   *)

\* A call ends, with an answer or an error.
End(c, phase, w) ==
  /\ Goto(c, phase)
  /\ answer' = [answer EXCEPT ![c] = w]
  /\ stage' = [stage EXCEPT ![c] = "first"]
  /\ base' = [base EXCEPT ![c] = {}]
  /\ next' = [next EXCEPT ![c] = {}]
  /\ result' = [result EXCEPT ![c] = "none"]

Fail(c) == End(c, "failed", None)

Read(c) ==
  /\ At(c, "load")
  /\ IF Held
     THEN Fail(c) /\ UNCHANGED lock
     ELSE /\ base' = [base EXCEPT ![c] = canon]
          /\ lock' = NoLock
          /\ Goto(c, "inspect")
          /\ UNCHANGED <<stage, next, result, answer>>
  /\ UNCHANGED <<canon, sqlite, clock, calls, req>>

Inspect(c) ==
  /\ At(c, "inspect")
  /\ \E view \in Views :
       IF Blocking(base[c], view) THEN Fail(c)
       ELSE Goto(c, "rebuild") /\ UNCHANGED <<stage, base, next, result, answer>>
  /\ UNCHANGED <<storage, clock, calls, req>>

\* Faulty variant: a read model that exists is taken to be up to date.
RebuildMissing(c) ==
  /\ At(c, "rebuild")
  /\ Goto(c, IF sqlite # Missing THEN "apply" ELSE "mirror")
  /\ UNCHANGED <<storage, clock, calls, stage, req, base, next, result, answer>>

\* rebuildSqliteReadModelIfNeeded looks a second time.
Rebuild(c) ==
  /\ At(c, "rebuild")
  /\ \E view \in Views : Goto(c, IF view = base[c] THEN "apply" ELSE "mirror")
  /\ UNCHANGED <<storage, clock, calls, stage, req, base, next, result, answer>>

\* The removal of the database files throws, and so does the load.
MirrorThrows(c) ==
  /\ At(c, "mirror")
  /\ sqlite' \in Views
  /\ Fail(c)
  /\ UNCHANGED <<canon, lock, clock, calls, req>>

-----------------------------------------------------------------------------
(* What a command does with the project it has loaded.                     *)

OwnWrites(c, p) == {w \in p : w.by = c /\ w.call = calls[c]}

\* Faulty variant: the receipt is not looked for.
NoReceipts(c, p) == {}

\* findReceipt: the receipt of a write is saved with the write.
Receipts(c, p) ==
  {w \in p : KeyOf[req[c]] # NoKey /\ KeyOf[w.req] = KeyOf[req[c]]}

FinishRead(c) ==
  /\ At(c, "apply")
  /\ Kind[req[c]] = "read"
  /\ End(c, "done", None)
  /\ UNCHANGED <<storage, clock, calls, req>>

\* replayReceipt: answers with the original write if it has the same input.
Replay(c) ==
  /\ At(c, "apply")
  /\ stage[c] \in {"first", "refresh"}
  /\ \E w \in Receipts(c, base[c]) :
       IF w.req = req[c] THEN End(c, "done", w) ELSE Fail(c)
  /\ UNCHANGED <<storage, clock, calls, req>>

\* After a stale save nothing but a replay can help.
GiveUp(c) ==
  /\ At(c, "apply")
  /\ stage[c] = "refresh"
  /\ Receipts(c, base[c]) = {}
  /\ Fail(c)
  /\ UNCHANGED <<storage, clock, calls, req>>

\* The command changes its copy; every change leaves the time in an event.
Mutate(c) ==
  /\ At(c, "apply")
  /\ stage[c] = "first"
  /\ Kind[req[c]] \in {"ordinary", "proposal"}
  /\ Receipts(c, base[c]) = {}
  /\ clock' = clock + 1
  /\ next' = [next EXCEPT ![c] = base[c] \cup
       {[by |-> c, call |-> calls[c], req |-> req[c], time |-> clock + 1]}]
  /\ Goto(c, "acquire")
  /\ UNCHANGED <<storage, calls, stage, req, base, result, answer>>

\* headStillMatchesOwnWrite: nobody has saved since.
CanTakeBack(c) == base[c] = next[c]

\* The proposal is read back and its digest rebuilt; a garbled one is taken
\* back by a second save, unless somebody else has saved in between.
Compare(c) ==
  /\ At(c, "apply")
  /\ stage[c] = "readback"
  /\ IF req[c] \notin Garbled /\ OwnWrites(c, base[c]) # {}
     THEN \E w \in OwnWrites(c, base[c]) : End(c, "done", w)
     ELSE IF CanTakeBack(c)
     THEN /\ next' = [next EXCEPT ![c] = base[c] \ OwnWrites(c, base[c])]
          /\ stage' = [stage EXCEPT ![c] = "rollback"]
          /\ Goto(c, "acquire")
          /\ UNCHANGED <<base, result, answer>>
     ELSE Fail(c)
  /\ UNCHANGED <<storage, clock, calls, req>>

-----------------------------------------------------------------------------
(* saveProjectAggregate.                                                   *)

Acquire(c) ==
  /\ At(c, "acquire")
  /\ IF Held
     THEN Fail(c) /\ UNCHANGED lock
     ELSE /\ lock' = OwnLock(c)
          /\ Goto(c, "check")
          /\ UNCHANGED <<stage, base, next, result, answer>>
  /\ UNCHANGED <<canon, sqlite, clock, calls, req>>

\* Faulty variant: assertExpectedHeadRevision does not compare.
HeadUnchecked(c) == TRUE

\* assertExpectedHeadRevision: the project is still the one that was loaded.
HeadMatches(c) == canon = base[c]

SetResult(c, r) == result' = [result EXCEPT ![c] = r]

Check(c) ==
  /\ At(c, "check")
  /\ \E view \in Views :
       IF Blocking(canon, view) THEN SetResult(c, "failed") /\ Goto(c, "release")
       ELSE IF ~HeadMatches(c) THEN SetResult(c, "stale") /\ Goto(c, "release")
       ELSE Goto(c, "replace") /\ UNCHANGED result
  /\ UNCHANGED <<storage, clock, calls, stage, req, base, next, answer>>

Replace(c) ==
  /\ At(c, "replace")
  /\ \/ canon' = next[c] /\ SetResult(c, "saved") /\ Goto(c, "sync")
     \/ SetResult(c, "failed") /\ Goto(c, "release") /\ UNCHANGED canon
  /\ UNCHANGED <<sqlite, lock, clock, calls, stage, req, base, next, answer>>

\* The same while the database files are removed: the save throws although
\* the canonical project has been replaced.
SyncThrows(c) ==
  /\ At(c, "sync")
  /\ sqlite' \in Views
  /\ SetResult(c, "failed")
  /\ Goto(c, "release")
  /\ UNCHANGED <<canon, lock, clock, calls, stage, req, base, next, answer>>

\* A stale protected write looks for its receipt, a saved proposal is read
\* back; everything else ends here.
Release(c) ==
  /\ At(c, "release")
  /\ lock' = IF HasLock(c) THEN NoLock ELSE lock
  /\ LET Reload(why) ==
           /\ Goto(c, "load")
           /\ stage' = [stage EXCEPT ![c] = why]
           /\ UNCHANGED <<base, next, answer>> /\ SetResult(c, "none")
     IN CASE result[c] = "saved" /\ stage[c] = "first" /\ Kind[req[c]] = "proposal" ->
               Reload("readback")
          [] result[c] = "saved" /\ stage[c] = "first" /\ Kind[req[c]] = "ordinary" ->
               \E w \in OwnWrites(c, next[c]) : End(c, "done", w)
          [] result[c] = "stale" /\ stage[c] = "first" /\ KeyOf[req[c]] # NoKey ->
               Reload("refresh")
          [] OTHER -> Fail(c)
  /\ UNCHANGED <<canon, sqlite, clock, calls, req>>

-----------------------------------------------------------------------------
(* Agents, crashes and time.                                               *)

\* An agent asks for something new, or again for what it asked before.
Start(c, r) ==
  /\ pc[c] \in Over
  /\ r \in Asks[c]
  /\ IF Kind[r] = "read" THEN UNCHANGED calls
     ELSE calls[c] < MaxCalls[c] /\ calls' = [calls EXCEPT ![c] = @ + 1]
  /\ req' = [req EXCEPT ![c] = r]
  /\ answer' = [answer EXCEPT ![c] = None]
  /\ Goto(c, "load")
  /\ UNCHANGED <<storage, clock, stage, base, next, result>>

\* The process dies, and the agent will find another one.  (A read that dies
\* leaves nothing behind that one that stops or throws does not.)
Crash(c) ==
  /\ pc[c] \notin Over
  /\ Kind[req[c]] # "read"
  /\ Fail(c)
  /\ UNCHANGED <<storage, clock, calls, req>>

\* 30 seconds without a renewal: the owner died, or it is busy with the read
\* model, which comes after the last renewal.
Lapse ==
  /\ Held
  /\ \/ lock.call # calls[lock.by] \/ pc[lock.by] \notin Saving
     \/ pc[lock.by] \in {"sync", "sync again", "release"}
  /\ lock' = [lock EXCEPT !.lapsed = TRUE]
  /\ UNCHANGED <<canon, sqlite, clock, calls, pc, stage, req, base, next, result, answer>>

-----------------------------------------------------------------------------
Load(c) ==
  \/ Read(c) \/ Inspect(c) \/ Rebuild(c)
  \/ Sync(c, base[c], "mirror", "mirror again", "apply")
  \/ SyncAgain(c, base[c], "mirror again", "apply") \/ MirrorThrows(c)

Command(c) == FinishRead(c) \/ Replay(c) \/ GiveUp(c) \/ Mutate(c) \/ Compare(c)

Save(c) ==
  \/ Acquire(c) \/ Check(c) \/ Replace(c)
  \/ Sync(c, next[c], "sync", "sync again", "release")
  \/ SyncAgain(c, next[c], "sync again", "release") \/ SyncThrows(c)
  \/ Release(c)

Step(c) == Load(c) \/ Command(c) \/ Save(c)

Next ==
  \/ \E c \in Client : Step(c) \/ Crash(c) \/ \E r \in Request : Start(c, r)
  \/ Lapse

Spec == Init /\ [][Next]_vars

MirrorWorks(c) ==
  Sync(c, base[c], "mirror", "mirror again", "apply") /\ sqlite' = base[c]

\* A call that has started runs on, an agent that may read reads again and
\* again, and a lock that nobody renews lapses.  SQLite does not fail every time.
Fairness ==
  /\ WF_vars(Lapse)
  /\ \A c \in Client : WF_vars(Step(c))
  /\ \A c \in Client : \A r \in Asks[c] :
       Kind[r] = "read" => WF_vars(Start(c, r)) /\ SF_vars(MirrorWorks(c))

LiveSpec == Spec /\ Fairness

-----------------------------------------------------------------------------
(* Properties.                                                             *)

TypeOK ==
  /\ canon \subseteq Write
  /\ sqlite = Missing \/ sqlite \subseteq Write
  /\ lock \in Lock \cup {NoLock}
  /\ clock \in Nat
  /\ calls \in [Client -> Nat]
  /\ pc \in [Client -> Loading \cup Saving \cup Over \cup {"acquire"}]
  /\ stage \in [Client -> {"first", "refresh", "readback", "rollback"}]
  /\ req \in [Client -> Request]
  /\ base \in [Client -> SUBSET Write]
  /\ next \in [Client -> SUBSET Write]
  /\ result \in [Client -> {"none", "saved", "stale", "failed"}]
  /\ answer \in [Client -> Write \cup {None}]

Ledger == INSTANCE WriteLedger
            WITH Key <- LAMBDA r : KeyOf[r], ledger <- canon, asked <- req
ImplementsLedger == Ledger!Spec

\* A proposal that was taken back is still in the read model.
TakenBackInView ==
  sqlite # Missing /\ \E w \in sqlite \ canon : w.req \in Garbled

\* The read model never blocks the project (assertNoBlockingConflict): where
\* it differs from the canonical project it is older, whichever loads and saves
\* overtook each other or died in between.  The exception is a proposal that
\* was taken back by a save that died before it reached the read model.
ViewNeverBlocks == Blocking(canon, sqlite) => TakenBackInView

\* As long as somebody reads, the read model always catches up with the
\* project again (rebuildSqliteReadModelIfNeeded), with the same exception.
ViewCatchesUp == []<>(sqlite = canon \/ TakenBackInView)
=============================================================================
