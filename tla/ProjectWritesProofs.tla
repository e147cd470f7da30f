-------------------------- MODULE ProjectWritesProofs --------------------------
(***************************************************************************)
(* Theorems about the write path of a project, for any number of agents,   *)
(* requests and calls: it is a WriteLedger, and the read model never       *)
(* blocks it but for a proposal taken back.                                *)
(***************************************************************************)
EXTENDS ProjectWrites, TLAPS

\* The projects that are or were canonical and are still in use somewhere.
Landings ==
  {canon, sqlite} \cup {base[c] : c \in Client}
    \cup {next[c] : c \in {d \in Client : result[d] = "saved"}}

\* p is an earlier state of the project: what is missing from the project now
\* has been taken back, and if nothing is then the project only grew later.
Earlier(p) ==
  /\ \A w \in p \ canon : w.req \in Garbled
  /\ p \subseteq canon => \A v \in p, w \in canon \ p : v.time < w.time

\* The write a call attempts has not landed yet.
Unlanded(c) ==
  /\ Kind[req[c]] # "read" /\ stage[c] = "first"
  /\ pc[c] \in Loading \cup {"acquire", "check", "replace"}

LandingOK(p) ==
  /\ p \subseteq Write
  /\ Earlier(p)
  /\ \A w \in p :
       /\ w.time <= clock /\ w.call <= calls[w.by]
       /\ w.call = calls[w.by] => /\ ~Unlanded(w.by)
                                  /\ Kind[req[w.by]] # "read" => w.req = req[w.by]
  /\ \A v, w \in p : v.by = w.by /\ v.call = w.call => v = w

LandingsOK == \A p \in Landings : p # Missing => LandingOK(p)

\* What a call saves: what it loaded and its own write, or without its own.
SaveShape(c) ==
  /\ Kind[req[c]] # "read"
  /\ result[c] = "none"
  /\ \/ /\ stage[c] = "first"
        /\ \E w \in next[c] :
             /\ w.by = c /\ w.call = calls[c] /\ w.req = req[c] /\ w.time <= clock
             /\ next[c] = base[c] \cup {w}
             /\ \A v \in base[c] : v.time < w.time
        /\ Receipts(c, base[c]) = {}
     \/ /\ stage[c] = "rollback"
        /\ req[c] \in Garbled
        /\ next[c] = base[c] \ OwnWrites(c, base[c])

CallOK(c) ==
  /\ pc[c] \in {"acquire", "check", "replace"} => SaveShape(c)
  /\ pc[c] \in {"check", "replace"} => HasLock(c) /\ lock.lapsed = FALSE
  /\ pc[c] = "replace" => canon = base[c]
  /\ pc[c] \notin Over => answer[c] = None
  /\ pc[c] \in Over => stage[c] = "first"
  /\ pc[c] \notin Saving => result[c] = "none"
  /\ pc[c] \in {"sync", "sync again"} => result[c] = "saved"
  /\ result[c] = "saved" => Kind[req[c]] # "read"
  /\ stage[c] = "readback" => Kind[req[c]] = "proposal"
  /\ stage[c] = "readback" \/ (stage[c] = "first" /\ result[c] = "saved")
       => OwnWrites(c, next[c]) # {}

WritesInv == TypeOK /\ LandingsOK /\ \A c \in Client : CallOK(c)

-----------------------------------------------------------------------------
(* The type invariant.                                                     *)

LEMMA TypeInit == Init => TypeOK
  BY WritesAssumption
     DEF WritesAssumption, Init, TypeOK, Loading, Saving, Over

LEMMA EndType ==
  ASSUME TypeOK, NEW c \in Client, NEW phase \in Over, NEW w \in Write \cup {None},
         End(c, phase, w)
  PROVE  /\ pc' \in [Client -> Loading \cup Saving \cup Over \cup {"acquire"}]
         /\ stage' \in [Client -> {"first", "refresh", "readback", "rollback"}]
         /\ base' \in [Client -> SUBSET Write]
         /\ next' \in [Client -> SUBSET Write]
         /\ result' \in [Client -> {"none", "saved", "stale", "failed"}]
         /\ answer' \in [Client -> Write \cup {None}]
  BY DEF TypeOK, End, Goto

LEMMA SyncType ==
  ASSUME TypeOK, NEW c \in Client, NEW p \in SUBSET Write,
         NEW here, NEW again \in Loading \cup Saving,
         NEW there \in Loading \cup Saving,
         Sync(c, p, here, again, there) \/ SyncAgain(c, p, again, there)
  PROVE  TypeOK'
  BY DEF TypeOK, Sync, SyncAgain, Goto

LEMMA LoadType ==
  ASSUME TypeOK, NEW c \in Client, Load(c) PROVE TypeOK'
  <1>1. CASE Read(c)
    <2>1. CASE Held
      <3>1. End(c, "failed", None) /\ lock' = lock
        BY <1>1, <2>1 DEF Read, Fail
      <3> QED BY <1>1, <3>1, EndType DEF TypeOK, Read, Over
    <2>2. CASE ~Held
      <3>1. base' \in [Client -> SUBSET Write]
        BY <1>1, <2>2 DEF TypeOK, Read
      <3> QED BY <1>1, <2>2, <3>1 DEF TypeOK, Read, Goto, Loading
    <2> QED BY <2>1, <2>2
  <1>2. CASE Inspect(c)
    BY <1>2, EndType DEF TypeOK, Inspect, Fail, Goto, Loading, Over, storage
  <1>3. CASE Rebuild(c)
    BY <1>3 DEF TypeOK, Rebuild, Goto, Loading, storage
  <1>4. CASE \/ Sync(c, base[c], "mirror", "mirror again", "apply")
             \/ SyncAgain(c, base[c], "mirror again", "apply")
    <2>1. base[c] \in SUBSET Write
      BY DEF TypeOK
    <2> QED BY <1>4, <2>1, SyncType DEF Loading
  <1>5. CASE MirrorThrows(c)
    BY <1>5, EndType DEF TypeOK, MirrorThrows, Fail, Views, Over
  <1> QED BY <1>1, <1>2, <1>3, <1>4, <1>5 DEF Load

LEMMA CommandType ==
  ASSUME TypeOK, NEW c \in Client, Command(c) PROVE TypeOK'
  <1>0. base[c] \in SUBSET Write /\ next[c] \in SUBSET Write
    BY DEF TypeOK
  <1>1. CASE FinishRead(c)
    BY <1>1, EndType DEF TypeOK, FinishRead, Over, storage
  <1>2. CASE Replay(c)
    <2>1. PICK w \in Receipts(c, base[c]) :
            IF w.req = req[c] THEN End(c, "done", w) ELSE Fail(c)
      BY <1>2 DEF Replay
    <2>2. w \in Write
      BY <1>0, <2>1 DEF Receipts
    <2> QED BY <1>2, <2>1, <2>2, EndType DEF TypeOK, Replay, Fail, Over, storage
  <1>3. CASE GiveUp(c)
    BY <1>3, EndType DEF TypeOK, GiveUp, Fail, Over, storage
  <1>4. CASE Mutate(c)
    <2>1. [by |-> c, call |-> calls[c], req |-> req[c], time |-> clock + 1] \in Write
      BY DEF TypeOK, Write
    <2> QED BY <1>0, <1>4, <2>1 DEF TypeOK, Mutate, Goto, storage
  <1>5. CASE Compare(c)
    <2>1. CASE req[c] \notin Garbled /\ OwnWrites(c, base[c]) # {}
      <3>1. PICK w \in OwnWrites(c, base[c]) : End(c, "done", w)
        BY <1>5, <2>1 DEF Compare
      <3>2. w \in Write
        BY <1>0, <3>1 DEF OwnWrites
      <3> QED BY <1>5, <3>1, <3>2, EndType DEF TypeOK, Compare, Over, storage
    <2>2. CASE ~(req[c] \notin Garbled /\ OwnWrites(c, base[c]) # {}) /\ CanTakeBack(c)
      BY <1>0, <1>5, <2>2 DEF TypeOK, Compare, Goto, storage
    <2>3. CASE ~(req[c] \notin Garbled /\ OwnWrites(c, base[c]) # {}) /\ ~CanTakeBack(c)
      BY <1>5, <2>3, EndType DEF TypeOK, Compare, Fail, Over, storage
    <2> QED BY <2>1, <2>2, <2>3
  <1> QED BY <1>1, <1>2, <1>3, <1>4, <1>5 DEF Command

LEMMA SaveType ==
  ASSUME TypeOK, NEW c \in Client, Save(c) PROVE TypeOK'
  <1>0. base[c] \in SUBSET Write /\ next[c] \in SUBSET Write
    BY DEF TypeOK
  <1>1. CASE Acquire(c)
    <2>1. OwnLock(c) \in Lock
      BY DEF TypeOK, OwnLock, Lock
    <2>2. CASE Held
      BY <1>1, <2>2, EndType DEF TypeOK, Acquire, Fail, Over
    <2>3. CASE ~Held
      BY <1>1, <2>1, <2>3 DEF TypeOK, Acquire, Goto, Saving
    <2> QED BY <2>2, <2>3
  <1>2. CASE Check(c)
    BY <1>2 DEF TypeOK, Check, SetResult, Goto, Saving, storage
  <1>3. CASE Replace(c)
    BY <1>0, <1>3 DEF TypeOK, Replace, SetResult, Goto, Saving
  <1>4. CASE \/ Sync(c, next[c], "sync", "sync again", "release")
             \/ SyncAgain(c, next[c], "sync again", "release")
    BY <1>0, <1>4, SyncType DEF Saving
  <1>5. CASE SyncThrows(c)
    BY <1>5 DEF TypeOK, SyncThrows, SetResult, Goto, Saving, Views
  <1>6. CASE Release(c)
    <2>1. lock' \in Lock \cup {NoLock}
      BY <1>6 DEF TypeOK, Release
    <2>2. CASE \E w \in OwnWrites(c, next[c]) : End(c, "done", w)
      <3>1. PICK w \in OwnWrites(c, next[c]) : End(c, "done", w)
        BY <2>2
      <3>2. w \in Write
        BY <1>0, <3>1 DEF OwnWrites
      <3> QED BY <1>6, <2>1, <3>1, <3>2, EndType DEF TypeOK, Release, Over
    <2>3. CASE Fail(c)
      BY <1>6, <2>1, <2>3, EndType DEF TypeOK, Release, Fail, Over
    <2>4. CASE ~(\E w \in OwnWrites(c, next[c]) : End(c, "done", w)) /\ ~Fail(c)
      BY ZenonT(60), <1>6, <2>1, <2>4 DEF TypeOK, Release, Goto, SetResult, Loading
    <2> QED BY <2>2, <2>3, <2>4
  <1> QED BY <1>1, <1>2, <1>3, <1>4, <1>5, <1>6 DEF Save

LEMMA TypeStep == TypeOK /\ [Next]_vars => TypeOK'
  <1> SUFFICES ASSUME TypeOK, [Next]_vars PROVE TypeOK'
    OBVIOUS
  <1>1. ASSUME NEW c \in Client, Step(c) PROVE TypeOK'
    BY <1>1, LoadType, CommandType, SaveType DEF Step
  <1>2. ASSUME NEW c \in Client, Crash(c) PROVE TypeOK'
    BY <1>2, EndType DEF TypeOK, Crash, Fail, Over, storage
  <1>3. ASSUME NEW c \in Client, NEW r \in Request, Start(c, r) PROVE TypeOK'
    <2>1. calls' \in [Client -> Nat]
      BY <1>3 DEF TypeOK, Start
    <2>2. answer' \in [Client -> Write \cup {None}] /\ req' \in [Client -> Request]
      BY <1>3 DEF TypeOK, Start
    <2> QED BY <1>3, <2>1, <2>2 DEF TypeOK, Start, Goto, Loading, storage
  <1>4. CASE Lapse
    <2>1. lock \in Lock
      BY <1>4 DEF TypeOK, Lapse, Held
    <2>2. lock' \in Lock
      BY <1>4, <2>1 DEF Lapse, Lock
    <2> QED BY <1>4, <2>2 DEF TypeOK, Lapse
  <1>5. CASE UNCHANGED vars
    BY <1>5 DEF TypeOK, vars, storage
  <1> QED BY <1>1, <1>2, <1>3, <1>4, <1>5 DEF Next

-----------------------------------------------------------------------------
(* What a step of one client leaves alone.                                 *)

\* Nothing of the calls of the others changes in a step of c.
SameCall(d) ==
  /\ pc'[d] = pc[d] /\ stage'[d] = stage[d]
  /\ req'[d] = req[d] /\ calls'[d] = calls[d]
  /\ base'[d] = base[d] /\ next'[d] = next[d]
  /\ result'[d] = result[d] /\ answer'[d] = answer[d]

Others(c) == \A d \in Client \ {c} : SameCall(d)

LEMMA EndOthers ==
  ASSUME TypeOK, NEW c \in Client, NEW phase, NEW w, End(c, phase, w),
         calls' = calls, req' = req
  PROVE  Others(c)
  BY DEF TypeOK, End, Goto, Others, SameCall

LEMMA LoadOthers ==
  ASSUME TypeOK, NEW c \in Client, Load(c)
  PROVE  Others(c) /\ calls' = calls /\ req' = req /\ clock' = clock /\ canon' = canon
  <1>0. calls' = calls /\ req' = req /\ clock' = clock /\ canon' = canon
    BY DEF Load, Read, Inspect, Rebuild, Sync, SyncAgain, MirrorThrows, storage
  <1>1. CASE Read(c)
    <2>1. CASE Held
      BY <1>0, <1>1, <2>1, EndOthers DEF Read, Fail
    <2>2. CASE ~Held
      BY <1>0, <1>1, <2>2 DEF TypeOK, Read, Goto, Others, SameCall
    <2> QED BY <2>1, <2>2
  <1>2. CASE Inspect(c)
    <2>1. CASE Fail(c)
      BY <1>0, <2>1, EndOthers DEF Fail
    <2>2. CASE ~Fail(c)
      BY <1>0, <1>2, <2>2 DEF TypeOK, Inspect, Goto, Others, SameCall
    <2> QED BY <2>1, <2>2
  <1>3. CASE Rebuild(c)
    BY <1>0, <1>3 DEF TypeOK, Rebuild, Goto, Others, SameCall
  <1>4. CASE \/ Sync(c, base[c], "mirror", "mirror again", "apply")
             \/ SyncAgain(c, base[c], "mirror again", "apply")
    BY <1>0, <1>4 DEF TypeOK, Sync, SyncAgain, Goto, Others, SameCall
  <1>5. CASE MirrorThrows(c)
    BY <1>0, <1>5, EndOthers DEF MirrorThrows, Fail
  <1> QED BY <1>0, <1>1, <1>2, <1>3, <1>4, <1>5 DEF Load

LEMMA CommandOthers ==
  ASSUME TypeOK, NEW c \in Client, Command(c)
  PROVE  /\ Others(c) /\ calls' = calls /\ req' = req /\ clock' >= clock
         /\ canon' = canon /\ sqlite' = sqlite /\ lock' = lock
  <1>0. /\ calls' = calls /\ req' = req /\ clock' >= clock
        /\ canon' = canon /\ sqlite' = sqlite /\ lock' = lock
    BY DEF TypeOK, Command, FinishRead, Replay, GiveUp, Mutate, Compare, storage
  <1>1. CASE \E phase, w : End(c, phase, w)
    BY <1>0, <1>1, EndOthers
  <1>2. CASE ~\E phase, w : End(c, phase, w)
    <2>1. Mutate(c) \/ Compare(c)
      BY <1>2 DEF Command, FinishRead, Replay, GiveUp, Fail
    <2>2. CASE Mutate(c)
      BY <1>0, <2>2 DEF TypeOK, Mutate, Goto, Others, SameCall
    <2>3. CASE Compare(c)
      BY <1>0, <1>2, <2>3 DEF TypeOK, Compare, Fail, Goto, Others, SameCall
    <2> QED BY <2>1, <2>2, <2>3
  <1> QED BY <1>0, <1>1, <1>2

LEMMA SaveOthers ==
  ASSUME TypeOK, NEW c \in Client, Save(c)
  PROVE  Others(c) /\ calls' = calls /\ req' = req /\ clock' = clock
  <1>0. calls' = calls /\ req' = req /\ clock' = clock
    BY DEF Save, Acquire, Check, Replace, Sync, SyncAgain, SyncThrows, Release, storage
  <1>1. CASE \E phase, w : End(c, phase, w)
    BY <1>0, <1>1, EndOthers
  <1>2. CASE ~\E phase, w : End(c, phase, w)
    <2>1. CASE Acquire(c)
      BY <1>0, <1>2, <2>1 DEF TypeOK, Acquire, Fail, Goto, Others, SameCall
    <2>2. CASE Check(c)
      BY <1>0, <2>2 DEF TypeOK, Check, SetResult, Goto, Others, SameCall
    <2>3. CASE Replace(c)
      BY <1>0, <2>3 DEF TypeOK, Replace, SetResult, Goto, Others, SameCall
    <2>4. CASE \/ Sync(c, next[c], "sync", "sync again", "release")
               \/ SyncAgain(c, next[c], "sync again", "release")
      BY <1>0, <2>4 DEF TypeOK, Sync, SyncAgain, Goto, Others, SameCall
    <2>5. CASE SyncThrows(c)
      BY <1>0, <2>5 DEF TypeOK, SyncThrows, SetResult, Goto, Others, SameCall
    <2>6. CASE Release(c)
      BY <1>0, <1>2, <2>6 DEF TypeOK, Release, Fail, SetResult, Goto, Others, SameCall
    <2> QED BY <2>1, <2>2, <2>3, <2>4, <2>5, <2>6 DEF Save
  <1> QED BY <1>0, <1>1, <1>2

LEMMA StartOthers ==
  ASSUME TypeOK, NEW c \in Client, NEW r \in Request, Start(c, r)
  PROVE  Others(c)
  BY DEF TypeOK, Start, Goto, Others, SameCall

-----------------------------------------------------------------------------
(* The projects in use.                                                    *)

LEMMA NotMissing ==
  ASSUME NEW p \in SUBSET Write PROVE p # Missing
  BY WritesAssumption DEF WritesAssumption, Missing, Write

LEMMA InUse ==
  ASSUME TypeOK, LandingsOK, NEW c \in Client
  PROVE  /\ LandingOK(canon)
         /\ LandingOK(base[c])
         /\ result[c] = "saved" => LandingOK(next[c])
         /\ sqlite # Missing => LandingOK(sqlite)
  <1>1. canon # Missing /\ base[c] # Missing /\ next[c] # Missing
    BY NotMissing DEF TypeOK
  <1> QED BY <1>1 DEF LandingsOK, Landings

\* What keeps a client's write from being both landed and still to land.
Drift(d) ==
  \/ calls'[d] = calls[d] + 1
  \/ /\ calls'[d] = calls[d]
     /\ \/ Kind[req'[d]] = "read"
        \/ req'[d] = req[d] /\ (Unlanded(d)' => Unlanded(d))

LEMMA LandingKept ==
  ASSUME TypeOK, NEW p, LandingOK(p), canon' = canon, clock' \in Nat, clock' >= clock,
         \A d \in Client : Drift(d)
  PROVE  LandingOK(p)'
  <1>1. p \subseteq Write /\ Earlier(p)'
    BY DEF LandingOK, Earlier
  <1>2. ASSUME NEW w \in p
        PROVE  /\ w.time <= clock' /\ w.call <= calls'[w.by]
               /\ w.call = calls'[w.by] =>
                    /\ ~Unlanded(w.by)'
                    /\ Kind[req'[w.by]] # "read" => w.req = req'[w.by]
    <2>1. w \in Write /\ w.by \in Client /\ w.time \in Nat /\ w.call \in Nat
      BY <1>1 DEF Write
    <2>2. Drift(w.by) /\ calls[w.by] \in Nat /\ clock \in Nat
      BY <2>1 DEF TypeOK
    <2>3. /\ w.time <= clock /\ w.call <= calls[w.by]
          /\ w.call = calls[w.by] => /\ ~Unlanded(w.by)
                                     /\ Kind[req[w.by]] # "read" => w.req = req[w.by]
      BY <1>2 DEF LandingOK
    <2>4. w.time <= clock'
      BY <2>1, <2>2, <2>3
    <2>5. CASE calls'[w.by] = calls[w.by] + 1
      BY <2>1, <2>2, <2>3, <2>4, <2>5
    <2>6. CASE calls'[w.by] = calls[w.by] /\ Kind[req'[w.by]] = "read"
      BY <2>3, <2>4, <2>6 DEF Unlanded
    <2>7. CASE /\ calls'[w.by] = calls[w.by] /\ req'[w.by] = req[w.by]
               /\ (Unlanded(w.by)' => Unlanded(w.by))
      BY <2>3, <2>4, <2>7
    <2> QED BY <2>2, <2>5, <2>6, <2>7 DEF Drift
  <1>3. \A v, w \in p : v.by = w.by /\ v.call = w.call => v = w
    BY DEF LandingOK
  <1> QED BY <1>1, <1>2, <1>3 DEF LandingOK

LEMMA LandingEmpty == TypeOK => LandingOK({})
  BY DEF LandingOK, Earlier

LEMMA LandingsKept ==
  ASSUME TypeOK, TypeOK', LandingsOK, canon' = canon, clock' >= clock,
         \A d \in Client : Drift(d),
         sqlite' \in Landings \cup {Missing},
         \A d \in Client : base'[d] \in {base[d], canon, {}},
         \A d \in Client : result'[d] = "saved" => result[d] = "saved" /\ next'[d] = next[d]
  PROVE  LandingsOK'
  <1> SUFFICES ASSUME NEW p \in Landings', p # Missing PROVE LandingOK(p)'
    BY DEF LandingsOK, Missing
  <1>1. p \in Landings \cup {{}}
    BY DEF Landings
  <1>2. LandingOK(p)
    BY <1>1, LandingEmpty DEF LandingsOK
  <1>3. clock' \in Nat
    BY DEF TypeOK
  <1> QED BY <1>2, <1>3, LandingKept

-----------------------------------------------------------------------------
(* One call.                                                               *)

LEMMA EndOK ==
  ASSUME TypeOK, NEW c \in Client, NEW phase \in Over, NEW w, End(c, phase, w)
  PROVE  CallOK(c)'
  <1>1. pc'[c] = phase /\ stage'[c] = "first" /\ result'[c] = "none"
    BY DEF TypeOK, End, Goto
  <1> QED BY <1>1 DEF CallOK, Over, Saving

LEMMA OtherOK ==
  ASSUME TypeOK, TypeOK', NEW d \in Client, CallOK(d), SameCall(d), clock' >= clock,
         pc[d] \in {"check", "replace"} => lock' = lock,
         pc[d] = "replace" => canon' = canon
  PROVE  CallOK(d)'
  <1>0. /\ pc'[d] = pc[d] /\ stage'[d] = stage[d] /\ req'[d] = req[d]
        /\ calls'[d] = calls[d] /\ base'[d] = base[d] /\ next'[d] = next[d]
        /\ result'[d] = result[d] /\ answer'[d] = answer[d]
    BY DEF SameCall
  <1>1. OwnWrites(d, base[d])' = OwnWrites(d, base[d])
        /\ OwnWrites(d, next[d])' = OwnWrites(d, next[d])
    BY <1>0 DEF OwnWrites
  <1>2. SaveShape(d) => SaveShape(d)'
    <2> SUFFICES ASSUME SaveShape(d) PROVE SaveShape(d)'
      OBVIOUS
    <2>1. CASE stage[d] = "rollback"
      BY <1>0, <1>1, <2>1 DEF SaveShape
    <2>2. CASE stage[d] # "rollback"
      <3>1. PICK w \in next[d] :
              /\ w.by = d /\ w.call = calls[d] /\ w.req = req[d] /\ w.time <= clock
              /\ next[d] = base[d] \cup {w}
              /\ \A v \in base[d] : v.time < w.time
        BY <2>2 DEF SaveShape
      <3>2. w.time <= clock'
        <4>1. w \in Write /\ w.time \in Nat
          BY DEF TypeOK, Write
        <4> QED BY <3>1, <4>1 DEF TypeOK
      <3>3. Receipts(d, base[d])' = Receipts(d, base[d])
        BY <1>0 DEF Receipts
      <3> QED BY <1>0, <2>2, <3>1, <3>2, <3>3 DEF SaveShape
    <2> QED BY <2>1, <2>2
  <1>3. pc[d] \in {"check", "replace"} => HasLock(d)' /\ lock'.lapsed = FALSE
    BY <1>0 DEF CallOK, HasLock
  <1>4. pc[d] = "replace" => canon' = base'[d]
    BY <1>0 DEF CallOK
  <1> QED BY <1>0, <1>1, <1>2, <1>3, <1>4 DEF CallOK

LEMMA LoadDrift ==
  ASSUME TypeOK, NEW c \in Client, Load(c), NEW d \in Client
  PROVE  Drift(d)
  <1>0. Others(c) /\ calls' = calls /\ req' = req
    BY LoadOthers
  <1>1. CASE d # c
    BY <1>0, <1>1 DEF Others, SameCall, Drift, Unlanded
  <1>2. CASE d = c
    <2>1. pc[c] \in Loading
      BY DEF Load, Read, Inspect, Rebuild, Sync, SyncAgain, MirrorThrows, At, Loading
    <2>2. stage'[c] \in {stage[c]} \/ pc'[c] \in Over
      BY DEF TypeOK, Load, Read, Inspect, Rebuild, Sync, SyncAgain, MirrorThrows, Fail,
             End, Goto, Over
    <2> QED BY <1>0, <1>2, <2>1, <2>2 DEF Drift, Unlanded, Loading, Over
  <1> QED BY <1>1, <1>2

LEMMA LoadInv ==
  ASSUME WritesInv, TypeOK', NEW c \in Client, Load(c)
  PROVE  /\ LandingsOK' /\ CallOK(c)'
         /\ \A d \in Client \ {c} : pc[d] \in {"check", "replace"} => lock' = lock
  <1>0. TypeOK /\ LandingsOK /\ CallOK(c) /\ \A d \in Client : CallOK(d)
    BY DEF WritesInv
  <1>1. Others(c) /\ calls' = calls /\ req' = req /\ clock' = clock /\ canon' = canon
    BY <1>0, LoadOthers
  <1>2. pc[c] \in Loading /\ base[c] \in Landings /\ sqlite \in Landings
    BY DEF Load, Read, Inspect, Rebuild, Sync, SyncAgain, MirrorThrows, At, Loading, Landings
  <1>3. sqlite' \in Landings \cup {Missing}
    BY <1>2 DEF Load, Read, Inspect, Rebuild, Sync, SyncAgain, MirrorThrows, Views, storage
  <1>4. result[c] = "none" /\ answer[c] = None
    BY <1>0, <1>2 DEF CallOK, Loading, Saving, Over
  <1>5. ASSUME \E phase \in Over : \E w : End(c, phase, w) PROVE CallOK(c)'
    BY <1>0, <1>5, EndOK
  <1>6. ASSUME ~\E phase \in Over : \E w : End(c, phase, w) PROVE CallOK(c)'
    <2>0. ~Fail(c)
      BY <1>6 DEF Fail, Over
    <2>1. pc'[c] \in Loading /\ stage'[c] = stage[c] /\ next'[c] = next[c]
          /\ result'[c] = result[c] /\ answer'[c] = answer[c]
      BY ZenonT(60), <1>0, <1>2, <2>0 DEF TypeOK, Load, Read, Inspect, Rebuild, Sync, SyncAgain,
                        MirrorThrows, Goto, Loading
    <2>2. OwnWrites(c, next[c])' = OwnWrites(c, next[c])
      BY <1>1, <2>1 DEF OwnWrites
    <2> QED BY <1>0, <1>1, <1>4, <2>1, <2>2 DEF CallOK, Loading, Saving, Over
  <1>7. CallOK(c)'
    BY <1>5, <1>6
  <1>8. base'[c] \in {base[c], canon, {}} /\ result'[c] = "none"
    BY ZenonT(60), <1>0, <1>4 DEF TypeOK, Load, Read, Inspect, Rebuild, Sync, SyncAgain, MirrorThrows, Fail, End
  <1>same. LandingsOK'
    <2>1. \A d \in Client : base'[d] \in {base[d], canon, {}}
      BY <1>1, <1>8 DEF Others, SameCall
    <2>2. \A d \in Client : result'[d] = "saved" => result[d] = "saved" /\ next'[d] = next[d]
      BY <1>1, <1>8 DEF Others, SameCall
    <2>3. clock' >= clock
      BY <1>0, <1>1 DEF TypeOK
    <2> QED BY <1>0, <1>1, <1>3, <2>1, <2>2, <2>3, LoadDrift, LandingsKept
  <1>10. ASSUME NEW d \in Client \ {c}, pc[d] \in {"check", "replace"}
         PROVE lock' = lock
    <2>1. Held
      BY <1>0, <1>10 DEF CallOK, HasLock, Held
    <2> QED BY <2>1 DEF Load, Read, Inspect, Rebuild, Sync, SyncAgain, MirrorThrows, storage
  <1> QED BY <1>7, <1>same, <1>10

\* Only a garbled proposal is ever taken back, and by the call that stored it.
TakesBack(c) ==
  /\ req[c] \in Garbled
  /\ next'[c] = base[c] \ OwnWrites(c, base[c])
  /\ stage'[c] = "rollback" /\ pc'[c] = "acquire"
  /\ base'[c] = base[c] /\ result'[c] = result[c] /\ answer'[c] = answer[c]

LEMMA CompareForms ==
  ASSUME TypeOK, NEW c \in Client, CallOK(c), Compare(c)
  PROVE  TakesBack(c) \/ \E phase \in Over : \E w : End(c, phase, w)
  <1>1. CASE req[c] \notin Garbled /\ OwnWrites(c, base[c]) # {}
    BY <1>1 DEF Compare, Over
  <1>2. CASE ~(req[c] \notin Garbled /\ OwnWrites(c, base[c]) # {}) /\ CanTakeBack(c)
    <2>1. OwnWrites(c, base[c]) # {}
      BY <1>2 DEF Compare, CallOK, CanTakeBack
    <2>2. req[c] \in Garbled
      BY <1>2, <2>1
    <2> QED BY <1>2, <2>2 DEF TypeOK, Compare, Goto, TakesBack
  <1>3. CASE ~(req[c] \notin Garbled /\ OwnWrites(c, base[c]) # {}) /\ ~CanTakeBack(c)
    BY <1>3 DEF Compare, Fail, Over
  <1> QED BY <1>1, <1>2, <1>3

LEMMA MutateShape ==
  ASSUME WritesInv, NEW c \in Client, Mutate(c)
  PROVE  SaveShape(c)'
  <1> DEFINE w == [by |-> c, call |-> calls[c], req |-> req[c], time |-> clock + 1]
  <1>0. TypeOK /\ LandingsOK /\ CallOK(c)
    BY DEF WritesInv
  <1>1. LandingOK(base[c])
    BY <1>0, InUse
  <1>2. /\ pc[c] = "apply" /\ stage[c] = "first" /\ Kind[req[c]] # "read"
        /\ Receipts(c, base[c]) = {}
    BY DEF Mutate, At
  <1>3. /\ next'[c] = base[c] \cup {w} /\ clock' = clock + 1
        /\ base'[c] = base[c] /\ calls' = calls /\ req' = req
        /\ stage' = stage /\ result' = result
    BY <1>0 DEF TypeOK, Mutate
  <1>4. result[c] = "none"
    BY <1>0, <1>2 DEF CallOK, Saving
  <1>5. \A v \in base[c] : v.time < w.time
    BY <1>0, <1>1 DEF TypeOK, LandingOK, Write
  <1>6. Receipts(c, base[c])' = {}
    BY <1>2, <1>3 DEF Receipts
  <1>7. w.time <= clock'
    BY <1>0, <1>3 DEF TypeOK
  <1>8. w \in next'[c] /\ w.by = c /\ w.call = calls'[c] /\ w.req = req'[c]
    BY <1>3
  <1> HIDE DEF w
  <1> QED BY <1>2, <1>3, <1>4, <1>5, <1>6, <1>7, <1>8 DEF SaveShape

LEMMA CommandInv ==
  ASSUME WritesInv, TypeOK', NEW c \in Client, Command(c)
  PROVE  LandingsOK' /\ CallOK(c)'
  <1>0. TypeOK /\ LandingsOK /\ CallOK(c)
    BY DEF WritesInv
  <1>1. /\ Others(c) /\ calls' = calls /\ req' = req /\ clock' >= clock
        /\ canon' = canon /\ sqlite' = sqlite
    BY <1>0, CommandOthers
  <1>2. pc[c] = "apply" /\ result[c] = "none" /\ answer[c] = None
    BY <1>0 DEF Command, FinishRead, Replay, GiveUp, Mutate, Compare, At, CallOK, Saving, Over
  <1>3. \/ Mutate(c) \/ TakesBack(c) \/ \E phase \in Over : \E w : End(c, phase, w)
    BY <1>0, CompareForms DEF Command, FinishRead, Replay, GiveUp, Fail, Over
  <1>4. CallOK(c)'
    <2>1. CASE \E phase \in Over : \E w : End(c, phase, w)
      BY <1>0, <2>1, EndOK
    <2>2. CASE Mutate(c)
      <3>1. SaveShape(c)'
        BY <2>2, MutateShape
      <3>2. pc'[c] = "acquire" /\ stage'[c] = "first" /\ result'[c] = "none"
            /\ answer'[c] = None
        BY <1>0, <1>2, <2>2 DEF TypeOK, Mutate, Goto
      <3> QED BY <3>1, <3>2 DEF CallOK, Saving, Over
    <2>3. CASE TakesBack(c)
      <3>1. Kind[req[c]] # "read"
        BY <2>3, WritesAssumption DEF WritesAssumption, TakesBack
      <3>2. OwnWrites(c, base[c])' = OwnWrites(c, base[c])
        BY <1>1, <2>3 DEF OwnWrites, TakesBack
      <3>3. SaveShape(c)'
        BY <1>1, <1>2, <2>3, <3>1, <3>2 DEF SaveShape, TakesBack
      <3> QED BY <1>2, <2>3, <3>3 DEF CallOK, Saving, Over, TakesBack
    <2> QED BY <1>3, <2>1, <2>2, <2>3
  <1>5. base'[c] \in {base[c], {}} /\ result'[c] = "none"
        /\ (pc'[c] \in Over \/ stage'[c] = "rollback" \/ stage'[c] = stage[c])
    BY <1>0, <1>2, <1>3 DEF TypeOK, End, Mutate, TakesBack, Goto
  <1>6. ASSUME NEW d \in Client PROVE Drift(d)
    BY <1>1, <1>2, <1>5 DEF Others, SameCall, Drift, Unlanded, Loading, Over
  <1>7. \A d \in Client : base'[d] \in {base[d], canon, {}}
    BY <1>1, <1>5 DEF Others, SameCall
  <1>8. \A d \in Client : result'[d] = "saved" => result[d] = "saved" /\ next'[d] = next[d]
    BY <1>1, <1>5 DEF Others, SameCall
  <1>same. sqlite' \in Landings \cup {Missing}
    BY <1>1 DEF Landings
  <1> QED BY <1>0, <1>1, <1>4, <1>6, <1>7, <1>8, <1>same, LandingsKept

LEMMA StartInv ==
  ASSUME WritesInv, TypeOK', NEW c \in Client, NEW r \in Request, Start(c, r)
  PROVE  LandingsOK' /\ CallOK(c)'
  <1>0. TypeOK /\ LandingsOK /\ CallOK(c)
    BY DEF WritesInv
  <1>1. Others(c)
    BY <1>0, StartOthers
  <1>2. /\ pc[c] \in Over /\ stage[c] = "first" /\ result[c] = "none"
        /\ stage' = stage /\ result' = result /\ base' = base /\ next' = next
        /\ canon' = canon /\ sqlite' = sqlite /\ clock' = clock
        /\ pc'[c] = "load" /\ req'[c] = r /\ answer'[c] = None
    BY ZenonT(60), <1>0 DEF TypeOK, Start, Goto, CallOK, storage, Over, Saving
  <1>3. CallOK(c)'
    BY <1>2 DEF CallOK, Over, Saving
  <1>4. ASSUME NEW d \in Client PROVE Drift(d)
    <2>1. CASE d # c
      BY <1>1, <2>1 DEF Others, SameCall, Drift, Unlanded
    <2>2. CASE d = c /\ Kind[r] = "read"
      BY <1>2, <2>2 DEF Start, Drift
    <2>3. CASE d = c /\ Kind[r] # "read"
      BY <1>0, <2>3 DEF TypeOK, Start, Drift
    <2> QED BY <2>1, <2>2, <2>3
  <1>5. sqlite' \in Landings \cup {Missing} /\ clock' >= clock
    BY <1>0, <1>2 DEF Landings, TypeOK
  <1> QED BY <1>0, <1>2, <1>3, <1>4, <1>5, LandingsKept

\* Every project in use stays an earlier one when c replaces the canonical one.
LEMMA EarlierLanded ==
  ASSUME WritesInv, NEW c \in Client, pc[c] = "replace", canon' = next[c],
         NEW p \in SUBSET Write, Earlier(p), LandingOK(p)
  PROVE  Earlier(p)'
  <1>0. TypeOK /\ LandingsOK /\ SaveShape(c) /\ canon = base[c]
    BY DEF WritesInv, CallOK
  <1>1. LandingOK(base[c])
    BY <1>0, InUse
  <1>2. CASE stage[c] = "rollback"
    <2>1. next[c] = canon \ OwnWrites(c, canon) /\ req[c] \in Garbled
      BY <1>0, <1>2 DEF SaveShape
    <2>2. \A w \in OwnWrites(c, canon) : w.req \in Garbled
      <3>1. Kind[req[c]] # "read"
        BY <1>0 DEF SaveShape
      <3> QED BY <1>0, <1>1, <2>1, <3>1 DEF OwnWrites, LandingOK
    <2>3. \A w \in p \ canon' : w.req \in Garbled
      BY <2>1, <2>2 DEF Earlier
    <2>4. p \subseteq canon' => \A v \in p, w \in canon' \ p : v.time < w.time
      BY <2>1 DEF Earlier
    <2> QED BY <2>3, <2>4 DEF Earlier
  <1>3. CASE stage[c] # "rollback"
    <2>1. PICK w \in next[c] :
            /\ w.by = c /\ w.call = calls[c]
            /\ next[c] = canon \cup {w}
            /\ \A v \in canon : v.time < w.time
      BY <1>0, <1>3 DEF SaveShape
    <2>2. w \notin p
      <3>1. Unlanded(c)
        BY <1>0, <1>3 DEF Unlanded, SaveShape
      <3> QED BY <2>1, <3>1 DEF LandingOK
    <2>3. \A x \in p \ canon' : x.req \in Garbled
      BY <2>1 DEF Earlier
    <2>4. p \subseteq canon' => \A v \in p, x \in canon' \ p : v.time < x.time
      BY <2>1, <2>2 DEF Earlier
    <2> QED BY <2>3, <2>4 DEF Earlier
  <1> QED BY <1>2, <1>3

LEMMA Landed ==
  ASSUME WritesInv, TypeOK', NEW c \in Client, pc[c] = "replace", canon' = next[c],
         pc' = [pc EXCEPT ![c] = "sync"], SetResult(c, "saved"),
         UNCHANGED <<sqlite, lock, clock, calls, stage, req, base, next, answer>>
  PROVE  LandingsOK'
  <1>0. TypeOK /\ LandingsOK /\ SaveShape(c) /\ canon = base[c] /\ LandingOK(base[c])
    <2>1. TypeOK /\ LandingsOK /\ SaveShape(c) /\ canon = base[c]
      BY DEF WritesInv, CallOK
    <2> QED BY <2>1, InUse
  <1>1. \A d \in Client : Unlanded(d)' => Unlanded(d) /\ d # c
    BY <1>0 DEF TypeOK, Unlanded, Loading
  <1>2. ASSUME NEW p, LandingOK(p) PROVE LandingOK(p)'
    <2>1. p \in SUBSET Write /\ Earlier(p)
      BY <1>2 DEF LandingOK
    <2>2. Earlier(p)'
      BY <1>2, <2>1, EarlierLanded
    <2>3. \A w \in p : w.by \in Client
      BY <2>1 DEF Write
    <2> QED BY <1>1, <1>2, <2>1, <2>2, <2>3 DEF LandingOK
  <1>3. LandingOK(next[c])'
    <2>0. next[c] \in SUBSET Write /\ next'[c] = next[c]
      BY <1>0 DEF TypeOK
    <2>1. Earlier(next[c])'
      BY <2>0 DEF Earlier
    <2>2. LandingOK(base[c])'
      BY <1>0, <1>2
    <2>3. CASE stage[c] = "rollback"
      <3>1. next[c] \subseteq base[c]
        BY <1>0, <2>3 DEF SaveShape
      <3> QED BY <2>0, <2>1, <2>2, <3>1 DEF LandingOK
    <2>4. CASE stage[c] # "rollback"
      <3>1. PICK w \in next[c] :
              /\ w.by = c /\ w.call = calls[c] /\ w.req = req[c] /\ w.time <= clock
              /\ next[c] = base[c] \cup {w}
        BY <1>0, <2>4 DEF SaveShape
      <3>2. Unlanded(c)
        BY <1>0, <2>4 DEF Unlanded, SaveShape
      <3>3. \A v \in base[c] : ~(v.by = c /\ v.call = calls[c])
        BY <1>0, <3>2 DEF LandingOK
      <3>4. ASSUME NEW v \in next[c]
            PROVE  /\ v.time <= clock' /\ v.call <= calls'[v.by]
                   /\ v.call = calls'[v.by] =>
                        /\ ~Unlanded(v.by)'
                        /\ Kind[req'[v.by]] # "read" => v.req = req'[v.by]
        <4>1. CASE v \in base[c]
          BY <2>2, <4>1 DEF LandingOK
        <4>2. CASE v = w
          <5>1. calls[c] <= calls[c]
            BY <1>0 DEF TypeOK
          <5> QED BY <1>1, <3>1, <4>2, <5>1
        <4> QED BY <3>1, <4>1, <4>2
      <3>5. \A u, v \in next[c] : u.by = v.by /\ u.call = v.call => u = v
        BY <1>0, <3>1, <3>3 DEF LandingOK
      <3> QED BY <2>0, <2>1, <3>4, <3>5 DEF LandingOK
    <2> QED BY <2>3, <2>4
  <1>4. ASSUME NEW p \in Landings', p # Missing PROVE LandingOK(p)'
    <2>1. p \in Landings \/ p = next[c]
      BY <1>0 DEF TypeOK, Landings, SetResult
    <2>2. CASE p \in Landings
      BY <1>0, <1>2, <1>4, <2>2 DEF LandingsOK
    <2>3. CASE p = next[c]
      <3>1. next'[c] = p
        BY <2>3
      <3> QED BY <1>3, <3>1, <2>3
    <2> QED BY <2>1, <2>2, <2>3
  <1> QED BY <1>4 DEF LandingsOK, Missing

\* What follows the release of the lock if the call is not over.
Reloads(c) ==
  /\ pc'[c] = "load" /\ result'[c] = "none" /\ stage'[c] \in {"readback", "refresh"}
  /\ base'[c] = base[c] /\ next'[c] = next[c]
  /\ stage'[c] = "readback" =>
       result[c] = "saved" /\ stage[c] = "first" /\ Kind[req[c]] = "proposal"

LEMMA ReleaseForms ==
  ASSUME TypeOK, NEW c \in Client, Release(c)
  PROVE  Reloads(c) \/ \E phase \in Over : \E w : End(c, phase, w)
  <1>1. CASE result[c] = "saved" /\ stage[c] = "first" /\ Kind[req[c]] = "proposal"
    BY <1>1 DEF TypeOK, Release, SetResult, Goto, Reloads
  <1>2. CASE result[c] = "saved" /\ stage[c] = "first" /\ Kind[req[c]] = "ordinary"
    BY <1>2 DEF Release, Over
  <1>3. CASE result[c] = "stale" /\ stage[c] = "first" /\ KeyOf[req[c]] # NoKey
    BY <1>3 DEF TypeOK, Release, SetResult, Goto, Reloads
  <1>4. CASE ~(\/ result[c] = "saved" /\ stage[c] = "first" /\ Kind[req[c]] = "proposal"
               \/ result[c] = "saved" /\ stage[c] = "first" /\ Kind[req[c]] = "ordinary"
               \/ result[c] = "stale" /\ stage[c] = "first" /\ KeyOf[req[c]] # NoKey)
    BY <1>4 DEF Release, Fail, Over
  <1> QED BY <1>1, <1>2, <1>3, <1>4

\* A step of a save other than the replacement of the canonical project.
LEMMA SaveLandings ==
  ASSUME WritesInv, TypeOK', NEW c \in Client, Save(c), canon' = canon,
         result'[c] = "saved" => result[c] = "saved"
  PROVE  LandingsOK'
  <1>0. TypeOK /\ LandingsOK /\ CallOK(c)
    BY DEF WritesInv
  <1>1. Others(c) /\ calls' = calls /\ req' = req /\ clock' = clock
    BY <1>0, SaveOthers
  <1>2. /\ base'[c] \in {base[c], {}}
        /\ result'[c] = "saved" => next'[c] = next[c]
        /\ \/ pc'[c] \in Over \cup {"sync again", "release"}
           \/ stage'[c] \in {"readback", "refresh"}
           \/ stage'[c] = stage[c] /\ pc[c] \in {"acquire", "check", "replace"}
    <2>1. CASE \E phase \in Over : \E w : End(c, phase, w)
      BY ZenonT(60), <1>0, <2>1 DEF TypeOK, End, Goto
    <2>2. CASE ~\E phase \in Over : \E w : End(c, phase, w)
      <3>1. CASE Acquire(c) \/ Check(c) \/ Replace(c) \/ SyncThrows(c)
        BY <1>0, <2>2, <3>1 DEF TypeOK, Acquire, Check, Replace, SyncThrows, Fail, At, Goto, Over
      <3>2. CASE \/ Sync(c, next[c], "sync", "sync again", "release")
                 \/ SyncAgain(c, next[c], "sync again", "release")
        BY <1>0, <3>2 DEF TypeOK, Sync, SyncAgain, Goto
      <3>3. CASE Release(c)
        BY <1>0, <2>2, <3>3, ReleaseForms DEF Reloads
      <3> QED BY <3>1, <3>2, <3>3 DEF Save
    <2> QED BY <2>1, <2>2
  <1>3. ASSUME NEW d \in Client PROVE Drift(d)
    BY <1>1, <1>2 DEF Others, SameCall, Drift, Unlanded, Loading, Over
  <1>4. sqlite' \in Landings \cup {Missing}
    <2>1. CASE sqlite' \in Views
      BY <2>1 DEF Views, Landings
    <2>2. CASE sqlite' = next[c] /\ pc[c] \in {"sync", "sync again"}
      BY <1>0, <2>2 DEF CallOK, Landings
    <2> QED BY <2>1, <2>2 DEF Save, Acquire, Check, Replace, Sync, SyncAgain, SyncThrows,
                             Release, Views, At, storage
  <1>5. \A d \in Client : base'[d] \in {base[d], canon, {}}
    BY <1>1, <1>2 DEF Others, SameCall
  <1>6. \A d \in Client : result'[d] = "saved" => result[d] = "saved" /\ next'[d] = next[d]
    BY <1>1, <1>2 DEF Others, SameCall
  <1>7. clock' >= clock
    BY <1>0, <1>1 DEF TypeOK
  <1> QED BY <1>0, <1>3, <1>4, <1>5, <1>6, <1>7, LandingsKept

LEMMA SaveOK ==
  ASSUME WritesInv, NEW c \in Client, Save(c)
  PROVE  CallOK(c)'
  <1>0. TypeOK /\ CallOK(c)
    BY DEF WritesInv
  <1>1. calls' = calls /\ req' = req /\ clock' = clock
    BY <1>0, SaveOthers
  <1>2. CASE \E phase \in Over : \E w : End(c, phase, w)
    BY <1>0, <1>2, EndOK
  <1>3. CASE ~\E phase \in Over : \E w : End(c, phase, w)
    <2>1. /\ base'[c] = base[c] /\ next'[c] = next[c] /\ answer'[c] = answer[c]
          /\ OwnWrites(c, next[c])' = OwnWrites(c, next[c])
          /\ OwnWrites(c, base[c])' = OwnWrites(c, base[c])
          /\ Receipts(c, base[c])' = Receipts(c, base[c])
      <3>1. base'[c] = base[c] /\ next'[c] = next[c] /\ answer'[c] = answer[c]
        BY <1>3 DEF Save, Acquire, Check, Replace, Sync, SyncAgain, SyncThrows, Release,
                    Fail, Over
      <3> QED BY <1>1, <3>1 DEF OwnWrites, Receipts
    <2>2. ASSUME stage'[c] = stage[c], result'[c] = result[c], SaveShape(c)
          PROVE  SaveShape(c)'
      BY <1>1, <2>1, <2>2 DEF SaveShape
    <2>3. answer[c] = None
      BY <1>0 DEF Save, Acquire, Check, Replace, Sync, SyncAgain, SyncThrows, Release,
                  At, CallOK, Over
    <2>4. CASE Acquire(c)
      <3>1. pc[c] = "acquire" /\ pc'[c] = "check" /\ lock' = OwnLock(c)
            /\ stage' = stage /\ result' = result
        BY <1>0, <1>3, <2>4 DEF TypeOK, Acquire, Fail, At, Goto, Over
      <3>2. HasLock(c)' /\ lock'.lapsed = FALSE
        <4>1. OwnLock(c) \in Lock
          BY <1>0 DEF TypeOK, OwnLock, Lock
        <4> QED BY <1>1, <3>1, <4>1, WritesAssumption
                DEF WritesAssumption, HasLock, OwnLock, Lock
      <3>3. result'[c] = "none" /\ SaveShape(c)'
        BY <1>0, <2>2, <3>1 DEF CallOK, Saving
      <3> QED BY <1>0, <1>1, <2>1, <2>3, <3>1, <3>2, <3>3 DEF CallOK, Saving, Over
    <2>5. CASE Check(c)
      <3>1. pc[c] = "check" /\ stage' = stage /\ canon' = canon /\ lock' = lock
        BY <2>5 DEF Check, At, storage
      <3>2. \/ pc'[c] = "release" /\ result'[c] # "saved"
            \/ pc'[c] = "replace" /\ result' = result /\ canon = base[c]
        BY <1>0, <2>5 DEF TypeOK, Check, SetResult, Goto, HeadMatches
      <3>3. HasLock(c)' = HasLock(c)
        BY <1>1, <3>1 DEF HasLock
      <3> QED BY <1>0, <1>1, <2>1, <2>2, <2>3, <3>1, <3>2, <3>3 DEF CallOK, Saving, Over
    <2>6. CASE Replace(c)
      <3>1. pc[c] = "replace" /\ stage' = stage /\ SaveShape(c)
        BY <1>0, <2>6 DEF Replace, At, CallOK
      <3>2. \/ pc'[c] = "sync" /\ result'[c] = "saved"
            \/ pc'[c] = "release" /\ result'[c] = "failed"
        BY <1>0, <2>6 DEF TypeOK, Replace, SetResult, Goto
      <3>3. stage[c] # "readback" /\ Kind[req[c]] # "read"
            /\ (stage[c] = "first" => OwnWrites(c, next[c]) # {})
        BY <3>1 DEF SaveShape, OwnWrites
      <3> QED BY <1>0, <1>1, <2>1, <2>3, <3>1, <3>2, <3>3 DEF CallOK, Saving, Over
    <2>7. CASE \/ Sync(c, next[c], "sync", "sync again", "release")
               \/ SyncAgain(c, next[c], "sync again", "release") \/ SyncThrows(c)
      <3>1. stage' = stage /\ pc'[c] \in {"sync again", "release"}
            /\ (result'[c] = result[c] \/ (pc'[c] = "release" /\ result'[c] = "failed"))
            /\ result[c] = "saved"
        BY <1>0, <2>7 DEF TypeOK, Sync, SyncAgain, SyncThrows, SetResult, At, Goto, CallOK
      <3> QED BY <1>0, <1>1, <2>1, <2>3, <3>1 DEF CallOK, Saving, Over
    <2>8. CASE Release(c)
      <3>1. Reloads(c)
        BY <1>0, <1>3, <2>8, ReleaseForms
      <3> QED BY <1>0, <1>1, <2>1, <2>3, <3>1 DEF CallOK, Saving, Over, Reloads
    <2> QED BY <2>4, <2>5, <2>6, <2>7, <2>8 DEF Save
  <1> QED BY <1>2, <1>3

LEMMA SaveInv ==
  ASSUME WritesInv, TypeOK', NEW c \in Client, Save(c)
  PROVE  /\ LandingsOK' /\ CallOK(c)'
         /\ \A d \in Client \ {c} :
              pc[d] \in {"check", "replace"} => lock' = lock /\ canon' = canon
  <1>0. TypeOK /\ \A d \in Client : CallOK(d)
    BY DEF WritesInv
  <1>1. CallOK(c)'
    BY SaveOK
  <1>2. CASE Replace(c) /\ result'[c] = "saved"
    <2>1. LandingsOK'
      BY <1>0, <1>2, Landed DEF TypeOK, Replace, SetResult, Goto, At
    <2>2. HasLock(c) /\ lock' = lock
      BY <1>0, <1>2 DEF Replace, At, CallOK
    <2>3. \A d \in Client \ {c} : ~(pc[d] \in {"check", "replace"})
      BY <1>0, <2>2 DEF CallOK, HasLock
    <2> QED BY <1>1, <2>1, <2>3
  <1>3. CASE ~(Replace(c) /\ result'[c] = "saved")
    <2>1. canon' = canon /\ (result'[c] = "saved" => result[c] = "saved")
      BY ZenonT(60), <1>0, <1>3 DEF TypeOK, Save, Acquire, Check, Replace, Sync, SyncAgain, SyncThrows,
                        Release, SetResult, Fail, End, storage
    <2>2. LandingsOK'
      BY <2>1, SaveLandings
    <2>3. ASSUME NEW d \in Client \ {c}, pc[d] \in {"check", "replace"} PROVE lock' = lock
      <3>1. Held /\ ~HasLock(c)
        BY <1>0, <2>3 DEF CallOK, HasLock, Held
      <3> QED BY <3>1 DEF Save, Acquire, Check, Replace, Sync, SyncAgain, SyncThrows,
                          Release, storage
    <2> QED BY <1>1, <2>1, <2>2, <2>3
  <1> QED BY <1>2, <1>3

-----------------------------------------------------------------------------
(* The invariant.                                                          *)

LEMMA InvInit == Init => WritesInv
  <1> SUFFICES ASSUME Init PROVE WritesInv
    OBVIOUS
  <1>1. TypeOK
    BY TypeInit
  <1>2. LandingsOK
    <2>1. Landings \subseteq {{}, Missing}
      BY DEF Init, Landings
    <2> QED BY <1>1, <2>1, LandingEmpty DEF LandingsOK
  <1>3. \A c \in Client : CallOK(c)
    BY DEF Init, CallOK, Over, Saving
  <1> QED BY <1>1, <1>2, <1>3 DEF WritesInv

LEMMA InvStep == WritesInv /\ [Next]_vars => WritesInv'
  <1> SUFFICES ASSUME WritesInv, [Next]_vars PROVE WritesInv'
    OBVIOUS
  <1>0. TypeOK /\ LandingsOK /\ (\A d \in Client : CallOK(d)) /\ TypeOK'
    BY TypeStep DEF WritesInv
  <1>1. ASSUME NEW c \in Client, Others(c), clock' >= clock, LandingsOK', CallOK(c)',
               \A d \in Client \ {c} : pc[d] \in {"check", "replace"} =>
                  lock' = lock /\ canon' = canon
        PROVE  WritesInv'
    <2>1. ASSUME NEW d \in Client \ {c} PROVE CallOK(d)'
      BY <1>0, <1>1, <2>1, OtherOK DEF Others
    <2>2. \A d \in Client : CallOK(d)'
      BY <1>1, <2>1
    <2> QED BY <1>0, <1>1, <2>2 DEF WritesInv
  <1>same. ASSUME canon' = canon, sqlite' = sqlite, clock' = clock,
               \A d \in Client : /\ SameCall(d)
                                 /\ pc[d] \in {"check", "replace"} => lock' = lock
        PROVE  WritesInv'
    <2>1. clock' >= clock
      BY <1>0, <1>same DEF TypeOK
    <2>2. \A d \in Client : CallOK(d)'
      BY <1>0, <1>same, <2>1, OtherOK
    <2>3. \A d \in Client : Drift(d)
      BY <1>same DEF SameCall, Drift, Unlanded
    <2>4. \A d \in Client : /\ base'[d] \in {base[d], canon, {}}
                            /\ result'[d] = "saved" => result[d] = "saved" /\ next'[d] = next[d]
      BY <1>same DEF SameCall
    <2>5. sqlite' \in Landings \cup {Missing}
      BY <1>same DEF Landings
    <2>6. LandingsOK'
      BY <1>0, <1>same, <2>1, <2>3, <2>4, <2>5, LandingsKept
    <2> QED BY <1>0, <2>2, <2>6 DEF WritesInv
  <1>2. ASSUME NEW c \in Client, Load(c) PROVE WritesInv'
    <2>1. Others(c) /\ clock' = clock /\ canon' = canon
      BY <1>0, <1>2, LoadOthers
    <2>2. clock' >= clock
      BY <1>0, <2>1 DEF TypeOK
    <2> QED BY <1>0, <1>1, <1>2, <2>1, <2>2, LoadInv
  <1>3. ASSUME NEW c \in Client, Command(c) PROVE WritesInv'
    BY <1>0, <1>1, <1>3, CommandOthers, CommandInv
  <1>4. ASSUME NEW c \in Client, Save(c) PROVE WritesInv'
    <2>1. Others(c) /\ clock' >= clock
      BY <1>0, <1>4, SaveOthers DEF TypeOK
    <2> QED BY <1>0, <1>1, <1>4, <2>1, SaveInv
  <1>5. ASSUME NEW c \in Client, Crash(c) PROVE WritesInv'
    <2>1. End(c, "failed", None) /\ UNCHANGED <<canon, sqlite, lock, clock, calls, req>>
      BY <1>5 DEF Crash, Fail, storage
    <2>2. Others(c) /\ CallOK(c)'
      BY <1>0, <2>1, EndOthers, EndOK DEF Over
    <2>3. pc'[c] = "failed" /\ base'[c] = {} /\ result'[c] = "none" /\ clock' >= clock
      BY <1>0, <2>1 DEF TypeOK, End, Goto
    <2>4. ASSUME NEW d \in Client PROVE Drift(d)
      BY <2>1, <2>2, <2>3 DEF Others, SameCall, Drift, Unlanded, Loading
    <2>5. \A d \in Client : /\ base'[d] \in {base[d], canon, {}}
                            /\ result'[d] = "saved" => result[d] = "saved" /\ next'[d] = next[d]
      BY <2>2, <2>3 DEF Others, SameCall
    <2>6. sqlite' \in Landings \cup {Missing}
      BY <2>1 DEF Landings
    <2>7. LandingsOK'
      BY <1>0, <2>1, <2>3, <2>4, <2>5, <2>6, LandingsKept
    <2> QED BY <1>1, <2>1, <2>2, <2>3, <2>7
  <1>6. ASSUME NEW c \in Client, NEW r \in Request, Start(c, r) PROVE WritesInv'
    <2>1. Others(c) /\ clock' = clock /\ lock' = lock /\ canon' = canon
      BY <1>0, <1>6, StartOthers DEF Start, storage
    <2>2. clock' >= clock
      BY <1>0, <2>1 DEF TypeOK
    <2> QED BY <1>0, <1>1, <1>6, <2>1, <2>2, StartInv
  <1>7. CASE Lapse
    <2>1. \A d \in Client : SameCall(d)
      BY <1>7 DEF Lapse, SameCall
    <2>2. \A d \in Client : pc[d] \notin {"check", "replace"} \/ ~(lock.by = d)
      BY <1>0, <1>7 DEF Lapse, CallOK, HasLock, Saving
    <2>3. \A d \in Client : pc[d] \notin {"check", "replace"}
      BY <1>0, <2>2 DEF CallOK, HasLock
    <2> QED BY <1>0, <1>7, <1>same, <2>1, <2>3 DEF Lapse
  <1>8. CASE UNCHANGED vars
    BY <1>0, <1>8, <1>same DEF vars, storage, SameCall
  <1> QED BY <1>2, <1>3, <1>4, <1>5, <1>6, <1>7, <1>8 DEF Next, Step

LEMMA InvHolds == Spec => []WritesInv
  BY InvInit, InvStep, PTL DEF Spec

\* Every variable of the write path keeps its type.
THEOREM WritesTypeCorrect == Spec => []TypeOK
  <1>1. WritesInv => TypeOK
    BY DEF WritesInv
  <1> QED BY <1>1, InvHolds, PTL

\* Whichever loads and saves overtake each other, stop half way or die, the read
\* model never blocks the project, but for a proposal that was taken back.
THEOREM ViewsNeverBlock == Spec => []ViewNeverBlocks
  <1>1. WritesInv => ViewNeverBlocks
    <2> SUFFICES ASSUME WritesInv, Blocking(canon, sqlite) PROVE TakenBackInView
      BY DEF ViewNeverBlocks
    <2>1. sqlite # Missing /\ sqlite # canon /\ ~Newer(canon, sqlite)
      BY DEF Blocking
    <2>2. Earlier(sqlite)
      BY <2>1 DEF WritesInv, LandingsOK, Landings, LandingOK
    <2>3. ~(sqlite \subseteq canon)
      BY <2>1, <2>2 DEF Earlier, Newer
    <2> QED BY <2>1, <2>2, <2>3 DEF Earlier, TakenBackInView
  <1> QED BY <1>1, InvHolds, PTL

-----------------------------------------------------------------------------
(* The write path is a WriteLedger.                                        *)

\* A write in use that answers its request truthfully counts.
LEMMA Counts ==
  ASSUME NEW p, LandingOK(p), NEW w \in p, w.req \notin Garbled
  PROVE  w \in canon
  BY DEF LandingOK, Earlier

LEMMA EndSilent ==
  ASSUME TypeOK, NEW c \in Client, NEW phase, End(c, phase, None), answer[c] = None
  PROVE  answer' = answer
  BY DEF TypeOK, End

LEMMA OrdinaryStays ==
  ASSUME NEW r \in Request, Kind[r] = "ordinary" \/ KeyOf[r] # NoKey
  PROVE  r \notin Garbled
  BY WritesAssumption DEF WritesAssumption

LEMMA LoadRefines ==
  ASSUME WritesInv, NEW c \in Client, Load(c)
  PROVE  UNCHANGED <<canon, req, answer>>
  <1>0. TypeOK /\ CallOK(c)
    BY DEF WritesInv
  <1>1. answer[c] = None
    BY <1>0 DEF Load, Read, Inspect, Rebuild, Sync, SyncAgain, MirrorThrows, At, CallOK, Over
  <1>2. answer' = answer
    <2>1. CASE Fail(c)
      BY <1>0, <1>1, <2>1, EndSilent DEF Fail
    <2>2. CASE ~Fail(c)
      BY <2>2 DEF Load, Read, Inspect, Rebuild, Sync, SyncAgain, MirrorThrows
    <2> QED BY <2>1, <2>2
  <1> QED BY <1>0, <1>2, LoadOthers

LEMMA AnswerRefines ==
  ASSUME TypeOK, NEW c \in Client, NEW p, LandingOK(p), NEW w \in p,
         w.req = req[c], w.req \notin Garbled, w.by = c \/ KeyOf[w.req] # NoKey,
         End(c, "done", w), canon' = canon, req' = req
  PROVE  Ledger!Answer(c, w) /\ w \in canon
  <1>1. w \in canon
    BY Counts
  <1>2. answer' = [answer EXCEPT ![c] = w]
    BY DEF End
  <1> QED BY <1>1, <1>2 DEF Ledger!Answer, Ledger!SameKey

LEMMA CommandRefines ==
  ASSUME WritesInv, NEW c \in Client, Command(c)
  PROVE  UNCHANGED <<canon, req, answer>> \/ \E w \in canon : Ledger!Answer(c, w)
  <1>0. TypeOK /\ LandingsOK /\ CallOK(c)
    BY DEF WritesInv
  <1>1. canon' = canon /\ req' = req
    BY <1>0, CommandOthers
  <1>2. answer[c] = None
    BY <1>0 DEF Command, FinishRead, Replay, GiveUp, Mutate, Compare, At, CallOK, Over
  <1>3. LandingOK(base[c]) /\ base[c] \subseteq Write /\ req[c] \in Request
    BY <1>0, InUse DEF TypeOK
  <1>4. CASE \E phase \in Over : End(c, phase, None)
    BY <1>0, <1>1, <1>2, <1>4, EndSilent
  <1>5. CASE answer' = answer
    BY <1>1, <1>5
  <1>6. CASE ~(\E phase \in Over : End(c, phase, None)) /\ answer' # answer
    <2>1. CASE Replay(c)
      <3>1. PICK w \in Receipts(c, base[c]) : w.req = req[c] /\ End(c, "done", w)
        BY <1>6, <2>1 DEF Replay, Fail, Over
      <3>2. w \in base[c] /\ KeyOf[w.req] # NoKey /\ w.req \notin Garbled
        BY <1>3, <3>1, OrdinaryStays DEF Receipts
      <3> QED BY <1>0, <1>1, <1>3, <3>1, <3>2, AnswerRefines
    <2>2. CASE Compare(c)
      <3>1. req[c] \notin Garbled /\ \E w \in OwnWrites(c, base[c]) : End(c, "done", w)
        BY <1>6, <2>2 DEF Compare, Fail, Over
      <3>2. PICK w \in OwnWrites(c, base[c]) : End(c, "done", w)
        BY <3>1
      <3>3. w \in base[c] /\ w.by = c /\ w.call = calls[c]
        BY <3>2 DEF OwnWrites
      <3>4. Kind[req[c]] # "read"
        BY <1>0, <2>2 DEF Compare, CallOK
      <3>5. w.req = req[c]
        BY <1>3, <3>3, <3>4 DEF LandingOK
      <3> QED BY <1>0, <1>1, <1>3, <3>1, <3>2, <3>3, <3>5, AnswerRefines
    <2>3. CASE FinishRead(c) \/ GiveUp(c) \/ Mutate(c)
      BY <1>6, <2>3 DEF FinishRead, GiveUp, Mutate, Fail, Over
    <2> QED BY <2>1, <2>2, <2>3 DEF Command
  <1> QED BY <1>4, <1>5, <1>6

LEMMA ReplaceRefines ==
  ASSUME WritesInv, NEW c \in Client, Replace(c), canon' # canon
  PROVE  \/ \E w \in canon' \ canon : Ledger!Append(c, w)
         \/ \E w \in canon : Ledger!TakeBack(w)
  <1>0. TypeOK /\ LandingsOK /\ CallOK(c)
    BY DEF WritesInv
  <1>1. /\ canon = base[c] /\ SaveShape(c) /\ canon' = next[c]
        /\ req' = req /\ answer' = answer
    BY <1>0 DEF Replace, At, CallOK
  <1>2. LandingOK(canon)
    BY <1>0, InUse
  <1>3. CASE stage[c] = "rollback"
    <2>1. canon' = canon \ OwnWrites(c, canon) /\ req[c] \in Garbled /\ Kind[req[c]] # "read"
      BY <1>1, <1>3 DEF SaveShape
    <2>2. PICK w \in OwnWrites(c, canon) : TRUE
      BY <2>1
    <2>3. OwnWrites(c, canon) = {w}
      BY <1>2, <2>2 DEF OwnWrites, LandingOK
    <2>4. w \in canon /\ w.req \in Garbled
      BY <1>2, <2>1, <2>2 DEF OwnWrites, LandingOK
    <2> QED BY <1>1, <2>1, <2>3, <2>4 DEF Ledger!TakeBack
  <1>4. CASE stage[c] # "rollback"
    <2>1. PICK w \in next[c] :
            /\ w.by = c /\ w.req = req[c] /\ next[c] = canon \cup {w}
      BY <1>1, <1>4 DEF SaveShape
    <2>2. Receipts(c, canon) = {}
      BY <1>1, <1>4 DEF SaveShape
    <2>3. \A v \in canon : ~Ledger!SameKey(v.req, w.req)
      BY <2>1, <2>2 DEF Receipts, Ledger!SameKey
    <2>4. w \in canon' \ canon
      BY <1>1, <2>1
    <2> QED BY <1>1, <2>1, <2>3, <2>4 DEF Ledger!Append
  <1> QED BY <1>3, <1>4

LEMMA SaveRefines ==
  ASSUME WritesInv, NEW c \in Client, Save(c)
  PROVE  \/ UNCHANGED <<canon, req, answer>>
         \/ \E w \in canon' \ canon : Ledger!Append(c, w)
         \/ \E w \in canon : Ledger!TakeBack(w) \/ Ledger!Answer(c, w)
  <1>0. TypeOK /\ LandingsOK /\ CallOK(c)
    BY DEF WritesInv
  <1>1. req' = req
    BY <1>0, SaveOthers
  <1>2. answer[c] = None
    BY <1>0 DEF Save, Acquire, Check, Replace, Sync, SyncAgain, SyncThrows, Release, At,
                CallOK, Over
  <1>3. CASE Replace(c)
    <2>1. CASE canon' # canon
      BY <1>3, <2>1, ReplaceRefines
    <2>2. CASE canon' = canon
      BY <1>1, <1>3, <2>2 DEF Replace
    <2> QED BY <2>1, <2>2
  <1>4. CASE ~Replace(c)
    <2>1. canon' = canon
      BY <1>4 DEF Save, Acquire, Check, Sync, SyncAgain, SyncThrows, Release, storage
    <2>2. CASE Fail(c)
      BY <1>0, <1>1, <1>2, <2>1, <2>2, EndSilent DEF Fail
    <2>3. CASE ~Fail(c)
      <3>1. CASE answer' = answer
        BY <1>1, <2>1, <3>1
      <3>2. CASE answer' # answer
        <4>1. /\ result[c] = "saved" /\ Kind[req[c]] = "ordinary"
              /\ \E w \in OwnWrites(c, next[c]) : End(c, "done", w)
          BY <1>4, <2>3, <3>2
             DEF Save, Acquire, Check, Sync, SyncAgain, SyncThrows, Release
        <4>2. PICK w \in OwnWrites(c, next[c]) : End(c, "done", w)
          BY <4>1
        <4>3. LandingOK(next[c]) /\ req[c] \in Request
          BY <1>0, <4>1, InUse DEF TypeOK
        <4>4. w \in next[c] /\ w.by = c /\ w.req = req[c]
          BY <4>1, <4>2, <4>3 DEF OwnWrites, LandingOK
        <4>5. w.req \notin Garbled
          BY <4>1, <4>3, <4>4, OrdinaryStays
        <4> QED BY <1>0, <1>1, <2>1, <4>2, <4>3, <4>4, <4>5, AnswerRefines
      <3> QED BY <3>1, <3>2
    <2> QED BY <2>2, <2>3
  <1> QED BY <1>3, <1>4

\* Whatever overtakes, fails or dies, every write is applied on top of all that
\* was applied before, once for each idempotency key, stays unless it is a
\* garbled proposal, and an agent is only told of a write that counts.
THEOREM WritesImplementLedger == Spec => ImplementsLedger
  <1>1. Init => Ledger!Init
    <2> SUFFICES ASSUME Init PROVE Ledger!Init
      OBVIOUS
    <2>1. req \in [Client -> Request]
      BY TypeInit DEF TypeOK
    <2> QED BY <2>1 DEF Init, Ledger!Init
  <1>2. WritesInv /\ [Next]_vars => [Ledger!Next]_<<canon, req, answer>>
    <2> SUFFICES ASSUME WritesInv, [Next]_vars
                 PROVE  [Ledger!Next]_<<canon, req, answer>>
      OBVIOUS
    <2>0. TypeOK /\ \A d \in Client : CallOK(d)
      BY DEF WritesInv
    <2>1. ASSUME NEW c \in Client, Step(c) PROVE [Ledger!Next]_<<canon, req, answer>>
      BY <2>1, LoadRefines, CommandRefines, SaveRefines DEF Step, Ledger!Next
    <2>2. ASSUME NEW c \in Client, Crash(c) PROVE UNCHANGED <<canon, req, answer>>
      BY <2>0, <2>2, EndSilent DEF Crash, Fail, CallOK, storage
    <2>3. ASSUME NEW c \in Client, NEW r \in Request, Start(c, r) PROVE Ledger!Ask(c, r)
      BY <2>3 DEF Start, Ledger!Ask, storage
    <2>4. CASE Lapse
      BY <2>4 DEF Lapse
    <2>5. CASE UNCHANGED vars
      BY <2>5 DEF vars, storage
    <2> QED BY <2>1, <2>2, <2>3, <2>4, <2>5 DEF Next, Ledger!Next
  <1> QED BY <1>1, <1>2, InvHolds, PTL DEF Spec, ImplementsLedger, Ledger!Spec

=============================================================================
