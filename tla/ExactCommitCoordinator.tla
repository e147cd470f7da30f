------------------------ MODULE ExactCommitCoordinator ------------------------
(***************************************************************************)
(* The persisted coordination record of one commit key (project/pending    *)
(* operation): who owns the commit, under which generation, and whether    *)
(* the lease has run out.  Pure operators over one record; in the code     *)
(* each is one transaction of the authority state file.                    *)
(*                                                                         *)
(* Time is abstracted to lease \in {"live", "lapsed"}: a lease is live     *)
(* when written and lapses at some later moment.                           *)
(***************************************************************************)
EXTENDS Naturals

CONSTANTS Process,   \* operating-system process ids
          Attempt    \* commit attempts (attemptId)

\* ExactCommitOwnerIdentity.  startedAt tells two processes apart that had
\* the same process id, one after the other.
Owner == [pid : Process, startedAt : Nat, attempt : Attempt]

NoOwner == [pid |-> "none"]

CoordinationRecord ==
  [status     : {"none", "owned", "released"},
   generation : Nat,
   owner      : Owner \cup {NoOwner},
   lease      : {"live", "lapsed"}]

NoRecord == [status |-> "none", generation |-> 0, owner |-> NoOwner, lease |-> "lapsed"]

Token == [generation : Nat, owner : Owner]

\* ownershipMatches
Owns(rec, token) ==
  /\ rec.status = "owned"
  /\ rec.generation = token.generation
  /\ rec.owner = token.owner

\* resolveOwnerLiveness as observed by the process observer: its own process
\* id is judged by the start time, any other by kill(pid, 0), which cannot
\* tell a reused process id from the owner.  (A kill that is not permitted
\* answers "unknown", which acquire refuses exactly as it refuses "alive".)
OwnerLiveness(owner, observer, running, started) ==
  IF owner.pid = observer
  THEN IF owner.startedAt = started[observer] THEN "alive" ELSE "dead"
  ELSE IF running[owner.pid] THEN "alive" ELSE "dead"

\* Faulty variant: takeover on the passage of time alone.
CanAcquireLapsed(rec, observer, running, started) ==
  rec.status # "owned" \/ rec.lease = "lapsed"

\* acquire succeeds on a free record, or on one whose lease has lapsed and
\* whose owner is definitively dead.
CanAcquire(rec, observer, running, started) ==
  \/ rec.status # "owned"
  \/ /\ rec.lease = "lapsed"
     /\ OwnerLiveness(rec.owner, observer, running, started) = "dead"

NextToken(rec, owner) == [generation |-> rec.generation + 1, owner |-> owner]

Acquired(token) ==
  [status |-> "owned", generation |-> token.generation,
   owner |-> token.owner, lease |-> "live"]

\* renew: needs the token to match, not the lease to be live.
Renewed(rec) == [rec EXCEPT !.lease = "live"]

\* assertOwned: the token matches and the lease is live.
AssertOwned(rec, token) == Owns(rec, token) /\ rec.lease = "live"

\* Faulty variant: release deletes the record, and its generation with it.
ReleasedForgets(rec, token) == IF Owns(rec, token) THEN NoRecord ELSE rec

\* release: checked against the owner; the generation stays on record so
\* that no later owner can reuse it.  (The lease of a released record is
\* never looked at, so it is forgotten here.)
Released(rec, token) ==
  IF Owns(rec, token)
  THEN [rec EXCEPT !.status = "released", !.lease = "lapsed"] ELSE rec
=============================================================================
