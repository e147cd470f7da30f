------------------------------ MODULE L3Decision ------------------------------
(***************************************************************************)
(* What the exact commit protocol promises, without processes, leases,     *)
(* snapshots or retries: an operation is decided once, and a commit is     *)
(* backed by exactly one authority that was reserved for it beforehand and *)
(* is settled only afterwards.                                             *)
(***************************************************************************)
CONSTANTS Op, Auth, AuthOp, NoAuth

VARIABLES decision,   \* what became of each operation
          committedBy,\* the authority an operation was committed with
          authority   \* what became of each authority

vars == <<decision, committedBy, authority>>

Decision == {"pending", "rejected", "committed"}
Authority == {"open", "reserved", "settled", "revoked"}

Init ==
  /\ decision = [o \in Op |-> "pending"]
  /\ committedBy = [o \in Op |-> NoAuth]
  /\ authority = [a \in Auth |-> "open"]

Reject(o) ==
  /\ decision[o] = "pending"
  /\ decision' = [decision EXCEPT ![o] = "rejected"]
  /\ UNCHANGED <<committedBy, authority>>

Reserve(a) ==
  /\ authority[a] = "open"
  /\ authority' = [authority EXCEPT ![a] = "reserved"]
  /\ UNCHANGED <<decision, committedBy>>

\* A rotation of the profile revokes several authorities at once, none of
\* them reserved.
Revoke(A) ==
  /\ \A a \in A : authority[a] = "open"
  /\ authority' = [a \in Auth |-> IF a \in A THEN "revoked" ELSE authority[a]]
  /\ UNCHANGED <<decision, committedBy>>

Commit(o, a) ==
  /\ decision[o] = "pending"
  /\ AuthOp[a] = o
  /\ authority[a] = "reserved"
  /\ decision' = [decision EXCEPT ![o] = "committed"]
  /\ committedBy' = [committedBy EXCEPT ![o] = a]
  /\ UNCHANGED authority

Settle(a) ==
  /\ authority[a] = "reserved"
  /\ committedBy[AuthOp[a]] = a
  /\ authority' = [authority EXCEPT ![a] = "settled"]
  /\ UNCHANGED <<decision, committedBy>>

Next ==
  \/ \E o \in Op : Reject(o) \/ \E a \in Auth : Commit(o, a)
  \/ \E a \in Auth : Reserve(a) \/ Settle(a)
  \/ \E A \in SUBSET Auth : Revoke(A)

Spec == Init /\ [][Next]_vars
=============================================================================
