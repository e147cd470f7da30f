--------------------------- MODULE CanonicalRegister ---------------------------
(***************************************************************************)
(* What canonical storage promises its clients: the project is one value.  *)
(* A client loads the value whole, and its save replaces it, at once, only *)
(* if it is still the value the client loaded.  Any attempt may fail, and  *)
(* then changes nothing.  A client that means to create the project saves  *)
(* without having loaded one: it is refused while all saves before it were *)
(* complete, but may replace the project after one that was interrupted.   *)
(* A load that is mixed up with a save may return anything; as saves are   *)
(* compared with the value itself, this does no harm.  Once the promise is *)
(* void, nothing is promised any more.                                     *)
(***************************************************************************)
CONSTANTS Client, Initial, Nothing, Written(_)

VARIABLES value,       \* the project as the next load will return it
          head,        \* what each client loaded, or Nothing
          outcome,     \* what became of each client's save
          interrupted, \* whether a save was interrupted
          mixed,       \* whose loads are mixed up with a save: comes and goes
          void         \* whether the promise is void

vars == <<value, head, outcome, interrupted, void>>

Init ==
  /\ value = Initial
  /\ head = [c \in Client |-> Initial]
  /\ outcome = [c \in Client |-> "none"]
  /\ interrupted = FALSE /\ void = FALSE

Load(c) ==
  /\ outcome[c] = "none"
  /\ head' = [head EXCEPT ![c] = IF c \in mixed THEN head'[c] ELSE value]
  /\ UNCHANGED <<value, outcome, interrupted, void>>

Create(c) ==
  /\ outcome[c] = "none"
  /\ head' = [head EXCEPT ![c] = Nothing]
  /\ UNCHANGED <<value, outcome, interrupted, void>>

Save(c) ==
  /\ outcome[c] = "none"
  /\ head[c] = value \/ (head[c] = Nothing /\ interrupted)
  /\ value' = Written(c)
  /\ outcome' = [outcome EXCEPT ![c] = "landed"]
  /\ UNCHANGED <<head, interrupted, void>>

Fail(c) ==
  /\ outcome[c] = "none"
  /\ \E why \in {"absent", "invalid", "stale", "failed"} :
       outcome' = [outcome EXCEPT ![c] = why]
  /\ interrupted' \in {interrupted, TRUE}
  /\ UNCHANGED <<value, head, void>>

Interrupt == interrupted' = TRUE /\ UNCHANGED <<value, head, outcome, void>>

Next ==
  \/ Interrupt
  \/ \E c \in Client : Load(c) \/ Create(c) \/ Save(c) \/ Fail(c)
  \/ void' = TRUE

Spec == Init /\ [][Next]_vars
=============================================================================
