-------------------------- MODULE StateTransactions --------------------------
(***************************************************************************)
(* What the authority state file promises its users: transactions that     *)
(* change the state take effect one after the other, each on top of all    *)
(* the earlier ones, and each raises the revision by one.  While the file  *)
(* is still to be created, an initializer that found none may put the      *)
(* empty state in place of whatever has been written by then.  Once the    *)
(* promise is void, nothing is promised any more.                          *)
(***************************************************************************)
EXTENDS Naturals

CONSTANTS Txn,
          Unborn  \* whether there was no state file at the start

VARIABLES state,  \* the revision, and the transactions that took effect
          void    \* whether the promise is void

Empty == [rev |-> 0, done |-> {}]

Init == state = Empty /\ void = FALSE

Apply(t) ==
  /\ t \notin state.done
  /\ state' = [rev |-> state.rev + 1, done |-> state.done \cup {t}]

Initialize == Unborn /\ state' = Empty

Next ==
  \/ ((\E t \in Txn : Apply(t)) \/ Initialize) /\ UNCHANGED void
  \/ void' = TRUE

Spec == Init /\ [][Next]_<<state, void>>
=============================================================================
