------------------------ MODULE MCAuthorityStateLock ------------------------
(***************************************************************************)
(* Small instances of the authority state file: three transactions, each   *)
(* in a process of its own.                                                *)
(***************************************************************************)
EXTENDS AuthorityStateLock

CONSTANTS p1, p2, p3, t1, t2, t3

MCTxnProcess == [t \in Txn |-> IF t = t1 THEN p1 ELSE IF t = t2 THEN p2 ELSE p3]
=============================================================================
