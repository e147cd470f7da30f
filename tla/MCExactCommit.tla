---------------------------- MODULE MCExactCommit ----------------------------
(***************************************************************************)
(* Small instances of the exact commit protocol.  Each configuration picks *)
(* the authorizations it is about; two calls run in two processes.         *)
(***************************************************************************)
EXTENDS ExactCommit, TLC

CONSTANTS p1, p2, c1, c2, o1

MCCallProcess == [c \in Call |-> IF c = c1 THEN p1 ELSE p2]

\* An authorization: the proposal, the profile, and who decided.
OneAuth   == {<<o1, 1, "policy">>}
TwoEpochs == {<<o1, 1, "policy">>, <<o1, 2, "policy">>}

MCAuthOp == [a \in Auth |-> a[1]]
MCAuthEpoch == [a \in Auth |-> a[2]]
MCInteractive == {a \in Auth : a[3] = "interactive"}

\* Exchanging the two calls together with their processes.
SwapCalls == {[x \in {c1, c2, p1, p2} |-> x],
              (c1 :> c2) @@ (c2 :> c1) @@ (p1 :> p2) @@ (p2 :> p1)}
=============================================================================
