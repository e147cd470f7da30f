-------------------------- MODULE MCCanonicalReplace --------------------------
(***************************************************************************)
(* Small instances of canonical storage: project.json and two more         *)
(* entries, one that only the aggregate of the start has, one it lacks.    *)
(***************************************************************************)
EXTENDS CanonicalReplace, TLC

CONSTANTS c1, c2, c3, seed

MCLacking == {<<seed, 3>>} \cup (Client \X {2})

Clients == Permutations(Client)
=============================================================================
