--------------------------- MODULE MCProjectWrites ---------------------------
(***************************************************************************)
(* Two agents that write, one of which also reads.                         *)
(***************************************************************************)
EXTENDS ProjectWrites

CONSTANTS a, b

MCAsks == [c \in Client |->
  CASE c = a -> {"create", "propose garbled"}
    [] OTHER -> {"create", "create other", "propose", "read"}]

MCKind == [r \in Request |->
  CASE r = "read" -> "read"
    [] r \in {"propose", "propose garbled"} -> "proposal"
    [] OTHER -> "ordinary"]

MCKeyOf == [r \in Request |-> IF r \in {"create", "create other"} THEN "key" ELSE NoKey]

MCMaxCalls == [c \in Client |-> CASE c = a -> 2 [] OTHER -> 1]
=============================================================================
