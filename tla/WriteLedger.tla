----------------------------- MODULE WriteLedger -----------------------------
(***************************************************************************)
(* What the write path promises the clients of a project.  The project is  *)
(* the set of the writes that have been applied.  A write is applied on    *)
(* top of everything applied before, at most one for each idempotency key, *)
(* and stays; only a proposal that was stored garbled may be taken back.   *)
(* A client is only ever told of a write that answers its own request.     *)
(***************************************************************************)
CONSTANTS Client, Request,
          Key(_),       \* the idempotency key of a request, or NoKey
          NoKey,
          Garbled,      \* requests whose proposal does not read back as stored
          None

VARIABLES ledger,  \* the writes that count
          asked,   \* what each client asks for
          answer   \* the write each client was told of, or None

Init ==
  /\ ledger = {}
  /\ asked \in [Client -> Request]
  /\ answer = [c \in Client |-> None]

Ask(c, r) ==
  /\ asked' = [asked EXCEPT ![c] = r]
  /\ answer' = [answer EXCEPT ![c] = None]
  /\ UNCHANGED ledger

SameKey(r, s) == Key(r) # NoKey /\ Key(r) = Key(s)

\* A client's write is applied ...
Append(c, w) ==
  /\ w.by = c /\ w.req = asked[c] /\ w \notin ledger
  /\ \A v \in ledger : ~SameKey(v.req, w.req)
  /\ ledger' = ledger \cup {w}
  /\ UNCHANGED <<asked, answer>>

\* ... taken back ...
TakeBack(w) ==
  /\ w \in ledger /\ w.req \in Garbled
  /\ ledger' = ledger \ {w}
  /\ UNCHANGED <<asked, answer>>

\* ... or answered, also to a client that asked for the same before.
Answer(c, w) ==
  /\ w \in ledger /\ w.req = asked[c] /\ w.req \notin Garbled
  /\ w.by = c \/ SameKey(w.req, asked[c])
  /\ answer' = [answer EXCEPT ![c] = w]
  /\ UNCHANGED <<ledger, asked>>

Next ==
  \/ \E c \in Client :
       \/ \E r \in Request : Ask(c, r)
       \/ \E w \in ledger' \ ledger : Append(c, w)
       \/ \E w \in ledger : Answer(c, w)
  \/ \E w \in ledger : TakeBack(w)

Spec == Init /\ [][Next]_<<ledger, asked, answer>>
=============================================================================
