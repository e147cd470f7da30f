----------------------- MODULE ExactAuthorizationStore -----------------------
(***************************************************************************)
(* The host-owned exact-authorization store, as pure operators over its    *)
(* persisted state.  Every operation of the code is one transaction of the *)
(* local authority state file, so a composing module applies one operator  *)
(* per step.                                                               *)
(*                                                                         *)
(* The code keeps two maps: authorizations by authorizationId and receipts *)
(* by artifactId.  An authorization yields at most one receipt (it is      *)
(* consumed once), so both are kept here in one record per authorization:  *)
(*   status    of the authorization: none, active, consumed, revoked       *)
(*   artifact  the artifactId it was consumed with                         *)
(*   receipt   none, authorized, commit_claimed, committed, revoked        *)
(*   claim     the commitClaimId recorded by the claim                     *)
(* The exact binding of an authorization (proposal, project, digest...) is *)
(* abstracted to the proposal it was decided for, AuthOp, and its policy   *)
(* and profile provenance to one installed profile, AuthEpoch.             *)
(***************************************************************************)
CONSTANTS Auth,        \* authorization ids
          Op,          \* pending operations (proposals)
          Epoch,       \* installed profiles: (profileId, modeEpoch, digests)
          Call,        \* callers that can mint an artifact id
          AuthOp,      \* the proposal each authorization is bound to
          AuthEpoch,   \* the profile each authorization was decided under
          Interactive, \* authorizations whose issuer is an MCP interaction
          NoArtifact,
          NoClaim

\* An artifact id is minted by one call for one authorization (a UUID).
ArtifactId == Auth \X Call
AuthOf(x) == x[1]

ASSUME StoreAssumption ==
  /\ AuthOp \in [Auth -> Op]
  /\ AuthEpoch \in [Auth -> Epoch]
  /\ Interactive \subseteq Auth
  /\ NoArtifact \notin ArtifactId
  /\ NoClaim \notin ArtifactId \X Op

AuthorizationStatus == {"none", "active", "consumed", "revoked"}
ReceiptStatus == {"none", "authorized", "commit_claimed", "committed", "revoked"}

\* The claim id is a digest of the artifact, its authorization and the
\* proposal: the same for every attempt, different for any other artifact.
ClaimId(x) == <<x, AuthOp[AuthOf(x)]>>

Entry == [status   : AuthorizationStatus,
          artifact : ArtifactId \cup {NoArtifact},
          receipt  : ReceiptStatus,
          claim    : (ArtifactId \X Op) \cup {NoClaim}]

StoreState == [Auth -> Entry]

\* A receipt is the trace of one consumption: it belongs to the artifact its
\* authorization was consumed with, and its claim is that artifact's.
ReceiptsConsistent(s) ==
  \A a \in Auth :
    /\ s[a].receipt # "none" <=> s[a].status = "consumed"
    /\ s[a].receipt # "none" => s[a].artifact \in ArtifactId /\ AuthOf(s[a].artifact) = a
    /\ s[a].receipt \in {"commit_claimed", "committed"} => s[a].claim = ClaimId(s[a].artifact)

EmptyStore ==
  [a \in Auth |-> [status |-> "none", artifact |-> NoArtifact,
                   receipt |-> "none", claim |-> NoClaim]]

\* issue: an identical candidate already on record is left as it is, whatever
\* has become of it since.
Issue(s, a) ==
  IF s[a].status = "none" THEN [s EXCEPT ![a].status = "active"] ELSE s

\* consumeAndRecordReceipt succeeds: the first consumption needs an active,
\* unexpired authorization of this very proposal; a repeated one must name
\* the same artifact.
CanConsume(s, a, o, x, isExpired) ==
  /\ AuthOp[a] = o
  /\ \/ s[a].status = "consumed" /\ s[a].artifact = x /\ s[a].receipt # "none"
     \/ s[a].status = "active" /\ ~isExpired

Consume(s, a, x) ==
  IF s[a].status = "active"
  THEN [s EXCEPT ![a] = [status |-> "consumed", artifact |-> x,
                         receipt |-> "authorized", claim |-> NoClaim]]
  ELSE s

\* verifyReceipt: a receipt with this exact binding exists, in any status.
HasReceipt(s, x) == s[AuthOf(x)].artifact = x /\ s[AuthOf(x)].receipt # "none"

\* claimCommit succeeds on a receipt that is not revoked; one that is claimed
\* already is only claimed again by the same claim.
CanClaim(s, x) ==
  LET r == s[AuthOf(x)] IN
  /\ HasReceipt(s, x)
  /\ r.receipt # "revoked"
  /\ r.receipt \in {"commit_claimed", "committed"} => r.claim = ClaimId(x)

Claim(s, x) ==
  IF s[AuthOf(x)].receipt \in {"commit_claimed", "committed"} THEN s
  ELSE [s EXCEPT ![AuthOf(x)] =
          [@ EXCEPT !.receipt = "commit_claimed", !.claim = ClaimId(x)]]

\* finalizeCommit succeeds only for the claim on record.
CanFinalize(s, x) ==
  LET r == s[AuthOf(x)] IN
  /\ HasReceipt(s, x)
  /\ r.receipt \in {"commit_claimed", "committed"}
  /\ r.claim = ClaimId(x)

\* Faulty variant: the artifact's status is written to the receipt.
FinalizeAsArtifact(s, x) == [s EXCEPT ![AuthOf(x)].receipt = "consumed"]

Finalize(s, x) == [s EXCEPT ![AuthOf(x)].receipt = "committed"]

\* Faulty variant: a consumed authorization loses its receipt in any status.
RevokeAny(s, a) ==
  IF s[a].status = "active" THEN [s EXCEPT ![a].status = "revoked"]
  ELSE IF s[a].status = "consumed" THEN [s EXCEPT ![a].receipt = "revoked"]
  ELSE s

\* revoke: an active authorization, or a consumed one whose receipt is not
\* claimed yet.  The last disjunct of the code returns false: no change.
Revoke(s, a) ==
  IF s[a].status = "active" THEN [s EXCEPT ![a].status = "revoked"]
  ELSE IF s[a].status = "consumed" /\ s[a].receipt = "authorized"
  THEN [s EXCEPT ![a].receipt = "revoked"]
  ELSE s

-----------------------------------------------------------------------------
(* activatePolicy of the local authority state file.                       *)

\* isStaleProvenance: only authorizations issued by the profile itself are
\* compared; an interactive one has another issuer and is never stale.
IsStaleProvenance(a, e) == a \notin Interactive /\ AuthEpoch[a] # e

\* The activation throws, changing nothing, while a stale receipt is claimed.
RotationBlocked(s, e) ==
  \E a \in Auth : IsStaleProvenance(a, e) /\ s[a].receipt = "commit_claimed"

ActivatePolicy(s, e) ==
  [a \in Auth |-> IF IsStaleProvenance(a, e) THEN Revoke(s, a)[a] ELSE s[a]]
=============================================================================
