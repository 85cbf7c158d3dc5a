--------------------------- MODULE CredentialStatus ---------------------------
(***************************************************************************)
(* The status vocabulary that the API, the worker and the database share   *)
(* (packages/shared/src/status.ts).  A status is the string that the code  *)
(* stores.                                                                 *)
(***************************************************************************)

\* Lifecycle of a credential row.
CredentialLifecycle ==
  {"DRAFT", "PENDING_APPROVAL", "RETURNED", "REJECTED", "APPROVED", "ISSUED",
   "REVOCATION_PENDING", "REVOKED", "SUPERSEDED", "CANCELLED"}

\* The allowed transitions, as the pairs <<from, to>>.
LIFECYCLE_TRANSITIONS ==
  {<<"DRAFT", "PENDING_APPROVAL">>,      <<"DRAFT", "CANCELLED">>,
   <<"PENDING_APPROVAL", "APPROVED">>,   <<"PENDING_APPROVAL", "RETURNED">>,
   <<"PENDING_APPROVAL", "REJECTED">>,
   <<"RETURNED", "PENDING_APPROVAL">>,   <<"RETURNED", "CANCELLED">>,
   <<"APPROVED", "ISSUED">>,
   <<"ISSUED", "REVOCATION_PENDING">>,   <<"ISSUED", "SUPERSEDED">>,
   <<"REVOCATION_PENDING", "REVOKED">>}

CanTransition(from, to) == <<from, to>> \in LIFECYCLE_TRANSITIONS

\* Result of the check of a credential against the HEMIS source system.
SourceValidationStatus ==
  {"NOT_CHECKED", "CHECKING", "MATCHED", "MISMATCH", "ATTESTATION_INVALID",
   "UNAVAILABLE", "STALE"}

AnchorStatus ==
  {"NOT_ELIGIBLE", "AWAITING_BATCH", "BATCHED", "SUBMITTED", "CONFIRMED",
   "FAILED", "REANCHORED"}

\* What the public verifier answers about a certificate ID.
VerificationResult == {"VALID", "REVOKED", "SUPERSEDED", "NOT_FOUND"}

LifecycleCaseType == {"REVOKE", "CORRECT", "REISSUE"}

LifecycleCaseStatus == {"OPEN", "APPROVED", "REJECTED", "COMPLETED", "CANCELLED"}
===============================================================================
