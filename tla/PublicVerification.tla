-------------------------- MODULE PublicVerification --------------------------
(***************************************************************************)
(* GET /api/v1/verify/:certificateId over the tables of Issuance, and the  *)
(* claim that what it answers, at every moment, is a public record in the  *)
(* sense of PublicRecord.                                                  *)
(***************************************************************************)
EXTENDS Issuance

\* Mutant: a diploma with a successor still verifies.
PublicResult_SupersededValid(row) ==
  CASE row.contentHash = NULL -> "NOT_FOUND"
    [] row.contentHash # NULL /\ row.status \in {"ISSUED", "SUPERSEDED"} -> "VALID"
    [] OTHER -> "REVOKED"

\* The result shown for the diploma of a row: a row without a certificate ID
\* is not found.
PublicResult(row) ==
  CASE row.contentHash = NULL -> "NOT_FOUND"
    [] row.contentHash # NULL /\ row.status = "ISSUED" -> "VALID"
    [] row.contentHash # NULL /\ row.status \in {"REVOCATION_PENDING", "REVOKED"} -> "REVOKED"
    [] row.contentHash # NULL /\ row.status = "SUPERSEDED" -> "SUPERSEDED"
    [] OTHER -> "NOT_FOUND"

\* What the page shows of a row, with the two people behind it.
PublicEntry(row) ==
  IF row.contentHash = NULL
    THEN [result |-> "NOT_FOUND", content |-> NULL, submitter |-> NULL,
          approver |-> NULL, successor |-> NULL]
    ELSE [result |-> PublicResult(row), content |-> SubmittedClaims(row),
          submitter |-> row.submittedBy, approver |-> row.approvedBy,
          successor |-> row.supersededBy]

publicRecord == [c \in Credential |-> PublicEntry(credentials[c])]

Public == INSTANCE PublicRecord WITH record <- publicRecord

\* Every step of the workflow leaves the public answers alone or is one
\* issuance (with at most one diploma replaced) or one revocation.
PublicRecordKept == Public!Spec
===============================================================================
