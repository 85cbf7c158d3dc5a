----------------------------- MODULE SerialWorkflow ----------------------------
(***************************************************************************)
(* The workflow as it would be if requests came one at a time: a handler   *)
(* reads the rows as they are, writes all it has to write, or nothing.     *)
(***************************************************************************)
EXTENDS CredentialStatus

CONSTANTS Original, Replacement, Revocation, Correction, LinkedCase

Row ==
  {Original} \cup Replacement \cup Revocation \cup Correction
    \cup {LinkedCase[r] : r \in Replacement}

VARIABLE status

Init ==
  status = [row \in Row |->
    IF row = Original THEN "ISSUED"
    ELSE IF row \in Replacement THEN "PENDING_APPROVAL"
    ELSE IF row \in Revocation \cup Correction THEN "OPEN" ELSE "APPROVED"]

\* The replacement is issued under its case.  The original makes way if it is still
\* valid; what has been revoked or superseded meanwhile stays so.
Approve(r) ==
  /\ status[r] = "PENDING_APPROVAL"
  /\ status' = [status EXCEPT
       ![r] = "ISSUED",
       ![LinkedCase[r]] = "COMPLETED",
       ![Original] = IF @ = "ISSUED" THEN "SUPERSEDED" ELSE @]

Return(r) ==
  /\ status[r] = "PENDING_APPROVAL"
  /\ status' = [status EXCEPT ![r] = "RETURNED"]

\* Only what is valid can be revoked.
Revoke(k) ==
  /\ status[k] = "OPEN"
  /\ status[Original] = "ISSUED"
  /\ status' = [status EXCEPT ![k] = "COMPLETED", ![Original] = "REVOKED"]

AgreeToCorrect(k) ==
  /\ status[k] = "OPEN"
  /\ status' = [status EXCEPT ![k] = "APPROVED"]

Refuse(k) ==
  /\ status[k] = "OPEN"
  /\ status' = [status EXCEPT ![k] = "REJECTED"]

Next ==
  \/ \E r \in Replacement : Approve(r) \/ Return(r)
  \/ \E k \in Revocation : Revoke(k)
  \/ \E k \in Correction : AgreeToCorrect(k)
  \/ \E k \in Revocation \cup Correction : Refuse(k)

Spec == Init /\ [][Next]_status
===============================================================================
