--------------------------- MODULE SourceValidation ---------------------------
(***************************************************************************)
(* The check of a request against HEMIS, the register of diplomas           *)
(* (POST /credentials/:id/validate-source), next to the workflow of         *)
(* Issuance.                                                                *)
(*                                                                          *)
(* The handler holds no lock: it reads the request, marks it CHECKING, asks *)
(* HEMIS over the network and writes the outcome, in four steps between     *)
(* which the workflow goes on and after any of which it may die.            *)
(***************************************************************************)
EXTENDS Issuance

CONSTANTS
  Number,     \* degree numbers
  Request,    \* validate-source requests, each of which is made once
  Register    \* what HEMIS holds under a number

\* HEMIS holds the diploma of the request's holder, somebody else's, or none.
RegisterEntry == {"same", "different", "none"}

ASSUME RegisterAssumption == Register \in [Number -> RegisterEntry]

ASSUME NumberAssumption == NULL \notin Number

VARIABLES
  number,     \* credentials.credential_number
  source,     \* credentials.source_validation_status
  evidence,   \* the source-validation rows of credential_events
  requests    \* the requests in flight

sourceVars == <<number, source, evidence, requests>>

Outcome == {"MATCHED", "MISMATCH", "UNAVAILABLE"}

NoRequest(phase) == [phase |-> phase, credential |-> NULL, degreeNumber |-> NULL]

Idle == NoRequest("IDLE")
Done == NoRequest("DONE")

RequestState ==
  [phase : {"READ", "CHECKING"}, credential : Credential, degreeNumber : Number]

SourceTypeOK ==
  /\ TypeOK
  /\ number \in [Credential -> Number \cup {NULL}]
  /\ source \in [Credential -> SourceValidationStatus]
  /\ evidence \in [Credential -> SUBSET [degreeNumber : Number, toStatus : Outcome]]
  /\ requests \in [Request -> RequestState \cup {Idle, Done}]

SourceInit ==
  /\ Init
  /\ number = [c \in Credential |-> NULL]
  /\ source = [c \in Credential |-> "NOT_CHECKED"]
  /\ evidence = [c \in Credential |-> {}]
  /\ requests = [r \in Request |-> Idle]

-------------------------------------------------------------------------------
(* HEMIS and the client.                                                   *)

\* The client asks one endpoint, then another; a refusal, a timeout or an
\* answer it cannot read from both is "unavailable".
FetchDiploma(n) == {"unavailable", Register[n]}

\* Mutant: no answer counts as no such diploma.
ToSourceValidationStatus_Outage(answer) ==
  IF answer = "same" THEN "MATCHED" ELSE "MISMATCH"

\* No attestation hook is configured, so ATTESTATION_INVALID does not occur.
ToSourceValidationStatus(answer) ==
  CASE answer = "unavailable" -> "UNAVAILABLE"
    [] answer = "none" -> "MISMATCH"
    [] answer = "different" -> "MISMATCH"
    [] answer = "same" -> "MATCHED"

-------------------------------------------------------------------------------
(* The handler.                                                            *)

Validatable == {"DRAFT", "PENDING_APPROVAL", "RETURNED"}

ReadForValidation(u, r, c) ==
  /\ u \in Operators
  /\ requests[r] = Idle
  /\ credentials[c].status \in Validatable
  /\ number[c] # NULL
  /\ requests' = [requests EXCEPT ![r] =
       [phase |-> "READ", credential |-> c, degreeNumber |-> number[c]]]
  /\ UNCHANGED <<vars, number, source, evidence>>

MarkChecking(r) ==
  /\ requests[r].phase = "READ"
  /\ source' = [source EXCEPT ![requests[r].credential] = "CHECKING"]
  /\ requests' = [requests EXCEPT ![r].phase = "CHECKING"]
  /\ UNCHANGED <<vars, number, evidence>>

\* The outcome and its evidence, in one transaction that looks at nothing.
FinishValidation(r) ==
  LET c == requests[r].credential
      n == requests[r].degreeNumber
  IN /\ requests[r].phase = "CHECKING"
     /\ \E answer \in FetchDiploma(n) :
          LET status == ToSourceValidationStatus(answer) IN
          /\ source' = [source EXCEPT ![c] = status]
          /\ evidence' = [evidence EXCEPT ![c] =
               @ \cup {[degreeNumber |-> n, toStatus |-> status]}]
     /\ requests' = [requests EXCEPT ![r] = Done]
     /\ UNCHANGED <<vars, number>>

\* The API process dies, or the connection to the database does.
AbandonValidation(r) ==
  /\ requests[r] \notin {Idle, Done}
  /\ requests' = [requests EXCEPT ![r] = Done]
  /\ UNCHANGED <<vars, number, source, evidence>>

-------------------------------------------------------------------------------
(* The workflow, with the columns that it writes here.                     *)

CreateNumberedDraft(u, c, claims, n) ==
  /\ CreateDraft(u, c, claims)
  /\ number' = [number EXCEPT ![c] = n]
  /\ UNCHANGED <<source, evidence, requests>>

\* PATCH may change the number, and leaves the validation status alone.
EditNumberedDraft(u, c, claims, n) ==
  /\ EditDraft(u, c, claims)
  /\ number' = [number EXCEPT ![c] = n]
  /\ UNCHANGED <<source, evidence, requests>>

\* A replacement draft takes the number of the original; its status starts over.
ApproveNumberedReplacement(u, k, r) ==
  /\ ApproveReplacement(u, k, r)
  /\ number' = [number EXCEPT ![r] = number[cases[k].credential]]
  /\ UNCHANGED <<source, evidence, requests>>

\* What writes none of them.
OtherWork(u) ==
  /\ \/ \E c \in Credential :
          \/ SubmitCredential(u, c)
          \/ ApproveCredential(u, c)
          \/ ReturnCredential(u, c)
          \/ RejectCredential(u, c)
          \/ CancelCredential(u, c)
     \/ \E k \in Case :
          \/ \E c \in Credential, type \in LifecycleCaseType : CheckCase(u, k, c, type)
          \/ OpenCase(k)
          \/ ApproveRevocation(u, k)
          \/ RejectCase(u, k)
  /\ UNCHANGED sourceVars

SourceNext ==
  \/ \E u \in Staff :
       \/ \E c \in Credential, claims \in Claims, n \in Number \cup {NULL} :
            CreateNumberedDraft(u, c, claims, n) \/ EditNumberedDraft(u, c, claims, n)
       \/ \E k \in Case, r \in Credential : ApproveNumberedReplacement(u, k, r)
       \/ OtherWork(u)
       \/ \E r \in Request, c \in Credential : ReadForValidation(u, r, c)
  \/ \E r \in Request : MarkChecking(r) \/ FinishValidation(r) \/ AbandonValidation(r)

SourceSpec == SourceInit /\ [][SourceNext]_<<vars, sourceVars>>
-------------------------------------------------------------------------------
(* Properties.                                                             *)

\* "UNAVAILABLE is an outage, never presented as fraud"
\* (credentials/routes.ts:446): however edits, requests and crashes interleave,
\* a request shown as MISMATCH or MATCHED has evidence of that outcome, and all
\* evidence ever filed tells what HEMIS, which was reached, holds under the
\* number that it names.
OutcomeHasEvidence ==
  \A c \in Credential :
    /\ source[c] \in {"MISMATCH", "MATCHED"} =>
         \E e \in evidence[c] : e.toStatus = source[c]
    /\ \A e \in evidence[c] :
         e.toStatus \in {"UNAVAILABLE",
           IF Register[e.degreeNumber] = "same" THEN "MATCHED" ELSE "MISMATCH"}
===============================================================================
