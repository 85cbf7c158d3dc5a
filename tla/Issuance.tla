------------------------------- MODULE Issuance -------------------------------
(***************************************************************************)
(* The credential workflow and the lifecycle cases of the API: a diploma   *)
(* is drafted, submitted, approved by somebody else and issued; an issued  *)
(* diploma is revoked, or replaced by a new one, through a lifecycle case  *)
(* that a second person decides.                                           *)
(*                                                                         *)
(* The state is the two database tables.  Every handler of                 *)
(* credentials/service.ts and every decision of lifecycle/routes.ts is one *)
(* transaction that first locks the rows it decides on (SELECT ... FOR     *)
(* UPDATE), so it is one action; what a handler reads before its           *)
(* transaction, without a lock, is a step of its own.                      *)
(***************************************************************************)
EXTENDS CredentialStatus, FiniteSets

CONSTANTS
  Credential,       \* identifiers of credential rows
  Case,             \* identifiers of lifecycle cases (one per request)
  Staff,            \* user accounts
  Operators,        \* accounts granted the role Operator ...
  Approvers,        \* ... Approver ...
  LifecycleAdmins,  \* ... and LifecycleAdmin
  Claims,           \* values of a credential's claims
  NULL              \* SQL null

ASSUME RolesAssumption ==
  /\ Operators \subseteq Staff
  /\ Approvers \subseteq Staff
  /\ LifecycleAdmins \subseteq Staff

ASSUME NullAssumption == NULL \notin Credential \cup Case \cup Staff \cup Claims

VARIABLES
  credentials,      \* the table credentials
  cases             \* the table lifecycle_cases

vars == <<credentials, cases>>

-------------------------------------------------------------------------------
(* Rows.  contentHash stands for the certificate ID, the salt, the hash    *)
(* and the issue date that issuing stamps together: it is the claims the   *)
(* hash commits to, NULL until then.  A case in CHECKED is a request that  *)
(* found its credential ISSUED and has not inserted its row yet; an        *)
(* identifier that names no row has the status ABSENT.                     *)

CredentialRow ==
  [status       : CredentialLifecycle,
   claims       : Claims,
   snapshot     : Claims \cup {NULL},
   submittedBy  : Staff \cup {NULL},
   approvedBy   : Staff \cup {NULL},
   contentHash  : Claims \cup {NULL},
   supersededBy : Credential \cup {NULL}]

CaseRow ==
  [status      : LifecycleCaseStatus \cup {"CHECKED"},
   caseType    : LifecycleCaseType,
   credential  : Credential,
   requestedBy : Staff,
   decidedBy   : Staff \cup {NULL},
   replacement : Credential \cup {NULL}]

NoCredentialRow ==
  [status |-> "ABSENT", claims |-> NULL, snapshot |-> NULL, submittedBy |-> NULL,
   approvedBy |-> NULL, contentHash |-> NULL, supersededBy |-> NULL]

DraftRow(claims) ==
  [status |-> "DRAFT", claims |-> claims, snapshot |-> NULL, submittedBy |-> NULL,
   approvedBy |-> NULL, contentHash |-> NULL, supersededBy |-> NULL]

NoCaseRow ==
  [status |-> "ABSENT", caseType |-> NULL, credential |-> NULL,
   requestedBy |-> NULL, decidedBy |-> NULL, replacement |-> NULL]

TypeOK ==
  /\ credentials \in [Credential -> CredentialRow \cup {NoCredentialRow}]
  /\ cases \in [Case -> CaseRow \cup {NoCaseRow}]

Init ==
  /\ credentials = [c \in Credential |-> NoCredentialRow]
  /\ cases = [k \in Case |-> NoCaseRow]

-------------------------------------------------------------------------------
(* Drafting.                                                               *)

CreateDraft(u, c, claims) ==
  /\ u \in Operators
  /\ credentials[c].status = "ABSENT"
  /\ credentials' = [credentials EXCEPT ![c] = DraftRow(claims)]
  /\ UNCHANGED cases

\* Mutant: a submitted request stays editable.
EditDraft_WhileSubmitted(u, c, claims) ==
  /\ u \in Operators
  /\ credentials[c].status \in {"DRAFT", "RETURNED", "PENDING_APPROVAL"}
  /\ credentials' = [credentials EXCEPT ![c].claims = claims]
  /\ UNCHANGED cases

\* PATCH /credentials/:id
EditDraft(u, c, claims) ==
  /\ u \in Operators
  /\ credentials[c].status \in {"DRAFT", "RETURNED"}
  /\ credentials' = [credentials EXCEPT ![c].claims = claims]
  /\ UNCHANGED cases

SubmitCredential(u, c) ==
  LET row == credentials[c] IN
  /\ u \in Operators
  /\ CanTransition(row.status, "PENDING_APPROVAL")
  /\ credentials' = [credentials EXCEPT ![c] =
       [row EXCEPT !.status = "PENDING_APPROVAL",
                   !.snapshot = row.claims,
                   !.submittedBy = u]]
  /\ UNCHANGED cases

-------------------------------------------------------------------------------
(* Approval and issuance.                                                  *)

\* The cases that wait for c to be issued.
LinkedCases(c) ==
  {k \in Case : cases[k].status = "APPROVED" /\ cases[k].replacement = c}

\* The credentials that issuing c retires.
Superseded(c) ==
  {o \in Credential : /\ credentials[o].status = "ISSUED"
                      /\ \E k \in LinkedCases(c) : cases[k].credential = o}

SubmittedClaims(row) == IF row.snapshot # NULL THEN row.snapshot ELSE row.claims

\* Mutant: a case is completed only when it still supersedes something.
IssueWithinTransaction_CasesLeft(c, u) ==
  /\ credentials' = [x \in Credential |->
       LET row == credentials[x] IN
       IF x = c
         THEN [row EXCEPT !.status = "ISSUED",
                          !.approvedBy = u,
                          !.contentHash = SubmittedClaims(row)]
         ELSE IF x \in Superseded(c)
                THEN [row EXCEPT !.status = "SUPERSEDED", !.supersededBy = c]
                ELSE row]
  /\ cases' = [k \in Case |->
       IF k \in LinkedCases(c) /\ cases[k].credential \in Superseded(c)
         THEN [cases[k] EXCEPT !.status = "COMPLETED"]
         ELSE cases[k]]

\* The rows after c, approved by u, is issued and what it replaces is
\* superseded, all in the approver's transaction.
IssueWithinTransaction(c, u) ==
  /\ credentials' = [x \in Credential |->
       LET row == credentials[x] IN
       IF x = c
         THEN [row EXCEPT !.status = "ISSUED",
                          !.approvedBy = u,
                          !.contentHash = SubmittedClaims(row)]
         ELSE IF x \in Superseded(c)
                THEN [row EXCEPT !.status = "SUPERSEDED", !.supersededBy = c]
                ELSE row]
  /\ cases' = [k \in Case |->
       IF k \in LinkedCases(c)
         THEN [cases[k] EXCEPT !.status = "COMPLETED"]
         ELSE cases[k]]

\* Mutant: the submitter may approve.
ApproveCredential_OwnRequest(u, c) ==
  /\ u \in Approvers
  /\ CanTransition(credentials[c].status, "APPROVED")
  /\ IssueWithinTransaction(c, u)

\* Approval issues in-line: APPROVED is passed through inside the transaction
\* and a failure of the issuing half takes the approval back with it.
ApproveCredential(u, c) ==
  LET row == credentials[c] IN
  /\ u \in Approvers
  /\ row.submittedBy # u
  /\ CanTransition(row.status, "APPROVED")
  /\ IssueWithinTransaction(c, u)

ReviewCredential(u, c, to) ==
  LET row == credentials[c] IN
  /\ u \in Approvers
  /\ row.submittedBy # u
  /\ CanTransition(row.status, to)
  /\ credentials' = [credentials EXCEPT ![c].status = to]
  /\ UNCHANGED cases

ReturnCredential(u, c) == ReviewCredential(u, c, "RETURNED")

RejectCredential(u, c) == ReviewCredential(u, c, "REJECTED")

\* Mutant: whatever is not closed yet can be cancelled.
CancelCredential_EvenIssued(u, c) ==
  /\ u \in Operators
  /\ credentials[c].status \in {"DRAFT", "RETURNED", "ISSUED"}
  /\ credentials' = [credentials EXCEPT ![c].status = "CANCELLED"]
  /\ UNCHANGED cases

CancelCredential(u, c) ==
  /\ u \in Operators
  /\ CanTransition(credentials[c].status, "CANCELLED")
  /\ credentials' = [credentials EXCEPT ![c].status = "CANCELLED"]
  /\ UNCHANGED cases

-------------------------------------------------------------------------------
(* Lifecycle cases.                                                        *)

\* POST /lifecycle-cases, first half: the credential is read without a lock.
CheckCase(u, k, c, type) ==
  /\ u \in LifecycleAdmins
  /\ cases[k].status = "ABSENT"
  /\ credentials[c].status = "ISSUED"
  /\ cases' = [cases EXCEPT ![k] =
       [status |-> "CHECKED", caseType |-> type, credential |-> c,
        requestedBy |-> u, decidedBy |-> NULL, replacement |-> NULL]]
  /\ UNCHANGED credentials

\* Second half: the transaction that inserts the case.
OpenCase(k) ==
  /\ cases[k].status = "CHECKED"
  /\ cases' = [cases EXCEPT ![k].status = "OPEN"]
  /\ UNCHANGED credentials

\* Mutant: the status of the case is not looked at.
MayDecide_AnyStatus(u, k) ==
  /\ u \in LifecycleAdmins \cup Approvers
  /\ cases[k].requestedBy # u

\* What a decision on case k needs: it is open, and decided by another person.
MayDecide(u, k) ==
  /\ u \in LifecycleAdmins \cup Approvers
  /\ cases[k].status = "OPEN"
  /\ cases[k].requestedBy # u

\* Mutant: the credential's status is not looked at.
ApproveRevocation_AnyStatus(u, k) ==
  LET c == cases[k].credential IN
  /\ MayDecide(u, k)
  /\ cases[k].caseType = "REVOKE"
  /\ cases' = [cases EXCEPT ![k] = [@ EXCEPT !.status = "COMPLETED",
                                             !.decidedBy = u]]
  /\ credentials' = [credentials EXCEPT ![c].status = "REVOKED"]

\* Approving a REVOKE case revokes: applyRevocation walks ISSUED ->
\* REVOCATION_PENDING -> REVOKED in the deciding transaction, and a credential
\* that cannot take the first step rolls the decision back.
ApproveRevocation(u, k) ==
  LET c == cases[k].credential IN
  /\ MayDecide(u, k)
  /\ cases[k].caseType = "REVOKE"
  /\ CanTransition(credentials[c].status, "REVOCATION_PENDING")
  /\ cases' = [cases EXCEPT ![k] = [@ EXCEPT !.status = "COMPLETED",
                                             !.decidedBy = u]]
  /\ credentials' = [credentials EXCEPT ![c].status = "REVOKED"]

\* Mutant: the original is superseded when its replacement is opened.
ApproveReplacement_SupersedesAtOnce(u, k, r) ==
  LET c == cases[k].credential IN
  /\ MayDecide(u, k)
  /\ cases[k].caseType \in {"CORRECT", "REISSUE"}
  /\ credentials[r].status = "ABSENT"
  /\ credentials' = [credentials EXCEPT
       ![r] = DraftRow(credentials[c].claims),
       ![c] = [@ EXCEPT !.status = "SUPERSEDED", !.supersededBy = r]]
  /\ cases' = [cases EXCEPT ![k] = [@ EXCEPT !.status = "APPROVED",
                                             !.decidedBy = u,
                                             !.replacement = r]]

\* Mutant: a correction can go back to a superseded record.
ApproveReplacement_ReopensOriginal(u, k, r) ==
  LET c == cases[k].credential IN
  /\ MayDecide(u, k)
  /\ cases[k].caseType \in {"CORRECT", "REISSUE"}
  /\ credentials[r].status \in {"ABSENT", "SUPERSEDED"}
  /\ credentials' = [credentials EXCEPT
       ![r] = [DraftRow(credentials[c].claims) EXCEPT
                 !.supersededBy = credentials[r].supersededBy]]
  /\ cases' = [cases EXCEPT ![k] = [@ EXCEPT !.status = "APPROVED",
                                             !.decidedBy = u,
                                             !.replacement = r]]

\* Approving a CORRECT or REISSUE case opens a linked draft with the claims of
\* the original, whatever the status the original has by now.
ApproveReplacement(u, k, r) ==
  LET c == cases[k].credential IN
  /\ MayDecide(u, k)
  /\ cases[k].caseType \in {"CORRECT", "REISSUE"}
  /\ credentials[r].status = "ABSENT"
  /\ credentials' = [credentials EXCEPT ![r] = DraftRow(credentials[c].claims)]
  /\ cases' = [cases EXCEPT ![k] = [@ EXCEPT !.status = "APPROVED",
                                             !.decidedBy = u,
                                             !.replacement = r]]

RejectCase(u, k) ==
  /\ MayDecide(u, k)
  /\ cases' = [cases EXCEPT ![k] = [@ EXCEPT !.status = "REJECTED",
                                             !.decidedBy = u]]
  /\ UNCHANGED credentials

-------------------------------------------------------------------------------
CredentialNext ==
  \E u \in Staff, c \in Credential :
    \/ \E claims \in Claims : CreateDraft(u, c, claims) \/ EditDraft(u, c, claims)
    \/ SubmitCredential(u, c)
    \/ ApproveCredential(u, c)
    \/ ReturnCredential(u, c)
    \/ RejectCredential(u, c)
    \/ CancelCredential(u, c)

CaseNext ==
  \E k \in Case :
    \/ OpenCase(k)
    \/ \E u \in Staff :
         \/ \E c \in Credential, type \in LifecycleCaseType : CheckCase(u, k, c, type)
         \/ ApproveRevocation(u, k)
         \/ \E r \in Credential : ApproveReplacement(u, k, r)
         \/ RejectCase(u, k)

Next == CredentialNext \/ CaseNext

Spec == Init /\ [][Next]_vars
-------------------------------------------------------------------------------
(* Properties.                                                             *)

Issued(c) == credentials[c].contentHash # NULL

IsReplacementCase(k) == cases[k].caseType \in {"CORRECT", "REISSUE"}

\* Submitter # approver: whatever returns, resubmissions and replacements led
\* to it, a diploma that was issued was submitted by an operator and approved
\* by an approver who is somebody else (credentials/service.ts:139).
SeparationOfDuties ==
  \A c \in Credential : Issued(c) =>
    /\ credentials[c].submittedBy \in Operators
    /\ credentials[c].approvedBy \in Approvers
    /\ credentials[c].submittedBy # credentials[c].approvedBy

\* The hash of an issued diploma commits to the claims that its row still
\* shows: what the approver saw, what was submitted last and what is stored
\* are one value (credentials/service.ts:176, schema.ts:304).
ContentIntegrity ==
  \A c \in Credential : Issued(c) =>
    /\ credentials[c].contentHash = credentials[c].claims
    /\ credentials[c].snapshot = credentials[c].claims

\* "Issued credential records are immutable": after issuance only the status
\* moves, once, from ISSUED to REVOKED or SUPERSEDED; a final status stays.
IssuedImmutable ==
  [][\A c \in Credential : Issued(c) =>
       LET old == credentials[c]
           new == credentials'[c]
       IN /\ \/ new.status = old.status
             \/ old.status = "ISSUED" /\ new.status \in {"REVOKED", "SUPERSEDED"}
          /\ new = [old EXCEPT !.status = new.status,
                               !.supersededBy = new.supersededBy]
          /\ new.supersededBy = old.supersededBy \/ new.status # old.status]_vars

\* The completed REVOKE cases about c.
Revocations(c) ==
  {k \in Case : /\ cases[k].status = "COMPLETED"
                /\ cases[k].caseType = "REVOKE"
                /\ cases[k].credential = c}

\* A diploma is revoked exactly when one REVOKE case about it is completed, by
\* a person who did not request it (lifecycle/routes.ts:111-150).
RevocationIsDecided ==
  \A c \in Credential :
    /\ credentials[c].status = "REVOKED" <=> Revocations(c) # {}
    /\ \A k, l \in Revocations(c) : k = l
    /\ \A k \in Revocations(c) : cases[k].requestedBy # cases[k].decidedBy

\* A superseded diploma names a successor that was itself issued, under a
\* completed case that two people agreed on, and nothing else names one.
SupersessionIsLinked ==
  \A c \in Credential :
    /\ credentials[c].status = "SUPERSEDED" <=> credentials[c].supersededBy # NULL
    /\ credentials[c].supersededBy # NULL =>
         /\ Issued(credentials[c].supersededBy)
         /\ \E k \in Case : /\ cases[k].status = "COMPLETED"
                            /\ cases[k].credential = c
                            /\ cases[k].replacement = credentials[c].supersededBy
                            /\ cases[k].requestedBy # cases[k].decidedBy

\* Following successors never leads back: every set of diplomas has one whose
\* successor is outside it.
NoSupersessionCycle ==
  \A S \in (SUBSET Credential) \ {{}} : \E c \in S : credentials[c].supersededBy \notin S

\* A replacement case is completed when, and only when, its replacement is
\* issued; two cases never share a replacement (service.ts:202-228).
CaseFollowsReplacement ==
  \A k \in Case : cases[k].replacement # NULL =>
    /\ cases[k].status \in {"APPROVED", "COMPLETED"}
    /\ cases[k].status = "COMPLETED" <=> Issued(cases[k].replacement)
    /\ \A l \in Case : cases[l].replacement = cases[k].replacement => l = k

\* "The old credential is superseded when the replacement issues"
\* (lifecycle/routes.ts:153).
ReplacementSupersedes ==
  \A k \in Case : cases[k].status = "COMPLETED" /\ IsReplacementCase(k) =>
    credentials[cases[k].credential].supersededBy = cases[k].replacement

-------------------------------------------------------------------------------
(* The inductive invariant behind these properties.                        *)

\* The columns of one row agree with its status.
RowOK(row) ==
  /\ row.status \notin {"APPROVED", "REVOCATION_PENDING"}
  /\ row.contentHash # NULL <=> row.status \in {"ISSUED", "REVOKED", "SUPERSEDED"}
  /\ row.supersededBy # NULL <=> row.status = "SUPERSEDED"
  /\ row.status \in {"PENDING_APPROVAL", "ISSUED", "REVOKED", "SUPERSEDED"} =>
       row.snapshot = row.claims /\ row.submittedBy \in Operators
  /\ row.contentHash # NULL =>
       /\ row.contentHash = row.claims
       /\ row.approvedBy \in Approvers
       /\ row.approvedBy # row.submittedBy

\* A case is about an issued diploma, and its columns agree with its status.
CaseOK(row) ==
  row.status # "ABSENT" =>
    /\ Issued(row.credential)
    /\ row.decidedBy # row.requestedBy
    /\ row.decidedBy # NULL <=> row.status \in {"APPROVED", "COMPLETED", "REJECTED"}
    /\ row.status # "CANCELLED"
    /\ row.status = "APPROVED" => row.caseType # "REVOKE"
    /\ row.replacement # NULL <=>
         row.caseType # "REVOKE" /\ row.status \in {"APPROVED", "COMPLETED"}
    /\ row.replacement # NULL =>
         /\ credentials[row.replacement].status # "ABSENT"
         /\ row.replacement # row.credential

IndInv ==
  /\ TypeOK
  /\ \A c \in Credential : RowOK(credentials[c])
  /\ \A k \in Case : CaseOK(cases[k])
  /\ RevocationIsDecided
  /\ SupersessionIsLinked
  /\ CaseFollowsReplacement
===============================================================================
