---------------------------- MODULE IssuanceProofs ----------------------------
(***************************************************************************)
(* Theorems about Issuance, for any sets of credentials, cases, people and *)
(* claims and any assignment of roles.                                     *)
(*                                                                         *)
(* The actions are reduced to what they can do to one row: RowMove for a   *)
(* credential, CaseMove for a case.  What a row satisfies on its own is    *)
(* proved once per kind of move; what relates rows of the two tables is    *)
(* proved per action.  Last, the workflow implements the public record:    *)
(* what the verification page answers, over all credentials together,      *)
(* moves only as PublicRecord allows.                                      *)
(***************************************************************************)
EXTENDS PublicVerification, TLAPS

LEMMA DraftRowType ==
  ASSUME NEW v \in Claims PROVE DraftRow(v) \in CredentialRow
BY DEF DraftRow, CredentialRow, CredentialLifecycle

\* An identifier whose status is not ABSENT names a well-formed row.
LEMMA PresentRows ==
  ASSUME TypeOK
  PROVE  /\ \A c \in Credential : credentials[c].status # "ABSENT" =>
                                    credentials[c] \in CredentialRow
         /\ \A k \in Case : cases[k].status # "ABSENT" => cases[k] \in CaseRow
BY DEF TypeOK, NoCredentialRow, NoCaseRow

-------------------------------------------------------------------------------
(* What a step can do to one credential row.                               *)

DraftMove(old, new) == old.status = "ABSENT" /\ \E v \in Claims : new = DraftRow(v)

EditMove(old, new) ==
  /\ old.status \in {"DRAFT", "RETURNED"}
  /\ \E v \in Claims : new = [old EXCEPT !.claims = v]

SubmitMove(old, new) ==
  /\ old.status \in {"DRAFT", "RETURNED"}
  /\ \E u \in Operators :
       new = [old EXCEPT !.status = "PENDING_APPROVAL", !.snapshot = old.claims,
                         !.submittedBy = u]

IssueMove(old, new) ==
  /\ old.status = "PENDING_APPROVAL"
  /\ \E u \in Approvers \ {old.submittedBy} :
       new = [old EXCEPT !.status = "ISSUED", !.approvedBy = u,
                         !.contentHash = SubmittedClaims(old)]

CloseMove(old, new) ==
  \/ /\ old.status = "PENDING_APPROVAL"
     /\ \E to \in {"RETURNED", "REJECTED"} : new = [old EXCEPT !.status = to]
  \/ /\ old.status \in {"DRAFT", "RETURNED"}
     /\ new = [old EXCEPT !.status = "CANCELLED"]

RevokeMove(old, new) ==
  old.status = "ISSUED" /\ new = [old EXCEPT !.status = "REVOKED"]

SupersedeMove(old, new) ==
  /\ old.status = "ISSUED"
  /\ \E r \in Credential :
       new = [old EXCEPT !.status = "SUPERSEDED", !.supersededBy = r]

RowMove(old, new) ==
  \/ new = old
  \/ DraftMove(old, new)
  \/ EditMove(old, new)
  \/ SubmitMove(old, new)
  \/ IssueMove(old, new)
  \/ CloseMove(old, new)
  \/ RevokeMove(old, new)
  \/ SupersedeMove(old, new)

\* The transition table, read backwards for each status that code moves to.
LEMMA TransitionSources ==
  /\ \A s : CanTransition(s, "PENDING_APPROVAL") <=> s \in {"DRAFT", "RETURNED"}
  /\ \A s : CanTransition(s, "APPROVED") <=> s = "PENDING_APPROVAL"
  /\ \A s : CanTransition(s, "RETURNED") <=> s = "PENDING_APPROVAL"
  /\ \A s : CanTransition(s, "REJECTED") <=> s = "PENDING_APPROVAL"
  /\ \A s : CanTransition(s, "CANCELLED") <=> s \in {"DRAFT", "RETURNED"}
  /\ \A s : CanTransition(s, "REVOCATION_PENDING") <=> s = "ISSUED"
BY DEF CanTransition, LIFECYCLE_TRANSITIONS

\* Every step of the workflow is a RowMove of every credential.
LEMMA RowMoves ==
  ASSUME TypeOK, \A k \in Case : CaseOK(cases[k]), Next,
         NEW x \in Credential
  PROVE  RowMove(credentials[x], credentials'[x])
<1> USE DEF TypeOK, RowMove
<1>1. ASSUME NEW u \in Staff, NEW c \in Credential, NEW v \in Claims,
             CreateDraft(u, c, v) \/ EditDraft(u, c, v)
      PROVE  RowMove(credentials[x], credentials'[x])
  BY <1>1 DEF CreateDraft, EditDraft, DraftMove, EditMove
<1>2. ASSUME NEW u \in Staff, NEW c \in Credential, SubmitCredential(u, c)
      PROVE  RowMove(credentials[x], credentials'[x])
  BY <1>2, TransitionSources DEF SubmitCredential, SubmitMove
<1>3. ASSUME NEW u \in Staff, NEW c \in Credential, ApproveCredential(u, c)
      PROVE  RowMove(credentials[x], credentials'[x])
  <2>1. CASE x = c
    BY <1>3, <2>1, TransitionSources
       DEF ApproveCredential, IssueWithinTransaction, IssueMove
  <2>2. CASE x # c /\ x \in Superseded(c)
    BY <1>3, <2>2
       DEF ApproveCredential, IssueWithinTransaction, Superseded, SupersedeMove
  <2>3. CASE x # c /\ x \notin Superseded(c)
    BY <1>3, <2>3 DEF ApproveCredential, IssueWithinTransaction
  <2> QED
    BY <2>1, <2>2, <2>3
<1>4. ASSUME NEW u \in Staff, NEW c \in Credential,
             ReturnCredential(u, c) \/ RejectCredential(u, c)
      PROVE  RowMove(credentials[x], credentials'[x])
  BY <1>4, TransitionSources
     DEF ReturnCredential, RejectCredential, ReviewCredential, CloseMove
<1>5. ASSUME NEW u \in Staff, NEW c \in Credential, CancelCredential(u, c)
      PROVE  RowMove(credentials[x], credentials'[x])
  BY <1>5, TransitionSources DEF CancelCredential, CloseMove
<1>6. ASSUME NEW u \in Staff, NEW k \in Case, ApproveRevocation(u, k)
      PROVE  RowMove(credentials[x], credentials'[x])
  BY <1>6, TransitionSources DEF ApproveRevocation, RevokeMove
<1>7. ASSUME NEW u \in Staff, NEW k \in Case, NEW r \in Credential,
             ApproveReplacement(u, k, r)
      PROVE  RowMove(credentials[x], credentials'[x])
  <2>1. cases[k] \in CaseRow /\ Issued(cases[k].credential)
    BY <1>7, PresentRows DEF ApproveReplacement, MayDecide, CaseOK
  <2>2. cases[k].credential \in Credential
    BY <2>1 DEF CaseRow
  <2>3. credentials[cases[k].credential].claims \in Claims
    BY <2>1, <2>2, PresentRows DEF Issued, CredentialRow, NoCredentialRow
  <2> QED
    BY <1>7, <2>3 DEF ApproveReplacement, DraftMove
<1>8. ASSUME UNCHANGED credentials PROVE RowMove(credentials[x], credentials'[x])
  BY <1>8
<1> QED
  BY <1>1, <1>2, <1>3, <1>4, <1>5, <1>6, <1>7, <1>8
     DEF Next, CredentialNext, CaseNext, CheckCase, OpenCase, RejectCase

\* A move keeps a row well-formed and its columns in agreement.
LEMMA RowMoveKeepsRow ==
  ASSUME NEW old \in CredentialRow \cup {NoCredentialRow}, NEW new,
         RowOK(old), RowMove(old, new)
  PROVE  new \in CredentialRow \cup {NoCredentialRow} /\ RowOK(new)
<1> USE DEF CredentialRow, CredentialLifecycle, RowOK
<1>1. CASE new = old
  BY <1>1
<1>2. CASE DraftMove(old, new)
  BY <1>2, DraftRowType DEF DraftMove, DraftRow
<1>3. old.status # "ABSENT" => old \in CredentialRow
  BY DEF NoCredentialRow
<1>4. CASE EditMove(old, new)
  BY <1>3, <1>4 DEF EditMove
<1>5. CASE SubmitMove(old, new)
  BY <1>3, <1>5, RolesAssumption DEF SubmitMove
<1>6. CASE IssueMove(old, new)
  <2>1. /\ old \in CredentialRow /\ old.claims \in Claims
        /\ old.snapshot = old.claims /\ old.submittedBy \in Operators
    BY <1>3, <1>6 DEF IssueMove
  <2>2. SubmittedClaims(old) = old.claims
    BY <2>1, NullAssumption DEF SubmittedClaims
  <2>3. PICK u \in Approvers \ {old.submittedBy} :
          new = [old EXCEPT !.status = "ISSUED", !.approvedBy = u,
                            !.contentHash = old.claims]
    BY <1>6, <2>2 DEF IssueMove
  <2>4. new \in CredentialRow
    BY <2>1, <2>3, RolesAssumption
  <2> QED
    BY <1>6, <2>1, <2>3, <2>4, NullAssumption DEF IssueMove
<1>7. CASE CloseMove(old, new)
  BY <1>3, <1>7 DEF CloseMove
<1>8. CASE RevokeMove(old, new)
  BY <1>3, <1>8 DEF RevokeMove
<1>9. CASE SupersedeMove(old, new)
  BY <1>3, <1>9, NullAssumption DEF SupersedeMove
<1> QED
  BY <1>1, <1>2, <1>4, <1>5, <1>6, <1>7, <1>8, <1>9 DEF RowMove

\* Once a row carries a content hash, a move touches its status only, once.
LEMMA RowMoveKeepsIssued ==
  ASSUME NEW old \in CredentialRow, NEW new,
         RowOK(old), RowMove(old, new), old.contentHash # NULL
  PROVE  /\ new = old \/ RevokeMove(old, new) \/ SupersedeMove(old, new)
         /\ new = [old EXCEPT !.status = new.status, !.supersededBy = new.supersededBy]
<1>1. new = old \/ RevokeMove(old, new) \/ SupersedeMove(old, new)
  BY DEF RowMove, DraftMove, EditMove, SubmitMove, IssueMove, CloseMove, RowOK
<1>2. CASE new = old
  BY <1>2 DEF CredentialRow
<1>3. CASE RevokeMove(old, new)
  BY <1>3 DEF RevokeMove, CredentialRow
<1>4. CASE SupersedeMove(old, new)
  BY <1>4 DEF SupersedeMove, CredentialRow
<1> QED
  BY <1>1, <1>2, <1>3, <1>4

-------------------------------------------------------------------------------
(* What a step does to the tables as a whole.                              *)

LEMMA TablesStayFunctions ==
  ASSUME TypeOK, Next
  PROVE  /\ credentials' = [x \in Credential |-> credentials'[x]]
         /\ cases' = [k \in Case |-> cases'[k]]
BY DEF TypeOK, Next, CredentialNext, CaseNext, CreateDraft, EditDraft,
       SubmitCredential, ApproveCredential, IssueWithinTransaction,
       ReturnCredential, RejectCredential, ReviewCredential, CancelCredential,
       CheckCase, OpenCase, ApproveRevocation, ApproveReplacement, RejectCase

\* Rows are never deleted, and an issued diploma stays issued.
LEMMA RowsPersist ==
  ASSUME IndInv, Next, NEW x \in Credential
  PROVE  /\ credentials[x].status # "ABSENT" => credentials'[x].status # "ABSENT"
         /\ credentials[x].contentHash # NULL => credentials'[x].contentHash # NULL
<1>1. /\ TypeOK
      /\ RowOK(credentials[x])
      /\ RowMove(credentials[x], credentials'[x])
  BY RowMoves DEF IndInv
<1>2. credentials[x].contentHash # NULL => credentials[x].status # "ABSENT"
  BY <1>1 DEF RowOK
<1>3. CASE credentials[x].status # "ABSENT"
  <2>1. credentials[x] \in CredentialRow
    BY <1>1, <1>3, PresentRows
  <2>2. credentials[x].contentHash # NULL => credentials'[x].contentHash # NULL
    BY <1>1, <2>1, RowMoveKeepsIssued DEF CredentialRow
  <2>3. credentials'[x].status # "ABSENT"
    BY <1>1, <1>3, <2>1
       DEF RowMove, DraftMove, EditMove, SubmitMove, IssueMove, CloseMove,
           RevokeMove, SupersedeMove, CredentialRow
  <2> QED
    BY <2>2, <2>3
<1> QED
  BY <1>2, <1>3

LEMMA TypeStep ==
  ASSUME IndInv, Next PROVE TypeOK' /\ \A c \in Credential : RowOK(credentials'[c])
<1> USE DEF IndInv
<1>1. ASSUME NEW x \in Credential
      PROVE  /\ credentials'[x] \in CredentialRow \cup {NoCredentialRow}
             /\ RowOK(credentials'[x])
  <2>1. RowMove(credentials[x], credentials'[x])
    BY RowMoves
  <2>2. credentials[x] \in CredentialRow \cup {NoCredentialRow} /\ RowOK(credentials[x])
    BY DEF TypeOK
  <2> QED
    BY <2>1, <2>2, RowMoveKeepsRow
<1>2. ASSUME NEW l \in Case PROVE cases'[l] \in CaseRow \cup {NoCaseRow}
  <2>1. cases[l] \in CaseRow \cup {NoCaseRow}
    BY DEF TypeOK
  <2>2. cases[l].status # "ABSENT" => cases[l] \in CaseRow
    BY PresentRows
  <2>3. ASSUME NEW u \in Staff, NEW k \in Case, NEW c \in Credential,
               NEW type \in LifecycleCaseType, CheckCase(u, k, c, type)
        PROVE  cases'[l] \in CaseRow \cup {NoCaseRow}
    BY <2>1, <2>3 DEF CheckCase, CaseRow, TypeOK
  <2>4. ASSUME NEW k \in Case, OpenCase(k)
        PROVE  cases'[l] \in CaseRow \cup {NoCaseRow}
    BY <2>1, <2>2, <2>4 DEF OpenCase, CaseRow, LifecycleCaseStatus, TypeOK
  <2>5. ASSUME NEW u \in Staff, NEW k \in Case, ApproveRevocation(u, k)
        PROVE  cases'[l] \in CaseRow \cup {NoCaseRow}
    BY <2>1, <2>2, <2>5
       DEF ApproveRevocation, MayDecide, CaseRow, LifecycleCaseStatus, TypeOK
  <2>8. ASSUME NEW u \in Staff, NEW k \in Case, NEW r \in Credential,
               ApproveReplacement(u, k, r)
        PROVE  cases'[l] \in CaseRow \cup {NoCaseRow}
    BY <2>1, <2>2, <2>8
       DEF ApproveReplacement, MayDecide, CaseRow, LifecycleCaseStatus, TypeOK
  <2>9. ASSUME NEW u \in Staff, NEW k \in Case, RejectCase(u, k)
        PROVE  cases'[l] \in CaseRow \cup {NoCaseRow}
    BY <2>1, <2>2, <2>9
       DEF RejectCase, MayDecide, CaseRow, LifecycleCaseStatus, TypeOK
  <2>6. ASSUME NEW u \in Staff, NEW c \in Credential, ApproveCredential(u, c)
        PROVE  cases'[l] \in CaseRow \cup {NoCaseRow}
    BY <2>1, <2>2, <2>6
       DEF ApproveCredential, IssueWithinTransaction, LinkedCases, CaseRow,
           LifecycleCaseStatus
  <2>7. ASSUME UNCHANGED cases PROVE cases'[l] \in CaseRow \cup {NoCaseRow}
    BY <2>1, <2>7
  <2> QED
    BY <2>3, <2>4, <2>5, <2>6, <2>7, <2>8, <2>9
       DEF Next, CredentialNext, CaseNext, CreateDraft, EditDraft, SubmitCredential,
           ReturnCredential, RejectCredential, ReviewCredential, CancelCredential
<1> QED
  BY <1>1, <1>2, TablesStayFunctions DEF TypeOK
-------------------------------------------------------------------------------
(* The invariants that relate rows.                                        *)

\* What deciding a case relies on.
LEMMA OpenCase_Facts ==
  ASSUME IndInv, NEW u, NEW k \in Case, MayDecide(u, k)
  PROVE  /\ cases[k] \in CaseRow
         /\ cases[k].credential \in Credential
         /\ credentials[cases[k].credential] \in CredentialRow
         /\ Issued(cases[k].credential)
         /\ cases[k].replacement = NULL
         /\ cases[k].decidedBy = NULL
<1>1. TypeOK /\ CaseOK(cases[k]) /\ cases[k].status = "OPEN"
  BY DEF IndInv, MayDecide
<1>2. cases[k] \in CaseRow
  BY <1>1, PresentRows
<1>3. cases[k].credential \in Credential /\ Issued(cases[k].credential)
  BY <1>1, <1>2 DEF CaseRow, CaseOK
<1>4. credentials[cases[k].credential] \in CredentialRow
  BY <1>1, <1>3 DEF Issued, TypeOK, NoCredentialRow
<1> QED
  BY <1>1, <1>2, <1>3, <1>4 DEF CaseOK

LEMMA CaseOKStep ==
  ASSUME IndInv, Next, NEW l \in Case PROVE CaseOK(cases[l])'
<1> USE DEF IndInv
<1>1. /\ cases[l] \in CaseRow \cup {NoCaseRow}
      /\ CaseOK(cases[l])
  BY DEF TypeOK
<1>2. cases[l].status # "ABSENT" =>
        /\ cases[l] \in CaseRow
        /\ credentials'[cases[l].credential].contentHash # NULL
        /\ cases[l].replacement # NULL =>
             credentials'[cases[l].replacement].status # "ABSENT"
  <2>1. cases[l].status # "ABSENT" => cases[l] \in CaseRow
    BY PresentRows
  <2>2. ASSUME cases[l].status # "ABSENT"
        PROVE  credentials'[cases[l].credential].contentHash # NULL
    BY <1>1, <2>1, <2>2, RowsPersist DEF CaseOK, Issued, CaseRow
  <2>3. ASSUME cases[l].status # "ABSENT", cases[l].replacement # NULL
        PROVE  credentials'[cases[l].replacement].status # "ABSENT"
    BY <1>1, <2>1, <2>3, RowsPersist DEF CaseOK, CaseRow
  <2> QED
    BY <2>1, <2>2, <2>3
<1>3. ASSUME cases'[l] = cases[l] PROVE CaseOK(cases[l])'
  BY <1>1, <1>2, <1>3 DEF CaseOK, Issued
<1>4. ASSUME NEW u \in Staff, NEW k \in Case, NEW c \in Credential,
             NEW type \in LifecycleCaseType, CheckCase(u, k, c, type)
      PROVE  CaseOK(cases[l])'
  <2>1. CASE l = k
    <3>1. cases'[l] = [status |-> "CHECKED", caseType |-> type, credential |-> c,
                       requestedBy |-> u, decidedBy |-> NULL, replacement |-> NULL]
      BY <1>4, <2>1 DEF CheckCase, TypeOK
    <3>2. credentials'[c].contentHash # NULL
      BY <1>4 DEF CheckCase, RowOK
    <3> QED
      BY <3>1, <3>2, NullAssumption DEF CaseOK, Issued
  <2> QED
    BY <1>3, <1>4, <2>1 DEF CheckCase, TypeOK
<1>5. ASSUME NEW k \in Case, OpenCase(k) PROVE CaseOK(cases[l])'
  <2>1. CASE l = k
    BY <1>1, <1>2, <1>5, <2>1 DEF OpenCase, CaseOK, Issued, CaseRow, TypeOK
  <2> QED
    BY <1>3, <1>5, <2>1 DEF OpenCase, TypeOK
<1>6. ASSUME NEW u \in Staff, NEW k \in Case, ApproveRevocation(u, k)
      PROVE  CaseOK(cases[l])'
  <2>1. CASE l = k
    BY <1>1, <1>2, <1>6, <2>1, OpenCase_Facts, NullAssumption
       DEF ApproveRevocation, MayDecide, CaseOK, Issued, CaseRow, TypeOK
  <2> QED
    BY <1>3, <1>6, <2>1 DEF ApproveRevocation, TypeOK
<1>7. ASSUME NEW u \in Staff, NEW k \in Case, NEW r \in Credential,
             ApproveReplacement(u, k, r)
      PROVE  CaseOK(cases[l])'
  <2>1. CASE l = k
    <3>1. /\ cases[k] \in CaseRow
          /\ cases[k].caseType # "REVOKE"
          /\ cases[k].requestedBy # u
      BY <1>7, OpenCase_Facts DEF ApproveReplacement, MayDecide
    <3>2. cases'[l] = [cases[k] EXCEPT !.status = "APPROVED", !.decidedBy = u,
                                       !.replacement = r]
      BY <1>7, <2>1 DEF ApproveReplacement, TypeOK
    <3>3. credentials'[r].status # "ABSENT"
      BY <1>7 DEF ApproveReplacement, TypeOK, DraftRow
    <3>4. r # cases[k].credential
      BY <1>7, OpenCase_Facts DEF ApproveReplacement, Issued, RowOK
    <3>5. credentials'[cases[k].credential].contentHash # NULL
      BY <1>2, <1>7, <2>1 DEF ApproveReplacement, MayDecide
    <3>6. /\ cases'[l].credential = cases[k].credential
          /\ cases'[l].caseType = cases[k].caseType
          /\ cases'[l].requestedBy = cases[k].requestedBy
          /\ cases'[l].status = "APPROVED"
          /\ cases'[l].decidedBy = u
          /\ cases'[l].replacement = r
      BY <3>1, <3>2 DEF CaseRow
    <3> QED
      BY <3>1, <3>3, <3>4, <3>5, <3>6, NullAssumption DEF CaseOK, Issued
  <2> QED
    BY <1>3, <1>7, <2>1 DEF ApproveReplacement, TypeOK
<1>8. ASSUME NEW u \in Staff, NEW k \in Case, RejectCase(u, k)
      PROVE  CaseOK(cases[l])'
  <2>1. CASE l = k
    BY <1>1, <1>2, <1>8, <2>1, OpenCase_Facts, NullAssumption
       DEF RejectCase, MayDecide, CaseOK, Issued, CaseRow, TypeOK
  <2> QED
    BY <1>3, <1>8, <2>1 DEF RejectCase, TypeOK
<1>9. ASSUME NEW u \in Staff, NEW c \in Credential, ApproveCredential(u, c)
      PROVE  CaseOK(cases[l])'
  <2>1. CASE l \in LinkedCases(c)
    <3>1. cases'[l] = [cases[l] EXCEPT !.status = "COMPLETED"]
      BY <1>9, <2>1 DEF ApproveCredential, IssueWithinTransaction
    <3>2. cases[l].status = "APPROVED"
      BY <2>1 DEF LinkedCases
    <3> QED
      BY <1>1, <1>2, <3>1, <3>2 DEF CaseOK, CaseRow, Issued
  <2> QED
    BY <1>3, <1>9, <2>1 DEF ApproveCredential, IssueWithinTransaction
<1>10. ASSUME UNCHANGED cases PROVE CaseOK(cases[l])'
  BY <1>3, <1>10
<1> QED
  BY <1>4, <1>5, <1>6, <1>7, <1>8, <1>9, <1>10
     DEF Next, CredentialNext, CaseNext, CreateDraft, EditDraft, SubmitCredential,
         ReturnCredential, RejectCredential, ReviewCredential, CancelCredential
\* A completed case is final.
LEMMA CompletedStays ==
  ASSUME IndInv, Next, NEW l \in Case, cases[l].status = "COMPLETED"
  PROVE  cases'[l] = cases[l]
BY DEF IndInv, TypeOK, Next, CredentialNext, CaseNext, CreateDraft, EditDraft,
       SubmitCredential, ApproveCredential, IssueWithinTransaction, LinkedCases,
       ReturnCredential, RejectCredential, ReviewCredential, CancelCredential,
       CheckCase, OpenCase, ApproveRevocation, ApproveReplacement, RejectCase,
       MayDecide

LEMMA RevocationStep == ASSUME IndInv, Next PROVE RevocationIsDecided'
<1> USE DEF IndInv
<1> SUFFICES ASSUME NEW c \in Credential
    PROVE  /\ credentials'[c].status = "REVOKED" <=> Revocations(c)' # {}
           /\ \A k, l \in Revocations(c)' : k = l
           /\ \A k \in Revocations(c)' : cases'[k].requestedBy # cases'[k].decidedBy
  BY DEF RevocationIsDecided, Revocations
<1>1. ASSUME NEW u \in Staff, NEW k \in Case, ApproveRevocation(u, k),
             cases[k].credential = c
      PROVE  /\ credentials'[c].status = "REVOKED"
             /\ Revocations(c)' = {k}
             /\ cases'[k].requestedBy # cases'[k].decidedBy
  <2>1. cases[k] \in CaseRow /\ credentials[c] \in CredentialRow
    BY <1>1, OpenCase_Facts DEF ApproveRevocation
  <2>2. credentials[c].status = "ISSUED"
    BY <1>1, TransitionSources DEF ApproveRevocation
  <2>3. Revocations(c) = {}
    BY <2>2 DEF RevocationIsDecided
  <2>4. cases' = [cases EXCEPT ![k] = [cases[k] EXCEPT !.status = "COMPLETED",
                                                      !.decidedBy = u]]
    BY <1>1 DEF ApproveRevocation
  <2>5. /\ cases'[k].status = "COMPLETED"
        /\ cases'[k].caseType = "REVOKE"
        /\ cases'[k].credential = c
        /\ cases'[k].decidedBy = u
        /\ cases'[k].requestedBy = cases[k].requestedBy
    BY <1>1, <2>1, <2>4 DEF ApproveRevocation, CaseRow, TypeOK
  <2>6. \A l \in Case \ {k} : cases'[l] = cases[l]
    BY <2>4 DEF TypeOK
  <2>7. Revocations(c)' = {k}
    BY <2>3, <2>5, <2>6 DEF Revocations
  <2> QED
    BY <1>1, <2>1, <2>5, <2>7 DEF ApproveRevocation, MayDecide, TypeOK, CredentialRow
<1> DEFINE Counts(row) == /\ row.status = "COMPLETED"
                          /\ row.caseType = "REVOKE"
                          /\ row.credential = c
           Same == /\ \A l \in Case : \/ cases'[l] = cases[l]
                                      \/ ~Counts(cases[l]) /\ ~Counts(cases'[l])
                   /\ credentials'[c].status = "REVOKED" <=> credentials[c].status = "REVOKED"
<1>2. ASSUME Same
      PROVE  /\ credentials'[c].status = "REVOKED" <=> Revocations(c)' # {}
             /\ \A k, l \in Revocations(c)' : k = l
             /\ \A k \in Revocations(c)' : cases'[k].requestedBy # cases'[k].decidedBy
  <2>1. Revocations(c)' = Revocations(c)
    BY <1>2 DEF Revocations
  <2>2. \A k \in Revocations(c) : cases'[k] = cases[k]
    BY <1>2 DEF Revocations
  <2> QED
    BY <1>2, <2>1, <2>2 DEF RevocationIsDecided
<1>3. ASSUME NEW u \in Staff, NEW k \in Case, ApproveRevocation(u, k),
             cases[k].credential # c
      PROVE  Same
  BY <1>3, OpenCase_Facts DEF ApproveRevocation, TypeOK, CaseRow
<1>4. ASSUME NEW u \in Staff, NEW x \in Credential, ApproveCredential(u, x)
      PROVE  Same
  <2>1. ASSUME NEW l \in LinkedCases(x)
        PROVE  cases[l].status # "COMPLETED" /\ cases'[l].caseType # "REVOKE"
    <3>1. cases[l] \in CaseRow /\ cases[l].caseType # "REVOKE" /\ cases[l].status = "APPROVED"
      BY PresentRows DEF LinkedCases, CaseOK
    <3>2. cases'[l] = [cases[l] EXCEPT !.status = "COMPLETED"]
      BY <1>4, <2>1 DEF ApproveCredential, IssueWithinTransaction, LinkedCases
    <3> QED
      BY <3>1, <3>2 DEF CaseRow
  <2>2. \A l \in Case \ LinkedCases(x) : cases'[l] = cases[l]
    BY <1>4 DEF ApproveCredential, IssueWithinTransaction
  <2>3. credentials[x].status = "PENDING_APPROVAL"
    BY <1>4, TransitionSources DEF ApproveCredential
  <2>4. credentials'[c].status = "REVOKED" <=> credentials[c].status = "REVOKED"
    <3>1. CASE c = x
      BY <1>4, <2>3, <3>1, PresentRows
         DEF ApproveCredential, IssueWithinTransaction, CredentialRow
    <3>2. CASE c # x /\ c \in Superseded(x)
      <4>1. credentials[c] \in CredentialRow /\ credentials[c].status = "ISSUED"
        BY <3>2, PresentRows DEF Superseded
      <4> QED
        BY <1>4, <3>2, <4>1 DEF ApproveCredential, IssueWithinTransaction, CredentialRow
    <3>3. CASE c # x /\ c \notin Superseded(x)
      BY <1>4, <3>3 DEF ApproveCredential, IssueWithinTransaction
    <3> QED
      BY <3>1, <3>2, <3>3
  <2> QED
    BY <2>1, <2>2, <2>4
<1>5. ASSUME NEW u \in Staff, NEW x \in Credential, NEW v \in Claims,
             CreateDraft(u, x, v) \/ EditDraft(u, x, v)
      PROVE  Same
  BY <1>5, PresentRows DEF CreateDraft, EditDraft, DraftRow, CredentialRow, TypeOK
<1>6. ASSUME NEW u \in Staff, NEW x \in Credential,
             \/ SubmitCredential(u, x) \/ CancelCredential(u, x)
             \/ ReturnCredential(u, x) \/ RejectCredential(u, x)
      PROVE  Same
  <2>1. credentials[x] \in CredentialRow /\ credentials[x].status # "REVOKED"
    BY <1>6, PresentRows, TransitionSources
       DEF SubmitCredential, CancelCredential, ReturnCredential, RejectCredential,
           ReviewCredential
  <2> QED
    BY <1>6, <2>1
       DEF SubmitCredential, CancelCredential, ReturnCredential, RejectCredential,
           ReviewCredential, CredentialRow, TypeOK
<1>7. ASSUME NEW k \in Case, NEW u \in Staff, NEW x \in Credential,
             NEW type \in LifecycleCaseType, CheckCase(u, k, x, type)
      PROVE  Same
  BY <1>7 DEF CheckCase, TypeOK
<1>12. ASSUME NEW k \in Case, NEW u \in Staff, RejectCase(u, k) PROVE Same
  BY <1>12, PresentRows DEF RejectCase, MayDecide, TypeOK, CaseRow
<1>8. ASSUME NEW u \in Staff, NEW k \in Case, NEW r \in Credential,
             ApproveReplacement(u, k, r)
      PROVE  Same
  BY <1>8, PresentRows DEF ApproveReplacement, MayDecide, TypeOK, CaseRow, DraftRow
<1>9. ASSUME NEW k \in Case, OpenCase(k)
      PROVE  Same
  BY <1>9, PresentRows DEF OpenCase, TypeOK, CaseRow
<1>10. CASE \E u \in Staff, k \in Case : ApproveRevocation(u, k) /\ cases[k].credential = c
  BY <1>1, <1>10
<1>11. CASE ~\E u \in Staff, k \in Case : ApproveRevocation(u, k) /\ cases[k].credential = c
  <2> HIDE DEF Same
  <2>1. Same
    BY <1>3, <1>4, <1>5, <1>6, <1>7, <1>8, <1>9, <1>11, <1>12 DEF Next, CredentialNext, CaseNext
  <2> QED
    BY <1>2, <2>1
<1> QED
  BY <1>10, <1>11

\* A diploma gets a successor only when that successor is approved.
LEMMA SuccessorAppears ==
  ASSUME IndInv, Next, NEW c \in Credential,
         credentials[c].supersededBy = NULL, credentials'[c].supersededBy # NULL
  PROVE  \E u \in Staff, x \in Credential :
           ApproveCredential(u, x) /\ c # x /\ c \in Superseded(x)
<1> USE DEF IndInv
<1> DEFINE Same == credentials'[c].supersededBy = credentials[c].supersededBy
<1>1. ASSUME NEW u \in Staff, NEW x \in Credential, NEW v \in Claims,
             CreateDraft(u, x, v) \/ EditDraft(u, x, v)
      PROVE  Same
  BY <1>1, PresentRows DEF CreateDraft, EditDraft, DraftRow, CredentialRow, TypeOK
<1>2. ASSUME NEW u \in Staff, NEW x \in Credential, SubmitCredential(u, x)
      PROVE  Same
  <2>1. credentials[x] \in CredentialRow
    BY <1>2, PresentRows, TransitionSources DEF SubmitCredential
  <2> QED
    BY <1>2, <2>1 DEF SubmitCredential, CredentialRow, TypeOK
<1>8. ASSUME NEW u \in Staff, NEW x \in Credential,
             \/ CancelCredential(u, x)
             \/ ReturnCredential(u, x) \/ RejectCredential(u, x)
      PROVE  Same
  <2>1. \E s : credentials' = [credentials EXCEPT ![x].status = s]
    BY <1>8 DEF CancelCredential, ReturnCredential, RejectCredential, ReviewCredential
  <2> QED
    BY <2>1 DEF CredentialRow, NoCredentialRow, TypeOK
<1>3. ASSUME NEW u \in Staff, NEW x \in Credential, ApproveCredential(u, x),
             ~(c # x /\ c \in Superseded(x))
      PROVE  Same
  <2>1. credentials[x] \in CredentialRow
    BY <1>3, PresentRows, TransitionSources DEF ApproveCredential
  <2>2. CASE c = x
    BY <1>3, <2>1, <2>2 DEF ApproveCredential, IssueWithinTransaction, CredentialRow
  <2>3. CASE c # x
    BY <1>3, <2>3 DEF ApproveCredential, IssueWithinTransaction
  <2> QED
    BY <2>2, <2>3
<1>4. ASSUME NEW u \in Staff, NEW k \in Case, ApproveRevocation(u, k)
      PROVE  Same
  BY <1>4, OpenCase_Facts DEF ApproveRevocation, TypeOK, CredentialRow
<1>5. ASSUME NEW u \in Staff, NEW k \in Case, NEW r \in Credential,
             ApproveReplacement(u, k, r)
      PROVE  Same
  BY <1>5 DEF ApproveReplacement, DraftRow, TypeOK
<1>6. ASSUME UNCHANGED credentials PROVE Same
  BY <1>6
<1>7. ~Same
  OBVIOUS
<1> HIDE DEF Same
<1> QED
  BY <1>1, <1>2, <1>3, <1>4, <1>5, <1>6, <1>7, <1>8
     DEF Next, CredentialNext, CaseNext, CheckCase, OpenCase, RejectCase

LEMMA SupersessionStep == ASSUME IndInv, Next PROVE SupersessionIsLinked'
<1> USE DEF IndInv
<1> SUFFICES ASSUME NEW c \in Credential
    PROVE  /\ credentials'[c].status = "SUPERSEDED" <=> credentials'[c].supersededBy # NULL
           /\ credentials'[c].supersededBy # NULL =>
                /\ credentials'[credentials'[c].supersededBy].contentHash # NULL
                /\ \E k \in Case :
                     /\ cases'[k].status = "COMPLETED"
                     /\ cases'[k].credential = c
                     /\ cases'[k].replacement = credentials'[c].supersededBy
                     /\ cases'[k].requestedBy # cases'[k].decidedBy
  BY DEF SupersessionIsLinked, Issued
<1>1. credentials'[c].status = "SUPERSEDED" <=> credentials'[c].supersededBy # NULL
  BY TypeStep DEF RowOK
<1>2. ASSUME credentials[c].supersededBy # NULL,
             credentials'[c].supersededBy = credentials[c].supersededBy
      PROVE  /\ credentials'[credentials'[c].supersededBy].contentHash # NULL
             /\ \E k \in Case :
                  /\ cases'[k].status = "COMPLETED"
                  /\ cases'[k].credential = c
                  /\ cases'[k].replacement = credentials'[c].supersededBy
                  /\ cases'[k].requestedBy # cases'[k].decidedBy
  <2>1. /\ credentials[c].supersededBy \in Credential
        /\ credentials[credentials[c].supersededBy].contentHash # NULL
    BY <1>2, PresentRows DEF SupersessionIsLinked, Issued, CredentialRow, RowOK
  <2>2. PICK k \in Case : /\ cases[k].status = "COMPLETED"
                          /\ cases[k].credential = c
                          /\ cases[k].replacement = credentials[c].supersededBy
                          /\ cases[k].requestedBy # cases[k].decidedBy
    BY <1>2 DEF SupersessionIsLinked
  <2>3. cases'[k] = cases[k]
    BY <2>2, CompletedStays
  <2> QED
    BY <1>2, <2>1, <2>2, <2>3, RowsPersist
<1>3. ASSUME NEW u \in Staff, NEW x \in Credential, ApproveCredential(u, x),
             c # x, c \in Superseded(x)
      PROVE  /\ credentials'[credentials'[c].supersededBy].contentHash # NULL
             /\ \E k \in Case :
                  /\ cases'[k].status = "COMPLETED"
                  /\ cases'[k].credential = c
                  /\ cases'[k].replacement = credentials'[c].supersededBy
                  /\ cases'[k].requestedBy # cases'[k].decidedBy
  <2>1. credentials[c] \in CredentialRow
    BY <1>3, PresentRows DEF Superseded
  <2>2. credentials'[c].supersededBy = x
    BY <1>3, <2>1 DEF ApproveCredential, IssueWithinTransaction, CredentialRow
  <2>3. /\ credentials[x] \in CredentialRow
        /\ credentials[x].status = "PENDING_APPROVAL"
    BY <1>3, TransitionSources, PresentRows DEF ApproveCredential
  <2>4. SubmittedClaims(credentials[x]) \in Claims
    BY <2>3 DEF SubmittedClaims, CredentialRow
  <2>5. credentials'[x].contentHash # NULL
    BY <1>3, <2>3, <2>4, NullAssumption
       DEF ApproveCredential, IssueWithinTransaction, CredentialRow
  <2>6. PICK k \in LinkedCases(x) : cases[k].credential = c
    BY <1>3 DEF Superseded
  <2>7. /\ cases[k] \in CaseRow
        /\ cases[k].replacement = x
        /\ cases[k].requestedBy # cases[k].decidedBy
    BY PresentRows DEF LinkedCases, CaseOK
  <2>8. cases'[k] = [cases[k] EXCEPT !.status = "COMPLETED"]
    BY <1>3 DEF ApproveCredential, IssueWithinTransaction, LinkedCases
  <2>9. /\ k \in Case
        /\ cases'[k].status = "COMPLETED"
        /\ cases'[k].credential = c
        /\ cases'[k].replacement = x
        /\ cases'[k].requestedBy # cases'[k].decidedBy
    BY <2>6, <2>7, <2>8 DEF CaseRow, LinkedCases
  <2> QED
    BY <2>2, <2>5, <2>9
<1>4. RowMove(credentials[c], credentials'[c]) /\ RowOK(credentials[c])
  BY RowMoves
<1>5. CASE credentials[c].supersededBy # NULL
  <2>1. credentials[c] \in CredentialRow /\ credentials[c].contentHash # NULL
    BY <1>5, PresentRows DEF RowOK
  <2>2. credentials'[c] = credentials[c]
    BY <1>4, <1>5, <2>1, RowMoveKeepsIssued DEF RevokeMove, SupersedeMove, RowOK
  <2> QED
    BY <1>1, <1>2, <1>5, <2>2
<1>6. CASE credentials[c].supersededBy = NULL /\ credentials'[c].supersededBy # NULL
  <2>1. \E u \in Staff, x \in Credential :
          ApproveCredential(u, x) /\ c # x /\ c \in Superseded(x)
    BY <1>6, SuccessorAppears
  <2> QED
    BY <1>1, <1>3, <2>1
<1> QED
  BY <1>1, <1>5, <1>6

\* A case gets its replacement when it is approved, and keeps it.
LEMMA ReplacementMove ==
  ASSUME IndInv, Next, NEW l \in Case, cases'[l].replacement # NULL
  PROVE  \/ \E u \in Staff, r \in Credential : ApproveReplacement(u, l, r)
         \/ /\ cases'[l].replacement = cases[l].replacement
            /\ cases[l].status \in {"APPROVED", "COMPLETED"}
<1> USE DEF IndInv
<1>1. CaseOK(cases[l]) /\ cases[l] \in CaseRow \cup {NoCaseRow}
  BY DEF TypeOK
<1>2. cases[l].status \in {"ABSENT", "CHECKED", "OPEN"} => cases[l].replacement = NULL
  BY <1>1 DEF CaseOK, NoCaseRow, CaseRow, LifecycleCaseStatus
<1>3. cases[l].status # "ABSENT" => cases[l] \in CaseRow
  BY PresentRows
<1> DEFINE Same == /\ cases'[l].replacement = cases[l].replacement
                   /\ cases[l].status \in {"APPROVED", "COMPLETED"}
<1>4. ASSUME NEW k \in Case, NEW u \in Staff, NEW x \in Credential,
             NEW type \in LifecycleCaseType, CheckCase(u, k, x, type)
      PROVE  Same
  BY <1>1, <1>2, <1>4 DEF CheckCase, TypeOK, CaseOK, NoCaseRow
<1>5. ASSUME NEW k \in Case, OpenCase(k) PROVE Same
  BY <1>1, <1>2, <1>3, <1>5 DEF OpenCase, TypeOK, CaseOK, NoCaseRow, CaseRow
<1>6. ASSUME NEW k \in Case, NEW u \in Staff, ApproveRevocation(u, k) PROVE Same
  BY <1>1, <1>2, <1>3, <1>6 DEF ApproveRevocation, MayDecide, TypeOK, CaseOK, NoCaseRow, CaseRow
<1>7. ASSUME NEW k \in Case, NEW u \in Staff, RejectCase(u, k) PROVE Same
  BY <1>1, <1>2, <1>3, <1>7 DEF RejectCase, MayDecide, TypeOK, CaseOK, NoCaseRow, CaseRow
<1>8. ASSUME NEW k \in Case, NEW u \in Staff, NEW r \in Credential,
             ApproveReplacement(u, k, r), k # l
      PROVE  Same
  BY <1>1, <1>2, <1>3, <1>8 DEF ApproveReplacement, TypeOK, CaseOK, NoCaseRow, CaseRow
<1>9. ASSUME NEW u \in Staff, NEW x \in Credential, ApproveCredential(u, x) PROVE Same
  BY <1>1, <1>2, <1>3, <1>9
     DEF ApproveCredential, IssueWithinTransaction, LinkedCases, TypeOK, CaseOK,
         NoCaseRow, CaseRow
<1>10. ASSUME UNCHANGED cases PROVE Same
  BY <1>1, <1>2, <1>10 DEF CaseOK, NoCaseRow
<1> HIDE DEF Same
<1>11. Same \/ \E u \in Staff, r \in Credential : ApproveReplacement(u, l, r)
  BY <1>4, <1>5, <1>6, <1>7, <1>8, <1>9, <1>10
     DEF Next, CredentialNext, CaseNext, CreateDraft, EditDraft, SubmitCredential,
         ReturnCredential, RejectCredential, ReviewCredential, CancelCredential
<1> QED
  BY <1>11 DEF Same

\* A diploma is issued by its approval, which completes the cases it answers.
LEMMA IssuedByApproval ==
  ASSUME IndInv, Next, NEW c \in Credential,
         credentials[c].contentHash = NULL, credentials'[c].contentHash # NULL
  PROVE  \E u \in Staff : ApproveCredential(u, c)
<1> USE DEF IndInv
<1> DEFINE Same == credentials'[c].contentHash = credentials[c].contentHash
<1>1. ASSUME NEW u \in Staff, NEW x \in Credential, NEW v \in Claims,
             CreateDraft(u, x, v) \/ EditDraft(u, x, v)
      PROVE  Same
  BY <1>1, PresentRows DEF CreateDraft, EditDraft, DraftRow, CredentialRow, TypeOK
<1>2. ASSUME NEW u \in Staff, NEW x \in Credential, SubmitCredential(u, x)
      PROVE  Same
  <2>1. credentials[x] \in CredentialRow
    BY <1>2, PresentRows, TransitionSources DEF SubmitCredential
  <2> QED
    BY <1>2, <2>1 DEF SubmitCredential, CredentialRow, TypeOK
<1>8. ASSUME NEW u \in Staff, NEW x \in Credential,
             \/ CancelCredential(u, x)
             \/ ReturnCredential(u, x) \/ RejectCredential(u, x)
      PROVE  Same
  <2>1. \E s : credentials' = [credentials EXCEPT ![x].status = s]
    BY <1>8 DEF CancelCredential, ReturnCredential, RejectCredential, ReviewCredential
  <2> QED
    BY <2>1 DEF CredentialRow, NoCredentialRow, TypeOK
<1>3. ASSUME NEW u \in Staff, NEW x \in Credential, ApproveCredential(u, x), x # c
      PROVE  Same
  <2>1. CASE c \in Superseded(x)
    <3>1. credentials[c] \in CredentialRow
      BY <2>1, PresentRows DEF Superseded
    <3> QED
      BY <1>3, <2>1, <3>1 DEF ApproveCredential, IssueWithinTransaction, CredentialRow
  <2>2. CASE c \notin Superseded(x)
    BY <1>3, <2>2 DEF ApproveCredential, IssueWithinTransaction
  <2> QED
    BY <2>1, <2>2
<1>4. ASSUME NEW u \in Staff, NEW k \in Case, ApproveRevocation(u, k)
      PROVE  Same
  BY <1>4, OpenCase_Facts DEF ApproveRevocation, TypeOK, CredentialRow
<1>5. ASSUME NEW u \in Staff, NEW k \in Case, NEW r \in Credential,
             ApproveReplacement(u, k, r)
      PROVE  Same
  BY <1>5 DEF ApproveReplacement, DraftRow, TypeOK
<1>6. ASSUME UNCHANGED credentials PROVE Same
  BY <1>6
<1>7. ~Same
  OBVIOUS
<1> HIDE DEF Same
<1> QED
  BY <1>1, <1>2, <1>3, <1>4, <1>5, <1>6, <1>7, <1>8
     DEF Next, CredentialNext, CaseNext, CheckCase, OpenCase, RejectCase

\* An approved case waits for its replacement.
LEMMA ApprovedCaseWaits ==
  ASSUME IndInv, Next, NEW l \in Case, cases[l].status = "APPROVED",
         ~\E u \in Staff : ApproveCredential(u, cases[l].replacement)
  PROVE  cases'[l].status # "COMPLETED"
<1> USE DEF IndInv, TypeOK
<1> DEFINE Same == cases'[l].status # "COMPLETED"
<1>1. ASSUME NEW k \in Case, NEW u \in Staff, NEW x \in Credential,
             NEW type \in LifecycleCaseType, CheckCase(u, k, x, type)
      PROVE  Same
  BY <1>1 DEF CheckCase
<1>2. ASSUME NEW k \in Case, OpenCase(k) PROVE Same
  BY <1>2 DEF OpenCase
<1>3. ASSUME NEW k \in Case, NEW u \in Staff, ApproveRevocation(u, k) PROVE Same
  BY <1>3 DEF ApproveRevocation, MayDecide
<1>4. ASSUME NEW k \in Case, NEW u \in Staff, NEW r \in Credential,
             ApproveReplacement(u, k, r)
      PROVE  Same
  BY <1>4 DEF ApproveReplacement, MayDecide
<1>5. ASSUME NEW k \in Case, NEW u \in Staff, RejectCase(u, k) PROVE Same
  BY <1>5 DEF RejectCase, MayDecide
<1>6. ASSUME NEW u \in Staff, NEW x \in Credential, ApproveCredential(u, x)
      PROVE  Same
  BY <1>6 DEF ApproveCredential, IssueWithinTransaction, LinkedCases
<1>7. ASSUME UNCHANGED cases PROVE Same
  BY <1>7
<1> HIDE DEF Same
<1>8. Same
  BY <1>1, <1>2, <1>3, <1>4, <1>5, <1>6, <1>7
     DEF Next, CredentialNext, CaseNext, CreateDraft, EditDraft, SubmitCredential,
         ReturnCredential, RejectCredential, ReviewCredential, CancelCredential
<1> QED
  BY <1>8 DEF Same

LEMMA CaseFollowsReplacementStep ==
  ASSUME IndInv, Next PROVE CaseFollowsReplacement'
<1> USE DEF IndInv
<1> SUFFICES ASSUME NEW k \in Case, cases'[k].replacement # NULL
    PROVE  /\ cases'[k].status \in {"APPROVED", "COMPLETED"}
           /\ cases'[k].status = "COMPLETED" <=>
                credentials'[cases'[k].replacement].contentHash # NULL
           /\ \A l \in Case : cases'[l].replacement = cases'[k].replacement => l = k
  BY DEF CaseFollowsReplacement, Issued
<1>1. /\ cases'[k].status \in {"APPROVED", "COMPLETED"}
      /\ cases'[k] \in CaseRow
  <2>1. cases'[k] \in CaseRow \cup {NoCaseRow}
    BY TypeStep DEF TypeOK
  <2>2. cases'[k] \in CaseRow /\ cases'[k].status # "ABSENT"
    BY <2>1 DEF NoCaseRow, CaseRow, LifecycleCaseStatus
  <2> QED
    BY <2>2, CaseOKStep DEF CaseOK
\* The replacement is new: no other case has it, and it is not issued.
<1>2. ASSUME NEW u \in Staff, NEW r \in Credential, ApproveReplacement(u, k, r)
      PROVE  /\ cases'[k].replacement = r
             /\ cases'[k].status = "APPROVED"
             /\ credentials'[r].contentHash = NULL
             /\ \A l \in Case : cases'[l].replacement = r => l = k
  <2>1. cases[k] \in CaseRow /\ credentials[r].status = "ABSENT"
    BY <1>2, OpenCase_Facts DEF ApproveReplacement
  <2>2. cases'[k] = [cases[k] EXCEPT !.status = "APPROVED", !.decidedBy = u,
                                     !.replacement = r]
    BY <1>2 DEF ApproveReplacement, TypeOK
  <2>3. cases'[k].replacement = r /\ cases'[k].status = "APPROVED"
    BY <2>1, <2>2 DEF CaseRow
  <2>4. credentials'[r].contentHash = NULL
    BY <1>2 DEF ApproveReplacement, DraftRow, TypeOK
  <2>5. ASSUME NEW l \in Case, l # k PROVE cases'[l].replacement # r
    <3>1. cases'[l] = cases[l]
      BY <1>2, <2>5 DEF ApproveReplacement, TypeOK
    <3>2. cases[l].status = "ABSENT" => cases[l].replacement = NULL
      BY DEF TypeOK, CaseRow, NoCaseRow, LifecycleCaseStatus
    <3>3. cases[l].status # "ABSENT" => cases[l].replacement # r
      BY <2>1, NullAssumption DEF CaseOK
    <3> QED
      BY <3>1, <3>2, <3>3, NullAssumption
  <2> QED
    BY <2>3, <2>4, <2>5
<1>3. ASSUME NEW c \in Credential, cases[k].replacement = c,
             cases'[k].replacement = c,
             cases[k].status \in {"APPROVED", "COMPLETED"}
      PROVE  /\ cases'[k].status = "COMPLETED" <=> credentials'[c].contentHash # NULL
             /\ \A l \in Case : cases'[l].replacement = c => l = k
  <2>1. c # NULL
    BY NullAssumption
  <2>2. cases[k].status = "COMPLETED" <=> credentials[c].contentHash # NULL
    BY <1>3, <2>1 DEF CaseFollowsReplacement, Issued
  <2>3. ASSUME NEW l \in Case, cases'[l].replacement = c PROVE l = k
    <3>1. CASE \E u \in Staff, r \in Credential : ApproveReplacement(u, l, r)
      <4>1. PICK u \in Staff, r \in Credential : ApproveReplacement(u, l, r)
        BY <3>1
      <4>2. r = c
        BY <2>3, <4>1, OpenCase_Facts DEF ApproveReplacement, TypeOK, CaseRow
      <4>3. credentials[c].status = "ABSENT" /\ credentials[c].status # "ABSENT"
        BY <1>3, <2>1, <4>1, <4>2 DEF ApproveReplacement, CaseOK
      <4> QED
        BY <4>3
    <3>2. CASE cases[l].replacement = c
      BY <1>3, <2>1, <3>2 DEF CaseFollowsReplacement
    <3> QED
      BY <2>1, <2>3, <3>1, <3>2, ReplacementMove
  <2>4. CASE \E u \in Staff : ApproveCredential(u, c)
    <3>1. PICK u \in Staff : ApproveCredential(u, c)
      BY <2>4
    <3>2. credentials[c].status = "PENDING_APPROVAL" /\ credentials[c].contentHash = NULL
      BY <3>1, TransitionSources DEF ApproveCredential, RowOK
    <3>3. k \in LinkedCases(c)
      BY <1>3, <2>2, <3>2 DEF LinkedCases
    <3>4. cases'[k].status = "COMPLETED"
      BY <1>1, <3>1, <3>3, PresentRows
         DEF ApproveCredential, IssueWithinTransaction, LinkedCases, CaseRow
    <3>5. credentials[c] \in CredentialRow
      BY <3>2, PresentRows
    <3>6. SubmittedClaims(credentials[c]) \in Claims
      BY <3>5 DEF SubmittedClaims, CredentialRow
    <3>7. credentials'[c].contentHash # NULL
      BY <3>1, <3>5, <3>6, NullAssumption
         DEF ApproveCredential, IssueWithinTransaction, CredentialRow
    <3> QED
      BY <2>3, <3>4, <3>7
  <2>5. CASE ~\E u \in Staff : ApproveCredential(u, c)
    <3>1. credentials'[c].contentHash # NULL <=> credentials[c].contentHash # NULL
      BY <2>5, IssuedByApproval, RowsPersist
    <3>2. CASE cases[k].status = "COMPLETED"
      BY <2>2, <2>3, <3>1, <3>2, CompletedStays
    <3>3. CASE cases[k].status = "APPROVED"
      <4>1. cases'[k].status # "COMPLETED"
        BY <1>3, <2>5, <3>3, ApprovedCaseWaits
      <4> QED
        BY <2>2, <2>3, <3>1, <3>3, <4>1
    <3> QED
      BY <1>3, <3>2, <3>3
  <2> QED
    BY <2>4, <2>5
<1>4. cases'[k].replacement \in Credential
  BY <1>1 DEF CaseRow
<1> QED
  BY <1>1, <1>2, <1>3, <1>4, ReplacementMove

LEMMA NoSupersessionCycleStep ==
  ASSUME IndInv, NoSupersessionCycle, Next PROVE NoSupersessionCycle'
<1> USE DEF IndInv
<1> SUFFICES ASSUME NEW S \in SUBSET Credential, S # {}
    PROVE  \E c \in S : credentials'[c].supersededBy \notin S
  BY DEF NoSupersessionCycle
<1>1. PICK c \in S : credentials[c].supersededBy \notin S
  BY DEF NoSupersessionCycle
<1>2. CASE credentials'[c].supersededBy = credentials[c].supersededBy
  BY <1>1, <1>2
<1>3. CASE credentials[c].supersededBy # NULL
  <2>1. credentials[c] \in CredentialRow /\ credentials[c].contentHash # NULL
    BY <1>3, PresentRows DEF RowOK
  <2>2. credentials'[c] = credentials[c]
    BY <1>3, <2>1, RowMoves, RowMoveKeepsIssued DEF RevokeMove, SupersedeMove, RowOK
  <2> QED
    BY <1>1, <2>2
<1>4. CASE /\ credentials[c].supersededBy = NULL
           /\ credentials'[c].supersededBy # NULL
  <2>1. PICK u \in Staff, x \in Credential :
          ApproveCredential(u, x) /\ c # x /\ c \in Superseded(x)
    BY <1>4, SuccessorAppears
  <2>2. credentials[c] \in CredentialRow
    BY <2>1, PresentRows DEF Superseded
  <2>3. credentials'[c].supersededBy = x
    BY <2>1, <2>2 DEF ApproveCredential, IssueWithinTransaction, CredentialRow
  <2>4. credentials[x] \in CredentialRow /\ credentials[x].supersededBy = NULL
    BY <2>1, TransitionSources, PresentRows DEF ApproveCredential, RowOK
  <2>5. credentials'[x].supersededBy = NULL
    BY <2>1, <2>4 DEF ApproveCredential, IssueWithinTransaction, CredentialRow
  <2> QED
    BY <2>3, <2>5, NullAssumption
<1> QED
  BY <1>2, <1>3, <1>4

-------------------------------------------------------------------------------
(* The invariant holds in every reachable state.                           *)

LEMMA InitInv == Init => IndInv /\ NoSupersessionCycle
<1> SUFFICES ASSUME Init PROVE IndInv /\ NoSupersessionCycle
  OBVIOUS
<1> USE DEF Init, NoCredentialRow, NoCaseRow
<1>1. TypeOK
  BY DEF TypeOK
<1>2. \A c \in Credential : RowOK(credentials[c])
  BY DEF RowOK
<1>3. \A k \in Case : CaseOK(cases[k])
  BY DEF CaseOK
<1>4. RevocationIsDecided /\ SupersessionIsLinked /\ CaseFollowsReplacement
  BY DEF RevocationIsDecided, Revocations, SupersessionIsLinked, CaseFollowsReplacement
<1>5. NoSupersessionCycle
  BY NullAssumption DEF NoSupersessionCycle
<1> QED
  BY <1>1, <1>2, <1>3, <1>4, <1>5 DEF IndInv

LEMMA StepInv ==
  IndInv /\ NoSupersessionCycle /\ [Next]_vars => (IndInv /\ NoSupersessionCycle)'
<1> SUFFICES ASSUME IndInv, NoSupersessionCycle, [Next]_vars
    PROVE  IndInv' /\ NoSupersessionCycle'
  OBVIOUS
<1>1. CASE Next
  BY <1>1, TypeStep, CaseOKStep, RevocationStep, SupersessionStep,
     CaseFollowsReplacementStep, NoSupersessionCycleStep DEF IndInv
<1>2. CASE UNCHANGED vars
  <2> USE <1>2 DEF vars, IndInv, Issued
  <2>1. TypeOK' /\ \A c \in Credential : RowOK(credentials[c])'
    BY DEF TypeOK, RowOK
  <2>2. \A k \in Case : CaseOK(cases[k])'
    BY DEF CaseOK
  <2>3. RevocationIsDecided'
    <3>1. \A c : Revocations(c)' = Revocations(c)
      BY DEF Revocations
    <3> QED
      BY <3>1 DEF RevocationIsDecided
  <2>4. SupersessionIsLinked' /\ CaseFollowsReplacement' /\ NoSupersessionCycle'
    <3>1. SupersessionIsLinked'
      BY DEF SupersessionIsLinked
    <3>2. CaseFollowsReplacement'
      BY DEF CaseFollowsReplacement
    <3>3. NoSupersessionCycle'
      BY DEF NoSupersessionCycle
    <3> QED
      BY <3>1, <3>2, <3>3
  <2> QED
    BY <2>1, <2>2, <2>3, <2>4
<1> QED
  BY <1>1, <1>2

\* The inductive invariant: it strengthens every safety property below.
THEOREM Invariance == Spec => [](IndInv /\ NoSupersessionCycle)
BY InitInv, StepInv, PTL DEF Spec

\* The two tables are well-typed in every reachable state.
THEOREM TypeCorrect == Spec => []TypeOK
BY Invariance, PTL DEF IndInv

\* Submitter # approver for every diploma ever issued.
THEOREM IssuedByTwo == Spec => []SeparationOfDuties
<1>1. IndInv => SeparationOfDuties
  BY DEF IndInv, RowOK, SeparationOfDuties, Issued
<1> QED
  BY <1>1, Invariance, PTL

\* The hash of every issued diploma is that of the claims it shows.
THEOREM HashCommitsToContent == Spec => []ContentIntegrity
<1>1. IndInv => ContentIntegrity
  BY DEF IndInv, RowOK, ContentIntegrity, Issued
<1> QED
  BY <1>1, Invariance, PTL

\* Revoked means: one REVOKE case completed, by two people.
THEOREM RevocationsAreDecided == Spec => []RevocationIsDecided
<1>1. IndInv => RevocationIsDecided
  BY DEF IndInv
<1> QED
  BY <1>1, Invariance, PTL

\* Superseded means: an issued successor, under a completed case.
THEOREM SupersessionsAreLinked == Spec => []SupersessionIsLinked
<1>1. IndInv => SupersessionIsLinked
  BY DEF IndInv
<1> QED
  BY <1>1, Invariance, PTL

\* A replacement case is completed exactly when its replacement is issued.
THEOREM CasesFollowReplacements == Spec => []CaseFollowsReplacement
<1>1. IndInv => CaseFollowsReplacement
  BY DEF IndInv
<1> QED
  BY <1>1, Invariance, PTL

\* Successors never form a cycle, for any number of corrections of corrections.
THEOREM LineageIsAcyclic == Spec => []NoSupersessionCycle
BY Invariance, PTL

\* Issued records are immutable but for one move of their status.
THEOREM IssuedRowsImmutable == Spec => IssuedImmutable
<1> DEFINE Kept == \A c \in Credential : Issued(c) =>
       LET old == credentials[c]
           new == credentials'[c]
       IN /\ \/ new.status = old.status
             \/ old.status = "ISSUED" /\ new.status \in {"REVOKED", "SUPERSEDED"}
          /\ new = [old EXCEPT !.status = new.status,
                               !.supersededBy = new.supersededBy]
          /\ new.supersededBy = old.supersededBy \/ new.status # old.status
<1>1. IndInv /\ [Next]_vars => [Kept]_vars
  <2> SUFFICES ASSUME IndInv, Next, NEW c \in Credential, Issued(c)
      PROVE  LET old == credentials[c]
                 new == credentials'[c]
             IN /\ \/ new.status = old.status
                   \/ old.status = "ISSUED" /\ new.status \in {"REVOKED", "SUPERSEDED"}
                /\ new = [old EXCEPT !.status = new.status,
                                     !.supersededBy = new.supersededBy]
                /\ new.supersededBy = old.supersededBy \/ new.status # old.status
    BY DEF vars
  <2> USE DEF IndInv, Issued
  <2>1. credentials[c] \in CredentialRow
    BY PresentRows DEF RowOK
  <2>2. /\ RowOK(credentials[c])
        /\ RowMove(credentials[c], credentials'[c])
    BY RowMoves
  <2>3. credentials'[c] = [credentials[c] EXCEPT
                              !.status = credentials'[c].status,
                              !.supersededBy = credentials'[c].supersededBy]
    BY <2>1, <2>2, RowMoveKeepsIssued
  <2>4. CASE credentials'[c] = credentials[c]
    BY <2>3, <2>4
  <2>5. CASE RevokeMove(credentials[c], credentials'[c])
    <3>1. /\ credentials[c].status = "ISSUED"
          /\ credentials'[c].status = "REVOKED"
      BY <2>1, <2>5 DEF RevokeMove, CredentialRow
    <3> QED
      BY <2>3, <3>1
  <2>6. CASE SupersedeMove(credentials[c], credentials'[c])
    <3>1. /\ credentials[c].status = "ISSUED"
          /\ credentials'[c].status = "SUPERSEDED"
      BY <2>1, <2>6 DEF SupersedeMove, CredentialRow
    <3> QED
      BY <2>3, <3>1
  <2> QED
    BY <2>1, <2>2, <2>4, <2>5, <2>6, RowMoveKeepsIssued
<1> QED
  BY <1>1, Invariance, PTL DEF Spec, IssuedImmutable

-------------------------------------------------------------------------------
(* The public record.                                                      *)

LEMMA InitImplements == Init => Public!Init
BY DEF Init, Public!Init, Public!Unknown, publicRecord, PublicEntry, NoCredentialRow

\* A step that neither issues nor revokes leaves every issued row alone and
\* gives no other row a hash.
LEMMA QuietStep ==
  ASSUME IndInv, Next, NEW x \in Credential,
         ~\E u \in Staff, c \in Credential : ApproveCredential(u, c),
         ~\E u \in Staff, k \in Case : ApproveRevocation(u, k)
  PROVE  \/ credentials'[x] = credentials[x]
         \/ credentials[x].contentHash = NULL /\ credentials'[x].contentHash = NULL
<1> USE DEF IndInv
<1>1. CASE credentials[x].contentHash = NULL
  BY <1>1, IssuedByApproval
<1>2. CASE credentials[x].contentHash # NULL
  <2> DEFINE Same == credentials'[x] = credentials[x]
  <2>1. credentials[x].status \in {"ISSUED", "REVOKED", "SUPERSEDED"}
    BY <1>2 DEF RowOK
  <2>2. ASSUME NEW u \in Staff, NEW c \in Credential, NEW v \in Claims,
               CreateDraft(u, c, v) \/ EditDraft(u, c, v)
        PROVE  Same
    BY <2>1, <2>2 DEF CreateDraft, EditDraft, TypeOK
  <2>3. ASSUME NEW u \in Staff, NEW c \in Credential,
               \/ SubmitCredential(u, c) \/ CancelCredential(u, c)
               \/ ReturnCredential(u, c) \/ RejectCredential(u, c)
        PROVE  Same
    <3>1. c # x
      BY <2>1, <2>3, TransitionSources
         DEF SubmitCredential, CancelCredential, ReturnCredential, RejectCredential,
             ReviewCredential
    <3> QED
      BY <2>3, <3>1
         DEF SubmitCredential, CancelCredential, ReturnCredential, RejectCredential,
             ReviewCredential, TypeOK
  <2>4. ASSUME NEW u \in Staff, NEW k \in Case, NEW r \in Credential,
               ApproveReplacement(u, k, r)
        PROVE  Same
    BY <2>1, <2>4 DEF ApproveReplacement, TypeOK
  <2>5. ASSUME UNCHANGED credentials PROVE Same
    BY <2>5
  <2> HIDE DEF Same
  <2>6. Same
    BY <2>2, <2>3, <2>4, <2>5
       DEF Next, CredentialNext, CaseNext, CheckCase, OpenCase, RejectCase
  <2> QED
    BY <2>6 DEF Same
<1> QED
  BY <1>1, <1>2

\* The hash decides whether a row is public, the status what is answered.
LEMMA PublicEntries ==
  ASSUME IndInv, NEW x \in Credential, credentials[x].contentHash # NULL
  PROVE  /\ credentials[x] \in CredentialRow
         /\ PublicEntry(credentials[x]) =
              [result |-> IF credentials[x].status = "ISSUED"
                            THEN "VALID" ELSE credentials[x].status,
               content |-> credentials[x].claims,
               submitter |-> credentials[x].submittedBy,
               approver |-> credentials[x].approvedBy,
               successor |-> credentials[x].supersededBy]
<1>1. credentials[x].status \in {"ISSUED", "REVOKED", "SUPERSEDED"}
  BY DEF IndInv, RowOK
<1>2. credentials[x] \in CredentialRow
  BY <1>1, PresentRows DEF IndInv
<1>3. credentials[x].claims \in Claims /\ credentials[x].snapshot = credentials[x].claims
  BY <1>1, <1>2 DEF IndInv, RowOK, CredentialRow
<1>4. SubmittedClaims(credentials[x]) = credentials[x].claims
  BY <1>3, NullAssumption DEF SubmittedClaims
<1>5. PublicResult(credentials[x]) =
        IF credentials[x].status = "ISSUED" THEN "VALID" ELSE credentials[x].status
  BY <1>1 DEF PublicResult
<1> QED
  BY <1>2, <1>4, <1>5 DEF PublicEntry

\* Issuing retires at most one diploma: two cases never wait for one draft.
LEMMA AtMostOneSuperseded ==
  ASSUME IndInv, NEW c \in Credential
  PROVE  Superseded(c) \in Public!AtMostOne
<1>1. \A o, p \in Superseded(c) : o = p
  BY NullAssumption DEF Superseded, LinkedCases, IndInv, CaseFollowsReplacement
<1>2. Superseded(c) \subseteq Credential
  BY DEF Superseded
<1>3. CASE Superseded(c) = {}
  BY <1>3 DEF Public!AtMostOne
<1>4. CASE \E o \in Superseded(c) : TRUE
  <2>1. PICK o \in Superseded(c) : TRUE
    BY <1>4
  <2>2. Superseded(c) = {o}
    BY <1>1, <2>1
  <2> QED
    BY <1>2, <2>1, <2>2 DEF Public!AtMostOne
<1> QED
  BY <1>3, <1>4

LEMMA RevocationImplements ==
  ASSUME IndInv, IndInv', NEW u \in Staff, NEW k \in Case, ApproveRevocation(u, k)
  PROVE  Public!Revoke(cases[k].credential)
<1> DEFINE c == cases[k].credential
<1>1. /\ c \in Credential
      /\ credentials[c] \in CredentialRow
      /\ credentials[c].contentHash # NULL
      /\ credentials[c].status = "ISSUED"
  BY OpenCase_Facts, TransitionSources DEF ApproveRevocation, Issued
<1>2. credentials' = [credentials EXCEPT ![c].status = "REVOKED"]
  BY DEF ApproveRevocation
<1>3. credentials'[c] = [credentials[c] EXCEPT !.status = "REVOKED"]
  BY <1>1, <1>2 DEF IndInv, TypeOK
<1> HIDE DEF c
<1>4. publicRecord[c] = PublicEntry(credentials[c])
  BY <1>1 DEF publicRecord
<1>5. PublicEntry(credentials[c]) =
        [result |-> "VALID", content |-> credentials[c].claims,
         submitter |-> credentials[c].submittedBy,
         approver |-> credentials[c].approvedBy,
         successor |-> credentials[c].supersededBy]
  <2>1. (IF credentials[c].status = "ISSUED" THEN "VALID" ELSE credentials[c].status)
          = "VALID"
    BY <1>1
  <2> QED
    BY <1>1, <2>1, PublicEntries
<1>6. /\ credentials'[c].contentHash # NULL
      /\ credentials'[c].status = "REVOKED"
      /\ credentials'[c].claims = credentials[c].claims
      /\ credentials'[c].submittedBy = credentials[c].submittedBy
      /\ credentials'[c].approvedBy = credentials[c].approvedBy
      /\ credentials'[c].supersededBy = credentials[c].supersededBy
  BY <1>1, <1>3 DEF CredentialRow
<1>7. PublicEntry(credentials'[c]) = [PublicEntry(credentials[c]) EXCEPT !.result = "REVOKED"]
  <2>1. PublicEntry(credentials'[c]) =
          [result |-> "REVOKED", content |-> credentials'[c].claims,
           submitter |-> credentials'[c].submittedBy,
           approver |-> credentials'[c].approvedBy,
           successor |-> credentials'[c].supersededBy]
    <3>1. credentials'[c].snapshot = credentials'[c].claims /\ credentials'[c].claims # NULL
      BY <1>1, <1>6, NullAssumption DEF IndInv, RowOK, CredentialRow
    <3> QED
      BY <1>6, <3>1 DEF PublicEntry, PublicResult, SubmittedClaims
  <2> QED
    BY <1>5, <1>6, <2>1
<1>8. \A x \in Credential \ {c} : credentials'[x] = credentials[x]
  BY <1>2 DEF IndInv, TypeOK
<1>9. publicRecord' = [publicRecord EXCEPT ![c].result = "REVOKED"]
  BY <1>1, <1>7, <1>8 DEF publicRecord
<1> QED
  <2>1. publicRecord[c].result = "VALID"
    BY <1>4, <1>5
  <2>2. Public!Revoke(c)
    BY <1>9, <2>1 DEF Public!Revoke
  <2> QED
    BY <2>2 DEF c

LEMMA IssuanceImplements ==
  ASSUME IndInv, IndInv', NEW u \in Staff, NEW c \in Credential,
         ApproveCredential(u, c)
  PROVE  Public!Issue(c, Superseded(c))
<1>1. /\ credentials[c] \in CredentialRow
      /\ credentials[c].status = "PENDING_APPROVAL"
      /\ credentials[c].contentHash = NULL
  BY TransitionSources, PresentRows DEF ApproveCredential, IndInv, RowOK
<1>2. publicRecord[c].result = "NOT_FOUND"
  BY <1>1 DEF publicRecord, PublicEntry
<1>3. /\ credentials[c].snapshot = credentials[c].claims
      /\ credentials[c].claims \in Claims
      /\ credentials[c].submittedBy \in Staff \ {u}
      /\ credentials[c].supersededBy = NULL
      /\ u \in Staff
  BY <1>1, RolesAssumption DEF IndInv, RowOK, CredentialRow, ApproveCredential
<1>4. SubmittedClaims(credentials[c]) = credentials[c].claims
  BY <1>3, NullAssumption DEF SubmittedClaims
<1>5. credentials'[c] = [credentials[c] EXCEPT !.status = "ISSUED", !.approvedBy = u,
                                               !.contentHash = credentials[c].claims]
  BY <1>4 DEF ApproveCredential, IssueWithinTransaction
<1>6. /\ credentials'[c].status = "ISSUED"
      /\ credentials'[c].contentHash # NULL
      /\ credentials'[c].approvedBy = u
      /\ credentials'[c].claims = credentials[c].claims
      /\ credentials'[c].snapshot = credentials[c].claims
      /\ credentials'[c].submittedBy = credentials[c].submittedBy
      /\ credentials'[c].supersededBy = NULL
  BY <1>1, <1>3, <1>5, NullAssumption DEF CredentialRow
<1>7. PublicEntry(credentials'[c]) =
        [result |-> "VALID", content |-> credentials[c].claims,
         submitter |-> credentials[c].submittedBy, approver |-> u, successor |-> NULL]
  BY <1>3, <1>6, NullAssumption DEF PublicEntry, PublicResult, SubmittedClaims
<1>8. publicRecord'[c] = PublicEntry(credentials'[c])
  BY DEF publicRecord
<1>9. publicRecord'[c] \in Public!NewEntry /\ publicRecord'[c].submitter # publicRecord'[c].approver
  BY <1>3, <1>7, <1>8 DEF Public!NewEntry
<1>10. ASSUME NEW o \in Superseded(c)
       PROVE  /\ o \in Credential /\ o # c
              /\ publicRecord[o].result = "VALID"
              /\ PublicEntry(credentials'[o]) =
                   [PublicEntry(credentials[o]) EXCEPT !.result = "SUPERSEDED",
                                                       !.successor = c]
  <2>1. o \in Credential /\ o # c /\ credentials[o].status = "ISSUED"
    BY <1>1 DEF Superseded
  <2>2. credentials[o].contentHash # NULL /\ credentials[o] \in CredentialRow
    BY <2>1, PresentRows DEF IndInv, RowOK
  <2>3. PublicEntry(credentials[o]) =
          [result |-> "VALID", content |-> credentials[o].claims,
           submitter |-> credentials[o].submittedBy,
           approver |-> credentials[o].approvedBy,
           successor |-> credentials[o].supersededBy]
    <3>1. (IF credentials[o].status = "ISSUED" THEN "VALID" ELSE credentials[o].status)
            = "VALID"
      BY <2>1
    <3> QED
      BY <2>1, <2>2, <3>1, PublicEntries
  <2>4. credentials'[o] = [credentials[o] EXCEPT !.status = "SUPERSEDED",
                                                 !.supersededBy = c]
    BY <2>1 DEF ApproveCredential, IssueWithinTransaction
  <2>5. /\ credentials'[o].status = "SUPERSEDED"
        /\ credentials'[o].contentHash # NULL
        /\ credentials'[o].claims = credentials[o].claims
        /\ credentials'[o].snapshot = credentials[o].claims
        /\ credentials'[o].claims # NULL
        /\ credentials'[o].submittedBy = credentials[o].submittedBy
        /\ credentials'[o].approvedBy = credentials[o].approvedBy
        /\ credentials'[o].supersededBy = c
    BY <2>1, <2>2, <2>4, NullAssumption DEF CredentialRow, IndInv, RowOK
  <2>6. PublicEntry(credentials'[o]) =
          [result |-> "SUPERSEDED", content |-> credentials[o].claims,
           submitter |-> credentials[o].submittedBy,
           approver |-> credentials[o].approvedBy, successor |-> c]
    BY <2>5 DEF PublicEntry, PublicResult, SubmittedClaims
  <2>7. publicRecord[o] = PublicEntry(credentials[o])
    BY <2>1 DEF publicRecord
  <2>8. publicRecord[o].result = "VALID"
    BY <2>3, <2>7
  <2>9. PublicEntry(credentials'[o]) =
          [PublicEntry(credentials[o]) EXCEPT !.result = "SUPERSEDED", !.successor = c]
    <3> DEFINE e == PublicEntry(credentials[o])
               content == credentials[o].claims
               submitter == credentials[o].submittedBy
               approver == credentials[o].approvedBy
               old == credentials[o].supersededBy
    <3>1. e = [result |-> "VALID", content |-> content, submitter |-> submitter,
               approver |-> approver, successor |-> old]
      BY <2>3
    <3>2. PublicEntry(credentials'[o]) =
            [result |-> "SUPERSEDED", content |-> content, submitter |-> submitter,
             approver |-> approver, successor |-> c]
      BY <2>6
    <3> HIDE DEF e, content, submitter, approver, old
    <3> DEFINE f == [e EXCEPT !.result = "SUPERSEDED"]
    <3>3. f = [result |-> "SUPERSEDED", content |-> content, submitter |-> submitter,
               approver |-> approver, successor |-> old]
      BY <3>1
    <3>4. [e EXCEPT !.result = "SUPERSEDED", !.successor = c] = [f EXCEPT !.successor = c]
      BY Zenon
    <3> HIDE DEF f
    <3>5. [f EXCEPT !.successor = c] =
            [result |-> "SUPERSEDED", content |-> content, submitter |-> submitter,
             approver |-> approver, successor |-> c]
      BY <3>3
    <3> QED
      BY <3>2, <3>4, <3>5, Zenon DEF e
  <2> QED
    BY <2>1, <2>8, <2>9
<1>11. \A x \in Credential \ (Superseded(c) \cup {c}) : credentials'[x] = credentials[x]
  BY DEF ApproveCredential, IssueWithinTransaction
<1>12. publicRecord' = [x \in Credential |->
         IF x = c
           THEN publicRecord'[c]
           ELSE IF x \in Superseded(c)
                  THEN [publicRecord[x] EXCEPT !.result = "SUPERSEDED", !.successor = c]
                  ELSE publicRecord[x]]
  BY <1>10, <1>11 DEF publicRecord
<1> QED
  BY <1>2, <1>9, <1>10, <1>12 DEF Public!Issue

LEMMA StepImplements ==
  ASSUME IndInv, IndInv', [Next]_vars PROVE [Public!Next]_publicRecord
<1>1. ASSUME NEW u \in Staff, NEW c \in Credential, ApproveCredential(u, c)
      PROVE  Public!Next
  BY <1>1, IssuanceImplements, AtMostOneSuperseded DEF Public!Next
<1>2. ASSUME NEW u \in Staff, NEW k \in Case, ApproveRevocation(u, k)
      PROVE  Public!Next
  BY <1>2, RevocationImplements, OpenCase_Facts DEF Public!Next, ApproveRevocation
<1>3. ASSUME Next,
             ~\E u \in Staff, c \in Credential : ApproveCredential(u, c),
             ~\E u \in Staff, k \in Case : ApproveRevocation(u, k)
      PROVE  UNCHANGED publicRecord
  <2>1. ASSUME NEW x \in Credential
        PROVE  PublicEntry(credentials'[x]) = PublicEntry(credentials[x])
    BY <1>3, QuietStep DEF PublicEntry
  <2> QED
    BY <2>1 DEF publicRecord
<1>4. CASE UNCHANGED vars
  BY <1>4 DEF vars, publicRecord
<1> QED
  BY <1>1, <1>2, <1>3, <1>4

\* The workflow implements the public record: for any number of diplomas,
\* cases and people, every behaviour of the handlers is seen from outside as
\* issuances, replacements of one diploma by one, and revocations.
THEOREM WorkflowImplementsPublicRecord == Spec => PublicRecordKept
BY InitImplements, StepImplements, Invariance, PTL DEF Spec, PublicRecordKept, Public!Spec
===============================================================================
