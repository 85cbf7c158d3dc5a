------------------------------ MODULE ImportBatch ------------------------------
(***************************************************************************)
(* The CSV import (apps/api/src/modules/imports/routes.ts): a file becomes *)
(* a batch of rows, valid ones PENDING and faulty ones ERROR; submitting   *)
(* the batch makes of each pending row a draft, submits it for approval    *)
(* and marks the row, with a transaction for each of these writes, and     *)
(* closes the batch at the end.                                            *)
(*                                                                         *)
(* A submission reads the batch and its rows once, without a lock.  Two of *)
(* them can run at a time, a row can fail at any of its steps, and the API *)
(* can die at any of them.                                                 *)
(*                                                                         *)
(* A file is the sequence of its rows, a row the pair of registration and  *)
(* credential number that identifies the diploma, or Malformed.            *)
(***************************************************************************)
EXTENDS Integers, Sequences, FiniteSets

CONSTANTS
  BatchId,        \* ids of import_batches
  Key,          \* registrationNumber::credentialNumber
  Malformed,    \* a row that RowSchema refuses
  Files,        \* the files uploaded
  Draft,        \* ids of the credentials that imports create
  Submission,   \* the submit handlers at work
  MAX_ROWS

ASSUME ImportAssumption ==
  /\ Malformed \notin Key
  /\ "NONE" \notin Draft
  /\ Files \subseteq Seq(Key \cup {Malformed})
  /\ MAX_ROWS \in Nat
  /\ \A file \in Files : Len(file) <= MAX_ROWS

VARIABLES
  importBatches, \* import_batches
  rows,         \* import_rows of each batch, in order
  imported,     \* the credentials created so far
  submissions   \* where each handler is, and its locals

importVars == <<importBatches, rows, imported, submissions>>

Line == 1 .. MAX_ROWS

NoBatch == [status |-> "ABSENT"]
BatchRow ==
  [status : {"READY_FOR_REVIEW", "COMPLETED", "PARTIALLY_COMPLETED", "FAILED"},
   errorRows : Nat]

NoDraft == [status |-> "ABSENT"]
DraftOf == [status : {"DRAFT", "PENDING_APPROVAL"}, batch : BatchId, line : Line]

\* credential: a draft, or none.
ImportRow ==
  [key : Key \cup {Malformed}, status : {"PENDING", "ERROR", "SUBMITTED", "FAILED"},
   credential : Draft \cup {"NONE"}]

AtRest == [at |-> "IDLE"]
Submitting ==
  [at : {"OPENED", "NEXT", "DRAFTED", "SUBMITTED"}, batch : BatchId,
   todo : SUBSET Nat, credential : Draft \cup {"NONE"}, submitted : Nat, failed : Nat]

ImportTypeOK ==
  /\ importBatches \in [BatchId -> BatchRow \cup {NoBatch}]
  /\ rows \in [BatchId -> Seq(ImportRow)]
  /\ \A b \in BatchId : Len(rows[b]) <= MAX_ROWS
  /\ imported \in [Draft -> DraftOf \cup {NoDraft}]
  /\ submissions \in [Submission -> Submitting \cup {AtRest}]
  /\ \A u \in Submission : submissions[u] # AtRest =>
       submissions[u].todo \subseteq DOMAIN rows[submissions[u].batch]

ImportInit ==
  /\ importBatches = [b \in BatchId |-> NoBatch]
  /\ rows = [b \in BatchId |-> <<>>]
  /\ imported = [d \in Draft |-> NoDraft]
  /\ submissions = [u \in Submission |-> AtRest]

-------------------------------------------------------------------------------
(* Upload.                                                                 *)

\* A row is valid if it parses and no earlier valid row is the same diploma.
Valid(file, i) ==
  /\ file[i] # Malformed
  /\ \A j \in 1 .. i - 1 : file[j] # file[i]

Upload(b, file) ==
  /\ importBatches[b] = NoBatch
  /\ file # <<>>
  /\ rows' = [rows EXCEPT ![b] = [i \in DOMAIN file |->
       [key |-> file[i], status |-> IF Valid(file, i) THEN "PENDING" ELSE "ERROR",
        credential |-> "NONE"]]]
  /\ importBatches' = [importBatches EXCEPT ![b] =
       [status |-> "READY_FOR_REVIEW",
        errorRows |-> Cardinality({i \in DOMAIN file : ~Valid(file, i)})]]
  /\ UNCHANGED <<imported, submissions>>

-------------------------------------------------------------------------------
(* Submission.                                                             *)

RowsWith(b, status) == {i \in DOMAIN rows[b] : rows[b][i].status = status}

\* GET /imports/:id/errors.csv: the rows that its uploader has to correct.
ErrorsCsv(b) == RowsWith(b, "ERROR")

OpenBatch(u, b) ==
  /\ submissions[u] = AtRest
  /\ importBatches[b].status = "READY_FOR_REVIEW"
  /\ submissions' = [submissions EXCEPT ![u] =
       [at |-> "OPENED", batch |-> b, todo |-> {}, credential |-> "NONE",
        submitted |-> 0, failed |-> 0]]
  /\ UNCHANGED <<importBatches, rows, imported>>

ReadPendingRows(u) ==
  /\ submissions[u].at = "OPENED"
  /\ submissions' = [submissions EXCEPT ![u].at = "NEXT",
       ![u].todo = RowsWith(submissions[u].batch, "PENDING")]
  /\ UNCHANGED <<importBatches, rows, imported>>

\* The row that the loop is at.
Current(u) == CHOOSE i \in submissions[u].todo : \A j \in submissions[u].todo : i <= j

\* The holder, found or inserted, and a credential in DRAFT with a new id: one
\* transaction.
InsertDraft(u) ==
  LET fresh == {d \in Draft : imported[d] = NoDraft}
      new == CHOOSE d \in fresh : TRUE IN
  /\ submissions[u].at = "NEXT"
  /\ submissions[u].todo # {}
  /\ fresh # {}
  /\ imported' = [imported EXCEPT ![new] =
       [status |-> "DRAFT", batch |-> submissions[u].batch, line |-> Current(u)]]
  /\ submissions' = [submissions EXCEPT ![u].at = "DRAFTED", ![u].credential = new]
  /\ UNCHANGED <<importBatches, rows>>

\* submitCredential, a transaction of its own.
SubmitDraft(u) ==
  /\ submissions[u].at = "DRAFTED"
  /\ imported' = [imported EXCEPT ![submissions[u].credential].status = "PENDING_APPROVAL"]
  /\ submissions' = [submissions EXCEPT ![u].at = "SUBMITTED"]
  /\ UNCHANGED <<importBatches, rows>>

\* The loop goes on, with what it counts.
NextRow(u, submitted, failed) ==
  submissions' = [submissions EXCEPT ![u] =
    [at |-> "NEXT", batch |-> @.batch, todo |-> @.todo \ {Current(u)},
     credential |-> "NONE", submitted |-> submitted, failed |-> failed]]

\* Mutant: the row is marked before its draft is submitted.
MarkSubmitted_TooEarly(u) ==
  LET s == submissions[u] IN
  /\ s.at \in {"DRAFTED", "SUBMITTED"}
  /\ rows' = [rows EXCEPT ![s.batch][Current(u)] =
       [@ EXCEPT !.status = "SUBMITTED", !.credential = s.credential]]
  /\ NextRow(u, s.submitted + 1, s.failed)
  /\ UNCHANGED <<importBatches, imported>>

MarkSubmitted(u) ==
  LET s == submissions[u] IN
  /\ s.at = "SUBMITTED"
  /\ rows' = [rows EXCEPT ![s.batch][Current(u)] =
       [@ EXCEPT !.status = "SUBMITTED", !.credential = s.credential]]
  /\ NextRow(u, s.submitted + 1, s.failed)
  /\ UNCHANGED <<importBatches, imported>>

\* Any of the three writes throws: the row is FAILED, what is committed stays.
MarkFailed(u) ==
  LET s == submissions[u] IN
  /\ s.at \in {"NEXT", "DRAFTED", "SUBMITTED"} /\ s.todo # {}
  /\ rows' = [rows EXCEPT ![s.batch][Current(u)].status = "FAILED"]
  /\ NextRow(u, s.submitted, s.failed + 1)
  /\ UNCHANGED <<importBatches, imported>>

FinalStatus(s) ==
  IF s.failed = 0 /\ importBatches[s.batch].errorRows = 0 THEN "COMPLETED"
    ELSE IF s.submitted > 0 THEN "PARTIALLY_COMPLETED" ELSE "FAILED"

CloseBatch(u) ==
  LET s == submissions[u] IN
  /\ s.at = "NEXT"
  /\ s.todo = {}
  /\ importBatches' = [importBatches EXCEPT ![s.batch].status = FinalStatus(s)]
  /\ submissions' = [submissions EXCEPT ![u] = AtRest]
  /\ UNCHANGED <<rows, imported>>

\* The API dies, or the write in the catch block fails.
Die(u) ==
  /\ submissions[u] # AtRest
  /\ submissions' = [submissions EXCEPT ![u] = AtRest]
  /\ UNCHANGED <<importBatches, rows, imported>>

-------------------------------------------------------------------------------
SubmitStep(u) ==
  \/ \E b \in BatchId : OpenBatch(u, b)
  \/ ReadPendingRows(u)
  \/ InsertDraft(u)
  \/ SubmitDraft(u) \/ MarkSubmitted(u) \/ MarkFailed(u) \/ CloseBatch(u) \/ Die(u)

ImportNext ==
  \/ \E b \in BatchId, file \in Files : Upload(b, file)
  \/ \E u \in Submission : SubmitStep(u)

ImportSpec == ImportInit /\ [][ImportNext]_importVars
-------------------------------------------------------------------------------
(* Properties.                                                             *)

Closed(b) == importBatches[b].status \notin {"ABSENT", "READY_FOR_REVIEW"}

\* A closed batch has dealt with every valid row, although a failing row does not
\* stop the loop and another submission may be at the same rows ("one failing
\* row marks itself FAILED and the rest continue", imports/routes.ts:347).  No
\* credential comes of a faulty row, nor of a duplicate of another row of the
\* file; all of them stay in the file of errors, as many as the batch counted.
ClosedMeansDone ==
  /\ \A b \in BatchId : Closed(b) => RowsWith(b, "PENDING") = {}
  /\ \A b \in BatchId : importBatches[b] # NoBatch =>
       Cardinality(ErrorsCsv(b)) = importBatches[b].errorRows
  /\ \A d \in Draft : imported[d] # NoDraft =>
       LET own == rows[imported[d].batch] IN
       /\ own[imported[d].line].key # Malformed
       /\ \A j \in 1 .. imported[d].line - 1 : own[j].key # own[imported[d].line].key

\* A row that says SUBMITTED names a credential that was made of it and is with
\* the approvers.
SubmittedMeansSubmitted ==
  \A b \in BatchId : \A i \in RowsWith(b, "SUBMITTED") :
    LET d == rows[b][i].credential IN
    d # "NONE" /\ imported[d] = [status |-> "PENDING_APPROVAL", batch |-> b, line |-> i]

\* SUBMITTED rows, the number of faulty rows and the end of a batch can be relied on
\* at every write of a submission, of two at a time, and after the death of one.  Two
\* marks cannot, and are not looked at here.  A row is FAILED, too, whose credential is
\* with the approvers, if only its mark failed (imports/routes.ts:436-458; a row is
\* not "its own transaction", :346-347, but three).  And a batch is COMPLETED, too,
\* with a row that another submission, or one that died, had marked FAILED: the
\* submission that closes it counts the failures of its own (:462-467).
SubmittedAndClosedAreTrue == ClosedMeansDone /\ SubmittedMeansSubmitted

\* "Batch has already been submitted or closed" (imports/routes.ts:366): a batch
\* is submitted once, so a row makes one credential.
OneCredentialPerRow ==
  \A d, e \in Draft :
    imported[d] # NoDraft /\ imported[e] # NoDraft
      /\ imported[d].batch = imported[e].batch /\ imported[d].line = imported[e].line
      => d = e
===============================================================================
