----------------------------- MODULE ServicesProofs -----------------------------
(***************************************************************************)
(* Theorems about the bulk import, for any sets of batches, files, ids and *)
(* submissions and files of any length, and about the services together.   *)
(*                                                                         *)
(* Two submissions of one batch hold two copies of its pending rows and    *)
(* mark each other's.  What keeps the marks true that are (SubmittedAnd-   *)
(* ClosedAreTrue; FAILED and COMPLETED are not): a submission holds every  *)
(* row that is still pending (TodoIsOpen), so that none is left when it    *)
(* closes the batch, and no faulty one; the draft in its hand is of the    *)
(* row at hand and in nobody else's (DraftsInHand), so that a row it marks *)
(* SUBMITTED names a credential of that row.                               *)
(*                                                                         *)
(* A behaviour of the services together is a behaviour of each of them     *)
(* (EachService), so that the theorems of AnchoringProofs, AccountsProofs  *)
(* and this module hold of it.                                             *)
(***************************************************************************)
EXTENDS MCServices, AnchoringProofs, AccountsProofs, WellFoundedInduction

-------------------------------------------------------------------------------
(* Rows and submissions.                                                   *)

\* A set of line numbers has a first.
LEMMA LeastLine ==
  ASSUME NEW T \in SUBSET Nat, T # {}
  PROVE  \E i \in T : \A j \in T : i <= j
<1>1. PICK i \in T : \A j \in T : <<j, i>> \notin OpToRel(<, Nat)
  BY NatLessThanWellFounded, WFMin
<1>2. \A j \in T : <<j, i>> \in OpToRel(<, Nat) <=> j < i
  BY DEF OpToRel
<1>3. \A j \in T : ~(j < i)
  BY <1>1, <1>2, Zenon
<1>4. i \in Nat /\ \A j \in T : j \in Nat
  OBVIOUS
<1> QED
  BY <1>3, <1>4

Working(u) == submissions[u] # AtRest

\* What is in hand or in the table belongs to a batch that is there.
BatchesAreThere ==
  /\ \A u \in Submission : Working(u) => importBatches[submissions[u].batch] # NoBatch
  /\ \A d \in Draft : imported[d] # NoDraft =>
       /\ importBatches[imported[d].batch] # NoBatch
       /\ imported[d].line \in DOMAIN rows[imported[d].batch]
       /\ rows[imported[d].batch][imported[d].line].status # "ERROR"

\* A row that is not faulty parses, and is not a duplicate of an earlier one.
RowsAreChecked ==
  \A b \in BatchId : \A i \in DOMAIN rows[b] : rows[b][i].status # "ERROR" =>
    /\ rows[b][i].key # Malformed
    /\ \A j \in 1 .. i - 1 : rows[b][j].key # rows[b][i].key

ErrorsAreCounted ==
  \A b \in BatchId : importBatches[b] # NoBatch => Cardinality(ErrorsCsv(b)) = importBatches[b].errorRows

\* What a submission has yet to do holds every pending row and no faulty one.
TodoIsOpen ==
  \A u \in Submission : Working(u) =>
    LET s == submissions[u] IN
    /\ \A i \in s.todo : rows[s.batch][i].status # "ERROR"
    /\ s.at # "OPENED" => RowsWith(s.batch, "PENDING") \subseteq s.todo

\* The draft in hand was made of the row at hand, and is nobody else's.
DraftsInHand ==
  \A u \in Submission : Working(u) =>
    LET s == submissions[u] IN
    /\ s.at \in {"OPENED", "NEXT"} => s.credential = "NONE"
    /\ s.at \in {"DRAFTED", "SUBMITTED"} =>
         /\ s.todo # {}
         /\ s.credential \in Draft
         /\ imported[s.credential] =
              [status |-> IF s.at = "DRAFTED" THEN "DRAFT" ELSE "PENDING_APPROVAL",
               batch |-> s.batch, line |-> Current(u)]
    /\ \A v \in Submission \ {u} :
         Working(v) /\ s.credential # "NONE" => submissions[v].credential # s.credential

ClosedAreDone == \A b \in BatchId : Closed(b) => RowsWith(b, "PENDING") = {}

ImportInv ==
  /\ ImportTypeOK /\ BatchesAreThere /\ RowsAreChecked /\ ErrorsAreCounted
  /\ TodoIsOpen /\ DraftsInHand /\ ClosedAreDone /\ SubmittedMeansSubmitted

LEMMA LinesOfSequence ==
  ASSUME NEW S, NEW seq \in Seq(S), Len(seq) <= MAX_ROWS PROVE (DOMAIN seq) \subseteq Line
<1>1. DOMAIN seq = 1 .. Len(seq) /\ Len(seq) \in Nat
  OBVIOUS
<1> QED
  BY <1>1, ImportAssumption DEF Line

LEMMA WorkingSubmission ==
  ASSUME ImportTypeOK, NEW u \in Submission, Working(u)
  PROVE  LET s == submissions[u] IN
         /\ s \in Submitting
         /\ s.batch \in BatchId
         /\ s.todo \subseteq DOMAIN rows[s.batch]
         /\ s.todo # {} => Current(u) \in s.todo /\ Current(u) \in Line
<1> DEFINE s == submissions[u]
<1>1. s \in Submitting /\ s.batch \in BatchId /\ s.todo \in SUBSET Nat
  BY DEF ImportTypeOK, Working, Submitting
<1>2. s.todo \subseteq DOMAIN rows[s.batch]
  BY DEF ImportTypeOK, Working
<1>3. s.todo # {} => \E i \in s.todo : \A j \in s.todo : i <= j
  BY <1>1, LeastLine
<1>4. s.todo # {} => Current(u) \in s.todo
  BY <1>3, Zenon DEF Current
<1>5. (DOMAIN rows[s.batch]) \subseteq Line
  <2>1. rows[s.batch] \in Seq(ImportRow) /\ Len(rows[s.batch]) <= MAX_ROWS
    BY <1>1 DEF ImportTypeOK
  <2> QED
    BY <2>1, LinesOfSequence
<1> QED
  BY <1>1, <1>2, <1>4, <1>5

LEMMA AtRestIsIdle == AtRest \notin Submitting /\ AtRest.at = "IDLE"
BY DEF AtRest, Submitting

\* What a mark does to the row at hand and to the submission.
LEMMA Marks ==
  ASSUME ImportTypeOK, NEW u \in Submission, MarkSubmitted(u) \/ MarkFailed(u),
         DraftsInHand
  PROVE  LET s == submissions[u] IN
         /\ Working(u) /\ s.todo # {} /\ s.at # "OPENED"
         /\ \E new \in ImportRow, m \in Nat, n \in Nat :
              /\ new.key = rows[s.batch][Current(u)].key
              /\ \/ new.status = "FAILED"
                 \/ new.status = "SUBMITTED" /\ new.credential = s.credential /\ s.at = "SUBMITTED"
              /\ rows' = [rows EXCEPT ![s.batch] = [rows[s.batch] EXCEPT ![Current(u)] = new]]
              /\ submissions' = [submissions EXCEPT ![u] =
                   [at |-> "NEXT", batch |-> s.batch, todo |-> s.todo \ {Current(u)},
                    credential |-> "NONE", submitted |-> m, failed |-> n]]
<1> DEFINE s == submissions[u]
           i == Current(u)
           old == rows[s.batch][i]
<1>1. Working(u) /\ s.at \in {"NEXT", "DRAFTED", "SUBMITTED"}
  BY AtRestIsIdle DEF MarkSubmitted, MarkFailed, Working
<1>2. s.todo # {}
  BY <1>1 DEF MarkSubmitted, MarkFailed, DraftsInHand
<1>3. s \in Submitting /\ i \in DOMAIN rows[s.batch] /\ s.batch \in BatchId
  BY <1>1, <1>2, WorkingSubmission
<1>4. rows[s.batch] \in Seq(ImportRow) /\ old \in ImportRow
  BY <1>3 DEF ImportTypeOK
<1>5. CASE MarkSubmitted(u)
  <2> DEFINE new == [old EXCEPT !.status = "SUBMITTED", !.credential = s.credential]
  <2>1. new \in ImportRow /\ new.key = old.key /\ new.status = "SUBMITTED"
        /\ new.credential = s.credential
    BY <1>3, <1>4 DEF ImportRow, Submitting
  <2>2. rows' = [rows EXCEPT ![s.batch] = [rows[s.batch] EXCEPT ![i] = new]]
    BY <1>5 DEF MarkSubmitted
  <2>3. submissions' = [submissions EXCEPT ![u] =
          [at |-> "NEXT", batch |-> s.batch, todo |-> s.todo \ {i},
           credential |-> "NONE", submitted |-> s.submitted + 1, failed |-> s.failed]]
    BY <1>3, <1>5 DEF MarkSubmitted, NextRow, ImportTypeOK
  <2>4. s.submitted + 1 \in Nat /\ s.failed \in Nat /\ s.at = "SUBMITTED"
    BY <1>3, <1>5 DEF Submitting, MarkSubmitted
  <2> QED
    BY <1>1, <1>2, <2>1, <2>2, <2>3, <2>4
<1>6. CASE MarkFailed(u)
  <2> DEFINE new == [old EXCEPT !.status = "FAILED"]
  <2>1. new \in ImportRow /\ new.key = old.key /\ new.status = "FAILED"
    BY <1>3, <1>4 DEF ImportRow
  <2>2. rows' = [rows EXCEPT ![s.batch] = [rows[s.batch] EXCEPT ![i] = new]]
    BY <1>6 DEF MarkFailed
  <2>3. submissions' = [submissions EXCEPT ![u] =
          [at |-> "NEXT", batch |-> s.batch, todo |-> s.todo \ {i},
           credential |-> "NONE", submitted |-> s.submitted, failed |-> s.failed + 1]]
    BY <1>3, <1>6 DEF MarkFailed, NextRow, ImportTypeOK
  <2>4. s.submitted \in Nat /\ s.failed + 1 \in Nat
    BY <1>3 DEF Submitting
  <2> QED
    BY <1>1, <1>2, <2>1, <2>2, <2>3, <2>4
<1> QED
  BY <1>5, <1>6

\* An upload writes a batch that nothing is about yet.
LEMMA UploadStep ==
  ASSUME ImportInv, NEW b \in BatchId, NEW file \in Files, Upload(b, file)
  PROVE  ImportInv'
<1> DEFINE faulty == {i \in DOMAIN file : ~Valid(file, i)}
           table == [i \in DOMAIN file |->
             [key |-> file[i], status |-> IF Valid(file, i) THEN "PENDING" ELSE "ERROR",
              credential |-> "NONE"]]
<1> USE DEF ImportInv
<1>1. /\ file \in Seq(Key \cup {Malformed}) /\ Len(file) <= MAX_ROWS
      /\ DOMAIN file = 1 .. Len(file) /\ Len(file) \in Nat
  BY ImportAssumption
<1>2. /\ importBatches[b] = NoBatch
      /\ rows' = [rows EXCEPT ![b] = table]
      /\ importBatches' = [importBatches EXCEPT ![b] =
           [status |-> "READY_FOR_REVIEW", errorRows |-> Cardinality(faulty)]]
      /\ imported' = imported /\ submissions' = submissions
  BY DEF Upload
<1>3. table \in Seq(ImportRow) /\ Len(table) = Len(file) /\ DOMAIN table = DOMAIN file
  <2>1. \A i \in DOMAIN file :
          [key |-> file[i], status |-> IF Valid(file, i) THEN "PENDING" ELSE "ERROR",
           credential |-> "NONE"] \in ImportRow
    BY <1>1 DEF ImportRow
  <2> QED
    BY <1>1, <2>1
<1>4. Cardinality(faulty) \in Nat
  <2>1. IsFiniteSet(1 .. Len(file))
    BY <1>1, FS_Interval
  <2>2. faulty \subseteq 1 .. Len(file)
    BY <1>1
  <2> QED
    BY <2>1, <2>2, FS_Subset, FS_CardinalityType
<1>5. /\ rows'[b] = table
      /\ \A c \in BatchId \ {b} : rows'[c] = rows[c] /\ importBatches'[c] = importBatches[c]
      /\ importBatches'[b] = [status |-> "READY_FOR_REVIEW", errorRows |-> Cardinality(faulty)]
      /\ importBatches'[b].status = "READY_FOR_REVIEW" /\ importBatches'[b].errorRows = Cardinality(faulty)
      /\ importBatches'[b] # NoBatch
  BY <1>2 DEF ImportTypeOK, NoBatch
<1>6. \A u \in Submission : Working(u) => submissions[u].batch \in BatchId \ {b}
  BY <1>2, WorkingSubmission DEF BatchesAreThere
<1>7. \A d \in Draft : imported[d] # NoDraft => imported[d].batch \in BatchId \ {b}
  BY <1>2 DEF BatchesAreThere, ImportTypeOK, DraftOf
<1>8. \A i \in DOMAIN table : /\ table[i].key = file[i]
                             /\ table[i].status = IF Valid(file, i) THEN "PENDING" ELSE "ERROR"
  BY <1>3
<1> HIDE DEF table, faulty
<1>9. ImportTypeOK'
  <2>1. importBatches' \in [BatchId -> BatchRow \cup {NoBatch}]
    BY <1>2, <1>4 DEF ImportTypeOK, BatchRow
  <2>2. rows' \in [BatchId -> Seq(ImportRow)] /\ \A c \in BatchId : Len(rows'[c]) <= MAX_ROWS
    BY <1>1, <1>2, <1>3, <1>5 DEF ImportTypeOK
  <2> QED
    BY <1>2, <1>5, <1>6, <2>1, <2>2 DEF ImportTypeOK, Working
<1>10. BatchesAreThere'
  BY <1>2, <1>5, <1>6, <1>7 DEF BatchesAreThere, Working
<1>11. RowsAreChecked'
  <2>1. ASSUME NEW i \in DOMAIN table, table[i].status # "ERROR"
        PROVE  /\ table[i].key # Malformed
               /\ \A j \in 1 .. i - 1 : table[j].key # table[i].key
    <3>1. Valid(file, i)
      BY <1>8, <2>1
    <3>2. \A j \in 1 .. i - 1 : j \in DOMAIN table
      BY <1>1, <1>3
    <3> QED
      BY <1>8, <3>1, <3>2 DEF Valid
  <2> QED
    BY <1>5, <2>1 DEF RowsAreChecked
<1>12. ErrorsAreCounted'
  <2>1. {i \in DOMAIN table : table[i].status = "ERROR"} = faulty
    BY <1>3, <1>8 DEF faulty
  <2>2. ErrorsCsv(b)' = faulty
    BY <1>5, <2>1 DEF ErrorsCsv, RowsWith
  <2>3. \A c \in BatchId \ {b} : ErrorsCsv(c)' = ErrorsCsv(c)
    BY <1>5 DEF ErrorsCsv, RowsWith
  <2> QED
    BY <1>5, <2>2, <2>3 DEF ErrorsAreCounted
<1>13. TodoIsOpen'
  BY <1>2, <1>5, <1>6 DEF TodoIsOpen, Working, RowsWith
<1>14. DraftsInHand'
  <2>1. \A u : Current(u)' = Current(u) /\ Working(u)' = Working(u)
    BY <1>2 DEF Current, Working
  <2> QED
    BY <1>2, <2>1 DEF DraftsInHand
<1>15. ClosedAreDone'
  BY <1>5 DEF ClosedAreDone, Closed, RowsWith
<1>16. SubmittedMeansSubmitted'
  <2>1. RowsWith(b, "SUBMITTED")' = {}
    BY <1>5, <1>8 DEF RowsWith
  <2>2. \A c \in BatchId \ {b} : RowsWith(c, "SUBMITTED")' = RowsWith(c, "SUBMITTED")
    BY <1>5 DEF RowsWith
  <2>3. ASSUME NEW c \in BatchId \ {b}, NEW i \in RowsWith(c, "SUBMITTED")
        PROVE  /\ rows'[c][i] = rows[c][i]
               /\ rows[c][i].credential # "NONE"
               /\ imported[rows[c][i].credential] =
                    [status |-> "PENDING_APPROVAL", batch |-> c, line |-> i]
    BY <1>5, <2>3 DEF SubmittedMeansSubmitted
  <2> SUFFICES ASSUME NEW c \in BatchId, NEW i \in RowsWith(c, "SUBMITTED")'
               PROVE  LET d == rows'[c][i].credential IN
                      d # "NONE" /\ imported'[d] =
                        [status |-> "PENDING_APPROVAL", batch |-> c, line |-> i]
    BY DEF SubmittedMeansSubmitted
  <2>4. c # b
    BY <2>1
  <2> QED
    BY <1>2, <2>2, <2>3, <2>4
<1> QED
  BY <1>9, <1>10, <1>11, <1>12, <1>13, <1>14, <1>15, <1>16

LEMMA CurrentStays ==
  ASSUME NEW u, submissions'[u].todo = submissions[u].todo PROVE Current(u)' = Current(u)
BY DEF Current

\* The types after a step of a submission that leaves the rows.
LEMMA StepTypes ==
  ASSUME ImportTypeOK, NEW u \in Submission, NEW t \in Submitting \cup {AtRest},
         submissions' = [submissions EXCEPT ![u] = t],
         t # AtRest => t.todo \subseteq DOMAIN rows[t.batch],
         rows' = rows,
         importBatches' \in [BatchId -> BatchRow \cup {NoBatch}],
         imported' \in [Draft -> DraftOf \cup {NoDraft}]
  PROVE  ImportTypeOK'
BY DEF ImportTypeOK

\* What a row that says SUBMITTED names is an id.
LEMMA SubmittedRow ==
  ASSUME ImportTypeOK, SubmittedMeansSubmitted,
         NEW c \in BatchId, NEW j \in RowsWith(c, "SUBMITTED")
  PROVE  /\ rows[c][j].credential \in Draft
         /\ rows[c][j].credential # "NONE"
         /\ imported[rows[c][j].credential] =
              [status |-> "PENDING_APPROVAL", batch |-> c, line |-> j]
<1>1. /\ rows[c][j].credential # "NONE"
      /\ imported[rows[c][j].credential] =
              [status |-> "PENDING_APPROVAL", batch |-> c, line |-> j]
  BY DEF SubmittedMeansSubmitted
<1>2. rows[c][j] \in ImportRow
  BY DEF RowsWith, ImportTypeOK
<1> QED
  BY <1>1, <1>2 DEF ImportRow

\* A step that writes nothing but where a submission is, without a draft in hand.
LEMMA QuietStep ==
  ASSUME ImportInv, NEW u \in Submission, NEW t \in Submitting \cup {AtRest},
         UNCHANGED <<importBatches, rows, imported>>,
         submissions' = [submissions EXCEPT ![u] = t],
         t # AtRest =>
           /\ t.at \in {"OPENED", "NEXT"} /\ t.credential = "NONE"
           /\ t.batch \in BatchId /\ importBatches[t.batch] # NoBatch
           /\ t.todo \subseteq RowsWith(t.batch, "PENDING")
           /\ t.at # "OPENED" => RowsWith(t.batch, "PENDING") \subseteq t.todo
  PROVE  ImportInv'
<1> USE DEF ImportInv
<1>1. importBatches' = importBatches /\ rows' = rows /\ imported' = imported
  OBVIOUS
<1>2. submissions'[u] = t /\ \A v \in Submission \ {u} : submissions'[v] = submissions[v]
  BY DEF ImportTypeOK
<1>3. ImportTypeOK'
  BY <1>1, <1>2 DEF ImportTypeOK, RowsWith
<1>4. BatchesAreThere' /\ RowsAreChecked' /\ ErrorsAreCounted' /\ ClosedAreDone'
        /\ SubmittedMeansSubmitted'
  BY <1>1, <1>2
     DEF BatchesAreThere, RowsAreChecked, ErrorsAreCounted, ErrorsCsv, RowsWith, ClosedAreDone,
         Closed, SubmittedMeansSubmitted, Working
<1>5. TodoIsOpen'
  BY <1>1, <1>2 DEF TodoIsOpen, RowsWith, Working
<1>6. DraftsInHand'
  <2>1. \A v \in Submission \ {u} : Current(v)' = Current(v) /\ Working(v)' = Working(v)
    BY <1>2, CurrentStays DEF Working
  <2>2. Working(u)' => t.at \in {"OPENED", "NEXT"} /\ t.credential = "NONE"
    BY <1>2 DEF Working
  <2> SUFFICES ASSUME NEW v \in Submission, Working(v)'
               PROVE  LET s == submissions'[v] IN
                 /\ s.at \in {"OPENED", "NEXT"} => s.credential = "NONE"
                 /\ s.at \in {"DRAFTED", "SUBMITTED"} =>
                      /\ s.todo # {}
                      /\ s.credential \in Draft
                      /\ imported'[s.credential] =
                           [status |-> IF s.at = "DRAFTED" THEN "DRAFT" ELSE "PENDING_APPROVAL",
                            batch |-> s.batch, line |-> Current(v)']
                 /\ \A w \in Submission \ {v} : Working(w)' /\ s.credential # "NONE" =>
                      submissions'[w].credential # s.credential
    BY DEF DraftsInHand
  <2>3. CASE v = u
    BY <1>2, <2>2, <2>3
  <2>4. CASE v # u
    BY <1>1, <1>2, <2>1, <2>2, <2>4 DEF DraftsInHand
  <2> QED
    BY <2>3, <2>4
<1> QED
  BY <1>3, <1>4, <1>5, <1>6

LEMMA OpenStep ==
  ASSUME ImportInv, NEW u \in Submission, NEW b \in BatchId, OpenBatch(u, b)
  PROVE  ImportInv'
<1>1. PICK t : t = [at |-> "OPENED", batch |-> b, todo |-> {}, credential |-> "NONE",
                    submitted |-> 0, failed |-> 0]
  OBVIOUS
<1>2. t \in Submitting /\ t.at = "OPENED" /\ t.credential = "NONE" /\ t.batch = b /\ t.todo = {}
  BY <1>1 DEF Submitting
<1>3. importBatches[b] # NoBatch
  BY DEF OpenBatch, NoBatch
<1>4. UNCHANGED <<importBatches, rows, imported>> /\ submissions' = [submissions EXCEPT ![u] = t]
  BY <1>1 DEF OpenBatch
<1> QED
  BY <1>2, <1>3, <1>4, QuietStep

LEMMA ReadStep ==
  ASSUME ImportInv, NEW u \in Submission, ReadPendingRows(u)
  PROVE  ImportInv'
<1> DEFINE s == submissions[u]
           pending == RowsWith(s.batch, "PENDING")
<1>1. Working(u) /\ s.at = "OPENED" /\ s \in Submitting /\ s.batch \in BatchId
  BY AtRestIsIdle, WorkingSubmission DEF ReadPendingRows, Working, ImportInv
<1>2. s.credential = "NONE" /\ importBatches[s.batch] # NoBatch
  BY <1>1 DEF ImportInv, DraftsInHand, BatchesAreThere
<1>3. pending \in SUBSET Nat
  BY <1>1 DEF RowsWith, ImportInv, ImportTypeOK
<1>4. PICK t : t = [s EXCEPT !.at = "NEXT", !.todo = pending]
  OBVIOUS
<1>5. /\ t \in Submitting /\ t.at = "NEXT" /\ t.batch = s.batch /\ t.todo = pending
      /\ t.credential = "NONE"
  BY <1>1, <1>2, <1>3, <1>4 DEF Submitting
<1>6. UNCHANGED <<importBatches, rows, imported>> /\ submissions' = [submissions EXCEPT ![u] = t]
  BY <1>4 DEF ReadPendingRows, ImportInv, ImportTypeOK
<1> QED
  BY <1>1, <1>2, <1>5, <1>6, QuietStep

LEMMA DieStep ==
  ASSUME ImportInv, NEW u \in Submission, Die(u)
  PROVE  ImportInv'
BY QuietStep DEF Die

LEMMA CloseStep ==
  ASSUME ImportInv, NEW u \in Submission, CloseBatch(u)
  PROVE  ImportInv'
<1> USE DEF ImportInv
<1> DEFINE s == submissions[u]
           b == s.batch
<1>1. Working(u) /\ s \in Submitting /\ b \in BatchId /\ s.at = "NEXT" /\ s.todo = {}
  BY AtRestIsIdle, WorkingSubmission DEF CloseBatch, Working
<1>2. importBatches[b] \in BatchRow
  BY <1>1 DEF BatchesAreThere, ImportTypeOK
<1>3. PICK closed : closed = [importBatches[b] EXCEPT !.status = FinalStatus(s)]
  OBVIOUS
<1>4. FinalStatus(s) \in {"COMPLETED", "PARTIALLY_COMPLETED", "FAILED"}
  BY DEF FinalStatus
<1>5. closed \in BatchRow /\ closed.errorRows = importBatches[b].errorRows /\ closed # NoBatch
  BY <1>2, <1>3, <1>4 DEF BatchRow, NoBatch
<1>6. /\ importBatches' = [importBatches EXCEPT ![b] = closed]
      /\ submissions' = [submissions EXCEPT ![u] = AtRest]
      /\ rows' = rows /\ imported' = imported
  BY <1>3 DEF CloseBatch
<1>7. /\ importBatches'[b] = closed
      /\ \A c \in BatchId \ {b} : importBatches'[c] = importBatches[c]
      /\ submissions'[u] = AtRest
      /\ \A v \in Submission \ {u} : submissions'[v] = submissions[v]
  BY <1>1, <1>6 DEF ImportTypeOK
<1>8. ImportTypeOK'
  <2>1. importBatches' \in [BatchId -> BatchRow \cup {NoBatch}]
        /\ imported' \in [Draft -> DraftOf \cup {NoDraft}]
    BY <1>5, <1>6 DEF ImportTypeOK
  <2> QED
    BY <1>6, <2>1, StepTypes
<1>9. BatchesAreThere'
  BY <1>1, <1>5, <1>6, <1>7 DEF BatchesAreThere, Working
<1>10. ErrorsAreCounted'
  <2>1. \A c \in BatchId : ErrorsCsv(c)' = ErrorsCsv(c)
    BY <1>6 DEF ErrorsCsv, RowsWith
  <2>2. \A c \in BatchId : importBatches'[c].errorRows = importBatches[c].errorRows
                         /\ (importBatches'[c] # NoBatch => importBatches[c] # NoBatch)
    BY <1>1, <1>5, <1>7 DEF BatchesAreThere
  <2> QED
    BY <2>1, <2>2 DEF ErrorsAreCounted
<1>11. RowsAreChecked' /\ SubmittedMeansSubmitted' /\ TodoIsOpen'
  BY <1>6, <1>7 DEF RowsAreChecked, SubmittedMeansSubmitted, TodoIsOpen, RowsWith, Working
<1>12. ClosedAreDone'
  BY <1>1, <1>6, <1>7 DEF ClosedAreDone, Closed, RowsWith, TodoIsOpen
<1>13. DraftsInHand'
  <2>1. \A v \in Submission \ {u} : Current(v)' = Current(v) /\ Working(v)' = Working(v)
    BY <1>7, CurrentStays DEF Working
  <2> QED
    BY <1>6, <1>7, <2>1 DEF DraftsInHand, Working
<1> QED
  BY <1>8, <1>9, <1>10, <1>11, <1>12, <1>13

\* The new id is in nobody's hand and in no row.
LEMMA InsertStep ==
  ASSUME ImportInv, NEW u \in Submission, InsertDraft(u)
  PROVE  ImportInv'
<1> USE DEF ImportInv
<1> DEFINE s == submissions[u]
           b == s.batch
           i == Current(u)
<1>1. /\ Working(u) /\ s \in Submitting /\ b \in BatchId /\ s.at = "NEXT" /\ s.todo # {}
      /\ i \in s.todo /\ i \in Line /\ i \in DOMAIN rows[b]
  BY AtRestIsIdle, WorkingSubmission DEF InsertDraft, Working
<1>2. PICK new \in Draft :
        /\ imported[new] = NoDraft
        /\ imported' = [imported EXCEPT ![new] = [status |-> "DRAFT", batch |-> b, line |-> i]]
        /\ submissions' = [submissions EXCEPT ![u].at = "DRAFTED", ![u].credential = new]
  BY Zenon DEF InsertDraft
<1>3. PICK row : row = [status |-> "DRAFT", batch |-> b, line |-> i]
  OBVIOUS
<1>4. PICK t : t = [s EXCEPT !.at = "DRAFTED", !.credential = new]
  OBVIOUS
<1>5. /\ row \in DraftOf /\ row # NoDraft /\ row.status = "DRAFT" /\ row.batch = b /\ row.line = i
  BY <1>1, <1>3 DEF DraftOf, NoDraft
<1>6. /\ t \in Submitting /\ t # AtRest /\ t.at = "DRAFTED" /\ t.batch = b /\ t.todo = s.todo
      /\ t.credential = new
  BY <1>1, <1>4, AtRestIsIdle DEF Submitting
<1>7. new # "NONE"
  BY ImportAssumption
<1>8. importBatches' = importBatches /\ rows' = rows
  BY DEF InsertDraft
<1>9. /\ imported'[new] = row
      /\ \A d \in Draft \ {new} : imported'[d] = imported[d]
      /\ imported' = [imported EXCEPT ![new] = row]
  BY <1>2, <1>3 DEF ImportTypeOK
<1>10. /\ submissions'[u] = t
       /\ \A v \in Submission \ {u} : submissions'[v] = submissions[v]
       /\ submissions' = [submissions EXCEPT ![u] = t]
  BY <1>2, <1>4 DEF ImportTypeOK
<1>11. ImportTypeOK'
  <2>1. importBatches' \in [BatchId -> BatchRow \cup {NoBatch}]
        /\ imported' \in [Draft -> DraftOf \cup {NoDraft}]
    BY <1>5, <1>8, <1>9 DEF ImportTypeOK
  <2>2. t.todo \subseteq DOMAIN rows[t.batch]
    BY <1>1, <1>6, WorkingSubmission
  <2> QED
    BY <1>6, <1>8, <1>10, <2>1, <2>2, StepTypes
<1>12. RowsAreChecked' /\ ErrorsAreCounted' /\ ClosedAreDone'
  BY <1>8 DEF RowsAreChecked, ErrorsAreCounted, ErrorsCsv, RowsWith, ClosedAreDone, Closed
<1>13. BatchesAreThere'
  <2>1. rows[b][i].status # "ERROR" /\ importBatches[b] # NoBatch
    BY <1>1 DEF TodoIsOpen, BatchesAreThere
  <2> QED
    BY <1>1, <1>5, <1>6, <1>8, <1>9, <1>10, <2>1 DEF BatchesAreThere, Working
<1>14. TodoIsOpen'
  BY <1>1, <1>6, <1>8, <1>10 DEF TodoIsOpen, RowsWith, Working
<1>15. \A v \in Submission : Current(v)' = Current(v) /\ (v # u => Working(v)' = Working(v))
  BY <1>6, <1>10, CurrentStays DEF Working
<1>16. \A v \in Submission : Working(v) => submissions[v].credential # new
  <2> SUFFICES ASSUME NEW v \in Submission, Working(v), submissions[v].credential = new
               PROVE  FALSE
    OBVIOUS
  <2>1. submissions[v].at \in {"DRAFTED", "SUBMITTED"}
    BY <1>7, WorkingSubmission DEF DraftsInHand, Submitting
  <2>2. imported[new] =
          [status |-> IF submissions[v].at = "DRAFTED" THEN "DRAFT" ELSE "PENDING_APPROVAL",
           batch |-> submissions[v].batch, line |-> Current(v)]
    BY <2>1 DEF DraftsInHand
  <2>3. imported[new].status \in {"DRAFT", "PENDING_APPROVAL"}
    BY <2>2
  <2> QED
    BY <1>2, <2>3 DEF NoDraft
<1>17. DraftsInHand'
  <2> SUFFICES ASSUME NEW v \in Submission, Working(v)'
               PROVE  LET r == submissions'[v] IN
                 /\ r.at \in {"OPENED", "NEXT"} => r.credential = "NONE"
                 /\ r.at \in {"DRAFTED", "SUBMITTED"} =>
                      /\ r.todo # {}
                      /\ r.credential \in Draft
                      /\ imported'[r.credential] =
                           [status |-> IF r.at = "DRAFTED" THEN "DRAFT" ELSE "PENDING_APPROVAL",
                            batch |-> r.batch, line |-> Current(v)']
                 /\ \A w \in Submission \ {v} : Working(w)' /\ r.credential # "NONE" =>
                      submissions'[w].credential # r.credential
    BY DEF DraftsInHand
  <2>1. CASE v = u
    BY <1>1, <1>3, <1>6, <1>9, <1>10, <1>15, <1>16, <2>1
  <2>2. CASE v # u
    <3>1. submissions[v].credential # new /\ Working(v)
      BY <1>15, <1>16, <2>2
    <3>2. submissions[v].credential \in Draft =>
            imported'[submissions[v].credential] = imported[submissions[v].credential]
      BY <1>9, <3>1
    <3> QED
      BY <1>6, <1>10, <1>15, <2>2, <3>1, <3>2 DEF DraftsInHand
  <2> QED
    BY <2>1, <2>2
<1>18. SubmittedMeansSubmitted'
  <2> SUFFICES ASSUME NEW c \in BatchId, NEW j \in RowsWith(c, "SUBMITTED")
               PROVE  LET d == rows[c][j].credential IN
                      d # "NONE" /\ imported'[d] =
                        [status |-> "PENDING_APPROVAL", batch |-> c, line |-> j]
    BY <1>8 DEF SubmittedMeansSubmitted, RowsWith
  <2> DEFINE d == rows[c][j].credential
  <2>1. d # "NONE" /\ imported[d] = [status |-> "PENDING_APPROVAL", batch |-> c, line |-> j]
    BY SubmittedRow
  <2>2. d \in Draft
    BY SubmittedRow
  <2>3. d # new
    BY <1>2, <2>1 DEF NoDraft
  <2> QED
    BY <1>9, <2>1, <2>2, <2>3
<1> QED
  BY <1>11, <1>12, <1>13, <1>14, <1>17, <1>18

LEMMA SubmitDraftStep ==
  ASSUME ImportInv, NEW u \in Submission, SubmitDraft(u)
  PROVE  ImportInv'
<1> USE DEF ImportInv
<1> DEFINE s == submissions[u]
           b == s.batch
           i == Current(u)
           mine == s.credential
<1>1. Working(u) /\ s \in Submitting /\ b \in BatchId /\ s.at = "DRAFTED"
  BY AtRestIsIdle, WorkingSubmission DEF SubmitDraft, Working
<1>2. /\ mine \in Draft /\ s.todo # {}
      /\ imported[mine] = [status |-> "DRAFT", batch |-> b, line |-> i]
      /\ \A v \in Submission \ {u} : Working(v) => submissions[v].credential # mine
  <2>1. mine # "NONE" <=> TRUE
    BY <1>1, ImportAssumption DEF DraftsInHand
  <2> QED
    BY <1>1, <2>1 DEF DraftsInHand
<1>3. i \in Line
  BY <1>1, <1>2, WorkingSubmission
<1>4. PICK row : row = [status |-> "PENDING_APPROVAL", batch |-> b, line |-> i]
  OBVIOUS
<1>5. PICK t : t = [s EXCEPT !.at = "SUBMITTED"]
  OBVIOUS
<1>6. row \in DraftOf /\ row # NoDraft /\ row.batch = b /\ row.line = i
  BY <1>1, <1>3, <1>4 DEF DraftOf, NoDraft
<1>7. /\ t \in Submitting /\ t # AtRest /\ t.at = "SUBMITTED" /\ t.batch = b /\ t.todo = s.todo
      /\ t.credential = mine
  BY <1>1, <1>5, AtRestIsIdle DEF Submitting
<1>8. importBatches' = importBatches /\ rows' = rows
  BY DEF SubmitDraft
<1>9. /\ imported'[mine] = row
      /\ \A d \in Draft \ {mine} : imported'[d] = imported[d]
      /\ imported' = [imported EXCEPT ![mine] = row]
  <2>1. [imported[mine] EXCEPT !.status = "PENDING_APPROVAL"] = row
    BY <1>2, <1>4
  <2>2. imported' = [imported EXCEPT ![mine] = [imported[mine] EXCEPT !.status = "PENDING_APPROVAL"]]
    BY DEF SubmitDraft
  <2> QED
    BY <1>2, <2>1, <2>2 DEF ImportTypeOK
<1>10. /\ submissions'[u] = t
       /\ \A v \in Submission \ {u} : submissions'[v] = submissions[v]
       /\ submissions' = [submissions EXCEPT ![u] = t]
  BY <1>5 DEF ImportTypeOK, SubmitDraft
<1>11. ImportTypeOK'
  <2>1. importBatches' \in [BatchId -> BatchRow \cup {NoBatch}]
        /\ imported' \in [Draft -> DraftOf \cup {NoDraft}]
    BY <1>6, <1>8, <1>9 DEF ImportTypeOK
  <2>2. t.todo \subseteq DOMAIN rows[t.batch]
    BY <1>1, <1>7, WorkingSubmission
  <2> QED
    BY <1>7, <1>8, <1>10, <2>1, <2>2, StepTypes
<1>12. RowsAreChecked' /\ ErrorsAreCounted' /\ ClosedAreDone'
  BY <1>8 DEF RowsAreChecked, ErrorsAreCounted, ErrorsCsv, RowsWith, ClosedAreDone, Closed
<1>13. BatchesAreThere'
  <2>1. imported[mine] # NoDraft /\ imported[mine].batch = b /\ imported[mine].line = i
    BY <1>2 DEF NoDraft
  <2> QED
    BY <1>1, <1>2, <1>6, <1>7, <1>8, <1>9, <1>10, <2>1 DEF BatchesAreThere, Working
<1>14. TodoIsOpen'
  BY <1>1, <1>7, <1>8, <1>10 DEF TodoIsOpen, RowsWith, Working
<1>15. \A v \in Submission : Current(v)' = Current(v) /\ (v # u => Working(v)' = Working(v))
  BY <1>7, <1>10, CurrentStays DEF Working
<1>16. DraftsInHand'
  <2> SUFFICES ASSUME NEW v \in Submission, Working(v)'
               PROVE  LET r == submissions'[v] IN
                 /\ r.at \in {"OPENED", "NEXT"} => r.credential = "NONE"
                 /\ r.at \in {"DRAFTED", "SUBMITTED"} =>
                      /\ r.todo # {}
                      /\ r.credential \in Draft
                      /\ imported'[r.credential] =
                           [status |-> IF r.at = "DRAFTED" THEN "DRAFT" ELSE "PENDING_APPROVAL",
                            batch |-> r.batch, line |-> Current(v)']
                 /\ \A w \in Submission \ {v} : Working(w)' /\ r.credential # "NONE" =>
                      submissions'[w].credential # r.credential
    BY DEF DraftsInHand
  <2>1. CASE v = u
    BY <1>2, <1>4, <1>7, <1>9, <1>10, <1>15, <2>1
  <2>2. CASE v # u
    <3>1. submissions[v].credential # mine /\ Working(v)
      BY <1>2, <1>15, <2>2
    <3>2. submissions[v].credential \in Draft =>
            imported'[submissions[v].credential] = imported[submissions[v].credential]
      BY <1>9, <3>1
    <3> QED
      BY <1>7, <1>10, <1>15, <2>2, <3>1, <3>2 DEF DraftsInHand
  <2> QED
    BY <2>1, <2>2
<1>17. SubmittedMeansSubmitted'
  <2> SUFFICES ASSUME NEW c \in BatchId, NEW j \in RowsWith(c, "SUBMITTED")
               PROVE  LET d == rows[c][j].credential IN
                      d # "NONE" /\ imported'[d] =
                        [status |-> "PENDING_APPROVAL", batch |-> c, line |-> j]
    BY <1>8 DEF SubmittedMeansSubmitted, RowsWith
  <2> DEFINE d == rows[c][j].credential
  <2>1. d # "NONE" /\ imported[d] = [status |-> "PENDING_APPROVAL", batch |-> c, line |-> j]
    BY SubmittedRow
  <2>2. d \in Draft
    BY SubmittedRow
  <2>3. imported[d].status # imported[mine].status
    BY <1>2, <2>1
  <2> QED
    BY <1>9, <2>1, <2>2, <2>3
<1> QED
  BY <1>11, <1>12, <1>13, <1>14, <1>16, <1>17

\* A mark takes its row out of the pending ones, and out of nobody's errors.
LEMMA MarkStep ==
  ASSUME ImportInv, NEW u \in Submission, MarkSubmitted(u) \/ MarkFailed(u)
  PROVE  ImportInv'
<1> USE DEF ImportInv
<1> DEFINE s == submissions[u]
           b == s.batch
           i == Current(u)
<1>1. PICK new \in ImportRow, m \in Nat, n \in Nat :
        /\ new.key = rows[b][i].key
        /\ \/ new.status = "FAILED"
           \/ new.status = "SUBMITTED" /\ new.credential = s.credential /\ s.at = "SUBMITTED"
        /\ rows' = [rows EXCEPT ![b] = [rows[b] EXCEPT ![i] = new]]
        /\ submissions' = [submissions EXCEPT ![u] =
             [at |-> "NEXT", batch |-> b, todo |-> s.todo \ {i},
              credential |-> "NONE", submitted |-> m, failed |-> n]]
  BY Marks
<1>2. Working(u) /\ s.todo # {} /\ s.at # "OPENED"
  BY Marks
<1>3. /\ s \in Submitting /\ b \in BatchId /\ i \in s.todo /\ i \in DOMAIN rows[b]
      /\ s.todo \subseteq DOMAIN rows[b] /\ s.todo \in SUBSET Nat
  BY <1>2, WorkingSubmission DEF Submitting
<1>4. importBatches' = importBatches /\ imported' = imported
  BY DEF MarkSubmitted, MarkFailed
<1>5. PICK t : t = [at |-> "NEXT", batch |-> b, todo |-> s.todo \ {i},
                    credential |-> "NONE", submitted |-> m, failed |-> n]
  OBVIOUS
<1>6. /\ t \in Submitting /\ t # AtRest /\ t.at = "NEXT" /\ t.batch = b
      /\ t.todo = s.todo \ {i} /\ t.credential = "NONE"
  BY <1>3, <1>5, AtRestIsIdle DEF Submitting
<1>7. /\ submissions'[u] = t
      /\ \A v \in Submission \ {u} : submissions'[v] = submissions[v]
      /\ submissions' = [submissions EXCEPT ![u] = t]
  BY <1>1, <1>5 DEF ImportTypeOK
<1>8. rows[b] \in Seq(ImportRow) /\ rows[b][i].status # "ERROR"
  BY <1>2, <1>3 DEF ImportTypeOK, TodoIsOpen
<1>9. /\ rows'[b] \in Seq(ImportRow) /\ Len(rows'[b]) = Len(rows[b])
      /\ \A c \in BatchId \ {b} : rows'[c] = rows[c]
      /\ rows'[b][i] = new
      /\ \A j \in DOMAIN rows[b] : j # i => rows'[b][j] = rows[b][j]
  BY <1>1, <1>3, <1>8 DEF ImportTypeOK
<1>10. \A c \in BatchId : /\ DOMAIN rows'[c] = DOMAIN rows[c]
                        /\ \A j \in DOMAIN rows[c] :
                             /\ rows'[c][j].key = rows[c][j].key
                             /\ rows'[c][j].status = "ERROR" <=> rows[c][j].status = "ERROR"
                             /\ rows'[c][j].status = "PENDING" => rows[c][j].status = "PENDING"
  BY <1>1, <1>3, <1>8, <1>9
<1>11. /\ \A c \in BatchId : /\ ErrorsCsv(c)' = ErrorsCsv(c)
                           /\ RowsWith(c, "PENDING")' \subseteq RowsWith(c, "PENDING")
       /\ \A c \in BatchId : c = b =>
            RowsWith(c, "PENDING")' \subseteq RowsWith(c, "PENDING") \ {i}
  <2>1. \A c \in BatchId : ErrorsCsv(c)' = ErrorsCsv(c)
    BY <1>10 DEF RowsWith, ErrorsCsv
  <2>2. \A c \in BatchId : RowsWith(c, "PENDING")' \subseteq RowsWith(c, "PENDING")
    BY <1>10 DEF RowsWith
  <2>3. \A c \in BatchId : c = b => \A j \in RowsWith(c, "PENDING")' : j # i
    BY <1>1, <1>9 DEF RowsWith
  <2> QED
    BY <2>1, <2>2, <2>3, <1>3
<1>12. ImportTypeOK'
  <2>1. rows' \in [BatchId -> Seq(ImportRow)] /\ \A c \in BatchId : Len(rows'[c]) <= MAX_ROWS
    BY <1>1, <1>3, <1>9 DEF ImportTypeOK
  <2>2. ASSUME NEW v \in Submission, submissions'[v] # AtRest
        PROVE  submissions'[v].todo \subseteq DOMAIN rows'[submissions'[v].batch]
    <3>1. CASE v = u
      BY <1>3, <1>6, <1>7, <1>10, <3>1
    <3>2. CASE v # u
      BY <1>7, <1>10, <2>2, <3>2, WorkingSubmission DEF Working
    <3> QED
      BY <3>1, <3>2
  <2> QED
    BY <1>4, <1>6, <1>7, <2>1, <2>2 DEF ImportTypeOK
<1>13. BatchesAreThere'
  <2>1. \A d \in Draft : imported[d] # NoDraft => imported[d].batch \in BatchId
    BY DEF ImportTypeOK, DraftOf
  <2> QED
    BY <1>2, <1>4, <1>6, <1>7, <1>10, <2>1 DEF BatchesAreThere, Working
<1>14. RowsAreChecked'
  <2> SUFFICES ASSUME NEW c \in BatchId, NEW j \in DOMAIN rows'[c], rows'[c][j].status # "ERROR"
               PROVE  /\ rows'[c][j].key # Malformed
                      /\ \A k \in 1 .. j - 1 : rows'[c][k].key # rows'[c][j].key
    BY DEF RowsAreChecked
  <2>1. j \in DOMAIN rows[c] /\ rows[c][j].status # "ERROR"
    BY <1>10
  <2>2. \A k \in 1 .. j - 1 : k \in DOMAIN rows[c]
    BY <2>1 DEF ImportTypeOK
  <2> QED
    BY <1>10, <2>1, <2>2 DEF RowsAreChecked
<1>15. ErrorsAreCounted' /\ ClosedAreDone'
  BY <1>4, <1>11 DEF ErrorsAreCounted, ClosedAreDone, Closed
<1>16. TodoIsOpen'
  <2>1. ASSUME NEW v \in Submission, Working(v)', NEW c \in BatchId, c = submissions'[v].batch
        PROVE  /\ \A j \in submissions'[v].todo : rows'[c][j].status # "ERROR"
               /\ submissions'[v].at # "OPENED" =>
                    RowsWith(c, "PENDING")' \subseteq submissions'[v].todo
    <3>1. CASE v = u
      <4>1. \A j \in s.todo : rows[b][j].status # "ERROR"
        BY <1>2 DEF TodoIsOpen
      <4>2. \A j \in s.todo : rows'[b][j].status # "ERROR"
        BY <1>3, <1>10, <4>1
      <4>3. RowsWith(b, "PENDING") \subseteq s.todo
        BY <1>2 DEF TodoIsOpen
      <4> QED
        BY <1>6, <1>7, <1>11, <2>1, <3>1, <4>2, <4>3
    <3>2. CASE v # u
      <4>1. Working(v) /\ submissions'[v] = submissions[v]
        BY <1>7, <2>1, <3>2 DEF Working
      <4>2. submissions[v].todo \subseteq DOMAIN rows[c]
        BY <2>1, <4>1, WorkingSubmission
      <4>3. \A j \in submissions[v].todo : rows'[c][j].status # "ERROR"
        BY <1>10, <2>1, <4>1, <4>2 DEF TodoIsOpen
      <4>4. submissions[v].at # "OPENED" => RowsWith(c, "PENDING") \subseteq submissions[v].todo
        BY <2>1, <4>1 DEF TodoIsOpen
      <4> QED
        BY <1>11, <4>1, <4>3, <4>4
    <3> QED
      BY <3>1, <3>2
  <2>2. \A v \in Submission : Working(v)' => submissions'[v].batch \in BatchId
    BY <1>3, <1>6, <1>7, WorkingSubmission DEF Working
  <2> QED
    BY <2>1, <2>2 DEF TodoIsOpen, RowsWith
<1>17. DraftsInHand'
  <2>1. \A v \in Submission \ {u} : Current(v)' = Current(v) /\ Working(v)' = Working(v)
    BY <1>7, CurrentStays DEF Working
  <2> SUFFICES ASSUME NEW v \in Submission, Working(v)'
               PROVE  LET r == submissions'[v] IN
                 /\ r.at \in {"OPENED", "NEXT"} => r.credential = "NONE"
                 /\ r.at \in {"DRAFTED", "SUBMITTED"} =>
                      /\ r.todo # {}
                      /\ r.credential \in Draft
                      /\ imported'[r.credential] =
                           [status |-> IF r.at = "DRAFTED" THEN "DRAFT" ELSE "PENDING_APPROVAL",
                            batch |-> r.batch, line |-> Current(v)']
                 /\ \A w \in Submission \ {v} : Working(w)' /\ r.credential # "NONE" =>
                      submissions'[w].credential # r.credential
    BY DEF DraftsInHand
  <2>2. CASE v = u
    BY <1>6, <1>7, <2>2
  <2>3. CASE v # u
    BY <1>4, <1>6, <1>7, <2>1, <2>3 DEF DraftsInHand
  <2> QED
    BY <2>2, <2>3
<1>18. SubmittedMeansSubmitted'
  <2> SUFFICES ASSUME NEW c \in BatchId, NEW j \in RowsWith(c, "SUBMITTED")'
               PROVE  LET d == rows'[c][j].credential IN
                      d # "NONE" /\ imported[d] =
                        [status |-> "PENDING_APPROVAL", batch |-> c, line |-> j]
    BY <1>4 DEF SubmittedMeansSubmitted, RowsWith
  <2>1. CASE c = b /\ j = i
    <3>1. new.status = "SUBMITTED"
      BY <1>9, <2>1 DEF RowsWith
    <3>2. new.credential = s.credential /\ s.at = "SUBMITTED"
      BY <1>1, <3>1
    <3>3. s.credential # "NONE" /\ imported[s.credential] =
            [status |-> "PENDING_APPROVAL", batch |-> b, line |-> i]
      BY <1>2, <3>2, ImportAssumption DEF DraftsInHand
    <3> QED
      BY <1>9, <2>1, <3>2, <3>3
  <2>2. CASE c # b \/ j # i
    <3>1. j \in DOMAIN rows[c] /\ rows'[c][j] = rows[c][j]
      BY <1>9, <1>10, <2>2 DEF RowsWith
    <3>2. j \in RowsWith(c, "SUBMITTED")
      BY <3>1 DEF RowsWith
    <3> QED
      BY <3>1, <3>2 DEF SubmittedMeansSubmitted
  <2> QED
    BY <2>1, <2>2
<1> QED
  BY <1>12, <1>13, <1>14, <1>15, <1>16, <1>17, <1>18

LEMMA ImportStep == ImportInv /\ [ImportNext]_importVars => ImportInv'
<1> SUFFICES ASSUME ImportInv, [ImportNext]_importVars PROVE ImportInv'
  OBVIOUS
<1>1. CASE \E b \in BatchId, file \in Files : Upload(b, file)
  BY <1>1, UploadStep
<1>2. CASE \E u \in Submission : SubmitStep(u)
  BY <1>2, OpenStep, ReadStep, InsertStep, SubmitDraftStep, MarkStep, CloseStep, DieStep
     DEF SubmitStep
<1>3. CASE UNCHANGED importVars
  <2>1. importBatches' = importBatches /\ rows' = rows /\ imported' = imported /\ submissions' = submissions
    BY <1>3 DEF importVars
  <2>2. \A u : Current(u)' = Current(u)
    BY <2>1 DEF Current
  <2>3. ImportTypeOK' /\ BatchesAreThere' /\ RowsAreChecked' /\ ErrorsAreCounted' /\ ClosedAreDone'
    BY <2>1 DEF ImportInv, ImportTypeOK, BatchesAreThere, RowsAreChecked, ErrorsAreCounted,
                ErrorsCsv, RowsWith, ClosedAreDone, Closed, Working
  <2>4. TodoIsOpen' /\ DraftsInHand' /\ SubmittedMeansSubmitted'
    BY <2>1, <2>2 DEF ImportInv, TodoIsOpen, DraftsInHand, SubmittedMeansSubmitted, RowsWith,
                      Working
  <2> QED
    BY <2>3, <2>4 DEF ImportInv
<1> QED
  BY <1>1, <1>2, <1>3 DEF ImportNext

LEMMA ImportStart == ImportInit => ImportInv
<1> SUFFICES ASSUME ImportInit PROVE ImportInv
  OBVIOUS
<1>1. /\ \A b \in BatchId : importBatches[b] = NoBatch /\ rows[b] = <<>>
      /\ \A d \in Draft : imported[d] = NoDraft
      /\ \A u \in Submission : submissions[u] = AtRest
  BY DEF ImportInit
<1>2. <<>> \in Seq(ImportRow) /\ Len(<<>>) = 0 /\ DOMAIN <<>> = {} /\ 0 <= MAX_ROWS
  BY ImportAssumption
<1>3. ImportTypeOK
  BY <1>1, <1>2 DEF ImportInit, ImportTypeOK
<1> QED
  BY <1>1, <1>3 DEF ImportInv, BatchesAreThere, RowsAreChecked, ErrorsAreCounted,
     TodoIsOpen, DraftsInHand, ClosedAreDone, Closed, SubmittedMeansSubmitted, RowsWith, Working,
     NoBatch

\* The inductive invariant of the import.
THEOREM ImportInvariance == ImportSpec => []ImportInv
BY ImportStart, ImportStep, PTL DEF ImportSpec

\* At every write of a submission, of any number of them at a time and after the
\* death of any, a closed batch has no pending row, its file of errors is what it
\* counted, no credential comes of a faulty row, and a row that says SUBMITTED names a
\* credential made of it that is with the approvers (imports/routes.ts:424-467).  Of
\* the rows that say FAILED and of what COMPLETED means it says nothing.
THEOREM SubmittedRowsAreTrue == ImportSpec => []SubmittedAndClosedAreTrue
<1>1. ImportInv => SubmittedAndClosedAreTrue
  <2> SUFFICES ASSUME ImportInv PROVE SubmittedAndClosedAreTrue
    OBVIOUS
  <2>1. ASSUME NEW d \in Draft, imported[d] # NoDraft
        PROVE  LET own == rows[imported[d].batch] IN
               /\ own[imported[d].line].key # Malformed
               /\ \A j \in 1 .. imported[d].line - 1 : own[j].key # own[imported[d].line].key
    <3>1. imported[d].batch \in BatchId
      BY <2>1 DEF ImportInv, ImportTypeOK, DraftOf
    <3> QED
      BY <2>1, <3>1 DEF ImportInv, BatchesAreThere, RowsAreChecked
  <2> QED
    BY <2>1 DEF ImportInv, ClosedAreDone, ErrorsAreCounted, SubmittedAndClosedAreTrue,
                ClosedMeansDone
<1> QED
  BY <1>1, ImportInvariance, PTL

-------------------------------------------------------------------------------
(* The services together.                                                  *)

\* The one that moves takes its steps, and the others stutter.
LEMMA EachService == ServicesSpec => Spec /\ PortalSpec /\ StaffSpec /\ ImportSpec
<1>1. ServicesInit => Init /\ PortalInit /\ StaffInit /\ ImportInit
  BY DEF ServicesInit
<1>2. [ServicesNext]_servicesVars =>
        /\ [Next]_vars /\ [PortalNext]_portalVars
        /\ [StaffNext]_staffVars /\ [ImportNext]_importVars
  BY DEF ServicesNext, servicesVars
<1> QED
  BY <1>1, <1>2, PTL DEF ServicesSpec, Spec, PortalSpec, StaffSpec, ImportSpec

\* All of them are well typed.
THEOREM ServicesTypes == ServicesSpec => []ServicesTypeOK
<1>1. IndInv /\ PortalInv /\ StaffInv /\ ImportInv => ServicesTypeOK
  BY DEF IndInv, PortalInv, StaffInv, ImportInv, ServicesTypeOK
<1> QED
  BY <1>1, EachService, Invariance, PortalInvariance, StaffInvariance, ImportInvariance, PTL
===============================================================================
