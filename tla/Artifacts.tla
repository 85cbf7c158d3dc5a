------------------------------- MODULE Artifacts -------------------------------
(***************************************************************************)
(* What an issued diploma gets besides its proof: the PDF in the object    *)
(* store and the mail that tells the holder (apps/worker/src/jobs/         *)
(* generate-pdf.ts, notify-issued.ts, run by apps/worker/src/index.ts; the *)
(* operators' retry and regeneration of apps/api/src/modules/ops/routes.ts *)
(* and the downloads of files/routes.ts).                                  *)
(*                                                                         *)
(* One diploma: jobs of different diplomas touch different rows, objects   *)
(* and job ids.  The four runners of a queue are never all busy with it,   *)
(* so every job has its own.  A rendering is known by its number: PDFKit   *)
(* puts the moment into the file, and no two have the same bytes.          *)
(*                                                                         *)
(* The operators see a job that FAILED, on either queue, and may retry it. *)
(***************************************************************************)
EXTENDS JobQueue

CONSTANTS
  StableJob,     \* the id pdf-<credential>
  ForcedJob,     \* the ids pdf-<credential>-<time>
  HasEmail,      \* the holder has a contact on file
  MaxRenders,    \* bound on the renderings
  Reader         \* downloads under way

ASSUME ArtifactsAssumption ==
  /\ StableJob \notin ForcedJob
  /\ HasEmail \in BOOLEAN
  /\ MaxRenders \in Nat

PdfJob == {StableJob} \cup ForcedJob
Rendering == 1 .. MaxRenders

VARIABLES
  issued,        \* the row has a certificateId
  pdfJobs,       \* queue "artifacts"
  pdfRuns,       \* where the run of a job is, and its rendering
  renders,       \* renderings so far
  object,        \* the rendering in the object store, 0: none
  pdfSha256,     \* the rendering the row describes, 0: pdfObjectKey is null
  notices,       \* queue "notifications": notify-<credential>-<pdf job>
  sent,          \* the notices whose present run has sent the mail
  mails,         \* how often the mail of each notice has been sent; 2: twice or more
  downloads      \* those that have read the key from the row

artifactVars ==
  <<issued, pdfJobs, pdfRuns, renders, object, pdfSha256, notices, sent, mails, downloads>>

ArtifactsTypeOK ==
  /\ issued \in BOOLEAN
  /\ pdfJobs \in [PdfJob -> Job]
  /\ pdfRuns \in [PdfJob -> [at : {"START", "RENDERED", "STORED", "RECORDED",
                                   "CHAINED"},
                             rendering : Rendering \cup {0}]]
  /\ renders \in 0 .. MaxRenders
  /\ object \in 0 .. MaxRenders
  /\ pdfSha256 \in 0 .. MaxRenders
  /\ notices \in [PdfJob -> Job]
  /\ sent \subseteq PdfJob
  /\ mails \in [PdfJob -> 0 .. 2]
  /\ downloads \subseteq Reader

Start == [at |-> "START", rendering |-> 0]

ArtifactsInit ==
  /\ issued = FALSE
  /\ pdfJobs = [j \in PdfJob |-> Unknown]
  /\ pdfRuns = [j \in PdfJob |-> Start]
  /\ renders = 0
  /\ object = 0
  /\ pdfSha256 = 0
  /\ notices = [j \in PdfJob |-> Unknown]
  /\ sent = {}
  /\ mails = [j \in PdfJob |-> 0]
  /\ downloads = {}

-------------------------------------------------------------------------------
(* The API.                                                                *)

IssueDiploma ==
  /\ ~issued
  /\ issued' = TRUE
  /\ UNCHANGED <<pdfJobs, pdfRuns, renders, object, pdfSha256, notices, sent, mails, downloads>>

\* After approval and after every retry of issuance; Redis may be down, which is
\* only logged, so this may as well never happen.
EnqueuePdf ==
  /\ issued
  /\ pdfJobs' = Add(pdfJobs, StableJob)
  /\ UNCHANGED <<issued, pdfRuns, renders, object, pdfSha256, notices, sent, mails, downloads>>

RegenerateArtifacts(j) ==
  /\ issued
  /\ j \in ForcedJob
  /\ pdfJobs[j] = Unknown
  /\ pdfJobs' = Add(pdfJobs, j)
  /\ UNCHANGED <<issued, pdfRuns, renders, object, pdfSha256, notices, sent, mails, downloads>>

\* GET /ops/jobs/failed
FailedJobs(queue) == {j \in PdfJob : queue[j].state = "FAILED"}

\* POST /ops/jobs/:queue/:jobId/retry, on either queue.
RetryJob(j) ==
  /\ \/ /\ j \in FailedJobs(pdfJobs)
        /\ pdfJobs' = Retry(pdfJobs, j)
        /\ UNCHANGED notices
     \/ /\ j \in FailedJobs(notices)
        /\ notices' = Retry(notices, j)
        /\ UNCHANGED pdfJobs
  /\ UNCHANGED <<issued, pdfRuns, renders, object, pdfSha256, sent, mails, downloads>>

-------------------------------------------------------------------------------
(* generatePdfArtifact and the job around it.                              *)

StartPdf(j) ==
  /\ pdfJobs[j].state = "WAITING"
  /\ pdfJobs' = Take(pdfJobs, j)
  /\ UNCHANGED <<issued, pdfRuns, renders, object, pdfSha256, notices, sent, mails, downloads>>

RunsAt(j, at) == pdfJobs[j].state = "ACTIVE" /\ pdfRuns[j].at = at

\* The row, which has a certificateId (a job for one without ends here: none is
\* enqueued before issuance), and the rendering of it.
RenderPdf(j) ==
  /\ RunsAt(j, "START")
  /\ renders < MaxRenders
  /\ renders' = renders + 1
  /\ pdfRuns' = [pdfRuns EXCEPT ![j] = [at |-> "RENDERED", rendering |-> renders + 1]]
  /\ UNCHANGED <<issued, pdfJobs, object, pdfSha256, notices, sent, mails, downloads>>

PutObject(j) ==
  /\ RunsAt(j, "RENDERED")
  /\ object' = pdfRuns[j].rendering
  /\ pdfRuns' = [pdfRuns EXCEPT ![j].at = "STORED"]
  /\ UNCHANGED <<issued, pdfJobs, renders, pdfSha256, notices, sent, mails, downloads>>

\* Mutant: the row may be written before the object.
RecordPdf_First(j) ==
  /\ RunsAt(j, "RENDERED") \/ RunsAt(j, "STORED")
  /\ pdfSha256' = pdfRuns[j].rendering
  /\ pdfRuns' = [pdfRuns EXCEPT ![j].at = IF @ = "STORED" THEN "RECORDED" ELSE @]
  /\ UNCHANGED <<issued, pdfJobs, renders, object, notices, sent, mails, downloads>>

RecordPdf(j) ==
  /\ RunsAt(j, "STORED")
  /\ pdfSha256' = pdfRuns[j].rendering
  /\ pdfRuns' = [pdfRuns EXCEPT ![j].at = "RECORDED"]
  /\ UNCHANGED <<issued, pdfJobs, renders, object, notices, sent, mails, downloads>>

\* Mutant: the id of the notice is a new one every time.
ChainNotice_FreshId(j) ==
  /\ RunsAt(j, "RECORDED")
  /\ notices' = [notices EXCEPT ![j] = Added]
  /\ pdfRuns' = [pdfRuns EXCEPT ![j].at = "CHAINED"]
  /\ UNCHANGED <<issued, pdfJobs, renders, object, pdfSha256, sent, mails, downloads>>

\* Mutant: an error of the queue is only logged.
ChainNotice_Dropped(j) ==
  /\ RunsAt(j, "RECORDED")
  /\ notices' = Add(notices, j) \/ UNCHANGED notices
  /\ pdfRuns' = [pdfRuns EXCEPT ![j].at = "CHAINED"]
  /\ UNCHANGED <<issued, pdfJobs, renders, object, pdfSha256, sent, mails, downloads>>

\* The notice of this job; known already if an earlier attempt came this far.
ChainNotice(j) ==
  /\ RunsAt(j, "RECORDED")
  /\ notices' = Add(notices, j)
  /\ pdfRuns' = [pdfRuns EXCEPT ![j].at = "CHAINED"]
  /\ UNCHANGED <<issued, pdfJobs, renders, object, pdfSha256, sent, mails, downloads>>

CompletePdf(j) ==
  /\ RunsAt(j, "CHAINED")
  /\ pdfJobs' = Complete(pdfJobs, j)
  /\ pdfRuns' = [pdfRuns EXCEPT ![j] = Start]
  /\ UNCHANGED <<issued, renders, object, pdfSha256, notices, sent, mails, downloads>>

\* An error, or the death of the worker.
FailPdf(j) ==
  /\ pdfJobs[j].state = "ACTIVE"
  /\ pdfJobs' = FailOrRetry(pdfJobs, j)
  /\ pdfRuns' = [pdfRuns EXCEPT ![j] = Start]
  /\ UNCHANGED <<issued, renders, object, pdfSha256, notices, sent, mails, downloads>>

-------------------------------------------------------------------------------
(* notifyIssued.                                                           *)

StartNotice(j) ==
  /\ notices[j].state = "WAITING"
  /\ notices' = IF HasEmail THEN Take(notices, j) ELSE Complete(notices, j)
  /\ UNCHANGED <<issued, pdfJobs, pdfRuns, renders, object, pdfSha256, sent, mails, downloads>>

SendEmail(j) ==
  /\ notices[j].state = "ACTIVE"
  /\ j \notin sent
  /\ sent' = sent \cup {j}
  /\ mails' = [mails EXCEPT ![j] = IF @ < 2 THEN @ + 1 ELSE @]
  /\ UNCHANGED <<issued, pdfJobs, pdfRuns, renders, object, pdfSha256, notices, downloads>>

\* The event and the audit entry of the mail.
RecordNotice(j) ==
  /\ notices[j].state = "ACTIVE"
  /\ j \in sent
  /\ notices' = Complete(notices, j)
  /\ sent' = sent \ {j}
  /\ UNCHANGED <<issued, pdfJobs, pdfRuns, renders, object, pdfSha256, mails, downloads>>

FailNotice(j) ==
  /\ notices[j].state = "ACTIVE"
  /\ notices' = FailOrRetry(notices, j)
  /\ sent' = sent \ {j}
  /\ UNCHANGED <<issued, pdfJobs, pdfRuns, renders, object, pdfSha256, mails, downloads>>

-------------------------------------------------------------------------------
(* Downloads: the row, then the object of its key.                         *)

ReadPdfRow(d) ==
  /\ pdfSha256 # 0
  /\ downloads' = downloads \cup {d}
  /\ UNCHANGED <<issued, pdfJobs, pdfRuns, renders, object, pdfSha256, notices, sent, mails>>

StreamPdf(d) ==
  /\ d \in downloads
  /\ object # 0
  /\ downloads' = downloads \ {d}
  /\ UNCHANGED <<issued, pdfJobs, pdfRuns, renders, object, pdfSha256, notices, sent, mails>>

-------------------------------------------------------------------------------
PdfStep(j) ==
  \/ RegenerateArtifacts(j) \/ RetryJob(j)
  \/ StartPdf(j) \/ RenderPdf(j) \/ PutObject(j) \/ RecordPdf(j) \/ ChainNotice(j)
  \/ CompletePdf(j) \/ FailPdf(j)
  \/ StartNotice(j) \/ SendEmail(j) \/ RecordNotice(j) \/ FailNotice(j)

ArtifactsNext ==
  \/ IssueDiploma \/ EnqueuePdf
  \/ \E j \in PdfJob : PdfStep(j)
  \/ \E d \in Reader : ReadPdfRow(d) \/ StreamPdf(d)

ArtifactsSpec == ArtifactsInit /\ [][ArtifactsNext]_artifactVars
-------------------------------------------------------------------------------
(* Properties.                                                             *)

\* A row that has a pdfObjectKey has an object: no download that got past the row
\* fails at the store, whichever job was cut short.  And "re-running overwrites
\* the object and updates the stored checksum - safe after retries"
\* (generate-pdf.ts:28-29): a job that completed leaves the checksum of the
\* object, unless a regeneration was asked for, which beside it can leave one's object
\* with the other's checksum.
DownloadsAreServed ==
  /\ pdfSha256 # 0 \/ downloads # {} => object # 0
  /\ /\ \A j \in ForcedJob : pdfJobs[j] = Unknown
     /\ pdfJobs[StableJob].state = "COMPLETED"
     => pdfSha256 = object

\* The holder is told when there is something to look at: the diploma is issued
\* and its PDF recorded (worker index.ts:84).  And a PDF job that completed has its
\* notice in the queue, and a notice that completed has been mailed if the holder
\* can be: neither a crash nor a retry between the two queues loses the mail.
CompletedMeansTold ==
  /\ (\E j \in PdfJob : mails[j] > 0) => issued /\ pdfSha256 # 0
  /\ \A j \in PdfJob :
       /\ pdfJobs[j].state = "COMPLETED" => notices[j] # Unknown
       /\ notices[j].state = "COMPLETED" /\ HasEmail => mails[j] > 0

\* A notice that has completed stays so, and no more of its mails go out, although
\* the PDF job may be retried after it added the notice (worker index.ts:85-86); and
\* none of its mails goes out twice before an attempt at it has failed.
MailedAgainAfterFailureOnly ==
  /\ [][\A j \in PdfJob : notices[j].state = "COMPLETED" =>
          notices'[j].state = "COMPLETED" /\ mails'[j] = mails[j]]_artifactVars
  /\ [](\A j \in PdfJob : mails[j] > 1 => notices[j].attempts > 0)

\* "Handlers must be idempotent - jobs may re-run" (shared/queues.ts:4): no notice
\* is mailed twice.
MailedOnce == \A j \in PdfJob : mails[j] <= 1
===============================================================================
