------------------------------ MODULE StatusList ------------------------------
(***************************************************************************)
(* The signing queue: the jobs that sign an issued diploma's VC and the    *)
(* jobs that publish the status list in which its revocation shows         *)
(* (apps/worker/src/jobs/sign-vc.ts, publish-status-list.ts, run two at a  *)
(* time by apps/worker/src/index.ts, enqueued by apps/api/src/queues.ts).  *)
(*                                                                         *)
(* A VC, once signed, carries the number of its slot for ever; the list is *)
(* made of the slots the credential rows name.  Every job reads and writes *)
(* without a transaction, and anything happens in between.                 *)
(*                                                                         *)
(* A VC is named by the slot it carries, and a list by the slots it marks. *)
(* BullMQ is external: a job is run by one runner at a time, and by        *)
(* another after a failure or a death, until its attempts are used up; a   *)
(* signing job is then FAILED for good, since its id is known and the ops  *)
(* console reaches the other two queues only (ops/routes.ts:49).  Of the   *)
(* publications only that an attempt may be the last is modelled.          *)
(***************************************************************************)
EXTENDS JobQueue, FiniteSets

CONSTANTS
  Credential,  \* diplomas
  Runner,      \* the concurrent runners of the signing worker
  MaxSlot,     \* bound on the slots drawn
  ListLength,  \* MIN_BITSTRING_LENGTH, the bits of the list
  NULL

ASSUME SlotAssumption == MaxSlot \in Nat /\ ListLength \in Nat

ASSUME NoSlotNull == NULL \notin 0 .. MaxSlot

VARIABLES
  lifecycle,   \* of each diploma
  shape,       \* what of its row the job can use
  enqueuing,   \* the issued, whose handler has yet to enqueue the signing job
  signJob,     \* that job: id sign-<credential>
  slot, vc,    \* statusListIndex and vc of its row
  nextSlot,    \* credentials_status_list_index_seq
  announcing,  \* the revocations whose handler has yet to enqueue a refresh
  publishJobs, \* the waiting publish-status-list jobs
  minuteTaken, \* the id statuslist-<minute> is known
  list,        \* the published list, NULL before the first
  runs         \* where each runner is, and its locals

vars == <<lifecycle, shape, enqueuing, signJob, slot, vc, nextSlot, announcing, publishJobs,
          minuteTaken, list, runs>>

\* A certificate, for which there is no schema; a row whose claims make no subject;
\* one without a salt.
Shape == {"SOUND", "OTHER_KIND", "NO_SUBJECT", "NO_SALT"}

Slot == 0 .. MaxSlot
Run ==
  [phase : {"IDLE", "UNSLOTTED", "ALLOCATED", "SLOTTED", "LISTING"},
   subject : Credential \cup {NULL}, slot : Slot \cup {NULL},
   revoked : SUBSET Slot]
Idle == [phase |-> "IDLE", subject |-> NULL, slot |-> NULL, revoked |-> {}]

TypeOK ==
  /\ lifecycle \in [Credential -> {"APPROVED", "ISSUED", "REVOKED"}]
  /\ shape \in [Credential -> Shape]
  /\ enqueuing \in SUBSET Credential
  /\ signJob \in [Credential -> Job]
  /\ slot \in [Credential -> Slot \cup {NULL}]
  /\ vc \in [Credential -> Slot \cup {NULL}]
  /\ nextSlot \in 0 .. MaxSlot + 1
  /\ announcing \in SUBSET Credential
  /\ publishJobs \in Nat
  /\ minuteTaken \in BOOLEAN
  /\ list \in (SUBSET Slot) \cup {NULL}
  /\ runs \in [Runner -> Run]

Init ==
  /\ lifecycle = [c \in Credential |-> "APPROVED"]
  /\ shape \in [Credential -> Shape]
  /\ enqueuing = {}
  /\ signJob = [c \in Credential |-> Unknown]
  /\ slot = [c \in Credential |-> NULL]
  /\ vc = [c \in Credential |-> NULL]
  /\ nextSlot = 0
  /\ announcing = {}
  /\ publishJobs = 0
  /\ minuteTaken = FALSE
  /\ list = NULL
  /\ runs = [r \in Runner |-> Idle]

rowVars == <<lifecycle, shape, slot, vc, nextSlot>>
listVars == <<announcing, publishJobs, minuteTaken>>
queueVars == <<enqueuing, signJob, listVars>>

At(r, phase) == runs[r].phase = phase
Finish(r) == runs' = [runs EXCEPT ![r] = Idle]

-------------------------------------------------------------------------------
(* The API: commit first, then enqueue.                                    *)

Issue(c) ==
  /\ lifecycle[c] = "APPROVED"
  /\ lifecycle' = [lifecycle EXCEPT ![c] = "ISSUED"]
  /\ enqueuing' = enqueuing \cup {c}
  /\ UNCHANGED <<shape, slot, vc, nextSlot, signJob, listVars, list, runs>>

\* enqueueArtifacts; Redis may be down (the error is logged) or the API die.
EnqueueSignVc(c) ==
  /\ c \in enqueuing
  /\ enqueuing' = enqueuing \ {c}
  /\ signJob' \in {Add(signJob, c), signJob}
  /\ UNCHANGED <<rowVars, listVars, list, runs>>

Revoke(c) ==
  /\ lifecycle[c] = "ISSUED"
  /\ lifecycle' = [lifecycle EXCEPT ![c] = "REVOKED"]
  /\ announcing' = announcing \cup {c}
  /\ UNCHANGED <<shape, slot, vc, nextSlot, enqueuing, signJob, publishJobs, minuteTaken,
                 list, runs>>

\* The job id is the minute's: if it is known, this adds nothing.
EnqueuePublishStatusList(c) ==
  /\ c \in announcing
  /\ announcing' = announcing \ {c}
  /\ publishJobs' = IF minuteTaken THEN publishJobs ELSE publishJobs + 1
  /\ minuteTaken' = TRUE
  /\ UNCHANGED <<rowVars, enqueuing, signJob, list, runs>>

\* Redis down, or the API dies.
LoseAnnouncement(c) ==
  /\ c \in announcing
  /\ announcing' = announcing \ {c}
  /\ UNCHANGED <<rowVars, enqueuing, signJob, publishJobs, minuteTaken, list, runs>>

NextMinute ==
  /\ minuteTaken
  /\ minuteTaken' = FALSE
  /\ UNCHANGED <<rowVars, enqueuing, signJob, announcing, publishJobs, list, runs>>

\* The scheduler's refresh at 00:10 (bound: none waits while another does).
DailyRefresh ==
  /\ publishJobs = 0
  /\ publishJobs' = 1
  /\ UNCHANGED <<rowVars, enqueuing, signJob, announcing, minuteTaken, list, runs>>

-------------------------------------------------------------------------------
(* signVcForCredential.                                                    *)

\* Signed, not ISSUED, or a certificate.
Skipped(c) == vc[c] # NULL \/ lifecycle[c] # "ISSUED" \/ shape[c] = "OTHER_KIND"

\* The row is read once; a subject that cannot be built throws, in every attempt.
StartSigning(r, c) ==
  /\ At(r, "IDLE")
  /\ signJob[c].state = "WAITING"
  /\ \/ /\ Skipped(c)
        /\ signJob' = Complete(signJob, c)
        /\ UNCHANGED runs
     \/ /\ ~Skipped(c) /\ shape[c] = "NO_SUBJECT"
        /\ signJob' = FailOrRetry(signJob, c)
        /\ UNCHANGED runs
     \/ /\ ~Skipped(c) /\ shape[c] # "NO_SUBJECT"
        /\ signJob' = Take(signJob, c)
        /\ runs' = [runs EXCEPT
             ![r].phase = IF slot[c] = NULL THEN "UNSLOTTED" ELSE "SLOTTED",
             ![r].subject = c, ![r].slot = slot[c]]
  /\ UNCHANGED <<rowVars, enqueuing, listVars, list>>

\* Mutant: the next slot is computed from the rows.
AllocateSlot_FromRows(r) ==
  /\ At(r, "UNSLOTTED")
  /\ \E i \in Slot :
       /\ \A c \in Credential : slot[c] # NULL => slot[c] < i
       /\ i = 0 \/ \E c \in Credential : slot[c] = i - 1
       /\ runs' = [runs EXCEPT ![r].phase = "ALLOCATED", ![r].slot = i]
  /\ UNCHANGED <<rowVars, queueVars, list>>

\* nextval: outside any transaction, never drawn twice.
AllocateSlot(r) ==
  /\ At(r, "UNSLOTTED")
  /\ nextSlot <= MaxSlot
  /\ runs' = [runs EXCEPT ![r].phase = "ALLOCATED", ![r].slot = nextSlot]
  /\ nextSlot' = nextSlot + 1
  /\ UNCHANGED <<lifecycle, shape, slot, vc, queueVars, list>>

StoreSlot(r) ==
  /\ At(r, "ALLOCATED")
  /\ slot' = [slot EXCEPT ![runs[r].subject] = runs[r].slot]
  /\ runs' = [runs EXCEPT ![r].phase = "SLOTTED"]
  /\ UNCHANGED <<lifecycle, shape, vc, nextSlot, queueVars, list>>

\* Build, sign, hash, and store: whatever the row says by now.  Without a salt there
\* is no hash, and it throws: FailJob.
StoreVc(r) ==
  LET c == runs[r].subject IN
  /\ At(r, "SLOTTED")
  /\ shape[c] # "NO_SALT"
  /\ vc' = [vc EXCEPT ![c] = runs[r].slot]
  /\ signJob' = Complete(signJob, c)
  /\ Finish(r)
  /\ UNCHANGED <<lifecycle, shape, slot, nextSlot, enqueuing, listVars, list>>

-------------------------------------------------------------------------------
(* publishStatusList.                                                      *)

RevokedIndexes ==
  {slot[c] : c \in {d \in Credential : lifecycle[d] = "REVOKED" /\ slot[d] # NULL}}

StartPublishing(r) ==
  /\ At(r, "IDLE")
  /\ publishJobs > 0
  /\ publishJobs' = publishJobs - 1
  /\ runs' = [runs EXCEPT ![r].phase = "LISTING", ![r].revoked = RevokedIndexes]
  /\ UNCHANGED <<rowVars, enqueuing, signJob, announcing, minuteTaken, list>>

\* Mutant: onConflictDoNothing.
StoreList_FirstStays(r) ==
  /\ At(r, "LISTING")
  /\ list' = IF list = NULL THEN runs[r].revoked ELSE list
  /\ Finish(r)
  /\ UNCHANGED <<rowVars, queueVars>>

\* A revoked slot beyond the list makes the job throw (bitstring.ts:35): FailJob.
StoreList(r) ==
  /\ At(r, "LISTING")
  /\ \A i \in runs[r].revoked : i < ListLength
  /\ list' = runs[r].revoked
  /\ Finish(r)
  /\ UNCHANGED <<rowVars, queueVars>>

-------------------------------------------------------------------------------
\* Mutant: the job of a worker that died is gone.
FailJob_Forgotten(r) ==
  /\ ~At(r, "IDLE")
  /\ Finish(r)
  /\ UNCHANGED <<rowVars, queueVars, list>>

\* An error, or the death of the worker: the job waits again, unless that was the
\* last of its attempts.
FailJob(r) ==
  /\ ~At(r, "IDLE")
  /\ IF At(r, "LISTING")
       THEN publishJobs' \in {publishJobs, publishJobs + 1} /\ UNCHANGED signJob
       ELSE signJob' = FailOrRetry(signJob, runs[r].subject) /\ UNCHANGED publishJobs
  /\ Finish(r)
  /\ UNCHANGED <<rowVars, enqueuing, announcing, minuteTaken, list>>

Sign(r) == \/ \E c \in Credential : StartSigning(r, c)
           \/ AllocateSlot(r) \/ StoreSlot(r) \/ StoreVc(r)
Publish(r) == StartPublishing(r) \/ StoreList(r)

Next ==
  \/ \E c \in Credential : \/ Issue(c) \/ EnqueueSignVc(c) \/ Revoke(c)
                           \/ EnqueuePublishStatusList(c) \/ LoseAnnouncement(c)
  \/ NextMinute
  \/ DailyRefresh
  \/ \E r \in Runner : Sign(r) \/ Publish(r) \/ FailJob(r)

Spec == Init /\ [][Next]_vars

Work(r) == AllocateSlot(r) \/ StoreSlot(r) \/ StoreVc(r) \/ StoreList(r) \/ FailJob(r)

\* The scheduler does not stop; handlers and runners go on, well or badly; the runners
\* serve the queue in order, so that no job waits for ever.  Of the publications, one
\* succeeds again and again; of the signing jobs, none has to.
Fairness ==
  /\ WF_vars(DailyRefresh)
  /\ \A c \in Credential :
       WF_vars(EnqueueSignVc(c)) /\ SF_vars(\E r \in Runner : StartSigning(r, c))
  /\ \A r \in Runner : WF_vars(Work(r))
  /\ WF_vars(\E r \in Runner : StartPublishing(r))
  /\ SF_vars(\E r \in Runner : StoreList(r))

FairSpec == Spec /\ Fairness
-------------------------------------------------------------------------------
(* Properties.                                                             *)

Listed(c) == list # NULL /\ vc[c] \in list

\* A verifier never finds the VC of a credential in force revoked: neither
\* retries nor two jobs at a time give a slot, or mark it, for another; and the
\* slot a VC carries is the slot its row names, which is what the list is made
\* of: otherwise its revocation would mark a bit that nobody looks at.
NoFalseRevocation ==
  \A c \in Credential : vc[c] # NULL =>
    /\ vc[c] = slot[c]
    /\ lifecycle[c] = "ISSUED" => ~Listed(c)

\* "An already-signed credential is never re-signed" (sign-vc.ts:5), and its slot
\* is never moved.
SignedOnce ==
  [][\A c \in Credential : vc[c] # NULL => vc'[c] = vc[c] /\ slot'[c] = slot[c]]_vars

\* From the first revocation of a diploma whose slot is beyond the list, no list
\* can be made any more, of anybody's revocations.
Overflows == \E i \in RevokedIndexes : i >= ListLength

\* A revoked diploma gets listed, and in the end stays so: whatever announcement
\* was lost and whichever job stored an older list last, the daily refresh
\* mends it (lifecycle/routes.ts:209-210) - unless the list overflows, for the
\* code has one list of fixed length and a sequence without an end.
RevocationShowsInTheEnd ==
  \A c \in Credential :
    (vc[c] # NULL /\ lifecycle[c] = "REVOKED") ~> ([]Listed(c) \/ Overflows)

\* What the queue was given comes to an end that somebody can see: the diploma is
\* signed, revoked before, or a certificate, or its job stays among the failed; no
\* death or error leaves it between (index.ts:235-240).  A diploma that can be signed
\* may be among the failed, too, and nothing signs it then.
SigningComesToAnEnd ==
  \A c \in Credential :
    signJob[c].state = "WAITING" ~>
      \/ vc[c] # NULL /\ shape[c] = "SOUND"
      \/ lifecycle[c] # "ISSUED" \/ shape[c] = "OTHER_KIND" \/ signJob[c].state = "FAILED"
===============================================================================
