------------------------------- MODULE JobsProofs -------------------------------
(***************************************************************************)
(* Theorems about the jobs behind an issuance: StatusList, for any sets of *)
(* diplomas and runners, any number of slots and any length of the list,   *)
(* and Artifacts, for any number of jobs, renderings and downloads, both   *)
(* for any number of attempts.                                             *)
(*                                                                         *)
(* Why no VC in force is ever listed: a slot belongs to one diploma from   *)
(* the moment it is drawn (SlotsAreOwn), the VC carries the slot of its    *)
(* row, and whatever a job or the list marks is the slot of a diploma that *)
(* is revoked for good (MarksAreRevoked).  The first needs that a diploma  *)
(* is signed by one runner at a time, however often its job is run again   *)
(* (RunnersAreAlone).                                                      *)
(*                                                                         *)
(* With the PDF the order of the writes is the argument: object, row,      *)
(* notice, and only then is the job completed.  InOrder says of every      *)
(* point of a run what is written by then, and none of it is ever taken    *)
(* back.  That the row has the checksum of the object is more fragile: it  *)
(* needs that the stable job has been the only one (Alone).  The mails are *)
(* counted against the attempts (MailsAreCounted): before one has failed   *)
(* there is at most one, and none before the present run has sent it.      *)
(***************************************************************************)
EXTENDS MCJobs, TLAPS

-------------------------------------------------------------------------------
(* The queue.                                                                *)

\* What is known of the jobs of a queue that never gives one up.
Counted(queue, Id) ==
  \A j \in Id : /\ queue[j].state = "UNKNOWN" => queue[j] = Unknown
                /\ queue[j].attempts = 0 => queue[j].state # "FAILED"

\* BullMQ's operators, on one job of a queue.
LEMMA QueueOps ==
  ASSUME NEW Id, NEW queue \in [Id -> Job], NEW j \in Id, NEW next,
         \/ next = Add(queue, j)
         \/ queue[j].state = "FAILED" /\ next = Retry(queue, j)
         \/ next = Take(queue, j) \/ next = Complete(queue, j)
         \/ next = FailOrRetry(queue, j)
  PROVE  /\ next \in [Id -> Job]
         /\ Counted(queue, Id) => Counted(next, Id)
<1>1. Added \in Job /\ Added.state = "WAITING"
  BY AttemptsAssumption DEF Added, Job, JobState
<1>2. \A row \in Job, s \in JobState :
        /\ [row EXCEPT !.state = s] \in Job
        /\ [row EXCEPT !.state = s].state = s
        /\ [row EXCEPT !.state = s].attempts = row.attempts
  BY DEF Job
<1>3. {"WAITING", "ACTIVE", "COMPLETED", "FAILED"} \subseteq JobState
  BY DEF JobState
<1>4. CASE next = Add(queue, j)
  BY <1>1, <1>4 DEF Add, Counted
<1>5. CASE next = Take(queue, j) \/ next = Complete(queue, j) \/ next = Retry(queue, j)
  <2>1. PICK s \in {"ACTIVE", "COMPLETED", "WAITING"} :
          next = [queue EXCEPT ![j] = [queue[j] EXCEPT !.state = s]]
    BY <1>5 DEF Take, Complete, Retry
  <2> QED
    BY <1>2, <1>3, <2>1 DEF Counted
<1>6. CASE next = FailOrRetry(queue, j)
  <2>1. queue[j] \in Job
    OBVIOUS
  <2>2. PICK row : row = IF LastAttempt(queue[j])
                           THEN [state |-> "FAILED", attempts |-> MaxAttempts]
                           ELSE [state |-> "WAITING", attempts |-> queue[j].attempts + 1]
    OBVIOUS
  <2>3. row \in Job
    BY <1>3, <2>1, <2>2, AttemptsAssumption DEF Job, LastAttempt
  <2>4. row.state \in {"FAILED", "WAITING"} /\ row.attempts # 0
    BY <2>1, <2>2, AttemptsAssumption DEF Job
  <2>5. next = [queue EXCEPT ![j] = row]
    BY <1>6, <2>2 DEF FailOrRetry
  <2> QED
    BY <2>3, <2>4, <2>5 DEF Counted
<1> QED
  BY <1>4, <1>5, <1>6

-------------------------------------------------------------------------------
(* The VC and the status list.                                               *)

Signing(r) == runs[r].phase \in {"UNSLOTTED", "ALLOCATED", "SLOTTED"}

\* A runner that signs has a job of its own, of a diploma that is not signed yet
\* and was issued, and knows of its slot what the row says.
RunnersAreAlone ==
  /\ \A r \in Runner : Signing(r) =>
       /\ runs[r].subject \in Credential
       /\ signJob[runs[r].subject].state = "ACTIVE"
       /\ vc[runs[r].subject] = NULL
       /\ At(r, "SLOTTED") => slot[runs[r].subject] = runs[r].slot
       /\ ~At(r, "SLOTTED") => slot[runs[r].subject] = NULL
       /\ ~At(r, "UNSLOTTED") => runs[r].slot \in Slot
  /\ \A r, q \in Runner :
       Signing(r) /\ Signing(q) /\ runs[r].subject = runs[q].subject => r = q

\* A slot that was drawn is that of one row, or of one runner that will store it.
SlotsAreOwn ==
  /\ \A c \in Credential : slot[c] # NULL => slot[c] < nextSlot
  /\ \A c, d \in Credential : slot[c] # NULL /\ slot[c] = slot[d] => c = d
  /\ \A r \in Runner : At(r, "ALLOCATED") =>
       /\ runs[r].slot < nextSlot
       /\ \A c \in Credential : slot[c] # runs[r].slot
  /\ \A r, q \in Runner :
       At(r, "ALLOCATED") /\ At(q, "ALLOCATED") /\ runs[r].slot = runs[q].slot => r = q
  /\ \A c \in Credential : vc[c] # NULL => vc[c] = slot[c]

RevokedSlot(i) == \E c \in Credential : lifecycle[c] = "REVOKED" /\ slot[c] = i

MarksAreRevoked ==
  /\ list # NULL => \A i \in list : RevokedSlot(i)
  /\ \A r \in Runner : At(r, "LISTING") => \A i \in runs[r].revoked : RevokedSlot(i)

ListInv == TypeOK /\ RunnersAreAlone /\ SlotsAreOwn /\ MarksAreRevoked

-------------------------------------------------------------------------------
(* The actions, by what they touch.                                        *)

\* Neither the rows nor the runners nor the list nor what a signing job is.
Elsewhere ==
  /\ UNCHANGED <<rowVars, list, runs>>
  /\ \/ UNCHANGED signJob
     \/ \E c \in Credential : EnqueueSignVc(c)

LEMMA ListStepKinds ==
  ASSUME Next
  PROVE  \/ Elsewhere
         \/ \E c \in Credential : Issue(c) \/ Revoke(c)
         \/ \E r \in Runner :
              \/ \E c \in Credential : StartSigning(r, c)
              \/ AllocateSlot(r) \/ StoreSlot(r) \/ StoreVc(r)
              \/ StartPublishing(r) \/ StoreList(r) \/ FailJob(r)
BY DEF Next, Sign, Publish, Elsewhere, EnqueueSignVc, EnqueuePublishStatusList,
       LoseAnnouncement, NextMinute, DailyRefresh

LEMMA ListTypeStep == ASSUME TypeOK, RunnersAreAlone, [Next]_vars PROVE TypeOK'
<1> USE SlotAssumption, NoSlotNull
    DEF TypeOK, Slot, Run, Idle, rowVars, listVars, queueVars, At, Finish
<1>1. CASE UNCHANGED vars
  BY <1>1 DEF vars
<1>2. ASSUME NEW c \in Credential, Issue(c) \/ EnqueueSignVc(c) \/ Revoke(c)
      PROVE  TypeOK'
  BY <1>2, QueueOps DEF Issue, EnqueueSignVc, Revoke
<1>3. ASSUME NEW c \in Credential, EnqueuePublishStatusList(c) PROVE TypeOK'
  <2>1. publishJobs' \in Nat
    BY <1>3 DEF EnqueuePublishStatusList
  <2>2. minuteTaken' \in BOOLEAN
    BY <1>3 DEF EnqueuePublishStatusList
  <2> QED
    BY <1>3, <2>1, <2>2 DEF EnqueuePublishStatusList
<1>4. ASSUME NEW c \in Credential, LoseAnnouncement(c) PROVE TypeOK'
  BY <1>4 DEF LoseAnnouncement
<1>5. CASE NextMinute
  BY <1>5 DEF NextMinute
<1>6. CASE DailyRefresh
  BY <1>6 DEF DailyRefresh
<1>7. ASSUME NEW r \in Runner, NEW c \in Credential, StartSigning(r, c) PROVE TypeOK'
  <2>1. runs[r] \in Run
    OBVIOUS
  <2>2. slot[c] \in Slot \cup {NULL}
    OBVIOUS
  <2>3. runs' \in [Runner -> Run]
    BY <1>7, <2>1, <2>2 DEF StartSigning
  <2>4. signJob' \in [Credential -> Job]
    BY <1>7, QueueOps DEF StartSigning
  <2> QED
    BY <1>7, <2>3, <2>4 DEF StartSigning
<1>8. ASSUME NEW r \in Runner, AllocateSlot(r) PROVE TypeOK'
  <2>1. nextSlot \in Slot /\ nextSlot' \in 0 .. MaxSlot + 1
    BY <1>8 DEF AllocateSlot
  <2>2. runs[r] \in Run
    OBVIOUS
  <2>3. runs' \in [Runner -> Run]
    BY <1>8, <2>1, <2>2 DEF AllocateSlot
  <2> QED
    BY <1>8, <2>1, <2>3 DEF AllocateSlot
<1>9. ASSUME NEW r \in Runner, StoreSlot(r) PROVE TypeOK'
  BY <1>9 DEF StoreSlot
<1>10. ASSUME NEW r \in Runner, StoreVc(r) PROVE TypeOK'
  <2>1. runs[r].subject \in Credential
    BY <1>10 DEF StoreVc, RunnersAreAlone, Signing
  <2>2. signJob' \in [Credential -> Job] /\ vc' \in [Credential -> Slot \cup {NULL}]
    BY <1>10, <2>1, QueueOps DEF StoreVc
  <2> QED
    BY <1>10, <2>2 DEF StoreVc
<1>11. ASSUME NEW r \in Runner, StartPublishing(r) PROVE TypeOK'
  <2>1. publishJobs' \in Nat
    BY <1>11 DEF StartPublishing
  <2>2. RevokedIndexes \in SUBSET Slot
    BY DEF RevokedIndexes
  <2>3. runs[r] \in Run
    OBVIOUS
  <2>4. runs' \in [Runner -> Run]
    BY <1>11, <2>2, <2>3 DEF StartPublishing
  <2> QED
    BY <1>11, <2>1, <2>4 DEF StartPublishing
<1>12. ASSUME NEW r \in Runner, StoreList(r) PROVE TypeOK'
  BY <1>12 DEF StoreList
<1>13. ASSUME NEW r \in Runner, FailJob(r) PROVE TypeOK'
  <2>1. CASE At(r, "LISTING")
    BY <1>13, <2>1 DEF FailJob
  <2>2. CASE ~At(r, "LISTING")
    <3>1. runs[r].subject \in Credential
      BY <1>13, <2>2 DEF FailJob, RunnersAreAlone, Signing
    <3>2. signJob' \in [Credential -> Job]
      BY <1>13, <2>2, <3>1, QueueOps DEF FailJob
    <3> QED
      BY <1>13, <2>2, <3>2 DEF FailJob
  <2> QED
    BY <2>1, <2>2
<1> QED
  BY <1>1, <1>2, <1>3, <1>4, <1>5, <1>6, <1>7, <1>8, <1>9, <1>10, <1>11, <1>12, <1>13
     DEF Next, Sign, Publish

-------------------------------------------------------------------------------
(* Runners.                                                                *)

LEMMA RunnersAloneStep ==
  ASSUME TypeOK, RunnersAreAlone, Next PROVE RunnersAreAlone'
<1> USE SlotAssumption, NoSlotNull
    DEF TypeOK, Slot, Run, Idle, RunnersAreAlone, Signing, At, Finish
<1>1. CASE Elsewhere
  <2>1. \A c \in Credential : signJob[c].state = "ACTIVE" => signJob'[c].state = "ACTIVE"
    BY <1>1 DEF Elsewhere, EnqueueSignVc, Add, Unknown
  <2> QED
    BY <1>1, <2>1 DEF Elsewhere, rowVars
<1>2. ASSUME NEW c \in Credential, Issue(c) PROVE RunnersAreAlone'
  BY <1>2 DEF Issue
<1>3. ASSUME NEW c \in Credential, Revoke(c) PROVE RunnersAreAlone'
  BY <1>3 DEF Revoke
<1>4. ASSUME NEW r \in Runner, NEW c \in Credential, StartSigning(r, c)
      PROVE  RunnersAreAlone'
  <2>1. \A d \in Credential : d # c => signJob'[d] = signJob[d]
    BY <1>4 DEF StartSigning, Take, Complete, FailOrRetry
  <2>2. \A q \in Runner : Signing(q) => runs[q].subject # c
    BY <1>4 DEF StartSigning
  <2>3. CASE UNCHANGED runs
    BY <1>4, <2>1, <2>2, <2>3 DEF StartSigning, rowVars
  <2>4. CASE ~(UNCHANGED runs)
    <3>1. /\ signJob'[c].state = "ACTIVE" /\ vc[c] = NULL
          /\ runs'[r].subject = c /\ runs'[r].slot = slot[c]
          /\ runs'[r].phase = IF slot[c] = NULL THEN "UNSLOTTED" ELSE "SLOTTED"
          /\ \A q \in Runner : q # r => runs'[q] = runs[q]
      BY <1>4, <2>4 DEF StartSigning, Skipped, Take, Job
    <3> QED
      BY <1>4, <2>1, <2>2, <3>1 DEF StartSigning, rowVars
  <2> QED
    BY <2>3, <2>4
<1>5. ASSUME NEW r \in Runner, AllocateSlot(r) PROVE RunnersAreAlone'
  BY <1>5 DEF AllocateSlot, queueVars
<1>6. ASSUME NEW r \in Runner, StoreSlot(r) PROVE RunnersAreAlone'
  BY <1>6 DEF StoreSlot, queueVars
<1>7. ASSUME NEW r \in Runner, StoreVc(r) PROVE RunnersAreAlone'
  <2>1. \A d \in Credential : d # runs[r].subject => signJob'[d] = signJob[d]
    BY <1>7 DEF StoreVc, Complete
  <2> QED
    BY <1>7, <2>1 DEF StoreVc
<1>8. ASSUME NEW r \in Runner, StartPublishing(r) PROVE RunnersAreAlone'
  BY <1>8 DEF StartPublishing, rowVars
<1>9. ASSUME NEW r \in Runner, StoreList(r) PROVE RunnersAreAlone'
  BY <1>9 DEF StoreList, rowVars, queueVars
<1>10. ASSUME NEW r \in Runner, FailJob(r) PROVE RunnersAreAlone'
  <2>1. \A d \in Credential : d # runs[r].subject \/ ~Signing(r) => signJob'[d] = signJob[d]
    BY <1>10 DEF FailJob, FailOrRetry
  <2> QED
    BY <1>10, <2>1 DEF FailJob, rowVars
<1> QED
  BY <1>1, <1>2, <1>3, <1>4, <1>5, <1>6, <1>7, <1>8, <1>9, <1>10, ListStepKinds

-------------------------------------------------------------------------------
(* Slots.                                                                  *)

\* A slot, once in a row, stays there, and a revocation is for good.
LEMMA MarksStay ==
  ASSUME TypeOK, RunnersAreAlone, Next
  PROVE  \A c \in Credential :
           /\ slot[c] # NULL => slot'[c] = slot[c]
           /\ lifecycle[c] = "REVOKED" => lifecycle'[c] = "REVOKED"
<1> USE DEF TypeOK, rowVars
<1>1. CASE Elsewhere
  BY <1>1 DEF Elsewhere
<1>2. ASSUME NEW c \in Credential, Issue(c) \/ Revoke(c)
      PROVE  \A d \in Credential : /\ slot'[d] = slot[d]
                                   /\ lifecycle[d] = "REVOKED" => lifecycle'[d] = "REVOKED"
  BY <1>2 DEF Issue, Revoke
<1>3. ASSUME NEW r \in Runner, StoreSlot(r)
      PROVE  /\ lifecycle' = lifecycle
             /\ \A d \in Credential : slot[d] # NULL => slot'[d] = slot[d]
  BY <1>3 DEF StoreSlot, RunnersAreAlone, Signing, At
<1>4. ASSUME NEW r \in Runner,
             \/ \E c \in Credential : StartSigning(r, c)
             \/ AllocateSlot(r) \/ StoreVc(r)
             \/ StartPublishing(r) \/ StoreList(r) \/ FailJob(r)
      PROVE  UNCHANGED <<lifecycle, slot>>
  BY <1>4 DEF StartSigning, AllocateSlot, StoreVc, StartPublishing, StoreList, FailJob
<1> QED
  BY <1>1, <1>2, <1>3, <1>4, ListStepKinds

LEMMA SlotsOwnStep ==
  ASSUME TypeOK, RunnersAreAlone, SlotsAreOwn, Next PROVE SlotsAreOwn'
<1> USE SlotAssumption, NoSlotNull
    DEF TypeOK, Slot, Run, Idle, SlotsAreOwn, At, Finish
<1>1. CASE Elsewhere
  BY <1>1 DEF Elsewhere, rowVars
<1>2. ASSUME NEW c \in Credential, Issue(c) \/ Revoke(c) PROVE SlotsAreOwn'
  BY <1>2 DEF Issue, Revoke
<1>3. ASSUME NEW r \in Runner, NEW c \in Credential, StartSigning(r, c)
      PROVE  SlotsAreOwn'
  BY <1>3 DEF StartSigning, rowVars
<1>4. ASSUME NEW r \in Runner, AllocateSlot(r) PROVE SlotsAreOwn'
  <2>1. /\ nextSlot \in Slot /\ nextSlot' = nextSlot + 1
        /\ UNCHANGED <<slot, vc>>
    BY <1>4 DEF AllocateSlot
  <2>2. /\ runs'[r].slot = nextSlot
        /\ \A q \in Runner : q # r => runs'[q] = runs[q]
    BY <1>4 DEF AllocateSlot
  <2>3. \A c \in Credential : slot[c] # NULL => slot[c] \in Slot /\ slot[c] < nextSlot
    OBVIOUS
  <2>4. \A q \in Runner : At(q, "ALLOCATED") => runs[q].slot < nextSlot
    OBVIOUS
  <2>5. \A q \in Runner : At(q, "ALLOCATED") => runs[q].slot \in Slot
    BY DEF RunnersAreAlone, Signing
  <2>6. \A c \in Credential : slot[c] # nextSlot
    BY <2>1, <2>3
  <2>7. \A q \in Runner : At(q, "ALLOCATED") => runs[q].slot # nextSlot
    BY <2>1, <2>4, <2>5
  <2> QED
    BY <2>1, <2>2, <2>3, <2>4, <2>5, <2>6, <2>7
<1>5. ASSUME NEW r \in Runner, StoreSlot(r) PROVE SlotsAreOwn'
  BY <1>5 DEF StoreSlot, RunnersAreAlone, Signing
<1>6. ASSUME NEW r \in Runner, StoreVc(r) PROVE SlotsAreOwn'
  BY <1>6 DEF StoreVc, RunnersAreAlone, Signing
<1>7. ASSUME NEW r \in Runner, StartPublishing(r) PROVE SlotsAreOwn'
  BY <1>7 DEF StartPublishing, rowVars
<1>8. ASSUME NEW r \in Runner, StoreList(r) \/ FailJob(r) PROVE SlotsAreOwn'
  <2>1. /\ UNCHANGED <<slot, vc, nextSlot>>
        /\ runs' = [runs EXCEPT ![r] = Idle]
    BY <1>8 DEF StoreList, FailJob, rowVars
  <2> QED
    BY <2>1
<1> QED
  BY <1>1, <1>2, <1>3, <1>4, <1>5, <1>6, <1>7, <1>8, ListStepKinds

LEMMA MarkedStep ==
  ASSUME TypeOK, RunnersAreAlone, MarksAreRevoked, Next PROVE MarksAreRevoked'
<1> USE SlotAssumption, NoSlotNull DEF TypeOK, Slot, Run, Idle, MarksAreRevoked, At, Finish
<1>1. ASSUME NEW i \in Slot, RevokedSlot(i) PROVE RevokedSlot(i)'
  BY <1>1, MarksStay DEF RevokedSlot
<1>2. list # NULL => list \in SUBSET Slot
  OBVIOUS
<1>3. \A r \in Runner : runs[r].revoked \in SUBSET Slot
  OBVIOUS
<1>4. CASE UNCHANGED <<list, runs>>
  BY <1>1, <1>2, <1>3, <1>4
<1>5. ASSUME NEW r \in Runner, StartPublishing(r) PROVE MarksAreRevoked'
  <2>1. \A i \in RevokedIndexes : i \in Slot /\ RevokedSlot(i)
    BY DEF RevokedIndexes, RevokedSlot
  <2> QED
    BY <1>1, <1>2, <1>3, <1>5, <2>1 DEF StartPublishing
<1>6. ASSUME NEW r \in Runner, StoreList(r) PROVE MarksAreRevoked'
  BY <1>1, <1>2, <1>3, <1>6 DEF StoreList
<1>7. ASSUME NEW r \in Runner,
             \/ \E c \in Credential : StartSigning(r, c)
             \/ AllocateSlot(r) \/ StoreSlot(r) \/ StoreVc(r) \/ FailJob(r)
      PROVE  MarksAreRevoked'
  <2>1. /\ list' = list
        /\ \A q \in Runner : q # r => runs'[q] = runs[q]
        /\ runs'[r].phase = "LISTING" =>
             runs'[r].revoked = runs[r].revoked /\ At(r, "LISTING")
    <3>1. CASE \E c \in Credential : StartSigning(r, c)
      BY <3>1 DEF StartSigning
    <3>2. CASE AllocateSlot(r) \/ StoreSlot(r)
      BY <3>2 DEF AllocateSlot, StoreSlot
    <3>3. CASE StoreVc(r) \/ FailJob(r)
      BY <3>3 DEF StoreVc, FailJob
    <3> QED
      BY <1>7, <3>1, <3>2, <3>3
  <2> QED
    BY <1>1, <1>2, <1>3, <2>1
<1> QED
  BY <1>4, <1>5, <1>6, <1>7, ListStepKinds DEF Elsewhere, Issue, Revoke

-------------------------------------------------------------------------------
(* Theorems.                                                               *)

LEMMA InitListInv == Init => ListInv
<1> SUFFICES ASSUME Init PROVE ListInv
  OBVIOUS
<1>1. Idle \in Run /\ Idle.phase = "IDLE"
  BY DEF Idle, Run
<1>2. TypeOK
  <2>1. nextSlot \in 0 .. MaxSlot + 1 /\ publishJobs \in Nat
    BY SlotAssumption DEF Init
  <2>2. minuteTaken \in BOOLEAN
    BY DEF Init
  <2>3. runs \in [Runner -> Run]
    BY <1>1 DEF Init
  <2>4. signJob \in [Credential -> Job]
    BY AttemptsAssumption DEF Init, Unknown, Job, JobState
  <2> QED
    BY <2>1, <2>2, <2>3, <2>4 DEF Init, TypeOK
<1>3. RunnersAreAlone
  BY <1>1 DEF Init, RunnersAreAlone, Signing, At
<1>4. SlotsAreOwn
  BY <1>1 DEF Init, SlotsAreOwn, At
<1>5. MarksAreRevoked
  BY <1>1 DEF Init, MarksAreRevoked, At
<1> QED
  BY <1>2, <1>3, <1>4, <1>5 DEF ListInv

LEMMA StepListInv == ListInv /\ [Next]_vars => ListInv'
<1> SUFFICES ASSUME ListInv, [Next]_vars PROVE ListInv'
  OBVIOUS
<1>1. CASE UNCHANGED vars
  BY <1>1 DEF vars, ListInv, TypeOK, RunnersAreAlone, SlotsAreOwn, MarksAreRevoked,
              RevokedSlot, Signing, At
<1>2. CASE Next
  BY <1>2, ListTypeStep, RunnersAloneStep, SlotsOwnStep, MarkedStep DEF ListInv
<1> QED
  BY <1>1, <1>2

\* The types, and who holds which slot, in every reachable state.
THEOREM ListInvariance == Spec => []ListInv
BY InitListInv, StepListInv, PTL DEF Spec

\* However jobs are retried and run beside each other, no diploma in force is ever
\* on the published list, and every VC carries the slot of its row.
THEOREM NoneRevokedFalsely == Spec => []NoFalseRevocation
<1>1. ListInv => NoFalseRevocation
  BY NoSlotNull DEF ListInv, TypeOK, Slot, SlotsAreOwn, MarksAreRevoked, RevokedSlot,
                    NoFalseRevocation, Listed
<1> QED
  BY <1>1, ListInvariance, PTL

\* A VC that is stored is never stored again, nor is its slot.
THEOREM VcsAreSignedOnce == Spec => SignedOnce
<1>1. ListInv /\ [Next]_vars =>
        [\A c \in Credential : vc[c] # NULL => vc'[c] = vc[c] /\ slot'[c] = slot[c]]_vars
  <2> SUFFICES ASSUME ListInv, Next
               PROVE  \A c \in Credential :
                        vc[c] # NULL => vc'[c] = vc[c] /\ slot'[c] = slot[c]
    OBVIOUS
  <2>1. \A c \in Credential : vc[c] # NULL => slot'[c] = slot[c]
    BY MarksStay DEF ListInv, SlotsAreOwn
  <2>2. ASSUME NEW r \in Runner, StoreVc(r)
        PROVE  \A c \in Credential : vc[c] # NULL => vc'[c] = vc[c]
    BY <2>2 DEF StoreVc, ListInv, TypeOK, RunnersAreAlone, Signing, At
  <2>3. (\A r \in Runner : ~StoreVc(r)) => UNCHANGED vc
    BY ListStepKinds DEF Elsewhere, Issue, Revoke, StartSigning, AllocateSlot, StoreSlot,
                     StartPublishing, StoreList, FailJob, rowVars
  <2> QED
    BY <2>1, <2>2, <2>3
<1> QED
  BY <1>1, ListInvariance, PTL DEF Spec, SignedOnce

-------------------------------------------------------------------------------
(* The PDF and its notice.                                                   *)

InOrder ==
  /\ \A j \in PdfJob :
       /\ pdfRuns[j].at \in {"STORED", "RECORDED", "CHAINED"} => object # 0
       /\ pdfRuns[j].at \in {"RENDERED", "STORED", "RECORDED", "CHAINED"} =>
            pdfRuns[j].rendering # 0
       /\ pdfRuns[j].at \in {"RECORDED", "CHAINED"} => pdfSha256 # 0
       /\ pdfRuns[j].at = "CHAINED" => notices[j] # Unknown
       /\ pdfJobs[j].state = "COMPLETED" => notices[j] # Unknown
       /\ pdfJobs[j].state # "UNKNOWN" => issued
       /\ pdfJobs[j].state # "ACTIVE" => pdfRuns[j] = Start
       /\ notices[j] # Unknown => pdfSha256 # 0 /\ issued
       /\ notices[j].state = "COMPLETED" /\ HasEmail => mails[j] > 0
       /\ j \in sent \/ mails[j] > 0 => notices[j] # Unknown
  /\ downloads # {} => pdfSha256 # 0
  /\ pdfSha256 # 0 => object # 0

MailsAreCounted ==
  \A j \in PdfJob :
    /\ j \in sent => notices[j].state = "ACTIVE" /\ mails[j] > 0
    /\ notices[j].attempts = 0 =>
         /\ mails[j] <= 1
         /\ notices[j].state # "COMPLETED" /\ j \notin sent => mails[j] = 0

Alone ==
  (\A j \in ForcedJob : pdfJobs[j].state = "UNKNOWN") =>
    LET run == pdfRuns[StableJob] IN
    /\ run.at = "STORED" => object = run.rendering
    /\ run.at \in {"RECORDED", "CHAINED"} => object = run.rendering /\ pdfSha256 = object
    /\ pdfJobs[StableJob].state = "COMPLETED" => pdfSha256 = object

ArtifactsInv ==
  /\ ArtifactsTypeOK
  /\ Counted(pdfJobs, PdfJob) /\ Counted(notices, PdfJob)
  /\ InOrder /\ Alone /\ MailsAreCounted

-------------------------------------------------------------------------------
(* Steps.                                                                  *)

LEMMA ArtifactsTypeStep ==
  ASSUME ArtifactsTypeOK, Counted(pdfJobs, PdfJob), Counted(notices, PdfJob), ArtifactsNext
  PROVE  ArtifactsTypeOK' /\ Counted(pdfJobs, PdfJob)' /\ Counted(notices, PdfJob)'
<1>1. pdfJobs' \in [PdfJob -> Job] /\ Counted(pdfJobs, PdfJob)'
  <2>1. CASE UNCHANGED pdfJobs
    BY <2>1 DEF ArtifactsTypeOK, Counted
  <2>2. ASSUME NEW j \in PdfJob,
               \/ EnqueuePdf /\ j = StableJob
               \/ RegenerateArtifacts(j) \/ RetryJob(j) \/ StartPdf(j) \/ CompletePdf(j)
               \/ FailPdf(j)
        PROVE  pdfJobs' \in [PdfJob -> Job] /\ Counted(pdfJobs, PdfJob)'
    <3>1. \/ pdfJobs' = Add(pdfJobs, j)
          \/ pdfJobs[j].state = "FAILED" /\ pdfJobs' = Retry(pdfJobs, j)
          \/ pdfJobs' = Take(pdfJobs, j) \/ pdfJobs' = Complete(pdfJobs, j)
          \/ pdfJobs' = FailOrRetry(pdfJobs, j)
          \/ UNCHANGED pdfJobs
      BY <2>2 DEF EnqueuePdf, RegenerateArtifacts, RetryJob, FailedJobs, StartPdf,
                  CompletePdf, FailPdf
    <3> QED
      BY <2>1, <3>1, QueueOps DEF ArtifactsTypeOK, Counted
  <2> QED
    BY <2>1, <2>2
       DEF ArtifactsNext, PdfStep, PdfJob, IssueDiploma, RenderPdf, PutObject, RecordPdf,
           ChainNotice, StartNotice, SendEmail, RecordNotice, FailNotice, ReadPdfRow, StreamPdf
<1>2. notices' \in [PdfJob -> Job] /\ Counted(notices, PdfJob)'
  <2>1. CASE UNCHANGED notices
    BY <2>1 DEF ArtifactsTypeOK, Counted
  <2>2. ASSUME NEW j \in PdfJob,
               \/ ChainNotice(j) \/ RetryJob(j) \/ StartNotice(j) \/ RecordNotice(j)
               \/ FailNotice(j)
        PROVE  notices' \in [PdfJob -> Job] /\ Counted(notices, PdfJob)'
    <3>1. \/ notices' = Add(notices, j)
          \/ notices[j].state = "FAILED" /\ notices' = Retry(notices, j)
          \/ notices' = Take(notices, j) \/ notices' = Complete(notices, j)
          \/ notices' = FailOrRetry(notices, j)
          \/ UNCHANGED notices
      BY <2>2 DEF ChainNotice, RetryJob, FailedJobs, StartNotice, RecordNotice, FailNotice
    <3> QED
      BY <2>1, <3>1, QueueOps DEF ArtifactsTypeOK, Counted
  <2> QED
    BY <2>1, <2>2
       DEF ArtifactsNext, PdfStep, IssueDiploma, EnqueuePdf, RegenerateArtifacts, StartPdf,
           RenderPdf, PutObject, RecordPdf, CompletePdf, FailPdf, SendEmail, ReadPdfRow,
           StreamPdf
<1> DEFINE RunRow == [at : {"START", "RENDERED", "STORED", "RECORDED", "CHAINED"},
                      rendering : Rendering \cup {0}]
<1>3. pdfRuns' \in [PdfJob -> RunRow] /\ renders' \in 0 .. MaxRenders
  <2>1. CASE UNCHANGED <<pdfRuns, renders>>
    BY <2>1 DEF ArtifactsTypeOK
  <2>2. ASSUME NEW j \in PdfJob, RenderPdf(j)
        PROVE  pdfRuns' \in [PdfJob -> RunRow] /\ renders' \in 0 .. MaxRenders
    BY <2>2, ArtifactsAssumption DEF RenderPdf, ArtifactsTypeOK, Rendering
  <2>3. ASSUME NEW j \in PdfJob, PutObject(j) \/ RecordPdf(j) \/ ChainNotice(j)
        PROVE  pdfRuns' \in [PdfJob -> RunRow] /\ renders' \in 0 .. MaxRenders
    BY <2>3 DEF PutObject, RecordPdf, ChainNotice, ArtifactsTypeOK
  <2>4. ASSUME NEW j \in PdfJob, CompletePdf(j) \/ FailPdf(j)
        PROVE  pdfRuns' \in [PdfJob -> RunRow] /\ renders' \in 0 .. MaxRenders
    BY <2>4 DEF CompletePdf, FailPdf, Start, ArtifactsTypeOK
  <2> QED
    BY <2>1, <2>2, <2>3, <2>4
       DEF ArtifactsNext, PdfStep, IssueDiploma, EnqueuePdf, RegenerateArtifacts, RetryJob,
           StartPdf, StartNotice, SendEmail, RecordNotice, FailNotice, ReadPdfRow, StreamPdf
<1>4. /\ issued' \in BOOLEAN
      /\ object' \in 0 .. MaxRenders /\ pdfSha256' \in 0 .. MaxRenders
      /\ sent' \subseteq PdfJob /\ mails' \in [PdfJob -> 0 .. 2]
      /\ downloads' \subseteq Reader
  <2> USE DEF ArtifactsNext, PdfStep, IssueDiploma, EnqueuePdf, RegenerateArtifacts, RetryJob,
              StartPdf, RenderPdf, PutObject, RecordPdf, ChainNotice, CompletePdf, FailPdf,
              StartNotice, SendEmail, RecordNotice, FailNotice, ReadPdfRow, StreamPdf,
              ArtifactsTypeOK
  <2>1. issued' \in BOOLEAN
    OBVIOUS
  <2>2. \A j \in PdfJob : pdfRuns[j].rendering \in 0 .. MaxRenders
    BY ArtifactsAssumption DEF ArtifactsTypeOK, Rendering
  <2>3. object' \in 0 .. MaxRenders /\ pdfSha256' \in 0 .. MaxRenders
    BY <2>2
  <2>4. sent' \subseteq PdfJob /\ downloads' \subseteq Reader
    OBVIOUS
  <2>5. mails' \in [PdfJob -> 0 .. 2]
    <3>1. CASE UNCHANGED mails
      BY <3>1
    <3>2. ASSUME NEW j \in PdfJob, SendEmail(j) PROVE mails' \in [PdfJob -> 0 .. 2]
      BY <3>2
    <3> QED
      BY <3>1, <3>2
  <2> QED
    BY <2>1, <2>3, <2>4, <2>5
<1> QED
  BY <1>1, <1>2, <1>3, <1>4 DEF ArtifactsTypeOK

LEMMA WritesInOrderStep ==
  ASSUME ArtifactsTypeOK, Counted(pdfJobs, PdfJob), Counted(notices, PdfJob), InOrder,
         MailsAreCounted, ArtifactsNext
  PROVE  InOrder'
<1> USE ArtifactsAssumption DEF ArtifactsTypeOK, InOrder
<1>1. CASE IssueDiploma
  BY <1>1 DEF IssueDiploma
<1>2. CASE EnqueuePdf
  BY <1>2 DEF EnqueuePdf, Add, Added, Unknown, PdfJob
<1>3. ASSUME NEW j \in PdfJob, RegenerateArtifacts(j) PROVE InOrder'
  BY <1>3 DEF RegenerateArtifacts, Add, Added, Unknown
<1>4. ASSUME NEW j \in PdfJob, RetryJob(j) PROVE InOrder'
  <2>1. CASE notices' = notices /\ j \in FailedJobs(pdfJobs) /\ pdfJobs' = Retry(pdfJobs, j)
    <3>1. /\ pdfJobs[j].state = "FAILED" /\ pdfJobs'[j].state = "WAITING"
          /\ \A k \in PdfJob : k # j => pdfJobs'[k] = pdfJobs[k]
      BY <2>1 DEF FailedJobs, Retry, Job
    <3> QED
      BY <1>4, <2>1, <3>1 DEF RetryJob
  <2>2. CASE pdfJobs' = pdfJobs /\ j \in FailedJobs(notices) /\ notices' = Retry(notices, j)
    <3>1. /\ notices[j].state = "FAILED" /\ notices'[j].state = "WAITING"
          /\ \A k \in PdfJob : k # j => notices'[k] = notices[k]
      BY <2>2 DEF FailedJobs, Retry, Job
    <3>2. notices[j] # Unknown /\ notices'[j] # Unknown
      BY <3>1 DEF Unknown
    <3> QED
      BY <1>4, <2>2, <3>1, <3>2 DEF RetryJob
  <2> QED
    BY <1>4, <2>1, <2>2 DEF RetryJob
<1>5. ASSUME NEW j \in PdfJob, StartPdf(j) PROVE InOrder'
  BY <1>5 DEF StartPdf, Take, Job, JobState, Start
<1>6. ASSUME NEW j \in PdfJob, RenderPdf(j) PROVE InOrder'
  BY <1>6 DEF RenderPdf, RunsAt
<1>7. ASSUME NEW j \in PdfJob, PutObject(j) PROVE InOrder'
  BY <1>7 DEF PutObject, RunsAt
<1>8. ASSUME NEW j \in PdfJob, RecordPdf(j) PROVE InOrder'
  BY <1>8 DEF RecordPdf, RunsAt
<1>9. ASSUME NEW j \in PdfJob, ChainNotice(j) PROVE InOrder'
  BY <1>9 DEF ChainNotice, RunsAt, Add, Added, Unknown
<1>10. ASSUME NEW j \in PdfJob, CompletePdf(j) PROVE InOrder'
  BY <1>10 DEF CompletePdf, RunsAt, Complete, Job, JobState, Start
<1>11. ASSUME NEW j \in PdfJob, FailPdf(j) PROVE InOrder'
  BY <1>11 DEF FailPdf, FailOrRetry, Job, JobState, Start
<1>12. ASSUME NEW j \in PdfJob, StartNotice(j) PROVE InOrder'
  BY <1>12 DEF StartNotice, Take, Complete, Job, JobState, Unknown
<1>13. ASSUME NEW j \in PdfJob, SendEmail(j) PROVE InOrder'
  <2>1. /\ notices[j] # Unknown
        /\ \A k \in PdfJob : mails[k] > 0 => mails'[k] > 0
        /\ \A k \in PdfJob : k # j => mails'[k] = mails[k]
    BY <1>13 DEF SendEmail, Unknown
  <2> QED
    BY <1>13, <2>1 DEF SendEmail
<1>14. ASSUME NEW j \in PdfJob, RecordNotice(j) PROVE InOrder'
  BY <1>14 DEF RecordNotice, Complete, Job, JobState, Unknown, MailsAreCounted
<1>15. ASSUME NEW j \in PdfJob, FailNotice(j) PROVE InOrder'
  BY <1>15 DEF FailNotice, FailOrRetry, Job, JobState, Unknown
<1>16. ASSUME NEW d \in Reader, ReadPdfRow(d) \/ StreamPdf(d) PROVE InOrder'
  BY <1>16 DEF ReadPdfRow, StreamPdf
<1> QED
  BY <1>1, <1>2, <1>3, <1>4, <1>5, <1>6, <1>7, <1>8, <1>9, <1>10, <1>11, <1>12, <1>13,
     <1>14, <1>15, <1>16 DEF ArtifactsNext, PdfStep

LEMMA MailsCountedStep ==
  ASSUME ArtifactsTypeOK, Counted(notices, PdfJob), MailsAreCounted, ArtifactsNext
  PROVE  MailsAreCounted'
<1> USE DEF ArtifactsTypeOK, MailsAreCounted
<1>1. CASE UNCHANGED <<notices, sent, mails>>
  BY <1>1
<1>2. ASSUME NEW j \in PdfJob, ChainNotice(j) PROVE MailsAreCounted'
  BY <1>2 DEF ChainNotice, Add, Added, Unknown
<1>3. ASSUME NEW j \in PdfJob, RetryJob(j) PROVE MailsAreCounted'
  BY <1>3 DEF RetryJob, FailedJobs, Retry, Counted, Job
<1>4. ASSUME NEW j \in PdfJob, StartNotice(j) PROVE MailsAreCounted'
  BY <1>4 DEF StartNotice, Take, Complete, Job
<1>5. ASSUME NEW j \in PdfJob, SendEmail(j) PROVE MailsAreCounted'
  <2>1. /\ mails[j] \in 0 .. 2 /\ j \notin sent /\ notices[j].state = "ACTIVE"
        /\ mails'[j] = IF mails[j] < 2 THEN mails[j] + 1 ELSE mails[j]
        /\ \A k \in PdfJob : k # j => mails'[k] = mails[k]
        /\ sent' = sent \cup {j} /\ notices' = notices
    BY <1>5 DEF SendEmail
  <2> QED
    BY <2>1
<1>6. ASSUME NEW j \in PdfJob, RecordNotice(j) PROVE MailsAreCounted'
  BY <1>6 DEF RecordNotice, Complete, Job
<1>7. ASSUME NEW j \in PdfJob, FailNotice(j) PROVE MailsAreCounted'
  <2>1. notices'[j].attempts # 0
    BY <1>7, AttemptsAssumption DEF FailNotice, FailOrRetry, Job
  <2>2. \A k \in PdfJob : k # j => notices'[k] = notices[k]
    BY <1>7 DEF FailNotice, FailOrRetry
  <2> QED
    BY <1>7, <2>1, <2>2 DEF FailNotice
<1> QED
  BY <1>1, <1>2, <1>3, <1>4, <1>5, <1>6, <1>7
     DEF ArtifactsNext, PdfStep, IssueDiploma, EnqueuePdf, RegenerateArtifacts, StartPdf,
         RenderPdf, PutObject, RecordPdf, CompletePdf, FailPdf, ReadPdfRow, StreamPdf

LEMMA JobAloneStep ==
  ASSUME ArtifactsTypeOK, Counted(pdfJobs, PdfJob), InOrder, Alone, ArtifactsNext
  PROVE  Alone'
<1> USE ArtifactsAssumption DEF ArtifactsTypeOK, Alone, PdfJob
<1>1. CASE UNCHANGED <<pdfJobs, pdfRuns, object, pdfSha256>>
  BY <1>1
<1>2. CASE EnqueuePdf
  BY <1>2 DEF EnqueuePdf, Add, Added, InOrder, Unknown, Start
<1>3. ASSUME NEW j \in PdfJob, RegenerateArtifacts(j) PROVE Alone'
  BY <1>3 DEF RegenerateArtifacts, Add, Added
<1>4. ASSUME NEW j \in PdfJob, RetryJob(j) PROVE Alone'
  <2>1. \/ UNCHANGED pdfJobs
        \/ /\ pdfJobs[j].state = "FAILED" /\ pdfJobs'[j].state = "WAITING"
           /\ \A k \in PdfJob : k # j => pdfJobs'[k] = pdfJobs[k]
    BY <1>4 DEF RetryJob, FailedJobs, Retry, Job
  <2> QED
    BY <1>4, <2>1 DEF RetryJob
<1>5. ASSUME NEW j \in PdfJob, StartPdf(j) PROVE Alone'
  BY <1>5 DEF StartPdf, Take, Job
<1>6. ASSUME NEW j \in PdfJob, RenderPdf(j) PROVE Alone'
  BY <1>6 DEF RenderPdf, RunsAt
<1>7. ASSUME NEW j \in PdfJob, PutObject(j) PROVE Alone'
  BY <1>7 DEF PutObject, RunsAt
<1>8. ASSUME NEW j \in PdfJob, RecordPdf(j) PROVE Alone'
  BY <1>8 DEF RecordPdf, RunsAt
<1>9. ASSUME NEW j \in PdfJob, ChainNotice(j) PROVE Alone'
  BY <1>9 DEF ChainNotice, RunsAt
<1>10. ASSUME NEW j \in PdfJob, CompletePdf(j) PROVE Alone'
  BY <1>10 DEF CompletePdf, RunsAt, Complete, Job, Start
<1>11. ASSUME NEW j \in PdfJob, FailPdf(j) PROVE Alone'
  BY <1>11 DEF FailPdf, FailOrRetry, Job, Start
<1> QED
  BY <1>1, <1>2, <1>3, <1>4, <1>5, <1>6, <1>7, <1>8, <1>9, <1>10, <1>11
     DEF ArtifactsNext, PdfStep, IssueDiploma, StartNotice, SendEmail, RecordNotice,
         FailNotice, ReadPdfRow, StreamPdf

-------------------------------------------------------------------------------
(* Theorems.                                                               *)

LEMMA InitArtifactsInv == ArtifactsInit => ArtifactsInv
<1> SUFFICES ASSUME ArtifactsInit PROVE ArtifactsInv
  OBVIOUS
<1>1. Unknown \in Job /\ Unknown.state = "UNKNOWN"
  BY AttemptsAssumption DEF Unknown, Job, JobState
<1>2. ArtifactsTypeOK
  <2>1. pdfJobs \in [PdfJob -> Job] /\ notices \in [PdfJob -> Job]
    BY <1>1 DEF ArtifactsInit
  <2>2. pdfRuns \in [PdfJob -> [at : {"START", "RENDERED", "STORED", "RECORDED", "CHAINED"},
                               rendering : Rendering \cup {0}]]
    BY DEF ArtifactsInit, Start
  <2>3. 0 \in 0 .. MaxRenders
    BY ArtifactsAssumption
  <2>4. issued \in BOOLEAN
    BY DEF ArtifactsInit
  <2> QED
    BY <2>1, <2>2, <2>3, <2>4 DEF ArtifactsInit, ArtifactsTypeOK
<1>3. Counted(pdfJobs, PdfJob) /\ Counted(notices, PdfJob)
  BY <1>1 DEF ArtifactsInit, Counted
<1>4. InOrder /\ Alone
  BY <1>1 DEF ArtifactsInit, InOrder, Alone, Start, PdfJob
<1>5. MailsAreCounted
  BY DEF ArtifactsInit, MailsAreCounted
<1> QED
  BY <1>2, <1>3, <1>4, <1>5 DEF ArtifactsInv

LEMMA StepArtifactsInv == ArtifactsInv /\ [ArtifactsNext]_artifactVars => ArtifactsInv'
<1> SUFFICES ASSUME ArtifactsInv, [ArtifactsNext]_artifactVars PROVE ArtifactsInv'
  OBVIOUS
<1>1. CASE UNCHANGED artifactVars
  BY <1>1 DEF artifactVars, ArtifactsInv, ArtifactsTypeOK, Counted, InOrder, Alone,
              MailsAreCounted
<1>2. CASE ArtifactsNext
  BY <1>2, ArtifactsTypeStep, WritesInOrderStep, JobAloneStep, MailsCountedStep
     DEF ArtifactsInv
<1> QED
  BY <1>1, <1>2

\* The types, the counted attempts and the order of the writes, in every state.
THEOREM ArtifactsInvariance == ArtifactsSpec => []ArtifactsInv
BY InitArtifactsInv, StepArtifactsInv, PTL DEF ArtifactsSpec

\* No download finds a row without an object, and without a regeneration the row
\* has the checksum of the object, for any number of failures and retries.
THEOREM DownloadsNeverFail == ArtifactsSpec => []DownloadsAreServed
<1>1. ArtifactsInv => DownloadsAreServed
  BY DEF ArtifactsInv, InOrder, Alone, DownloadsAreServed, Unknown, PdfJob
<1> QED
  BY <1>1, ArtifactsInvariance, PTL

\* No mail before the PDF, and none lost between the two queues.
THEOREM CompletedJobsTell == ArtifactsSpec => []CompletedMeansTold
<1>1. ArtifactsInv => CompletedMeansTold
  BY DEF ArtifactsInv, InOrder, CompletedMeansTold
<1> QED
  BY <1>1, ArtifactsInvariance, PTL

\* A notice that completed stays so, and is mailed no more, whichever job is tried
\* again by the queue or an operator; and one that is mailed a second time has seen an
\* attempt fail, for any number of jobs and attempts.
THEOREM NoticesAreMailedAgainAfterFailure == ArtifactsSpec => MailedAgainAfterFailureOnly
<1> DEFINE Stays == \A j \in PdfJob : notices[j].state = "COMPLETED" =>
                      notices'[j].state = "COMPLETED" /\ mails'[j] = mails[j]
           Counts == \A j \in PdfJob : mails[j] > 1 => notices[j].attempts > 0
<1>1. ArtifactsInv /\ [ArtifactsNext]_artifactVars => [Stays]_artifactVars
  <2> SUFFICES ASSUME ArtifactsInv, ArtifactsNext, NEW j \in PdfJob,
                      notices[j].state = "COMPLETED"
               PROVE  notices'[j].state = "COMPLETED" /\ mails'[j] = mails[j]
    OBVIOUS
  <2> USE DEF ArtifactsInv, ArtifactsTypeOK
  <2>1. CASE UNCHANGED <<notices, mails>>
    BY <2>1
  <2>2. ASSUME NEW k \in PdfJob,
               \/ ChainNotice(k) \/ RetryJob(k) \/ StartNotice(k) \/ SendEmail(k)
               \/ RecordNotice(k) \/ FailNotice(k)
        PROVE  notices'[j].state = "COMPLETED" /\ mails'[j] = mails[j]
    <3>1. k = j =>
            notices[k] # Unknown /\ notices[k].state \notin {"WAITING", "ACTIVE", "FAILED"}
      BY DEF Unknown
    <3>2. k = j => UNCHANGED <<notices, mails>>
      BY <2>2, <3>1 DEF ChainNotice, Add, RetryJob, FailedJobs, StartNotice, SendEmail,
                        RecordNotice, FailNotice
    <3>3. k # j => notices'[j] = notices[j] /\ mails'[j] = mails[j]
      BY <2>2 DEF ChainNotice, RetryJob, StartNotice, SendEmail, RecordNotice, FailNotice,
                  Add, Retry, Take, Complete, FailOrRetry
    <3> QED
      BY <3>2, <3>3
  <2> QED
    BY <2>1, <2>2
       DEF ArtifactsNext, PdfStep, IssueDiploma, EnqueuePdf, RegenerateArtifacts, StartPdf,
           RenderPdf, PutObject, RecordPdf, CompletePdf, FailPdf, ReadPdfRow, StreamPdf
<1>2. ArtifactsInv => Counts
  <2> SUFFICES ASSUME ArtifactsInv, NEW j \in PdfJob, mails[j] > 1
               PROVE  notices[j].attempts > 0
    OBVIOUS
  <2>1. notices[j].attempts \in Nat /\ mails[j] \in Nat
    BY AttemptsAssumption DEF ArtifactsInv, ArtifactsTypeOK, Job
  <2> QED
    BY <2>1 DEF ArtifactsInv, MailsAreCounted
<1> HIDE DEF Stays, Counts
<1>3. ArtifactsSpec => [][Stays]_artifactVars /\ []Counts
  BY <1>1, <1>2, ArtifactsInvariance, PTL DEF ArtifactsSpec
<1> QED
  BY <1>3 DEF MailedAgainAfterFailureOnly, Stays, Counts

-------------------------------------------------------------------------------
(* Together.                                                                 *)

LEMMA EachJob == JobsSpec => Spec /\ ArtifactsSpec
<1>1. JobsInit => Init /\ ArtifactsInit
  BY DEF JobsInit
<1>2. [JobsNext]_jobsVars => [Next]_vars /\ [ArtifactsNext]_artifactVars
  BY DEF JobsNext, jobsVars, artifactVars, vars
<1> QED
  BY <1>1, <1>2, PTL DEF JobsSpec, Spec, ArtifactsSpec

\* Every reachable state of the jobs is of the types, for every value of the constants.
THEOREM JobsTypes == JobsSpec => []JobsTypeOK
<1>1. ListInv /\ ArtifactsInv => JobsTypeOK
  BY DEF ListInv, ArtifactsInv, JobsTypeOK
<1> QED
  BY <1>1, EachJob, ListInvariance, ArtifactsInvariance, PTL

\* What is signed is not signed again, and what is mailed and recorded not mailed
\* again, however the jobs of an issuance fail and are run again.
THEOREM RerunsKeep == JobsSpec => RerunsKeepWhatIsDone
BY EachJob, VcsAreSignedOnce, NoticesAreMailedAgainAfterFailure DEF RerunsKeepWhatIsDone
===============================================================================
