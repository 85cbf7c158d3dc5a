---------------------------- MODULE AnchoringProofs ----------------------------
(***************************************************************************)
(* Theorems about Anchoring, for any sets of credentials and runners, any  *)
(* number of days and transactions, and any foreign roots.                 *)
(*                                                                         *)
(* Why CONFIRMED means on the chain: the leaves of a batch are frozen, so  *)
(* that every transaction ever sent for a day carries that root, and       *)
(* whichever of them is mined first sets it (TransactionsCarryBatches); a  *)
(* run confirms after a receipt or after it has read that root             *)
(* (RunsFollowBatches).  Why no status falls back: a run that still writes *)
(* SUBMITTED began to submit while there was no root, when nobody could    *)
(* have been confirmed, and no other run is under way.                     *)
(***************************************************************************)
EXTENDS Anchoring, FiniteSetTheorems, TLAPS

Anchored(d) == batches[d] # NULL /\ roots[d] = batches[d].leaves

Busy(w) == ~At(w, "IDLE")

RunFollowsBatch(w) ==
  LET d == runs[w].day IN
  /\ Busy(w) => d \in Day
  /\ Busy(w) /\ ~At(w, "ASSEMBLE") => batches[d] # NULL
  /\ runs[w].phase \in {"RECORD", "MEMBERS_SUBMITTED", "WAIT"} =>
       /\ runs[w].tx \in 1 .. MaxTx
       /\ txs[runs[w].tx] # NULL
       /\ txs[runs[w].tx].day = d
  /\ runs[w].phase \in {"CONFIRM", "MEMBERS_CONFIRMED"} => Anchored(d)
  /\ runs[w].phase \in {"SUBMIT", "RECORD", "MEMBERS_SUBMITTED"} =>
       \A c \in Credential : anchorBatch[c] = d => anchorStatus[c] # "CONFIRMED"
  /\ runs[w].guarded => Busy(w) /\ ~At(w, "ASSEMBLE")

RunsFollowBatches ==
  /\ \A w \in Runner : RunFollowsBatch(w)
  /\ \A v, w \in Runner : Busy(v) /\ Busy(w) => v = w

TransactionsCarryBatches ==
  /\ \A d \in Day : batches[d] # NULL => batches[d].leaves # {}
  /\ \A i \in 1 .. MaxTx : txs[i] # NULL =>
       /\ batches[txs[i].day] # NULL
       /\ txs[i].root = batches[txs[i].day].leaves
       /\ txs[i].status = "SUCCESS" => Anchored(txs[i].day)

ConfirmedAreAnchored ==
  /\ \A d \in Day : Confirmed(d) => Anchored(d)
  /\ \A c \in Credential : anchorStatus[c] = "CONFIRMED" =>
       anchorBatch[c] \in Day /\ Anchored(anchorBatch[c])

\* The leaves of a batch are one for each of its members.
MembersHaveLeaves ==
  /\ \A c \in Credential : anchorStatus[c] = "AWAITING_BATCH" => anchorBatch[c] = 0
  /\ \A c \in Credential :
       issuedOn[c] = 0 => anchorStatus[c] = "NOT_ELIGIBLE" /\ anchorBatch[c] = 0
  /\ \A c \in Credential, d \in Day : anchorBatch[c] = d =>
       batches[d] # NULL /\ \E s \in BOOLEAN : <<c, s>> \in batches[d].leaves
  /\ \A c \in Credential, d \in Day, s \in BOOLEAN :
       batches[d] # NULL /\ <<c, s>> \in batches[d].leaves => anchorBatch[c] = d
  /\ \A c \in Credential, d \in Day, s, t \in BOOLEAN :
       batches[d] # NULL /\ <<c, s>> \in batches[d].leaves
         /\ <<c, t>> \in batches[d].leaves => s = t

IndInv ==
  /\ TypeOK
  /\ RunsFollowBatches
  /\ TransactionsCarryBatches
  /\ ConfirmedAreAnchored
  /\ MembersHaveLeaves

-------------------------------------------------------------------------------
(* Types.                                                                  *)

LEMMA NextTransaction ==
  ASSUME TypeOK PROVE Cardinality(Sent) \in Nat
<1>1. IsFiniteSet(1 .. MaxTx)
  BY TxAssumption, FS_Interval
<1>2. IsFiniteSet(Sent)
  BY <1>1, FS_Subset DEF Sent
<1> QED
  BY <1>2, FS_CardinalityType

Phase ==
  {"IDLE", "ASSEMBLE", "CHECK", "SUBMIT", "RECORD", "MEMBERS_SUBMITTED",
   "WAIT", "CONFIRM", "MEMBERS_CONFIRMED", "CATCH"}

LEMMA QueueTypes ==
  ASSUME NEW queue \in [Morning -> Job], NEW m
  PROVE  /\ Take(queue, m) \in [Morning -> Job]
         /\ Complete(queue, m) \in [Morning -> Job]
         /\ GiveUp(queue, m) \in [Morning -> Job]
         /\ FailOrRetry(queue, m) \in [Morning -> Job]
<1>1. ASSUME NEW job \in Job, NEW s \in JobState PROVE [job EXCEPT !.state = s] \in Job
  BY DEF Job
<1>2. ASSUME NEW s \in JobState PROVE [queue EXCEPT ![m].state = s] \in [Morning -> Job]
  BY <1>1
<1>3. "ACTIVE" \in JobState /\ "COMPLETED" \in JobState /\ "FAILED" \in JobState
  BY DEF JobState
<1>4. ASSUME NEW job \in Job
      PROVE  (IF LastAttempt(job) THEN [state |-> "FAILED", attempts |-> MaxAttempts]
              ELSE [state |-> "WAITING", attempts |-> job.attempts + 1]) \in Job
  BY AttemptsAssumption DEF Job, JobState, LastAttempt
<1>5. FailOrRetry(queue, m) \in [Morning -> Job]
  BY <1>4 DEF FailOrRetry
<1> QED
  BY <1>2, <1>3, <1>5 DEF Take, Complete, GiveUp

Started(m, d) ==
  [phase |-> "ASSEMBLE", job |-> m, day |-> d, tx |-> 0, guarded |-> FALSE]

LEMMA StartedType ==
  ASSUME NEW m \in 0 .. LastDay + 1, NEW d \in 0 .. LastDay
  PROVE  Started(m, d) \in Run
BY TxAssumption DEF Started, Run, TxId

RunEnds(w) == \/ CompleteJob(w) \/ FailJob(w)
              \/ Finish(w, GiveUp(jobs, runs[w].job))

LEMMA RunTypes ==
  ASSUME TypeOK, NEW w \in Runner, NEW r \in Run
  PROVE  /\ runs' = [runs EXCEPT ![w] = r] => runs' \in [Runner -> Run]
         /\ RunEnds(w) => /\ runs' \in [Runner -> Run] /\ runs' = [runs EXCEPT ![w] = Idle]
                          /\ jobs' \in [Morning -> Job]
         /\ \A p \in Phase : Goto(w, p) => runs' \in [Runner -> Run]
<1>1. Idle \in Run
  BY DaysAssumption, TxAssumption DEF Idle, Run, TxId
<1>2. runs \in [Runner -> Run] /\ runs[w] \in Run /\ jobs \in [Morning -> Job]
  BY DEF TypeOK
<1>3. ASSUME NEW p \in Phase PROVE [runs[w] EXCEPT !.phase = p] \in Run
  BY <1>2 DEF Run, Phase
<1>4. ASSUME NEW q \in Run, runs' = [runs EXCEPT ![w] = q]
      PROVE  runs' \in [Runner -> Run]
  BY <1>2, <1>4
<1>5. RunEnds(w) => jobs' \in [Morning -> Job] /\ runs' = [runs EXCEPT ![w] = Idle]
  BY <1>2, QueueTypes DEF RunEnds, Finish, CompleteJob, FailJob
<1> QED
  BY <1>1, <1>3, <1>4, <1>5 DEF Goto

LEMMA TypeStep ==
  ASSUME TypeOK, RunsFollowBatches, Next PROVE TypeOK'
<1> USE DaysAssumption, TxAssumption DEF TypeOK, credentialVars
<1>1. ASSUME NEW c \in Credential, Issue(c) PROVE TypeOK'
  <2>1. issuedOn' \in [Credential -> 0 .. LastDay]
    BY <1>1 DEF Issue, Day
  <2>2. anchorStatus' \in [Credential -> AnchorDimension]
    BY <1>1 DEF Issue, AnchorDimension
  <2> QED
    BY <1>1, <2>1, <2>2 DEF Issue
<1>2. ASSUME NEW c \in Credential, SignVc(c) PROVE TypeOK'
  BY <1>2 DEF SignVc
<1>3. CASE Midnight
  <2>1. today' \in 1 .. LastDay + 1
    BY <1>3 DEF Midnight, Day
  <2> QED
    BY <1>3, <2>1 DEF Midnight
<1>4. ASSUME NEW i \in 1 .. MaxTx, Mine(i) \/ Lose(i) PROVE TypeOK'
  <2>1. txs[i] \in ChainTx
    BY <1>4 DEF Mine, Lose
  <2>2. txs' \in [1 .. MaxTx -> ChainTx \cup {NULL}]
    <3>1. PICK s \in {"SUCCESS", "REVERTED", "LOST"} :
            txs' = [txs EXCEPT ![i] = [txs[i] EXCEPT !.status = s]]
      BY <1>4 DEF Mine, Lose
    <3>2. [txs[i] EXCEPT !.status = s] \in ChainTx
      BY <2>1 DEF ChainTx
    <3> QED
      BY <3>1, <3>2
  <2>3. txs[i].day \in Day /\ txs[i].root \in Root
    BY <2>1 DEF ChainTx, Root
  <2>4. roots' \in [Day -> Root]
    BY <1>4, <2>3 DEF Mine, Lose
  <2> QED
    BY <1>4, <2>2, <2>4 DEF Mine, Lose
<1>5. ASSUME NEW d \in Day, AnchorElsewhere(d) PROVE TypeOK'
  <2>1. roots' \in [Day -> Root]
    BY <1>5 DEF AnchorElsewhere, Root
  <2> QED
    BY <1>5, <2>1 DEF AnchorElsewhere
<1>6. ASSUME NEW w \in Runner, StartRun(w) \/ Throw(w) \/ Crash(w) PROVE TypeOK'
  <2>1. runs[w] \in Run
    OBVIOUS
  <2>2. CASE StartRun(w)
    <3>1. PICK m \in Morning : m <= today /\ TakeJob(w, m, today - 1)
      BY <2>2 DEF StartRun
    <3>2. today - 1 \in 0 .. LastDay /\ m \in 0 .. LastDay + 1
      BY <3>1 DEF Morning
    <3>3. Started(m, today - 1) \in Run
      BY <3>2, StartedType
    <3>4. runs' = [runs EXCEPT ![w] = Started(m, today - 1)]
      BY <3>1 DEF TakeJob, Started
    <3>5. runs' \in [Runner -> Run] /\ jobs' \in [Morning -> Job]
      BY <3>1, <3>3, <3>4, RunTypes, QueueTypes DEF TakeJob
    <3> QED
      BY <3>1, <3>5 DEF TakeJob
  <2>3. CASE Throw(w) \/ Crash(w)
    <3>1. runs' \in [Runner -> Run] /\ jobs' \in [Morning -> Job]
      BY <2>1, <2>3, RunTypes DEF Throw, Crash, Phase, RunEnds
    <3> QED
      BY <2>3, <3>1 DEF Throw, Crash
  <2> QED
    BY <1>6, <2>2, <2>3
<1>7. ASSUME NEW w \in Runner, Busy(w) PROVE runs[w] \in Run /\ runs[w].day \in Day
  BY <1>7 DEF RunsFollowBatches, RunFollowsBatch
<1>8. ASSUME NEW w \in Runner, Busy(w), ~At(w, "ASSEMBLE")
      PROVE  batches[runs[w].day] \in Batch
  BY <1>7, <1>8 DEF RunsFollowBatches, RunFollowsBatch
<1>9. ASSUME NEW w \in Runner, Assemble(w) PROVE TypeOK'
  <2>1. runs[w] \in Run /\ runs[w].day \in Day
    BY <1>7, <1>9 DEF Assemble, Busy, At
  <2> DEFINE members == {c \in Credential : Eligible(c, runs[w].day)}
             new == [leaves |-> {<<c, c \in signed>> : c \in members},
                     status |-> "PENDING", tx |-> 0]
  <2>2. new \in Batch
    <3>1. ASSUME NEW c \in Credential PROVE <<c, c \in signed>> \in Leaf
      <4>1. (c \in signed) \in BOOLEAN
        OBVIOUS
      <4> QED
        BY <4>1 DEF Leaf
    <3>2. {<<c, c \in signed>> : c \in members} \in SUBSET Leaf
      BY <3>1
    <3> QED
      BY <3>2 DEF Batch, TxId
  <2>3. batches' = batches \/ batches' = [batches EXCEPT ![runs[w].day] = new]
    BY <1>9 DEF Assemble
  <2>4. batches' \in [Day -> Batch \cup {NULL}]
    BY <2>1, <2>2, <2>3
  <2>5. anchorStatus' \in [Credential -> AnchorDimension]
    BY <1>9 DEF Assemble, AnchorDimension
  <2>6. anchorBatch' \in [Credential -> 0 .. LastDay]
    <3>1. runs[w].day \in 0 .. LastDay
      BY <2>1 DEF Day
    <3>2. CASE anchorBatch' = anchorBatch
      BY <3>2
    <3>3. CASE anchorBatch' = [c \in Credential |->
                 IF c \in members THEN runs[w].day ELSE anchorBatch[c]]
      BY <3>1, <3>3
    <3> QED
      BY <1>9, <3>2, <3>3 DEF Assemble
  <2>7. runs' \in [Runner -> Run] /\ jobs' \in [Morning -> Job]
    <3>1. batches[runs[w].day] # NULL => batches[runs[w].day].tx \in TxId
      BY <2>1 DEF Batch
    <3>2. batches[runs[w].day] # NULL =>
            [runs[w] EXCEPT !.phase = "CHECK", !.tx = batches[runs[w].day].tx] \in Run
      BY <2>1, <3>1 DEF Run
    <3> QED
      BY <1>9, <2>1, <3>2, RunTypes DEF Assemble, Phase, RunEnds
  <2> QED
    BY <1>9, <2>4, <2>5, <2>6, <2>7 DEF Assemble
<1>10. ASSUME NEW w \in Runner, Submit(w) PROVE TypeOK'
  <2>1. /\ runs[w] \in Run /\ runs[w].day \in Day
        /\ batches[runs[w].day] \in Batch
    BY <1>7, <1>8, <1>10 DEF Submit, Busy, At
  <2>2. Cardinality(Sent) \in Nat
    BY NextTransaction
  <2> DEFINE i == Cardinality(Sent) + 1
             new == [day |-> runs[w].day, root |-> batches[runs[w].day].leaves,
                     status |-> "PENDING"]
  <2>3. new \in ChainTx
    BY <2>1 DEF ChainTx, Batch
  <2>4. txs' = txs \/ txs' = [txs EXCEPT ![i] = new]
    BY <1>10 DEF Submit
  <2>5. txs' \in [1 .. MaxTx -> ChainTx \cup {NULL}]
    BY <2>3, <2>4
  <2>6. runs' \in [Runner -> Run]
    <3>1. i \in TxId => [runs[w] EXCEPT !.phase = "RECORD", !.tx = i] \in Run
      BY <2>1 DEF Run
    <3>2. i <= MaxTx => i \in TxId
      BY <2>2 DEF TxId
    <3> QED
      BY <1>10, <2>1, <3>1, <3>2, RunTypes DEF Submit, Phase
  <2> QED
    BY <1>10, <2>5, <2>6 DEF Submit
<1>11. ASSUME NEW w \in Runner,
              CheckRoot(w) \/ RecordSubmission(w) \/ ConfirmBatch(w) \/ Catch(w)
       PROVE  TypeOK'
  <2>1. /\ runs[w] \in Run /\ runs[w].day \in Day /\ runs[w].tx \in TxId
        /\ batches[runs[w].day] \in Batch
    BY <1>7, <1>8, <1>11 DEF CheckRoot, RecordSubmission, ConfirmBatch, Catch, Busy,
                             At, Run
  <2>2. batches' \in [Day -> Batch \cup {NULL}]
    <3> DEFINE b == batches[runs[w].day]
    <3>1. PICK s \in {"PENDING", "SUBMITTED", "CONFIRMED", "FAILED"}, x \in TxId :
            \/ batches' = batches
            \/ batches' = [batches EXCEPT ![runs[w].day] = [b EXCEPT !.status = s, !.tx = x]]
      <4>1. b.tx \in TxId /\ b = [b EXCEPT !.tx = b.tx]
        BY <2>1 DEF Batch
      <4>2. CASE CheckRoot(w) \/ Catch(w)
        <5>1. [b EXCEPT !.status = "FAILED"] = [b EXCEPT !.status = "FAILED", !.tx = b.tx]
          BY <2>1 DEF Batch
        <5>2. \/ batches' = batches
              \/ batches' = [batches EXCEPT ![runs[w].day] = [b EXCEPT !.status = "FAILED"]]
          BY <4>2 DEF CheckRoot, Catch
        <5> QED
          BY <4>1, <5>1, <5>2, Zenon
      <4>3. CASE RecordSubmission(w)
        BY <2>1, <4>3 DEF RecordSubmission
      <4>4. CASE ConfirmBatch(w)
        BY <2>1, <4>1, <4>4 DEF ConfirmBatch
      <4> QED
        BY <1>11, <4>2, <4>3, <4>4, Zenon
    <3>2. [b EXCEPT !.status = s, !.tx = x] \in Batch
      BY <2>1 DEF Batch
    <3> QED
      BY <3>1, <3>2
  <2>3. runs' \in [Runner -> Run] /\ jobs' \in [Morning -> Job]
    <3>1. [runs[w] EXCEPT !.phase = "SUBMIT", !.guarded = TRUE] \in Run
      BY <2>1 DEF Run
    <3> QED
      BY <1>11, <2>1, <3>1, RunTypes
         DEF CheckRoot, RecordSubmission, ConfirmBatch, Catch, Phase, RunEnds
  <2> QED
    BY <1>11, <2>2, <2>3 DEF CheckRoot, RecordSubmission, ConfirmBatch, Catch
<1>12. ASSUME NEW w \in Runner, SubmitMembers(w) \/ AwaitReceipt(w) \/ ConfirmMembers(w)
       PROVE  TypeOK'
  <2>1. runs[w] \in Run
    OBVIOUS
  <2>2. runs' \in [Runner -> Run] /\ jobs' \in [Morning -> Job]
    BY <1>12, <2>1, RunTypes DEF SubmitMembers, AwaitReceipt, ConfirmMembers, Phase, RunEnds
  <2>3. anchorStatus' \in [Credential -> AnchorDimension]
    BY <1>12 DEF SubmitMembers, AwaitReceipt, ConfirmMembers, SetCredentialStatus,
                 AnchorDimension
  <2> QED
    BY <1>12, <2>2, <2>3 DEF SubmitMembers, AwaitReceipt, ConfirmMembers
<1> QED
  BY <1>1, <1>2, <1>3, <1>4, <1>5, <1>6, <1>9, <1>10, <1>11, <1>12 DEF Next, Advance

-------------------------------------------------------------------------------
(* What is frozen.                                                         *)

\* A batch keeps its leaves and a day its root.
LEMMA Frozen ==
  ASSUME TypeOK, RunsFollowBatches, Next
  PROVE  /\ \A d \in Day : batches[d] # NULL =>
              batches'[d] # NULL /\ batches'[d].leaves = batches[d].leaves
         /\ \A d \in Day : roots[d] # {} => roots'[d] = roots[d]
<1> USE DEF TypeOK, credentialVars
<1>1. \A d \in Day : batches[d] # NULL =>
        batches'[d] # NULL /\ batches'[d].leaves = batches[d].leaves
  <2>1. ASSUME NEW w \in Runner,
               CheckRoot(w) \/ RecordSubmission(w) \/ ConfirmBatch(w) \/ Catch(w)
        PROVE  \A d \in Day : batches[d] # NULL =>
                 batches'[d] # NULL /\ batches'[d].leaves = batches[d].leaves
    <3> DEFINE b == batches[runs[w].day]
    <3>1. runs[w].day \in Day /\ b \in Batch
      BY <2>1 DEF CheckRoot, RecordSubmission, ConfirmBatch, Catch, Busy, At,
                  RunsFollowBatches, RunFollowsBatch
    <3>2. /\ batches' \in [Day -> Batch \cup {NULL}]
          /\ \A d \in Day : d # runs[w].day => batches'[d] = batches[d]
      BY <2>1, <3>1, TypeStep
         DEF CheckRoot, RecordSubmission, ConfirmBatch, Catch
    <3>3. /\ batches'[runs[w].day].leaves = b.leaves
          /\ batches'[runs[w].day] \in Batch
      <4>1. CASE CheckRoot(w) \/ Catch(w)
        <5>1. \/ batches' = batches
              \/ batches' = [batches EXCEPT ![runs[w].day] = [b EXCEPT !.status = "FAILED"]]
          BY <4>1 DEF CheckRoot, Catch
        <5>2. /\ [b EXCEPT !.status = "FAILED"] \in Batch
              /\ [b EXCEPT !.status = "FAILED"].leaves = b.leaves
          BY <3>1 DEF Batch
        <5> QED
          BY <3>1, <5>1, <5>2
      <4>2. CASE RecordSubmission(w)
        <5>1. runs[w].tx \in TxId
          BY DEF Run
        <5> QED
          BY <3>1, <4>2, <5>1 DEF RecordSubmission, Batch
      <4>3. CASE ConfirmBatch(w)
        <5>1. runs[w].tx \in TxId
          BY DEF Run
        <5> QED
          BY <3>1, <4>3, <5>1 DEF ConfirmBatch, Batch
      <4> QED
        BY <2>1, <4>1, <4>2, <4>3
    <3> QED
      BY <3>1, <3>2, <3>3, NoRowNull
  <2>2. ASSUME NEW w \in Runner, Assemble(w)
        PROVE  \A d \in Day : batches[d] # NULL => batches'[d] = batches[d]
    BY <2>2 DEF Assemble
  <2>3. CASE UNCHANGED batches
    BY <2>3
  <2> QED
    BY <2>1, <2>2, <2>3
       DEF Next, Advance, Issue, SignVc, Midnight, Mine, Lose, AnchorElsewhere,
           StartRun, TakeJob, Submit, SubmitMembers, AwaitReceipt, ConfirmMembers, Throw, Crash
<1>2. \A d \in Day : roots[d] # {} => roots'[d] = roots[d]
  <2>1. ASSUME NEW i \in 1 .. MaxTx, Mine(i)
        PROVE  \A d \in Day : roots[d] # {} => roots'[d] = roots[d]
    BY <2>1 DEF Mine
  <2>2. ASSUME NEW e \in Day, AnchorElsewhere(e)
        PROVE  \A d \in Day : roots[d] # {} => roots'[d] = roots[d]
    BY <2>2 DEF AnchorElsewhere
  <2>3. CASE UNCHANGED roots
    BY <2>3
  <2> QED
    BY <2>1, <2>2, <2>3, Zenon
       DEF Next, Advance, Issue, SignVc, Midnight, Lose, StartRun, TakeJob, Assemble, CheckRoot,
           Submit, RecordSubmission, SubmitMembers, AwaitReceipt, ConfirmBatch,
           ConfirmMembers, Catch, Throw, Crash
<1> QED
  BY <1>1, <1>2

\* Rows of anchor_batches are inserted by phase A only.
LEMMA NewBatches ==
  ASSUME TypeOK, RunsFollowBatches, Next
  PROVE  \A d \in Day : batches[d] = NULL /\ batches'[d] # NULL =>
           \E w \in Runner : Assemble(w)
<1>1. ASSUME NEW w \in Runner,
             CheckRoot(w) \/ RecordSubmission(w) \/ ConfirmBatch(w) \/ Catch(w)
      PROVE  \A d \in Day : batches[d] = NULL => batches'[d] = batches[d]
  <2>1. batches[runs[w].day] # NULL
    BY <1>1 DEF CheckRoot, RecordSubmission, ConfirmBatch, Catch, Busy, At,
                RunsFollowBatches, RunFollowsBatch
  <2> QED
    BY <1>1, <2>1, SMTT(20) DEF CheckRoot, RecordSubmission, ConfirmBatch, Catch, TypeOK
<1> QED
  BY <1>1 DEF Next, Advance, Issue, SignVc, Midnight, Mine, Lose, AnchorElsewhere,
       StartRun, TakeJob, Submit, SubmitMembers, AwaitReceipt, ConfirmMembers, Throw, Crash

\* Hence what is on the chain stays there.
LEMMA AnchoredStays ==
  ASSUME TypeOK, RunsFollowBatches, TransactionsCarryBatches, Next,
         NEW d \in Day, Anchored(d)
  PROVE  Anchored(d)'
BY Frozen DEF Anchored, TransactionsCarryBatches

-------------------------------------------------------------------------------
(* The chain.                                                              *)

LEMMA TransactionsStep ==
  ASSUME TypeOK, RunsFollowBatches, TransactionsCarryBatches, Next
  PROVE  TransactionsCarryBatches'
<1> DEFINE Carries(i) ==
             /\ batches[txs[i].day] # NULL
             /\ txs[i].root = batches[txs[i].day].leaves
             /\ txs[i].status = "SUCCESS" => Anchored(txs[i].day)
<1>1. \A d \in Day : batches'[d] # NULL => batches'[d].leaves # {}
  <2>1. ASSUME NEW w \in Runner, Assemble(w), NEW d \in Day,
               batches[d] = NULL, batches'[d] # NULL
        PROVE  batches'[d].leaves # {}
    <3>1. PICK c \in Credential : Eligible(c, d)
      BY <2>1 DEF Assemble, TypeOK
    <3>2. batches'[d].leaves =
            {<<e, e \in signed>> : e \in {x \in Credential : Eligible(x, d)}}
      BY <2>1 DEF Assemble, TypeOK
    <3> QED
      BY <3>1, <3>2
  <2> QED
    BY <2>1, NewBatches, Frozen DEF TransactionsCarryBatches
<1>2. ASSUME NEW i \in 1 .. MaxTx, txs'[i] = txs[i], txs[i] # NULL PROVE Carries(i)'
  <2>1. Carries(i) /\ txs[i].day \in Day
    BY <1>2 DEF TransactionsCarryBatches, TypeOK, ChainTx
  <2> QED
    BY <1>2, <2>1, Frozen, AnchoredStays
<1>3. ASSUME NEW i \in 1 .. MaxTx, Mine(i) \/ Lose(i)
      PROVE  Carries(i)' /\ \A j \in 1 .. MaxTx : j # i => txs'[j] = txs[j]
  <2>1. /\ txs[i] \in ChainTx /\ txs[i].day \in Day /\ Carries(i)
        /\ \A j \in 1 .. MaxTx : j # i => txs'[j] = txs[j]
    BY <1>3 DEF Mine, Lose, TransactionsCarryBatches, TypeOK, ChainTx
  <2>2. /\ txs'[i].day = txs[i].day /\ txs'[i].root = txs[i].root
        /\ batches' = batches
    <3>1. PICK s \in {"SUCCESS", "REVERTED", "LOST"} :
            txs' = [txs EXCEPT ![i] = [txs[i] EXCEPT !.status = s]]
      BY <1>3 DEF Mine, Lose
    <3>2. txs'[i] = [txs[i] EXCEPT !.status = s]
      BY <3>1 DEF TypeOK
    <3> QED
      BY <1>3, <2>1, <3>2 DEF Mine, Lose, ChainTx
  <2>3. txs'[i].status = "SUCCESS" => roots'[txs[i].day] = txs[i].root
    BY <1>3, <2>1, Zenon DEF Mine, Lose, TypeOK, ChainTx
  <2> QED
    BY <2>1, <2>2, <2>3 DEF Anchored
<1>4. ASSUME NEW w \in Runner, Submit(w)
      PROVE  \A i \in 1 .. MaxTx : txs'[i] = txs[i] \/ Carries(i)'
  <2>1. runs[w].day \in Day /\ batches[runs[w].day] # NULL /\ batches' = batches
    BY <1>4 DEF Submit, At, Busy, RunsFollowBatches, RunFollowsBatch
  <2> DEFINE new == [day |-> runs[w].day, root |-> batches[runs[w].day].leaves,
                     status |-> "PENDING"]
  <2>2. \A i \in 1 .. MaxTx : txs'[i] = txs[i] \/ txs'[i] = new
    BY <1>4 DEF Submit, TypeOK
  <2> QED
    BY <2>1, <2>2
<1>5. \/ txs' = txs
      \/ \E i \in 1 .. MaxTx : Mine(i) \/ Lose(i)
      \/ \E w \in Runner : Submit(w)
  BY Zenon DEF Next, Advance, Issue, SignVc, Midnight, AnchorElsewhere, StartRun, TakeJob, Assemble,
         CheckRoot, RecordSubmission, SubmitMembers, AwaitReceipt, ConfirmBatch,
         ConfirmMembers, Catch, Throw, Crash
<1>6. \A i \in 1 .. MaxTx : txs'[i] # NULL => Carries(i)'
  BY <1>2, <1>3, <1>4, <1>5
<1> QED
  BY <1>1, <1>6 DEF TransactionsCarryBatches

-------------------------------------------------------------------------------
(* The runs.                                                               *)

\* A step of a run: there is no other, before or after.
LEMMA RunIsAlone ==
  ASSUME TypeOK, RunsFollowBatches, NEW w \in Runner,
         \/ StartRun(w) \/ Advance(w) \/ Throw(w) \/ Crash(w)
  PROVE  /\ \A v \in Runner : v # w => ~Busy(v) /\ runs'[v] = runs[v]
         /\ ~StartRun(w) => Busy(w)
<1> USE DEF TypeOK, RunsFollowBatches, RunFollowsBatch, Busy, At, Goto, Finish, CompleteJob, FailJob
<1>1. CASE StartRun(w)
  BY <1>1 DEF StartRun, TakeJob
<1>2. CASE Throw(w) \/ Crash(w)
  BY <1>2 DEF Throw, Crash
<1>3. CASE Assemble(w) \/ CheckRoot(w) \/ Submit(w)
  BY <1>3 DEF Assemble, CheckRoot, Submit
<1>4. CASE RecordSubmission(w) \/ SubmitMembers(w) \/ AwaitReceipt(w)
  BY <1>4 DEF RecordSubmission, SubmitMembers, AwaitReceipt
<1>5. CASE ConfirmBatch(w) \/ ConfirmMembers(w) \/ Catch(w)
  BY <1>5 DEF ConfirmBatch, ConfirmMembers, Catch
<1> QED
  BY <1>1, <1>2, <1>3, <1>4, <1>5 DEF Advance

\* So it is enough that the run that moved still follows its batch.
LEMMA OneRunMoves ==
  ASSUME TypeOK, RunsFollowBatches, NEW w \in Runner,
         \/ StartRun(w) \/ Advance(w) \/ Throw(w) \/ Crash(w),
         RunFollowsBatch(w)'
  PROVE  RunsFollowBatches'
<1>1. \A v \in Runner : v # w => ~Busy(v) /\ ~Busy(v)' /\ ~runs'[v].guarded
  BY RunIsAlone DEF RunsFollowBatches, RunFollowsBatch, Busy, At
<1>2. \A v \in Runner : v # w => RunFollowsBatch(v)'
  BY <1>1 DEF RunFollowsBatch, Busy, At
<1> QED
  BY <1>1, <1>2 DEF RunsFollowBatches

LEMMA RunsStep ==
  ASSUME TypeOK, RunsFollowBatches, TransactionsCarryBatches, ConfirmedAreAnchored, Next
  PROVE  RunsFollowBatches'
<1>1. \A d \in Day : batches[d] # NULL => batches'[d] # NULL
  BY Frozen
<1>2. CASE /\ runs' = runs
           /\ anchorBatch' = anchorBatch
           /\ \A c \in Credential :
                anchorStatus'[c] = "CONFIRMED" => anchorStatus[c] = "CONFIRMED"
           /\ \A i \in 1 .. MaxTx :
                txs[i] # NULL => txs'[i] # NULL /\ txs'[i].day = txs[i].day
  BY <1>1, <1>2, AnchoredStays DEF RunsFollowBatches, RunFollowsBatch, Busy, At
<1>3. ASSUME NEW c \in Credential, Issue(c) \/ SignVc(c) PROVE RunsFollowBatches'
  BY <1>2, <1>3 DEF Issue, SignVc, TypeOK
<1>4. CASE Midnight \/ \E d \in Day : AnchorElsewhere(d)
  BY <1>2, <1>4 DEF Midnight, AnchorElsewhere, credentialVars
<1>5. ASSUME NEW i \in 1 .. MaxTx, Mine(i) \/ Lose(i) PROVE RunsFollowBatches'
  <2>1. txs[i] \in ChainTx
    BY <1>5 DEF Mine, Lose, TypeOK
  <2>2. PICK s \in {"SUCCESS", "REVERTED", "LOST"} :
          txs' = [txs EXCEPT ![i] = [txs[i] EXCEPT !.status = s]]
    BY <1>5 DEF Mine, Lose
  <2>3. [txs[i] EXCEPT !.status = s] \in ChainTx
    BY <2>1 DEF ChainTx
  <2>4. [txs[i] EXCEPT !.status = s].day = txs[i].day
    BY <2>1 DEF ChainTx
  <2>5. \A j \in 1 .. MaxTx : txs[j] # NULL => txs'[j] # NULL /\ txs'[j].day = txs[j].day
    BY <2>2, <2>3, <2>4, NoRowNull DEF TypeOK
  <2> QED
    BY <1>2, <1>5, <2>5 DEF Mine, Lose, credentialVars
<1>6. ASSUME NEW w \in Runner, StartRun(w) \/ Throw(w) \/ Crash(w)
      PROVE  RunsFollowBatches'
  <2>1. runs[w] \in Run
    BY DEF TypeOK
  <2>2. RunFollowsBatch(w)'
    <3>1. CASE StartRun(w)
      <4>1. PICK m \in Morning : m <= today /\ TakeJob(w, m, today - 1)
        BY <3>1 DEF StartRun
      <4>2. today - 1 \in Day /\ m \in 0 .. LastDay + 1 /\ today - 1 \in 0 .. LastDay
        BY <4>1, DaysAssumption DEF Morning, Day, TypeOK
      <4>3. runs'[w] = Started(m, today - 1)
        BY <4>1 DEF TakeJob, Started, TypeOK
      <4>4. /\ runs'[w].phase = "ASSEMBLE" /\ runs'[w].day = today - 1
            /\ ~runs'[w].guarded
        BY <4>3 DEF Started
      <4> QED
        BY <4>2, <4>4 DEF RunFollowsBatch, Busy, At
    <3>2. CASE Throw(w)
      <4>1. /\ runs'[w].phase = "CATCH" /\ runs'[w].day = runs[w].day
            /\ batches' = batches /\ runs[w].guarded
            /\ ~At(w, "IDLE")
        BY <2>1, <3>2 DEF Throw, Goto, TypeOK, RunsFollowBatches, RunFollowsBatch, Busy
      <4>2. ~At(w, "ASSEMBLE")
        BY <4>1 DEF RunsFollowBatches, RunFollowsBatch
      <4> QED
        BY <4>1, <4>2 DEF RunsFollowBatches, RunFollowsBatch, Busy, At
    <3>3. CASE Crash(w)
      BY <3>3 DEF Crash, FailJob, Finish, Idle, RunFollowsBatch, Busy, At, TypeOK
    <3> QED
      BY <1>6, <3>1, <3>2, <3>3
  <2> QED
    BY <1>6, <2>2, OneRunMoves
<1>7. ASSUME NEW w \in Runner, Assemble(w) PROVE RunFollowsBatch(w)'
  <2>1. /\ runs[w] \in Run /\ runs[w].day \in Day /\ At(w, "ASSEMBLE") /\ ~runs[w].guarded
    BY <1>7 DEF Assemble, At, Busy, RunsFollowBatches, RunFollowsBatch, TypeOK
  <2>2. CASE runs'[w] = Idle
    BY <2>2 DEF Idle, RunFollowsBatch, Busy, At
  <2>3. CASE /\ runs'[w].phase = "CHECK" /\ runs'[w].day = runs[w].day
             /\ ~runs'[w].guarded /\ batches'[runs[w].day] # NULL
    BY <2>1, <2>3 DEF RunFollowsBatch, Busy, At
  <2>4. CASE batches[runs[w].day] # NULL
    <3>1. \/ CompleteJob(w)
          \/ /\ runs' = [runs EXCEPT ![w].phase = "CHECK",
                                      ![w].tx = batches[runs[w].day].tx]
             /\ batches' = batches
      BY <1>7, <2>4 DEF Assemble
    <3>2. CASE CompleteJob(w)
      BY <2>2, <3>2 DEF CompleteJob, Finish, TypeOK
    <3>3. CASE ~CompleteJob(w)
      <4>1. /\ runs' = [runs EXCEPT ![w].phase = "CHECK",
                                     ![w].tx = batches[runs[w].day].tx]
            /\ batches' = batches
        BY <3>1, <3>3
      <4>2. runs'[w] = [runs[w] EXCEPT !.phase = "CHECK", !.tx = batches[runs[w].day].tx]
        BY <4>1 DEF TypeOK
      <4>3. /\ runs'[w].phase = "CHECK" /\ runs'[w].day = runs[w].day
            /\ runs'[w].guarded = runs[w].guarded
        BY <2>1, <4>2 DEF Run
      <4> QED
        BY <2>1, <2>3, <2>4, <4>1, <4>3
    <3> QED
      BY <3>2, <3>3
  <2>5. CASE batches[runs[w].day] = NULL
    <3> DEFINE new == [leaves |-> {<<c, c \in signed>> :
                                     c \in {e \in Credential : Eligible(e, runs[w].day)}},
                       status |-> "PENDING", tx |-> 0]
    <3>1. \/ runs' = [runs EXCEPT ![w] = Idle]
          \/ /\ batches' = [batches EXCEPT ![runs[w].day] = new]
             /\ runs' = [runs EXCEPT ![w].phase = "CHECK"]
      BY <1>7, <2>5 DEF Assemble, CompleteJob, Finish, Goto
    <3>2. new # NULL
      <4>1. ASSUME NEW c \in Credential PROVE <<c, c \in signed>> \in Leaf
        <5>1. (c \in signed) \in BOOLEAN
          OBVIOUS
        <5> QED
          BY <5>1 DEF Leaf
      <4>2. new.leaves \in SUBSET Leaf
        BY <4>1
      <4>3. new \in Batch
        BY <4>2, TxAssumption DEF Batch, TxId
      <4> QED
        BY <4>3, NoRowNull
    <3> HIDE DEF new
    <3>3. CASE runs' = [runs EXCEPT ![w] = Idle]
      BY <2>2, <3>3 DEF TypeOK
    <3>4. CASE /\ batches' = [batches EXCEPT ![runs[w].day] = new]
               /\ runs' = [runs EXCEPT ![w].phase = "CHECK"]
      <4>1. /\ runs'[w].phase = "CHECK" /\ runs'[w].day = runs[w].day
            /\ runs'[w].guarded = runs[w].guarded
        BY <2>1, <3>4 DEF TypeOK, Run
      <4>2. batches'[runs[w].day] = new
        BY <2>1, <3>4 DEF TypeOK
      <4> QED
        BY <2>1, <2>3, <3>2, <4>1, <4>2
    <3> QED
      BY <3>1, <3>3, <3>4
  <2> QED
    BY <2>4, <2>5
<1>8. ASSUME NEW w \in Runner, CheckRoot(w) PROVE RunFollowsBatch(w)'
  <2>1. /\ runs[w] \in Run /\ runs[w].day \in Day /\ batches[runs[w].day] # NULL
        /\ At(w, "CHECK") /\ roots' = roots /\ UNCHANGED credentialVars
    BY <1>8 DEF CheckRoot, At, Busy, RunsFollowBatches, RunFollowsBatch, TypeOK
  <2>2. CASE roots[runs[w].day] = {}
    <3>1. /\ runs'[w].phase = "SUBMIT" /\ runs'[w].day = runs[w].day
          /\ UNCHANGED batches
      BY <1>8, <2>1, <2>2 DEF CheckRoot, TypeOK, Run
    <3>2. \A c \in Credential :
            anchorBatch[c] = runs[w].day => anchorStatus[c] # "CONFIRMED"
      BY <2>1, <2>2 DEF ConfirmedAreAnchored, TransactionsCarryBatches, Anchored
    <3> QED
      BY <2>1, <3>1, <3>2 DEF RunFollowsBatch, Busy, At, credentialVars
  <2>3. CASE roots[runs[w].day] # {} /\ roots[runs[w].day] = batches[runs[w].day].leaves
    <3>1. /\ runs'[w].phase = "CONFIRM" /\ runs'[w].day = runs[w].day
          /\ runs'[w].guarded = runs[w].guarded /\ UNCHANGED batches
      BY <1>8, <2>1, <2>3 DEF CheckRoot, Goto, TypeOK, Run
    <3> QED
      BY <2>1, <2>3, <3>1 DEF RunFollowsBatch, Busy, At, Anchored
  <2>4. CASE roots[runs[w].day] # {} /\ roots[runs[w].day] # batches[runs[w].day].leaves
    <3>1. runs'[w] = Idle
      BY <1>8, <2>4 DEF CheckRoot, Finish, TypeOK
    <3> QED
      BY <3>1 DEF Idle, RunFollowsBatch, Busy, At
  <2> QED
    BY <2>2, <2>3, <2>4
<1>9. ASSUME NEW w \in Runner, Submit(w) PROVE RunFollowsBatch(w)'
  <2>1. /\ runs[w] \in Run /\ runs[w].day \in Day /\ batches[runs[w].day] \in Batch
        /\ At(w, "SUBMIT") /\ UNCHANGED <<batches, credentialVars>>
        /\ \A c \in Credential :
             anchorBatch[c] = runs[w].day => anchorStatus[c] # "CONFIRMED"
    BY <1>9 DEF Submit, At, Busy, RunsFollowBatches, RunFollowsBatch, TypeOK
  <2>2. CASE Goto(w, "CATCH")
    <3>1. runs'[w].phase = "CATCH" /\ runs'[w].day = runs[w].day
      BY <2>1, <2>2 DEF Goto, TypeOK, Run
    <3> QED
      BY <2>1, <3>1, NoRowNull DEF RunFollowsBatch, Busy, At
  <2>3. CASE ~Goto(w, "CATCH")
    <3> DEFINE i == Cardinality(Sent) + 1
               new == [day |-> runs[w].day, root |-> batches[runs[w].day].leaves,
                       status |-> "PENDING"]
    <3>1. /\ txs' = [txs EXCEPT ![i] = new]
          /\ runs' = [runs EXCEPT ![w].phase = "RECORD", ![w].tx = i]
          /\ i \in 1 .. MaxTx
      BY <1>9, <2>3, NextTransaction, TxAssumption DEF Submit
    <3>2. new \in ChainTx
      BY <2>1 DEF ChainTx, Batch
    <3> HIDE DEF i
    <3>3. /\ runs'[w].phase = "RECORD" /\ runs'[w].day = runs[w].day /\ runs'[w].tx = i
      BY <2>1, <3>1 DEF TypeOK, Run
    <3>4. txs'[i] # NULL /\ txs'[i].day = runs[w].day
      BY <3>1, <3>2, NoRowNull DEF TypeOK
    <3> QED
      BY <2>1, <3>1, <3>3, <3>4, NoRowNull DEF RunFollowsBatch, Busy, At, credentialVars
  <2> QED
    BY <2>2, <2>3
<1>10. ASSUME NEW w \in Runner, RecordSubmission(w) \/ SubmitMembers(w) \/ AwaitReceipt(w)
       PROVE  RunFollowsBatch(w)'
  <2>1. /\ runs[w] \in Run /\ runs[w].day \in Day /\ batches'[runs[w].day] # NULL
        /\ runs[w].tx \in 1 .. MaxTx /\ txs[runs[w].tx] # NULL
        /\ txs[runs[w].tx].day = runs[w].day
        /\ UNCHANGED <<txs, anchorBatch>>
    BY <1>1, <1>10 DEF RecordSubmission, SubmitMembers, AwaitReceipt, At, Busy,
                       RunsFollowBatches, RunFollowsBatch, TypeOK, credentialVars
  <2>2. \A p \in Phase : Goto(w, p) =>
          runs'[w].phase = p /\ runs'[w].day = runs[w].day /\ runs'[w].tx = runs[w].tx
    BY <2>1 DEF Goto, TypeOK, Run
  <2>3. CASE RecordSubmission(w)
    <3>1. \A c \in Credential :
            anchorBatch[c] = runs[w].day => anchorStatus[c] # "CONFIRMED"
      BY <2>3 DEF RecordSubmission, At, RunsFollowBatches, RunFollowsBatch
    <3>2. Goto(w, "MEMBERS_SUBMITTED") /\ UNCHANGED credentialVars
      BY <2>3 DEF RecordSubmission
    <3> QED
      BY <2>1, <2>2, <3>1, <3>2 DEF Phase, RunFollowsBatch, Busy, At, credentialVars
  <2>4. CASE SubmitMembers(w)
    <3>1. Goto(w, "WAIT")
      BY <2>4 DEF SubmitMembers
    <3> QED
      BY <2>1, <2>2, <3>1 DEF Phase, RunFollowsBatch, Busy, At
  <2>5. CASE AwaitReceipt(w)
    <3>1. \/ Goto(w, "CATCH")
          \/ Goto(w, "CONFIRM") /\ txs[runs[w].tx].status = "SUCCESS"
      BY <2>5 DEF AwaitReceipt
    <3>2. runs'[w].day = runs[w].day
      BY <2>2, <3>1 DEF Phase
    <3>3. txs[runs[w].tx].status = "SUCCESS" => Anchored(runs[w].day)
      BY <2>1 DEF TransactionsCarryBatches
    <3>4. txs[runs[w].tx].status = "SUCCESS" => Anchored(runs[w].day)'
      BY <2>1, <3>2, <3>3, AnchoredStays
    <3> QED
      BY <2>1, <2>2, <3>1, <3>4 DEF Phase, RunFollowsBatch, Busy, At
  <2> QED
    BY <1>10, <2>3, <2>4, <2>5
<1>11. ASSUME NEW w \in Runner, ConfirmBatch(w) PROVE RunFollowsBatch(w)'
  <2>1. /\ runs[w] \in Run /\ runs[w].day \in Day /\ Anchored(runs[w].day)
    BY <1>11 DEF ConfirmBatch, At, Busy, RunsFollowBatches, RunFollowsBatch, TypeOK
  <2>2. Anchored(runs[w].day)'
    <3>1. /\ batches'[runs[w].day] # NULL
          /\ batches'[runs[w].day].leaves = batches[runs[w].day].leaves
          /\ roots' = roots /\ batches[runs[w].day] # NULL
          /\ roots[runs[w].day] = batches[runs[w].day].leaves
      BY <1>11, <2>1, Frozen DEF Anchored, ConfirmBatch
    <3>2. runs'[w].day = runs[w].day
      BY <1>11, <2>1 DEF ConfirmBatch, Goto, TypeOK, Run
    <3> QED
      BY <3>1, <3>2, SMTT(20) DEF Anchored
  <2>3. runs'[w].phase = "MEMBERS_CONFIRMED" /\ runs'[w].day = runs[w].day
    BY <1>11, <2>1 DEF ConfirmBatch, Goto, TypeOK, Run
  <2> QED
    BY <2>1, <2>2, <2>3 DEF RunFollowsBatch, Busy, At, Anchored
<1>12. ASSUME NEW w \in Runner, ConfirmMembers(w) \/ Catch(w) PROVE RunFollowsBatch(w)'
  <2>1. runs'[w] = Idle
    BY <1>12 DEF ConfirmMembers, Catch, CompleteJob, FailJob, Finish, TypeOK
  <2> QED
    BY <2>1 DEF Idle, RunFollowsBatch, Busy, At
<1>13. ASSUME NEW w \in Runner, Advance(w) PROVE RunsFollowBatches'
  BY <1>7, <1>8, <1>9, <1>10, <1>11, <1>12, <1>13, OneRunMoves DEF Advance
<1> QED
  BY <1>3, <1>4, <1>5, <1>6, <1>13 DEF Next

-------------------------------------------------------------------------------
(* The credentials.                                                        *)

LEMMA ConfirmedStep ==
  ASSUME TypeOK, RunsFollowBatches, TransactionsCarryBatches, ConfirmedAreAnchored, Next
  PROVE  ConfirmedAreAnchored'
<1>1. ASSUME NEW w \in Runner, ConfirmBatch(w) \/ ConfirmMembers(w)
      PROVE  runs[w].day \in Day /\ Anchored(runs[w].day)
  BY <1>1 DEF ConfirmBatch, ConfirmMembers, At, Busy, RunsFollowBatches, RunFollowsBatch
<1>2. \A d \in Day : Confirmed(d)' =>
        Confirmed(d) \/ \E w \in Runner : ConfirmBatch(w) /\ d = runs[w].day
  <2>1. ASSUME NEW w \in Runner, Assemble(w), NEW d \in Day
        PROVE  Confirmed(d)' => Confirmed(d)
    <3>1. CASE batches'[d] = batches[d]
      BY <3>1 DEF Confirmed
    <3>2. CASE batches'[d] # batches[d]
      <4>1. batches'[d].status = "PENDING"
        BY <2>1, <3>2 DEF Assemble, TypeOK
      <4> QED
        BY <4>1 DEF Confirmed
    <3> QED
      BY <3>1, <3>2
  <2>2. ASSUME NEW w \in Runner, CheckRoot(w) \/ Catch(w) \/ RecordSubmission(w),
               NEW d \in Day
        PROVE  Confirmed(d)' => Confirmed(d)
    <3>1. batches[runs[w].day] \in Batch /\ runs[w].day \in Day
      BY <2>2 DEF CheckRoot, Catch, RecordSubmission, At, Busy, RunsFollowBatches,
                  RunFollowsBatch, TypeOK
    <3>2. CASE batches'[d] = batches[d]
      BY <3>2 DEF Confirmed
    <3>3. CASE d = runs[w].day /\ batches'[d] # batches[d]
      BY <2>2, <3>1, <3>3 DEF CheckRoot, Catch, RecordSubmission, Confirmed, Batch, TypeOK
    <3>4. d # runs[w].day => batches'[d] = batches[d]
      BY <2>2 DEF CheckRoot, Catch, RecordSubmission, TypeOK
    <3> QED
      BY <3>2, <3>3, <3>4
  <2>3. ASSUME NEW w \in Runner, ConfirmBatch(w), NEW d \in Day, d # runs[w].day
        PROVE  Confirmed(d)' => Confirmed(d)
    BY <2>3 DEF ConfirmBatch, Confirmed, TypeOK
  <2>4. CASE UNCHANGED batches
    BY <2>4 DEF Confirmed
  <2> QED
    BY <2>1, <2>2, <2>3, <2>4
       DEF Next, Advance, Issue, SignVc, Midnight, Mine, Lose, AnchorElsewhere,
           StartRun, TakeJob, Submit, SubmitMembers, AwaitReceipt, ConfirmMembers, Throw, Crash
<1>3. ASSUME NEW c \in Credential, anchorStatus'[c] = "CONFIRMED"
      PROVE  /\ anchorBatch'[c] = anchorBatch[c]
             /\ \/ anchorStatus[c] = "CONFIRMED"
                \/ \E w \in Runner : ConfirmMembers(w) /\ anchorBatch[c] = runs[w].day
  <2>1. ASSUME NEW w \in Runner, Assemble(w)
        PROVE  anchorStatus[c] = "CONFIRMED" /\ anchorBatch'[c] = anchorBatch[c]
    BY <1>3, <2>1 DEF Assemble, TypeOK
  <2>2. ASSUME NEW w \in Runner, SubmitMembers(w) PROVE anchorStatus[c] = "CONFIRMED"
    BY <1>3, <2>2 DEF SubmitMembers, SetCredentialStatus
  <2>3. ASSUME NEW w \in Runner, ConfirmMembers(w)
        PROVE  anchorStatus[c] = "CONFIRMED" \/ anchorBatch[c] = runs[w].day
    BY <1>3, <2>3 DEF ConfirmMembers, SetCredentialStatus
  <2>4. ASSUME NEW e \in Credential, Issue(e) PROVE anchorStatus[c] = "CONFIRMED"
    BY <1>3, <2>4 DEF Issue, TypeOK
  <2> QED
    BY <1>3, <2>1, <2>2, <2>3, <2>4, Zenon
       DEF Next, Advance, Issue, SignVc, Midnight, Mine, Lose, AnchorElsewhere, StartRun, TakeJob,
           Submit, CheckRoot, RecordSubmission, SubmitMembers, AwaitReceipt,
           ConfirmBatch, ConfirmMembers, Catch, Throw, Crash, credentialVars
<1>4. ASSUME NEW c \in Credential, anchorStatus'[c] = "CONFIRMED"
      PROVE  anchorBatch'[c] \in Day /\ Anchored(anchorBatch[c])'
  <2>1. anchorBatch[c] \in Day /\ Anchored(anchorBatch[c])
    BY <1>1, <1>3, <1>4 DEF ConfirmedAreAnchored
  <2>2. PICK d \in Day : d = anchorBatch[c] /\ d = anchorBatch'[c]
    BY <1>3, <1>4, <2>1
  <2>3. Anchored(d)'
    BY <2>1, <2>2, AnchoredStays
  <2> QED
    BY <2>2, <2>3 DEF Anchored
<1>5. ASSUME NEW d \in Day, Confirmed(d)' PROVE Anchored(d)'
  BY <1>1, <1>2, <1>5, AnchoredStays DEF ConfirmedAreAnchored
<1> QED
  BY <1>4, <1>5 DEF ConfirmedAreAnchored

LEMMA MembersStep ==
  ASSUME TypeOK, RunsFollowBatches, MembersHaveLeaves, Next
  PROVE  MembersHaveLeaves'
<1>1. CASE /\ \A w \in Runner : ~Assemble(w)
           /\ anchorBatch' = anchorBatch
           /\ \A c \in Credential :
                anchorStatus'[c] = "AWAITING_BATCH" => anchorBatch[c] = 0
           /\ \A c \in Credential : issuedOn'[c] = 0 =>
                anchorStatus'[c] = "NOT_ELIGIBLE" /\ anchorBatch[c] = 0
  <2>1. \A d \in Day : /\ batches'[d] # NULL <=> batches[d] # NULL
                       /\ batches[d] # NULL => batches'[d].leaves = batches[d].leaves
    BY <1>1, NewBatches, Frozen
  <2> QED
    BY <1>1, <2>1 DEF MembersHaveLeaves
<1>2. ASSUME NEW c \in Credential, Issue(c) PROVE MembersHaveLeaves'
  <2>1. \A d \in Credential : d # c =>
          issuedOn'[d] = issuedOn[d] /\ anchorStatus'[d] = anchorStatus[d]
    BY <1>2 DEF Issue, TypeOK
  <2>2. issuedOn'[c] # 0 /\ anchorBatch[c] = 0
    BY <1>2, DaysAssumption DEF Issue, TypeOK, Day, MembersHaveLeaves
  <2>3. UNCHANGED <<batches, anchorBatch>>
    BY <1>2 DEF Issue
  <2> QED
    BY <2>1, <2>2, <2>3 DEF MembersHaveLeaves
<1>3. ASSUME NEW w \in Runner, SubmitMembers(w) \/ ConfirmMembers(w)
      PROVE  MembersHaveLeaves'
  <2>1. runs[w].day \in Day /\ 0 \notin Day
    BY <1>3 DEF SubmitMembers, ConfirmMembers, At, Busy, Day,
                RunsFollowBatches, RunFollowsBatch
  <2>2. /\ UNCHANGED <<batches, anchorBatch, issuedOn>>
        /\ \A c \in Credential : \/ anchorStatus'[c] = anchorStatus[c]
                                 \/ anchorBatch[c] # 0 /\ anchorStatus'[c] # "AWAITING_BATCH"
    BY <1>3, <2>1 DEF SubmitMembers, ConfirmMembers, SetCredentialStatus
  <2> QED
    BY <2>2 DEF MembersHaveLeaves
<1>4. ASSUME NEW w \in Runner, Assemble(w) PROVE MembersHaveLeaves'
  <2> DEFINE d0 == runs[w].day
             members == {c \in Credential : Eligible(c, d0)}
  <2>1. d0 \in Day /\ 0 \notin Day
    BY <1>4 DEF Assemble, At, Busy, Day, RunsFollowBatches, RunFollowsBatch
  <2>2. CASE UNCHANGED <<batches, anchorStatus, anchorBatch>>
    BY <1>4, <2>2 DEF Assemble, MembersHaveLeaves
  <2>3. CASE ~UNCHANGED <<batches, anchorStatus, anchorBatch>>
    <3>1. /\ batches[d0] = NULL
          /\ batches' = [batches EXCEPT ![d0] =
               [leaves |-> {<<c, c \in signed>> : c \in members},
                status |-> "PENDING", tx |-> 0]]
          /\ anchorStatus' = [c \in Credential |->
               IF c \in members THEN "BATCHED" ELSE anchorStatus[c]]
          /\ anchorBatch' = [c \in Credential |->
               IF c \in members THEN d0 ELSE anchorBatch[c]]
          /\ issuedOn' = issuedOn
      BY <1>4, <2>3 DEF Assemble
    <3>2. /\ batches'[d0].leaves = {<<c, c \in signed>> : c \in members}
          /\ \A d \in Day : d # d0 => batches'[d] = batches[d]
      BY <2>1, <3>1 DEF TypeOK
    <3>3. batches'[d0] # NULL
      <4>1. ASSUME NEW c \in Credential PROVE <<c, c \in signed>> \in Leaf
        <5>1. (c \in signed) \in BOOLEAN
          OBVIOUS
        <5> QED
          BY <5>1 DEF Leaf
      <4>2. {<<c, c \in signed>> : c \in members} \in SUBSET Leaf
        BY <4>1
      <4>3. [leaves |-> {<<c, c \in signed>> : c \in members},
             status |-> "PENDING", tx |-> 0] \in Batch
        BY <4>2, TxAssumption DEF Batch, TxId
      <4> QED
        BY <2>1, <3>1, <4>3, NoRowNull DEF TypeOK
    <3>4. \A c \in members :
            /\ c \in Credential /\ anchorBatch[c] = 0 /\ issuedOn[c] # 0
            /\ \A d \in Day, s \in BOOLEAN :
                 batches[d] # NULL => <<c, s>> \notin batches[d].leaves
      BY <2>1 DEF Eligible, MembersHaveLeaves
    <3>5. \A c \in Credential, s \in BOOLEAN :
            <<c, s>> \in batches'[d0].leaves <=> c \in members /\ s = (c \in signed)
      BY <3>2
    <3>6. \A c \in Credential : anchorBatch[c] # d0
      BY <2>1, <3>1 DEF MembersHaveLeaves
    <3>7. \A c \in members : (c \in signed) \in BOOLEAN
      OBVIOUS
    <3> HIDE DEF members
    <3>8. \A c \in Credential :
            /\ anchorStatus'[c] = "AWAITING_BATCH" => anchorBatch'[c] = 0
            /\ issuedOn'[c] = 0 => anchorStatus'[c] = "NOT_ELIGIBLE" /\ anchorBatch'[c] = 0
      BY <3>1, <3>4 DEF MembersHaveLeaves
    <3>9. \A c \in Credential, d \in Day : anchorBatch'[c] = d =>
            batches'[d] # NULL /\ \E s \in BOOLEAN : <<c, s>> \in batches'[d].leaves
      <4>1. ASSUME NEW c \in members
            PROVE  /\ anchorBatch'[c] = d0
                   /\ \E s \in BOOLEAN : <<c, s>> \in batches'[d0].leaves
        BY <3>1, <3>4, <3>5, <3>7
      <4>2. ASSUME NEW c \in Credential, c \notin members
            PROVE  anchorBatch'[c] = anchorBatch[c] /\ anchorBatch[c] # d0
        BY <3>1, <3>6, <4>2
      <4> QED
        BY <3>2, <3>3, <4>1, <4>2 DEF MembersHaveLeaves
    <3>10. \A c \in Credential, d \in Day, s \in BOOLEAN :
             batches'[d] # NULL /\ <<c, s>> \in batches'[d].leaves => anchorBatch'[c] = d
      <4>1. ASSUME NEW c \in Credential, NEW d \in Day, NEW s \in BOOLEAN,
                   batches'[d] # NULL, <<c, s>> \in batches'[d].leaves
            PROVE  anchorBatch'[c] = d
        <5>1. CASE d = d0
          BY <3>1, <3>5, <4>1, <5>1
        <5>2. CASE d # d0
          <6>1. batches[d] # NULL /\ <<c, s>> \in batches[d].leaves
            BY <3>2, <4>1, <5>2
          <6>2. anchorBatch[c] = d /\ c \notin members
            BY <3>4, <4>1, <6>1 DEF MembersHaveLeaves
          <6> QED
            BY <3>1, <6>2
        <5> QED
          BY <5>1, <5>2
      <4> QED
        BY <4>1
    <3>11. \A c \in Credential, d \in Day, s, t \in BOOLEAN :
             batches'[d] # NULL /\ <<c, s>> \in batches'[d].leaves
               /\ <<c, t>> \in batches'[d].leaves => s = t
      <4>1. ASSUME NEW c \in Credential, NEW d \in Day, NEW s \in BOOLEAN, NEW t \in BOOLEAN,
                   batches'[d] # NULL, <<c, s>> \in batches'[d].leaves,
                   <<c, t>> \in batches'[d].leaves
            PROVE  s = t
        <5>1. CASE d = d0
          BY <3>5, <4>1, <5>1
        <5>2. CASE d # d0
          BY <3>2, <4>1, <5>2 DEF MembersHaveLeaves
        <5> QED
          BY <5>1, <5>2
      <4> QED
        BY <4>1
    <3> QED
      BY <3>8, <3>9, <3>10, <3>11 DEF MembersHaveLeaves
  <2> QED
    BY <2>2, <2>3
<1>5. CASE /\ UNCHANGED <<issuedOn, anchorStatus, anchorBatch>>
           /\ \A w \in Runner : ~Assemble(w)
  BY <1>1, <1>5 DEF MembersHaveLeaves
<1> QED
  BY <1>2, <1>3, <1>4, <1>5, Zenon
     DEF Next, Advance, SignVc, Midnight, Mine, Lose, AnchorElsewhere, StartRun, TakeJob,
         CheckRoot, Submit, RecordSubmission, AwaitReceipt, ConfirmBatch, Catch, Throw,
         Crash, credentialVars

-------------------------------------------------------------------------------
(* Theorems.                                                               *)

LEMMA InitInv == Init => IndInv
<1> SUFFICES ASSUME Init PROVE IndInv
  OBVIOUS
<1>1. Idle \in Run /\ Idle.phase = "IDLE" /\ Idle.guarded = FALSE
  BY DaysAssumption, TxAssumption DEF Idle, Run, TxId
<1>2. TypeOK
  <2>1. today \in 1 .. LastDay + 1
    BY DaysAssumption DEF Init
  <2>2. issuedOn \in [Credential -> 0 .. LastDay] /\ anchorBatch \in [Credential -> 0 .. LastDay]
    BY DaysAssumption DEF Init
  <2>3. anchorStatus \in [Credential -> AnchorDimension]
    BY DEF Init, AnchorDimension
  <2>4. roots \in [Day -> Root]
    BY DEF Init, Root
  <2>5. jobs \in [Morning -> Job]
    BY AttemptsAssumption DEF Init, Job, JobState, Unknown
  <2> QED
    BY <1>1, <2>1, <2>2, <2>3, <2>4, <2>5 DEF Init, TypeOK
<1>3. RunsFollowBatches
  BY <1>1 DEF Init, RunsFollowBatches, RunFollowsBatch, Busy, At
<1>4. TransactionsCarryBatches
  BY DEF Init, TransactionsCarryBatches
<1>5. ConfirmedAreAnchored
  BY DEF Init, ConfirmedAreAnchored, Confirmed
<1>6. MembersHaveLeaves
  BY DEF Init, MembersHaveLeaves, Day
<1> QED
  BY <1>2, <1>3, <1>4, <1>5, <1>6 DEF IndInv

LEMMA StepInv == IndInv /\ [Next]_vars => IndInv'
<1> SUFFICES ASSUME IndInv, [Next]_vars PROVE IndInv'
  OBVIOUS
<1>1. CASE UNCHANGED vars
  <2>1. TypeOK'
    BY <1>1 DEF vars, IndInv, TypeOK
  <2>2. RunsFollowBatches'
    BY <1>1 DEF vars, IndInv, RunsFollowBatches, RunFollowsBatch, Busy, At, Anchored
  <2>3. TransactionsCarryBatches'
    BY <1>1 DEF vars, IndInv, TransactionsCarryBatches, Anchored
  <2>4. ConfirmedAreAnchored'
    BY <1>1 DEF vars, IndInv, ConfirmedAreAnchored, Anchored, Confirmed
  <2>5. MembersHaveLeaves'
    BY <1>1 DEF vars, IndInv, MembersHaveLeaves
  <2> QED
    BY <2>1, <2>2, <2>3, <2>4, <2>5 DEF IndInv
<1>2. CASE Next
  BY <1>2, TypeStep, RunsStep, TransactionsStep, ConfirmedStep, MembersStep DEF IndInv
<1> QED
  BY <1>1, <1>2

\* The types, and how runs, transactions, batches and credentials belong together.
THEOREM Invariance == Spec => []IndInv
BY InitInv, StepInv, PTL DEF Spec

\* The columns, the contract, the mempool and the runs hold what they are declared to.
THEOREM TypeCorrect == Spec => []TypeOK
<1>1. IndInv => TypeOK
  BY DEF IndInv
<1> QED
  BY <1>1, Invariance, PTL

\* Whatever crashes, gets lost, or is mined late: what the database calls CONFIRMED
\* is on the chain, with a leaf of each credential it calls so.
THEOREM ConfirmedMeansAnchored == Spec => []ConfirmedIsOnChain
<1>1. IndInv => ConfirmedIsOnChain
  <2> SUFFICES ASSUME IndInv PROVE ConfirmedIsOnChain
    OBVIOUS
  <2>1. \A d \in Day : Confirmed(d) => roots[d] = batches[d].leaves
    BY DEF IndInv, ConfirmedAreAnchored, Anchored
  <2>2. ASSUME NEW c \in Credential, anchorStatus[c] = "CONFIRMED"
        PROVE  \E d \in Day, s \in BOOLEAN :
                 d = anchorBatch[c] /\ roots[d] # Foreign /\ <<c, s>> \in roots[d]
    <3>1. anchorBatch[c] \in Day /\ Anchored(anchorBatch[c])
      BY <2>2 DEF IndInv, ConfirmedAreAnchored
    <3>2. PICK s \in BOOLEAN : <<c, s>> \in roots[anchorBatch[c]]
      BY <3>1 DEF IndInv, MembersHaveLeaves, Anchored
    <3>3. <<c, s>> \notin Foreign
      BY NoNull DEF Foreign
    <3> QED
      BY <3>1, <3>2, <3>3
  <2> QED
    BY <2>1, <2>2 DEF ConfirmedIsOnChain
<1> QED
  BY <1>1, Invariance, PTL

\* A credential has one leaf in the batch it names, and none in any other.
THEOREM BatchesShareNobody == Spec => []InOneBatch
<1>1. IndInv => InOneBatch
  <2> SUFFICES ASSUME IndInv, NEW c \in Credential, NEW d \in Day
               PROVE  LET own == {s \in BOOLEAN : batches[d] # NULL
                                                    /\ <<c, s>> \in batches[d].leaves} IN
                      Cardinality(own) = IF anchorBatch[c] = d THEN 1 ELSE 0
    BY DEF InOneBatch
  <2> DEFINE own == {s \in BOOLEAN : batches[d] # NULL /\ <<c, s>> \in batches[d].leaves}
  <2>1. CASE anchorBatch[c] = d
    <3>1. PICK s \in BOOLEAN : batches[d] # NULL /\ <<c, s>> \in batches[d].leaves
      BY <2>1 DEF IndInv, MembersHaveLeaves
    <3>2. own = {s}
      BY <3>1 DEF IndInv, MembersHaveLeaves
    <3> QED
      BY <2>1, <3>2, FS_Singleton
  <2>2. CASE anchorBatch[c] # d
    <3>1. own = {}
      BY <2>2 DEF IndInv, MembersHaveLeaves
    <3> QED
      BY <2>2, <3>1, FS_EmptySet
  <2> QED
    BY <2>1, <2>2
<1> QED
  BY <1>1, Invariance, PTL

\* No retry takes a credential back, as long as one run is under way at a time.
THEOREM StatusesOnlyRise == Spec => StatusNeverFallsBack
<1>1. IndInv /\ [Next]_vars =>
        [\A c \in Credential : Rank(anchorStatus[c]) <= Rank(anchorStatus'[c])]_vars
  <2> SUFFICES ASSUME IndInv, Next, NEW c \in Credential
               PROVE  Rank(anchorStatus[c]) <= Rank(anchorStatus'[c])
    OBVIOUS
  <2>1. anchorStatus[c] \in AnchorDimension
    BY DEF IndInv, TypeOK
  <2>2. CASE anchorStatus'[c] = anchorStatus[c]
    BY <2>1, <2>2 DEF AnchorDimension, Rank
  <2>3. CASE anchorStatus[c] = "NOT_ELIGIBLE" /\ anchorStatus'[c] = "AWAITING_BATCH"
    BY <2>3 DEF Rank
  <2>4. CASE anchorStatus[c] = "AWAITING_BATCH" /\ anchorStatus'[c] = "BATCHED"
    BY <2>4 DEF Rank
  <2>5. CASE anchorStatus[c] # "CONFIRMED" /\ anchorStatus'[c] = "SUBMITTED"
    BY <2>1, <2>5 DEF AnchorDimension, Rank
  <2>6. CASE anchorStatus'[c] = "CONFIRMED"
    BY <2>1, <2>6 DEF AnchorDimension, Rank
  <2>7. ASSUME NEW e \in Credential, Issue(e)
        PROVE  \/ anchorStatus'[c] = anchorStatus[c]
               \/ anchorStatus[c] = "NOT_ELIGIBLE" /\ anchorStatus'[c] = "AWAITING_BATCH"
    BY <2>7 DEF Issue, IndInv, TypeOK, MembersHaveLeaves
  <2>8. ASSUME NEW w \in Runner, Assemble(w)
        PROVE  \/ anchorStatus'[c] = anchorStatus[c]
               \/ anchorStatus[c] = "AWAITING_BATCH" /\ anchorStatus'[c] = "BATCHED"
    BY <2>8 DEF Assemble, Eligible
  <2>9. ASSUME NEW w \in Runner, SubmitMembers(w)
        PROVE  \/ anchorStatus'[c] = anchorStatus[c]
               \/ anchorStatus[c] # "CONFIRMED" /\ anchorStatus'[c] = "SUBMITTED"
    BY <2>9 DEF SubmitMembers, SetCredentialStatus, At, IndInv, RunsFollowBatches,
                RunFollowsBatch
  <2>10. ASSUME NEW w \in Runner, ConfirmMembers(w)
         PROVE  anchorStatus'[c] = anchorStatus[c] \/ anchorStatus'[c] = "CONFIRMED"
    BY <2>10 DEF ConfirmMembers, SetCredentialStatus
  <2> QED
    BY <2>2, <2>3, <2>4, <2>5, <2>6, <2>7, <2>8, <2>9, <2>10, Zenon
       DEF Next, Advance, SignVc, Midnight, Mine, Lose, AnchorElsewhere, StartRun, TakeJob,
           CheckRoot, Submit, RecordSubmission, AwaitReceipt, ConfirmBatch, Catch, Throw,
           Crash, credentialVars
<1> QED
  BY <1>1, Invariance, PTL DEF Spec, StatusNeverFallsBack

-------------------------------------------------------------------------------
(* The ledger.                                                             *)

confirmedNow == {c \in Credential : anchorStatus[c] = "CONFIRMED"}

LedgerUnchanged ==
  /\ frozenLeaves' = frozenLeaves /\ anchorBatch' = anchorBatch
  /\ roots' = roots /\ confirmedNow' = confirmedNow

LEMMA LedgerInit == Init => Ledger!Init
BY DEF Init, Ledger!Init, frozenLeaves

\* Rows that change, but get in and out of the table nowhere, keep their leaves.
LEMMA LeavesStay ==
  ASSUME IndInv, Next, \A w \in Runner : ~Assemble(w)
  PROVE  frozenLeaves' = frozenLeaves
<1>1. ASSUME NEW d \in Day
      PROVE  (IF batches'[d] = NULL THEN {} ELSE batches'[d].leaves)
             = (IF batches[d] = NULL THEN {} ELSE batches[d].leaves)
  BY Frozen, NewBatches DEF IndInv
<1> QED
  BY <1>1 DEF frozenLeaves

\* A new row of anchor_batches closes a batch.
LEMMA AssembleCloses ==
  ASSUME IndInv, NEW w \in Runner, Assemble(w)
  PROVE  Ledger!Step \/ LedgerUnchanged
<1> DEFINE d == runs[w].day
           members == {c \in Credential : Eligible(c, d)}
           leaves == {<<c, c \in signed>> : c \in members}
<1>1. d \in Day /\ roots' = roots
  BY DEF Assemble, IndInv, RunsFollowBatches, RunFollowsBatch, Busy, At
<1>2. CASE batches' = batches /\ anchorStatus' = anchorStatus /\ anchorBatch' = anchorBatch
  BY <1>1, <1>2 DEF LedgerUnchanged, frozenLeaves, confirmedNow
<1>3. CASE /\ batches[d] = NULL /\ members # {}
           /\ batches' = [batches EXCEPT ![d] =
                [leaves |-> leaves, status |-> "PENDING", tx |-> 0]]
           /\ anchorStatus' = [c \in Credential |->
                IF c \in members THEN "BATCHED" ELSE anchorStatus[c]]
           /\ anchorBatch' = [c \in Credential |-> IF c \in members THEN d ELSE anchorBatch[c]]
  <2>1. \A c \in members : anchorStatus[c] = "AWAITING_BATCH" /\ anchorBatch[c] = 0
    BY DEF Eligible, IndInv, MembersHaveLeaves
  <2>2. frozenLeaves[d] = {}
    BY <1>1, <1>3 DEF frozenLeaves
  <2>3. frozenLeaves' = [frozenLeaves EXCEPT ![d] = leaves]
    <3>1. PICK b : b = [leaves |-> leaves, status |-> "PENDING", tx |-> 0]
      OBVIOUS
    <3>2. b.leaves = leaves /\ b # NULL
      <4>1. \A c \in Credential : <<c, c \in signed>> \in Leaf
        <5>1. \A c : (c \in signed) \in BOOLEAN
          OBVIOUS
        <5> QED
          BY <5>1 DEF Leaf
      <4>2. leaves \in SUBSET Leaf /\ 0 \in TxId
        BY <4>1, TxAssumption DEF TxId
      <4>3. b \in Batch
        BY <3>1, <4>2 DEF Batch
      <4> QED
        BY <3>1, <4>3, NoRowNull
    <3>3. batches' = [batches EXCEPT ![d] = b]
      BY <1>3, <3>1
    <3> HIDE DEF leaves
    <3>4. \A e \in Day : batches'[e] = IF e = d THEN b ELSE batches[e]
      BY <1>1, <3>3 DEF IndInv, TypeOK
    <3> QED
      BY <1>1, <3>2, <3>4 DEF frozenLeaves
  <2>4. confirmedNow' = confirmedNow
    BY <1>3, <2>1 DEF confirmedNow
  <2>5. Ledger!Close(d, members, signed)
    BY <1>1, <1>3, <2>1, <2>2, <2>3, <2>4 DEF Ledger!Close, confirmedNow
  <2>6. members \in SUBSET Credential /\ signed \in SUBSET Credential
    BY DEF IndInv, TypeOK
  <2> QED
    BY <1>1, <2>5, <2>6 DEF Ledger!Step
<1> QED
  BY <1>2, <1>3 DEF Assemble

\* The contract takes the first transaction of a day, and it has the batch's root.
LEMMA MineWrites ==
  ASSUME IndInv, NEW i \in 1 .. MaxTx, Mine(i)
  PROVE  Ledger!Step \/ LedgerUnchanged
<1>1. /\ frozenLeaves' = frozenLeaves /\ anchorBatch' = anchorBatch
      /\ confirmedNow' = confirmedNow
  BY DEF Mine, credentialVars, frozenLeaves, confirmedNow
<1>2. CASE roots' = roots
  BY <1>1, <1>2 DEF LedgerUnchanged
<1>3. CASE /\ roots[txs[i].day] = {}
           /\ roots' = [roots EXCEPT ![txs[i].day] = txs[i].root]
  <2>1. txs[i] \in ChainTx /\ txs[i].day \in Day
    BY DEF Mine, IndInv, TypeOK, ChainTx
  <2>2. txs[i].root = frozenLeaves[txs[i].day] /\ txs[i].root # {}
    BY <2>1 DEF Mine, IndInv, TransactionsCarryBatches, frozenLeaves
  <2>3. Ledger!Write(txs[i].day, txs[i].root)
    BY <1>1, <1>3, <2>2 DEF Ledger!Write, confirmedNow
  <2> QED
    BY <2>1, <2>2, <2>3 DEF Ledger!Step
<1> QED
  BY <1>2, <1>3 DEF Mine

LEMMA ElsewhereWrites ==
  ASSUME IndInv, NEW d \in Day, AnchorElsewhere(d)
  PROVE  Ledger!Step
<1>1. Foreign # {}
  BY DEF Foreign
<1>2. Ledger!Write(d, Foreign)
  BY <1>1 DEF AnchorElsewhere, Ledger!Write, credentialVars, frozenLeaves, confirmedNow
<1> QED
  BY <1>2 DEF Ledger!Step

\* The second write of markConfirmed confirms a whole batch, which is anchored.
LEMMA MembersConfirm ==
  ASSUME IndInv, NEW w \in Runner, ConfirmMembers(w)
  PROVE  Ledger!Step
<1> PICK d : d = runs[w].day
  OBVIOUS
<1>1. d \in Day /\ Anchored(d)
  BY DEF ConfirmMembers, IndInv, RunsFollowBatches, RunFollowsBatch, Busy, At
<1>2. frozenLeaves[d] = batches[d].leaves /\ frozenLeaves[d] # {}
  BY <1>1 DEF frozenLeaves, Anchored, IndInv, TransactionsCarryBatches
<1>3. confirmedNow' = confirmedNow \cup {c \in Credential : anchorBatch[c] = d}
  BY DEF ConfirmMembers, SetCredentialStatus, confirmedNow
<1>4. Ledger!Confirm(d)
  BY <1>1, <1>2, <1>3
     DEF ConfirmMembers, Ledger!Confirm, Anchored, frozenLeaves, confirmedNow
<1> QED
  BY <1>1, <1>4 DEF Ledger!Step

LEMMA LedgerStep ==
  ASSUME IndInv, [Next]_vars PROVE [Ledger!Next]_(Ledger!ledger)
<1>1. LedgerUnchanged => UNCHANGED Ledger!ledger
  BY DEF LedgerUnchanged, Ledger!ledger, confirmedNow
<1>2. ASSUME NEW c \in Credential, Issue(c), frozenLeaves' = frozenLeaves
      PROVE  LedgerUnchanged
  <2>1. anchorStatus[c] = "NOT_ELIGIBLE"
    BY <1>2 DEF Issue, IndInv, MembersHaveLeaves
  <2>2. confirmedNow' = confirmedNow
    BY <1>2, <2>1 DEF Issue, confirmedNow, IndInv, TypeOK
  <2> QED
    BY <1>2, <2>2 DEF Issue, LedgerUnchanged
<1>3. ASSUME NEW w \in Runner, SubmitMembers(w), frozenLeaves' = frozenLeaves
      PROVE  LedgerUnchanged
  <2>1. \A c \in Credential : anchorBatch[c] = runs[w].day => anchorStatus[c] # "CONFIRMED"
    BY <1>3 DEF SubmitMembers, At, IndInv, RunsFollowBatches, RunFollowsBatch
  <2>2. confirmedNow' = confirmedNow
    BY <1>3, <2>1 DEF SubmitMembers, SetCredentialStatus, confirmedNow
  <2> QED
    BY <1>3, <2>2 DEF SubmitMembers, LedgerUnchanged
<1>4. CASE /\ anchorStatus' = anchorStatus /\ anchorBatch' = anchorBatch
           /\ roots' = roots /\ frozenLeaves' = frozenLeaves
  BY <1>1, <1>4 DEF LedgerUnchanged, confirmedNow
<1>5. CASE UNCHANGED vars
  BY <1>4, <1>5 DEF vars, frozenLeaves
<1>7. Ledger!Step => [Ledger!Next]_(Ledger!ledger)
  BY DEF Ledger!Next
<1>6. CASE Next
  <2>1. CASE \E w \in Runner : Assemble(w)
    BY <1>1, <1>7, <2>1, AssembleCloses
  <2>2. CASE \A w \in Runner : ~Assemble(w)
    <3>1. frozenLeaves' = frozenLeaves
      BY <1>6, <2>2, LeavesStay
    <3>2. ASSUME NEW c \in Credential, Issue(c) PROVE LedgerUnchanged
      BY <1>2, <3>1, <3>2
    <3>3. ASSUME NEW w \in Runner, SubmitMembers(w) PROVE LedgerUnchanged
      BY <1>3, <3>1, <3>3
    <3>4. \/ \E c \in Credential : Issue(c)
          \/ \E i \in 1 .. MaxTx : Mine(i)
          \/ \E d \in Day : AnchorElsewhere(d)
          \/ \E w \in Runner : SubmitMembers(w) \/ ConfirmMembers(w)
          \/ anchorStatus' = anchorStatus /\ anchorBatch' = anchorBatch /\ roots' = roots
      BY <1>6, <2>2, Zenon
         DEF Next, Advance, SignVc, Midnight, Lose, StartRun, TakeJob, CheckRoot, Submit,
             RecordSubmission, AwaitReceipt, ConfirmBatch, Catch, Throw, Crash, credentialVars
    <3> QED
      BY <1>1, <1>4, <1>7, <3>1, <3>2, <3>3, <3>4, MineWrites, ElsewhereWrites,
         MembersConfirm
  <2> QED
    BY <2>1, <2>2
<1> QED
  BY <1>5, <1>6

\* Anchoring implements the ledger: for any number of days, credentials, workers and
\* transactions, what the tables and the contract say changes as a ledger does.
THEOREM AnchoringImplementsLedger == Spec => LedgerKept
BY LedgerInit, LedgerStep, Invariance, PTL DEF Spec, LedgerKept, Ledger!Spec
===============================================================================
