------------------------------- MODULE Anchoring -------------------------------
(***************************************************************************)
(* The daily anchor batch (apps/worker/src/jobs/anchor-batch.ts) and the   *)
(* AnchorRegistry contract it writes to.                                   *)
(*                                                                         *)
(* A run closes a day: one transaction collects the issued credentials     *)
(* that wait for a batch and freezes their leaves; then, one await at a    *)
(* time, the run reads the chain, sends a transaction, waits for it, and   *)
(* records the outcome in the batch and in its members.  Between any two   *)
(* of these steps the worker can die or the network fail, a transaction    *)
(* can linger or get lost, credentials are issued and signed, and midnight *)
(* passes.  A run that failed is retried as long as its job has attempts,  *)
(* and a retry computes its day anew: no caller passes batchDate.          *)
(*                                                                         *)
(* The queue works with a concurrency of 1 in each process (worker         *)
(* index.ts:217-218), and one worker process is deployed: there is one run *)
(* at a time.  A second process, or the redelivery of a job whose worker   *)
(* stalls and lives, is left out.                                          *)
(*                                                                         *)
(* A leaf is a credential and whether its signed VC was hashed or, for     *)
(* want of one, its claims.  A root is its set of leaves (the hashes do    *)
(* not collide, and leaves are sorted and deduplicated), {} the zero root. *)
(* The audit head, a leaf more in every batch, is left out.                *)
(***************************************************************************)
EXTENDS JobQueue, FiniteSets

CONSTANTS
  Credential,
  Runner,      \* worker processes
  LastDay,     \* bound on the days
  MaxTx,       \* bound on the transactions sent
  Elsewhere,   \* batch ids another deployment of the wallet may use
  NULL

Day == 1 .. LastDay
Morning == 2 .. LastDay + 1   \* of the scheduler: at 00:05

ASSUME DaysAssumption == LastDay \in Nat

ASSUME TxAssumption == MaxTx \in Nat

ASSUME ElsewhereAssumption == Elsewhere \subseteq Day

ASSUME NoNull == NULL \notin Credential

VARIABLES
  today,       \* the calendar day in Ulaanbaatar
  issuedOn,    \* day of issuance, 0 before
  signed,      \* the credentials with a vcHash
  anchorStatus, anchorBatch,   \* columns of credentials; batch 0 is none
  batches,     \* anchor_batches by batch id, NULL where there is no row
  roots,       \* the contract's map
  txs,         \* the transactions sent, in order
  jobs,        \* the scheduler's, by the morning on which a run first took it
  runs         \* where each worker's run is, and its locals

vars == <<today, issuedOn, signed, anchorStatus, anchorBatch, batches, roots,
          txs, jobs, runs>>
credentialVars == <<issuedOn, signed, anchorStatus, anchorBatch>>

Leaf == Credential \X BOOLEAN
Foreign == {<<NULL, FALSE>>}   \* a leaf of no credential of this database
Root == (SUBSET Leaf) \cup {Foreign}
TxId == 0 .. MaxTx          \* 0: no transaction
AnchorDimension ==
  {"NOT_ELIGIBLE", "AWAITING_BATCH", "BATCHED", "SUBMITTED", "CONFIRMED"}
Batch ==
  [leaves : SUBSET Leaf, status : {"PENDING", "SUBMITTED", "CONFIRMED", "FAILED"},
   tx : TxId]
ChainTx ==
  [day : Day, root : SUBSET Leaf,
   status : {"PENDING", "SUCCESS", "REVERTED", "LOST"}]

ASSUME NoRowNull == NULL \notin Batch \cup ChainTx

\* tx: the transaction the run holds; guarded: it is inside the try block.
Run ==
  [phase : {"IDLE", "ASSEMBLE", "CHECK", "SUBMIT", "RECORD", "MEMBERS_SUBMITTED",
            "WAIT", "CONFIRM", "MEMBERS_CONFIRMED", "CATCH"},
   job : 0 .. LastDay + 1, day : 0 .. LastDay, tx : TxId, guarded : BOOLEAN]
Idle == [phase |-> "IDLE", job |-> 0, day |-> 0, tx |-> 0, guarded |-> FALSE]

TypeOK ==
  /\ today \in 1 .. LastDay + 1
  /\ issuedOn \in [Credential -> 0 .. LastDay]
  /\ signed \in SUBSET Credential
  /\ anchorStatus \in [Credential -> AnchorDimension]
  /\ anchorBatch \in [Credential -> 0 .. LastDay]
  /\ batches \in [Day -> Batch \cup {NULL}]
  /\ roots \in [Day -> Root]
  /\ txs \in [1 .. MaxTx -> ChainTx \cup {NULL}]
  /\ jobs \in [Morning -> Job]
  /\ runs \in [Runner -> Run]

Init ==
  /\ today = 1
  /\ issuedOn = [c \in Credential |-> 0]
  /\ signed = {}
  /\ anchorStatus = [c \in Credential |-> "NOT_ELIGIBLE"]
  /\ anchorBatch = [c \in Credential |-> 0]
  /\ batches = [d \in Day |-> NULL]
  /\ roots = [d \in Day |-> {}]
  /\ txs = [i \in 1 .. MaxTx |-> NULL]
  /\ jobs = [m \in Morning |-> Unknown]
  /\ runs = [w \in Runner |-> Idle]

Sent == {i \in 1 .. MaxTx : txs[i] # NULL}
At(w, phase) == runs[w].phase = phase
Goto(w, phase) == runs' = [runs EXCEPT ![w].phase = phase]

\* The run ends, and with it the attempt at its job.
Finish(w, queue) == runs' = [runs EXCEPT ![w] = Idle] /\ jobs' = queue
CompleteJob(w) == Finish(w, Complete(jobs, runs[w].job))
FailJob(w) == Finish(w, FailOrRetry(jobs, runs[w].job))

-------------------------------------------------------------------------------
(* The surroundings: issuance, signing, the calendar, the chain.           *)

Issue(c) ==
  /\ issuedOn[c] = 0
  /\ today \in Day
  /\ issuedOn' = [issuedOn EXCEPT ![c] = today]
  /\ anchorStatus' = [anchorStatus EXCEPT ![c] = "AWAITING_BATCH"]
  /\ UNCHANGED <<today, signed, anchorBatch, batches, roots, txs, jobs,
                 runs>>

\* The signing job stores the VC and its hash, whatever the anchor status.
SignVc(c) ==
  /\ issuedOn[c] # 0
  /\ c \notin signed
  /\ signed' = signed \cup {c}
  /\ UNCHANGED <<today, issuedOn, anchorStatus, anchorBatch, batches, roots, txs,
                 jobs, runs>>

Midnight ==
  /\ today \in Day
  /\ today' = today + 1
  /\ UNCHANGED <<credentialVars, batches, roots, txs, jobs, runs>>

\* AnchorRegistry.anchorRoot: AlreadyAnchored reverts.  The transactions of the
\* wallet are mined in the order of their nonces.
Mine(i) ==
  /\ txs[i] # NULL /\ txs[i].status = "PENDING"
  /\ \A j \in 1 .. i - 1 : txs[j].status # "PENDING"
  /\ IF roots[txs[i].day] = {}
       THEN /\ roots' = [roots EXCEPT ![txs[i].day] = txs[i].root]
            /\ txs' = [txs EXCEPT ![i].status = "SUCCESS"]
       ELSE /\ txs' = [txs EXCEPT ![i].status = "REVERTED"]
            /\ UNCHANGED roots
  /\ UNCHANGED <<today, credentialVars, batches, jobs, runs>>

\* The mempool forgets the newest transaction (bounds: not one whose loss leaves
\* a gap in the nonces, nor the last one there can be).
Lose(i) ==
  /\ txs[i] # NULL /\ txs[i].status = "PENDING"
  /\ i = Cardinality(Sent) /\ i < MaxTx
  /\ txs' = [txs EXCEPT ![i].status = "LOST"]
  /\ UNCHANGED <<today, credentialVars, batches, roots, jobs, runs>>

\* The root of this batch id gets written by a deployment with another database.
AnchorElsewhere(d) ==
  /\ d \in Elsewhere
  /\ roots[d] = {}
  /\ roots' = [roots EXCEPT ![d] = Foreign]
  /\ UNCHANGED <<today, credentialVars, batches, txs, jobs, runs>>

-------------------------------------------------------------------------------
(* runAnchorBatch.                                                         *)

\* A run takes job m, for the day that has just closed by then.
TakeJob(w, m, day) ==
  /\ jobs' = Take(jobs, m)
  /\ runs' = [runs EXCEPT ![w] =
       [phase |-> "ASSEMBLE", job |-> m, day |-> day, tx |-> 0, guarded |-> FALSE]]
  /\ UNCHANGED <<today, credentialVars, batches, roots, txs>>

\* The scheduler has one job pending, which it replaces when that is taken; a job
\* that failed waits for its next attempt.  (Bound: the job of a morning is first
\* taken on that day, at some time from 00:05 on; what an outage of the worker leaves
\* untaken at midnight is taken as the next morning's.)
Takeable(m) == (m = today /\ jobs[m] = Unknown) \/ jobs[m].state = "WAITING"

\* The scheduler's job, or a retry: for the day that has just closed.
StartRun(w) ==
  /\ \A v \in Runner : At(v, "IDLE")
  /\ \E m \in Morning : m <= today /\ Takeable(m) /\ TakeJob(w, m, today - 1)

\* Mutant: the members are chosen by their day, whatever their status.
Eligible_AnyStatus(c, d) == issuedOn[c] \in 1 .. d

\* Mutant: only the credentials of the closed day itself.
Eligible_OneDay(c, d) == anchorStatus[c] = "AWAITING_BATCH" /\ issuedOn[c] = d

Eligible(c, d) == anchorStatus[c] = "AWAITING_BATCH" /\ issuedOn[c] \in 1 .. d

\* Mutant: a batch that failed is over, too.
Over_FailedToo(b) == b.status \in {"CONFIRMED", "FAILED"}

Over(b) == b.status = "CONFIRMED"

\* Phase A, one transaction: reload the batch, or freeze a new one.
Assemble(w) ==
  LET d == runs[w].day
      members == {c \in Credential : Eligible(c, d)} IN
  /\ At(w, "ASSEMBLE")
  /\ \/ /\ batches[d] = NULL
        /\ members = {}
        /\ CompleteJob(w)
        /\ UNCHANGED <<batches, anchorStatus, anchorBatch>>
     \/ /\ batches[d] = NULL
        /\ members # {}
        /\ batches' = [batches EXCEPT ![d] =
             [leaves |-> {<<c, c \in signed>> : c \in members},
              status |-> "PENDING", tx |-> 0]]
        /\ anchorStatus' = [c \in Credential |->
             IF c \in members THEN "BATCHED" ELSE anchorStatus[c]]
        /\ anchorBatch' = [c \in Credential |->
             IF c \in members THEN d ELSE anchorBatch[c]]
        /\ Goto(w, "CHECK")
        /\ UNCHANGED jobs
     \/ /\ batches[d] # NULL
        /\ Over(batches[d])
        /\ CompleteJob(w)
        /\ UNCHANGED <<batches, anchorStatus, anchorBatch>>
     \/ /\ batches[d] # NULL
        /\ ~Over(batches[d])
        /\ runs' = [runs EXCEPT ![w].phase = "CHECK", ![w].tx = batches[d].tx]
        /\ UNCHANGED <<batches, anchorStatus, anchorBatch, jobs>>
  /\ UNCHANGED <<today, issuedOn, signed, roots, txs>>

\* rootOf: no root yet, ours, or a divergent one, which no attempt can mend.
CheckRoot(w) ==
  LET d == runs[w].day IN
  /\ At(w, "CHECK")
  /\ \/ /\ roots[d] = {}
        /\ runs' = [runs EXCEPT ![w].phase = "SUBMIT", ![w].guarded = TRUE]
        /\ UNCHANGED <<batches, jobs>>
     \/ /\ roots[d] # {} /\ roots[d] = batches[d].leaves
        /\ Goto(w, "CONFIRM")
        /\ UNCHANGED <<batches, jobs>>
     \/ /\ roots[d] # {} /\ roots[d] # batches[d].leaves
        /\ batches' = [batches EXCEPT ![d].status = "FAILED"]
        /\ Finish(w, GiveUp(jobs, runs[w].job))
  /\ UNCHANGED <<today, credentialVars, roots, txs>>

\* anchorRoot: the simulation reverts or the call fails, or the transaction is sent
\* and the answer may get lost on the way back.
Submit(w) ==
  LET d == runs[w].day
      i == Cardinality(Sent) + 1 IN
  /\ At(w, "SUBMIT")
  /\ \/ /\ Goto(w, "CATCH")
        /\ UNCHANGED txs
     \/ /\ roots[d] = {}
        /\ i <= MaxTx
        /\ txs' = [txs EXCEPT ![i] =
             [day |-> d, root |-> batches[d].leaves, status |-> "PENDING"]]
        /\ \/ runs' = [runs EXCEPT ![w].phase = "RECORD", ![w].tx = i]
           \/ Goto(w, "CATCH")
  /\ UNCHANGED <<today, credentialVars, batches, roots, jobs>>

RecordSubmission(w) ==
  /\ At(w, "RECORD")
  /\ batches' = [batches EXCEPT ![runs[w].day].status = "SUBMITTED",
                                ![runs[w].day].tx = runs[w].tx]
  /\ Goto(w, "MEMBERS_SUBMITTED")
  /\ UNCHANGED <<today, credentialVars, roots, txs, jobs>>

\* Mutant: chosen by their day, as the members are, not by their batch.
SetCredentialStatus_ByDay(d, s) ==
  anchorStatus' = [c \in Credential |->
    IF issuedOn[c] \in 1 .. d THEN s ELSE anchorStatus[c]]

\* The credentials of batch d get the status s.
SetCredentialStatus(d, s) ==
  anchorStatus' = [c \in Credential |->
    IF anchorBatch[c] = d THEN s ELSE anchorStatus[c]]

SubmitMembers(w) ==
  /\ At(w, "MEMBERS_SUBMITTED")
  /\ SetCredentialStatus(runs[w].day, "SUBMITTED")
  /\ Goto(w, "WAIT")
  /\ UNCHANGED <<today, issuedOn, signed, anchorBatch, batches, roots, txs, jobs>>

\* Mutant: a reverted transaction has a receipt, too.
AwaitReceipt_Reverted(w) ==
  /\ At(w, "WAIT")
  /\ \/ txs[runs[w].tx].status \in {"SUCCESS", "REVERTED"} /\ Goto(w, "CONFIRM")
     \/ Goto(w, "CATCH")
  /\ UNCHANGED <<today, credentialVars, batches, roots, txs, jobs>>

\* A receipt of success, a revert, or a timeout.
AwaitReceipt(w) ==
  /\ At(w, "WAIT")
  /\ \/ txs[runs[w].tx].status = "SUCCESS" /\ Goto(w, "CONFIRM")
     \/ Goto(w, "CATCH")
  /\ UNCHANGED <<today, credentialVars, batches, roots, txs, jobs>>

\* markConfirmed, its first write ...
ConfirmBatch(w) ==
  LET d == runs[w].day IN
  /\ At(w, "CONFIRM")
  /\ batches' = [batches EXCEPT
       ![d].status = "CONFIRMED",
       ![d].tx = IF runs[w].tx = 0 THEN @ ELSE runs[w].tx]
  /\ Goto(w, "MEMBERS_CONFIRMED")
  /\ UNCHANGED <<today, credentialVars, roots, txs, jobs>>

\* ... and its second.
ConfirmMembers(w) ==
  /\ At(w, "MEMBERS_CONFIRMED")
  /\ SetCredentialStatus(runs[w].day, "CONFIRMED")
  /\ CompleteJob(w)
  /\ UNCHANGED <<today, issuedOn, signed, anchorBatch, batches, roots, txs>>

\* A call to the chain or to the database fails inside the try block.
Throw(w) ==
  /\ runs[w].guarded
  /\ ~At(w, "CATCH")
  /\ Goto(w, "CATCH")
  /\ UNCHANGED <<today, credentialVars, batches, roots, txs, jobs>>

\* The batch row says FAILED, and the error goes on to the queue.
Catch(w) ==
  /\ At(w, "CATCH")
  /\ batches' = [batches EXCEPT ![runs[w].day].status = "FAILED"]
  /\ FailJob(w)
  /\ UNCHANGED <<today, credentialVars, roots, txs>>

\* The worker dies, or a call outside the try block fails.
Crash(w) ==
  /\ ~At(w, "IDLE")
  /\ FailJob(w)
  /\ UNCHANGED <<today, credentialVars, batches, roots, txs>>

-------------------------------------------------------------------------------
Advance(w) ==
  \/ Assemble(w) \/ CheckRoot(w) \/ Submit(w) \/ RecordSubmission(w)
  \/ SubmitMembers(w) \/ AwaitReceipt(w) \/ ConfirmBatch(w) \/ ConfirmMembers(w)
  \/ Catch(w)

Next ==
  \/ \E c \in Credential : Issue(c) \/ SignVc(c)
  \/ Midnight
  \/ \E i \in 1 .. MaxTx : Mine(i) \/ Lose(i)
  \/ \E d \in Day : AnchorElsewhere(d)
  \/ \E w \in Runner : StartRun(w) \/ Advance(w) \/ Throw(w) \/ Crash(w)

Spec == Init /\ [][Next]_vars

\* The scheduler's job and those that wait are taken, and a run that began goes on
\* or fails.  Nothing obliges a call to succeed, a transaction to be mined or midnight
\* to wait.
Fairness ==
  /\ WF_vars(\E w \in Runner : StartRun(w))
  /\ \A w \in Runner : WF_vars(Advance(w))

FairSpec == Spec /\ Fairness
-------------------------------------------------------------------------------
(* Properties.                                                             *)

Confirmed(d) == batches[d] # NULL /\ batches[d].status = "CONFIRMED"

\* A batch that the database calls CONFIRMED has its own root on the chain, and
\* so has a credential it calls CONFIRMED: no crash, lost answer, second
\* transaction or foreign root makes it say so too early (anchor-batch.ts:8-10).
ConfirmedIsOnChain ==
  /\ \A d \in Day : Confirmed(d) => roots[d] = batches[d].leaves
  /\ \A c \in Credential : anchorStatus[c] = "CONFIRMED" =>
       \E d \in Day, s \in BOOLEAN :
         d = anchorBatch[c] /\ roots[d] # Foreign /\ <<c, s>> \in roots[d]

\* A credential belongs to one batch, whose leaves hold one leaf of it: no rerun,
\* on the same day or a later one, collects it again.
InOneBatch ==
  \A c \in Credential, d \in Day :
    LET own == {s \in BOOLEAN : batches[d] # NULL /\ <<c, s>> \in batches[d].leaves} IN
    Cardinality(own) = IF anchorBatch[c] = d THEN 1 ELSE 0

frozenLeaves ==
  [d \in Day |-> IF batches[d] = NULL THEN {} ELSE batches[d].leaves]

Ledger == INSTANCE AnchorLedger WITH
  batch <- frozenLeaves, batchOf <- anchorBatch, root <- roots,
  confirmed <- {c \in Credential : anchorStatus[c] = "CONFIRMED"}

\* However runs crash, overlap midnight and are tried again, whatever gets lost or is
\* mined late, the tables and the contract together are a ledger: each step leaves it
\* alone or closes a batch, writes a root or confirms a whole batch ("batch rows
\* exist before any submission and survive chain failures", anchor-batch.ts:13-14).
LedgerKept == Ledger!Spec

Rank(s) == CASE s = "NOT_ELIGIBLE" -> 0 [] s = "AWAITING_BATCH" -> 1
             [] s = "BATCHED" -> 2 [] s = "SUBMITTED" -> 3 [] s = "CONFIRMED" -> 4

\* No retry takes a credential back to an earlier anchor status
\* ("BATCHED -> SUBMITTED -> CONFIRMED", anchor-batch.ts:4): that is what the
\* concurrency of 1 of the queue is for (worker index.ts:216-217).
StatusNeverFallsBack ==
  [][\A c \in Credential : Rank(anchorStatus[c]) <= Rank(anchorStatus'[c])]_vars

\* A batch does not lie there unnoticed: it is confirmed in the end, unless the next
\* midnight comes first, its id is taken or a job of its morning has used up its
\* attempts: nobody tries that one again, for the ops console shows the other two
\* queues only (ops/routes.ts:49).  No crash, failure or lost answer lets a job
\* complete that left its batch behind.
ConfirmedOrGivenUp ==
  \A d \in Day :
    batches[d] # NULL ~>
      \/ Confirmed(d) \/ today > d + 1 \/ roots[d] = Foreign
      \/ jobs[d + 1].state = "FAILED"

GivenUp == today \in Morning /\ jobs[today].state = "FAILED"

\* A credential whose day has closed gets into some batch, even if no run completed
\* on the mornings after, unless the jobs of all mornings to come fail.
NobodyLeftBehind ==
  \A c \in Credential :
    issuedOn[c] # 0 /\ today > issuedOn[c] ~> anchorStatus[c] # "AWAITING_BATCH" \/ []GivenUp

\* "Batch rows exist before any submission and survive chain failures for
\* retry" (anchor-batch.ts:13-14): as long as no job of its morning has used up its
\* attempts, a batch gets anchored in the end.
EveryBatchIsAnchored ==
  \A d \in Day :
    batches[d] # NULL ~> Confirmed(d) \/ roots[d] = Foreign \/ jobs[d + 1].state = "FAILED"

\* "Idempotent by construction - safe to re-run after any crash"
\* (anchor-batch.ts:6): the members of a confirmed batch get confirmed.
ConfirmationReachesMembers ==
  \A c \in Credential, d \in Day :
    anchorBatch[c] = d /\ Confirmed(d) ~> anchorStatus[c] = "CONFIRMED"
===============================================================================
