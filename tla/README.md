# A verification development of Diplom.mn

Diplom.mn issues, revokes, replaces and verifies university diplomas. This
directory holds TLA+ models of the program in `src/`, the TLC configurations that
check them on small instances, and theorems about them that TLAPS checks for every
value of their constants.

Tools: `tlc -config M_run.cfg M` for a run of module `M`, `tlapm XProofs.tla` for the
proofs. All paths in this file are relative to the repository; short names are

| short | file |
|---|---|
| service | `apps/api/src/modules/credentials/service.ts` |
| credential routes | `apps/api/src/modules/credentials/routes.ts` |
| lifecycle routes | `apps/api/src/modules/lifecycle/routes.ts` |
| audit chain | `packages/db/src/audit-chain.ts` |
| anchor job | `apps/worker/src/jobs/anchor-batch.ts` |

## 1. Inventory

The system is a monorepo: an API (Fastify, `apps/api`), a worker (BullMQ,
`apps/worker`), a web application (`apps/web`), a registry contract
(`packages/contracts`) and libraries (`packages/*`). State that outlives a request is
in PostgreSQL (`packages/db/src/schema.ts`), in the queues in Redis, in object storage
(PDFs) and in the contract. API and worker share the database and talk through the
queues; the worker talks to the chain and to the mail service, the API to HEMIS (the
national register).

| component | state it keeps | operations | talks to |
|---|---|---|---|
| Credential workflow (service, credential routes) | `credentials`: status, claims, the snapshot taken at submission, the people who submitted and approved, certificate ID / salt / hash / issue date, successor | create, edit, submit, approve (which issues), return, reject, cancel, retry issuance | lifecycle cases, audit chain, queues |
| Lifecycle cases (lifecycle routes) | `lifecycle_cases`: kind, status, credential, who asked and who decided, replacement draft | open, approve a revocation or a replacement, reject | credentials, audit chain, status-list queue |
| Source validation (`validate-source`, `packages/hemis`) | `source_validation_status`, the evidence and its fingerprint on the credential row | ask HEMIS, match, store the outcome | HEMIS, audit chain |
| Public verification (`modules/verify`) | none but a log | answer for a certificate ID, verification bundle, status list, anchor view | reads credentials, status lists, anchor batches |
| Audit chain | `audit_events`: seq, hash of the previous event, hash | append inside the caller's transaction, verify in batches | every other component |
| Queues (`apps/api/src/queues.ts`, `apps/worker/src/index.ts`) | job ids, waiting, active, failed and completed jobs | enqueue with a stable or a forced id, retry with backoff, repeatable jobs | API to worker |
| VC signing and status list (`sign-vc.ts`, `publish-status-list.ts`) | `vc` and `status_list_index` of a credential, a sequence of slots, `status_lists`: the signed list | allocate a slot, sign, publish the list | credentials, queues |
| Anchoring (anchor job, `chain.ts`, `AnchorRegistry.sol`) | `anchor_batches`: day, leaves, root, transaction, status; `anchor_status` of credentials; the contract's roots | assemble a day's batch, submit its root, wait for the receipt, confirm | credentials, the chain |
| Artifacts and notifications (`generate-pdf.ts`, `notify-issued.ts`, `modules/ops`, `modules/files`) | the PDF in the object store; its key and checksum on the credential row | render, store and record a PDF, then mail the holder; list failed jobs, retry, regenerate; download | storage, mail, queues |
| Holder portal (`modules/holder`, `plugins/holder-auth.ts`) | `otp_challenges`, `holder_sessions`, `share_links` | request and verify a one-time code, log out, look at diplomas, share, revoke a share, resolve one, proof bundle | credentials, mail |
| Bulk import (`modules/imports`) | `import_batches`, `import_rows` | upload and validate a file, submit its valid rows, file of errors | credentials, audit chain |
| Staff accounts (`modules/auth`, `modules/users`, `plugins/auth.ts`) | `users` (failures, lock), `user_roles`, `invitations`, `sessions` | invite, accept, log in, log out, role and scope of every handler | every route |
| Merkle tree (`packages/shared/src/merkle.ts`, `packages/verifier/src/primitives.ts`) | none | root, proof, verification | anchoring, verifier |
| Key history (`packages/did`, `modules/did`) | a file of keys with validity; the DID document that the API loads of it | key valid at an instant, active signing key, consistency, DID document | signing, verifier |
| Open verifier (`packages/verifier`) | none | the checks of a proof bundle, one fetch after the other | DID document, status list, chain |

### What is hard here

* **Interleaved handlers.** Two transactions decide about the same diploma: approve
  and return, two cases on one credential, a replacement issued while its original is
  revoked. What a handler reads before its transaction may be stale inside it.
* **Separation of duties over many steps.** A request is submitted, returned, edited,
  resubmitted by somebody else and approved by the first person.
* **The audit chain under concurrency.** Its order comes from a sequence that burns
  numbers on roll-back, its links from reading the last row, and a verifier pages
  through it while others append.
* **Crashes between two writes**, in the worker above all: between sending a
  transaction and recording it, between the batch and its members, between the slot
  and the VC that carries it.
* **Retries.** BullMQ runs a job again that did part of its work; a run that is slow
  overlaps its retry; an id that the queue knows swallows a new job.
* **Midnight.** The window of an anchoring run comes from the clock of the run.
* **Calls after the commit.** Jobs are enqueued after the transaction, and the failure
  is only logged.
* **Read, decide, write.** Portal, staff login, invitations and imports read a row
  without a lock, decide by it, and write later. Two requests may hold the same reading.
* **Three fetches.** A verification reads a document, a list and a root one after the
  other, from caches or from nobody, while keys rotate and diplomas are revoked.

### What makes each component correct

* Workflow: nobody approves what he or she submitted; what was approved is what was
  hashed; an issued record never changes, except to be revoked or superseded, once.
* Cases: a revocation and a supersession trace back to a decision of two people;
  successors never form a cycle; a case is completed exactly when its effect is there.
* Public verification: from outside, the tables behave like a record in which entries
  appear, and are revoked or replaced, and nothing else.
* Source validation: an outcome on a row has evidence about that row's number.
* Audit chain: one chain, commits only add at its end, verification neither alarms nor
  skips.
* Anchoring: confirmed means on the chain; a credential is in one batch; no run undoes
  progress; a batch is confirmed in the end, or its job is among the failed, or midnight
  came first.
* Status list: a slot is never shared or moved, no diploma in force is ever listed,
  every revocation is listed in the end; a signing job ends where somebody can see it.
* Artifacts: what the row names can be downloaded, its checksum is the object's, and the
  mail is sent after the PDF is there, not lost by a retry, and sent again after a failed
  attempt only.
* Holder portal: a session was earned by a code mailed to its holder; what is consumed,
  closed or revoked stays so; holders see and share their own issued diplomas only.
* Staff accounts: one account per address, rights from an invitation, a lock that agrees
  with the count of failures.
* Import: a closed batch has dealt with all valid rows, a row marked SUBMITTED has its
  request, faulty rows have none. (The mark FAILED and the status COMPLETED can be false.)
* Open verifier, with Merkle tree and key history: a verdict has its grounds, a slow or
  stale source makes no forgery of a genuine bundle, and a revocation that is out
  everywhere is not missed; old diplomas survive rotations.

## 2. Modules

```
CredentialStatus          status vocabulary and its transition table (shared/status.ts)
 |- Issuance              credentials and lifecycle cases, one action per transaction
 |   |- PublicVerification    GET /verify as a function of the tables; refines PublicRecord
 |   `- SourceValidation      Issuance + numbers, requests in flight, HEMIS
 `- HolderPortal          codes, sessions, shares
RowLocks                  the same transactions, lock by lock; refines SerialWorkflow
SerialWorkflow            abstract specification: one request at a time
PublicRecord              abstract specification: what verification promises
AnchorLedger              abstract specification: what anchoring promises
AuditChain                append and verify over PostgreSQL sessions
JobQueue                  a BullMQ job: its states and its attempts
 |- Anchoring             the daily run, contract, mempool, midnight; refines AnchorLedger
 |- StatusList            signing queue, slots, list publication
 `- Artifacts             PDF and mail jobs, retries, downloads
StaffAuth                 invitations, logins and locks, sessions, rights
ImportBatch               upload and submission of a file, row by row
Merkle, KeyHistory        pure: tree and proofs; validity of keys, DID document
 `- OpenVerifier          a verification beside rotations, publications and caches

MCIssuance    PublicVerification
MCWorkflow    MCIssuance + RowLocks
MCInquiries   SourceValidation + OpenVerifier
MCServices    Anchoring + HolderPortal + StaffAuth + ImportBatch
MCJobs        StatusList + Artifacts
MCProgress    AuditChain + Anchoring + StatusList, with their fairness

IssuanceProofs      the tables, and the refinement of PublicRecord
 |- WorkflowProofs      the locks, and MCWorkflow
 `- InquiriesProofs     source validation, Merkle proofs, the verifier, and MCInquiries
AnchoringProofs     the daily run, and the refinement of AnchorLedger
AccountsProofs      staff accounts and holder portal
 `- ServicesProofs      (and AnchoringProofs) the import, and MCServices
JobsProofs          status list and artifacts, and MCJobs
AuditChainProofs
```

`PublicVerification` composes the workflow with what the public sees of it, and
`SourceValidation` composes it with the validation handler, whose steps interleave with
the workflow's actions. `OpenVerifier` composes the verifier with the custodian, the API
that serves the DID document, the signing worker and the chain.

`MCServices`, `MCJobs`, `MCProgress` and `MCInquiries` put components that share no
variable into one run, and `MCWorkflow` the two views of the workflow. To interleave them
would multiply their states and show nothing: an action of one neither enables, disables
nor changes anything of the others. So a variable says which component moves, all others
keep their initial states, and the states of the run are the sum of those of its
components. An invariant of one component is thus checked over all of its behaviours. The
modules add that variable, the conjunction of the type invariants, and `MCJobs` the
property `RerunsKeepWhatIsDone`: the comment at `shared/queues.ts:4` speaks of all
handlers, so that signing (`SignedOnce`) and notices (`MailedAgainAfterFailureOnly`) are
one question.

An operator named `X_Y` next to `X` is `X` with a plausible bug; it stands before the
operator it changes and nothing uses it. Such variants serve to show that a property can
fail: with `X` replaced by `X_Y`, TLC finds it violated.

### Issuance

The variables are the two tables. Handlers lock the rows they decide on with
`SELECT ... FOR UPDATE` as the first statement of one transaction, so a handler is one
action (`SubmitCredential`, `ApproveCredential`, `ReturnCredential`, ...). Opening a case
is the exception: it reads the credential before the transaction and without a lock,
so it is the two actions that a request for a case consists of. Approval runs
`issueWithinTransaction` in the same transaction, and the model does the same: APPROVED
exists inside the action only. Rejecting or approving a case, supersession of the
original and completion of the linked cases are parts of the actions that do them.

`contentHash` stands for certificate ID, salt, hash and issue date, which are stamped
together; it is the claims the hash commits to. Institution scope, `createdBy`, the
holder and free text are left out; people and their roles are constants. The status
changes go through `CanTransition`, which is `LIFECYCLE_TRANSITIONS`.

### PublicRecord and PublicVerification

`PublicRecord` is the abstract specification: an entry goes on record with two people
and contents, may take the place of at most one other in the same step, and may be
revoked; nothing else happens. `PublicVerification` states what `GET /verify/:id` answers
for each row, and `Public!Spec` over that function as a property of `Issuance`.

### SourceValidation

`validate-source` reads the row without a lock, waits for HEMIS, and writes the outcome
without looking at the status again; the three parts are three actions, for several
requests in flight, each made once, and with an answer, an outage or a crash in between.
HEMIS is the constant `Register`; the reply is compared as `matchAgainstSource` does,
field comparisons folded into one of its outcomes. `ATTESTATION_INVALID` needs an
attestation hook that no caller configures, so the reply never has it.

### AuditChain

Statement by statement: take the advisory lock, read the last committed row, insert
with `nextval`, then commit (publishing all the transaction's rows) or roll back (which
burns the numbers). A transaction may append several events. The verifier reads
batches of `BatchSize` rows by seq and remembers the last hash between them.

### RowLocks

`Issuance` takes a handler for one step and `AuditChain` knows no rows; `RowLocks` is what
lies between. A handler is the sequence of the locks that its statements take, with the
modes of PostgreSQL: `FOR UPDATE` of `loadForUpdate` and of a case, the weaker lock of an
`UPDATE`, the `KEY SHARE` of a foreign key on the diploma when a case is inserted, and
the audit lock. All are held to the end of the transaction; a row is read when its lock
is granted, which is what READ COMMITTED does after a wait. `Accepts` is the check behind
a lock, `Outcome` what the transaction leaves behind by what it has read.
`BreakDeadlock` rolls back one transaction of a cycle.

`SerialWorkflow` says what the rows would go through if requests came one at a time: one
atomic action for each decision, on what the rows hold at that moment. That `RowLocks`
implements it (`SerialKept`) is why `Issuance` may take a handler for one step; the
mutant that reads the original without its lock lets a replacement supersede what a
revocation has just revoked. The rows are an issued diploma, submitted replacements of it
with their approved cases, and open cases; what a transaction inserts is its own until it
commits. Handlers with the same locks stand for each other: `RETURN` for the rejection of
a request, `VALIDATE` for the PDF job (`generate-pdf.ts:90`), `OPEN_CASE` for a share
(`holder/routes.ts:458`) and a notice (`notify-issued.ts:67`). Left out are transactions
that lock rows of drafts, accounts, sessions, codes or imports only and then append, in
that order, and the remaining jobs of the worker, which lock diplomas in one statement
and do not append; a batch has issued diplomas only, so none of its rows is the
replacement that an approval has locked.

### Anchoring

Each `await` of the anchor job ends an action. A run fails at any of them with an
exception (`Catch` writes the error as the code does) or dies with the process. Its job
then waits for another attempt, of which it has `MaxAttempts`, and is FAILED after the
last one, or at once if the root on the chain is another's (`GiveUp`). The scheduler adds
a job every morning. No caller passes `batchDate`, so each attempt computes the window
from its own clock, and after midnight that is another day's.

There is one run at a time: the queue's concurrency is 1 in each process (worker
`index.ts:217-218`) and one worker process is deployed. A second process, or a stalled job
that is delivered again while its worker lives, could break that, and is left out.

The chain is a mempool from which transactions are mined, lost, or reverted, in the order
of their nonces, and the contract of `AnchorRegistry.sol`, which keeps the first root for
a day. Roots written by somebody else are `Elsewhere`. A root is its set of leaves.
Midnight passes at any time. The leaf that contains the head of the audit chain is left
out.

### AnchorLedger

The abstract specification of anchoring: batches whose members are in no other and whose
leaves never change, roots that are written once, and the confirmation of a whole batch
when its root is there. `LedgerKept` is `AnchorLedger` over the leaves of the rows of
`anchor_batches`, the batch that each credential names, the contract's roots, and the
credentials that are called CONFIRMED. The status of a batch is not part of it: a run
that fails after `ConfirmBatch` writes FAILED over CONFIRMED (`Catch`), and the next one
confirms again. No credential's status does that.

### StatusList

The queue of signing jobs, the sequence `credentials_status_list_index_seq` (`nextval`,
outside any transaction), the row of the credential, the VC, and the published list,
statement by statement, for two runners. `Shape` is what the job finds in the row: a
certificate, for which there is no schema, is skipped; claims that make no subject throw
before a slot is drawn, a row without a salt throws after it is stored, and both do so in
every attempt. A signing job whose attempts are used up is FAILED for good: its id is
known, so that nothing adds it again, and the ops console knows the other two queues only
(`ops/routes.ts:49`).

A list is the set of revoked slots. A refresh is asked for after each revocation with the
job id of the minute, and daily at 00:10. BullMQ gives one job to one runner at a time; a
stalled job that is given out a second time while its first runner still goes on is left
out here, too.

### JobQueue

What BullMQ does to a job, as `shared/queues.ts:43-47` configures it: `Add` of a known id
does nothing, `FailOrRetry` counts (an exception and a death of the worker alike) until
`MaxAttempts`, `Retry` is an operator's. Pauses between attempts are not modelled: any
time may pass between two actions.

### Artifacts

One diploma, since jobs of different diplomas touch different rows, objects and ids.
The two queues are functions from job ids to jobs of `JobQueue`; these two an operator may
retry. The PDF job is rendered, stored, recorded, chained, completed: one action per
`await`. The id of a notice contains that of its PDF job (worker `index.ts:82-95`), so a
job that is retried after it chained finds its notice there. A notice mails
(`SendEmail`), then records that it did (`RecordNotice`); an attempt that dies in between
is followed by one that mails again, since nobody looks for the record. `mails` counts
them. A rendering is a number: no two have the same bytes. The stable id is that of
approval, the forced ids those of the operators' regeneration.

### HolderPortal

A request is at most three steps: the session check, the reads, the transaction that
decides by what was read; `requests` holds what it has read. `OpenSession` consumes the
code whether or not it has been consumed since it was read, as the update in the code
does, so two verifications of one code may open two sessions of its holder. The answer
calls it a one-time code (`holder/routes.ts:132`); no property here rules that out, and
`HoldersSeeTheirOwn` and `SpentForGood` hold with it. `RejectCode` writes the count that
was read plus one, so failures that overlap may count once. Diplomas move on by the
transition table at any time. `expired` is the set of rows whose time is over.

### StaffAuth

Login reads the user (`ReadUser`), compares, and writes count and lock from that reading
(`CountFailure`), or resets both and inserts a session. Accepting an invitation reads the
invitation without a lock, then looks for a user of the address and inserts one in a
transaction; the unique index on the address is the guard of `CreateAccount`. A handler
that begins with `requireInstitutionScope` is `Act`. Sessions that are over are removed,
and their ids used again.

### ImportBatch

A file is the sequence of its rows, a row what identifies its diploma, or malformed.
Submission is read by read and write by write: batch, pending rows, then for each row the
draft (`InsertDraft`), its submission (`SubmitDraft`), the mark (`MarkSubmitted`), or after
an exception at any of these `MarkFailed`; then `CloseBatch`. `Die` ends it anywhere.

`SubmittedAndClosedAreTrue` looks at pending, faulty and SUBMITTED rows. Of the others
nothing can be relied on. A row whose mark alone failed is FAILED while its credential is
with the approvers (`imports/routes.ts:436-458`), although :346-347 says that a row runs
in its own transaction: it is three. And a submission counts its own failures only
(:462-467), so that it closes a batch as COMPLETED in which another one, or one that died,
has left a FAILED row.

### Merkle, KeyHistory

Operators. The leaves of a batch are numbered; a hash of a pair is the set of the two,
tagged, which is what sorting before hashing comes to. Levels and paths are recursive
functions. A key history is a function from key ids; instants are numbers.

### OpenVerifier

`verifyProofBundle` is the actions `Present`, `ResolveDidDocument`, `FetchStatusList`,
`CheckAnchor`; between them anything may happen: the custodian rotates or revokes a key,
the API restarts with the new history, the worker is configured with another key, signs,
publishes a list, the batch is assembled (of the claims if the VC is not there yet) and
mined, or somebody else's root is first under its id. Each fetch gets what is served now,
what a cache still has, or nothing; a document or a list may also be damaged on the way.
What is presented is the proof bundle of the portal, a bare VC, or either of them damaged.
`CheckAnchor` evaluates the proof check of `Merkle` for every leaf of every batch up to
`MaxBatch`.

`answer` remembers how the answer was that decided. A document whose key is missing or
malformed makes NOT_VALID of a genuine bundle (`verify.ts:119-124`, 174-187): DAMAGED. One
without its list of keys, with a point off the curve, or a list without its proof, which
is read outside any `try` (`verify.ts:206-209`), makes the verification throw: THROWN, no
result at all. An endpoint of the right chain that does not know the contract answers
`'0x'`, which `fetchers.ts:82-83` returns as a root: EMPTY. `VerdictsHaveGrounds` says that
these, a revoked key and a foreign root are the only ways to NOT_VALID for a genuine
bundle; `OutageIsNotFraud`, which is the claim of `verify.ts:13` and does not except EMPTY,
is violated.

The custodian is outside the repository. `RotateKey` retires the active key as the
history is edited; `SwitchSigner` assumes what the ceremony prescribes
(`docs/architecture-understanding.md:108`): the new key is published, and every copy of
the document that a cache may hold has it, before the worker signs with it.
`VerdictsHaveGrounds` needs that. Nothing makes the worker leave its old key in time.

## 3. Runs

Deadlock is not checked: in each run identifiers of rows, days, transactions or requests
run out, every diploma, case, batch, code and request ends in a final state there, and the
system may stop. That nobody waits for ever where somebody must go on is what the liveness
properties of `progress` say, and `DeadlocksNeedAReplacement` of the locks. Symmetry is
used only in runs without liveness.

| run | shows | bounds |
|---|---|---|
| `workflow` | Issuance: nobody issues what he or she submitted; hash = snapshot = stored claims; an issued record is immutable; revocations and supersessions are decided by two people; no cycle of successors; cases follow replacements; the workflow implements `PublicRecord` | 3 diplomas, 2 cases, 2 people, 2 claims |
| | RowLocks: whatever the interleaving, the rows have a history of handlers one at a time (the transactions implement `SerialWorkflow`); a deadlock always has the issuing of a replacement in it | 1 diploma, 2 replacements with their cases, a revocation and a correction, 3 requests of any kind |
| `supersedes` | *violated:* an issued replacement has superseded its original | 3 diplomas, 2 cases |
| `inquiries` | SourceValidation: an outcome has evidence, filed under the number that was asked for, and true. OpenVerifier: verdicts have grounds, a settled revocation wins, old keys stay resolvable | 2 diplomas, an operator and an approver, a number that HEMIS confirms and one that it does not, 2 requests; 2 keys, 2 instants, the last index of a list and the one beyond, batches to 7 leaves |
| `key_window` | *violated:* no VC signed after the window of its key is VALID | 3 instants |
| `outage` | *violated:* where nothing was damaged, a genuine bundle is found false for a revoked key or a foreign root only | as `inquiries` |
| `progress` | AuditChain: one chain, in commit order; no false alarm; no event skipped; every append ends | 2 sessions, seqs to 4, batches of 2 |
| | Anchoring: a batch is confirmed, or its job FAILED, or midnight came, or its id was taken; nobody eligible is left out of batches | 1 credential, 1 worker, 2 days, 2 transactions, a foreign root, 2 attempts |
| | StatusList: every revocation is listed in the end; every signing job comes to an end | 1 credential of any shape, 2 runners, 2 slots of which the list has 1, 2 attempts |
| `anchor_retry` | *violated:* every batch whose job did not FAIL is anchored in the end | 1 credential, 1 worker, 2 days, 2 transactions, 2 attempts |
| `anchor_members` | *violated:* the confirmation of a batch reaches its members | as before |
| `services` | Anchoring: confirmed is on the chain; statuses never fall back; it implements `AnchorLedger` | 2 credentials, 1 worker, 2 days, 2 transactions, a foreign root, 2 attempts |
| | HolderPortal: sessions are earned; consumed, closed and revoked for good; own issued diplomas only | 2 holders with a diploma each, 2 requests, 1 code, 1 session, 1 share |
| | StaffAuth: one account per address; lock and count agree; rights come from the invitation | 3 accounts, 2 invitations, 2 addresses, 2 institutions, 2 requests, lock after 2 failures |
| | ImportBatch: a closed batch has no pending row; SUBMITTED means submitted; faulty rows stay out | 3 files of 2 or 3 rows, 2 submissions, 4 drafts |
| `import_twice` | *violated:* a row makes one credential | as before |
| `jobs` | StatusList: no VC in force is listed, a VC carries the slot of its row, a VC is signed once | 2 credentials of any shape, 2 runners, 3 slots of which the list has 2, 2 attempts |
| | Artifacts: downloads are served; mail after the PDF, not lost, again after a failed attempt only; checksum of the object | a stable and a forced job, 2 attempts, 2 renderings, 1 download |
| `mail_twice` | *violated:* no notice is mailed twice | the stable job, 2 attempts |

Why the bounds are enough. A race in the workflow is between two cases on one diploma, or
between a case and the replacement of its original: three diplomas and two cases give two
replacements of one diploma, and a replacement of a replacement. Two people are the
fewest that separation of duties allows; who has which role is a constant of the theorems
of section 4, which hold for more of everything. Three transactions are a cycle of two
and one more that waits for either, or a cycle of three, of which there is none without
one of two. A fork or a false alarm needs two sessions and one verifier; four seqs and
batches of two let a transaction with two events, a rolled back one and a batch boundary
fall together. Two validation requests, each made once, can overlap or follow each other,
with an edit of the number between any two of their steps. Two days are a day and the one
after it: a run only ever looks at the last closed day and at what was left before it.
Two transactions are the one that got lost and the one that replaced it. Three slots are
one each for two diplomas and one that a failed attempt burns, and one more than the list
has. Two jobs that render are what can mix up object and checksum, and two attempts are
one retry. Handlers of portal, staff and import that read before they write can be
disturbed by one other request; two of them are the pair. A limit of two lets a count be
below it, reach it and be reset; the code's ten failures and its attempts at a code
differ in nothing but length. Two instants and two keys are a rotation, and what is
signed before and after; seven leaves have every pattern of promoted nodes on three
levels.

`MaxSeq`, `MaxTx`, `LastDay`, `MaxSlot`, `MaxRenders`, `MaxViews` and `LastInstant` bound
the counters of the code and the clock and appear in guards only. `ListLength` (131,072 in
the code), `OTP_MAX_ATTEMPTS`, `MAX_FAILED_LOGINS` and `MaxAttempts` are the code's
constants, smaller.

### Fairness

* AuditChain. PostgreSQL grants an advisory lock in the order of the requests, hence
  strong fairness of taking it; a handler goes on with its transaction (weak). Nothing
  obliges anybody to append.
* Anchoring. The scheduler's job and those that wait for another attempt are taken, and a
  run that began goes on or fails (both weak). Nothing obliges a call to succeed, a
  transaction to be mined, or midnight to wait or come. So `ConfirmedOrGivenUp` promises no
  more than the code does: five attempts, then a job among the failed.
* StatusList. The daily refresh comes, a handler that has committed goes on to enqueue or
  fails, and a runner at work goes on or fails (weak). A signing job that waits again and
  again is taken again and again, for the queue is served in order (strong); it need never
  succeed, and attempts run out. Of the publications, one succeeds again and again
  (strong): a new one is scheduled every day, whatever became of the last one.
* A behaviour of `progress` is fair to the component that moves in it.
* The workflow, its locks, the portal, staff, imports, artifacts and the verifier have
  safety properties only: people, operators and the custodian are not obliged to act.

### Disagreements between code and text

Seven runs end in a counterexample; `PROJECT.json` quotes the line of the repository that
states each property. In short:

1. `supersedes`: service:213 supersedes the original only while it is ISSUED and
   completes the case in any case. Two replacements of one diploma can be in force.
2. `anchor_retry`: a retry after midnight computes the next window; the batch of the day
   before is never visited again, and the ops console cannot retry anchors
   (`ops/routes.ts:49`), although `shared/queues.ts:38` speaks of its retries with a
   date.
3. `anchor_members`: `markConfirmed` is two writes; a run after a crash between them
   returns at anchor job:177.
4. `import_twice`: the submit handler (`imports/routes.ts:351`) changes the status of the
   batch at its end only. A second submission beside it, or after the API died in it,
   submits the same rows again.
5. `key_window`: the verifier takes any key that the document lists (`verify.ts:174`), a
   retired one included, and `keyValidAt` has no caller outside its package: a VC that
   the worker signs with a key that is retired by then is VALID.
6. `outage`: `fetchers.ts:82-83` takes `'0x'`, the answer of a node that does not know the
   contract (yet), for a root, and `verify.ts:280-284` reports a mismatch: NOT_VALID.
7. `mail_twice`: `notify-issued.ts:49` mails before :67 records it, and nothing looks for
   the record before mailing.

The models have these behaviours too, and no run of their own asks for them:

* Issuing a replacement takes the audit lock and then the row of the original (service:212),
  deciding about the original the other way round (lifecycle routes:144, 154): the two can
  deadlock, and one of the two people gets an error (`BreakDeadlock`). No other pair of
  handlers can, which is `DeadlocksNeedAReplacement`; the PDF job is one of those that come
  for the original first.
* Lifecycle routes:44 checks the status outside the transaction, so a case can be opened
  on a diploma that has just been revoked (`CheckCase`, then `OpenCase`). Nothing follows
  from it: approving the case looks at the status again, which `RevocationIsDecided` and
  the refinement show.
* Credential routes:499 writes the outcome of a validation on whatever the row became,
  an issued diploma included (`FinishValidation`).
* Approval (service:132) does not read the source status, although credential
  routes:445 says that a mismatch blocks it "by default": `Issuance` has no source
  status, and `SourceValidation` lets every request be approved (`OtherWork`).
* A credential that is batched before it is signed has a leaf (of its claims' hash) that
  the proof bundle (`holder/routes.ts:325`) does not look for once the VC exists, so the
  bundle goes without an anchor for good (`Assemble`, `BundleHasAnchor`); to the verifier
  that is an anchor that is pending, and no forgery.
* A revoked slot at the end of the list stops every later publication (`BuildStatusList`),
  the daily one included; `RevocationShowsInTheEnd` excepts it.
* Two regenerations of one PDF side by side can leave the object of the one with the
  checksum of the other (`PutObject`, `RecordPdf`), so
  `DownloadsAreServed` speaks of checksums only while nobody asks for a regeneration.
* A batch whose root is found on the chain is confirmed with whatever transaction its row
  names, which after a crash before anchor job:250 is an earlier one (`CheckRoot`).
* The job id of the minute (`queues.ts:82`) swallows the second refresh of a minute, so
  that revocation is published with the next refresh, at 00:10 at the latest, which is
  what `RevocationShowsInTheEnd` holds by (`EnqueuePublishStatusList`, `DailyRefresh`).
* A signing job that could not be enqueued after the commit, or that has used up its
  attempts, has no other way into the queue: "re-enqueue via ops" (credential
  routes:105-107) is not possible, since the ops routes know two other queues only.
  `SigningComesToAnEnd` is therefore about jobs that did get there, and FAILED is one of
  their ends. "dead-letter stays visible in the ops console" (`shared/queues.ts:47`) is not
  so for that queue, nor for anchors.
* A damaged document or list can make the verifier throw (`ResolveDidDocument`,
  `FetchStatusList`), although "Results are exactly VALID / REVOKED / NOT_VALID /
  INDETERMINATE" (`verify.ts:12`).
* One code verified twice at a time opens two sessions (`OpenSession`), one row of an import
  can say FAILED of a submitted credential (`MarkFailed`), and a failed login that read the
  count before others did can lift the lock that they set (`CountFailure`).

## 4. Proofs

Proved for all values of the constants, from the named assumptions of the modules.

**IssuanceProofs** (`RolesAssumption`, `NullAssumption`). `RevocationIsDecided`,
`SupersessionIsLinked` and `CaseFollowsReplacement` are not inductive as they stand: that
a completed revocation has a second person, for instance, depends on what an open case may
look like. The invariant is `IndInv`: the shape of a credential row in each status
(`RowOK`: which of the stamps are there, that submitter and approver differ, that hash,
snapshot and claims agree), the shape of a case in each status (`CaseOK`), and the three
relations between the tables. There is one lemma per action. That successors form no cycle
is proved from it together with the shape of the step that adds an edge: the successor it
points at has only just been issued and has no successor of its own. `IssuedImmutable`
follows step by step from the same invariant.

`WorkflowImplementsPublicRecord`: `Spec => Public!Spec`. Initial tables map to the empty
record; an approval of a submitted request maps to `Issue` with the original as the
replaced entry, or with none; the approval of a revocation to `Revoke`; every other step
to a stutter, because it changes only rows without a hash. `IndInv` supplies that
submitter and approver differ and that a linked original that is superseded was in force.

**WorkflowProofs** (`LocksAssumption`). The invariant behind both properties of
`RowLocks` is that no two running transactions hold locks that conflict (`Exclusion`),
with which locks a handler takes and in what order (`Plans`). What a transaction writes
at its end it has locked against everybody, so nobody's reads go stale
(`ReadsStayCurrent`), and what was read has passed the checks behind its lock
(`ReadsAccepted`). `LocksImplementSerial`: `LocksSpec => Serial!Spec`, where a commit
maps to the one decision that its handler is about, because its reads are what the rows
hold at that step and are what that decision asks for, and taking a lock, giving up and
being rolled back map to a stutter. On a cycle, of any length, each one waits for the
original or for the audit lock, since whoever else is wanted is wanted by nobody on it
(`Places`, `LinkedCaseIsFree`); a handler that wants the original with a lock in hand
that others wait for has the audit lock, and there is one such; so every other waits for
that lock, and the cycle is of two, of which one issues a replacement.

**AuditChainProofs** (`MaxSeqAssumption`, `BatchAssumption`, `NoTxNull`). The
invariant adds to the types that the table is finite and that (`AppendInv`) uncommitted
rows and the last row a session has read are only those of the holder of the lock, whose
rows link on to the committed chain and lie behind it, and that (`VerifierInv`) what the
verifier has checked is a prefix of the chain, closed downwards, that ends at the hash it
remembers and (`CountInv`) has as many rows as it has counted. From it: one chain, commits
at the end only, no false alarm; and a batch that is not full takes all that is left, so
that a verification which ends well has seen what was there when it began.

**AnchoringProofs** (`DaysAssumption`, `TxAssumption`, `NoNull`, `NoRowNull`,
`AttemptsAssumption`). No bound of the runs is left: any number of days, transactions,
workers, attempts, crashes, and roots of others.
The invariant says that every transaction ever sent for a day carries the leaves of that
day's batch, which are frozen (`TransactionsCarryBatches`), so that it does not matter
which of them is mined; that a run which confirms has the batch's root on the chain
(`RunsFollowBatches`); and that a credential names the batch that holds its one leaf
(`MembersHaveLeaves`). `StatusNeverFallsBack` needs of it that there is one run at a time,
and that a run which has yet to write SUBMITTED began while the day had no root, when
nobody of its batch could be CONFIRMED. `AnchoringImplementsLedger`: `Spec => Ledger!Spec`.
Assembling a batch that has no row yet maps to `Close`, the first transaction of a day that
is mined and a root from elsewhere to `Write`, the second write of `markConfirmed` to
`Confirm`, and all the rest, a crash, a retry or an error among them, to a stutter.

**JobsProofs** (`SlotAssumption`, `NoSlotNull`, `ArtifactsAssumption`,
`AttemptsAssumption`). `NoFalseRevocation`
becomes inductive with: a runner that signs has its diploma to itself (`RunnersAreAlone`);
a slot drawn from the counter is that of one row or of the one runner that will store it
(`SlotsAreOwn`); every index that is on the list, or that a publication under way has read,
is the slot of a diploma that is revoked for good (`MarksAreRevoked`). The artifacts rest
on the order of the writes: at each point of a run object, row and notice are there as far
as the run has come (`InOrder`), and nothing takes them back. That the row has the checksum
of the object needs that the stable job has been the only one (`Alone`). Mails are counted
against attempts (`MailsAreCounted`): a notice of which none has failed has sent at most
one mail, and none before its present run did, so that a second mail has seen a failure.

**AccountsProofs** (`StaffAssumption`, `PortalAssumption`). An account is the seeded one or
is what an ACCEPTED invitation says (`AccountsAreInvited`); two acceptances of one
invitation are two of one address, and the index refuses the second. Who acts had the right
when it was looked up, and no step changes it (`ActsAreAllowed`). In the portal, what a
request holds was in the tables when it was read, and a code that it takes for right has
been mailed (`RequestsAreBacked`); rows only ever go from live to spent, and a diploma
leaves a status that holders see for another such status only, so that nothing which
happens between the reads and the write makes a share or a view of something else.

**ServicesProofs** (`ImportAssumption`). Two submissions of one import hold two copies of
the pending rows. `SubmittedAndClosedAreTrue` becomes inductive with: a submission holds
every row that is still pending, and no faulty one (`TodoIsOpen`), so that none is left
when it closes the batch; the draft in its hand is of the row at hand and in nobody
else's hand (`DraftsInHand`), so that the mark names a credential of that row, although
the other submission may mark the same row with another. What it claims, it claims of
PENDING, ERROR and SUBMITTED rows; of FAILED rows nothing is proved, since nothing holds.

**InquiriesProofs** (`RegisterAssumption`, `NumberAssumption`, `VerifierAssumption`,
`NothingIsNoRow` and those of `Issuance`). Validations write no column of the workflow:
`SourceSpec => Spec`, by which every theorem of `IssuanceProofs` holds beside them. That
outcomes have evidence, and evidence tells what the register holds under the number that it
names, is inductive with the types of the columns.

`MerkleProofsVerify` is about the operators: for every size of a batch and every leaf the
proof leads to the root. The loops are functions on `0 .. n`; the induction over the rounds
is by the least counterexample (`CountUp`), of a set and not of a predicate. Each round
leaves the node above the leaf at its index, with the proof so far hashing to it
(`PathHashes`), and halves the level, rounded up, so that one node is left after `n`.

For the verifier the invariant has three parts: each document that somebody may hold
lists the keys with which the worker signs or has signed, unless they are revoked
(`KeysAreResolvable`); a list that marks the diploma is of a revoked one
(`ListsTellTheTruth`); and what a verification has established by each of its stages
(`ChecksRemember`): if all was settled when it began, then what circulates says so still,
until it has got past the list without an answer. With `MerkleProofsVerify` the anchor
check of an undamaged bundle cannot fail in a batch of any size, which is where
`VerdictsHaveGrounds` gets rid of `MaxBatch`.

**Together.** A behaviour of `MCWorkflow`, `MCInquiries`, `MCServices` or `MCJobs` is one of
each of its components (`BothViews`, `EachInquiry`, `EachService`, `EachJob`), which is what
lets the theorems about the components speak of these runs. The safety properties of
`progress` are the theorems of `AuditChainProofs`, about its audit chain.

**Model-checked only.** The five liveness properties (`EveryAppendEnds`,
`ConfirmedOrGivenUp`, `NobodyLeftBehind`, `RevocationShowsInTheEnd`,
`SigningComesToAnEnd`): the proof system does not reach fairness and ENABLED here. Every
other property of a passing run is a theorem. `InOneBatch` is a theorem and in no run of
its own: the run asks for `LedgerKept`, whose `Close` takes no credential that is in a
batch.

## 5. Not modelled

* A second worker process, and BullMQ's redelivery of a job whose worker stalls and lives:
  two runs of one job at the same moment. What the concurrency of 1 of the anchors queue
  is for would be lost.
* A code that is consumed twice, a stale failure that lifts a lock, a false FAILED mark:
  the models do these as the code does, and no property speaks of them.
* The issue-retry route (credential routes:531-547) needs a committed row in APPROVED,
  which no transaction leaves behind.
* The people of `Issuance` are constants with roles; that such rights come from accounts
  and invitations is `StaffAuth`, and the two are not composed: the only link is the
  answer of `CanActOnInstitution`.
* How long PostgreSQL lets a cycle of transactions wait. The one that it rolls back ends
  with an error, and whether somebody repeats the request is up to people.
* The second factor of a login, except that it can end one. No action suspends or
  deactivates an account, since no route does.
* Formatting, pages, PDF layout, mail contents, deployment: no state of interest.
* Hashes, signatures and canonical JSON are injective functions; a signature is by a key.
* The verification log, `POST .../bundle` and the anchor view: reads only; the check of a
  bundle on the server is that of the open verifier.

## 6. Plan

The models cover the workflow, its public face, the audit chain, the jobs, the portal,
staff, imports and the verifier. Modules that share no state share a run where the sum of
their states is small, so that the number of runs follows the questions.

Done, in the order of importance to somebody who relies on a diploma:

1. `CredentialStatus`, `Issuance`: the workflow, its lemmas and theorems.
2. `PublicRecord`, `PublicVerification`: abstract specification and refinement.
3. `SourceValidation`: the workflow beside validations.
4. `AuditChain`, with theorems.
5. `Anchoring`.
6. `StatusList`.
7. Theorems: types, separation of duties, lineage, refinement, the chain.
8. `HolderPortal`, `StaffAuth`, `Artifacts`, `ImportBatch`.
9. `Merkle`, `KeyHistory`, `OpenVerifier`.
10. Theorems for `Anchoring`, `StatusList`, `SourceValidation`, `StaffAuth` and `Artifacts`.
11. `RowLocks`: the transactions of the workflow lock by lock.
12. Theorems for the locks, the portal, imports, Merkle proofs and the verifier.
13. `AnchorLedger`: the abstract specification of anchoring, and its refinement.
14. `SerialWorkflow`: what the locks are for, and the refinement.
15. `JobQueue`: attempts that run out, in anchoring, signing and artifacts; sources that
    answer the verifier with what is damaged or no answer.

Next:

16. Further abstract specifications: the audit log as a log to which transactions append
    at once, the portal's codes and shares as capabilities that are used up.
