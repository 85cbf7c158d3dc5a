------------------------------- MODULE RowLocks --------------------------------
(***************************************************************************)
(* The workflow's transactions, lock by lock.                              *)
(*                                                                         *)
(* Issuance takes each handler for one step, and AuditChain knows of no    *)
(* rows.  Here a handler is the sequence of the locks it takes: rows with  *)
(* SELECT ... FOR UPDATE, rows by an UPDATE, the row that a foreign key    *)
(* names when a row is inserted, and the advisory lock of the audit chain. *)
(* All of them are held until the transaction ends, with the lock modes of *)
(* PostgreSQL, which reads a row anew once it has its lock and rolls one   *)
(* of a cycle of waiting transactions back.                                *)
(*                                                                         *)
(* The rows are those that such transactions can meet on: an issued        *)
(* diploma, replacements of it that wait for approval under their approved *)
(* cases, and further cases that are open.  What a transaction inserts is  *)
(* its own until it commits, and is left out.                              *)
(***************************************************************************)
EXTENDS CredentialStatus, Integers, Sequences

CONSTANTS
  Request,
  Original,      \* an issued diploma
  Replacement,   \* drafts submitted to take its place
  Revocation,    \* open cases to revoke it
  Correction,    \* open cases to correct it
  LinkedCase,    \* the approved case of each replacement
  Nothing

DecidableCase == Revocation \cup Correction \cup {LinkedCase[r] : r \in Replacement}
LockedRow == {Original} \cup Replacement \cup DecidableCase
Status == CredentialLifecycle \cup LifecycleCaseStatus

VARIABLES
  status,     \* the committed status of each row
  requests    \* handler, the lock it takes next, and the statuses it has read

locksVars == <<status, requests>>

-------------------------------------------------------------------------------
(* Locks.                                                                  *)

\* SELECT ... FOR UPDATE.
ForUpdate(row) == [on |-> row, mode |-> "UPDATE"]

\* An UPDATE that leaves keys alone.
ForNoKeyUpdate(row) == [on |-> row, mode |-> "NO_KEY_UPDATE"]

\* The check of a foreign key.
ForKeyShare(row) == [on |-> row, mode |-> "KEY_SHARE"]

\* pg_advisory_xact_lock: appendAuditEvent waits for it.
AuditLock == [on |-> "AUDIT_CHAIN", mode |-> "UPDATE"]

Conflicting ==
  {{"UPDATE"}, {"UPDATE", "NO_KEY_UPDATE"}, {"UPDATE", "KEY_SHARE"}, {"NO_KEY_UPDATE"}}

Conflict(a, b) == a.on = b.on /\ {a.mode, b.mode} \in Conflicting

-------------------------------------------------------------------------------
(* Handlers: the locks of each, in order.                                  *)

\* Mutant: the original is read as the linked cases are, without a lock.
ApproveLocks_OriginalUnlocked(r) ==
  <<ForUpdate(r), AuditLock, [on |-> Original, mode |-> "NONE"],
    ForNoKeyUpdate(LinkedCase[r])>>

\* approveCredential and issueWithinTransaction of a replacement.
ApproveLocks(r) ==
  <<ForUpdate(r), AuditLock, ForUpdate(Original), ForNoKeyUpdate(LinkedCase[r])>>

\* returnCredential and rejectCredential, and an approval by the submitter.
ReviewLocks(r) == <<ForUpdate(r), AuditLock>>

\* Mutant: the event of the decision comes first.
DecideLocks_AuditFirst(k) == <<ForUpdate(k), AuditLock, ForUpdate(Original)>>

\* The approval of a case, of either kind.
DecideLocks(k) == <<ForUpdate(k), ForUpdate(Original), AuditLock>>

\* The rejection of a case, and a decision by its requester.
RefuseLocks(k) == <<ForUpdate(k), AuditLock>>

\* A new case names the diploma; a share of it and the event of a notice do too.
OpenCaseLocks == <<ForKeyShare(Original), AuditLock>>

\* The outcome of a source validation, on whatever the row is by now, or the PDF.
ValidationLocks(c) == <<ForNoKeyUpdate(c), AuditLock>>

\* RETURN is the rejection of a request too, VALIDATE the record of a PDF, OPEN_CASE
\* a share and a notice: they take the same locks.
Handler ==
  [kind : {"APPROVE", "RETURN", "SELF_APPROVE"}, on : Replacement]
    \cup [kind : {"DECIDE", "REJECT", "SELF_DECIDE"}, on : DecidableCase]
    \cup [kind : {"OPEN_CASE"}, on : {Original}]
    \cup [kind : {"VALIDATE"}, on : {Original} \cup Replacement]

ASSUME LocksAssumption ==
  /\ DOMAIN LinkedCase = Replacement
  /\ \A r, s \in Replacement : LinkedCase[r] = LinkedCase[s] => r = s
  /\ \A r \in Replacement : LinkedCase[r] \notin Revocation \cup Correction
  /\ Revocation \cap Correction = {}
  /\ Original \notin Replacement
  /\ ({Original} \cup Replacement) \cap DecidableCase = {}
  /\ "AUDIT_CHAIN" \notin LockedRow   \* what AuditLock is on
  /\ Nothing \notin Status \cup Handler

Locks(h) ==
  CASE h.kind = "APPROVE"                   -> ApproveLocks(h.on)
    [] h.kind \in {"RETURN", "SELF_APPROVE"} -> ReviewLocks(h.on)
    [] h.kind = "DECIDE"                    -> DecideLocks(h.on)
    [] h.kind \in {"REJECT", "SELF_DECIDE"}  -> RefuseLocks(h.on)
    [] h.kind = "OPEN_CASE"                 -> OpenCaseLocks
    [] h.kind = "VALIDATE"                  -> ValidationLocks(h.on)

\* The checks behind a lock: a transition that the table does not have, or a case
\* that is not open, ends the handler.
Accepts(h, row, s) ==
  /\ h.kind \in {"APPROVE", "RETURN"} /\ row = h.on => s = "PENDING_APPROVAL"
  /\ row = h.on /\ row \in DecidableCase => s = "OPEN"
  /\ h.kind = "DECIDE" /\ h.on \in Revocation /\ row = Original =>
       CanTransition(s, "REVOCATION_PENDING")

\* What the handler leaves behind, by what it has read.  A denied decision throws
\* behind its audit event, which is rolled back with it.
Outcome(h, row, seen) ==
  CASE h.kind = "APPROVE" /\ row = h.on -> "ISSUED"
    [] h.kind = "APPROVE" /\ row = Original /\ seen[row] = "ISSUED" -> "SUPERSEDED"
    [] h.kind = "APPROVE" /\ row = LinkedCase[h.on] -> "COMPLETED"
    [] h.kind = "RETURN" /\ row = h.on -> "RETURNED"
    [] h.kind = "DECIDE" /\ h.on \in Revocation /\ row = h.on -> "COMPLETED"
    [] h.kind = "DECIDE" /\ h.on \in Revocation /\ row = Original -> "REVOKED"
    [] h.kind = "DECIDE" /\ h.on \in Correction /\ row = h.on -> "APPROVED"
    [] h.kind = "REJECT" /\ row = h.on -> "REJECTED"
    [] OTHER -> status[row]

-------------------------------------------------------------------------------
(* Transactions.                                                           *)

Unread == [row \in LockedRow |-> Nothing]
Waiting == [handler |-> Nothing, next |-> 0]
Over == [handler |-> Nothing, next |-> 1]

LocksTypeOK ==
  /\ status \in [LockedRow -> Status]
  /\ requests \in [Request ->
       [handler : Handler, next : 1 .. 5, seen : [LockedRow -> Status \cup {Nothing}]]
         \cup {Waiting, Over}]

LocksInit ==
  /\ status = [row \in LockedRow |->
       IF row = Original THEN "ISSUED"
       ELSE IF row \in Replacement THEN "PENDING_APPROVAL"
       ELSE IF row \in Revocation \cup Correction THEN "OPEN" ELSE "APPROVED"]
  /\ requests = [q \in Request |-> Waiting]

Running(q) == requests[q].handler # Nothing
Plan(q) == Locks(requests[q].handler)
Complete(q) == requests[q].next > Len(Plan(q))
Wanted(q) == Plan(q)[requests[q].next]
Held(q) == {Plan(q)[i] : i \in 1 .. requests[q].next - 1}

Blocks(p, q) ==
  /\ p # q /\ Running(p) /\ Running(q) /\ ~Complete(q)
  /\ \E lock \in Held(p) : Conflict(lock, Wanted(q))

\* Each of some requests, q among them, waits for one of them and blocks one.
OnCycle(q) ==
  \E ring \in SUBSET Request : \E waiter \in [ring -> ring] :
    /\ q \in ring
    /\ \A p \in ring : Blocks(p, waiter[p]) /\ \E r \in ring : waiter[r] = p

End(q) == requests' = [requests EXCEPT ![q] = Over]

Grant(q, read) ==
  requests' = [requests EXCEPT ![q] =
    [handler |-> requests[q].handler, next |-> requests[q].next + 1, seen |-> read]]

Begin(q, h) ==
  /\ requests[q] = Waiting
  /\ requests' = [requests EXCEPT ![q] = [handler |-> h, next |-> 1, seen |-> Unread]]
  /\ UNCHANGED status

\* The next lock is granted; a row is read with it.
Acquire(q) ==
  LET h == requests[q].handler
      row == Wanted(q).on IN
  /\ Running(q) /\ ~Complete(q)
  /\ \A p \in Request : ~Blocks(p, q)
  /\ IF row \in LockedRow
       THEN IF Accepts(h, row, status[row])
              THEN Grant(q, [requests[q].seen EXCEPT ![row] = status[row]])
              ELSE End(q)
       ELSE Grant(q, requests[q].seen)
  /\ UNCHANGED status

Finish(q) ==
  /\ Running(q) /\ Complete(q)
  /\ status' = [row \in LockedRow |-> Outcome(requests[q].handler, row, requests[q].seen)]
  /\ End(q)

\* PostgreSQL finds the cycle and rolls back one of its transactions.
BreakDeadlock(q) ==
  /\ OnCycle(q)
  /\ End(q)
  /\ UNCHANGED status

LocksNext ==
  \E q \in Request :
    \/ \E h \in Handler : Begin(q, h)
    \/ Acquire(q)
    \/ Finish(q)
    \/ BreakDeadlock(q)

LocksSpec == LocksInit /\ [][LocksNext]_locksVars

-------------------------------------------------------------------------------
(* Properties.                                                             *)

IssuesReplacement(q) ==
  requests[q].handler.kind = "APPROVE" /\ Wanted(q) = ForUpdate(Original)

\* A deadlock is between two transactions: one that issues a replacement, has the
\* audit lock and wants the original (service.ts:212), and one that came for the
\* original first.  Decisions on cases, reviews, validations, PDFs, notices, shares
\* and new cases never deadlock among themselves.
DeadlocksNeedAReplacement ==
  \A q \in Request : OnCycle(q) =>
    \E p \in Request :
      /\ Blocks(p, q) /\ Blocks(q, p)
      /\ IssuesReplacement(p) \/ IssuesReplacement(q)

Serial == INSTANCE SerialWorkflow

\* "Row lock so concurrent workflow actions serialize per credential"
\* (service.ts:34): whatever the interleaving, the deadlocks and the roll-backs, the
\* rows go through a history that the handlers could have had one at a time.  A
\* revocation and an issued replacement never both take the original, and nothing is
\* decided twice or by half.
SerialKept == Serial!Spec
===============================================================================
