----------------------------- MODULE WorkflowProofs -----------------------------
(***************************************************************************)
(* Theorems about the locks of the workflow's transactions, for any number *)
(* of requests, replacements and cases, and about the two views of the     *)
(* workflow together.                                                      *)
(*                                                                         *)
(* Mutual exclusion is the invariant behind both properties of RowLocks:   *)
(* no two running transactions hold locks that conflict.  What a           *)
(* transaction writes it has locked against everybody, so nobody's reads   *)
(* go stale, and a commit does what its handler would do alone; and two    *)
(* transactions cannot both have the audit lock, so a ring of waiting      *)
(* transactions has the one that has it, and the others wait for it.       *)
(***************************************************************************)
EXTENDS MCWorkflow, IssuanceProofs

-------------------------------------------------------------------------------
(* The inductive invariant.                                                *)

\* What a transaction has read under a lock is what is in the table, a row that a
\* foreign key names included.
ReadsStayCurrent ==
  \A q \in Request : Running(q) =>
    \A lock \in Held(q) :
      lock.on \in LockedRow => requests[q].seen[lock.on] = status[lock.on]

\* A transaction takes the locks of its handler and no more.
WithinPlan == \A q \in Request : Running(q) => requests[q].next <= Len(Plan(q)) + 1

\* No two transactions hold locks that conflict.
Exclusion ==
  \A p, q \in Request : p # q /\ Running(p) /\ Running(q) =>
    \A a \in Held(p), b \in Held(q) : ~Conflict(a, b)

\* The case of a replacement is approved, so that no decision finds it open.
LinkedCasesSettled ==
  \A r \in Replacement : status[LinkedCase[r]] \in {"APPROVED", "COMPLETED"}

\* A decision that is past its first lock is about a case that was open.
OpenCasesDecided ==
  \A q \in Request :
    Running(q) /\ requests[q].handler.kind \in {"DECIDE", "REJECT", "SELF_DECIDE"}
        /\ requests[q].next > 1
      => requests[q].handler.on \in Revocation \cup Correction

LocksInv ==
  /\ LocksTypeOK /\ WithinPlan /\ Exclusion
  /\ LinkedCasesSettled /\ OpenCasesDecided /\ ReadsStayCurrent

-------------------------------------------------------------------------------
(* What the handlers lock.                                                 *)

\* What each handler locks, in order.
LEMMA Plans ==
  ASSUME NEW h \in Handler
  PROVE
    \/ /\ h.kind = "APPROVE" /\ h.on \in Replacement
       /\ Locks(h) = <<ForUpdate(h.on), AuditLock, ForUpdate(Original),
                       ForNoKeyUpdate(LinkedCase[h.on])>>
    \/ /\ h.kind \in {"RETURN", "SELF_APPROVE"} /\ h.on \in Replacement
       /\ Locks(h) = <<ForUpdate(h.on), AuditLock>>
    \/ /\ h.kind = "DECIDE" /\ h.on \in DecidableCase
       /\ Locks(h) = <<ForUpdate(h.on), ForUpdate(Original), AuditLock>>
    \/ /\ h.kind \in {"REJECT", "SELF_DECIDE"} /\ h.on \in DecidableCase
       /\ Locks(h) = <<ForUpdate(h.on), AuditLock>>
    \/ /\ h.kind = "OPEN_CASE" /\ h.on = Original
       /\ Locks(h) = <<ForKeyShare(Original), AuditLock>>
    \/ /\ h.kind = "VALIDATE" /\ h.on \in {Original} \cup Replacement
       /\ Locks(h) = <<ForNoKeyUpdate(h.on), AuditLock>>
<1> DEFINE k == h.kind
<1>1. CASE h.kind = "APPROVE"
  BY <1>1 DEF Handler, Locks, ApproveLocks
<1>2. CASE h.kind \in {"RETURN", "SELF_APPROVE"}
  BY <1>2 DEF Handler, Locks, ReviewLocks
<1>3. CASE h.kind = "DECIDE"
  BY <1>3 DEF Handler, Locks, DecideLocks
<1>4. CASE h.kind \in {"REJECT", "SELF_DECIDE"}
  BY <1>4 DEF Handler, Locks, RefuseLocks
<1>5. CASE h.kind = "OPEN_CASE"
  BY <1>5 DEF Handler, Locks, OpenCaseLocks
<1>6. CASE h.kind = "VALIDATE"
  BY <1>6 DEF Handler, Locks, ValidationLocks
<1>7. h.kind \in {"APPROVE", "RETURN", "SELF_APPROVE", "DECIDE", "REJECT", "SELF_DECIDE",
                  "OPEN_CASE", "VALIDATE"}
  BY DEF Handler
<1> QED
  BY <1>1, <1>2, <1>3, <1>4, <1>5, <1>6, <1>7

Lock ==
  [on : LockedRow \cup {"AUDIT_CHAIN"}, mode : {"UPDATE", "NO_KEY_UPDATE", "KEY_SHARE"}]

\* A plan is a short list of locks, KEY_SHARE only on the original.
LEMMA PlansAreLocks ==
  ASSUME NEW h \in Handler
  PROVE  /\ Locks(h) \in Seq(Lock)
         /\ Len(Locks(h)) \in 2 .. 4
         /\ \A i \in 1 .. Len(Locks(h)) :
              /\ Locks(h)[i] \in Lock
              /\ Locks(h)[i].mode = "KEY_SHARE" => Locks(h)[i].on = Original
              /\ Locks(h)[i].on = "AUDIT_CHAIN" => Locks(h)[i].mode = "UPDATE"
<1>1. /\ h.on \in LockedRow
      /\ Original \in LockedRow
      /\ h.on \in Replacement => LinkedCase[h.on] \in LockedRow
  BY DEF Handler, LockedRow, DecidableCase
<1> DEFINE Good(s) ==
      /\ s \in Seq(Lock)
      /\ Len(s) \in 2 .. 4
      /\ \A i \in 1 .. Len(s) :
           /\ s[i] \in Lock
           /\ s[i].mode = "KEY_SHARE" => s[i].on = Original
           /\ s[i].on = "AUDIT_CHAIN" => s[i].mode = "UPDATE"
<1>2. /\ AuditLock \in Lock
      /\ AuditLock.mode = "UPDATE"
      /\ \A row \in LockedRow :
           /\ ForUpdate(row) \in Lock /\ ForUpdate(row).on = row
           /\ ForUpdate(row).mode = "UPDATE"
           /\ ForNoKeyUpdate(row) \in Lock /\ ForNoKeyUpdate(row).on = row
           /\ ForNoKeyUpdate(row).mode = "NO_KEY_UPDATE"
           /\ ForKeyShare(row) \in Lock /\ ForKeyShare(row).on = row
           /\ ForKeyShare(row).mode = "KEY_SHARE"
  BY DEF Lock, ForUpdate, ForNoKeyUpdate, ForKeyShare, AuditLock
<1>3. "AUDIT_CHAIN" \notin LockedRow
  BY LocksAssumption
<1>4. ASSUME h.kind = "APPROVE" PROVE Good(Locks(h))
  <2>1. h.on \in Replacement
        /\ Locks(h) = <<ForUpdate(h.on), AuditLock, ForUpdate(Original),
                        ForNoKeyUpdate(LinkedCase[h.on])>>
    BY <1>4, Plans
  <2> QED BY <1>1, <1>2, <1>3, <2>1
<1>5. ASSUME h.kind \in {"RETURN", "SELF_APPROVE", "REJECT", "SELF_DECIDE"}
      PROVE Good(Locks(h))
  <2>1. Locks(h) = <<ForUpdate(h.on), AuditLock>>
    BY <1>5, Plans
  <2> QED BY <1>1, <1>2, <1>3, <2>1
<1>6. ASSUME h.kind = "DECIDE" PROVE Good(Locks(h))
  <2>1. Locks(h) = <<ForUpdate(h.on), ForUpdate(Original), AuditLock>>
    BY <1>6, Plans
  <2> QED BY <1>1, <1>2, <1>3, <2>1
<1>7. ASSUME h.kind = "OPEN_CASE" PROVE Good(Locks(h))
  <2>1. Locks(h) = <<ForKeyShare(Original), AuditLock>>
    BY <1>7, Plans
  <2> QED BY <1>1, <1>2, <1>3, <2>1
<1>8. ASSUME h.kind = "VALIDATE" PROVE Good(Locks(h))
  <2>1. Locks(h) = <<ForNoKeyUpdate(h.on), AuditLock>>
    BY <1>8, Plans
  <2> QED BY <1>1, <1>2, <1>3, <2>1
<1>9. Good(Locks(h))
  BY <1>4, <1>5, <1>6, <1>7, <1>8, Plans
<1> QED
  BY <1>9

\* Two locks on one thing conflict unless one is a foreign key's and the other not
\* an exclusive one.
LEMMA Conflicts ==
  ASSUME NEW a \in Lock, NEW b \in Lock
  PROVE  Conflict(a, b) <=>
           a.on = b.on /\ \/ a.mode = "UPDATE" \/ b.mode = "UPDATE"
                          \/ a.mode = "NO_KEY_UPDATE" /\ b.mode = "NO_KEY_UPDATE"
<1>1. /\ a.mode \in {"UPDATE", "NO_KEY_UPDATE", "KEY_SHARE"}
      /\ b.mode \in {"UPDATE", "NO_KEY_UPDATE", "KEY_SHARE"}
  BY DEF Lock
<1>2. a.mode = "UPDATE" \/ b.mode = "UPDATE" => {a.mode, b.mode} \in Conflicting
  BY <1>1 DEF Conflicting
<1>3. a.mode = "NO_KEY_UPDATE" /\ b.mode = "NO_KEY_UPDATE" =>
        {a.mode, b.mode} \in Conflicting
  BY DEF Conflicting
<1>4. {a.mode, b.mode} \in Conflicting =>
         \/ a.mode = "UPDATE" \/ b.mode = "UPDATE"
         \/ a.mode = "NO_KEY_UPDATE" /\ b.mode = "NO_KEY_UPDATE"
  BY <1>1 DEF Conflicting
<1> QED
  BY <1>2, <1>3, <1>4 DEF Conflict

\* What a transaction writes, it has locked against everybody.
LEMMA WritesAreLocked ==
  ASSUME NEW h \in Handler, NEW row \in LockedRow, NEW seen,
         Outcome(h, row, seen) # status[row]
  PROVE  /\ Outcome(h, row, seen) \in Status
         /\ \E i \in 1 .. Len(Locks(h)) :
              /\ Locks(h)[i].on = row
              /\ \/ Locks(h)[i].mode = "UPDATE"
                 \/ Locks(h)[i].mode = "NO_KEY_UPDATE" /\ row # Original
<1>1. Outcome(h, row, seen) \in Status
  BY DEF Outcome, Status, CredentialLifecycle, LifecycleCaseStatus
<1>2. CASE h.kind = "APPROVE"
  <2>1. /\ h.on \in Replacement
        /\ Locks(h) = <<ForUpdate(h.on), AuditLock, ForUpdate(Original),
                        ForNoKeyUpdate(LinkedCase[h.on])>>
    BY <1>2, Plans
  <2>2. row \in {h.on, Original, LinkedCase[h.on]}
    BY <1>2 DEF Outcome
  <2>3. LinkedCase[h.on] # Original
    BY <2>1, LocksAssumption DEF DecidableCase
  <2>4. CASE row = h.on
    <3>1. 1 \in 1 .. Len(Locks(h)) /\ Locks(h)[1] = ForUpdate(row)
      BY <2>1, <2>4
    <3> QED BY <1>1, <3>1 DEF ForUpdate
  <2>5. CASE row = Original
    <3>1. 3 \in 1 .. Len(Locks(h)) /\ Locks(h)[3] = ForUpdate(row)
      BY <2>1, <2>5
    <3> QED BY <1>1, <3>1 DEF ForUpdate
  <2>6. CASE row = LinkedCase[h.on]
    <3>1. 4 \in 1 .. Len(Locks(h)) /\ Locks(h)[4] = ForNoKeyUpdate(row)
      BY <2>1, <2>6
    <3> QED BY <1>1, <2>3, <2>6, <3>1 DEF ForNoKeyUpdate
  <2> QED
    BY <2>2, <2>4, <2>5, <2>6
<1>3. CASE h.kind # "APPROVE"
  <2>1. \/ row = h.on /\ (h.kind = "RETURN" \/ h.kind = "DECIDE" \/ h.kind = "REJECT")
        \/ row = Original /\ h.kind = "DECIDE"
    BY <1>3, Zenon DEF Outcome
  <2>2. CASE row = h.on /\ h.kind \in {"RETURN", "DECIDE", "REJECT"}
    <3>1. CASE h.kind = "DECIDE"
      <4>1. Locks(h) = <<ForUpdate(h.on), ForUpdate(Original), AuditLock>>
        BY <3>1, Plans
      <4> QED BY <1>1, <2>2, <4>1 DEF ForUpdate
    <3>2. CASE h.kind = "RETURN" \/ h.kind = "REJECT"
      <4>1. Locks(h) = <<ForUpdate(h.on), AuditLock>>
        BY <3>2, Plans
      <4> QED BY <1>1, <2>2, <4>1 DEF ForUpdate
    <3> QED BY <2>2, <3>1, <3>2
  <2>3. CASE row = Original /\ h.kind = "DECIDE"
    <3>1. 2 \in 1 .. Len(Locks(h)) /\ Locks(h)[2] = ForUpdate(row)
      BY <2>3, Plans
    <3> QED BY <1>1, <3>1 DEF ForUpdate
  <2> QED
    BY <2>1, <2>2, <2>3
<1> QED
  BY <1>2, <1>3

Transaction ==
  [handler : Handler, next : 1 .. 5, seen : [LockedRow -> Status \cup {Nothing}]]

LEMMA RunningRequest ==
  ASSUME LocksTypeOK, NEW q \in Request, Running(q)
  PROVE  requests[q] \in Transaction
BY LocksAssumption DEF LocksTypeOK, Running, Waiting, Over, Transaction

LEMMA NotRunning == ~(Waiting.handler # Nothing) /\ ~(Over.handler # Nothing)
BY DEF Waiting, Over

LEMMA InitLocksInv == LocksInit => LocksInv
<1> SUFFICES ASSUME LocksInit PROVE LocksInv
  OBVIOUS
<1>1. \A q \in Request : requests[q] = Waiting /\ ~Running(q)
  BY NotRunning DEF LocksInit, Running
<1>2. status \in [LockedRow -> Status]
  BY DEF LocksInit, Status, CredentialLifecycle, LifecycleCaseStatus
<1>3. LocksTypeOK
  BY <1>1, <1>2 DEF LocksTypeOK, LocksInit
<1>4. LinkedCasesSettled
  <2> SUFFICES ASSUME NEW r \in Replacement PROVE status[LinkedCase[r]] = "APPROVED"
    BY DEF LinkedCasesSettled
  <2>1. LinkedCase[r] \in DecidableCase \ (Revocation \cup Correction)
    BY LocksAssumption DEF DecidableCase
  <2>2. LinkedCase[r] \in LockedRow /\ LinkedCase[r] \notin {Original} \cup Replacement
    BY <2>1, LocksAssumption DEF LockedRow
  <2> QED
    BY <2>1, <2>2 DEF LocksInit
<1> QED
  BY <1>1, <1>3, <1>4 DEF LocksInv, WithinPlan, Exclusion, OpenCasesDecided, ReadsStayCurrent

\* A new transaction holds nothing.
LEMMA BeginStep ==
  ASSUME LocksInv, NEW q \in Request, NEW h \in Handler, Begin(q, h)
  PROVE  LocksInv'
<1> USE DEF LocksInv
<1>1. requests'[q] = [handler |-> h, next |-> 1, seen |-> Unread]
  BY DEF Begin, LocksTypeOK
<1>2. \A p \in Request \ {q} : requests'[p] = requests[p]
  BY DEF Begin, LocksTypeOK
<1>3. status' = status
  BY DEF Begin
<1>4. LocksTypeOK'
  <2>1. Unread \in [LockedRow -> Status \cup {Nothing}]
    BY DEF Unread
  <2> QED
    BY <1>3, <2>1 DEF LocksTypeOK, Begin
<1>5. \A p \in Request \ {q} :
        /\ Running(p)' = Running(p) /\ Plan(p)' = Plan(p)
        /\ Held(p)' = Held(p)
  BY <1>2 DEF Running, Plan, Held
<1>6. Held(q)' = {}
  BY <1>1 DEF Held
<1>7. WithinPlan'
  <2>1. Len(Plan(q)') + 1 >= 1
    BY <1>1, PlansAreLocks DEF Plan
  <2> QED
    BY <1>1, <1>2, <1>5, <2>1 DEF WithinPlan
<1>8. Exclusion'
  BY <1>5, <1>6 DEF Exclusion
<1>9. LinkedCasesSettled'
  BY <1>3 DEF LinkedCasesSettled
<1>10. OpenCasesDecided'
  BY <1>1, <1>2, <1>5 DEF OpenCasesDecided
<1>11. ReadsStayCurrent'
  BY <1>2, <1>3, <1>5, <1>6 DEF ReadsStayCurrent
<1> QED
  BY <1>4, <1>7, <1>8, <1>9, <1>10, <1>11

\* A transaction that ends without writing lets go of what it holds.
LEMMA EndStep ==
  ASSUME LocksInv, NEW q \in Request, End(q), UNCHANGED status
  PROVE  LocksInv'
<1> USE DEF LocksInv
<1>1. requests'[q] = Over /\ ~Running(q)'
  BY NotRunning DEF End, LocksTypeOK, Running
<1>2. \A p \in Request \ {q} :
        requests'[p] = requests[p] /\ Running(p)' = Running(p) /\ Plan(p)' = Plan(p)
          /\ Held(p)' = Held(p)
  BY DEF End, LocksTypeOK, Running, Plan, Held
<1>3. LocksTypeOK'
  BY DEF LocksTypeOK, End
<1>4. WithinPlan' /\ Exclusion' /\ OpenCasesDecided'
  BY <1>1, <1>2 DEF WithinPlan, Exclusion, OpenCasesDecided
<1>5. LinkedCasesSettled' /\ ReadsStayCurrent'
  BY <1>1, <1>2 DEF LinkedCasesSettled, ReadsStayCurrent
<1> QED
  BY <1>3, <1>4, <1>5

\* A held lock is one of the plan.
LEMMA HeldLocks ==
  ASSUME LocksInv, NEW q \in Request, Running(q)
  PROVE  /\ Held(q) \subseteq Lock
         /\ ~Complete(q) => Wanted(q) \in Lock
         /\ \A lock \in Held(q) : lock.mode = "KEY_SHARE" => lock.on = Original
<1>1. requests[q].handler \in Handler /\ requests[q].next \in 1 .. 5
  BY RunningRequest DEF LocksInv, Transaction
<1>2. requests[q].next <= Len(Plan(q)) + 1 /\ Len(Plan(q)) \in 2 .. 4
  BY <1>1, PlansAreLocks DEF LocksInv, WithinPlan, Plan
<1>3. \A i \in 1 .. requests[q].next - 1 : i \in 1 .. Len(Plan(q))
  BY <1>1, <1>2
<1>4. ~Complete(q) => requests[q].next \in 1 .. Len(Plan(q))
  BY <1>1, <1>2 DEF Complete
<1> QED
  BY <1>1, <1>3, <1>4, PlansAreLocks DEF Held, Plan, Wanted

LEMMA HeldUnchanged ==
  ASSUME NEW q, requests'[q] = requests[q] PROVE Held(q)' = Held(q)
BY DEF Held, Plan

LEMMA ConflictSymmetric ==
  ASSUME NEW a, NEW b PROVE Conflict(a, b) <=> Conflict(b, a)
<1>1. {a.mode, b.mode} = {b.mode, a.mode}
  OBVIOUS
<1> QED
  BY <1>1 DEF Conflict

\* What is granted is held.
LEMMA HeldGrows ==
  ASSUME LocksInv, NEW q \in Request, Running(q), ~Complete(q), NEW read, Grant(q, read)
  PROVE  /\ Held(q)' = Held(q) \cup {Wanted(q)}
         /\ requests'[q].handler = requests[q].handler
         /\ requests'[q].seen = read
         /\ \A p \in Request \ {q} : requests'[p] = requests[p]
<1> DEFINE n == requests[q].next
<1>1. requests[q] \in Transaction /\ n \in 1 .. 5
  BY RunningRequest DEF LocksInv, Transaction
<1>2. requests'[q] = [handler |-> requests[q].handler, next |-> n + 1, seen |-> read]
  BY DEF LocksInv, LocksTypeOK, Grant
<1>3. Plan(q)' = Plan(q)
  BY <1>2 DEF Plan
<1>4. \A i : i \in 1 .. (n + 1) - 1 <=> i \in (1 .. n - 1) \cup {n}
  BY <1>1
<1>5. 1 .. (n + 1) - 1 = (1 .. n - 1) \cup {n}
  BY <1>4
<1>6. Held(q)' = Held(q) \cup {Wanted(q)}
  BY <1>2, <1>3, <1>5 DEF Held, Wanted
<1> QED
  BY <1>2, <1>6 DEF LocksInv, LocksTypeOK, Grant

\* A lock is granted when it conflicts with none that is held.
LEMMA GrantStep ==
  ASSUME LocksInv, NEW q \in Request, Running(q), ~Complete(q),
         \A p \in Request : ~Blocks(p, q), UNCHANGED status,
         NEW seen \in [LockedRow -> Status \cup {Nothing}], Grant(q, seen),
         \A row \in LockedRow :
           seen[row] = IF row = Wanted(q).on THEN status[row] ELSE requests[q].seen[row],
         Wanted(q).on \in LockedRow =>
           Accepts(requests[q].handler, Wanted(q).on, status[Wanted(q).on])
  PROVE  LocksInv'
<1> DEFINE h == requests[q].handler
           n == requests[q].next
<1>1. requests[q] \in Transaction /\ h \in Handler /\ n \in 1 .. 5
  BY RunningRequest DEF LocksInv, Transaction
<1>2. n \in 1 .. Len(Plan(q)) /\ Len(Plan(q)) \in 2 .. 4 /\ n + 1 \in 1 .. 5
  BY <1>1, PlansAreLocks DEF LocksInv, WithinPlan, Plan, Complete
<1>3. requests'[q] = [handler |-> h, next |-> n + 1, seen |-> seen]
  BY DEF LocksInv, LocksTypeOK, Grant
<1>4. \A p \in Request \ {q} : requests'[p] = requests[p]
  BY DEF LocksInv, LocksTypeOK, Grant
<1>5. \A p \in Request : Running(p)' = Running(p) /\ Plan(p)' = Plan(p)
  BY <1>3, <1>4 DEF Running, Plan
<1>6. \A p \in Request \ {q} : Held(p)' = Held(p)
  BY <1>4, HeldUnchanged
<1>7. Held(q)' = Held(q) \cup {Wanted(q)}
  BY HeldGrows
<1>8. LocksTypeOK'
  <2>1. [handler |-> h, next |-> n + 1, seen |-> seen] \in Transaction
    BY <1>1, <1>2 DEF Transaction
  <2> QED
    BY <2>1 DEF LocksInv, LocksTypeOK, Transaction, Grant
<1>9. WithinPlan'
  <2>1. requests'[q].next <= Len(Plan(q)') + 1
    BY <1>2, <1>3, <1>5
  <2>2. ASSUME NEW p \in Request \ {q}, Running(p)'
        PROVE  requests'[p].next <= Len(Plan(p)') + 1
    BY <1>4, <1>5, <2>2 DEF LocksInv, WithinPlan
  <2> QED
    BY <2>1, <2>2 DEF WithinPlan
<1>10. Exclusion'
  <2>1. ASSUME NEW p \in Request, p # q, Running(p), NEW a \in Held(p)
        PROVE  ~Conflict(a, Wanted(q)) /\ ~Conflict(Wanted(q), a)
    BY <2>1, ConflictSymmetric DEF Blocks
  <2>2. \A p, r \in Request : p # r /\ Running(p) /\ Running(r) =>
          \A a \in Held(p), b \in Held(r) : ~Conflict(a, b)
    BY DEF LocksInv, Exclusion
  <2>3. ASSUME NEW p \in Request, NEW r \in Request, p # r, Running(p)', Running(r)',
               NEW a \in Held(p)', NEW b \in Held(r)'
        PROVE  ~Conflict(a, b)
    <3>1. Running(p) /\ Running(r)
      BY <1>5, <2>3
    <3>2. CASE p # q /\ r # q
      BY <1>6, <2>2, <2>3, <3>1, <3>2
    <3>3. CASE p = q
      <4>1. r # q /\ b \in Held(r) /\ a \in Held(q) \cup {Wanted(q)}
        BY <1>6, <1>7, <2>3, <3>3
      <4> QED
        BY <2>1, <2>2, <3>1, <3>3, <4>1
    <3>4. CASE r = q
      <4>1. p # q /\ a \in Held(p) /\ b \in Held(q) \cup {Wanted(q)}
        BY <1>6, <1>7, <2>3, <3>4
      <4> QED
        BY <2>1, <2>2, <3>1, <3>4, <4>1
    <3> QED
      BY <3>2, <3>3, <3>4
  <2> QED
    BY <2>3 DEF Exclusion
<1>11. LinkedCasesSettled'
  BY DEF LocksInv, LinkedCasesSettled
<1>12. OpenCasesDecided'
  <2>1. ASSUME h.kind \in {"DECIDE", "REJECT", "SELF_DECIDE"}
        PROVE  h.on \in Revocation \cup Correction
    <3>1. CASE n > 1
      BY <2>1, <3>1 DEF LocksInv, OpenCasesDecided
    <3>2. CASE n = 1
      <4>1. h.on \in DecidableCase /\ Plan(q)[1] = ForUpdate(h.on)
        <5>1. h.on \in DecidableCase
          BY <1>1, <2>1, Plans
        <5>2. CASE h.kind = "DECIDE"
          <6>1. Locks(h) = <<ForUpdate(h.on), ForUpdate(Original), AuditLock>>
            BY <1>1, <5>2, Plans
          <6> QED BY <5>1, <6>1 DEF Plan
        <5>3. CASE h.kind \in {"REJECT", "SELF_DECIDE"}
          <6>1. Locks(h) = <<ForUpdate(h.on), AuditLock>>
            BY <1>1, <5>3, Plans
          <6> QED BY <5>1, <6>1 DEF Plan
        <5> QED BY <2>1, <5>2, <5>3
      <4>2. Wanted(q).on = h.on /\ h.on \in LockedRow
        BY <3>2, <4>1 DEF Wanted, ForUpdate, LockedRow
      <4>3. status[h.on] = "OPEN"
        BY <4>1, <4>2 DEF Accepts
      <4> QED
        BY <4>1, <4>3 DEF DecidableCase, LocksInv, LinkedCasesSettled
    <3> QED
      BY <1>1, <3>1, <3>2
  <2>2. ASSUME NEW p \in Request \ {q}, Running(p)',
               requests'[p].handler.kind \in {"DECIDE", "REJECT", "SELF_DECIDE"},
               requests'[p].next > 1
        PROVE  requests'[p].handler.on \in Revocation \cup Correction
    BY <1>4, <1>5, <2>2 DEF LocksInv, OpenCasesDecided
  <2> QED
    BY <1>3, <2>1, <2>2 DEF OpenCasesDecided
<1>13. ReadsStayCurrent'
  <2>1. ASSUME NEW lock \in Held(q)', lock.on \in LockedRow
        PROVE  requests'[q].seen[lock.on] = status'[lock.on]
    BY <1>3, <1>7, <2>1 DEF LocksInv, ReadsStayCurrent
  <2>2. ASSUME NEW p \in Request \ {q}, Running(p)', NEW lock \in Held(p)',
               lock.on \in LockedRow
        PROVE  requests'[p].seen[lock.on] = status'[lock.on]
    BY <1>4, <1>5, <1>6, <2>2 DEF LocksInv, ReadsStayCurrent
  <2> QED
    BY <2>1, <2>2 DEF ReadsStayCurrent
<1> QED
  BY <1>8, <1>9, <1>10, <1>11, <1>12, <1>13 DEF LocksInv

LEMMA AcquireStep ==
  ASSUME LocksInv, NEW q \in Request, Acquire(q)
  PROVE  LocksInv'
<1> DEFINE h == requests[q].handler
           row == Wanted(q).on
           seen == [requests[q].seen EXCEPT ![row] = status[row]]
<1>1. requests[q].seen \in [LockedRow -> Status \cup {Nothing}]
  BY RunningRequest DEF LocksInv, Acquire, Transaction
<1>2. status \in [LockedRow -> Status]
  BY DEF LocksInv, LocksTypeOK
<1>3. CASE row \in LockedRow /\ Accepts(h, row, status[row])
  <2>1. seen \in [LockedRow -> Status \cup {Nothing}]
    BY <1>1, <1>2, <1>3
  <2>2. \A r \in LockedRow : seen[r] = IF r = row THEN status[r] ELSE requests[q].seen[r]
    BY <1>1
  <2>3. Grant(q, seen)
    BY <1>3 DEF Acquire
  <2> HIDE DEF seen
  <2> QED
    BY <1>3, <2>1, <2>2, <2>3, GrantStep DEF Acquire
<1>4. CASE row \in LockedRow /\ ~Accepts(h, row, status[row])
  BY <1>4, EndStep DEF Acquire
<1>5. CASE row \notin LockedRow
  <2>1. Grant(q, requests[q].seen)
    BY <1>5 DEF Acquire
  <2> QED
    BY <1>1, <1>5, <2>1, GrantStep DEF Acquire
<1> QED
  BY <1>3, <1>4, <1>5

\* A transaction commits into rows that no other has read under a lock.
LEMMA FinishStep ==
  ASSUME LocksInv, NEW q \in Request, Finish(q)
  PROVE  LocksInv'
<1> DEFINE h == requests[q].handler
           seen == requests[q].seen
<1>1. Running(q) /\ Complete(q) /\ requests[q] \in Transaction /\ h \in Handler
  BY RunningRequest DEF LocksInv, Finish, Transaction
<1>2. Held(q) = {Plan(q)[i] : i \in 1 .. Len(Plan(q))} /\ requests[q].next > 2
  <2>1. requests[q].next = Len(Plan(q)) + 1 /\ Len(Plan(q)) \in 2 .. 4
    BY <1>1, PlansAreLocks DEF LocksInv, WithinPlan, Complete, Plan, Transaction
  <2>2. requests[q].next - 1 = Len(Plan(q))
    BY <2>1
  <2>3. Held(q) = {Plan(q)[i] : i \in 1 .. requests[q].next - 1}
    BY Zenon DEF Held
  <2> QED
    BY <2>1, <2>2, <2>3
<1>3. requests'[q] = Over /\ ~Running(q)'
  BY NotRunning DEF Finish, End, LocksInv, LocksTypeOK, Running
<1>4. \A p \in Request \ {q} :
        requests'[p] = requests[p] /\ Running(p)' = Running(p) /\ Plan(p)' = Plan(p)
          /\ Held(p)' = Held(p)
  BY DEF Finish, End, LocksInv, LocksTypeOK, Running, Plan, Held
<1>5. \A row \in LockedRow : status'[row] = Outcome(h, row, seen)
  BY DEF Finish
<1>6. status \in [LockedRow -> Status]
  BY DEF LocksInv, LocksTypeOK
<1>7. status' \in [LockedRow -> Status]
  <2>1. \A row \in LockedRow : Outcome(h, row, seen) \in Status
    BY <1>1, <1>6, WritesAreLocked
  <2> QED
    BY <2>1 DEF Finish
<1>8. LocksTypeOK'
  BY <1>7 DEF LocksInv, LocksTypeOK, Finish, End
<1>9. WithinPlan' /\ Exclusion' /\ OpenCasesDecided'
  BY <1>3, <1>4 DEF LocksInv, WithinPlan, Exclusion, OpenCasesDecided
<1>10. LinkedCasesSettled'
  <2> SUFFICES ASSUME NEW r \in Replacement
               PROVE  status'[LinkedCase[r]] \in {"APPROVED", "COMPLETED"}
    BY DEF LinkedCasesSettled
  <2>1. LinkedCase[r] \in LockedRow /\ LinkedCase[r] \notin Revocation \cup Correction
    BY LocksAssumption DEF LockedRow, DecidableCase
  <2>2. LinkedCase[r] # Original /\ LinkedCase[r] \notin Replacement
    <3>1. LinkedCase[r] \in DecidableCase
      BY DEF DecidableCase
    <3> QED
      BY <3>1, LocksAssumption
  <2>3. h.kind = "DECIDE" \/ h.kind = "REJECT" => h.on # LinkedCase[r]
    BY <1>1, <1>2, <2>1 DEF LocksInv, OpenCasesDecided, Transaction
  <2>4. h.kind = "APPROVE" \/ h.kind = "RETURN" => h.on # LinkedCase[r]
    BY <1>1, <2>2, Plans
  <2>5. Outcome(h, LinkedCase[r], seen) \in {"COMPLETED", status[LinkedCase[r]]}
    BY <2>2, <2>3, <2>4, Zenon DEF Outcome
  <2> QED
    BY <1>5, <2>1, <2>5 DEF LocksInv, LinkedCasesSettled
<1>11. ReadsStayCurrent'
  <2> SUFFICES ASSUME NEW p \in Request \ {q}, Running(p), NEW lock \in Held(p),
                      lock.on \in LockedRow
               PROVE  status'[lock.on] = status[lock.on]
    BY <1>3, <1>4 DEF ReadsStayCurrent, LocksInv
  <2> SUFFICES ASSUME Outcome(h, lock.on, seen) # status[lock.on] PROVE FALSE
    BY <1>5
  <2>1. PICK i \in 1 .. Len(Locks(h)) :
          /\ Locks(h)[i].on = lock.on
          /\ \/ Locks(h)[i].mode = "UPDATE"
             \/ Locks(h)[i].mode = "NO_KEY_UPDATE" /\ lock.on # Original
    BY <1>1, WritesAreLocked
  <2>2. Locks(h)[i] \in Held(q) /\ Locks(h)[i] \in Lock
    BY <1>1, <1>2, PlansAreLocks DEF Plan
  <2>3. lock \in Lock /\ lock.mode = "KEY_SHARE" => lock.on = Original
    BY HeldLocks
  <2>4. lock.mode \in {"UPDATE", "NO_KEY_UPDATE", "KEY_SHARE"} /\ lock \in Lock
    BY HeldLocks DEF Lock
  <2>5. Conflict(Locks(h)[i], lock)
    BY <2>1, <2>2, <2>3, <2>4, Conflicts
  <2> QED
    BY <1>1, <2>2, <2>5 DEF LocksInv, Exclusion
<1> QED
  BY <1>8, <1>9, <1>10, <1>11 DEF LocksInv

LEMMA LocksStep == LocksInv /\ [LocksNext]_locksVars => LocksInv'
<1> SUFFICES ASSUME LocksInv, [LocksNext]_locksVars PROVE LocksInv'
  OBVIOUS
<1>1. CASE UNCHANGED locksVars
  <2>1. status' = status /\ requests' = requests
    BY <1>1 DEF locksVars
  <2>2. LocksTypeOK' /\ LinkedCasesSettled'
    BY <2>1 DEF LocksInv, LocksTypeOK, LinkedCasesSettled
  <2>3. WithinPlan' /\ OpenCasesDecided'
    BY <2>1 DEF LocksInv, WithinPlan, OpenCasesDecided, Running, Plan
  <2>4. Exclusion' /\ ReadsStayCurrent'
    BY <2>1 DEF LocksInv, Exclusion, ReadsStayCurrent, Running, Plan, Held
  <2> QED
    BY <2>2, <2>3, <2>4 DEF LocksInv
<1>2. ASSUME NEW q \in Request, BreakDeadlock(q) PROVE LocksInv'
  BY <1>2, EndStep DEF BreakDeadlock
<1> QED
  BY <1>1, <1>2, BeginStep, AcquireStep, FinishStep DEF LocksNext

-------------------------------------------------------------------------------
(* One request at a time.                                                  *)

\* What a transaction has read has passed the checks of its handler.
ReadsAccepted ==
  \A q \in Request : Running(q) =>
    \A lock \in Held(q) : lock.on \in LockedRow =>
      Accepts(requests[q].handler, lock.on, requests[q].seen[lock.on])

LEMMA AcceptedReads ==
  ASSUME LocksInv, ReadsAccepted, [LocksNext]_locksVars
  PROVE  ReadsAccepted'
<1>1. ASSUME NEW q \in Request, requests'[q] = requests[q], Running(q)',
             NEW lock \in Held(q)', lock.on \in LockedRow
      PROVE  Accepts(requests'[q].handler, lock.on, requests'[q].seen[lock.on])
  <2>1. Running(q) /\ lock \in Held(q)
    BY <1>1, HeldUnchanged DEF Running
  <2> QED
    BY <1>1, <2>1 DEF ReadsAccepted
<1>2. ASSUME NEW q \in Request, NEW h \in Handler, Begin(q, h)
      PROVE  ReadsAccepted'
  <2>1. Held(q)' = {} /\ \A p \in Request \ {q} : requests'[p] = requests[p]
    <3>1. requests'[q].next = 1 /\ \A p \in Request \ {q} : requests'[p] = requests[p]
      BY <1>2 DEF Begin, LocksInv, LocksTypeOK
    <3> QED
      BY <3>1 DEF Held
  <2> QED
    BY <1>1, <2>1 DEF ReadsAccepted
<1>3. ASSUME NEW q \in Request, End(q)
      PROVE  ReadsAccepted'
  <2>1. ~Running(q)' /\ \A p \in Request \ {q} : requests'[p] = requests[p]
    BY <1>3, NotRunning DEF End, LocksInv, LocksTypeOK, Running
  <2> QED
    BY <1>1, <2>1 DEF ReadsAccepted
<1>4. ASSUME NEW q \in Request, Running(q), ~Complete(q), NEW read, Grant(q, read),
             \A row \in LockedRow :
               read[row] = IF row = Wanted(q).on THEN status[row] ELSE requests[q].seen[row],
             Wanted(q).on \in LockedRow =>
               Accepts(requests[q].handler, Wanted(q).on, status[Wanted(q).on])
      PROVE  ReadsAccepted'
  <2>1. /\ Held(q)' = Held(q) \cup {Wanted(q)}
        /\ requests'[q].handler = requests[q].handler
        /\ requests'[q].seen = read
        /\ \A p \in Request \ {q} : requests'[p] = requests[p]
    BY <1>4, HeldGrows
  <2>2. ASSUME NEW lock \in Held(q)', lock.on \in LockedRow
        PROVE  Accepts(requests'[q].handler, lock.on, requests'[q].seen[lock.on])
    <3>1. CASE lock.on = Wanted(q).on
      BY <1>4, <2>1, <2>2, <3>1
    <3>2. CASE lock.on # Wanted(q).on
      BY <1>4, <2>1, <2>2, <3>2 DEF ReadsAccepted
    <3> QED
      BY <3>1, <3>2
  <2> QED
    BY <1>1, <2>1, <2>2 DEF ReadsAccepted
<1>5. ASSUME NEW q \in Request, Acquire(q)
      PROVE  ReadsAccepted'
  <2> DEFINE row == Wanted(q).on
             read == [requests[q].seen EXCEPT ![row] = status[row]]
  <2>1. requests[q].seen \in [LockedRow -> Status \cup {Nothing}]
    BY <1>5, RunningRequest DEF LocksInv, Acquire, Transaction
  <2>2. CASE row \in LockedRow /\ Accepts(requests[q].handler, row, status[row])
    <3>1. \A r \in LockedRow : read[r] = IF r = row THEN status[r] ELSE requests[q].seen[r]
      BY <2>1
    <3>2. Grant(q, read)
      BY <1>5, <2>2 DEF Acquire
    <3> HIDE DEF read
    <3> QED
      BY <1>4, <1>5, <2>2, <3>1, <3>2 DEF Acquire
  <2>3. CASE row \in LockedRow /\ ~Accepts(requests[q].handler, row, status[row])
    BY <1>3, <1>5, <2>3 DEF Acquire
  <2>4. CASE row \notin LockedRow
    <3>1. Grant(q, requests[q].seen)
      BY <1>5, <2>4 DEF Acquire
    <3> QED
      BY <1>4, <1>5, <2>4, <3>1 DEF Acquire
  <2> QED
    BY <2>2, <2>3, <2>4
<1>6. CASE UNCHANGED locksVars
  BY <1>1, <1>6 DEF ReadsAccepted, locksVars
<1> QED
  BY <1>2, <1>3, <1>5, <1>6 DEF LocksNext, Finish, BreakDeadlock

\* What a handler writes, it would write had it the tables to itself.
LEMMA FinishIsSerial ==
  ASSUME LocksInv, ReadsAccepted, NEW q \in Request, Finish(q)
  PROVE  Serial!Next \/ status' = status
<1> DEFINE h == requests[q].handler
           seen == requests[q].seen
<1>1. Running(q) /\ Complete(q) /\ requests[q] \in Transaction /\ h \in Handler
  BY RunningRequest DEF LocksInv, Finish, Transaction
<1>2. \A i \in 1 .. Len(Locks(h)) : Locks(h)[i] \in Held(q)
  BY <1>1, PlansAreLocks DEF Held, Plan, Complete, Transaction
<1>3. ASSUME NEW row \in LockedRow, ForUpdate(row) \in Held(q)
      PROVE  seen[row] = status[row] /\ Accepts(h, row, status[row])
  BY <1>1, <1>3 DEF LocksInv, ReadsStayCurrent, ReadsAccepted, ForUpdate
<1>4. /\ status \in [LockedRow -> Status]
      /\ status' = [row \in LockedRow |-> Outcome(h, row, seen)]
  BY DEF LocksInv, LocksTypeOK, Finish
<1>5. Original \in LockedRow /\ h.on \in LockedRow
  BY <1>1 DEF Handler, LockedRow
<1>6. CASE h.kind = "APPROVE"
  <2> DEFINE r == h.on
  <2>1. /\ r \in Replacement
        /\ Locks(h) = <<ForUpdate(r), AuditLock, ForUpdate(Original),
                        ForNoKeyUpdate(LinkedCase[r])>>
    BY <1>1, <1>6, Plans
  <2>2. ForUpdate(r) \in Held(q) /\ ForUpdate(Original) \in Held(q)
    <3>1. /\ 1 \in 1 .. Len(Locks(h)) /\ Locks(h)[1] = ForUpdate(r)
          /\ 3 \in 1 .. Len(Locks(h)) /\ Locks(h)[3] = ForUpdate(Original)
      BY <2>1
    <3> QED
      BY <1>2, <3>1
  <2>3. status[r] = "PENDING_APPROVAL" /\ seen[Original] = status[Original]
    BY <1>3, <1>5, <1>6, <2>2 DEF Accepts
  <2>4. LinkedCase[r] \in DecidableCase /\ LinkedCase[r] \in LockedRow
    BY <2>1 DEF DecidableCase, LockedRow
  <2>5. r # Original /\ LinkedCase[r] # Original /\ LinkedCase[r] # r
    BY <2>1, <2>4, LocksAssumption
  <2>6. ASSUME NEW row \in LockedRow
        PROVE  status'[row] = IF row = r THEN "ISSUED"
                              ELSE IF row = LinkedCase[r] THEN "COMPLETED"
                              ELSE IF row = Original /\ status[row] = "ISSUED"
                                THEN "SUPERSEDED" ELSE status[row]
    <3>1. status'[row] = Outcome(h, row, seen)
      BY <1>4
    <3>2. CASE row = r
      <4>1. /\ h.kind = "APPROVE" /\ row = h.on
            /\ row # Original /\ row # LinkedCase[h.on]
        BY <1>6, <2>5, <3>2
      <4>2. Outcome(h, row, seen) = "ISSUED"
        BY <4>1, Zenon DEF Outcome
      <4> QED
        BY <3>1, <3>2, <4>2
    <3>3. CASE row = LinkedCase[r]
      BY <1>6, <2>5, <3>1, <3>3, Zenon DEF Outcome
    <3>4. CASE row = Original
      BY <1>6, <2>3, <2>5, <3>1, <3>4, Zenon DEF Outcome
    <3>5. CASE row \notin {r, LinkedCase[r], Original}
      BY <1>6, <3>1, <3>5, Zenon DEF Outcome
    <3> QED
      BY <2>5, <3>1, <3>2, <3>3, <3>4, <3>5
  <2>7. Serial!Approve(r)
    BY <1>4, <1>5, <2>3, <2>4, <2>5, <2>6 DEF Serial!Approve
  <2> QED
    BY <2>1, <2>7 DEF Serial!Next
<1>7. ASSUME h.kind \in {"RETURN", "DECIDE", "REJECT"}
      PROVE  Accepts(h, h.on, status[h.on])
  <2>1. 1 \in 1 .. Len(Locks(h)) /\ Locks(h)[1] = ForUpdate(h.on)
    <3>1. CASE h.kind = "DECIDE"
      <4>1. Locks(h) = <<ForUpdate(h.on), ForUpdate(Original), AuditLock>>
        BY <1>1, <3>1, Plans
      <4> QED BY <4>1
    <3>2. CASE h.kind \in {"RETURN", "REJECT"}
      <4>1. Locks(h) = <<ForUpdate(h.on), AuditLock>>
        BY <1>1, <3>2, Plans
      <4> QED BY <4>1
    <3> QED BY <1>7, <3>1, <3>2
  <2> QED
    BY <1>2, <1>3, <1>5, <2>1
<1>8. CASE h.kind = "RETURN"
  <2>1. h.on \in Replacement /\ status[h.on] = "PENDING_APPROVAL"
    BY <1>1, <1>7, <1>8, Plans DEF Accepts
  <2>2. \A row \in LockedRow :
           Outcome(h, row, seen) = IF row = h.on THEN "RETURNED" ELSE status[row]
    BY <1>8, Zenon DEF Outcome
  <2>3. Serial!Return(h.on)
    BY <1>4, <1>5, <2>1, <2>2 DEF Serial!Return
  <2> QED
    BY <2>1, <2>3 DEF Serial!Next
<1>9. ASSUME h.kind \in {"DECIDE", "REJECT"}
      PROVE  h.on \in Revocation \cup Correction /\ status[h.on] = "OPEN"
  <2>1. h.on \in DecidableCase
    BY <1>1, <1>9, Plans
  <2>2. status[h.on] = "OPEN"
    BY <1>7, <1>9, <2>1 DEF Accepts
  <2> QED
    BY <2>1, <2>2 DEF DecidableCase, LocksInv, LinkedCasesSettled
<1>10. CASE h.kind = "REJECT"
  <2>1. \A row \in LockedRow :
           Outcome(h, row, seen) = IF row = h.on THEN "REJECTED" ELSE status[row]
    BY <1>10, Zenon DEF Outcome
  <2>2. Serial!Refuse(h.on)
    BY <1>4, <1>5, <1>9, <1>10, <2>1 DEF Serial!Refuse
  <2> QED
    BY <1>9, <1>10, <2>2 DEF Serial!Next
<1>11. CASE h.kind = "DECIDE" /\ h.on \in Revocation
  <2>1. status[Original] = "ISSUED"
    <3>1. 2 \in 1 .. Len(Locks(h)) /\ Locks(h)[2] = ForUpdate(Original)
      BY <1>1, <1>11, Plans
    <3>2. Accepts(h, Original, status[Original])
      BY <1>2, <1>3, <1>5, <3>1
    <3> QED
      BY <1>11, <3>2 DEF Accepts, CanTransition, LIFECYCLE_TRANSITIONS
  <2>2. h.on # Original /\ h.on \notin Correction
    BY LocksAssumption, <1>11 DEF DecidableCase
  <2>3. \A row \in LockedRow :
           Outcome(h, row, seen) = IF row = h.on THEN "COMPLETED"
                                   ELSE IF row = Original THEN "REVOKED" ELSE status[row]
    <3> SUFFICES ASSUME NEW row \in LockedRow
                 PROVE  Outcome(h, row, seen) = IF row = h.on THEN "COMPLETED"
                          ELSE IF row = Original THEN "REVOKED" ELSE status[row]
      OBVIOUS
    <3>1. CASE row = h.on
      <4>1. Outcome(h, row, seen) = "COMPLETED"
        BY <1>11, <2>2, <3>1, Zenon DEF Outcome
      <4> QED BY <3>1, <4>1
    <3>2. CASE row = Original
      <4>1. row # h.on
        BY <2>2, <3>2
      <4>2. Outcome(h, row, seen) = "REVOKED"
        BY <1>11, <3>2, <4>1, Zenon DEF Outcome
      <4> QED BY <3>2, <4>1, <4>2
    <3>3. CASE row # h.on /\ row # Original
      <4>1. Outcome(h, row, seen) = status[row]
        BY <1>11, <3>3, Zenon DEF Outcome
      <4> QED BY <3>3, <4>1
    <3> QED
      BY <3>1, <3>2, <3>3
  <2>4. Serial!Revoke(h.on)
    BY <1>4, <1>5, <1>9, <1>11, <2>1, <2>2, <2>3 DEF Serial!Revoke
  <2> QED
    BY <1>11, <2>4 DEF Serial!Next
<1>12. CASE h.kind = "DECIDE" /\ h.on \in Correction
  <2>1. h.on \notin Revocation
    BY <1>12, LocksAssumption
  <2>2. \A row \in LockedRow :
           Outcome(h, row, seen) = IF row = h.on THEN "APPROVED" ELSE status[row]
    BY <1>12, <2>1, Zenon DEF Outcome
  <2>3. Serial!AgreeToCorrect(h.on)
    BY <1>4, <1>5, <1>9, <1>12, <2>2 DEF Serial!AgreeToCorrect
  <2> QED
    BY <1>12, <2>3 DEF Serial!Next
<1>13. CASE h.kind \notin {"APPROVE", "RETURN", "DECIDE", "REJECT"}
  <2>1. \A row \in LockedRow : Outcome(h, row, seen) = status[row]
    BY <1>13, Zenon DEF Outcome
  <2> QED
    BY <1>4, <2>1
<1> QED
  BY <1>6, <1>8, <1>9, <1>10, <1>11, <1>12, <1>13

LEMMA SerialInit == LocksInit => Serial!Init
<1>1. LockedRow = Serial!Row
  BY DEF LockedRow, DecidableCase, Serial!Row
<1> QED
  BY <1>1 DEF LocksInit, Serial!Init

-------------------------------------------------------------------------------
(* Deadlocks.                                                              *)

\* A transaction that holds locks and wants another is at one of four places.
AtOriginal(q) ==
  /\ IssuesReplacement(q)
  /\ Held(q) = {ForUpdate(requests[q].handler.on), AuditLock}
  /\ requests[q].handler.on \in Replacement

AtAudit(q) == Wanted(q) = AuditLock /\ \A a \in Held(q) : a.on \in LockedRow

AtLinkedCase(q) ==
  LET r == requests[q].handler.on IN
  /\ r \in Replacement
  /\ Wanted(q) = ForNoKeyUpdate(LinkedCase[r])
  /\ ForUpdate(r) \in Held(q)

AtDecision(q) ==
  /\ Wanted(q) = ForUpdate(Original)
  /\ \E k \in Revocation \cup Correction : Held(q) = {ForUpdate(k)}

LEMMA Places ==
  ASSUME LocksInv, NEW q \in Request, Running(q), ~Complete(q), Held(q) # {}
  PROVE  AtOriginal(q) \/ AtAudit(q) \/ AtLinkedCase(q) \/ AtDecision(q)
<1> DEFINE h == requests[q].handler
           n == requests[q].next
<1>1. requests[q] \in Transaction /\ h \in Handler /\ n \in 1 .. 5
  BY RunningRequest DEF LocksInv, Transaction
<1>2. n # 1
  <2>1. 1 .. 1 - 1 = {}
    OBVIOUS
  <2> QED
    BY <2>1 DEF Held
<1>3. n \in 2 .. 4 /\ n <= Len(Locks(h)) /\ Plan(q) = Locks(h)
  BY <1>1, <1>2, PlansAreLocks DEF Complete, Plan
<1>4. /\ n = 2 => Held(q) = {Locks(h)[1]}
      /\ n = 3 => Held(q) = {Locks(h)[1], Locks(h)[2]}
      /\ n = 4 => Held(q) = {Locks(h)[1], Locks(h)[2], Locks(h)[3]}
  <2>1. 2 - 1 = 1 /\ 3 - 1 = 2 /\ 4 - 1 = 3
    OBVIOUS
  <2>2. 1 .. 1 = {1} /\ 1 .. 2 = {1, 2} /\ 1 .. 3 = {1, 2, 3}
    OBVIOUS
  <2> QED
    BY <1>3, <2>1, <2>2 DEF Held
<1>5. Wanted(q) = Locks(h)[n]
  BY <1>3 DEF Wanted
<1>6. h.on \in LockedRow /\ Original \in LockedRow
  BY <1>1 DEF Handler, LockedRow
<1>7. /\ \A row \in LockedRow : /\ ForUpdate(row).on \in LockedRow
                               /\ ForNoKeyUpdate(row).on \in LockedRow
                               /\ ForKeyShare(row).on \in LockedRow
  BY DEF ForUpdate, ForNoKeyUpdate, ForKeyShare
<1>8. CASE h.kind = "APPROVE"
  <2>1. /\ h.on \in Replacement
        /\ Locks(h) = <<ForUpdate(h.on), AuditLock, ForUpdate(Original),
                        ForNoKeyUpdate(LinkedCase[h.on])>>
    BY <1>1, <1>8, Plans
  <2>2. CASE n = 2
    <3>1. Held(q) = {ForUpdate(h.on)} /\ Wanted(q) = AuditLock
      BY <1>4, <1>5, <2>1, <2>2
    <3> QED BY <1>6, <1>7, <3>1 DEF AtAudit
  <2>3. CASE n = 3
    <3>1. Held(q) = {ForUpdate(h.on), AuditLock} /\ Wanted(q) = ForUpdate(Original)
      BY <1>4, <1>5, <2>1, <2>3
    <3> QED BY <1>8, <2>1, <3>1 DEF AtOriginal, IssuesReplacement
  <2>4. CASE n = 4
    <3>1. ForUpdate(h.on) \in Held(q) /\ Wanted(q) = ForNoKeyUpdate(LinkedCase[h.on])
      BY <1>4, <1>5, <2>1, <2>4
    <3> QED BY <2>1, <3>1 DEF AtLinkedCase
  <2> QED BY <1>3, <2>2, <2>3, <2>4
<1>9. CASE h.kind = "DECIDE"
  <2>1. Locks(h) = <<ForUpdate(h.on), ForUpdate(Original), AuditLock>>
    BY <1>1, <1>9, Plans
  <2>2. CASE n = 2
    <3>1. Held(q) = {ForUpdate(h.on)} /\ Wanted(q) = ForUpdate(Original)
      BY <1>4, <1>5, <2>1, <2>2
    <3>2. h.on \in Revocation \cup Correction
      BY <1>9, <2>2 DEF LocksInv, OpenCasesDecided
    <3> QED BY <3>1, <3>2 DEF AtDecision
  <2>3. CASE n = 3
    <3>1. Held(q) = {ForUpdate(h.on), ForUpdate(Original)} /\ Wanted(q) = AuditLock
      BY <1>4, <1>5, <2>1, <2>3
    <3> QED BY <1>6, <1>7, <3>1 DEF AtAudit
  <2>4. n # 4
    BY <1>3, <2>1
  <2> QED BY <1>3, <2>2, <2>3, <2>4
<1>10. CASE h.kind # "APPROVE" /\ h.kind # "DECIDE"
  <2>1. \E lock \in {ForUpdate(h.on), ForNoKeyUpdate(h.on), ForKeyShare(h.on)} :
           Locks(h) = <<lock, AuditLock>>
    BY <1>1, <1>10, Plans
  <2>2. PICK lock : lock.on \in LockedRow /\ Locks(h) = <<lock, AuditLock>>
    BY <1>6, <1>7, <2>1
  <2>3. n = 2
    BY <1>3, <2>2
  <2>4. Held(q) = {lock} /\ Wanted(q) = AuditLock
    BY <1>4, <1>5, <2>2, <2>3
  <2> QED BY <2>2, <2>4 DEF AtAudit
<1> QED
  BY <1>8, <1>9, <1>10

\* A lock on a linked case is held by the approval that closes it, and no other.
LEMMA LinkedCaseIsFree ==
  ASSUME LocksInv, NEW p \in Request, NEW q \in Request, AtLinkedCase(q)
  PROVE  ~Blocks(p, q)
<1> SUFFICES ASSUME Blocks(p, q) PROVE FALSE
  OBVIOUS
<1> DEFINE r == requests[q].handler.on
           h == requests[p].handler
<1>1. /\ r \in Replacement
      /\ Wanted(q).on = LinkedCase[r]
      /\ ForUpdate(r) \in Held(q)
  BY DEF AtLinkedCase, ForNoKeyUpdate
<1>2. p # q /\ Running(p) /\ Running(q) /\ requests[p] \in Transaction /\ h \in Handler
  BY RunningRequest DEF Blocks, LocksInv, Transaction
<1>3. PICK i \in 1 .. requests[p].next - 1 : Locks(h)[i].on = LinkedCase[r]
  BY <1>1 DEF Blocks, Held, Conflict, Plan
<1>4. i \in 1 .. Len(Locks(h)) /\ requests[p].next > 1 /\ 1 \in 1 .. requests[p].next - 1
  BY <1>2, PlansAreLocks DEF LocksInv, WithinPlan, Plan, Transaction
<1>5. /\ LinkedCase[r] \in DecidableCase
      /\ LinkedCase[r] \notin Revocation \cup Correction
      /\ LinkedCase[r] \notin {Original} \cup Replacement
      /\ LinkedCase[r] # "AUDIT_CHAIN"
  <2>1. LinkedCase[r] \in DecidableCase
    BY <1>1 DEF DecidableCase
  <2>2. LinkedCase[r] \in LockedRow
    BY <2>1 DEF LockedRow
  <2> QED
    BY <1>1, <2>1, <2>2, LocksAssumption
<1>6. CASE h.kind = "APPROVE"
  <2>1. /\ h.on \in Replacement
        /\ Locks(h) = <<ForUpdate(h.on), AuditLock, ForUpdate(Original),
                        ForNoKeyUpdate(LinkedCase[h.on])>>
    BY <1>2, <1>6, Plans
  <2>2. LinkedCase[h.on] = LinkedCase[r]
    BY <1>3, <1>4, <1>5, <2>1 DEF ForUpdate, ForNoKeyUpdate, AuditLock
  <2>3. h.on = r
    BY <1>1, <2>1, <2>2, LocksAssumption
  <2>4. ForUpdate(r) \in Held(p)
    BY <1>4, <2>1, <2>3 DEF Held, Plan
  <2>5. Conflict(ForUpdate(r), ForUpdate(r))
    BY DEF Conflict, Conflicting, ForUpdate
  <2> QED
    BY <1>1, <1>2, <2>4, <2>5 DEF LocksInv, Exclusion
<1>7. CASE h.kind \in {"DECIDE", "REJECT", "SELF_DECIDE"}
  <2>1. h.on \in Revocation \cup Correction
    BY <1>2, <1>4, <1>7 DEF LocksInv, OpenCasesDecided, Transaction
  <2>2. \A j \in 1 .. Len(Locks(h)) : Locks(h)[j].on \in {h.on, Original, "AUDIT_CHAIN"}
    <3>1. CASE h.kind = "DECIDE"
      <4>1. Locks(h) = <<ForUpdate(h.on), ForUpdate(Original), AuditLock>>
        BY <1>2, <3>1, Plans
      <4> QED BY <4>1 DEF ForUpdate, AuditLock
    <3>2. CASE h.kind # "DECIDE"
      <4>1. Locks(h) = <<ForUpdate(h.on), AuditLock>>
        BY <1>2, <1>7, <3>2, Plans
      <4> QED BY <4>1 DEF ForUpdate, AuditLock
    <3> QED BY <3>1, <3>2
  <2> QED
    BY <1>3, <1>4, <1>5, <2>1, <2>2
<1>8. CASE h.kind \in {"RETURN", "SELF_APPROVE", "OPEN_CASE", "VALIDATE"}
  <2>1. h.on \in {Original} \cup Replacement
    BY <1>2, <1>8 DEF Handler
  <2>2. \E lock \in {ForUpdate(h.on), ForNoKeyUpdate(h.on), ForKeyShare(h.on)} :
           Locks(h) = <<lock, AuditLock>>
    BY <1>2, <1>8, Plans
  <2>3. \A j \in 1 .. Len(Locks(h)) : Locks(h)[j].on \in {h.on, "AUDIT_CHAIN"}
    BY <2>2 DEF ForUpdate, ForNoKeyUpdate, ForKeyShare, AuditLock
  <2> QED
    BY <1>3, <1>4, <1>5, <2>1, <2>3
<1> QED
  BY <1>2, <1>6, <1>7, <1>8 DEF Handler

\* In a deadlock a transaction has the audit lock and wants the original, and every
\* other wants the audit lock.
LEMMA DeadlockedPair ==
  ASSUME LocksInv, NEW q \in Request, OnCycle(q)
  PROVE  \E p \in Request :
           /\ Blocks(p, q) /\ Blocks(q, p)
           /\ IssuesReplacement(p) \/ IssuesReplacement(q)
<1>1. PICK ring \in SUBSET Request : \E waiter \in [ring -> ring] :
        /\ q \in ring
        /\ \A p \in ring : Blocks(p, waiter[p]) /\ \E r \in ring : waiter[r] = p
  BY DEF OnCycle
<1>2. PICK waiter \in [ring -> ring] :
        /\ q \in ring
        /\ \A p \in ring : Blocks(p, waiter[p]) /\ \E r \in ring : waiter[r] = p
  BY <1>1
<1>3. ASSUME NEW p \in ring
      PROVE  /\ Running(p) /\ ~Complete(p)
             /\ waiter[p] \in ring /\ Blocks(p, waiter[p])
             /\ \E r \in ring : Blocks(r, p)
             /\ AtOriginal(p) \/ AtAudit(p) \/ AtDecision(p)
  <2>1. /\ waiter[p] \in ring /\ Blocks(p, waiter[p])
        /\ \E r \in ring : Blocks(r, p)
    BY <1>2, <1>3
  <2>2. Running(p) /\ ~Complete(p) /\ Held(p) # {}
    BY <2>1 DEF Blocks
  <2>3. ~AtLinkedCase(p)
    BY <2>1, LinkedCaseIsFree
  <2> QED
    BY <2>1, <2>2, <2>3, Places
<1>4. /\ AuditLock.on = "AUDIT_CHAIN" /\ AuditLock \in Lock
      /\ ForUpdate(Original).on = Original /\ ForUpdate(Original) \in Lock
      /\ Original \in LockedRow /\ "AUDIT_CHAIN" \notin LockedRow
      /\ Conflict(AuditLock, AuditLock)
  BY LocksAssumption DEF AuditLock, ForUpdate, Lock, LockedRow, Conflict, Conflicting
<1>5. ASSUME NEW p \in ring PROVE ~AtDecision(p)
  <2> SUFFICES ASSUME AtDecision(p) PROVE FALSE
    OBVIOUS
  <2>1. PICK k \in Revocation \cup Correction : Held(p) = {ForUpdate(k)}
    BY DEF AtDecision
  <2>2. Wanted(waiter[p]).on = k
    <3>1. PICK lock \in Held(p) : Conflict(lock, Wanted(waiter[p]))
      BY <1>3 DEF Blocks
    <3> QED
      BY <2>1, <3>1 DEF Conflict, ForUpdate
  <2>3. k \in DecidableCase
    BY <2>1 DEF DecidableCase
  <2>4. k # Original /\ k # "AUDIT_CHAIN"
    BY <2>3, LocksAssumption DEF LockedRow
  <2> QED
    BY <1>3, <1>4, <2>2, <2>4 DEF AtOriginal, AtAudit, AtDecision, IssuesReplacement
<1>6. ASSUME NEW p \in ring, AtAudit(p)
      PROVE  \A r \in ring : Blocks(r, p) => AtOriginal(r)
  <2> SUFFICES ASSUME NEW r \in ring, Blocks(r, p), AtAudit(r) PROVE FALSE
    BY <1>3, <1>5
  <2> QED
    BY <1>4, <1>6 DEF AtAudit, Blocks, Conflict
<1>7. ASSUME NEW p \in ring, AtOriginal(p)
      PROVE  AuditLock \in Held(p)
  BY <1>7 DEF AtOriginal
<1>8. ASSUME NEW p \in ring, NEW r \in ring, AtOriginal(p), AtOriginal(r)
      PROVE  p = r
  BY <1>3, <1>4, <1>7, <1>8 DEF LocksInv, Exclusion
<1>9. CASE AtAudit(q)
  <2>1. PICK p \in ring : Blocks(p, q)
    BY <1>2, <1>3
  <2>2. AtOriginal(p)
    BY <1>2, <1>6, <1>9, <2>1
  <2>3. ~AtAudit(waiter[q])
    <3> SUFFICES ASSUME AtAudit(waiter[q]) PROVE FALSE
      OBVIOUS
    <3>1. AtOriginal(q)
      BY <1>2, <1>3, <1>6
    <3> QED
      BY <1>2, <1>4, <1>7, <1>9, <3>1 DEF AtAudit
  <2>4. AtOriginal(waiter[q]) /\ waiter[q] = p
    BY <1>2, <1>3, <1>5, <1>8, <2>2, <2>3
  <2> QED
    BY <1>2, <1>3, <2>1, <2>2, <2>4 DEF AtOriginal
<1>10. CASE AtOriginal(q)
  <2>1. PICK p \in ring : Blocks(p, q)
    BY <1>2, <1>3
  <2>2. p # q
    BY <2>1 DEF Blocks
  <2>3. AtAudit(p)
    BY <1>2, <1>3, <1>5, <1>8, <1>10, <2>2
  <2>4. Blocks(q, p)
    BY <1>2, <1>3, <1>4, <1>7, <1>10, <2>2, <2>3 DEF Blocks, AtAudit
  <2> QED
    BY <1>10, <2>1, <2>4 DEF AtOriginal
<1> QED
  BY <1>2, <1>3, <1>5, <1>9, <1>10

\* The inductive invariant of the locks.
THEOREM LocksInvariance == LocksSpec => []LocksInv
BY InitLocksInv, LocksStep, PTL DEF LocksSpec

-------------------------------------------------------------------------------
(* The theorems.                                                           *)

\* For any number of transactions in any order, what one has read under a lock is what
\* is in the table until it commits.
THEOREM LockedReadsStayCurrent == LocksSpec => []ReadsStayCurrent
<1>1. LocksInv => ReadsStayCurrent
  BY DEF LocksInv
<1> QED
  BY <1>1, LocksInvariance, PTL

\* "Row lock so concurrent workflow actions serialize per credential"
\* (service.ts:34), said of the tables: whatever transactions run, in any
\* interleaving and with any of them rolled back by a deadlock, the rows go through a
\* history that the handlers could have had one at a time.
THEOREM LocksImplementSerial == LocksSpec => SerialKept
<1>1. LocksInit => ReadsAccepted
  BY NotRunning DEF LocksInit, ReadsAccepted, Running
<1>2. LocksInv /\ ReadsAccepted /\ [LocksNext]_locksVars => ReadsAccepted'
  BY AcceptedReads
<1>3. LocksInv /\ ReadsAccepted /\ [LocksNext]_locksVars => [Serial!Next]_status
  <2> SUFFICES ASSUME LocksInv, ReadsAccepted, [LocksNext]_locksVars,
                      status' # status
               PROVE  Serial!Next
    OBVIOUS
  <2>1. \E q \in Request : Finish(q)
    BY DEF LocksNext, locksVars, Begin, Acquire, BreakDeadlock
  <2> QED
    BY <2>1, FinishIsSerial
<1> QED
  BY <1>1, <1>2, <1>3, SerialInit, LocksInvariance, PTL DEF LocksSpec, SerialKept, Serial!Spec

\* However many transactions deadlock, one of two that block each other issues a
\* replacement, has the audit lock and wants the original (service.ts:212).
THEOREM DeadlocksAreReplacements == LocksSpec => []DeadlocksNeedAReplacement
<1>1. LocksInv => DeadlocksNeedAReplacement
  BY DeadlockedPair DEF DeadlocksNeedAReplacement
<1> QED
  BY <1>1, LocksInvariance, PTL

\* A behaviour of the two views together is one of each, so that the theorems about
\* the tables and about the locks hold of it.
LEMMA BothViews == WorkflowSpec => Spec /\ LocksSpec
<1>1. WorkflowInit => Init /\ LocksInit
  BY DEF WorkflowInit
<1>2. [WorkflowNext]_workflowVars => [Next]_vars /\ [LocksNext]_locksVars
  BY DEF WorkflowNext, workflowVars, vars, locksVars
<1> QED
  BY <1>1, <1>2, PTL DEF WorkflowSpec, Spec, LocksSpec

\* Both views are well typed.
THEOREM WorkflowTypes == WorkflowSpec => []WorkflowTypeOK
<1>1. TypeOK /\ LocksInv => WorkflowTypeOK
  BY DEF WorkflowTypeOK, LocksInv
<1> QED
  BY <1>1, BothViews, TypeCorrect, LocksInvariance, PTL
===============================================================================
