------------------------------ MODULE AuditChain ------------------------------
(***************************************************************************)
(* The hash-chained audit log (packages/db/src/audit-chain.ts).            *)
(*                                                                         *)
(* Each domain transaction appends its events before it commits: an append *)
(* takes the advisory lock of the chain, which the transaction keeps to    *)
(* its end, reads the event_hash at the end of the table, and inserts its  *)
(* event.  A verification walks the table in batches meanwhile.            *)
(*                                                                         *)
(* An event gets a fresh id, which its hash covers, so no two hashes are   *)
(* equal: the model names a hash by the seq of its row, and the genesis    *)
(* hash 0.  The database is PostgreSQL at READ COMMITTED: a statement sees *)
(* what was committed when it began, and the rows of its own transaction;  *)
(* a seq that a rolled-back insert has drawn is not drawn again.           *)
(***************************************************************************)
EXTENDS Integers, FiniteSets

CONSTANTS
  Tx,          \* database sessions, each running one transaction after another
  MaxSeq,      \* bound on the seqs drawn
  BatchSize,   \* rows that verifyAuditChain reads at a time
  NULL

ASSUME MaxSeqAssumption == MaxSeq \in Nat

ASSUME BatchAssumption == BatchSize \in Nat \ {0}

ASSUME NoTxNull == NULL \notin Tx

VARIABLES
  table,       \* the committed rows of audit_events
  pending,     \* the rows of each running transaction
  nextSeq,     \* the identity sequence
  holder,      \* who has the advisory lock
  phase,       \* where each transaction is in appendAuditEvent
  prevHash,    \* what it has read there
  verifier     \* verifyAuditChain

vars == <<table, pending, nextSeq, holder, phase, prevHash, verifier>>

Genesis == 0
Seq1 == 1 .. MaxSeq
Hash == {Genesis} \cup Seq1
Row == [seq : Seq1, prev : Hash]
Phase == {"IDLE", "OPEN", "WAITING", "LOCKED", "READ"}

\* The verification's locals: seq and hash of the last row it accepted, how
\* many it has, and how many were in the table when it began.
Verifier ==
  [verdict : {"NONE", "RUNNING", "OK", "BROKEN"}, lastSeq : Hash, prev : Hash,
   checked : Nat, begun : Nat]

TypeOK ==
  /\ table \in SUBSET Row
  /\ pending \in [Tx -> SUBSET Row]
  /\ nextSeq \in 1 .. MaxSeq + 1
  /\ holder \in Tx \cup {NULL}
  /\ phase \in [Tx -> Phase]
  /\ prevHash \in [Tx -> Hash]
  /\ verifier \in Verifier

Init ==
  /\ table = {}
  /\ pending = [t \in Tx |-> {}]
  /\ nextSeq = 1
  /\ holder = NULL
  /\ phase = [t \in Tx |-> "IDLE"]
  /\ prevHash = [t \in Tx |-> Genesis]
  /\ verifier = [verdict |-> "NONE", lastSeq |-> 0, prev |-> Genesis,
                 checked |-> 0, begun |-> 0]

-------------------------------------------------------------------------------
(* Appending.                                                              *)

\* h is the hash of the row of R with the highest seq.
IsLastHash(h, R) ==
  \/ R = {} /\ h = Genesis
  \/ \E r \in R : h = r.seq /\ \A q \in R : q.seq <= r.seq

Begin(t) ==
  /\ phase[t] = "IDLE"
  /\ phase' = [phase EXCEPT ![t] = "OPEN"]
  /\ UNCHANGED <<table, pending, nextSeq, holder, prevHash, verifier>>

CallAppend(t) ==
  /\ phase[t] = "OPEN"
  /\ phase' = [phase EXCEPT ![t] = "WAITING"]
  /\ UNCHANGED <<table, pending, nextSeq, holder, prevHash, verifier>>

\* pg_advisory_xact_lock: waits for the holder, and is re-entrant.
AcquireLock(t) ==
  /\ phase[t] = "WAITING"
  /\ holder \in {NULL, t}
  /\ holder' = t
  /\ phase' = [phase EXCEPT ![t] = "LOCKED"]
  /\ UNCHANGED <<table, pending, nextSeq, prevHash, verifier>>

\* Mutant: the end of the chain is read before the lock is taken.
ReadLast_Unlocked(t) ==
  /\ phase[t] \in {"WAITING", "LOCKED"}
  /\ phase' = [phase EXCEPT ![t] = "READ"]
  /\ \E h \in Hash : /\ IsLastHash(h, table \cup pending[t])
                     /\ prevHash' = [prevHash EXCEPT ![t] = h]
  /\ UNCHANGED <<table, pending, nextSeq, holder, verifier>>

\* Mutant: an empty table has no last hash.
ReadLast_NoGenesis(t) ==
  /\ phase[t] = "LOCKED"
  /\ phase' = [phase EXCEPT ![t] = "READ"]
  /\ \E h \in Hash \cup {NULL} :
       /\ IF table \cup pending[t] = {}
            THEN h = NULL
            ELSE IsLastHash(h, table \cup pending[t])
       /\ prevHash' = [prevHash EXCEPT ![t] = h]
  /\ UNCHANGED <<table, pending, nextSeq, holder, verifier>>

ReadLast(t) ==
  /\ phase[t] = "LOCKED"
  /\ phase' = [phase EXCEPT ![t] = "READ"]
  /\ \E h \in Hash : /\ IsLastHash(h, table \cup pending[t])
                     /\ prevHash' = [prevHash EXCEPT ![t] = h]
  /\ UNCHANGED <<table, pending, nextSeq, holder, verifier>>

\* Mutant: the lock is given back with the insert.
InsertEvent_Unlocks(t) ==
  /\ phase[t] = "READ"
  /\ nextSeq <= MaxSeq
  /\ pending' = [pending EXCEPT ![t] = @ \cup {[seq |-> nextSeq, prev |-> prevHash[t]]}]
  /\ nextSeq' = nextSeq + 1
  /\ phase' = [phase EXCEPT ![t] = "OPEN"]
  /\ holder' = NULL
  /\ UNCHANGED <<table, prevHash, verifier>>

InsertEvent(t) ==
  /\ phase[t] = "READ"
  /\ nextSeq <= MaxSeq
  /\ pending' = [pending EXCEPT ![t] = @ \cup {[seq |-> nextSeq, prev |-> prevHash[t]]}]
  /\ nextSeq' = nextSeq + 1
  /\ phase' = [phase EXCEPT ![t] = "OPEN"]
  /\ UNCHANGED <<table, holder, prevHash, verifier>>

\* Mutant: the lock belongs to the session, not to the transaction.
End_KeepsLock(t) ==
  /\ pending' = [pending EXCEPT ![t] = {}]
  /\ phase' = [phase EXCEPT ![t] = "IDLE"]
  /\ UNCHANGED <<holder, nextSeq, prevHash, verifier>>

\* The end of a transaction gives the lock back.
End(t) ==
  /\ pending' = [pending EXCEPT ![t] = {}]
  /\ phase' = [phase EXCEPT ![t] = "IDLE"]
  /\ holder' = IF holder = t THEN NULL ELSE holder
  /\ UNCHANGED <<nextSeq, prevHash, verifier>>

Commit(t) ==
  /\ phase[t] = "OPEN"
  /\ table' = table \cup pending[t]
  /\ End(t)

\* An error in the handler, a lost connection, a crash of either side.
Rollback(t) ==
  /\ phase[t] # "IDLE"
  /\ UNCHANGED table
  /\ End(t)

-------------------------------------------------------------------------------
(* Verifying.                                                              *)

\* The first rows after a seq: a batch, or all there are.
IsBatch(B, after) ==
  LET rest == {r \in table : r.seq > after} IN
  /\ B \subseteq rest
  /\ \A r \in B, q \in rest \ B : r.seq < q.seq
  /\ \/ Cardinality(B) = BatchSize
     \/ Cardinality(B) < BatchSize /\ B = rest

\* Mutant: each batch is linked to the genesis hash.
Linked_FromGenesis(B, from) ==
  \A r \in B :
    LET before == {q \in B : q.seq < r.seq} IN
    IF before = {} THEN r.prev = Genesis ELSE IsLastHash(r.prev, before)

\* Every row of B names the hash of the row before it, the first one from.
Linked(B, from) ==
  \A r \in B :
    LET before == {q \in B : q.seq < r.seq} IN
    IF before = {} THEN r.prev = from ELSE IsLastHash(r.prev, before)

BeginVerification ==
  /\ verifier.verdict # "RUNNING"
  /\ verifier' = [verdict |-> "RUNNING", lastSeq |-> 0, prev |-> Genesis,
                  checked |-> 0, begun |-> Cardinality(table)]
  /\ UNCHANGED <<table, pending, nextSeq, holder, phase, prevHash>>

\* Mutant: the verification ends with its first full batch.
VerifyBatch_StopsEarly ==
  /\ verifier.verdict = "RUNNING"
  /\ \E B \in SUBSET table :
       /\ IsBatch(B, verifier.lastSeq)
       /\ IF Linked(B, verifier.prev)
            THEN \E h \in Hash :
                   /\ IF B = {} THEN h = verifier.prev ELSE IsLastHash(h, B)
                   /\ verifier' = [verifier EXCEPT
                        !.verdict = IF Cardinality(B) <= BatchSize THEN "OK" ELSE @,
                        !.lastSeq = h,
                        !.prev = h,
                        !.checked = @ + Cardinality(B)]
            ELSE verifier' = [verifier EXCEPT !.verdict = "BROKEN"]
  /\ UNCHANGED <<table, pending, nextSeq, holder, phase, prevHash>>

\* One SELECT and the loop over its rows.
VerifyBatch ==
  /\ verifier.verdict = "RUNNING"
  /\ \E B \in SUBSET table :
       /\ IsBatch(B, verifier.lastSeq)
       /\ IF Linked(B, verifier.prev)
            THEN \E h \in Hash :
                   /\ IF B = {} THEN h = verifier.prev ELSE IsLastHash(h, B)
                   /\ verifier' = [verifier EXCEPT
                        !.verdict = IF Cardinality(B) < BatchSize THEN "OK" ELSE @,
                        !.lastSeq = h,
                        !.prev = h,
                        !.checked = @ + Cardinality(B)]
            ELSE verifier' = [verifier EXCEPT !.verdict = "BROKEN"]
  /\ UNCHANGED <<table, pending, nextSeq, holder, phase, prevHash>>

-------------------------------------------------------------------------------
Append(t) == CallAppend(t) \/ AcquireLock(t) \/ ReadLast(t) \/ InsertEvent(t)

Next ==
  \/ \E t \in Tx : Begin(t) \/ Append(t) \/ Commit(t) \/ Rollback(t)
  \/ BeginVerification
  \/ VerifyBatch

Spec == Init /\ [][Next]_vars

\* PostgreSQL grants an advisory lock in the order of the requests, so one that
\* comes free again and again is had (SF); a handler goes on with its
\* transaction until it has ended (WF).
Fairness ==
  \A t \in Tx :
    /\ SF_vars(AcquireLock(t))
    /\ WF_vars(ReadLast(t) \/ InsertEvent(t))
    /\ WF_vars(CallAppend(t) \/ Commit(t))

FairSpec == Spec /\ Fairness
-------------------------------------------------------------------------------
(* Properties.                                                             *)

\* "The chain never forks under concurrency" (audit-chain.ts:10): whatever
\* transactions interleave, roll back and burn seqs, every committed event
\* names the hash of the committed event before it in seq order.
ChainNeverForks ==
  \A r \in table : IsLastHash(r.prev, {q \in table : q.seq < r.seq})

\* A commit only ever adds events behind all those that could be read before,
\* so that a reader who pages by seq misses none (audit-chain.ts:121).
CommitsInOrder ==
  [][/\ table \subseteq table'
     /\ \A r \in table, q \in table' \ table : r.seq < q.seq]_vars

\* A verification that runs while events are appended raises no false alarm
\* ("an integrity failure is a critical security event", audit-chain.ts:113).
NoFalseAlarm == verifier.verdict # "BROKEN"

\* A verification that ends well has looked at every event that was there when
\* it began, batch boundaries included.
VerificationIsComplete ==
  verifier.verdict = "OK" => verifier.checked >= verifier.begun

\* Whoever waits to append gets to the end of its transaction, however many
\* others queue for the chain (as long as the model has seqs left).
EveryAppendEnds ==
  \A t \in Tx : phase[t] = "WAITING" ~> phase[t] = "IDLE" \/ nextSeq > MaxSeq
===============================================================================
