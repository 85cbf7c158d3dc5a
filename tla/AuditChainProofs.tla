--------------------------- MODULE AuditChainProofs ---------------------------
(***************************************************************************)
(* The audit chain stays one chain, for any number of sessions, events and *)
(* any batch size.                                                         *)
(*                                                                         *)
(* The argument: only the holder of the advisory lock has rows that are    *)
(* not committed, and their seqs are above all committed ones; so the      *)
(* committed rows together with those of any one transaction are a chain   *)
(* by themselves, and stay one whoever commits or rolls back.              *)
(***************************************************************************)
EXTENDS AuditChain, FiniteSetTheorems, TLAPS

\* What transaction t sees.
Seen(t) == table \cup pending[t]

Before(r, R) == {q \in R : q.seq < r.seq}

Chain(R) == \A r \in R : IsLastHash(r.prev, Before(r, R))

\* The rows that the verification has accepted.
Accepted == {r \in table : r.seq <= verifier.lastSeq}

AppendInv ==
  /\ \A t \in Tx : pending[t] # {} \/ phase[t] \in {"LOCKED", "READ"} => holder = t
  /\ \A t \in Tx : \A r \in Seen(t) : r.seq < nextSeq
  /\ \A t \in Tx : \A r \in table, q \in pending[t] : r.seq < q.seq
  /\ \A t \in Tx : Chain(Seen(t))
  /\ \A t \in Tx : phase[t] = "READ" => IsLastHash(prevHash[t], Seen(t))
  /\ ChainNeverForks

VerifierInv ==
  /\ verifier.prev = verifier.lastSeq
  /\ IsLastHash(verifier.prev, Accepted)
  /\ verifier.verdict # "BROKEN"

CountInv ==
  /\ verifier.checked = Cardinality(Accepted)
  /\ verifier.begun <= Cardinality(table)
  /\ VerificationIsComplete

Finite == IsFiniteSet(table) /\ \A t \in Tx : IsFiniteSet(pending[t])

IndInv == TypeOK /\ Finite /\ AppendInv /\ VerifierInv /\ CountInv

-------------------------------------------------------------------------------
LEMMA LastHashUnique ==
  ASSUME NEW R \in SUBSET Row, NEW g, NEW h, IsLastHash(g, R), IsLastHash(h, R)
  PROVE  g = h
<1>1. CASE R = {}
  BY <1>1 DEF IsLastHash
<1>2. CASE R # {}
  <2>1. PICK r \in R : g = r.seq /\ \A q \in R : q.seq <= r.seq
    BY <1>2 DEF IsLastHash
  <2>2. PICK p \in R : h = p.seq /\ \A q \in R : q.seq <= p.seq
    BY <1>2 DEF IsLastHash
  <2>3. r.seq \in Int /\ p.seq \in Int
    BY DEF Row, Seq1
  <2> QED
    BY <2>1, <2>2, <2>3
<1> QED
  BY <1>1, <1>2

\* Adding rows at the end of a chain, each linked to what is before it.
LEMMA ChainGrows ==
  ASSUME NEW R \in SUBSET Row, Chain(R), NEW n \in Row,
         \A r \in R : r.seq < n.seq, IsLastHash(n.prev, R)
  PROVE  Chain(R \cup {n})
<1>1. ASSUME NEW r \in R PROVE Before(r, R \cup {n}) = Before(r, R)
  <2>1. r.seq \in Int /\ n.seq \in Int /\ r.seq < n.seq
    BY DEF Row, Seq1
  <2> QED
    BY <2>1 DEF Before
<1>2. Before(n, R \cup {n}) = R
  <2>1. n.seq \in Int
    BY DEF Row, Seq1
  <2> QED
    BY <2>1 DEF Before
<1> QED
  BY <1>1, <1>2 DEF Chain

LEMMA InitInv == Init => IndInv
<1> SUFFICES ASSUME Init PROVE IndInv
  OBVIOUS
<1> USE MaxSeqAssumption
<1>1. TypeOK
  BY DEF Init, TypeOK, Hash, Genesis, Seq1, Phase, Verifier
<1>2. Finite
  BY FS_EmptySet DEF Init, Finite
<1>3. AppendInv
  BY DEF Init, AppendInv, Seen, Chain, ChainNeverForks
<1>4. VerifierInv
  BY DEF Init, VerifierInv, Accepted, IsLastHash, Genesis
<1>5. CountInv
  <2>1. table = {} /\ Accepted = {}
    BY DEF Init, Accepted
  <2> QED
    BY <2>1, FS_EmptySet DEF Init, CountInv, VerificationIsComplete
<1> QED
  BY <1>1, <1>2, <1>3, <1>4, <1>5 DEF IndInv

LEMMA TypeStep == ASSUME IndInv, Next PROVE TypeOK' /\ Finite'
<1> USE DEF IndInv, TypeOK, Finite
<1>1. ASSUME NEW t \in Tx, Begin(t) \/ CallAppend(t) \/ AcquireLock(t)
      PROVE  TypeOK' /\ Finite'
  BY <1>1 DEF Begin, CallAppend, AcquireLock, Phase
<1>2. ASSUME NEW t \in Tx, ReadLast(t) PROVE TypeOK' /\ Finite'
  BY <1>2 DEF ReadLast, Phase
<1>3. ASSUME NEW t \in Tx, InsertEvent(t) PROVE TypeOK' /\ Finite'
  <2>1. [seq |-> nextSeq, prev |-> prevHash[t]] \in Row
    BY <1>3, MaxSeqAssumption DEF InsertEvent, Row, Seq1
  <2>2. nextSeq' \in 1 .. MaxSeq + 1
    BY <1>3, MaxSeqAssumption DEF InsertEvent
  <2>3. \A u \in Tx : IsFiniteSet(pending'[u])
    BY <1>3, FS_AddElement DEF InsertEvent
  <2> QED
    BY <1>3, <2>1, <2>2, <2>3 DEF InsertEvent, Phase
<1>4. ASSUME NEW t \in Tx, Commit(t) PROVE TypeOK' /\ Finite'
  <2>1. IsFiniteSet(table')
    BY <1>4, FS_Union DEF Commit
  <2>2. \A u \in Tx : IsFiniteSet(pending'[u])
    BY <1>4, FS_EmptySet DEF Commit, End
  <2> QED
    BY <1>4, <2>1, <2>2 DEF Commit, End, Phase
<1>5. ASSUME NEW t \in Tx, Rollback(t) PROVE TypeOK' /\ Finite'
  <2>1. \A u \in Tx : IsFiniteSet(pending'[u])
    BY <1>5, FS_EmptySet DEF Rollback, End
  <2> QED
    BY <1>5, <2>1 DEF Rollback, End, Phase
<1>6. CASE BeginVerification
  <2>1. Cardinality(table) \in Nat
    BY FS_CardinalityType
  <2> QED
    BY <1>6, <2>1 DEF BeginVerification, Verifier, Hash, Genesis
<1>7. CASE VerifyBatch
  <2>1. ASSUME NEW B \in SUBSET table PROVE Cardinality(B) \in Nat
    BY FS_Subset, FS_CardinalityType
  <2>2. verifier' \in Verifier
    <3>1. CASE verifier' = [verifier EXCEPT !.verdict = "BROKEN"]
      BY <3>1 DEF Verifier
    <3>2. ASSUME NEW B \in SUBSET table, NEW h \in Hash,
                 verifier' = [verifier EXCEPT
                   !.verdict = IF Cardinality(B) < BatchSize THEN "OK" ELSE @,
                   !.lastSeq = h, !.prev = h,
                   !.checked = @ + Cardinality(B)]
          PROVE  verifier' \in Verifier
      <4>1. verifier.checked + Cardinality(B) \in Nat
        BY <2>1 DEF Verifier
      <4> QED
        BY <3>2, <4>1 DEF Verifier
    <3> QED
      BY <1>7, <3>1, <3>2 DEF VerifyBatch
  <2> QED
    BY <1>7, <2>2 DEF VerifyBatch
<1> QED
  BY <1>1, <1>2, <1>3, <1>4, <1>5, <1>6, <1>7 DEF Next, Append

LEMMA AppendStep == ASSUME IndInv, Next PROVE AppendInv'
<1> USE DEF IndInv, AppendInv
<1>1. ASSUME NEW t \in Tx, Begin(t) \/ CallAppend(t) \/ AcquireLock(t)
      PROVE  AppendInv'
  <2>1. /\ table' = table /\ pending' = pending /\ nextSeq' = nextSeq
        /\ prevHash' = prevHash
    BY <1>1 DEF Begin, CallAppend, AcquireLock
  <2>2. \A u \in Tx : pending[u] # {} \/ phase'[u] \in {"LOCKED", "READ"} => holder' = u
    BY <1>1, NoTxNull DEF Begin, CallAppend, AcquireLock, TypeOK
  <2>3. \A u \in Tx : phase'[u] = "READ" => phase[u] = "READ"
    BY <1>1 DEF Begin, CallAppend, AcquireLock, TypeOK
  <2>4. \A u \in Tx : Seen(u)' = Seen(u) /\ Chain(Seen(u))'
    BY <2>1 DEF Seen, Chain, Before
  <2>5. \A u \in Tx : phase'[u] = "READ" => IsLastHash(prevHash[u], Seen(u))
    BY <2>3
  <2>6. ChainNeverForks'
    BY <2>1 DEF ChainNeverForks
  <2> QED
    BY <2>1, <2>2, <2>4, <2>5, <2>6
<1>2. ASSUME NEW t \in Tx, ReadLast(t) PROVE AppendInv'
  BY <1>2 DEF ReadLast, TypeOK, Seen, Chain, ChainNeverForks
<1>3. ASSUME NEW t \in Tx, InsertEvent(t) PROVE AppendInv'
  <2> DEFINE n == [seq |-> nextSeq, prev |-> prevHash[t]]
  <2>1. n \in Row /\ n.seq = nextSeq /\ n.prev = prevHash[t] /\ nextSeq \in Int
    BY <1>3, MaxSeqAssumption DEF InsertEvent, Row, Seq1, TypeOK
  <2>2. pending' = [pending EXCEPT ![t] = pending[t] \cup {n}]
    BY <1>3 DEF InsertEvent
  <2>3. /\ table' = table /\ nextSeq' = nextSeq + 1 /\ holder' = holder
        /\ phase' = [phase EXCEPT ![t] = "OPEN"] /\ prevHash' = prevHash
        /\ phase[t] = "READ" /\ holder = t
    BY <1>3 DEF InsertEvent
  <2> HIDE DEF n
  <2>4. Seen(t)' = Seen(t) \cup {n} /\ \A u \in Tx \ {t} : Seen(u)' = Seen(u)
    BY <2>2, <2>3 DEF Seen, TypeOK
  <2>5. \A u \in Tx : Seen(u) \in SUBSET Row
    BY DEF Seen, TypeOK
  <2>6. \A u \in Tx : pending'[u] # {} \/ phase'[u] \in {"LOCKED", "READ"} => holder' = u
    BY <2>2, <2>3 DEF TypeOK
  <2>7. \A u \in Tx : \A r \in Seen(u)' : r.seq < nextSeq'
    BY <2>1, <2>3, <2>4, <2>5 DEF Row, Seq1
  <2>8. \A u \in Tx : \A r \in table', q \in pending'[u] : r.seq < q.seq
    BY <2>1, <2>2, <2>3 DEF Seen, TypeOK
  <2>9. \A u \in Tx : Chain(Seen(u))'
    <3>1. Chain(Seen(t) \cup {n})
      BY <2>1, <2>3, <2>5, ChainGrows
    <3> QED
      BY <2>4, <3>1 DEF Chain, Before, IsLastHash
  <2>10. \A u \in Tx : phase'[u] = "READ" => IsLastHash(prevHash'[u], Seen(u)')
    BY <2>3, <2>4 DEF TypeOK, IsLastHash
  <2>11. ChainNeverForks'
    BY <2>3 DEF ChainNeverForks
  <2> QED
    BY <2>6, <2>7, <2>8, <2>9, <2>10, <2>11
<1>4. ASSUME NEW t \in Tx, Commit(t) PROVE AppendInv'
  <2>1. CASE pending[t] = {}
    BY <1>4, <2>1 DEF Commit, End, TypeOK, Seen, Chain, ChainNeverForks
  <2>2. CASE pending[t] # {}
    <3>1. /\ holder = t
          /\ \A u \in Tx \ {t} : pending[u] = {} /\ phase[u] \notin {"LOCKED", "READ"}
      BY <2>2
    <3>2. /\ table' = Seen(t) /\ phase' = [phase EXCEPT ![t] = "IDLE"]
          /\ pending' = [pending EXCEPT ![t] = {}] /\ nextSeq' = nextSeq
      BY <1>4 DEF Commit, End, Seen
    <3>3. \A u \in Tx : pending'[u] = {} /\ phase'[u] \notin {"LOCKED", "READ"}
      BY <3>1, <3>2 DEF TypeOK
    <3>4. \A u \in Tx : Seen(u)' = Seen(t)
      BY <3>2, <3>3 DEF Seen
    <3>5. Chain(Seen(t))
      OBVIOUS
    <3>6. ChainNeverForks'
      BY <3>2, <3>5 DEF ChainNeverForks, Chain, Before
    <3>7. \A u \in Tx : Chain(Seen(u))'
      BY <3>4, <3>5 DEF Chain, Before
    <3> QED
      BY <3>2, <3>3, <3>4, <3>6, <3>7
  <2> QED
    BY <2>1, <2>2
<1>5. ASSUME NEW t \in Tx, Rollback(t) PROVE AppendInv'
  <2>1. /\ table' = table /\ phase' = [phase EXCEPT ![t] = "IDLE"]
        /\ pending' = [pending EXCEPT ![t] = {}] /\ nextSeq' = nextSeq
        /\ prevHash' = prevHash /\ (holder' = holder \/ holder = t)
    BY <1>5 DEF Rollback, End
  <2>2. Seen(t)' = table /\ \A u \in Tx \ {t} : Seen(u)' = Seen(u)
    BY <2>1 DEF Seen, TypeOK
  <2>3. Chain(table)
    BY DEF ChainNeverForks, Chain, Before
  <2>4. \A u \in Tx : Chain(Seen(u))'
    BY <2>2, <2>3 DEF Chain, Before
  <2>5. \A u \in Tx : pending'[u] # {} \/ phase'[u] \in {"LOCKED", "READ"} => holder' = u
    BY <2>1 DEF TypeOK
  <2>6. \A u \in Tx : \A r \in Seen(u)' : r.seq < nextSeq'
    BY <2>1, <2>2 DEF Seen
  <2>7. \A u \in Tx : phase'[u] = "READ" => IsLastHash(prevHash'[u], Seen(u)')
    BY <2>1, <2>2 DEF TypeOK
  <2> QED
    BY <2>1, <2>4, <2>5, <2>6, <2>7 DEF TypeOK, ChainNeverForks
<1>6. CASE BeginVerification \/ VerifyBatch
  BY <1>6 DEF BeginVerification, VerifyBatch, Seen, Chain, ChainNeverForks
<1> QED
  BY <1>1, <1>2, <1>3, <1>4, <1>5, <1>6 DEF Next, Append

\* Commits put rows behind all the committed ones.
LEMMA CommitOrderStep ==
  ASSUME IndInv, [Next]_vars
  PROVE  /\ table \subseteq table'
         /\ \A r \in table, q \in table' \ table : r.seq < q.seq
<1> USE DEF IndInv, AppendInv
<1>1. ASSUME NEW t \in Tx, Commit(t)
      PROVE  /\ table \subseteq table'
             /\ \A r \in table, q \in table' \ table : r.seq < q.seq
  BY <1>1 DEF Commit
<1>2. CASE table' = table
  BY <1>2
<1> QED
  BY <1>1, <1>2
     DEF Next, Append, Begin, CallAppend, AcquireLock, ReadLast, InsertEvent, Rollback,
         BeginVerification, VerifyBatch, vars

\* What the verification has accepted is not touched by later appends.
LEMMA AcceptedStays ==
  ASSUME IndInv, TypeOK', [Next]_vars, verifier' = verifier
  PROVE  Accepted' = Accepted
<1> USE DEF IndInv
<1>1. table \subseteq table' /\ \A r \in table, q \in table' \ table : r.seq < q.seq
  BY CommitOrderStep
<1>2. verifier.lastSeq \in Int /\ \A r \in table' : r.seq \in 1 .. MaxSeq
  BY MaxSeqAssumption DEF TypeOK, Verifier, Hash, Genesis, Seq1, Row
<1>3. CASE Accepted = {}
  <2>1. verifier.lastSeq = 0
    BY <1>3 DEF VerifierInv, IsLastHash, Genesis
  <2> QED
    BY <1>3, <1>2, <2>1, MaxSeqAssumption DEF Accepted
<1>4. CASE Accepted # {}
  <2>1. PICK r \in Accepted : verifier.lastSeq = r.seq
    BY <1>4 DEF VerifierInv, IsLastHash
  <2> QED
    BY <1>1, <1>2, <2>1, MaxSeqAssumption DEF Accepted
<1> QED
  BY <1>3, <1>4

\* A batch is linked to what was accepted before it.
LEMMA BatchLinked ==
  ASSUME IndInv, NEW B \in SUBSET table, IsBatch(B, verifier.lastSeq)
  PROVE  Linked(B, verifier.prev)
<1> USE DEF IndInv
<1>1. /\ verifier.lastSeq \in Int /\ table \subseteq Row
      /\ \A r \in table : r.seq \in Int
  BY MaxSeqAssumption DEF TypeOK, Verifier, Hash, Genesis, Seq1, Row
<1> SUFFICES ASSUME NEW r \in B
    PROVE  IF {q \in B : q.seq < r.seq} = {}
             THEN r.prev = verifier.prev
             ELSE IsLastHash(r.prev, {q \in B : q.seq < r.seq})
  BY DEF Linked
<1> DEFINE before == {q \in B : q.seq < r.seq}
           older == {q \in table : q.seq < r.seq}
<1>2. IsLastHash(r.prev, older)
  BY DEF AppendInv, ChainNeverForks
<1>3. older = Accepted \cup before
  <2>1. ASSUME NEW q \in table, q.seq < r.seq
        PROVE  q \in B \/ q.seq <= verifier.lastSeq
    BY <1>1, <2>1 DEF IsBatch
  <2>2. \A q \in Accepted : q \in table /\ q.seq < r.seq
    BY <1>1 DEF Accepted, IsBatch
  <2> QED
    BY <2>1, <2>2 DEF Accepted
<1>4. CASE before = {}
  <2>1. older = Accepted
    BY <1>3, <1>4
  <2>2. Accepted \in SUBSET Row
    BY <1>1 DEF Accepted
  <2>3. IsLastHash(verifier.prev, Accepted)
    BY DEF VerifierInv
  <2>4. r.prev = verifier.prev
    BY <1>2, <2>1, <2>2, <2>3, LastHashUnique
  <2> QED
    BY <1>4, <2>4
<1>5. CASE before # {}
  <2>1. PICK q \in before : TRUE
    BY <1>5
  <2>2. q \in older /\ q \notin Accepted
    BY <1>1, <2>1 DEF IsBatch, Accepted
  <2>3. PICK p \in older : r.prev = p.seq /\ \A x \in older : x.seq <= p.seq
    BY <1>2, <2>2 DEF IsLastHash
  <2>4. p \in before
    <3>1. q.seq <= p.seq
      BY <2>2, <2>3
    <3>2. p \notin Accepted
      BY <1>1, <2>2, <3>1 DEF Accepted
    <3> QED
      BY <1>3, <3>2
  <2>5. IsLastHash(r.prev, before)
    BY <1>3, <2>3, <2>4 DEF IsLastHash
  <2> QED
    BY <1>5, <2>5
<1> QED
  BY <1>4, <1>5

LEMMA VerifierStep ==
  ASSUME IndInv, TypeOK', [Next]_vars PROVE VerifierInv'
<1> USE DEF IndInv
<1>1. CASE verifier' = verifier
  <2>1. Accepted' = Accepted
    BY <1>1, AcceptedStays
  <2> QED
    BY <1>1, <2>1 DEF VerifierInv, IsLastHash
<1>2. CASE BeginVerification
  <2>1. verifier'.verdict = "RUNNING" /\ verifier'.lastSeq = 0 /\ verifier'.prev = Genesis
    BY <1>2 DEF BeginVerification
  <2>2. Accepted' = {}
    BY <2>1, MaxSeqAssumption DEF Accepted, TypeOK, Row, Seq1
  <2> QED
    BY <2>1, <2>2 DEF VerifierInv, IsLastHash, Genesis
<1>3. CASE VerifyBatch
  <2>1. PICK B \in SUBSET table :
          /\ IsBatch(B, verifier.lastSeq)
          /\ IF Linked(B, verifier.prev)
               THEN \E h \in Hash :
                      /\ IF B = {} THEN h = verifier.prev ELSE IsLastHash(h, B)
                      /\ verifier' = [verifier EXCEPT
                           !.verdict = IF Cardinality(B) < BatchSize THEN "OK" ELSE @,
                           !.lastSeq = h, !.prev = h,
                           !.checked = @ + Cardinality(B)]
               ELSE verifier' = [verifier EXCEPT !.verdict = "BROKEN"]
    BY <1>3 DEF VerifyBatch
  <2>2. PICK h \in Hash :
          /\ IF B = {} THEN h = verifier.prev ELSE IsLastHash(h, B)
          /\ verifier' = [verifier EXCEPT
               !.verdict = IF Cardinality(B) < BatchSize THEN "OK" ELSE @,
               !.lastSeq = h, !.prev = h, !.checked = @ + Cardinality(B)]
    BY <2>1, BatchLinked
  <2>3. /\ verifier'.verdict # "BROKEN"
        /\ verifier'.lastSeq = h /\ verifier'.prev = h
    BY <2>2 DEF TypeOK, Verifier, VerifierInv
  <2>4. table' = table
    BY <1>3 DEF VerifyBatch
  <2>5. CASE B = {}
    <3>1. h = verifier.lastSeq /\ h = verifier.prev
      BY <2>2, <2>5 DEF VerifierInv
    <3>2. Accepted' = Accepted
      BY <2>3, <2>4, <3>1 DEF Accepted
    <3> QED
      BY <2>3, <3>1, <3>2 DEF VerifierInv
  <2>6. CASE B # {}
    <3>1. PICK r \in B : h = r.seq
      BY <2>2, <2>6 DEF IsLastHash
    <3>2. r.seq \in Int /\ \A q \in table : q.seq \in Int
      BY DEF TypeOK, Row, Seq1
    <3>3. r \in Accepted' /\ \A q \in Accepted' : q.seq <= r.seq
      BY <2>3, <2>4, <3>1, <3>2 DEF Accepted
    <3> QED
      BY <2>3, <3>1, <3>3 DEF VerifierInv, IsLastHash
  <2> QED
    BY <2>5, <2>6
<1> QED
  BY <1>1, <1>2, <1>3
     DEF Next, Append, Begin, CallAppend, AcquireLock, ReadLast, InsertEvent, Commit,
         Rollback, End, vars

\* The verification counts what it accepts: a batch is taken from what follows it.
LEMMA CountStep ==
  ASSUME IndInv, TypeOK', Finite', VerifierInv', [Next]_vars PROVE CountInv'
<1> USE DEF IndInv
<1>1. /\ IsFiniteSet(table) /\ IsFiniteSet(table') /\ table \subseteq table'
      /\ Cardinality(table) \in Nat /\ Cardinality(table') \in Nat
      /\ Cardinality(table) <= Cardinality(table')
  <2>1. IsFiniteSet(table) /\ IsFiniteSet(table') /\ table \subseteq table'
    BY CommitOrderStep DEF Finite
  <2> QED
    BY <2>1, FS_Subset, FS_CardinalityType
<1>2. verifier.begun \in Nat /\ verifier.checked \in Nat
  BY DEF TypeOK, Verifier
<1>3. CASE verifier' = verifier
  <2>1. Accepted' = Accepted
    BY <1>3, AcceptedStays
  <2> QED
    BY <1>1, <1>2, <1>3, <2>1 DEF CountInv, VerificationIsComplete
<1>4. CASE BeginVerification
  <2>1. /\ verifier'.verdict = "RUNNING" /\ verifier'.lastSeq = 0
        /\ verifier'.checked = 0 /\ verifier'.begun = Cardinality(table)
    BY <1>4 DEF BeginVerification
  <2>2. Accepted' = {}
    BY <2>1, MaxSeqAssumption DEF Accepted, TypeOK, Row, Seq1
  <2> QED
    BY <1>1, <2>1, <2>2, FS_EmptySet DEF CountInv, VerificationIsComplete
<1>5. CASE VerifyBatch
  <2>1. PICK B \in SUBSET table, h \in Hash :
          /\ IsBatch(B, verifier.lastSeq)
          /\ IF B = {} THEN h = verifier.prev ELSE IsLastHash(h, B)
          /\ verifier' = [verifier EXCEPT
               !.verdict = IF Cardinality(B) < BatchSize THEN "OK" ELSE @,
               !.lastSeq = h, !.prev = h, !.checked = @ + Cardinality(B)]
    BY <1>5, BatchLinked DEF VerifyBatch
  <2>2. /\ table' = table /\ verifier'.lastSeq = h /\ verifier'.begun = verifier.begun
        /\ verifier'.checked = verifier.checked + Cardinality(B)
        /\ verifier'.verdict = "OK" => verifier.verdict = "OK" \/ Cardinality(B) < BatchSize
    BY <1>5, <2>1 DEF VerifyBatch, TypeOK, Verifier
  <2>3. /\ verifier.lastSeq \in Int
        /\ h \in Int
        /\ \A r \in table : r.seq \in Int
    BY MaxSeqAssumption DEF TypeOK, Verifier, Hash, Genesis, Seq1, Row
  <2>4. Accepted' = Accepted \cup B /\ Accepted \cap B = {}
    <3>1. \A r \in B : r.seq > verifier.lastSeq
      BY <2>1 DEF IsBatch
    <3>2. CASE B = {}
      BY <2>1, <2>2, <3>2 DEF Accepted, VerifierInv
    <3>3. CASE B # {}
      <4>1. PICK p \in B : h = p.seq /\ \A q \in B : q.seq <= p.seq
        BY <2>1, <3>3 DEF IsLastHash
      <4>2. ASSUME NEW r \in table, r.seq <= h, r.seq > verifier.lastSeq PROVE r \in B
        BY <2>1, <2>3, <4>1, <4>2 DEF IsBatch
      <4> QED
        BY <2>2, <2>3, <3>1, <4>1, <4>2 DEF Accepted
    <3> QED
      BY <3>2, <3>3
  <2>5. verifier'.checked = Cardinality(Accepted')
    <3>1. IsFiniteSet(Accepted) /\ IsFiniteSet(B)
      BY <1>1, <2>1, FS_Subset DEF Accepted
    <3>2. Cardinality(Accepted \cup B) = Cardinality(Accepted) + Cardinality(B) - Cardinality({})
      BY <2>4, <3>1, FS_Union
    <3> QED
      BY <2>2, <2>4, <3>1, <3>2, FS_EmptySet, FS_CardinalityType DEF CountInv
  <2>6. Cardinality(B) < BatchSize => Accepted' = table'
    <3>1. Cardinality(B) \in Nat
      BY <1>1, <2>1, FS_Subset, FS_CardinalityType
    <3>2. Cardinality(B) < BatchSize => B = {r \in table : r.seq > verifier.lastSeq}
      BY <2>1, <3>1, BatchAssumption DEF IsBatch
    <3> QED
      BY <2>2, <2>3, <2>4, <3>2 DEF Accepted
  <2>7. verifier.verdict # "OK"
    BY <1>5 DEF VerifyBatch
  <2> QED
    BY <1>1, <2>2, <2>5, <2>6, <2>7 DEF CountInv, VerificationIsComplete
<1> QED
  BY <1>3, <1>4, <1>5
     DEF Next, Append, Begin, CallAppend, AcquireLock, ReadLast, InsertEvent, Commit,
         Rollback, End, vars

LEMMA StepInv == IndInv /\ [Next]_vars => IndInv'
<1> SUFFICES ASSUME IndInv, [Next]_vars PROVE IndInv'
  OBVIOUS
<1>1. TypeOK' /\ Finite' /\ AppendInv'
  <2>1. CASE Next
    BY <2>1, TypeStep, AppendStep
  <2>2. CASE UNCHANGED vars
    BY <2>2
       DEF vars, IndInv, TypeOK, Finite, AppendInv, Seen, Chain, Before, ChainNeverForks
  <2> QED
    BY <2>1, <2>2
<1>2. VerifierInv'
  BY <1>1, VerifierStep
<1>3. CountInv'
  BY <1>1, <1>2, CountStep
<1> QED
  BY <1>1, <1>2, <1>3 DEF IndInv

THEOREM Invariance == Spec => []IndInv
BY InitInv, StepInv, PTL DEF Spec

\* Types, for any number of sessions.
THEOREM TypeCorrect == Spec => []TypeOK
<1>1. IndInv => TypeOK
  BY DEF IndInv
<1> QED
  BY <1>1, Invariance, PTL

\* The chain never forks, for any number of sessions and events.
THEOREM OneChain == Spec => []ChainNeverForks
<1>1. IndInv => ChainNeverForks
  BY DEF IndInv, AppendInv
<1> QED
  BY <1>1, Invariance, PTL

\* Commits extend the chain at its end only.
THEOREM AppendOnly == Spec => CommitsInOrder
<1>1. IndInv /\ [Next]_vars =>
        [/\ table \subseteq table'
         /\ \A r \in table, q \in table' \ table : r.seq < q.seq]_vars
  BY CommitOrderStep
<1> QED
  BY <1>1, Invariance, PTL DEF Spec, CommitsInOrder

\* A verification next to any appends, with any batch size, finds no break.
THEOREM VerificationNeverAlarms == Spec => []NoFalseAlarm
<1>1. IndInv => NoFalseAlarm
  BY DEF IndInv, VerifierInv, NoFalseAlarm
<1> QED
  BY <1>1, Invariance, PTL

\* A verification that ends well has counted as many events as there were when it
\* began, whatever was appended meanwhile and however its batches were cut.
THEOREM VerificationMissesNone == Spec => []VerificationIsComplete
<1>1. IndInv => VerificationIsComplete
  BY DEF IndInv, CountInv
<1> QED
  BY <1>1, Invariance, PTL
===============================================================================
