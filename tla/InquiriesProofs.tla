---------------------------- MODULE InquiriesProofs ----------------------------
(***************************************************************************)
(* Theorems about those who ask others: SourceValidation, for any requests,*)
(* numbers and register and everything that Issuance leaves open; Merkle,  *)
(* for batches of any size; and OpenVerifier, for any keys, any length of  *)
(* the list and any run of time.                                           *)
(*                                                                         *)
(* Validations write no column of the workflow, so that a behaviour with   *)
(* them is one of Issuance: its theorems hold beside any number of         *)
(* validations in flight.  What the handler itself promises, that an       *)
(* outcome has true evidence, is inductive with the types of its columns.  *)
(*                                                                         *)
(* That a proof leads to the root is induction over the levels: the hashes *)
(* of the path so far make the node that the path is at (PathHashes), and  *)
(* a level is shorter than the one below until one node is left            *)
(* (LevelsShrink).                                                         *)
(*                                                                         *)
(* Between the fetches of a verification anything may change.  What it     *)
(* relies on does not: every document in circulation has the keys in use   *)
(* that are not revoked (KeysAreResolvable), whatever list is marked is of *)
(* a revoked diploma, and once everything in circulation says "revoked" it *)
(* goes on to (SettledStays).  ChecksRemember says at which stage which of *)
(* these was established.                                                  *)
(***************************************************************************)
EXTENDS MCInquiries, IssuanceProofs, WellFoundedInduction

-------------------------------------------------------------------------------
(* Types of the columns of validation.                                     *)

ColumnsOK ==
  /\ number \in [Credential -> Number \cup {NULL}]
  /\ source \in [Credential -> SourceValidationStatus]
  /\ evidence \in [Credential -> SUBSET [degreeNumber : Number, toStatus : Outcome]]
  /\ requests \in [Request -> RequestState \cup {Idle, Done}]

-------------------------------------------------------------------------------
(* The workflow beside validations.                                        *)

LEMMA SourceStepIsStep == SourceNext => [Next]_vars
<1> SUFFICES ASSUME SourceNext PROVE [Next]_vars
  OBVIOUS
<1>1. ASSUME NEW u \in Staff, OtherWork(u) PROVE Next
  BY <1>1 DEF OtherWork, Next, CredentialNext, CaseNext
<1>2. ASSUME NEW u \in Staff, NEW c \in Credential, NEW claims \in Claims, NEW n,
             CreateNumberedDraft(u, c, claims, n) \/ EditNumberedDraft(u, c, claims, n)
      PROVE  Next
  BY <1>2 DEF CreateNumberedDraft, EditNumberedDraft, Next, CredentialNext
<1>3. ASSUME NEW u \in Staff, NEW k \in Case, NEW r \in Credential,
             ApproveNumberedReplacement(u, k, r)
      PROVE  Next
  BY <1>3 DEF ApproveNumberedReplacement, Next, CaseNext
<1>4. ASSUME NEW r \in Request,
             \/ MarkChecking(r) \/ FinishValidation(r) \/ AbandonValidation(r)
             \/ \E u \in Staff, c \in Credential : ReadForValidation(u, r, c)
      PROVE  UNCHANGED vars
  BY <1>4 DEF MarkChecking, FinishValidation, AbandonValidation, ReadForValidation
<1> QED
  BY <1>1, <1>2, <1>3, <1>4 DEF SourceNext

\* Validations, however they overlap and die, are nothing to the workflow.
THEOREM ValidationsAreStutters == SourceSpec => Spec
<1>1. SourceInit => Init
  BY DEF SourceInit
<1>2. [SourceNext]_<<vars, sourceVars>> => [Next]_vars
  BY SourceStepIsStep
<1> QED
  BY <1>1, <1>2, PTL DEF SourceSpec, Spec

-------------------------------------------------------------------------------
(* Outcomes.                                                               *)

LEMMA CaseHasCredential ==
  ASSUME TypeOK, NEW u, NEW k \in Case, MayDecide(u, k)
  PROVE  cases[k].credential \in Credential
BY PresentRows DEF MayDecide, CaseRow

\* What one answer about number n comes to.
LEMMA Answers ==
  ASSUME NEW n \in Number, NEW answer \in FetchDiploma(n)
  PROVE  /\ ToSourceValidationStatus(answer) \in Outcome
         /\ ToSourceValidationStatus(answer) \in
              {"UNAVAILABLE", IF Register[n] = "same" THEN "MATCHED" ELSE "MISMATCH"}
<1>1. Register[n] \in RegisterEntry
  BY RegisterAssumption
<1> QED
  BY <1>1 DEF FetchDiploma, ToSourceValidationStatus, RegisterEntry, Outcome

\* The writes of an outcome.
LEMMA Finished ==
  ASSUME ColumnsOK, NEW r \in Request, FinishValidation(r)
  PROVE  \E c \in Credential, n \in Number : \E answer \in FetchDiploma(n) :
           LET status == ToSourceValidationStatus(answer) IN
           /\ source' = [source EXCEPT ![c] = status]
           /\ evidence' = [evidence EXCEPT ![c] =
                @ \cup {[degreeNumber |-> n, toStatus |-> status]}]
           /\ requests' = [requests EXCEPT ![r] = Done]
           /\ number' = number
<1>1. requests[r] \in RequestState
  BY DEF ColumnsOK, FinishValidation, Idle, Done, NoRequest
<1> QED
  BY <1>1 DEF FinishValidation, RequestState

LEMMA ColumnsStep ==
  ASSUME TypeOK, ColumnsOK, SourceNext PROVE ColumnsOK'
<1>1. ASSUME NEW u \in Staff, NEW r \in Request, NEW c \in Credential,
             ReadForValidation(u, r, c)
      PROVE  ColumnsOK'
  BY <1>1 DEF ReadForValidation, ColumnsOK, RequestState
<1>2. ASSUME NEW r \in Request, MarkChecking(r) PROVE ColumnsOK'
  BY <1>2 DEF MarkChecking, ColumnsOK, RequestState, SourceValidationStatus, Idle, Done,
              NoRequest
<1>3. ASSUME NEW r \in Request, FinishValidation(r) PROVE ColumnsOK'
  BY <1>3, Finished, Answers DEF ColumnsOK, Outcome, SourceValidationStatus
<1>4. ASSUME NEW r \in Request, AbandonValidation(r) PROVE ColumnsOK'
  BY <1>4 DEF AbandonValidation, ColumnsOK
<1>5. ASSUME NEW u \in Staff, NEW c \in Credential, NEW claims \in Claims,
             NEW n \in Number \cup {NULL},
             CreateNumberedDraft(u, c, claims, n) \/ EditNumberedDraft(u, c, claims, n)
      PROVE  ColumnsOK'
  BY <1>5 DEF CreateNumberedDraft, EditNumberedDraft, ColumnsOK
<1>6. ASSUME NEW u \in Staff, NEW k \in Case, NEW r \in Credential,
             ApproveNumberedReplacement(u, k, r)
      PROVE  ColumnsOK'
  BY <1>6, CaseHasCredential DEF ApproveNumberedReplacement, ApproveReplacement, ColumnsOK
<1>7. ASSUME NEW u \in Staff, OtherWork(u) PROVE ColumnsOK'
  BY <1>7 DEF OtherWork, sourceVars, ColumnsOK
<1> QED
  BY <1>1, <1>2, <1>3, <1>4, <1>5, <1>6, <1>7 DEF SourceNext

LEMMA OutcomeStep ==
  ASSUME ColumnsOK, OutcomeHasEvidence, SourceNext PROVE OutcomeHasEvidence'
<1>1. ASSUME NEW r \in Request, MarkChecking(r) PROVE OutcomeHasEvidence'
  BY <1>1 DEF MarkChecking, ColumnsOK, OutcomeHasEvidence
<1>2. ASSUME NEW r \in Request, FinishValidation(r) PROVE OutcomeHasEvidence'
  <2>0. PICK c \in Credential, n \in Number : \E answer \in FetchDiploma(n) :
          LET status == ToSourceValidationStatus(answer) IN
          /\ source' = [source EXCEPT ![c] = status]
          /\ evidence' = [evidence EXCEPT ![c] =
               @ \cup {[degreeNumber |-> n, toStatus |-> status]}]
    BY <1>2, Finished
  <2>1. PICK answer \in FetchDiploma(n) :
          LET status == ToSourceValidationStatus(answer) IN
          /\ source' = [source EXCEPT ![c] = status]
          /\ evidence' = [evidence EXCEPT ![c] =
               @ \cup {[degreeNumber |-> n, toStatus |-> status]}]
    BY <2>0
  <2> DEFINE new == [degreeNumber |-> n, toStatus |-> ToSourceValidationStatus(answer)]
  <2>2. /\ new.toStatus = source'[c]
        /\ new.toStatus \in {"UNAVAILABLE",
             IF Register[new.degreeNumber] = "same" THEN "MATCHED" ELSE "MISMATCH"}
    BY <2>1, Answers DEF ColumnsOK
  <2>3. evidence'[c] = evidence[c] \cup {new}
    BY <2>1 DEF ColumnsOK
  <2>4. \A d \in Credential \ {c} : evidence'[d] = evidence[d] /\ source'[d] = source[d]
    BY <2>1 DEF ColumnsOK
  <2> HIDE DEF new
  <2> QED
    BY <2>2, <2>3, <2>4 DEF OutcomeHasEvidence
<1>3. CASE UNCHANGED <<source, evidence>>
  BY <1>3 DEF OutcomeHasEvidence
<1> QED
  BY <1>1, <1>2, <1>3
     DEF SourceNext, ReadForValidation, AbandonValidation, CreateNumberedDraft,
         EditNumberedDraft, ApproveNumberedReplacement, OtherWork, sourceVars

-------------------------------------------------------------------------------
(* Theorems about the validations.                                         *)

LEMMA SourceInitInv == SourceInit => ColumnsOK /\ OutcomeHasEvidence
BY DEF SourceInit, ColumnsOK, OutcomeHasEvidence, SourceValidationStatus

LEMMA SourceStepInv ==
  IndInv /\ ColumnsOK /\ OutcomeHasEvidence /\ [SourceNext]_<<vars, sourceVars>>
    => ColumnsOK' /\ OutcomeHasEvidence'
<1>1. CASE SourceNext
  BY <1>1, ColumnsStep, OutcomeStep DEF IndInv
<1>2. CASE UNCHANGED <<vars, sourceVars>>
  BY <1>2 DEF sourceVars, ColumnsOK, OutcomeHasEvidence
<1> QED
  BY <1>1, <1>2

\* The columns of validation are well-typed, and so is the workflow beside them.
THEOREM SourceTypeCorrect == SourceSpec => []SourceTypeOK
<1>1. IndInv /\ ColumnsOK => SourceTypeOK
  BY DEF IndInv, ColumnsOK, SourceTypeOK
<1> QED
  BY <1>1, ValidationsAreStutters, Invariance, SourceInitInv, SourceStepInv, PTL
     DEF SourceSpec

\* An outage never becomes MISMATCH: whatever overlaps and dies, an outcome has
\* evidence, and evidence is what HEMIS holds under the number it names.
THEOREM OutcomesAreEvident == SourceSpec => []OutcomeHasEvidence
BY ValidationsAreStutters, Invariance, SourceInitInv, SourceStepInv, PTL DEF SourceSpec

-------------------------------------------------------------------------------
(* The Merkle tree of a batch.                                             *)

\* Induction, by the least number that is not counted.
LEMMA CountUp ==
  ASSUME NEW n \in Nat, NEW S,
         0 \in S, \A k \in 0 .. n : k \in S /\ k < n => k + 1 \in S
  PROVE  (0 .. n) \subseteq S
<1> SUFFICES ASSUME ~((0 .. n) \subseteq S) PROVE FALSE
  OBVIOUS
<1> DEFINE T == (0 .. n) \ S
<1>1. T \in SUBSET Nat /\ T # {}
  OBVIOUS
<1>2. PICK i \in T : \A j \in T : <<j, i>> \notin OpToRel(<, Nat)
  BY <1>1, NatLessThanWellFounded, WFMin
<1>3. \A j \in T : ~(j < i)
  <2>1. \A j \in T : <<j, i>> \in OpToRel(<, Nat) <=> j < i
    BY <1>1, <1>2 DEF OpToRel
  <2> QED
    BY <1>2, <2>1, Zenon
<1>4. i \in 0 .. n /\ i \notin S
  OBVIOUS
<1>5. i # 0
  BY <1>4
<1>6. i - 1 \in 0 .. n /\ i - 1 < n /\ i - 1 < i /\ (i - 1) + 1 = i
  BY <1>4, <1>5
<1>7. i - 1 \in S
  BY <1>3, <1>6
<1> QED
  BY <1>4, <1>6, <1>7

\* The loops of the code as equations: what they compute exists, by induction over
\* the number of rounds.
LEMMA LevelsFrom ==
  ASSUME NEW n \in Nat
  PROVE  Levels(n) = [k \in 0 .. n |-> IF k = 0 THEN Leaves(n) ELSE NextLevel(Levels(n)[k - 1])]
<1> DEFINE Rec(f, m) == f = [k \in 0 .. m |-> IF k = 0 THEN Leaves(n) ELSE NextLevel(f[k - 1])]
           S == {m \in Nat : \E f : Rec(f, m)}
<1>1. 0 \in S
  <2> DEFINE f == [k \in 0 .. 0 |-> Leaves(n)]
  <2>1. Rec(f, 0)
    OBVIOUS
  <2> QED
    BY <2>1, Zenon
<1>2. ASSUME NEW m \in Nat, m \in S PROVE m + 1 \in S
  <2>1. PICK g : Rec(g, m)
    BY <1>2
  <2> DEFINE f == [k \in 0 .. m + 1 |-> IF k = 0 THEN Leaves(n) ELSE NextLevel(g[k - 1])]
  <2>2. \A k \in 0 .. m : f[k] = g[k]
    BY <2>1
  <2>3. \A k \in 0 .. m + 1 : k # 0 => f[k - 1] = g[k - 1]
    BY <2>2
  <2>4. Rec(f, m + 1)
    BY <2>3
  <2>5. \E h : Rec(h, m + 1)
    BY <2>4, Zenon
  <2> QED
    BY <2>5
<1>3. n \in S
  <2> HIDE DEF S
  <2>1. (0 .. n) \subseteq S
    BY <1>1, <1>2, CountUp
  <2> QED
    BY <2>1
<1>4. \E f : Rec(f, n)
  BY <1>3
<1> QED
  BY <1>4, Zenon DEF Levels

LEMMA PathFrom ==
  ASSUME NEW n \in Nat, NEW p
  PROVE  Path(n, p) = [k \in 0 .. n |->
           IF k = 0 THEN [index |-> p, proof |-> <<>>]
                     ELSE Climb(Levels(n)[k - 1], Path(n, p)[k - 1])]
<1> DEFINE Start == [index |-> p, proof |-> <<>>]
           Rec(f, m) == f = [k \in 0 .. m |-> IF k = 0 THEN Start ELSE Climb(Levels(n)[k - 1], f[k - 1])]
           S == {m \in Nat : \E f : Rec(f, m)}
<1> HIDE DEF Start
<1>1. 0 \in S
  <2> DEFINE f == [k \in 0 .. 0 |-> Start]
  <2>1. Rec(f, 0)
    OBVIOUS
  <2> QED
    BY <2>1, Zenon
<1>2. ASSUME NEW m \in Nat, m \in S PROVE m + 1 \in S
  <2>1. PICK g : Rec(g, m)
    BY <1>2
  <2> DEFINE f == [k \in 0 .. m + 1 |-> IF k = 0 THEN Start ELSE Climb(Levels(n)[k - 1], g[k - 1])]
  <2>2. \A k \in 0 .. m : f[k] = g[k]
    BY <2>1
  <2>3. \A k \in 0 .. m + 1 : k # 0 => f[k - 1] = g[k - 1]
    BY <2>2
  <2>4. Rec(f, m + 1)
    BY <2>3
  <2>5. \E h : Rec(h, m + 1)
    BY <2>4, Zenon
  <2> QED
    BY <2>5
<1>3. n \in S
  <2> HIDE DEF S
  <2>1. (0 .. n) \subseteq S
    BY <1>1, <1>2, CountUp
  <2> QED
    BY <2>1
<1>4. \E f : Rec(f, n)
  BY <1>3
<1> QED
  BY <1>4, Zenon DEF Path, Start

HashesUpTo(f, leaf, proof, n) ==
  f = [i \in 0 .. n |-> IF i = 0 THEN leaf ELSE HashPair(f[i - 1], proof[i])]

LEMMA HashesExist ==
  ASSUME NEW leaf, NEW proof, NEW n \in Nat
  PROVE  \E f : HashesUpTo(f, leaf, proof, n)
<1> DEFINE Rec(f, m) == HashesUpTo(f, leaf, proof, m)
           S == {m \in Nat : \E f : Rec(f, m)}
<1> USE DEF HashesUpTo
<1>1. 0 \in S
  <2> DEFINE f == [i \in 0 .. 0 |-> leaf]
  <2>1. Rec(f, 0)
    OBVIOUS
  <2> QED
    BY <2>1, Zenon
<1>2. ASSUME NEW m \in Nat, m \in S PROVE m + 1 \in S
  <2>1. PICK g : Rec(g, m)
    BY <1>2
  <2> DEFINE f == [i \in 0 .. m + 1 |-> IF i = 0 THEN leaf ELSE HashPair(g[i - 1], proof[i])]
  <2>2. \A i \in 0 .. m : f[i] = g[i]
    BY <2>1
  <2>3. ASSUME NEW i \in 0 .. m + 1, i # 0 PROVE f[i - 1] = g[i - 1]
    <3>1. i - 1 \in 0 .. m
      BY <2>3
    <3> QED
      BY <2>2, <3>1, Zenon
  <2>4. Rec(f, m + 1)
    BY <2>3
  <2>5. \E h : Rec(h, m + 1)
    BY <2>4, Zenon
  <2> QED
    BY <2>5
<1>3. n \in S
  <2> HIDE DEF S, HashesUpTo
  <2>1. (0 .. n) \subseteq S
    BY <1>1, <1>2, CountUp
  <2> QED
    BY <2>1
<1> HIDE DEF HashesUpTo
<1> QED
  BY <1>3

LEMMA HashesFrom ==
  ASSUME NEW leaf, NEW proof, Len(proof) \in Nat
  PROVE  HashesUpTo(Hashes(leaf, proof), leaf, proof, Len(proof))
<1>1. \E f : HashesUpTo(f, leaf, proof, Len(proof))
  BY HashesExist
<1> QED
  BY <1>1, Zenon DEF Hashes, HashesUpTo

LEMMA HashesOfNone ==
  ASSUME NEW leaf PROVE Hashes(leaf, <<>>)[0] = leaf
<1>1. PICK none : none = <<>> /\ Len(none) = 0
  OBVIOUS
<1>2. HashesUpTo(Hashes(leaf, none), leaf, none, 0)
  BY <1>1, HashesFrom
<1>3. Hashes(leaf, none)[0] = leaf
  BY <1>2 DEF HashesUpTo
<1> QED
  BY <1>1, <1>3

\* One hash more.
LEMMA HashesOfOneMore ==
  ASSUME NEW leaf, NEW H, NEW proof \in Seq(H), NEW x \in H
  PROVE  LET longer == Append(proof, x) IN
         Hashes(leaf, longer)[Len(longer)] = HashPair(Hashes(leaf, proof)[Len(proof)], x)
<1> DEFINE longer == Append(proof, x)
           n == Len(proof)
           S == {i \in 0 .. n : Hashes(leaf, longer)[i] = Hashes(leaf, proof)[i]}
<1>1. /\ n \in Nat /\ longer \in Seq(H) /\ Len(longer) = n + 1 /\ longer[n + 1] = x
      /\ \A i \in 1 .. n : longer[i] = proof[i]
  OBVIOUS
<1>2. \A i \in 0 .. n + 1 : Hashes(leaf, longer)[i] =
        IF i = 0 THEN leaf ELSE HashPair(Hashes(leaf, longer)[i - 1], longer[i])
  <2> HIDE DEF longer
  <2>1. HashesUpTo(Hashes(leaf, longer), leaf, longer, Len(longer))
    BY <1>1, HashesFrom
  <2> QED
    BY <1>1, <2>1 DEF HashesUpTo
<1>3. \A i \in 0 .. n : Hashes(leaf, proof)[i] =
        IF i = 0 THEN leaf ELSE HashPair(Hashes(leaf, proof)[i - 1], proof[i])
  BY <1>1, HashesFrom DEF HashesUpTo
<1> HIDE DEF longer, n
<1>4. (0 .. n) \subseteq S
  <2>1. 0 \in S
    BY <1>1, <1>2, <1>3
  <2>2. ASSUME NEW i \in 0 .. n, i \in S, i < n PROVE i + 1 \in S
    <3>1. i + 1 \in 1 .. n /\ i + 1 \in 0 .. n /\ i + 1 \in 0 .. n + 1 /\ i + 1 # 0 /\ (i + 1) - 1 = i
      BY <1>1, <2>2
    <3>2. Hashes(leaf, longer)[i + 1] = HashPair(Hashes(leaf, longer)[i], longer[i + 1])
      BY <1>2, <3>1
    <3>3. Hashes(leaf, proof)[i + 1] = HashPair(Hashes(leaf, proof)[i], proof[i + 1])
      BY <1>3, <3>1
    <3> QED
      BY <1>1, <2>2, <3>1, <3>2, <3>3
  <2> HIDE DEF S
  <2> QED
    BY <1>1, <2>1, <2>2, CountUp
<1>5. Hashes(leaf, longer)[n] = Hashes(leaf, proof)[n]
  BY <1>1, <1>4
<1>6. Hashes(leaf, longer)[n + 1] = HashPair(Hashes(leaf, longer)[n], x)
  BY <1>1, <1>2
<1> QED
  BY <1>1, <1>5, <1>6 DEF longer, n

LEMMA LengthOf ==
  ASSUME NEW m \in Nat, NEW f, f = [i \in 1 .. m |-> f[i]]
  PROVE  Len(f) = m
<1>1. f \in [1 .. m -> {f[i] : i \in 1 .. m}]
  OBVIOUS
<1>2. f \in Seq({f[i] : i \in 1 .. m})
  BY <1>1
<1> QED
  BY <1>1, <1>2

LEMMA NextLevelOf ==
  ASSUME NEW m \in Nat \ {0}, NEW level, DOMAIN level = 1 .. m, Len(level) = m
  PROVE  LET next == NextLevel(level) IN
         /\ DOMAIN next = 1 .. (m + 1) \div 2
         /\ Len(next) = (m + 1) \div 2
         /\ \A i \in 1 .. (m + 1) \div 2 :
              next[i] = IF 2 * i <= m THEN HashPair(level[2 * i - 1], level[2 * i]) ELSE level[m]
<1> DEFINE next == [i \in 1 .. (m + 1) \div 2 |->
                      IF 2 * i <= m THEN HashPair(level[2 * i - 1], level[2 * i]) ELSE level[m]]
<1>1. NextLevel(level) = next
  BY DEF NextLevel
<1>2. DOMAIN next = 1 .. (m + 1) \div 2 /\ (m + 1) \div 2 \in Nat
  OBVIOUS
<1>3. Len(next) = (m + 1) \div 2
  <2>1. next = [i \in 1 .. (m + 1) \div 2 |-> next[i]]
    OBVIOUS
  <2> HIDE DEF next
  <2> QED
    BY <1>2, <2>1, LengthOf
<1> QED
  BY <1>1, <1>2, <1>3

LEMMA LeavesOf ==
  ASSUME NEW n \in Nat
  PROVE  /\ DOMAIN Leaves(n) = 1 .. n /\ Len(Leaves(n)) = n
         /\ \A i \in 1 .. n : Leaves(n)[i] = Leaf(i)
<1> DEFINE leaves == [i \in 1 .. n |-> Leaf(i)]
<1>1. leaves = [i \in 1 .. n |-> leaves[i]]
  OBVIOUS
<1>2. DOMAIN leaves = 1 .. n /\ Len(leaves) = n
  BY <1>1, LengthOf
<1> QED
  BY <1>2 DEF Leaves

\* No level is empty, and each is shorter than the one below until one node is left.
LEMMA LevelsShrink ==
  ASSUME NEW n \in Nat \ {0}, NEW k \in 0 .. n
  PROVE  LET m == Len(Levels(n)[k]) IN
         /\ m \in Nat \ {0}
         /\ DOMAIN Levels(n)[k] = 1 .. m
         /\ m = 1 \/ m + k <= n
<1> DEFINE OK(j, m) ==
             /\ m \in Nat \ {0}
             /\ Len(Levels(n)[j]) = m
             /\ DOMAIN Levels(n)[j] = 1 .. m
             /\ m = 1 \/ m + j <= n
           S == {j \in 0 .. n : \E m \in Nat : OK(j, m)}
<1>1. /\ Levels(n)[0] = Leaves(n)
      /\ \A j \in 1 .. n : Levels(n)[j] = NextLevel(Levels(n)[j - 1])
  BY LevelsFrom
<1>2. 0 \in S
  BY <1>1, LeavesOf
<1>3. ASSUME NEW j \in 0 .. n, j \in S, j < n PROVE j + 1 \in S
  <2>1. PICK m \in Nat : OK(j, m)
    BY <1>3
  <2>2. j + 1 \in 1 .. n /\ Levels(n)[j + 1] = NextLevel(Levels(n)[j])
    BY <1>1, <1>3
  <2>3. /\ DOMAIN Levels(n)[j + 1] = 1 .. (m + 1) \div 2
        /\ Len(Levels(n)[j + 1]) = (m + 1) \div 2
    BY <2>1, <2>2, NextLevelOf
  <2>4. /\ (m + 1) \div 2 \in Nat \ {0}
        /\ (m + 1) \div 2 = 1 \/ (m + 1) \div 2 + (j + 1) <= n
    BY <2>1
  <2>5. OK(j + 1, (m + 1) \div 2)
    BY <2>3, <2>4
  <2> QED
    BY <2>2, <2>4, <2>5
<1>4. k \in S
  <2> HIDE DEF S
  <2>1. (0 .. n) \subseteq S
    BY <1>2, <1>3, CountUp
  <2> QED
    BY <2>1
<1> QED
  BY <1>4

\* The hashes of the path so far make the node that the path is at.
LEMMA PathHashes ==
  ASSUME NEW n \in Nat \ {0}, NEW p \in 1 .. n, NEW k \in 0 .. n
  PROVE  LET level == Levels(n)[k]
             path == Path(n, p)[k] IN
         /\ path.index \in 1 .. Len(level)
         /\ \E H : path.proof \in Seq(H)
         /\ Hashes(Leaf(p), path.proof)[Len(path.proof)] = level[path.index]
<1> DEFINE Node == UNION {{Levels(n)[j][i] : i \in 1 .. Len(Levels(n)[j])} : j \in 0 .. n}
           OK(j, path) ==
             /\ path.index \in 1 .. Len(Levels(n)[j])
             /\ path.proof \in Seq(Node)
             /\ Hashes(Leaf(p), path.proof)[Len(path.proof)] = Levels(n)[j][path.index]
           S == {j \in 0 .. n : OK(j, Path(n, p)[j])}
<1>1. \A j \in 0 .. n : \A i \in 1 .. Len(Levels(n)[j]) : Levels(n)[j][i] \in Node
  OBVIOUS
<1> HIDE DEF Node
<1>2. /\ Path(n, p)[0] = [index |-> p, proof |-> <<>>]
      /\ \A j \in 1 .. n : Path(n, p)[j] = Climb(Levels(n)[j - 1], Path(n, p)[j - 1])
  BY PathFrom
<1>3. /\ Levels(n)[0] = Leaves(n)
      /\ \A j \in 1 .. n : Levels(n)[j] = NextLevel(Levels(n)[j - 1])
  BY LevelsFrom
<1>4. 0 \in S
  <2>1. /\ Path(n, p)[0].index = p /\ Path(n, p)[0].proof = <<>>
    BY <1>2
  <2>2. <<>> \in Seq(Node) /\ Len(<<>>) = 0
    OBVIOUS
  <2>3. Hashes(Leaf(p), <<>>)[0] = Leaf(p)
    BY HashesOfNone
  <2>4. Len(Levels(n)[0]) = n /\ Levels(n)[0][p] = Leaf(p)
    BY <1>3, LeavesOf
  <2>5. OK(0, Path(n, p)[0])
    BY <2>1, <2>2, <2>3, <2>4
  <2> HIDE DEF OK
  <2> QED
    BY <2>5
<1>5. ASSUME NEW j \in 0 .. n, j \in S, j < n PROVE j + 1 \in S
  <2> DEFINE level == Levels(n)[j]
             next == Levels(n)[j + 1]
             m == Len(level)
             path == Path(n, p)[j]
             i == path.index
             s == Sibling(i)
             above == Path(n, p)[j + 1]
  <2>1. /\ j + 1 \in 1 .. n /\ j + 1 \in 0 .. n /\ (j + 1) - 1 = j
        /\ next = NextLevel(level) /\ above = Climb(level, path)
    BY <1>2, <1>3, <1>5
  <2>2. m \in Nat \ {0} /\ DOMAIN level = 1 .. m
    BY LevelsShrink
  <2> HIDE DEF level, next, path, above
  <2>3. /\ Len(next) = (m + 1) \div 2
        /\ \A h \in 1 .. (m + 1) \div 2 :
             next[h] = IF 2 * h <= m THEN HashPair(level[2 * h - 1], level[2 * h]) ELSE level[m]
    BY <2>1, <2>2, NextLevelOf
  <2>4. OK(j, path)
    BY <1>5 DEF path
  <2>5. above.index = (i + 1) \div 2
        /\ above.proof = IF s <= m THEN Append(path.proof, level[s]) ELSE path.proof
    BY <2>1 DEF Climb
  <2> HIDE DEF level, next, m, path, above
  <2>6. i \in 1 .. m /\ (i + 1) \div 2 \in 1 .. (m + 1) \div 2
    <3>1. i \in 1 .. m
      BY <2>4 DEF level, m
    <3> HIDE DEF i
    <3> QED
      BY <2>2, <3>1
  <2> HIDE DEF i
  <2>7. CASE s <= m
    <3>1. s \in 1 .. m
      BY <2>2, <2>6, <2>7 DEF Sibling
    <3>2. next[(i + 1) \div 2] = HashPair(level[i], level[s])
      <4>1. CASE i % 2 = 1
        <5>1. s = i + 1 /\ 2 * ((i + 1) \div 2) = i + 1
          BY <2>6, <4>1 DEF Sibling
        <5>2. 2 * ((i + 1) \div 2) - 1 = i /\ 2 * ((i + 1) \div 2) <= m
          BY <2>2, <2>6, <2>7, <5>1
        <5> QED
          BY <2>3, <2>6, <5>1, <5>2
      <4>2. CASE i % 2 # 1
        <5>1. s = i - 1 /\ 2 * ((i + 1) \div 2) = i
          BY <2>6, <4>2 DEF Sibling
        <5>2. 2 * ((i + 1) \div 2) - 1 = s /\ 2 * ((i + 1) \div 2) <= m
          BY <2>2, <2>6, <5>1
        <5>3. next[(i + 1) \div 2] = HashPair(level[s], level[i])
          BY <2>3, <2>6, <5>1, <5>2
        <5> QED
          BY <5>3 DEF HashPair
      <4> QED
        BY <4>1, <4>2
    <3>3. level[s] \in Node
      BY <1>1, <3>1 DEF level, m
    <3>4. path.proof \in Seq(Node) /\ above.proof = Append(path.proof, level[s])
      BY <2>4, <2>5, <2>7
    <3>5. Hashes(Leaf(p), above.proof)[Len(above.proof)] =
            HashPair(Hashes(Leaf(p), path.proof)[Len(path.proof)], level[s])
      BY <3>3, <3>4, HashesOfOneMore
    <3>6. Hashes(Leaf(p), path.proof)[Len(path.proof)] = level[i]
      BY <2>4 DEF level, i
    <3>7. above.proof \in Seq(Node)
      BY <3>3, <3>4
    <3> QED
      BY <2>1, <2>3, <2>5, <2>6, <3>2, <3>5, <3>6, <3>7 DEF next, above
  <2>8. CASE ~(s <= m)
    <3>1. i = m /\ ~(2 * ((i + 1) \div 2) <= m)
      BY <2>2, <2>6, <2>8 DEF Sibling
    <3>2. next[(i + 1) \div 2] = level[i]
      BY <2>3, <2>6, <3>1
    <3>3. above.proof = path.proof
      BY <2>5, <2>8
    <3>4. /\ path.proof \in Seq(Node)
          /\ Hashes(Leaf(p), path.proof)[Len(path.proof)] = level[i]
      BY <2>4 DEF level, i
    <3> QED
      BY <2>1, <2>3, <2>5, <2>6, <3>2, <3>3, <3>4 DEF next, above
  <2> QED
    BY <2>7, <2>8
<1>6. k \in S
  <2> HIDE DEF S
  <2>1. (0 .. n) \subseteq S
    BY <1>4, <1>5, CountUp
  <2> QED
    BY <2>1
<1> QED
  BY <1>6

\* What computeMerkleProof (merkle.ts:66) gives for a leaf satisfies the verifier's
\* verifyMerkleProof (primitives.ts:135), in a batch of any size, with odd nodes
\* promoted on any of its levels.
THEOREM MerkleProofsVerify ==
  \A n \in Nat \ {0} : \A p \in 1 .. n :
    VerifyMerkleProof(Leaf(p), ComputeMerkleProof(n, p), ComputeMerkleRoot(n))
<1> SUFFICES ASSUME NEW n \in Nat \ {0}, NEW p \in 1 .. n
             PROVE  VerifyMerkleProof(Leaf(p), ComputeMerkleProof(n, p), ComputeMerkleRoot(n))
  OBVIOUS
<1>1. n \in 0 .. n
  OBVIOUS
<1>2. Len(Levels(n)[n]) = 1
  <2>1. PICK m \in Nat \ {0} : Len(Levels(n)[n]) = m /\ (m = 1 \/ m + n <= n)
    BY <1>1, LevelsShrink, Zenon
  <2> QED
    BY <2>1
<1>3. Path(n, p)[n].index = 1
  <2>1. Path(n, p)[n].index \in 1 .. Len(Levels(n)[n])
    BY <1>1, PathHashes, Zenon
  <2> QED
    BY <1>2, <2>1
<1>4. Hashes(Leaf(p), Path(n, p)[n].proof)[Len(Path(n, p)[n].proof)] = Levels(n)[n][1]
  BY <1>1, <1>3, PathHashes
<1> QED
  BY <1>4 DEF VerifyMerkleProof, ComputeMerkleProof, ComputeMerkleRoot

-------------------------------------------------------------------------------
(* The verifier, and those it asks.                                        *)

Circulating == {didDocument, oldDocument} \ {Nothing}
Lists == {list, oldList} \ {Nothing}
InUse(k) == k = signer \/ (vc # Nothing /\ k = vc.key)
Gone(k) == history[k].status = "REVOKED"
Foreign == anchor # Nothing /\ anchor.root = "OTHER"
Answer == {"SOUND", "DAMAGED", "EMPTY"}

\* Every document that somebody may hold has the keys that the worker signs with
\* and has signed with, unless they are revoked.
KeysAreResolvable ==
  /\ \A d \in Circulating : d.assertionMethod \subseteq d.verificationMethod
  /\ \A k \in Key : InUse(k) =>
       /\ k \in DOMAIN history
       /\ ~Gone(k) => \A d \in Circulating : k \in d.verificationMethod

ListsTellTheTruth == \A l \in Lists : l.marked => revoked

\* What circulates marks the diploma, and goes on to.
MarkedEverywhere == list # Nothing /\ \A l \in Lists : l.marked

\* What a verification has established by the stage that it is at.
ChecksRemember ==
  /\ check.at # "NONE" => vc # Nothing
  /\ check.at \in {"RESOLVING", "LISTING", "ANCHORING"} /\ check.anchored => BundleHasAnchor
  /\ check.at \in {"RESOLVING", "LISTING", "ANCHORING"} => check.bundle # "UNSIGNED"
  /\ check.at \in {"LISTING", "ANCHORING"} => check.bundle # "ALTERED"
  /\ check.at = "RESOLVING" /\ check.settled => Settled
  /\ check.at = "LISTING" /\ check.settled => MarkedEverywhere
  /\ check.at = "ANCHORING" => 
       IF check.settled THEN check.revocation = "UNAVAILABLE"
                        ELSE check.revocation \in {"PASS", "UNAVAILABLE"}

VerifierInv ==
  /\ VerifierTypeOK /\ KeysAreResolvable /\ ListsTellTheTruth /\ ChecksRemember
  /\ VerdictsHaveGrounds /\ SettledRevocationWins

\* A history, by its entries.
LEMMA HistoryShape ==
  ASSUME NEW last \in Nat, NEW keys \in SUBSET Key, NEW h
  PROVE  h \in [keys -> KeyHistoryEntry(last)] => h \in Histories(last) /\ DOMAIN h = keys
BY DEF Histories

LEMMA HistoryEntries ==
  ASSUME NEW last \in Nat, NEW h \in Histories(last)
  PROVE  /\ DOMAIN h \in SUBSET Key
         /\ h \in [DOMAIN h -> KeyHistoryEntry(last)]
<1>1. PICK keys \in SUBSET Key : h \in [keys -> KeyHistoryEntry(last)]
  BY DEF Histories
<1> QED
  BY <1>1

\* buildDidDocument keeps the keys that are not revoked, and no others.
LEMMA DocumentOf ==
  ASSUME NEW h \in Histories(LastInstant)
  PROVE  LET d == BuildDidDocument(h) IN
         /\ d \in Document \cup {Nothing}
         /\ d # Nothing =>
              /\ d.assertionMethod \subseteq d.verificationMethod
              /\ \A k \in DOMAIN h : k \in d.verificationMethod <=> h[k].status # "REVOKED"
              /\ d.verificationMethod \subseteq DOMAIN h
<1>1. DOMAIN h \in SUBSET Key /\ \A k \in DOMAIN h : h[k].status \in KeyStatus
  BY HistoryEntries, VerifierAssumption DEF KeyHistoryEntry
<1>2. CASE ValidHistory(h) /\ Methods(h, {"ACTIVE"}) # {}
  <2> DEFINE d == [verificationMethod |-> Methods(h, {"ACTIVE", "RETIRED"}),
                   assertionMethod |-> Methods(h, {"ACTIVE"})]
  <2>1. BuildDidDocument(h) = d
    BY <1>2 DEF BuildDidDocument
  <2>2. d \in Document
    BY <1>1 DEF Document, Methods
  <2>3. d.assertionMethod \subseteq d.verificationMethod
    BY DEF Methods
  <2>4. \A k \in DOMAIN h : k \in d.verificationMethod <=> h[k].status # "REVOKED"
    BY <1>1 DEF Methods, KeyStatus
  <2>5. d.verificationMethod \subseteq DOMAIN h
    BY DEF Methods
  <2> QED
    BY <2>1, <2>2, <2>3, <2>4, <2>5
<1>3. CASE ~(ValidHistory(h) /\ Methods(h, {"ACTIVE"}) # {})
  BY <1>3 DEF BuildDidDocument
<1> QED
  BY <1>2, <1>3

\* What a step does to a verification.
LEMMA CheckFields ==
  ASSUME VerifierTypeOK
  PROVE  /\ check.at \in {"RESOLVING", "LISTING", "ANCHORING"} => check \in Check
         /\ check.at = "REPORTED" => check \in Report
         /\ check.at \in {"NONE", "RESOLVING", "LISTING", "ANCHORING", "REPORTED"}
<1>1. check \in Check \cup Report \cup {NoCheck}
  BY DEF VerifierTypeOK
<1>2. CASE check \in Check
  BY <1>2 DEF Check
<1>3. CASE check \in Report
  BY <1>3 DEF Report
<1>4. CASE check = NoCheck
  BY <1>4 DEF NoCheck
<1> QED
  BY <1>1, <1>2, <1>3, <1>4

LEMMA ReportsIsReport ==
  ASSUME NEW result \in Result \cup {"THROWN"}, NEW revocation \in CheckOutcome,
         NEW answer \in Answer, check \in Check, Reports(result, revocation, answer)
  PROVE  /\ check' \in Report /\ check'.at = "REPORTED" /\ check'.bundle = check.bundle
         /\ check'.settled = check.settled /\ check'.result = result /\ check'.answer = answer
BY DEF Reports, Report, Check, Answer

LEMMA RankedReports ==
  ASSUME NEW revocation \in CheckOutcome, check \in Check, Ranked(revocation)
  PROVE  /\ check' \in Report /\ check'.at = "REPORTED" /\ check'.bundle = check.bundle
         /\ check'.settled = check.settled
         /\ \/ check'.result = "VALID" /\ revocation # "UNAVAILABLE"
            \/ check'.result = "INDETERMINATE"
<1>1. CASE revocation = "UNAVAILABLE"
  <2>1. Reports("INDETERMINATE", revocation, "SOUND")
    BY <1>1 DEF Ranked
  <2> QED
    BY <2>1, ReportsIsReport DEF Result, Answer
<1>2. CASE revocation # "UNAVAILABLE"
  <2>1. Reports("VALID", revocation, "SOUND")
    BY <1>2 DEF Ranked
  <2> QED
    BY <1>2, <2>1, ReportsIsReport DEF Result, Answer
<1> QED
  BY <1>1, <1>2

LEMMA GoesOnFields ==
  ASSUME NEW revocation \in CheckOutcome, check \in Check, GoesOn(revocation)
  PROVE  /\ check' \in Check /\ check'.at = "ANCHORING" /\ check'.bundle = check.bundle
         /\ check'.settled = check.settled /\ check'.anchored = check.anchored
         /\ check'.revocation = revocation
BY DEF GoesOn, Check

\* What the custodian, the worker and the API do.
Asked == UNCHANGED <<issuerVars, recordVars>>
IssuerStep ==
  \/ Later \/ RestartApi \/ DocumentExpires
  \/ \E k \in Key : RotateKey(k) \/ RevokeKey(k) \/ SwitchSigner(k)
RecordStep ==
  \/ \E slot \in Slot : SignVc(slot)
  \/ RevokeDiploma \/ PublishStatusList \/ ListExpires \/ Assemble
  \/ \E root \in {"OURS", "OTHER"} : Mine(root)

LEMMA IssuerTypes ==
  ASSUME VerifierTypeOK, IssuerStep
  PROVE  VerifierTypeOK' /\ recordVars' = recordVars /\ check' = check
<1> USE DEF VerifierTypeOK
<1>0. LastInstant \in Nat
  BY VerifierAssumption
<1>1. ASSUME NEW k \in Key, RotateKey(k) PROVE history' \in Histories(LastInstant)
  <2> DEFINE keys == (DOMAIN history) \cup {k}
  <2>1. /\ DOMAIN history \in SUBSET Key
        /\ \A j \in DOMAIN history : history[j] \in KeyHistoryEntry(LastInstant)
    BY <1>0, HistoryEntries
  <2>2. \A j \in DOMAIN history :
          [history[j] EXCEPT !.status = "RETIRED", !.validUntil = now] \in KeyHistoryEntry(LastInstant)
    BY <2>1 DEF KeyHistoryEntry, KeyStatus
  <2>3. [validFrom |-> now, validUntil |-> Nothing, status |-> "ACTIVE"] \in KeyHistoryEntry(LastInstant)
    BY DEF KeyHistoryEntry, KeyStatus
  <2>4. history' \in [keys -> KeyHistoryEntry(LastInstant)]
    BY <1>1, <2>1, <2>2, <2>3 DEF RotateKey
  <2> QED
    BY <1>0, <2>1, <2>4, HistoryShape
<1>2. ASSUME NEW k \in Key, RevokeKey(k) PROVE history' \in Histories(LastInstant)
  <2>1. /\ DOMAIN history \in SUBSET Key
        /\ history \in [DOMAIN history -> KeyHistoryEntry(LastInstant)]
    BY <1>0, HistoryEntries
  <2>2. [history[k] EXCEPT !.status = "REVOKED"] \in KeyHistoryEntry(LastInstant)
    BY <1>2, <2>1 DEF KeyHistoryEntry, KeyStatus, RevokeKey
  <2>3. history' \in [DOMAIN history -> KeyHistoryEntry(LastInstant)]
    BY <1>2, <2>1, <2>2 DEF RevokeKey
  <2> QED
    BY <1>0, <2>1, <2>3, HistoryShape
<1>3. BuildDidDocument(history) \in Document \cup {Nothing}
  BY DocumentOf
<1>4. CASE Later
  BY <1>0, <1>4 DEF Later, recordVars
<1>5. CASE RestartApi
  BY <1>3, <1>5 DEF RestartApi, recordVars
<1>6. CASE DocumentExpires
  BY <1>6 DEF DocumentExpires, recordVars
<1>7. ASSUME NEW k \in Key, RotateKey(k) \/ RevokeKey(k) \/ SwitchSigner(k)
      PROVE  VerifierTypeOK' /\ recordVars' = recordVars /\ check' = check
  BY <1>1, <1>2, <1>7 DEF RotateKey, RevokeKey, SwitchSigner, recordVars
<1> QED
  BY <1>4, <1>5, <1>6, <1>7 DEF IssuerStep

LEMMA RecordTypes ==
  ASSUME VerifierTypeOK, RecordStep
  PROVE  VerifierTypeOK' /\ issuerVars' = issuerVars /\ check' = check
<1> USE DEF VerifierTypeOK
<1>1. ASSUME NEW slot \in Slot, SignVc(slot)
      PROVE  VerifierTypeOK' /\ issuerVars' = issuerVars /\ check' = check
  BY <1>1 DEF SignVc, issuerVars, Vc
<1>2. CASE PublishStatusList
  <2>1. BuildStatusList(revoked) \in StatusList \cup {Nothing}
    BY DEF BuildStatusList, StatusList
  <2> QED
    BY <1>2, <2>1 DEF PublishStatusList, issuerVars
<1>3. CASE Assemble
  BY <1>3 DEF Assemble, issuerVars, AnchorRow
<1>4. ASSUME NEW root \in {"OURS", "OTHER"}, Mine(root)
      PROVE  VerifierTypeOK' /\ issuerVars' = issuerVars /\ check' = check
  BY <1>4 DEF Mine, issuerVars, AnchorRow
<1>5. CASE RevokeDiploma \/ ListExpires
  BY <1>5 DEF RevokeDiploma, ListExpires, issuerVars
<1> QED
  BY <1>1, <1>2, <1>3, <1>4, <1>5 DEF RecordStep

\* What a step of the issuer leaves.
LEMMA IssuerKeeps ==
  ASSUME VerifierTypeOK, IssuerStep
  PROVE  /\ (DOMAIN history) \subseteq DOMAIN history'
         /\ \A k \in DOMAIN history : Gone(k) => history'[k].status = "REVOKED"
         /\ \A d \in {didDocument', oldDocument'} \ {Nothing} :
              d \in Circulating \/ d = BuildDidDocument(history)
         /\ \/ signer' = signer
            \/ /\ signer' \in DOMAIN history
               /\ \A d \in Circulating : signer' \in d.assertionMethod
<1>1. CASE Later \/ DocumentExpires \/ RestartApi
  <2>1. history' = history /\ signer' = signer
    BY <1>1 DEF Later, DocumentExpires, RestartApi
  <2>2. \A d \in {didDocument', oldDocument'} \ {Nothing} :
          d \in Circulating \/ d = BuildDidDocument(history)
    BY <1>1 DEF Later, DocumentExpires, RestartApi, Circulating
  <2> QED
    BY <2>1, <2>2 DEF Gone
<1>2. ASSUME NEW k \in Key, RotateKey(k) \/ RevokeKey(k)
      PROVE  /\ (DOMAIN history) \subseteq DOMAIN history'
             /\ \A j \in DOMAIN history :
                  history[j].status = "REVOKED" => history'[j].status = "REVOKED"
             /\ didDocument' = didDocument /\ oldDocument' = oldDocument /\ signer' = signer
  <2>1. CASE RotateKey(k)
    BY <2>1 DEF RotateKey
  <2>2. CASE RevokeKey(k)
    <3>1. k \in DOMAIN history /\ history[k] \in KeyHistoryEntry(LastInstant)
      BY <2>2, HistoryEntries, VerifierAssumption DEF RevokeKey, VerifierTypeOK
    <3>2. [history[k] EXCEPT !.status = "REVOKED"].status = "REVOKED"
      BY <3>1 DEF KeyHistoryEntry
    <3> QED
      BY <2>2, <3>2 DEF RevokeKey
  <2> QED
    BY <1>2, <2>1, <2>2
<1>3. ASSUME NEW k \in Key, SwitchSigner(k)
      PROVE  /\ history' = history /\ didDocument' = didDocument /\ oldDocument' = oldDocument
             /\ signer' \in DOMAIN history
             /\ \A d \in {didDocument, oldDocument} \ {Nothing} : signer' \in d.assertionMethod
  BY <1>3 DEF SwitchSigner, ActiveSigningKeys, SigningKeysAt, KeyValidAt
<1>4. CASE \E k \in Key : RotateKey(k) \/ RevokeKey(k)
  BY <1>2, <1>4 DEF Circulating, Gone
<1>5. CASE \E k \in Key : SwitchSigner(k)
  BY <1>3, <1>5 DEF Circulating, Gone
<1> QED
  BY <1>1, <1>4, <1>5 DEF IssuerStep

LEMMA IssuerResolvable ==
  ASSUME VerifierTypeOK, KeysAreResolvable, IssuerStep
  PROVE  KeysAreResolvable'
<1> DEFINE fresh == BuildDidDocument(history)
<1>1. /\ fresh # Nothing => fresh.assertionMethod \subseteq fresh.verificationMethod
      /\ fresh # Nothing => \A k \in DOMAIN history : ~Gone(k) => k \in fresh.verificationMethod
  BY DocumentOf DEF VerifierTypeOK, Gone
<1>2. \A d \in {didDocument', oldDocument'} \ {Nothing} :
        d.assertionMethod \subseteq d.verificationMethod
  BY <1>1, IssuerKeeps DEF KeysAreResolvable
<1>3. ASSUME NEW k \in Key, InUse(k)'
      PROVE  /\ k \in DOMAIN history'
             /\ history'[k].status # "REVOKED" =>
                  \A d \in {didDocument', oldDocument'} \ {Nothing} : k \in d.verificationMethod
  <2>0. vc' = vc
    BY IssuerTypes DEF recordVars
  <2>1. InUse(k) \/ (k = signer' /\ signer' # signer)
    BY <1>3, <2>0 DEF InUse
  <2>2. /\ k \in DOMAIN history
        /\ \A d \in Circulating : Gone(k) \/ k \in d.verificationMethod
    <3>1. CASE InUse(k)
      BY <3>1 DEF KeysAreResolvable
    <3>2. CASE k = signer' /\ signer' # signer
      BY <3>2, IssuerKeeps DEF KeysAreResolvable
    <3> QED
      BY <2>1, <3>1, <3>2
  <2>3. Gone(k) => history'[k].status = "REVOKED"
    BY <2>2, IssuerKeeps
  <2>4. \A d \in Circulating : Gone(k) \/ k \in d.verificationMethod
    BY <2>2
  <2>5. \A d \in {didDocument', oldDocument'} \ {Nothing} :
          d \in Circulating \/ d = fresh
    BY IssuerKeeps
  <2> QED
    BY <1>1, <2>2, <2>3, <2>4, <2>5, IssuerKeeps
<1> QED
  BY <1>2, <1>3 DEF KeysAreResolvable, Circulating, Gone

\* What a step on the record leaves.
LEMMA RecordKeeps ==
  ASSUME VerifierTypeOK, ListsTellTheTruth, RecordStep
  PROVE  /\ ListsTellTheTruth'
         /\ vc # Nothing => vc' = vc
         /\ vc' = vc \/ vc'.key = signer
         /\ revoked => revoked'
         /\ BundleHasAnchor => BundleHasAnchor'
         /\ Foreign => Foreign'
         /\ MarkedEverywhere => MarkedEverywhere'
<1>1. ASSUME NEW slot \in Slot, SignVc(slot)
      PROVE  /\ vc = Nothing /\ vc'.key = signer
             /\ UNCHANGED <<revoked, list, oldList, anchor>>
  BY <1>1 DEF SignVc
<1>2. CASE RevokeDiploma \/ ListExpires
  BY <1>2 DEF RevokeDiploma, ListExpires, ListsTellTheTruth, Lists, BundleHasAnchor,
              MarkedEverywhere, Foreign
<1>3. CASE PublishStatusList
  <2>1. /\ list' = [key |-> signer, marked |-> revoked] /\ list' # Nothing
        /\ oldList' = list /\ UNCHANGED <<vc, revoked, anchor>>
    BY <1>3 DEF PublishStatusList, BuildStatusList
  <2>2. list'.marked = revoked
    BY <2>1
  <2> QED
    BY <2>1, <2>2 DEF ListsTellTheTruth, Lists, MarkedEverywhere, BundleHasAnchor, Foreign
<1>4. CASE Assemble
  BY <1>4 DEF Assemble, BundleHasAnchor, ListsTellTheTruth, Lists, MarkedEverywhere, Foreign
<1>5. ASSUME NEW root \in {"OURS", "OTHER"}, Mine(root)
      PROVE  /\ ListsTellTheTruth' /\ UNCHANGED <<vc, revoked>>
             /\ BundleHasAnchor => BundleHasAnchor'
             /\ ~Foreign
             /\ MarkedEverywhere => MarkedEverywhere'
  <2>1. anchor \in AnchorRow /\ anchor' = [anchor EXCEPT !.root = root]
    BY <1>5 DEF Mine, VerifierTypeOK
  <2>2. anchor'.leaf = anchor.leaf
    BY <2>1 DEF AnchorRow
  <2>3. BundleHasAnchor => BundleHasAnchor'
    BY <1>5, <2>1, <2>2, NothingIsNoRow DEF BundleHasAnchor, AnchorRow
  <2>4. UNCHANGED <<vc, revoked, list, oldList>> /\ ~Foreign
    BY <1>5 DEF Mine, Foreign
  <2> QED
    BY <2>3, <2>4 DEF ListsTellTheTruth, Lists, MarkedEverywhere
<1> QED
  BY <1>1, <1>2, <1>3, <1>4, <1>5
     DEF RecordStep, ListsTellTheTruth, Lists, BundleHasAnchor, MarkedEverywhere, Foreign

\* The key of a VC that is there.
LEMMA VcKey ==
  ASSUME VerifierTypeOK, KeysAreResolvable, vc # Nothing
  PROVE  /\ vc.key \in Key /\ vc.key \in DOMAIN history
         /\ Gone(vc.key) \/ \A d \in Circulating : vc.key \in d.verificationMethod
<1>1. vc.key \in Key
  BY DEF VerifierTypeOK, Vc
<1> QED
  BY <1>1 DEF KeysAreResolvable, InUse

\* What circulates about a revocation goes on to.
LEMMA SettledStays ==
  ASSUME VerifierTypeOK, KeysAreResolvable, ListsTellTheTruth, vc # Nothing,
         IssuerStep \/ RecordStep
  PROVE  /\ vc' = vc
         /\ Gone(vc.key) => Gone(vc.key)'
         /\ Settled => Settled'
         /\ MarkedEverywhere => MarkedEverywhere'
         /\ BundleHasAnchor => BundleHasAnchor'
         /\ Foreign => Foreign'
         /\ revoked => revoked'
<1> DEFINE Removed == /\ history[vc.key].status = "REVOKED"
                      /\ \A d \in Circulating : vc.key \notin d.verificationMethod
<1>1. Settled <=> MarkedEverywhere \/ Removed
  BY DEF Settled, MarkedEverywhere, Lists, Circulating
<1>2. CASE IssuerStep
  <2>1. UNCHANGED <<vc, revoked, list, oldList, anchor>>
    BY <1>2, IssuerTypes DEF recordVars
  <2>2. Gone(vc.key) => history'[vc.key].status = "REVOKED"
    BY <1>2, VcKey, IssuerKeeps
  <2>3. Removed =>
          \A d \in {didDocument', oldDocument'} \ {Nothing} : vc.key \notin d.verificationMethod
    <3>1. ASSUME Removed, BuildDidDocument(history) # Nothing
          PROVE  vc.key \notin BuildDidDocument(history).verificationMethod
      BY <3>1, VcKey, DocumentOf DEF VerifierTypeOK
    <3> QED
      BY <1>2, <3>1, IssuerKeeps
  <2> QED
    BY <1>1, <2>1, <2>2, <2>3
       DEF Settled, MarkedEverywhere, Lists, BundleHasAnchor, Gone, Foreign
<1>3. CASE RecordStep
  <2>1. UNCHANGED <<history, didDocument, oldDocument>>
    BY <1>3, RecordTypes DEF issuerVars
  <2>2. /\ vc' = vc
        /\ revoked => revoked'
        /\ BundleHasAnchor => BundleHasAnchor'
        /\ Foreign => Foreign'
        /\ MarkedEverywhere => MarkedEverywhere'
    BY <1>3, RecordKeeps
  <2> QED
    BY <1>1, <2>1, <2>2 DEF Settled, MarkedEverywhere, Lists, Gone, Circulating, BundleHasAnchor,
                            Foreign
<1> QED
  BY <1>2, <1>3

LEMMA WorldStep ==
  ASSUME VerifierInv, IssuerStep \/ RecordStep
  PROVE  VerifierInv'
<1> USE DEF VerifierInv
<1>1. VerifierTypeOK' /\ check' = check
  BY IssuerTypes, RecordTypes
<1>2. KeysAreResolvable'
  <2>1. CASE IssuerStep
    BY <2>1, IssuerResolvable
  <2>2. CASE RecordStep
    <3>1. UNCHANGED <<history, didDocument, oldDocument, signer>>
      BY <2>2, RecordTypes DEF issuerVars
    <3>2. vc' = vc \/ vc'.key = signer
      BY <2>2, RecordKeeps
    <3>3. \A k \in Key : InUse(k)' => InUse(k)
      BY <3>1, <3>2 DEF InUse
    <3> QED
      BY <3>1, <3>3 DEF KeysAreResolvable, Circulating, Gone
  <2> QED
    BY <2>1, <2>2
<1>3. ListsTellTheTruth'
  <2>1. CASE IssuerStep
    BY <2>1, IssuerTypes DEF recordVars, ListsTellTheTruth, Lists
  <2> QED
    BY <2>1, RecordKeeps
<1>4. CASE check.at = "NONE"
  BY <1>1, <1>2, <1>3, <1>4
     DEF ChecksRemember, VerdictsHaveGrounds, SettledRevocationWins, Reported
<1>5. CASE check.at # "NONE"
  <2>1. vc # Nothing
    BY <1>5 DEF ChecksRemember
  <2>2. ChecksRemember'
    BY <1>1, <2>1, SettledStays DEF ChecksRemember
  <2>3. VerdictsHaveGrounds' /\ SettledRevocationWins'
    BY <1>1, <2>1, SettledStays
       DEF VerdictsHaveGrounds, SettledRevocationWins, Reported, Gone, Foreign
  <2> QED
    BY <1>1, <1>2, <1>3, <2>2, <2>3
<1> QED
  BY <1>4, <1>5

-------------------------------------------------------------------------------
(* The steps of a verification.                                            *)

LEMMA PresentStep ==
  ASSUME VerifierInv, NEW bundle \in Bundle, Present(bundle)
  PROVE  VerifierInv'
<1> USE DEF VerifierInv
<1>1. issuerVars' = issuerVars /\ recordVars' = recordVars /\ vc # Nothing
  BY DEF Present
<1>2. UNCHANGED <<history, now, didDocument, oldDocument, signer, vc, revoked, list,
                  oldList, anchor>>
  BY <1>1 DEF issuerVars, recordVars
<1>3. KeysAreResolvable' /\ ListsTellTheTruth'
  BY <1>2 DEF KeysAreResolvable, ListsTellTheTruth, Circulating, Lists, Gone, InUse
<1>4. Settled \in BOOLEAN /\ BundleHasAnchor \in BOOLEAN
  BY DEF Settled, BundleHasAnchor
<1>5. CASE bundle = "UNSIGNED"
  <2>1. check' = [at |-> "REPORTED", bundle |-> bundle, settled |-> Settled,
                  revocation |-> "SKIPPED", result |-> "NOT_VALID", answer |-> "SOUND"]
    BY <1>5 DEF Present
  <2>2. check' \in Report /\ check'.at = "REPORTED" /\ check'.bundle = "UNSIGNED"
        /\ check'.result = "NOT_VALID"
    BY <1>4, <1>5, <2>1 DEF Report, Result, CheckOutcome, Bundle
  <2> QED
    BY <1>1, <1>2, <1>3, <2>2
       DEF VerifierTypeOK, ChecksRemember, VerdictsHaveGrounds, SettledRevocationWins, Reported,
           Genuine
<1>6. CASE bundle # "UNSIGNED"
  <2>1. check' = [at |-> "RESOLVING", bundle |-> bundle, settled |-> Settled,
                  anchored |-> BundleHasAnchor /\ bundle # "BARE",
                  document |-> Nothing, revocation |-> "SKIPPED"]
    BY <1>6 DEF Present
  <2>2. /\ check' \in Check /\ check'.at = "RESOLVING" /\ check'.settled = Settled
        /\ check'.bundle # "UNSIGNED"
        /\ check'.anchored => BundleHasAnchor
    BY <1>4, <1>6, <2>1 DEF Check, CheckOutcome
  <2>3. Settled' = Settled /\ BundleHasAnchor' = BundleHasAnchor
    BY <1>2 DEF Settled, BundleHasAnchor
  <2> QED
    BY <1>1, <1>2, <1>3, <2>2, <2>3
       DEF VerifierTypeOK, ChecksRemember, VerdictsHaveGrounds, SettledRevocationWins, Reported
<1> QED
  BY <1>5, <1>6

\* A verification that goes on.
LEMMA AskedStep ==
  ASSUME VerifierInv, issuerVars' = issuerVars, recordVars' = recordVars,
         vc # Nothing, check' \in Check \cup Report, ChecksRemember',
         VerdictsHaveGrounds', SettledRevocationWins'
  PROVE  VerifierInv'
<1> USE DEF VerifierInv
<1>1. UNCHANGED <<history, now, didDocument, oldDocument, signer, vc, revoked, list,
                  oldList, anchor>>
  BY DEF issuerVars, recordVars
<1> QED
  BY <1>1 DEF VerifierTypeOK, KeysAreResolvable, ListsTellTheTruth, Circulating, Lists, Gone, InUse

LEMMA ReportStep ==
  ASSUME VerifierInv, issuerVars' = issuerVars, recordVars' = recordVars,
         vc # Nothing, check' \in Report, check'.at = "REPORTED",
         check'.bundle = check.bundle, check'.settled = check.settled,
         (check'.result = "NOT_VALID" /\ check.bundle \in Genuine) =>
           (Gone(vc.key) \/ Foreign \/ check'.answer # "SOUND"),
         check'.result = "REVOKED" => revoked,
         check'.result = "VALID" =>
           (~check.settled /\ check.bundle \notin {"ALTERED", "UNSIGNED"})
  PROVE  VerifierInv'
<1>1. UNCHANGED <<history, vc, revoked, anchor>>
  BY DEF issuerVars, recordVars
<1>2. ChecksRemember' /\ VerdictsHaveGrounds' /\ SettledRevocationWins'
  BY <1>1
     DEF ChecksRemember, VerdictsHaveGrounds, SettledRevocationWins, Reported, Gone, Foreign
<1> QED
  BY <1>2, AskedStep

LEMMA ResolveStep ==
  ASSUME VerifierInv, ResolveDidDocument
  PROVE  VerifierInv'
<1> USE DEF VerifierInv
<1>1. /\ issuerVars' = issuerVars /\ recordVars' = recordVars
      /\ check.at = "RESOLVING" /\ check \in Check /\ vc # Nothing
  BY CheckFields DEF ResolveDidDocument, ChecksRemember
<1>2. ASSUME NEW result \in {"INDETERMINATE", "THROWN"}, NEW answer \in Answer,
             Reports(result, "SKIPPED", answer)
      PROVE  VerifierInv'
  <2>1. result \in Result \cup {"THROWN"} /\ "SKIPPED" \in CheckOutcome
    BY DEF Result, CheckOutcome
  <2>2. /\ check' \in Report /\ check'.at = "REPORTED" /\ check'.bundle = check.bundle
        /\ check'.settled = check.settled /\ check'.result = result
    BY <1>1, <1>2, <2>1, ReportsIsReport
  <2> QED
    BY <1>1, <2>2, ReportStep
<1>3. ASSUME NEW d \in Circulating, NEW left \in SUBSET d.verificationMethod,
             CheckSignature(d, left)
      PROVE  VerifierInv'
  <2> DEFINE read == [d EXCEPT !.verificationMethod = left]
             answer == IF left = d.verificationMethod THEN "SOUND" ELSE "DAMAGED"
  <2>1. d \in Document
    BY DEF VerifierTypeOK, Circulating
  <2>2. read \in Document /\ read.verificationMethod = left
    BY <2>1 DEF Document
  <2>3. CASE ~VerifySigned(read, vc.key, check.bundle # "ALTERED")
    <3>1. Reports("NOT_VALID", "SKIPPED", answer)
      BY <1>3, <2>3 DEF CheckSignature
    <3>2. "NOT_VALID" \in Result /\ "SKIPPED" \in CheckOutcome /\ answer \in Answer
      BY DEF Result, CheckOutcome, Answer
    <3>3. /\ check' \in Report /\ check'.at = "REPORTED" /\ check'.bundle = check.bundle
          /\ check'.settled = check.settled /\ check'.result = "NOT_VALID"
          /\ check'.answer = answer
      BY <1>1, <3>1, <3>2, ReportsIsReport
    <3>4. check.bundle \in Genuine => Gone(vc.key) \/ answer # "SOUND"
      BY <1>1, <2>2, <2>3, VcKey DEF VerifySigned, Genuine
    <3> QED
      BY <1>1, <3>3, <3>4, ReportStep
  <2>4. CASE VerifySigned(read, vc.key, check.bundle # "ALTERED")
    <3>1. check' = [check EXCEPT !.at = "LISTING", !.document = read]
      BY <1>3, <2>4 DEF CheckSignature
    <3>2. /\ check' \in Check /\ check'.at = "LISTING" /\ check'.settled = check.settled
          /\ check'.anchored = check.anchored /\ check'.bundle = check.bundle
      BY <1>1, <2>2, <3>1 DEF Check
    <3>3. vc.key \in d.verificationMethod /\ check.bundle # "ALTERED"
      BY <2>2, <2>4 DEF VerifySigned
    <3>4. check.settled => MarkedEverywhere
      BY <1>1, <3>3 DEF ChecksRemember, Settled, MarkedEverywhere, Lists, Circulating
    <3>5. UNCHANGED <<vc, list, oldList, anchor>>
      BY <1>1 DEF recordVars
    <3>6. ChecksRemember'
      BY <1>1, <3>2, <3>3, <3>4, <3>5
         DEF ChecksRemember, MarkedEverywhere, Lists, BundleHasAnchor
    <3>7. VerdictsHaveGrounds' /\ SettledRevocationWins'
      BY <3>2 DEF VerdictsHaveGrounds, SettledRevocationWins, Reported
    <3> QED
      BY <1>1, <3>2, <3>6, <3>7, AskedStep
  <2> QED
    BY <2>3, <2>4
<1> QED
  BY <1>2, <1>3 DEF ResolveDidDocument, Circulating, Answer

LEMMA ListStep ==
  ASSUME VerifierInv, FetchStatusList
  PROVE  VerifierInv'
<1> USE DEF VerifierInv
<1>1. /\ issuerVars' = issuerVars /\ recordVars' = recordVars
      /\ check.at = "LISTING" /\ check \in Check /\ vc # Nothing
      /\ check.settled => MarkedEverywhere
      /\ check.anchored => BundleHasAnchor
      /\ check.bundle \notin {"ALTERED", "UNSIGNED"}
  BY CheckFields DEF FetchStatusList, ChecksRemember
<1>2. ASSUME NEW revocation \in {"PASS", "UNAVAILABLE"}, GoesOn(revocation),
             check.settled => revocation = "UNAVAILABLE"
      PROVE  VerifierInv'
  <2>1. revocation \in CheckOutcome
    BY DEF CheckOutcome
  <2>2. /\ check' \in Check /\ check'.at = "ANCHORING" /\ check'.settled = check.settled
        /\ check'.anchored = check.anchored /\ check'.revocation = revocation
        /\ check'.bundle = check.bundle
    BY <1>1, <1>2, <2>1, GoesOnFields
  <2>3. UNCHANGED <<vc, anchor>>
    BY <1>1 DEF recordVars
  <2>4. ChecksRemember'
    BY <1>1, <1>2, <2>2, <2>3 DEF ChecksRemember, BundleHasAnchor
  <2>5. VerdictsHaveGrounds' /\ SettledRevocationWins'
    BY <2>2 DEF VerdictsHaveGrounds, SettledRevocationWins, Reported
  <2> QED
    BY <1>1, <2>2, <2>4, <2>5, AskedStep
<1>3. ASSUME NEW l, NEW intact \in BOOLEAN, CheckRevocation(l, intact),
             intact => l \in Lists
      PROVE  VerifierInv'
  <2>1. CASE GoesOn("UNAVAILABLE")
    BY <1>2, <2>1
  <2>2. CASE Reports("INDETERMINATE", "UNAVAILABLE", "SOUND")
    <3>1. "INDETERMINATE" \in Result /\ "UNAVAILABLE" \in CheckOutcome /\ "SOUND" \in Answer
      BY DEF Result, CheckOutcome, Answer
    <3>2. /\ check' \in Report /\ check'.at = "REPORTED" /\ check'.bundle = check.bundle
          /\ check'.settled = check.settled /\ check'.result = "INDETERMINATE"
      BY <1>1, <2>2, <3>1, ReportsIsReport
    <3> QED
      BY <1>1, <3>2, ReportStep
  <2>3. CASE intact /\ BitAt(l) = "SET" /\ Reports("REVOKED", "FAIL", "SOUND")
    <3>1. "REVOKED" \in Result /\ "FAIL" \in CheckOutcome /\ "SOUND" \in Answer
      BY DEF Result, CheckOutcome, Answer
    <3>2. /\ check' \in Report /\ check'.at = "REPORTED" /\ check'.bundle = check.bundle
          /\ check'.settled = check.settled /\ check'.result = "REVOKED"
      BY <1>1, <2>3, <3>1, ReportsIsReport
    <3>3. revoked
      BY <1>3, <2>3 DEF BitAt, ListsTellTheTruth
    <3> QED
      BY <1>1, <3>2, <3>3, ReportStep
  <2>4. CASE intact /\ BitAt(l) = "CLEAR" /\ GoesOn("PASS")
    <3>1. ~l.marked
      BY <2>4 DEF BitAt
    <3>2. ~check.settled
      BY <1>1, <1>3, <2>4, <3>1 DEF MarkedEverywhere
    <3> QED
      BY <1>2, <2>4, <3>2
  <2> QED
    BY <1>3, <2>1, <2>2, <2>3, <2>4 DEF CheckRevocation, VerifySigned
<1>4. CASE GoesOn("UNAVAILABLE")
  BY <1>2, <1>4
<1>5. CASE \E l \in Lists : CheckRevocation(l, TRUE)
  BY <1>3, <1>5
<1>6. CASE \E l \in StatusList : CheckRevocation(l, FALSE)
  BY <1>3, <1>6
<1>7. CASE Reports("THROWN", "SKIPPED", "DAMAGED")
  <2>1. "SKIPPED" \in CheckOutcome /\ "DAMAGED" \in Answer
    BY DEF CheckOutcome, Answer
  <2>2. /\ check' \in Report /\ check'.at = "REPORTED" /\ check'.bundle = check.bundle
        /\ check'.settled = check.settled /\ check'.result = "THROWN"
    BY <1>1, <1>7, <2>1, ReportsIsReport
  <2> QED
    BY <1>1, <2>2, ReportStep
<1> QED
  BY <1>4, <1>5, <1>6, <1>7 DEF FetchStatusList, Lists

\* The bundle of any batch and any of its leaves has a proof that holds.
LEMMA ProofsHold == \A batch \in Batches : ProofHolds(batch, TRUE)
<1> SUFFICES ASSUME NEW n \in 1 .. MaxBatch, NEW p \in 1 .. n
             PROVE  ProofHolds([leaf |-> Leaf(p), proof |-> ComputeMerkleProof(n, p),
                                root |-> ComputeMerkleRoot(n)], TRUE)
  BY DEF Batches
<1>1. n \in Nat \ {0}
  BY VerifierAssumption
<1> QED
  BY <1>1, MerkleProofsVerify DEF ProofHolds

LEMMA AnchorStep ==
  ASSUME VerifierInv, CheckAnchor
  PROVE  VerifierInv'
<1> USE DEF VerifierInv
<1>1. /\ issuerVars' = issuerVars /\ recordVars' = recordVars
      /\ check.at = "ANCHORING" /\ check \in Check /\ vc # Nothing
      /\ check.revocation \in CheckOutcome
      /\ check.settled => check.revocation = "UNAVAILABLE"
      /\ check.anchored => anchor # Nothing /\ anchor.leaf = "vc"
      /\ check.bundle \notin {"ALTERED", "UNSIGNED"}
  BY CheckFields DEF CheckAnchor, ChecksRemember, Check, BundleHasAnchor
<1>2. CASE Ranked(check.revocation)
  <2>1. /\ check' \in Report /\ check'.at = "REPORTED" /\ check'.bundle = check.bundle
        /\ check'.settled = check.settled
        /\ \/ check'.result = "VALID" /\ check.revocation # "UNAVAILABLE"
           \/ check'.result = "INDETERMINATE"
    BY <1>1, <1>2, RankedReports
  <2> QED
    BY <1>1, <2>1, ReportStep
<1>3. ASSUME NEW answer \in Answer, Reports("NOT_VALID", check.revocation, answer),
             check.bundle \in Genuine => Foreign \/ answer # "SOUND"
      PROVE  VerifierInv'
  <2>1. /\ check' \in Report /\ check'.at = "REPORTED" /\ check'.bundle = check.bundle
        /\ check'.settled = check.settled /\ check'.result = "NOT_VALID"
        /\ check'.answer = answer
    BY <1>1, <1>3, ReportsIsReport DEF Result
  <2> QED
    BY <1>1, <1>3, <2>1, ReportStep
<1>4. ASSUME check.anchored, NEW root \in FetchAnchoredRoot \ {"NONE", "OURS"},
             Reports("NOT_VALID", check.revocation, IF root = "EMPTY" THEN "EMPTY" ELSE "SOUND")
      PROVE  VerifierInv'
  <2>1. CASE root = "EMPTY"
    BY <1>3, <1>4, <2>1 DEF Answer
  <2>2. CASE root # "EMPTY"
    <3>1. root = anchor.root /\ root # "ZERO" /\ anchor \in AnchorRow
      BY <1>1, <1>4, <2>2 DEF FetchAnchoredRoot, VerifierTypeOK
    <3>2. Foreign
      BY <1>1, <1>4, <3>1 DEF Foreign, AnchorRow
    <3> QED
      BY <1>3, <1>4, <2>2, <3>2 DEF Answer
  <2> QED
    BY <2>1, <2>2
<1>5. ASSUME check.anchored, check.bundle \in Genuine,
             NEW holds \in ProofOutcomes[check.bundle # "BROKEN_PROOF" /\ anchor.leaf = "vc"]
      PROVE  holds
  <2>1. check.bundle # "BROKEN_PROOF" /\ anchor.leaf = "vc"
    BY <1>1, <1>5 DEF Genuine
  <2>2. holds \in Holding(TRUE)
    BY <1>5, <2>1 DEF ProofOutcomes
  <2> QED
    BY <2>2, ProofsHold DEF Holding
<1>6. CASE ~check.anchored \/ check.bundle = "NO_SALT"
  BY <1>2, <1>6 DEF CheckAnchor
<1>7. CASE check.anchored /\ check.bundle # "NO_SALT"
  <2>1. PICK holds \in ProofOutcomes[check.bundle # "BROKEN_PROOF" /\ anchor.leaf = "vc"] :
          IF ~holds THEN Reports("NOT_VALID", check.revocation, "SOUND")
          ELSE \E root \in FetchAnchoredRoot :
                 IF root \in {"NONE", "OURS"} THEN Ranked(check.revocation)
                 ELSE Reports("NOT_VALID", check.revocation,
                              IF root = "EMPTY" THEN "EMPTY" ELSE "SOUND")
    BY <1>7 DEF CheckAnchor
  <2>2. CASE ~holds
    BY <1>3, <1>5, <1>7, <2>1, <2>2 DEF Answer
  <2>3. CASE holds
    BY <1>2, <1>4, <1>7, <2>1, <2>3
  <2> QED
    BY <2>2, <2>3
<1> QED
  BY <1>6, <1>7

-------------------------------------------------------------------------------
(* Theorems about the verifier.                                            *)

LEMMA VerifierStart == VerifierInit => VerifierInv
<1> SUFFICES ASSUME VerifierInit PROVE VerifierInv
  OBVIOUS
<1> USE DEF VerifierInit
<1>1. LastInstant \in Nat /\ FirstKey \in Key
  BY VerifierAssumption
<1>2. FirstHistory \in [{FirstKey} -> KeyHistoryEntry(LastInstant)]
  BY <1>1 DEF FirstHistory, KeyHistoryEntry, KeyStatus
<1>3. FirstHistory \in Histories(LastInstant) /\ DOMAIN FirstHistory = {FirstKey}
  BY <1>1, <1>2, HistoryShape
<1>4. VerifierTypeOK
  <2>1. history \in Histories(LastInstant) /\ now \in 0 .. LastInstant
    BY <1>1, <1>3
  <2>2. didDocument \in Document \cup {Nothing}
    BY <1>3, DocumentOf
  <2>3. /\ {oldDocument, vc, list, oldList, anchor} = {Nothing}
        /\ signer \in Key /\ revoked \in BOOLEAN
        /\ check = NoCheck
    BY <1>1
  <2> QED
    BY ONLY <2>1, <2>2, <2>3 DEF VerifierTypeOK
<1>5. KeysAreResolvable
  BY <1>3, DocumentOf DEF KeysAreResolvable, InUse, Circulating, Gone
<1>6. ListsTellTheTruth /\ ChecksRemember /\ VerdictsHaveGrounds /\ SettledRevocationWins
  BY DEF ListsTellTheTruth, Lists, ChecksRemember, VerdictsHaveGrounds, SettledRevocationWins,
         Reported, NoCheck
<1> QED
  BY <1>4, <1>5, <1>6 DEF VerifierInv

LEMMA VerifierStep == VerifierInv /\ [VerifierNext]_verifierVars => VerifierInv'
<1> SUFFICES ASSUME VerifierInv, [VerifierNext]_verifierVars PROVE VerifierInv'
  OBVIOUS
<1>1. CASE IssuerStep \/ RecordStep
  BY <1>1, WorldStep
<1>2. CASE (\E bundle \in Bundle : Present(bundle)) \/ ResolveDidDocument \/ FetchStatusList
             \/ CheckAnchor
  BY <1>2, PresentStep, ResolveStep, ListStep, AnchorStep
<1>3. CASE UNCHANGED verifierVars
  <2>1. UNCHANGED <<history, now, didDocument, oldDocument, signer, vc, revoked, list, oldList,
                    anchor, check>>
    BY <1>3 DEF verifierVars, issuerVars, recordVars
  <2>2. VerifierTypeOK' /\ KeysAreResolvable' /\ ListsTellTheTruth'
    BY <2>1 DEF VerifierInv, VerifierTypeOK, KeysAreResolvable, ListsTellTheTruth, Circulating,
                Lists, InUse, Gone
  <2>3. ChecksRemember' /\ VerdictsHaveGrounds' /\ SettledRevocationWins'
    BY <2>1 DEF VerifierInv, ChecksRemember, VerdictsHaveGrounds, SettledRevocationWins, Reported,
                Settled, MarkedEverywhere, Lists, BundleHasAnchor
  <2> QED
    BY <2>2, <2>3 DEF VerifierInv
<1> QED
  BY <1>1, <1>2, <1>3 DEF VerifierNext, IssuerStep, RecordStep

\* The inductive invariant of the verifier and of those it asks.
THEOREM VerifierInvariance == VerifierSpec => []VerifierInv
BY VerifierStart, VerifierStep, PTL DEF VerifierSpec

\* Whatever fails, is stale or comes damaged between its fetches, and however large
\* the batch, a verdict of the verifier has its grounds (verify.ts:12-16): a genuine
\* bundle is found false for a revoked key, a foreign root or an answer that was not
\* sound only, REVOKED is said of a revoked diploma, VALID of what was signed.
THEOREM VerdictsAreGrounded == VerifierSpec => []VerdictsHaveGrounds
<1>1. VerifierInv => VerdictsHaveGrounds
  BY DEF VerifierInv
<1> QED
  BY <1>1, VerifierInvariance, PTL

\* A verification that begins when everything in circulation says "revoked" never
\* ends in VALID, whatever fails or changes between its fetches.
THEOREM RevocationsWin == VerifierSpec => []SettledRevocationWins
<1>1. VerifierInv => SettledRevocationWins
  BY DEF VerifierInv
<1> QED
  BY <1>1, VerifierInvariance, PTL

\* Rotated keys stay in every document (did-document.ts:6-8), for any number of
\* rotations, revocations and restarts, so that a VC signed in its key's window
\* stays verifiable.
THEOREM OldSignaturesResolve == VerifierSpec => []OldKeysStayResolvable
<1>1. VerifierInv => OldKeysStayResolvable
  <2> SUFFICES ASSUME VerifierInv, vc # Nothing, KeyValidAt(history, vc.key, vc.signedAt)
               PROVE  \A d \in {didDocument, oldDocument} \ {Nothing} :
                        vc.key \in d.verificationMethod
    BY DEF OldKeysStayResolvable
  <2>1. ~Gone(vc.key)
    BY DEF KeyValidAt, Gone
  <2> QED
    BY <2>1, VcKey DEF VerifierInv, Circulating
<1> QED
  BY <1>1, VerifierInvariance, PTL

-------------------------------------------------------------------------------
(* The two together.                                                       *)

\* The one that moves takes its steps, and the other stutters.
LEMMA EachInquiry == InquiriesSpec => SourceSpec /\ VerifierSpec
<1>1. InquiriesInit => SourceInit /\ VerifierInit
  BY DEF InquiriesInit
<1>2. [InquiriesNext]_inquiriesVars =>
        [SourceNext]_<<vars, sourceVars>> /\ [VerifierNext]_verifierVars
  BY DEF InquiriesNext, inquiriesVars
<1> QED
  BY <1>1, <1>2, PTL DEF InquiriesSpec, SourceSpec, VerifierSpec

\* Both are well typed.
THEOREM InquiriesTypes == InquiriesSpec => []InquiriesTypeOK
<1>1. SourceTypeOK /\ VerifierInv => InquiriesTypeOK
  BY DEF VerifierInv, InquiriesTypeOK
<1> QED
  BY <1>1, EachInquiry, SourceTypeCorrect, VerifierInvariance, PTL
===============================================================================
