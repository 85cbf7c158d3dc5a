----------------------------- MODULE OpenVerifier ------------------------------
(***************************************************************************)
(* The open verifier (packages/verifier) against everything it asks while  *)
(* that changes: the DID document that the API serves, the status list,    *)
(* the root on the chain.  One diploma, its VC, and one verification at a  *)
(* time, which is all that one reads; between its three fetches anything   *)
(* may happen, any of them may fail, and a document or a list may be       *)
(* damaged on the way, but not forged.                                     *)
(*                                                                         *)
(* External: the custodian, who edits the history file and configures the  *)
(* worker's key; the HTTP caches, which the API lets keep the document for *)
(* an hour and the list for five minutes (did/routes.ts:39,                *)
(* verify/routes.ts:96); the chain.                                        *)
(***************************************************************************)
EXTENDS KeyHistory, Merkle

CONSTANTS
  FirstKey,
  LastInstant,   \* bound on time
  ListLength,    \* MIN_BITSTRING_LENGTH
  MaxBatch       \* bound on the leaves of a batch

ASSUME VerifierAssumption ==
  /\ FirstKey \in Key
  /\ Nothing \notin Key
  /\ LastInstant \in Nat
  /\ ListLength \in Nat \ {0}
  /\ MaxBatch \in Nat \ {0}

VARIABLES
  history, now,
  didDocument, oldDocument,  \* served by the API; still in caches
  signer,                    \* the key the worker is configured with
  vc,
  revoked,                   \* the diploma is REVOKED
  list, oldList,             \* the status list; still in caches
  anchor,                    \* the batch that has the diploma
  check                      \* the verification

issuerVars == <<history, now, didDocument, oldDocument, signer>>
recordVars == <<vc, revoked, list, oldList, anchor>>
verifierVars == <<issuerVars, recordVars, check>>

\* The last index of the list and the first beyond it.
Slot == {ListLength - 1, ListLength}
Vc == [key : Key, signedAt : 0 .. LastInstant, slot : Slot]
StatusList == [key : Key, marked : BOOLEAN]
\* The leaf that the batch froze, and rootOf its id on the chain: none yet, that of
\* the batch, or another's.
AnchorRow == [leaf : {"vc", "claims"}, root : {"ZERO", "OURS", "OTHER"}]
ASSUME NothingIsNoRow == Nothing \notin AnchorRow
Document == [verificationMethod : SUBSET Key, assertionMethod : SUBSET Key]

\* What is presented: the bundle as downloaded (before or after anchoring), a
\* bare VC, or one of them damaged.
Bundle == {"WHOLE", "BARE", "NO_SALT", "ALTERED", "BROKEN_PROOF", "UNSIGNED"}
Genuine == {"WHOLE", "BARE", "NO_SALT"}

CheckOutcome == {"PASS", "FAIL", "UNAVAILABLE", "PENDING", "SKIPPED"}
Result == {"VALID", "REVOKED", "NOT_VALID", "INDETERMINATE"}

\* settled: when it began, whatever was in circulation said "revoked".  answer: how
\* the answer was that decided; EMPTY is '0x', that of a node which knows no contract
\* at the address.  A verification may also throw.
Check ==
  [at : {"RESOLVING", "LISTING", "ANCHORING"}, bundle : Bundle, settled : BOOLEAN,
   anchored : BOOLEAN, document : Document \cup {Nothing}, revocation : CheckOutcome]
Report ==
  [at : {"REPORTED"}, bundle : Bundle, settled : BOOLEAN, revocation : CheckOutcome,
   result : Result \cup {"THROWN"}, answer : {"SOUND", "DAMAGED", "EMPTY"}]
NoCheck == [at |-> "NONE"]

VerifierTypeOK ==
  /\ history \in Histories(LastInstant)
  /\ now \in 0 .. LastInstant
  /\ {didDocument, oldDocument} \subseteq Document \cup {Nothing}
  /\ signer \in Key
  /\ vc \in Vc \cup {Nothing}
  /\ revoked \in BOOLEAN
  /\ {list, oldList} \subseteq StatusList \cup {Nothing}
  /\ anchor \in AnchorRow \cup {Nothing}
  /\ check \in Check \cup Report \cup {NoCheck}

FirstHistory ==
  [k \in {FirstKey} |-> [validFrom |-> 0, validUntil |-> Nothing, status |-> "ACTIVE"]]

VerifierInit ==
  /\ history = FirstHistory
  /\ now = 0
  /\ didDocument = BuildDidDocument(FirstHistory)
  /\ oldDocument = Nothing
  /\ signer = FirstKey
  /\ vc = Nothing
  /\ revoked = FALSE
  /\ list = Nothing
  /\ oldList = Nothing
  /\ anchor = Nothing
  /\ check = NoCheck

-------------------------------------------------------------------------------
(* The custodian and the processes.                                        *)

Later ==
  /\ now < LastInstant
  /\ now' = now + 1
  /\ UNCHANGED <<history, didDocument, oldDocument, signer, recordVars, check>>

\* A new key from now on; the active one retires.
RotateKey(k) ==
  LET Retired(e) == IF e.status = "ACTIVE"
                      THEN [e EXCEPT !.status = "RETIRED", !.validUntil = now] ELSE e IN
  /\ k \notin DOMAIN history
  /\ \A j \in ActiveSigningKeys(history, now) : history[j].validFrom < now
  /\ history' = [j \in (DOMAIN history) \cup {k} |->
       IF j = k THEN [validFrom |-> now, validUntil |-> Nothing, status |-> "ACTIVE"]
       ELSE Retired(history[j])]
  /\ UNCHANGED <<now, didDocument, oldDocument, signer, recordVars, check>>

\* A compromised key; the active one too, if need be.
RevokeKey(k) ==
  /\ k \in DOMAIN history
  /\ history[k].status # "REVOKED"
  /\ history' = [history EXCEPT ![k].status = "REVOKED"]
  /\ UNCHANGED <<now, didDocument, oldDocument, signer, recordVars, check>>

\* loadLocalDidDocument, when the API starts; did.json is off if it fails.
RestartApi ==
  /\ didDocument' = BuildDidDocument(history)
  /\ didDocument' # didDocument
  /\ oldDocument' = didDocument
  /\ UNCHANGED <<history, now, signer, recordVars, check>>

DocumentExpires ==
  /\ oldDocument' = Nothing
  /\ UNCHANGED <<history, now, didDocument, signer, recordVars, check>>

\* The ceremony publishes first and signs then (architecture-understanding.md:108):
\* the key is in every document that anybody may hold.
SwitchSigner(k) ==
  /\ k \in ActiveSigningKeys(history, now)
  /\ didDocument # Nothing
  /\ \A d \in {didDocument, oldDocument} \ {Nothing} : k \in d.assertionMethod
  /\ signer' = k
  /\ UNCHANGED <<history, now, didDocument, oldDocument, recordVars, check>>

\* The worker signs with the key it has, whatever became of it.
SignVc(slot) ==
  /\ vc = Nothing
  /\ vc' = [key |-> signer, signedAt |-> now, slot |-> slot]
  /\ UNCHANGED <<issuerVars, revoked, list, oldList, anchor, check>>

RevokeDiploma ==
  /\ vc # Nothing
  /\ revoked' = TRUE
  /\ UNCHANGED <<issuerVars, vc, list, oldList, anchor, check>>

\* Bitstring.set throws for an index beyond the list: none is published then.
BuildStatusList(marks) ==
  IF marks /\ vc.slot >= ListLength THEN Nothing ELSE [key |-> signer, marked |-> marks]

PublishStatusList ==
  LET new == BuildStatusList(revoked) IN
  /\ new # Nothing
  /\ new # list
  /\ list' = new
  /\ oldList' = list
  /\ UNCHANGED <<issuerVars, vc, revoked, anchor, check>>

ListExpires ==
  /\ oldList' = Nothing
  /\ UNCHANGED <<issuerVars, vc, revoked, list, anchor, check>>

\* Midnight may come before the signing job: the leaf is of the claims then.
Assemble ==
  /\ anchor = Nothing
  /\ anchor' = [leaf |-> IF vc = Nothing THEN "claims" ELSE "vc", root |-> "ZERO"]
  /\ UNCHANGED <<issuerVars, vc, revoked, list, oldList, check>>

\* The contract takes a root for an id once: that of the batch, or, where somebody
\* else came first, another, which leaves the row in the table.
Mine(root) ==
  /\ anchor # Nothing /\ anchor.root = "ZERO"
  /\ anchor' = [anchor EXCEPT !.root = root]
  /\ UNCHANGED <<issuerVars, vc, revoked, list, oldList, check>>

-------------------------------------------------------------------------------
(* verifyProofBundle.                                                      *)

Reports(result, revocation, answer) ==
  check' = [at |-> "REPORTED", bundle |-> check.bundle, settled |-> check.settled,
            revocation |-> revocation, result |-> result, answer |-> answer]

\* Every copy of the list in circulation marks the diploma, or its key is revoked
\* and in no copy of the document.
Settled ==
  \/ list # Nothing /\ \A l \in {list, oldList} \ {Nothing} : l.marked
  \/ /\ history[vc.key].status = "REVOKED"
     /\ \A d \in {didDocument, oldDocument} \ {Nothing} : vc.key \notin d.verificationMethod

\* The proof bundle asks for the leaf of the VC; where the batch does not have it,
\* it goes without an anchor.
BundleHasAnchor == anchor # Nothing /\ anchor.leaf = "vc"

\* A bundle without a proof is not looked at further.
Present(bundle) ==
  /\ vc # Nothing
  /\ check.at \in {"NONE", "REPORTED"}
  /\ bundle \in {"NO_SALT", "BROKEN_PROOF"} => BundleHasAnchor
  /\ check' = IF bundle = "UNSIGNED"
       THEN [at |-> "REPORTED", bundle |-> bundle, settled |-> Settled,
             revocation |-> "SKIPPED", result |-> "NOT_VALID", answer |-> "SOUND"]
       ELSE [at |-> "RESOLVING", bundle |-> bundle, settled |-> Settled,
             anchored |-> BundleHasAnchor /\ bundle # "BARE",
             document |-> Nothing, revocation |-> "SKIPPED"]
  /\ UNCHANGED <<issuerVars, recordVars>>

\* verifySignedDocument: by a key of the document, over what was signed.
VerifySigned(document, key, intact) == key \in document.verificationMethod /\ intact

\* By a document of which the keys in left can be read.
CheckSignature(d, left) ==
  IF VerifySigned([d EXCEPT !.verificationMethod = left], vc.key, check.bundle # "ALTERED")
  THEN check' = [check EXCEPT !.at = "LISTING",
                              !.document = [d EXCEPT !.verificationMethod = left]]
  ELSE Reports("NOT_VALID", "SKIPPED",
               IF left = d.verificationMethod THEN "SOUND" ELSE "DAMAGED")

\* The document of now, one from a cache, or none.  In a damaged one keys are missing
\* or malformed; without its list of keys, or with a point off the curve, it throws.
ResolveDidDocument ==
  /\ check.at = "RESOLVING"
  /\ \/ Reports("INDETERMINATE", "SKIPPED", "SOUND")
     \/ \E d \in {didDocument, oldDocument} \ {Nothing} :
          \E left \in SUBSET d.verificationMethod : CheckSignature(d, left)
     \/ /\ {didDocument, oldDocument} # {Nothing}
        /\ Reports("THROWN", "SKIPPED", "DAMAGED")
  /\ UNCHANGED <<issuerVars, recordVars>>

\* bitAt: MSB first, and no index beyond the list.
BitAt(l) == IF vc.slot >= ListLength THEN "UNREADABLE" ELSE IF l.marked THEN "SET" ELSE "CLEAR"

GoesOn(revocation) == check' = [check EXCEPT !.at = "ANCHORING", !.revocation = revocation]

\* A list that a key of the document, resolved before it, did not sign counts as
\* unavailable.
CheckRevocation(l, intact) ==
  LET bit == BitAt(l)
      trusted == VerifySigned(check.document, l.key, intact) IN
  \/ ~trusted /\ GoesOn("UNAVAILABLE")
  \/ trusted /\ bit = "UNREADABLE" /\ Reports("INDETERMINATE", "UNAVAILABLE", "SOUND")
  \/ trusted /\ bit = "SET" /\ Reports("REVOKED", "FAIL", "SOUND")
  \/ trusted /\ bit = "CLEAR" /\ GoesOn("PASS")

\* Now's list, one from a cache, or none; one damaged on the way counts as none, but
\* without its proof it throws.
FetchStatusList ==
  /\ check.at = "LISTING"
  /\ \/ GoesOn("UNAVAILABLE")
     \/ \E l \in {list, oldList} \ {Nothing} : CheckRevocation(l, TRUE)
     \/ \E l \in StatusList : CheckRevocation(l, FALSE)
     \/ /\ {list, oldList} # {Nothing}
        /\ Reports("THROWN", "SKIPPED", "DAMAGED")
  /\ UNCHANGED <<issuerVars, recordVars>>

\* Mutant: what is not known to be revoked is valid.
Ranked_Optimistic(revocation) == Reports("VALID", revocation, "SOUND")

\* Mutant: the outcome of a check becomes the result.
Ranked_Outcome(revocation) ==
  Reports(IF revocation = "UNAVAILABLE" THEN revocation ELSE "VALID", revocation, "SOUND")

\* Only revocation that is unknown withholds VALID: an anchor that is pending, or
\* cannot be read, does not.
Ranked(revocation) ==
  Reports(IF revocation = "UNAVAILABLE" THEN "INDETERMINATE" ELSE "VALID", revocation, "SOUND")

\* Mutant: the zero of a batch that is not on the chain is a root, of others.
FetchAnchoredRoot_Zero ==
  {"NONE", "EMPTY", IF anchor.root = "ZERO" THEN "OTHER" ELSE anchor.root}

\* rootOf is zero, which is no root, until there is one; an endpoint down, or of
\* another chain, answers nothing.  An endpoint of the chain that does not know the
\* contract, as a node that is still behind, answers '0x', which passes for a root.
FetchAnchoredRoot == {"NONE", "EMPTY"} \cup ({anchor.root} \ {"ZERO"})

\* Every batch the VC may be in, as leaf p of n, with its root and the proof.
Batches ==
  LET Of(n, p) ==
        [leaf |-> Leaf(p), proof |-> ComputeMerkleProof(n, p), root |-> ComputeMerkleRoot(n)]
  IN  UNION {{Of(n, p) : p \in 1 .. n} : n \in 1 .. MaxBatch}

\* Do leaf and proof of the bundle lead to its root?  Not if the proof is another's.
ProofHolds(batch, intact) ==
  VerifyMerkleProof(batch.leaf, IF intact THEN batch.proof ELSE Append(batch.proof, Leaf(0)),
                    batch.root)
Holding(intact) == {ProofHolds(batch, intact) : batch \in Batches}
ProofOutcomes == [intact \in BOOLEAN |-> Holding(intact)]

CheckAnchor ==
  /\ check.at = "ANCHORING"
  /\ IF ~check.anchored \/ check.bundle = "NO_SALT" THEN Ranked(check.revocation)
     ELSE \E holds \in ProofOutcomes[check.bundle # "BROKEN_PROOF" /\ anchor.leaf = "vc"] :
            IF ~holds THEN Reports("NOT_VALID", check.revocation, "SOUND")
            ELSE \E root \in FetchAnchoredRoot :
                   IF root \in {"NONE", "OURS"} THEN Ranked(check.revocation)
                   ELSE Reports("NOT_VALID", check.revocation,
                                IF root = "EMPTY" THEN "EMPTY" ELSE "SOUND")
  /\ UNCHANGED <<issuerVars, recordVars>>

-------------------------------------------------------------------------------
VerifierNext ==
  \/ Later \/ RestartApi \/ DocumentExpires
  \/ \E k \in Key : RotateKey(k) \/ RevokeKey(k) \/ SwitchSigner(k)
  \/ \E slot \in Slot : SignVc(slot)
  \/ RevokeDiploma \/ PublishStatusList \/ ListExpires \/ Assemble
  \/ \E root \in {"OURS", "OTHER"} : Mine(root)
  \/ \E bundle \in Bundle : Present(bundle)
  \/ ResolveDidDocument \/ FetchStatusList \/ CheckAnchor

VerifierSpec == VerifierInit /\ [][VerifierNext]_verifierVars
-------------------------------------------------------------------------------
(* Properties.                                                             *)

Reported(result) == check.at = "REPORTED" /\ check.result = result

\* A verdict has its grounds, whatever is slow, stale or down and however many leaves
\* the batch has: a bundle that nobody damaged is found false only for a revoked key
\* or the root of another under its batch, unless the answer that decided was itself
\* no sound one; REVOKED is said of a revoked diploma only; and VALID, whatever the
\* answers, only of what the issuer signed (verify.ts:12-16).
VerdictsHaveGrounds ==
  /\ Reported("NOT_VALID") /\ check.bundle \in Genuine =>
       \/ history[vc.key].status = "REVOKED"
       \/ anchor # Nothing /\ anchor.root = "OTHER"
       \/ check.answer # "SOUND"
  /\ Reported("REVOKED") => revoked
  /\ Reported("VALID") => check.bundle \notin {"ALTERED", "UNSIGNED"}

\* "Outages are never fraud" (verify.ts:13): where nothing was damaged on the way, a
\* genuine bundle is found false for a revoked key or a foreign root only.
OutageIsNotFraud ==
  Reported("NOT_VALID") /\ check.bundle \in Genuine /\ check.answer # "DAMAGED" =>
    \/ history[vc.key].status = "REVOKED"
    \/ anchor # Nothing /\ anchor.root = "OTHER"

\* Once everything in circulation says that the diploma or its key is revoked, no
\* verification that begins then ends in VALID: neither by a fetch that fails nor
\* by what changes between its fetches.
SettledRevocationWins == Reported("VALID") => ~check.settled

\* A VC that was signed in the window of its key stays verifiable through every
\* rotation, in every document in circulation, until the key is revoked
\* (did-document.ts:6-8).
OldKeysStayResolvable ==
  vc # Nothing /\ KeyValidAt(history, vc.key, vc.signedAt) =>
    \A d \in {didDocument, oldDocument} \ {Nothing} : vc.key \in d.verificationMethod

\* "Used by verifiers to check a credential's signature against the key that was
\* valid when it was issued" (key-history.ts:65-66): no VC that was signed after
\* the window of its key is VALID.
KeyWasValidAtIssuance ==
  LET retired == history[vc.key].validUntil IN
  Reported("VALID") => retired = Nothing \/ vc.signedAt <= retired
===============================================================================
