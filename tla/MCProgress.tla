------------------------------ MODULE MCProgress ------------------------------
(***************************************************************************)
(* What comes to an end: appends to the audit chain, the daily anchoring,  *)
(* the signing and publishing of revocations.  They share no variable; as  *)
(* in MCServices a behaviour is one of them, under the fairness of its own *)
(* module.  Liveness takes no symmetry, so that there is little of each.   *)
(***************************************************************************)
EXTENDS AuditChain

CONSTANTS
  Credential,
  MaxAttempts,
  Worker, LastDay, MaxTx, Elsewhere,   \* Anchoring
  Runner, MaxSlot, ListLength          \* StatusList

VARIABLES
  today, issuedOn, signed, anchorStatus, anchorBatch, batches, roots, txs, jobs, runs,
  lifecycle, shape, enqueuing, signJob, slot, vc, nextSlot, announcing, publishJobs,
  minuteTaken, list, signRuns,
  component    \* the one that moves

Anchor == INSTANCE Anchoring WITH Runner <- Worker
Signing == INSTANCE StatusList WITH runs <- signRuns

anchorVars == <<today, issuedOn, signed, anchorStatus, anchorBatch, batches, roots, txs,
                jobs, runs>>
signVars == <<lifecycle, shape, enqueuing, signJob, slot, vc, nextSlot, announcing,
              publishJobs, minuteTaken, list, signRuns>>
progressVars == <<component, vars, anchorVars, signVars>>

ProgressInit ==
  /\ component \in {"audit", "anchoring", "signing"}
  /\ Init /\ Anchor!Init /\ Signing!Init
  \* nobody looks at it
  /\ component = "signing" \/ shape = [c \in Credential |-> "SOUND"]

ProgressNext ==
  /\ UNCHANGED component
  /\ \/ component = "audit" /\ Next /\ UNCHANGED <<anchorVars, signVars>>
     \/ component = "anchoring" /\ Anchor!Next /\ UNCHANGED <<vars, signVars>>
     \/ component = "signing" /\ Signing!Next /\ UNCHANGED <<vars, anchorVars>>

ProgressSpec ==
  /\ ProgressInit /\ [][ProgressNext]_progressVars
  /\ \/ component = "audit" /\ Fairness
     \/ component = "anchoring" /\ Anchor!Fairness
     \/ component = "signing" /\ Signing!Fairness

\* Anchoring's and StatusList's own, under their names.
ConfirmedOrGivenUp == Anchor!ConfirmedOrGivenUp
NobodyLeftBehind == Anchor!NobodyLeftBehind
RevocationShowsInTheEnd == Signing!RevocationShowsInTheEnd
SigningComesToAnEnd == Signing!SigningComesToAnEnd
===============================================================================
