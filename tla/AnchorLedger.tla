----------------------------- MODULE AnchorLedger ------------------------------
(***************************************************************************)
(* What daily anchoring promises to somebody who relies on it, whatever    *)
(* fails on the way: every credential gets one leaf, in one batch, and the *)
(* leaves of a batch never change; the root of a day is written once; and  *)
(* the credentials of a batch are called confirmed, all of them, when the  *)
(* root on the chain is that of their batch and not before.  Nothing is    *)
(* ever taken back.                                                        *)
(***************************************************************************)
EXTENDS Naturals

CONSTANTS
  Credential,
  Day,
  Foreign   \* a root that is no batch's

VARIABLES
  batch,       \* the leaves of each day's batch, {} before it is closed
  batchOf,     \* the day of a credential's batch, 0 before
  root,        \* the root of each day, {} before
  confirmed

ledger == <<batch, batchOf, root, confirmed>>

Init ==
  /\ batch = [d \in Day |-> {}]
  /\ batchOf = [c \in Credential |-> 0]
  /\ root = [d \in Day |-> {}]
  /\ confirmed = {}

\* The members of a new batch are in no other; each has one leaf in it, of its
\* signed VC or of its claims.
Close(d, members, vcs) ==
  /\ batch[d] = {}
  /\ members # {}
  /\ \A c \in members : batchOf[c] = 0
  /\ batch' = [batch EXCEPT ![d] = {<<c, c \in vcs>> : c \in members}]
  /\ batchOf' = [c \in Credential |-> IF c \in members THEN d ELSE batchOf[c]]
  /\ UNCHANGED <<root, confirmed>>

Write(d, r) ==
  /\ root[d] = {}
  /\ r # {}
  /\ root' = [root EXCEPT ![d] = r]
  /\ UNCHANGED <<batch, batchOf, confirmed>>

Confirm(d) ==
  /\ batch[d] # {}
  /\ root[d] = batch[d]
  /\ confirmed' = confirmed \cup {c \in Credential : batchOf[c] = d}
  /\ UNCHANGED <<batch, batchOf, root>>

Step ==
  \E d \in Day :
    \/ \E members, vcs \in SUBSET Credential : Close(d, members, vcs)
    \/ \E r \in {batch[d], Foreign} : Write(d, r)
    \/ Confirm(d)

\* (That something changes comes first: it spares TLC the search for a step.)
Next == ledger' # ledger /\ Step

Spec == Init /\ [][Next]_ledger
===============================================================================
