----------------------------- MODULE PublicRecord -----------------------------
(***************************************************************************)
(* What the platform promises about a diploma to somebody who checks its   *)
(* certificate ID: unknown until two different people put it on record,    *)
(* then valid with contents that never change, until it is revoked or a    *)
(* newer diploma takes its place - at most one diploma per new one, in the *)
(* same step.  Nothing comes back from there.                              *)
(***************************************************************************)
EXTENDS CredentialStatus

CONSTANTS Credential, Staff, Claims, NULL

VARIABLE record

Entry ==
  [result    : VerificationResult,
   content   : Claims \cup {NULL},
   submitter : Staff \cup {NULL},
   approver  : Staff \cup {NULL},
   successor : Credential \cup {NULL}]

Unknown ==
  [result |-> "NOT_FOUND", content |-> NULL, submitter |-> NULL,
   approver |-> NULL, successor |-> NULL]

Init == record = [c \in Credential |-> Unknown]

NewEntry ==
  [result : {"VALID"}, content : Claims, submitter : Staff, approver : Staff,
   successor : {NULL}]

\* The diplomas that a new one can take the place of: none, or one.
AtMostOne == {{}} \cup {{o} : o \in Credential}

\* c goes on record, signed by two people, and takes the place of those in old.
Issue(c, old) ==
  /\ record[c].result = "NOT_FOUND"
  /\ record'[c] \in NewEntry
  /\ record'[c].submitter # record'[c].approver
  /\ \A o \in old : record[o].result = "VALID"
  /\ record' = [x \in Credential |->
       IF x = c
         THEN record'[c]
         ELSE IF x \in old
                THEN [record[x] EXCEPT !.result = "SUPERSEDED", !.successor = c]
                ELSE record[x]]

Revoke(c) ==
  /\ record[c].result = "VALID"
  /\ record' = [record EXCEPT ![c].result = "REVOKED"]

Next ==
  \E c \in Credential :
    \/ \E old \in AtMostOne : Issue(c, old)
    \/ Revoke(c)

Spec == Init /\ [][Next]_record
===============================================================================
