------------------------------ MODULE KeyHistory -------------------------------
(***************************************************************************)
(* The issuer's key history and the did:web document derived from it       *)
(* (packages/did/src/key-history.ts, did-document.ts): which key might     *)
(* sign when, and which keys a verifier finds.                             *)
(*                                                                         *)
(* A history is a function from the ids of its keys, so that none is in it *)
(* twice; instants are natural numbers.                                    *)
(***************************************************************************)
EXTENDS Integers

CONSTANTS
  Key,   \* key ids
  Nothing

KeyStatus == {"ACTIVE", "RETIRED", "REVOKED"}

\* A history up to an instant.
KeyHistoryEntry(last) ==
  [validFrom : 0 .. last, validUntil : 0 .. last \cup {Nothing}, status : KeyStatus]
Histories(last) == UNION {[keys -> KeyHistoryEntry(last)] : keys \in SUBSET Key}

\* Half-open: at validUntil a key may sign no more.
KeyValidAt(history, k, t) ==
  /\ k \in DOMAIN history
  /\ history[k].status # "REVOKED"
  /\ history[k].validFrom <= t
  /\ history[k].validUntil = Nothing \/ t < history[k].validUntil

SigningKeysAt(history, t) == {k \in DOMAIN history : KeyValidAt(history, k, t)}

\* Of these the code wants exactly one.
ActiveSigningKeys(history, t) ==
  {k \in SigningKeysAt(history, t) : history[k].status = "ACTIVE"}

ValidHistory(history) ==
  \A k \in DOMAIN history :
    IF history[k].validUntil = Nothing THEN history[k].status # "RETIRED"
    ELSE history[k].validUntil > history[k].validFrom

Methods(history, statuses) == {k \in DOMAIN history : history[k].status \in statuses}

\* Mutant: keys that were rotated out are dropped.
BuildDidDocument_ActiveOnly(history) ==
  IF ValidHistory(history) /\ Methods(history, {"ACTIVE"}) # {}
    THEN [verificationMethod |-> Methods(history, {"ACTIVE"}),
          assertionMethod |-> Methods(history, {"ACTIVE"})]
    ELSE Nothing

\* RETIRED keys still verify; REVOKED ones are gone; without an ACTIVE one there
\* is no document.
BuildDidDocument(history) ==
  IF ValidHistory(history) /\ Methods(history, {"ACTIVE"}) # {}
    THEN [verificationMethod |-> Methods(history, {"ACTIVE", "RETIRED"}),
          assertionMethod |-> Methods(history, {"ACTIVE"})]
    ELSE Nothing
===============================================================================
