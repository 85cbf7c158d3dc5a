------------------------------ MODULE MCIssuance ------------------------------
(* Issuance on small sets.  All that the specification compares are        *)
(* identities, and here everybody has every role, so the members of each   *)
(* set are interchangeable.                                                *)
EXTENDS PublicVerification, TLC

Everyone == Staff

Symmetry ==
  Permutations(Credential) \cup Permutations(Case) \cup Permutations(Claims)
    \cup Permutations(Staff)
===============================================================================
