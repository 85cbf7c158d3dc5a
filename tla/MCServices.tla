------------------------------ MODULE MCServices -------------------------------
(***************************************************************************)
(* The services around the workflow that share no variable: the holder     *)
(* portal, the staff accounts, the import, and the daily anchoring.        *)
(* Nothing is learnt from interleaving them, so a behaviour is one of one  *)
(* of them, chosen at the start, and the others stay in their initial      *)
(* states.  The states are the sum of theirs, not the product.             *)
(***************************************************************************)
EXTENDS Anchoring, HolderPortal, StaffAuth, ImportBatch, TLC

CONSTANTS
  dorj, tuya,     \* holders; both have an address, tuya's diploma is not shared
  d1, d2,
  num, muis,      \* institutions
  k1, k2          \* rows of an import

OwnerOf == d1 :> dorj @@ d2 :> tuya

SomeOffers ==
  {{[role |-> "platform_admin", institution |-> Global]},
   {[role |-> "operator", institution |-> num]}}

\* Two good rows; a duplicate and a bad row; a bad row first.
SomeFiles == {<<k1, k2>>, <<k1, k1, Malformed>>, <<Malformed, k1>>}

VARIABLE component   \* the one that moves

servicesVars == <<component, vars, portalVars, staffVars, importVars>>

ServicesInit ==
  /\ component \in {"anchoring", "portal", "staff", "import"}
  /\ Init /\ PortalInit /\ StaffInit /\ ImportInit

ServicesNext ==
  /\ UNCHANGED component
  /\ \/ component = "anchoring" /\ Next /\ UNCHANGED <<portalVars, staffVars, importVars>>
     \/ component = "portal" /\ PortalNext /\ UNCHANGED <<vars, staffVars, importVars>>
     \/ component = "staff" /\ StaffNext /\ UNCHANGED <<vars, portalVars, importVars>>
     \/ component = "import" /\ ImportNext /\ UNCHANGED <<vars, portalVars, staffVars>>

ServicesSpec == ServicesInit /\ [][ServicesNext]_servicesVars

\* Of the component that moves: the others stay as they began.
ServicesTypeOK ==
  /\ component = "anchoring" => TypeOK
  /\ component = "portal" => PortalTypeOK
  /\ component = "staff" => StaffTypeOK
  /\ component = "import" => ImportTypeOK

\* The requests of three components are the same two values, the credentials of the
\* one and the invitations of another are another two, so that two permutations serve
\* them all.
ServicesSymmetry == Permutations(Credential) \cup Permutations(Request)
===============================================================================
