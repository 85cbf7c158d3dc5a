------------------------------ MODULE MCInquiries ------------------------------
(***************************************************************************)
(* The two components that ask others over the network and believe, or do  *)
(* not, what they hear: the check of a request against HEMIS, and the open *)
(* verifier.  They share no variable; as in MCServices a behaviour is one  *)
(* of either.                                                              *)
(***************************************************************************)
EXTENDS SourceValidation, OpenVerifier, TLC

CONSTANTS n1, n2   \* a number that HEMIS confirms, and one it does not

OneConfirmed == n1 :> "same" @@ n2 :> "none"

VARIABLE component   \* the one that moves

inquiriesVars == <<component, vars, sourceVars, verifierVars>>

InquiriesInit ==
  component \in {"source", "verifier"} /\ SourceInit /\ VerifierInit

InquiriesNext ==
  /\ UNCHANGED component
  /\ \/ component = "source" /\ SourceNext /\ UNCHANGED verifierVars
     \/ component = "verifier" /\ VerifierNext /\ UNCHANGED <<vars, sourceVars>>

InquiriesSpec == InquiriesInit /\ [][InquiriesNext]_inquiriesVars

InquiriesTypeOK == SourceTypeOK /\ VerifierTypeOK

SourceSymmetry == Permutations(Credential) \cup Permutations(Request)
===============================================================================
