------------------------------ MODULE MCWorkflow -------------------------------
(***************************************************************************)
(* The workflow twice: transaction by transaction on the tables, with what *)
(* the public sees of them, and lock by lock.  A behaviour is one of the   *)
(* two.  What the second says (SerialKept) is why the first may take a     *)
(* transaction for one step.  The requests of the one and the diplomas of  *)
(* the other are the same three values, so that Symmetry serves both.      *)
(***************************************************************************)
EXTENDS MCIssuance, RowLocks

CONSTANTS draft1, draft2, case1, case2   \* replacements, and their cases

Drafts == {draft1, draft2}
Links == draft1 :> case1 @@ draft2 :> case2

VARIABLE component   \* the one that moves

workflowVars == <<component, vars, locksVars>>

WorkflowInit == component \in {"tables", "locks"} /\ Init /\ LocksInit

WorkflowNext ==
  /\ UNCHANGED component
  /\ \/ component = "tables" /\ Next /\ UNCHANGED locksVars
     \/ component = "locks" /\ LocksNext /\ UNCHANGED vars

WorkflowSpec == WorkflowInit /\ [][WorkflowNext]_workflowVars

WorkflowTypeOK == TypeOK /\ LocksTypeOK

===============================================================================
