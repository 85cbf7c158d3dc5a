-------------------------------- MODULE MCJobs ---------------------------------
(***************************************************************************)
(* The jobs that follow an issuance, of the signing queue and of the two   *)
(* queues of the artifacts.  They share no variable; as in MCServices a    *)
(* behaviour is one of either.                                             *)
(***************************************************************************)
EXTENDS StatusList, Artifacts, TLC

VARIABLE component   \* the one that moves

jobsVars == <<component, vars, artifactVars>>

JobsInit ==
  /\ component \in {"list", "artifacts"}
  /\ Init /\ ArtifactsInit
  /\ component = "list" \/ shape = [c \in Credential |-> "SOUND"]   \* nobody looks at it

JobsNext ==
  /\ UNCHANGED component
  /\ \/ component = "list" /\ Next /\ UNCHANGED artifactVars
     \/ component = "artifacts" /\ ArtifactsNext /\ UNCHANGED vars

JobsSpec == JobsInit /\ [][JobsNext]_jobsVars

\* Of the component that moves: the other stays as it began.
JobsTypeOK ==
  /\ component = "list" => TypeOK
  /\ component = "artifacts" => ArtifactsTypeOK

\* What a rerun of a job leaves alone, whatever attempt was cut short where: a signed
\* diploma is not signed again or moved to another slot, and a completed notice is not
\* mailed again.  It is less than "Handlers must be idempotent - jobs may re-run"
\* (shared/queues.ts:4): a notice whose attempt failed may be mailed twice
\* (MailedOnce).
RerunsKeepWhatIsDone == SignedOnce /\ MailedAgainAfterFailureOnly

JobsSymmetry == Permutations(Credential) \cup Permutations(Runner)
===============================================================================
