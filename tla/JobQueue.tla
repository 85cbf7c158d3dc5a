-------------------------------- MODULE JobQueue --------------------------------
(***************************************************************************)
(* BullMQ as packages/shared/src/queues.ts configures it: the states of a  *)
(* job and what the queue does to it.  External: only what this code can   *)
(* see of it.                                                              *)
(*                                                                         *)
(* An attempt that throws, or whose worker dies, is followed by another    *)
(* until the attempts are used up; the job is then FAILED and stays there  *)
(* (removeOnFail: false) until an operator, where there is a route for it, *)
(* retries it, which gives it one attempt.  BullMQ counts attempts that    *)
(* throw and workers that die apart; here both use up MaxAttempts.         *)
(***************************************************************************)
EXTENDS Integers

CONSTANT MaxAttempts   \* DEFAULT_JOB_OPTIONS.attempts

ASSUME AttemptsAssumption == MaxAttempts \in Nat \ {0}

JobState == {"UNKNOWN", "WAITING", "ACTIVE", "COMPLETED", "FAILED"}
Job == [state : JobState, attempts : 0 .. MaxAttempts]   \* attempts that failed

Unknown == [state |-> "UNKNOWN", attempts |-> 0]
Added == [state |-> "WAITING", attempts |-> 0]

\* An id that is known, whatever became of its job, is not added again.
Add(queue, j) == IF queue[j] = Unknown THEN [queue EXCEPT ![j] = Added] ELSE queue

Take(queue, j) == [queue EXCEPT ![j].state = "ACTIVE"]
Complete(queue, j) == [queue EXCEPT ![j].state = "COMPLETED"]

\* Mutant: a job that fails is tried again without an end.
FailOrRetry_Endless(queue, j) ==
  [queue EXCEPT ![j] = [state |-> "WAITING", attempts |-> queue[j].attempts + 1]]

LastAttempt(job) == job.attempts + 1 >= MaxAttempts

FailOrRetry(queue, j) ==
  [queue EXCEPT ![j] =
     IF LastAttempt(queue[j]) THEN [state |-> "FAILED", attempts |-> MaxAttempts]
     ELSE [state |-> "WAITING", attempts |-> queue[j].attempts + 1]]

\* UnrecoverableError, which no attempt follows.
GiveUp(queue, j) == [queue EXCEPT ![j].state = "FAILED"]

\* job.retry(), by an operator: the attempts made stay counted.
Retry(queue, j) == [queue EXCEPT ![j].state = "WAITING"]
===============================================================================
