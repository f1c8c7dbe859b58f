-------------------------------- MODULE JobQueue --------------------------------
(***************************************************************************)
(* The jobs table of internal/store/jobs.go: each statement is an operator *)
(* from the row before the write to the row after it.  A row that does not *)
(* exist (never enqueued, or deleted with its task) has st = "none", and   *)
(* an UPDATE by id leaves it alone.                                        *)
(*                                                                         *)
(* run_after is a wall-clock time, now plus the delay of the retry ladder: *)
(* the modules that use the queue let a pending row fall due at any moment.*)
(***************************************************************************)
EXTENDS Naturals

CONSTANTS
    MaxAttempts,     \* the max_attempts column (5 in the schema)
    AttemptBound     \* bound on the attempts a run may count

ASSUME QueueAssumption ==
    /\ MaxAttempts \in Nat \ {0}
    /\ AttemptBound \in Nat
    /\ AttemptBound > MaxAttempts

JobStates == {"none", "pending", "running", "done", "failed"}
JobRows == [st : JobStates, attempts : 0 .. AttemptBound]
NoJob == [st |-> "none", attempts |-> 0]

EnqueueJob == [st |-> "pending", attempts |-> 0]

(* The claim flips the state and counts the attempt in one statement.      *)
ClaimJob(j) == [j EXCEPT !.st = "running", !.attempts = @ + 1]

CompleteJob(j) == IF j.st = "none" THEN j ELSE [j EXCEPT !.st = "done"]

(* FailJob judges the attempts of the claimed copy, not of the row.        *)
(* Mutant: the attempts are never exhausted.                               *)
FailJobForever(j, attempts) == IF j.st = "none" THEN j ELSE [j EXCEPT !.st = "pending"]
FailJob(j, attempts) ==
    IF j.st = "none" THEN j
    ELSE [j EXCEPT !.st = IF attempts >= MaxAttempts THEN "failed" ELSE "pending"]

(* Boot recovery.                                                          *)
RecoverRunningJobs(j) == IF j.st = "running" THEN [j EXCEPT !.st = "pending"] ELSE j
================================================================================
