------------------------------ MODULE PostProcess ------------------------------
(***************************************************************************)
(* The post-processing chain of internal/jobs/postprocess.go, the state it *)
(* shares with the job handlers, and the callers that complete a task.     *)
(*                                                                         *)
(* A committed transition into completed runs OnCompleted in the caller's  *)
(* own goroutine.  The callers are the worker whose handler walks the row  *)
(* back to completed, and the reconciler.  Each access OnCompleted makes   *)
(* to the database is one step, so every other actor may step in between.  *)
(*                                                                         *)
(* A payload has two places: "src", outside the task's destination, and    *)
(* "dst", inside it.  A name the program is about to use may be taken by   *)
(* content that is not the task's: "other", of another size or with other  *)
(* entries, or "alike", which agrees in all that the code compares (the    *)
(* size of a file; the names, kinds and sizes of a tree) and in no more.   *)
(***************************************************************************)
EXTENDS JobQueue, FiniteSets, FiniteSetsExt

CONSTANTS
    Tasks,
    Workers,         \* claim loops of the pool
    MaxFinishes,     \* bound: completed downloads per task
    MaxMishaps,      \* bound: failed store accesses, crashes and shutdowns
    Setups           \* the settings and payload shapes a run starts from

Places == {"none", "src", "dst"}
NameHeld == {"free", "other", "alike"}

(* taken is the payload's name at the destination, one the payload is not  *)
(* yet under, and sibling that of the extracted directory.                 *)
ASSUME PostProcessAssumption ==
    /\ MaxFinishes \in Nat /\ MaxMishaps \in Nat
    /\ "sweep" \notin Workers
    /\ Setups \subseteq [path : Places, archive : BOOLEAN, autoExtract : BOOLEAN, autoRemove : BOOLEAN,
                       sameFs : BOOLEAN, taken : NameHeld, sibling : NameHeld, hook : BOOLEAN,
                       reported : BOOLEAN, finishes : 0 .. MaxFinishes]
    /\ \A s \in Setups : s.taken # "free" => s.path # "dst"

RowStore == INSTANCE TaskStore WITH MaxHandles <- 1
transitionLegal(from, next) == RowStore!transitionLegal(from, next)

VARIABLES
    setup,     \* the settings and the payloads' shapes
    row,       \* the columns of the tasks table the chain reads
    jobs,      \* the jobs table
    disk,      \* what is on disk for each task
    chain,     \* OnCompleted as each actor runs it
    finished,  \* downloads completed per task
    phase,     \* the process: "boot" before the pool's recovery, then "up"
    mishaps,   \* what may still go wrong
    stopped    \* the process has been stopped since the run began

shared == <<setup, row, jobs, disk, chain, finished, phase, mishaps, stopped>>

Actors == Workers \union {"sweep"}
RowStates == RowStore!States \union {"gone"}

(* Job rows: one extract and one move row per task, whose INSERT refuses a *)
(* second; webhook rows, keyed by a payload that carries the send time.    *)
MaxNotes == MaxFinishes + MaxMishaps + 1
ExtractJob(t) == <<"extract", t, 0>>
MoveJob(t) == <<"move", t, 0>>
WebhookJob(t, n) == <<"webhook", t, n>>
JobKeys == {ExtractJob(t) : t \in Tasks} \union {MoveJob(t) : t \in Tasks}
             \union {WebhookJob(t, n) : t \in Tasks, n \in 1 .. MaxNotes}
Notes(t) == {n \in 1 .. MaxNotes : jobs[WebhookJob(t, n)].st # "none"}

(* src is "part" when its removal was cut short, tree is the extracted     *)
(* directory beside the archive.                                           *)
Disks == [src : {"absent", "payload", "part"}, dst : {"absent", "payload", "other", "alike"},
          stage : {"none", "full"}, tree : {"none", "own", "other", "alike"}]

IdleChain == [pc |-> "idle", task |-> "-", path |-> "none"]
ChainSteps == {"idle", "get", "extract", "reset", "insert", "move", "enqueue",
               "notify", "hook", "remove"}

SharedTypeOK ==
    /\ row \in [Tasks -> [st : RowStates, path : Places]]
    /\ jobs \in [JobKeys -> JobRows]
    /\ disk \in [Tasks -> Disks]
    /\ chain \in [Actors -> [pc : ChainSteps, task : Tasks \union {"-"}, path : Places]]
    /\ finished \in [Tasks -> 0 .. MaxFinishes]
    /\ phase \in {"boot", "up", "stopping"}
    /\ mishaps \in 0 .. MaxMishaps
    /\ stopped \in BOOLEAN

(* A task whose transfer runs, with the path creation gave its row.        *)
SharedInit ==
    /\ setup \in [Tasks -> Setups]
    /\ row = [t \in Tasks |-> [st |-> "downloading", path |-> setup[t].path]]
    /\ disk = [t \in Tasks |->
                 [src |-> IF setup[t].path = "src" THEN "payload" ELSE "absent",
                  dst |-> IF setup[t].path = "dst" THEN "payload"
                          ELSE IF setup[t].taken = "free" THEN "absent" ELSE setup[t].taken,
                  stage |-> "none",
                  tree |-> IF setup[t].sibling = "free" THEN "none" ELSE setup[t].sibling]]
    /\ jobs = [j \in JobKeys |-> NoJob]
    /\ chain = [a \in Actors |-> IdleChain]
    /\ finished = [t \in Tasks |-> 0]
    /\ phase = "boot"
    /\ mishaps = MaxMishaps
    /\ stopped = FALSE

--------------------------------------------------------------------------------
(* The chain.  Step(a, pc) moves actor a's pass on; an error of any step   *)
(* ends the pass, is logged and reaches no one.                            *)

Step(a, pc) == chain' = [chain EXCEPT ![a].pc = pc]
EndChain(a) == chain' = [chain EXCEPT ![a] = IdleChain]
StartChain(a, t) == chain' = [chain EXCEPT ![a] = [IdleChain EXCEPT !.pc = "get", !.task = t]]

At(a, pc) == chain[a].pc = pc

ChainGet(a) ==
    /\ At(a, "get")
    /\ LET t == chain[a].task IN
         IF row[t].st = "gone" THEN EndChain(a)
         ELSE chain' = [chain EXCEPT ![a].pc = "extract", ![a].path = row[t].path]
    /\ UNCHANGED <<setup, row, jobs, disk, finished, phase, mishaps, stopped>>

ExtractOwed(a) == /\ chain[a].path # "none"
                  /\ setup[chain[a].task].archive
                  /\ setup[chain[a].task].autoExtract

extractSettled(t) == jobs[ExtractJob(t)].st \in {"running", "done"}

ChainExtract(a) ==
    /\ At(a, "extract")
    /\ Step(a, IF ExtractOwed(a) /\ ~extractSettled(chain[a].task) THEN "reset" ELSE "move")
    /\ UNCHANGED <<setup, row, jobs, disk, finished, phase, mishaps, stopped>>

(* enqueueExtract: two statements, each atomic.                            *)
enqueueExtractReset(a) ==
    LET j == ExtractJob(chain[a].task) IN
    /\ At(a, "reset")
    /\ jobs' = IF jobs[j].st = "failed" THEN [jobs EXCEPT ![j] = EnqueueJob] ELSE jobs
    /\ Step(a, "insert")
    /\ UNCHANGED <<setup, row, disk, finished, phase, mishaps, stopped>>

(* The insert's foreign key refuses a task that has gone.                  *)
enqueueExtractInsert(a) ==
    LET t == chain[a].task j == ExtractJob(t) IN
    /\ At(a, "insert")
    /\ jobs' = IF jobs[j].st = "none" /\ row[t].st # "gone"
               THEN [jobs EXCEPT ![j] = EnqueueJob] ELSE jobs
    /\ EndChain(a)
    /\ UNCHANGED <<setup, row, disk, finished, phase, mishaps, stopped>>

(* The payload's directory is not the destination.                         *)
MoveOwed(a) == chain[a].path = "src"

moveSettled(t) == jobs[MoveJob(t)].st = "running"

ChainMove(a) ==
    /\ At(a, "move")
    /\ Step(a, IF MoveOwed(a) /\ ~moveSettled(chain[a].task) THEN "enqueue" ELSE "notify")
    /\ UNCHANGED <<setup, row, jobs, disk, finished, phase, mishaps, stopped>>

(* Reset and create in one transaction.  The destination does not change   *)
(* in this model, so a pending row's payload is never stale.               *)
enqueueMove(a) ==
    LET t == chain[a].task j == MoveJob(t) IN
    /\ At(a, "enqueue")
    /\ jobs' = IF jobs[j].st \in {"done", "failed"} \/ (jobs[j].st = "none" /\ row[t].st # "gone")
               THEN [jobs EXCEPT ![j] = EnqueueJob] ELSE jobs
    /\ EndChain(a)
    /\ UNCHANGED <<setup, row, disk, finished, phase, mishaps, stopped>>

(* The fan-out's insert is refused only by a row with the same payload,    *)
(* and the payload carries time.Now(): no code writes completed_at, so     *)
(* every pass builds a payload of its own.  The model's channels: one that *)
(* asked for the event, and one that did not.                              *)
Fanout(a) ==
    /\ At(a, "notify")
    /\ LET t == chain[a].task IN
         /\ Cardinality(Notes(t)) < MaxNotes
         /\ jobs' = [jobs EXCEPT ![WebhookJob(t, Cardinality(Notes(t)) + 1)] = EnqueueJob]
    /\ Step(a, "hook")
    /\ UNCHANGED <<setup, row, disk, finished, phase, mishaps, stopped>>

(* The hook's verdict is an event on the row; writing it fails when the    *)
(* row has gone, which ends the pass.                                      *)
runHook(a) ==
    /\ At(a, "hook")
    /\ IF setup[chain[a].task].hook /\ row[chain[a].task].st = "gone"
       THEN EndChain(a) ELSE Step(a, "remove")
    /\ UNCHANGED <<setup, row, jobs, disk, finished, phase, mishaps, stopped>>

(* Deleting the row cascades to the jobs that carry its id.                *)
maybeAutoRemove(a) ==
    LET t == chain[a].task IN
    /\ At(a, "remove")
    /\ IF setup[t].autoRemove
       THEN /\ row' = [row EXCEPT ![t].st = "gone"]
            /\ jobs' = [jobs EXCEPT ![ExtractJob(t)] = NoJob, ![MoveJob(t)] = NoJob]
       ELSE UNCHANGED <<row, jobs>>
    /\ EndChain(a)
    /\ UNCHANGED <<setup, disk, finished, phase, mishaps, stopped>>

(* A step's database access fails, or HookChainBudget runs out.            *)
ChainError(a) ==
    /\ chain[a].pc # "idle"
    /\ mishaps > 0
    /\ mishaps' = mishaps - 1
    /\ EndChain(a)
    /\ UNCHANGED <<setup, row, jobs, disk, finished, phase, stopped>>

OnCompleted(a) ==
    \/ ChainGet(a) \/ ChainExtract(a) \/ enqueueExtractReset(a) \/ enqueueExtractInsert(a)
    \/ ChainMove(a) \/ enqueueMove(a) \/ Fanout(a) \/ runHook(a) \/ maybeAutoRemove(a)

--------------------------------------------------------------------------------
(* The row's other writers, each a single guarded statement.               *)

(* The reconciler sees the transfer finish and runs the chain before the   *)
(* next row.  Boot reconciliation does the same before the pool starts.    *)
SweepFinish(t) ==
    /\ chain["sweep"].pc = "idle"
    /\ row[t].st \in {"downloading", "checking"}
    /\ finished[t] < setup[t].finishes
    /\ row' = [row EXCEPT ![t].st = "completed"]
    /\ finished' = [finished EXCEPT ![t] = @ + 1]
    /\ StartChain("sweep", t)
    /\ UNCHANGED <<setup, jobs, disk, phase, mishaps, stopped>>

(* A transfer the engine still lists as completed is adopted over whatever *)
(* the row says, whenever the edge is legal.                               *)
SweepAdopt(t) ==
    /\ setup[t].reported
    /\ chain["sweep"].pc = "idle"
    /\ row[t].st \in {"extracting", "moving", "paused"}
    /\ transitionLegal(row[t].st, "completed")
    /\ row' = [row EXCEPT ![t].st = "completed"]
    /\ StartChain("sweep", t)
    /\ UNCHANGED <<setup, jobs, disk, finished, phase, mishaps, stopped>>

(* The operator: pause a row mid-processing, resume or retry it, recheck   *)
(* or remove it.  A resumed row is released and downloads again.           *)
OperatorPause(t) ==
    /\ row[t].st \in {"extracting", "moving"}
    /\ row' = [row EXCEPT ![t].st = "paused"]
    /\ UNCHANGED <<setup, jobs, disk, chain, finished, phase, mishaps, stopped>>

OperatorResume(t) ==
    /\ row[t].st \in {"paused", "error"}
    /\ row' = [row EXCEPT ![t].st = "queued"]
    /\ UNCHANGED <<setup, jobs, disk, chain, finished, phase, mishaps, stopped>>

AdmitAgain(t) ==
    /\ row[t].st = "queued"
    /\ row' = [row EXCEPT ![t].st = "downloading"]
    /\ UNCHANGED <<setup, jobs, disk, chain, finished, phase, mishaps, stopped>>

OperatorRecheck(t) ==
    /\ row[t].st = "completed"
    /\ finished[t] < setup[t].finishes
    /\ row' = [row EXCEPT ![t].st = "checking"]
    /\ UNCHANGED <<setup, jobs, disk, chain, finished, phase, mishaps, stopped>>

OperatorRemove(t) ==
    /\ row[t].st # "gone"
    /\ transitionLegal(row[t].st, "removed")
    /\ row' = [row EXCEPT ![t].st = "removed"]
    /\ UNCHANGED <<setup, jobs, disk, chain, finished, phase, mishaps, stopped>>

RowWrites == \E t \in Tasks :
    \/ SweepFinish(t) \/ SweepAdopt(t) \/ OperatorPause(t) \/ OperatorResume(t)
    \/ AdmitAgain(t) \/ OperatorRecheck(t) \/ OperatorRemove(t)
================================================================================
