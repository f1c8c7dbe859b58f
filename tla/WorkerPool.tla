------------------------------- MODULE WorkerPool -------------------------------
(***************************************************************************)
(* The worker pool of internal/jobs/worker.go over the jobs table, with    *)
(* its handlers and the post-processing chain: claim, run, record the      *)
(* outcome; a crash or a shutdown at any point, and the next boot.         *)
(***************************************************************************)
EXTENDS JobHandlers

vars == <<shared, hand>>

Init == SharedInit /\ HandlerInit

(* claimLoop: any due pending row, the first step of its handler next.     *)
FirstStep(kind) == CASE kind = "extract" -> "x.get"
                     [] kind = "move" -> "m.get"
                     [] kind = "webhook" -> "w.send"

claimLoop(w) ==
    /\ phase = "up"
    /\ On(w, "idle")
    /\ \E j \in JobKeys :
         /\ jobs[j].st = "pending"
         /\ jobs[j].attempts < AttemptBound
         /\ jobs' = [jobs EXCEPT ![j] = ClaimJob(@)]
         /\ hand' = [hand EXCEPT ![w] =
              [IdleHand EXCEPT !.pc = FirstStep(j[1]), !.job = j,
                               !.attempts = jobs[j].attempts + 1]]
    /\ UNCHANGED <<setup, row, disk, chain, finished, phase, mishaps, stopped>>

(* No row is due, or only rows past the bound of the run: the loop sleeps  *)
(* and looks again.                                                        *)
claimNothing(w) ==
    /\ phase = "up"
    /\ On(w, "idle")
    /\ \A j \in JobKeys : jobs[j].st = "pending" => jobs[j].attempts = AttemptBound
    /\ UNCHANGED vars

(* execute's outcome write, in a context the shutdown does not cancel.  If *)
(* it fails, the row stays running until the next boot.                    *)
ExecuteOutcome(w) ==
    LET j == hand[w].job IN
    /\ hand[w].pc \in {"ok", "err"}
    /\ \/ /\ jobs' = [jobs EXCEPT ![j] = IF On(w, "ok") THEN CompleteJob(@)
                                         ELSE FailJob(@, hand[w].attempts)]
          /\ mishaps' = mishaps
       \/ mishaps > 0 /\ mishaps' = mishaps - 1 /\ jobs' = jobs
    /\ hand' = [hand EXCEPT ![w] = IdleHand]
    /\ UNCHANGED <<setup, row, disk, chain, finished, phase, stopped>>

(* A handler panic is an error of the handler.                             *)
runSafely(w) ==
    \/ ExtractHandle(w) \/ MoveHandle(w) \/ WebhookHandle(w) \/ ChainReturns(w)
    \/ HandlerError(w)

ChainStep(a) == (OnCompleted(a) \/ ChainError(a)) /\ UNCHANGED hand

(* The pool starts: stranded rows go back to pending.  A failure is only   *)
(* logged, and the pool starts all the same.                               *)
PoolRun ==
    /\ phase = "boot"
    /\ phase' = "up"
    /\ \/ jobs' = [j \in JobKeys |-> RecoverRunningJobs(jobs[j])] /\ mishaps' = mishaps
       \/ mishaps > 0 /\ mishaps' = mishaps - 1 /\ jobs' = jobs
    /\ UNCHANGED <<setup, row, disk, chain, finished, stopped, hand>>

(* The process dies: what was in memory is gone; a staging directory left  *)
(* behind has a name no later run uses.                                    *)
Crash ==
    /\ mishaps > 0
    /\ mishaps' = mishaps - 1
    /\ stopped' = TRUE
    /\ phase' = "boot"
    /\ chain' = [a \in Actors |-> IdleChain]
    /\ hand' = [w \in Workers |-> IdleHand]
    /\ disk' = [t \in Tasks |-> [disk[t] EXCEPT !.stage = "none"]]
    /\ UNCHANGED <<setup, row, jobs, finished>>

(* OnStop cancels the pool's context and waits for the running handlers.   *)
Shutdown ==
    /\ phase = "up"
    /\ mishaps > 0
    /\ mishaps' = mishaps - 1
    /\ stopped' = TRUE
    /\ phase' = "stopping"
    /\ UNCHANGED <<setup, row, jobs, disk, chain, finished, hand>>

Restart ==
    /\ phase = "stopping"
    /\ \A w \in Workers : On(w, "idle")
    /\ phase' = "boot"
    /\ chain' = [a \in Actors |-> IdleChain]
    /\ UNCHANGED <<setup, row, jobs, disk, finished, mishaps, stopped, hand>>

Next ==
    \/ \E w \in Workers : claimLoop(w) \/ claimNothing(w) \/ ExecuteOutcome(w) \/ runSafely(w)
    \/ \E a \in Actors : ChainStep(a)
    \/ RowWrites /\ UNCHANGED hand
    \/ PoolRun \/ Crash \/ Shutdown \/ Restart

Progress(w) == claimLoop(w) \/ ExecuteOutcome(w) \/ runSafely(w) \/ ChainStep(w)

(* The loops of the pool run on; nothing obliges the operator, the engine  *)
(* or a fault to act.                                                      *)
PoolFairness ==
    /\ \A w \in Workers : WF_vars(Progress(w))
    /\ WF_vars(ChainStep("sweep"))
    /\ WF_vars(PoolRun) /\ WF_vars(Restart)

Spec == Init /\ [][Next]_vars /\ PoolFairness

--------------------------------------------------------------------------------
(* Job rows, task rows, files, handlers and chains keep their types.       *)
TypeOK == SharedTypeOK /\ HandlerTypeOK

Runs(w, j) == hand[w].pc # "idle" /\ hand[w].job = j

(* No two workers run the same job row at once, whatever crashes, failed   *)
(* outcome writes and recoveries came before (ClaimJob, RecoverRunningJobs).*)
OneRunner ==
    \A j \in JobKeys : Cardinality({w \in Workers : Runs(w, j)}) <= 1

(* The task's bytes are on disk, in one piece, at every step of a move, a  *)
(* crash between any two of them or during a removal included: the source  *)
(* is unlinked only after delivery.  A destination that is alike is taken  *)
(* for an earlier delivery, and there the source goes (samePayload).       *)
PayloadKept ==
    \A t \in Tasks : setup[t].path # "none" /\ setup[t].taken # "alike" =>
        disk[t].src = "payload" \/ disk[t].dst = "payload"

(* A payload or an extracted tree that is not the task's own is never      *)
(* replaced (the collision rules of MoveHandler and verifyAndMove).        *)
NoClobber ==
    \A t \in Tasks :
      /\ setup[t].taken # "free" => disk[t].dst = setup[t].taken
      /\ setup[t].sibling # "free" => disk[t].tree = setup[t].sibling

(* Once the move job has ended, a row that completed or failed names in    *)
(* content_path a place that holds the payload, also when the process died *)
(* between the rename and the write of the path.  A row the operator takes *)
(* out of moving in that window keeps the stale path until it completes    *)
(* again, when the chain corrects it; an adoption in that window does not. *)
(* Two ends are left out: content that is alike at the destination, and a  *)
(* source whose removal was cut short, which a second run takes for a      *)
(* collision (MoveHandler, handlers_move.go:155-187).                      *)
OnlyMoves(t) == setup[t].path # "none" /\ ~(setup[t].archive /\ setup[t].autoExtract)
PathTrue ==
    \A t \in Tasks :
      /\ OnlyMoves(t) /\ ~setup[t].reported /\ row[t].st \in {"completed", "error"}
      /\ finished[t] = 1 /\ (\A a \in Actors : chain[a].task # t)
      /\ jobs[MoveJob(t)].st \in {"none", "done"}
      /\ setup[t].taken # "alike" /\ disk[t].src # "part"
      => \/ row[t].path = "src" /\ disk[t].src = "payload"
         \/ row[t].path = "dst" /\ disk[t].dst = "payload"

(* A row in a post-processing state has a job that will still act on it,   *)
(* or one that used up its attempts: no interleaving of claims, pauses,    *)
(* crashes and re-enqueues leaves it extracting or moving with nobody to   *)
(* move it on.                                                             *)
WorkHasJob ==
    \A t \in Tasks :
      LET owner == IF row[t].st = "extracting" THEN jobs[ExtractJob(t)] ELSE jobs[MoveJob(t)]
      IN  row[t].st \in {"extracting", "moving"} =>
            \/ owner.st \in {"pending", "running"}
            \/ owner.st = "failed" /\ owner.attempts >= MaxAttempts

(* The tail of the chain (notification, hook, auto-remove) of a task's     *)
(* first completion waits for the extraction and the move it owes: the row *)
(* is never deleted, and with it the job row, while work on the payload is *)
(* outstanding.  extractSettled and moveSettled take a running job for the *)
(* caller's own; that is so only while the process has not been stopped    *)
(* and no adoption completes the row under a running handler.              *)
Extracted(t) == disk[t].tree \in {"own", "alike"}
TailAfterWork ==
    \A a \in Actors : chain[a].pc \in {"notify", "hook", "remove"} =>
      LET t == chain[a].task IN
      ~setup[t].reported /\ finished[t] = 1 /\ ~stopped =>
        /\ setup[t].archive /\ setup[t].autoExtract /\ setup[t].path # "none"
             => Extracted(t)
        /\ disk[t].src = "absent"

(* A move is idempotent: a task without an extraction is notified at most  *)
(* once per finished download, crashes and re-runs of its move included.   *)
MoveNotifiesOnce ==
    \A t \in Tasks :
      ~setup[t].reported /\ OnlyMoves(t) => Cardinality(Notes(t)) <= finished[t]

(* The queue drains: from any state with a job waiting, a state is reached *)
(* where every job is done, failed for good, deleted with its task, or     *)
(* stranded in running by an outcome write or a recovery that failed.  An  *)
(* engine that goes on reporting the finished transfer has its adoptions   *)
(* re-arm the move without end, and is left out.                           *)
Stranded(j) == jobs[j].st = "running" /\ \A w \in Workers : ~Runs(w, j)
Settled(j) == jobs[j].st \in {"done", "failed", "none"} \/ Stranded(j)
QueueDrains ==
    []<>((\E t \in Tasks : setup[t].reported) \/ \A j \in JobKeys : Settled(j))

(* A job has one runner, a row that is extracting or moving has a job that *)
(* still acts on it, the tail of the chain waits for that work, and a move *)
(* repeated after a crash does not repeat its notification (ClaimJob,      *)
(* ExtractHandler, MoveHandler, extractSettled, moveSettled, Fanout).      *)
JobsSafe ==
    TypeOK /\ OneRunner /\ WorkHasJob /\ TailAfterWork /\ MoveNotifiesOnce

(* The bytes of a task are never lost or replaced by a move or an          *)
(* extraction, nor do they replace others, and the row's path names them   *)
(* in the end, unless the destination holds something that samePayload     *)
(* takes for them (MoveHandler, verifyAndMove).                            *)
PayloadSafe == PayloadKept /\ NoClobber /\ PathTrue
================================================================================
