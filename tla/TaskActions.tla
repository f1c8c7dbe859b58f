------------------------------ MODULE TaskActions ------------------------------
(***************************************************************************)
(* The operator's lifecycle requests: the pause, resume, remove and        *)
(* force_complete actions of internal/api/tasks_actions.go and DELETE      *)
(* /tasks/{id} of internal/api/tasks_delete.go.  One request is in flight  *)
(* at a time.  Only pause takes the task-operation lease; the others work  *)
(* from the row they loaded first.                                         *)
(*                                                                         *)
(* want is a history variable: the last request of the operator that       *)
(* answered success for the task.                                          *)
(***************************************************************************)
EXTENDS TaskPlane

CONSTANT OpKinds     \* the requests the operator makes

ASSUME ActionsAssumption ==
    OpKinds \subseteq {"pause", "resume", "remove", "delete", "complete"}

VARIABLES op, want

OpLabels == {"idle", "wait", "enginePause", "pauseRow", "takeover", "resumeRow",
             "detachPause", "detach", "endRow"}
Wants == {"run", "pause", "gone"}

ActionsTypeOK ==
    /\ op.pc \in OpLabels
    /\ op.kind \in OpKinds \union {"-"}
    /\ op.id \in Tasks \union {0}
    /\ op.st \in States \union {"-"}
    /\ op.ref \in Handles \union {NoRef}
    /\ op.left \in Nat
    /\ want \in [Tasks -> Wants]

(* ops bounds how many requests the operator makes.                        *)
ActionsInit(ops) ==
    /\ op = [pc |-> "idle", kind |-> "-", id |-> 0, st |-> "-", ref |-> NoRef,
             left |-> ops]
    /\ want = [t \in Tasks |-> "run"]

OpGoto(label) == op' = [op EXCEPT !.pc = label]
OpIdle == [op EXCEPT !.pc = "idle", !.kind = "-", !.id = 0, !.st = "-", !.ref = NoRef]
(* The answer to the client; a pause gives its lease back with it.         *)
OpDone ==
    /\ op' = OpIdle
    /\ lease' = [t \in Tasks |-> IF lease[t] = "operator" THEN "free" ELSE lease[t]]

--------------------------------------------------------------------------------
(* loadActionTasks, or the Get of DeleteTask.                              *)
FirstStep(kind, r) ==
    CASE kind = "pause" -> "wait"
      [] kind = "resume" -> "resumeRow"
      [] kind = "delete" /\ r.ref # NoRef -> "detachPause"
      [] kind \in {"remove", "complete"} /\ r.ref # NoRef -> "detach"
      [] OTHER -> "endRow"

(* A remove or force_complete of a row already there, or a resume of a     *)
(* queued one, answers success and does nothing.                           *)
NothingToDo(kind, r) ==
    \/ kind = "remove" /\ r.st = "removed"
    \/ kind = "complete" /\ r.st = "completed"
    \/ kind = "resume" /\ r.st = "queued"

Request(kind, t) ==
    /\ op.pc = "idle"
    /\ op.left > 0
    /\ ~NothingToDo(kind, rows[t])
    /\ op' = [pc |-> FirstStep(kind, rows[t]), kind |-> kind, id |-> t,
              st |-> rows[t].st, ref |-> rows[t].ref, left |-> op.left - 1]
    /\ UNCHANGED <<plane, want>>

LeasedStep(r) ==
    CASE r.st = "paused" -> "takeover"
      [] r.st # "paused" /\ r.ref # NoRef -> "enginePause"
      [] OTHER -> "pauseRow"

(* pauseAction waits for the lease and reloads the row under it; a failed  *)
(* reload gives the lease back.                                            *)
PauseAcquire ==
    /\ op.pc = "wait"
    /\ lease[op.id] = "free"
    /\ LET r == rows[op.id] IN
       \/ /\ lease' = [lease EXCEPT ![op.id] = "operator"]
          /\ op' = [op EXCEPT !.pc = LeasedStep(r), !.st = r.st, !.ref = r.ref]
          /\ UNCHANGED faults
       \/ StoreDown /\ op' = OpIdle /\ UNCHANGED lease
    /\ UNCHANGED <<rows, xfers, want>>

(* pauseLeaseWait expires while another operation holds the lease.         *)
PauseExpires ==
    /\ op.pc = "wait"
    /\ lease[op.id] # "free"
    /\ op' = OpIdle
    /\ UNCHANGED <<plane, want>>

PauseEngine ==
    /\ op.pc = "enginePause"
    /\ \/ /\ EnginePause(op.ref)
          /\ IF PauseAnswer(op.ref) = "ok"
             THEN OpGoto("pauseRow") /\ UNCHANGED lease
             ELSE OpDone
          /\ UNCHANGED faults
       \/ EngineDown /\ OpDone /\ UNCHANGED xfers
    /\ UNCHANGED <<rows, want>>

(* Transition to paused; a row that meanwhile cannot move is a refusal.    *)
PauseRow ==
    /\ op.pc = "pauseRow"
    /\ \/ /\ Write(op.id, Transition(rows[op.id], "paused", "task.paused"))
          /\ IF transitionLegal(rows[op.id].st, "paused")
             THEN OpGoto("takeover") /\ UNCHANGED lease
             ELSE OpDone
          /\ UNCHANGED faults
       \/ StoreDown /\ OpDone /\ UNCHANGED rows
    /\ UNCHANGED <<xfers, want>>

(* Mutant: the pause leaves the guard's stamp on the row.                  *)
TakeoverSkipped ==
    /\ op.pc = "takeover"
    /\ want' = [want EXCEPT ![op.id] = "pause"]
    /\ OpDone
    /\ UNCHANGED <<rows, xfers, faults>>

(* ClearPausedHoldCode: the pass may no longer resume the row.             *)
Takeover ==
    /\ op.pc = "takeover"
    /\ \/ /\ Write(op.id, ClearPausedHoldCode(rows[op.id]))
          /\ want' = [want EXCEPT ![op.id] = "pause"]
          /\ UNCHANGED faults
       \/ StoreDown /\ UNCHANGED <<rows, want>>
    /\ OpDone
    /\ UNCHANGED xfers

(* resumeAction: no lease, no engine call.                                 *)
ResumeRow ==
    /\ op.pc = "resumeRow"
    /\ \/ /\ Write(op.id, Transition(rows[op.id], "queued", "task.resumed"))
          /\ want' = [want EXCEPT ![op.id] =
                        IF transitionLegal(rows[op.id].st, "queued") THEN "run" ELSE @]
          /\ UNCHANGED faults
       \/ StoreDown /\ UNCHANGED <<rows, want>>
    /\ OpDone
    /\ UNCHANGED xfers

(* The engine handle is dropped by the handle the request loaded.          *)
DetachPause ==
    /\ op.pc = "detachPause"
    /\ \/ /\ EnginePause(op.ref)
          /\ op' = IF PauseAnswer(op.ref) = "ok" THEN [op EXCEPT !.pc = "detach"] ELSE OpIdle
          /\ UNCHANGED faults
       \/ EngineDown /\ op' = OpIdle /\ UNCHANGED xfers
    /\ UNCHANGED <<rows, lease, want>>

Detach ==
    /\ op.pc = "detach"
    /\ \/ /\ EngineRemove(op.ref)
          /\ op' = IF Known(op.ref) THEN [op EXCEPT !.pc = "endRow"] ELSE OpIdle
          /\ UNCHANGED faults
       \/ EngineDown /\ op' = OpIdle /\ UNCHANGED xfers
    /\ UNCHANGED <<rows, lease, want>>

(* MarkRemoved of DELETE, or the plain transition of the two actions.      *)
Ended(r, kind) ==
    CASE kind = "delete" -> MarkRemoved(r)
      [] kind = "remove" -> Transition(r, "removed", "task.removed")
      [] OTHER -> Transition(r, "completed", "task.force_completed")

EndRow ==
    /\ op.pc = "endRow"
    /\ \/ /\ Write(op.id, Ended(rows[op.id], op.kind))
          /\ want' = [want EXCEPT ![op.id] =
                        IF Ended(rows[op.id], op.kind) # rows[op.id] THEN "gone" ELSE @]
          /\ UNCHANGED faults
       \/ StoreDown /\ UNCHANGED <<rows, want>>
    /\ OpDone
    /\ UNCHANGED xfers

ActionsNext ==
    \/ \E kind \in OpKinds, t \in Tasks : Request(kind, t)
    \/ PauseAcquire \/ PauseExpires \/ PauseEngine \/ PauseRow \/ Takeover
    \/ ResumeRow \/ DetachPause \/ Detach \/ EndRow
================================================================================
