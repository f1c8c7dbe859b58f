-------------------------------- MODULE Schedule -------------------------------
(***************************************************************************)
(* The bandwidth schedule's mode changes: EvaluateSchedule of              *)
(* internal/jobs/cron.go and Governor.ApplyMode of                         *)
(* internal/engine/bandwidth.go.  A No Download cell parks the tasks, any  *)
(* other cell requeues the parked set.  Default and Alternative differ     *)
(* only in the rates they push, which are not modelled here, so they are   *)
(* one mode.  gov.cell is the grid cell in force and gov.mode the mode     *)
(* ApplyMode last recorded.  The governor takes no task-operation lease.   *)
(***************************************************************************)
EXTENDS TaskPlane

VARIABLE gov

Modes == {"default", "no_download"}
GovLabels == {"idle", "scanRunning", "park", "release"}

(* pausableTask: live says the transfer may be running and must be paused. *)
Pausables == [id : Tasks, ref : Handles \union {NoRef}, live : BOOLEAN]

GovTypeOK ==
    /\ gov.mode \in Modes \union {""}
    /\ gov.cell \in Modes
    /\ gov.pc \in GovLabels
    /\ gov.todo \subseteq Pausables
    /\ gov.cur \in Tasks \union {0}
    /\ gov.ok \in BOOLEAN
    /\ gov.left \in Nat

(* cells bounds how many cell changes the schedule goes through.           *)
GovStart(cell, cells) == [mode |-> "", cell |-> cell, pc |-> "idle", todo |-> {},
                          cur |-> 0, ok |-> TRUE, left |-> cells]
GovInit(cells) == gov = GovStart("default", cells)

Pausable(t, live) == [id |-> t, ref |-> rows[t].ref, live |-> live]

--------------------------------------------------------------------------------
(* Time moves into a cell of the other mode; an evaluation in progress     *)
(* goes on with the cell it read.                                          *)
CellChanges ==
    /\ gov.left > 0
    /\ gov' = [gov EXCEPT !.left = @ - 1,
                          !.cell = CHOOSE m \in Modes : m # @]
    /\ UNCHANGED plane

(* The minute tick evaluates the cell; one that is applied is a no-op.     *)
Evaluates(mode) == gov.pc = "idle" /\ gov.cell = mode /\ gov.mode # mode

(* ApplyMode(ModeNoDownload): pausableTasks scans the queued rows first... *)
ParkScanQueued ==
    /\ Evaluates("no_download")
    /\ gov' = [gov EXCEPT !.pc = "scanRunning", !.ok = TRUE,
                 !.todo = {Pausable(t, rows[t].pend) :
                             t \in {u \in Tasks : rows[u].st = "queued"}}]
    /\ UNCHANGED plane

(* ... and the running ones after; a task in both keeps the second entry.  *)
ParkScanRunning ==
    /\ gov.pc = "scanRunning"
    /\ LET run == {t \in ListNonTerminalByEngine(rows) :
                     rows[t].st \in {"downloading", "checking"}} IN
       \/ /\ gov' = [gov EXCEPT !.pc = "park",
                    !.todo = {p \in @ : p.id \notin run} \union {Pausable(t, TRUE) : t \in run}]
          /\ UNCHANGED faults
       \/ StoreDown /\ gov' = [gov EXCEPT !.pc = "idle", !.todo = {}]
    /\ UNCHANGED <<rows, xfers, lease>>

(* parkOne on the tasks in any order, engine first.  A refusing engine     *)
(* leaves the task unparked, and the mode unrecorded so that the next tick *)
(* retries.                                                                *)
ParkEngine(p) ==
    /\ gov.pc = "park"
    /\ gov.cur = 0
    /\ p \in gov.todo
    /\ p.ref # NoRef /\ p.live
    /\ \/ /\ EnginePause(p.ref)
          /\ gov' = IF PauseAnswer(p.ref) = "refused"
                    THEN [gov EXCEPT !.todo = @ \ {p}, !.ok = FALSE]
                    ELSE [gov EXCEPT !.todo = (@ \ {p}) \union {[p EXCEPT !.live = FALSE]},
                                     !.cur = p.id]
          /\ UNCHANGED faults
       \/ /\ EngineDown
          /\ gov' = [gov EXCEPT !.todo = @ \ {p}, !.ok = FALSE]
          /\ UNCHANGED xfers
    /\ UNCHANGED <<rows, lease>>

ParkRow(p) ==
    /\ gov.pc = "park"
    /\ p \in gov.todo
    /\ gov.cur \in {0, p.id}
    /\ ~(p.ref # NoRef /\ p.live)
    /\ \/ /\ Write(p.id, ScheduleParked(rows[p.id]))
          /\ gov' = [gov EXCEPT !.todo = @ \ {p}, !.cur = 0]
          /\ UNCHANGED faults
       \/ /\ StoreDown
          /\ gov' = [gov EXCEPT !.todo = @ \ {p}, !.cur = 0, !.ok = FALSE]
          /\ UNCHANGED rows
    /\ UNCHANGED <<xfers, lease>>

ParkEnd ==
    /\ gov.pc = "park"
    /\ gov.todo = {}
    /\ gov' = [gov EXCEPT !.pc = "idle", !.mode = IF gov.ok THEN "no_download" ELSE @]
    /\ UNCHANGED plane

--------------------------------------------------------------------------------
(* ApplyMode of any other cell: the limits land, then resumeParked lists   *)
(* the parked set.                                                         *)
ReleaseList ==
    /\ Evaluates("default")
    /\ \/ /\ gov' = [gov EXCEPT !.pc = "release", !.ok = TRUE,
                          !.todo = {Pausable(t, FALSE) : t \in ListScheduleParked(rows)}]
          /\ UNCHANGED faults
       \/ (EngineDown \/ StoreDown) /\ UNCHANGED gov
    /\ UNCHANGED <<rows, xfers, lease>>

ReleaseRow(p) ==
    /\ gov.pc = "release"
    /\ p \in gov.todo
    /\ \/ /\ Write(p.id, Transition(rows[p.id], "queued", "task.schedule.resumed"))
          /\ gov' = [gov EXCEPT !.todo = @ \ {p}]
          /\ UNCHANGED faults
       \/ /\ StoreDown
          /\ gov' = [gov EXCEPT !.todo = @ \ {p}, !.ok = FALSE]
          /\ UNCHANGED rows
    /\ UNCHANGED <<xfers, lease>>

(* Mutant: the mode counts as applied although a requeue failed.           *)
ReleaseEndUnchecked ==
    /\ gov.pc = "release"
    /\ gov.todo = {}
    /\ gov' = [gov EXCEPT !.pc = "idle", !.mode = "default"]
    /\ UNCHANGED plane
ReleaseEnd ==
    /\ gov.pc = "release"
    /\ gov.todo = {}
    /\ gov' = [gov EXCEPT !.pc = "idle", !.mode = IF gov.ok THEN "default" ELSE @]
    /\ UNCHANGED plane

GovNext ==
    \/ CellChanges \/ ParkScanQueued \/ ParkScanRunning \/ ParkEnd
    \/ \E p \in gov.todo : ParkEngine(p) \/ ParkRow(p) \/ ReleaseRow(p)
    \/ ReleaseList \/ ReleaseEnd
================================================================================
