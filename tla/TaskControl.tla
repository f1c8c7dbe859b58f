------------------------------ MODULE TaskControl ------------------------------
(***************************************************************************)
(* The task plane as a whole: the admission pass, the reconciler's sweep,  *)
(* the schedule's governor, the operator's requests and the engine itself, *)
(* interleaved over one tasks table.  A scenario says who takes part and   *)
(* how often what may fail, so that a run can ask what one mechanism       *)
(* guarantees against another.                                             *)
(***************************************************************************)
EXTENDS Admission, TaskActions, Schedule, Reconciler

CONSTANTS
    Scenarios,     \* who takes part beside the admission pass, and how often what happens
    EngineEvents   \* what the engine does by itself

ASSUME ControlAssumption ==
    /\ \A s \in Scenarios :
          /\ s.actors \subseteq {"operator", "schedule", "sweep"}
          /\ s.ops \in Nat
          /\ s.cells \in Nat
          /\ s.faults \in [engine : Nat, store : Nat]
          /\ s.crashes \in Nat
    /\ EngineEvents \subseteq {"metadata", "finish", "full", "error", "lose"}

VARIABLES
    booted,   \* the boot sweep is over: the loops run and the listener is open
    actors,   \* who takes part in this behaviour
    crashes   \* how often the dl-tool process may still die

others == <<booted, actors, crashes>>
vars == <<plane, pass, op, want, gov, sweep, others>>

TypeOK ==
    /\ PlaneTypeOK
    /\ PassTypeOK
    /\ ActionsTypeOK
    /\ GovTypeOK
    /\ SweepTypeOK
    /\ booted \in BOOLEAN
    /\ actors \subseteq {"operator", "schedule", "sweep"}
    /\ crashes \in Nat

Init ==
    /\ PlaneInit
    /\ PassInit
    /\ SweepInit
    /\ \E s \in Scenarios : /\ ActionsInit(s.ops)
                             /\ GovInit(s.cells)
                             /\ actors = s.actors
                             /\ faults = s.faults
                             /\ crashes = s.crashes
    /\ booted = ("sweep" \notin actors)

PassStep == booted /\ PassNext /\ UNCHANGED <<op, want, gov, sweep, others>>
OperatorStep == booted /\ ActionsNext /\ UNCHANGED <<pass, gov, sweep, others>>
ScheduleStep == booted /\ GovNext /\ UNCHANGED <<pass, op, want, sweep, others>>

(* NewServer runs one sweep to its end, or to its failure, before it       *)
(* starts anything else.                                                   *)
SweepStep ==
    /\ SweepNext
    /\ booted' = (booted \/ sweep' = IdleSweep)
    /\ UNCHANGED <<pass, op, want, gov, actors, crashes>>

controllers == <<pass, op, want, gov, sweep, others>>
MetadataStep(h) == "metadata" \in EngineEvents /\ ReceiveMetadata(h) /\ UNCHANGED controllers
FinishStep(h) == "finish" \in EngineEvents /\ Finish(h) /\ UNCHANGED controllers
StopStep(h) == \E st \in EngineEvents \intersect {"full", "error"} :
                   StopWithError(h, st) /\ UNCHANGED controllers
LoseStep(h) == "lose" \in EngineEvents /\ LoseHandle(h) /\ UNCHANGED controllers

(* The process dies and starts again: rows and transfers survive, leases,  *)
(* the walk, the request and the applied mode do not.                      *)
Crash ==
    /\ crashes > 0
    /\ crashes' = crashes - 1
    /\ booted' = ("sweep" \notin actors)
    /\ lease' = [t \in Tasks |-> "free"]
    /\ pass' = IdlePass
    /\ sweep' = IdleSweep
    /\ op' = OpIdle
    /\ gov' = GovStart(gov.cell, gov.left)
    /\ UNCHANGED <<rows, xfers, faults, want, actors>>

Next ==
    \/ PassStep
    \/ "operator" \in actors /\ OperatorStep
    \/ "schedule" \in actors /\ ScheduleStep
    \/ "sweep" \in actors /\ SweepStep
    \/ \E h \in Handles : MetadataStep(h) \/ FinishStep(h) \/ StopStep(h) \/ LoseStep(h)
    \/ Crash

Spec == Init /\ [][Next]_vars

(* The pass and the sweep are ticker loops that run for the process's      *)
(* life.  A transfer that runs again and again gets its listing and ends   *)
(* although passes pause and resume it in between: it keeps its partial    *)
(* data.  Nothing makes the operator, the schedule, a crash or a fault     *)
(* happen.                                                                 *)
Fairness ==
    /\ WF_vars(PassStep)
    /\ WF_vars("sweep" \in actors /\ SweepStep)
    /\ SF_vars(\E h \in Handles : MetadataStep(h) \/ FinishStep(h))

FairSpec == Spec /\ Fairness
--------------------------------------------------------------------------------
(* Nobody is in the middle of an operation on t.                           *)
Idle(t) ==
    /\ lease[t] = "free"
    /\ op.id # t
    /\ sweep.cur.id # t
    /\ gov.cur # t

(* LimitKept: no interleaving of releases, holds, requests and failed      *)
(* writes makes the set that CountActive counts larger than the limit.     *)
LimitKept == MaxActive > 0 => CountActive(rows) <= MaxActive

(* PauseSticks: a task whose pause the operator was told succeeded is not  *)
(* queued or started again by the pass, the sweep or the schedule.         *)
PauseSticks == \A t \in Tasks : want[t] = "pause" => rows[t].st \notin {"queued", "downloading"}

(* NoUnownedRun: no transfer runs under a queued row without the pass's    *)
(* ownership mark; the next pass would hold it as if it were stopped.      *)
NoUnownedRun ==
    \A t \in Tasks :
        (rows[t].st = "queued" /\ ~rows[t].pend /\ Idle(t)) => ~Running(rows[t].ref)

(* OneTransfer: a task never has two live transfers at the engine.         *)
OneTransfer ==
    \A g, h \in Handles : (Live(g) /\ Live(h) /\ xfers[g].task = xfers[h].task) => g = h

(* NoOrphan: a live transfer is the one its task's row names, and under a  *)
(* running one the row is in a state that a later pass or sweep looks at.  *)
NoOrphan ==
    \A h \in Handles :
        LET t == xfers[h].task IN
        (t # 0 /\ Idle(t)) =>
            /\ Live(h) => rows[t].ref = h
            /\ Running(h) => rows[t].st \notin {"removed", "completed", "error"}

(* SelectionFirst: the transfer of a released task runs only with the      *)
(* stored file selection applied to it.                                    *)
SelectionFirst ==
    \A t \in Selective :
        (rows[t].st = "downloading" /\ Idle(t) /\ Running(rows[t].ref)) => xfers[rows[t].ref].sel

(* StartedUnstamped: a started task does not carry the code that held it.  *)
StartedUnstamped ==
    \A t \in Tasks : (rows[t].st = "downloading" /\ Idle(t)) => rows[t].code = "none"

(* MarkOnlyQueued: no writer moves a row out of queued and leaves the      *)
(* pass's ownership mark on it; the row would be counted for ever.         *)
MarkOnlyQueued == \A t \in Tasks : rows[t].pend => rows[t].st = "queued"

(* LeaseOwned: a lease is held exactly while its owner works on the task,  *)
(* whatever call failed on the way.                                        *)
LeaseOwned ==
    \A t \in Tasks :
        /\ lease[t] = "pass" <=> Working(t)
        /\ lease[t] = "operator" <=> op.id = t /\ op.pc \in {"enginePause", "pauseRow", "takeover"}
        /\ lease[t] = "sweep" <=> sweep.cur.id = t /\ sweep.pc \notin {"dfPause", "dfLand", "dfStamp"}

CellApplied(mode) == gov.pc = "idle" /\ gov.cell = mode /\ gov.mode = mode

(* ParkedReleased: once a downloading cell is in force and recorded as     *)
(* applied, no task is left parked by the schedule.                        *)
ParkedReleased == CellApplied("default") => ListScheduleParked(rows) = {}

(* EveryTaskFinishes: with space on the disk and a limit of one, every     *)
(* task gets its slot, its selection and its end.                          *)
EveryTaskFinishes == \A t \in Tasks : <>(rows[t].st = "completed")

(* The rows the pass leaves: within the limit, and free of the code of a   *)
(* hold once they run (Pass, markReleased).                                *)
AdmissionSafe == TypeOK /\ LimitKept /\ StartedUnstamped

(* A transfer runs only when its row says so and after its stored          *)
(* selection landed, whatever write, engine call or listing failed in      *)
(* between (release, resubmit, writeBack).                                 *)
StartsInTurn == NoUnownedRun /\ SelectionFirst

(* Every live transfer belongs to one row and no row has two, although a   *)
(* handle could not be stored (release, removeStrandedTransfer).           *)
TransfersOwned == NoOrphan /\ OneTransfer
================================================================================
