------------------------------- MODULE TaskStore -------------------------------
(***************************************************************************)
(* The guarded row writes of internal/store/tasks.go.  Each SQL statement  *)
(* with its guard is an operator from the row before the write to the row  *)
(* after it; a write whose guard fails returns the row unchanged.  Every   *)
(* write is one SQLite transaction, so the modules that use these          *)
(* operators apply each in one step.                                       *)
(*                                                                         *)
(* A row keeps the columns that decide control: the state, the engine      *)
(* handle, the hold code, the admission_pending mark, and ev, the latest   *)
(* task_events code of the four that the schedule's parked set reads.      *)
(***************************************************************************)
EXTENDS Naturals, FiniteSets

CONSTANT MaxHandles      \* engine handles a run may hand out

ASSUME MaxHandlesAssumption == MaxHandles \in Nat \ {0}

Handles == 1 .. MaxHandles
NoRef == 0               \* engine_ref IS NULL

States == {"queued", "downloading", "checking", "paused", "seeding",
           "completed", "extracting", "moving", "error", "removed"}
Codes == {"none", "disk_full", "concurrency_limit"}
HoldCodes == {"disk_full", "concurrency_limit"}

(* The pause/resume vocabulary of queryListScheduleParked; "-" is none yet. *)
MembershipEvents == {"task.paused", "task.resumed",
                     "task.schedule.paused", "task.schedule.resumed"}

Rows == [st : States, ref : Handles \union {NoRef}, code : Codes,
         pend : BOOLEAN, ev : MembershipEvents \union {"-"}]

(* A row as CreateTask leaves it: queued, not yet handed to an engine.     *)
NewRow == [st |-> "queued", ref |-> NoRef, code |-> "none",
           pend |-> FALSE, ev |-> "-"]

--------------------------------------------------------------------------------
taskTransitions ==
    [queued      |-> {"downloading", "checking", "seeding", "completed"},
     downloading |-> {"queued", "checking", "seeding", "completed"},
     checking    |-> {"queued", "downloading", "seeding", "completed"},
     paused      |-> {"queued", "downloading", "checking", "seeding", "completed"},
     seeding     |-> {"queued", "downloading", "checking", "completed",
                      "extracting", "moving"},
     completed   |-> {"checking", "seeding", "extracting", "moving"},
     extracting  |-> {"moving", "completed"},
     moving      |-> {"completed", "seeding"},
     error       |-> {"queued", "completed"},
     removed     |-> {}]

universalTransitionTargets == {"paused", "error", "removed"}

transitionLegal(from, next) ==
    /\ from # "removed"
    /\ from # next
    /\ next \in universalTransitionTargets \union taskTransitions[from]

(* Transition: the state move and its event; the mark clears with it.  An  *)
(* illegal edge is ErrIllegalTransition and writes nothing.                *)
Transition(r, next, code) ==
    IF transitionLegal(r.st, next)
    THEN [r EXCEPT !.st = next, !.pend = FALSE,
                   !.ev = IF code \in MembershipEvents THEN code ELSE @]
    ELSE r

MarkRemoved(r) ==
    IF transitionLegal(r.st, "removed")
    THEN [r EXCEPT !.st = "removed", !.ref = NoRef, !.pend = FALSE]
    ELSE r

SetEngineRef(r, h) == [r EXCEPT !.ref = h]

SetErrorCodeIfState(r, state, code) ==
    IF r.st = state THEN [r EXCEPT !.code = code] ELSE r

(* PauseWithCode, which only PauseDiskFull calls.                          *)
diskFullPauseSources == {"downloading", "checking", "extracting", "moving"}
PauseWithCode(r) ==
    IF r.st \in diskFullPauseSources
    THEN [r EXCEPT !.st = "paused", !.code = "disk_full", !.pend = FALSE,
                   !.ev = "task.paused"]
    ELSE r

ClearHoldCode(r) ==
    IF r.st # "paused" /\ r.code \in HoldCodes
    THEN [r EXCEPT !.code = "none"] ELSE r

ClearPausedHoldCode(r) ==
    IF r.st = "paused" /\ r.code \in HoldCodes
    THEN [r EXCEPT !.code = "none"] ELSE r

(* The pair the admission pass selects a parked row by, and claims.        *)
ParkedDiskFull(r) == r.st = "paused" /\ r.code = "disk_full"

MarkAdmissionPending(r) ==
    IF r.st = "queued" THEN [r EXCEPT !.pend = TRUE] ELSE r

(* ScheduleParked keeps the error_code the row carries.                    *)
scheduleParkSources == {"downloading", "checking", "queued"}
(* Mutant: the park forgets the mark.                                      *)
ScheduleParkedKeepsMark(r) ==
    IF r.st \in scheduleParkSources
    THEN [r EXCEPT !.st = "paused", !.ev = "task.schedule.paused"] ELSE r
ScheduleParked(r) ==
    IF r.st \in scheduleParkSources
    THEN [r EXCEPT !.st = "paused", !.pend = FALSE,
                   !.ev = "task.schedule.paused"]
    ELSE r

--------------------------------------------------------------------------------
(* The set-valued queries.  rows is a function from task ids to rows.      *)

countedStates == {"downloading", "checking", "extracting", "moving"}
Counted(r) == r.st \in countedStates \/ (r.st = "queued" /\ r.pend)
CountActive(rows) == Cardinality({t \in DOMAIN rows : Counted(rows[t])})

SelectQueuedCandidates(rows) ==
    {t \in DOMAIN rows : rows[t].st = "queued" \/ ParkedDiskFull(rows[t])}

ListNonTerminalByEngine(rows) ==
    {t \in DOMAIN rows : /\ rows[t].ref # NoRef
                         /\ rows[t].st \notin {"completed", "removed", "error"}}

ListScheduleParked(rows) ==
    {t \in DOMAIN rows : /\ rows[t].st = "paused"
                         /\ rows[t].ev = "task.schedule.paused"}
================================================================================
