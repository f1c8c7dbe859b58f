------------------------------- MODULE YtdlpLane --------------------------------
(***************************************************************************)
(* The media lane (internal/engine/ytdlp): one supervised yt-dlp process   *)
(* per task.  Add, Resume, Pause, Remove and Close act on the record and   *)
(* the process; a watcher goroutine per process drains its progress lines  *)
(* and settles its exit.  The engine's mutex covers each step below, and   *)
(* nothing covers the gaps between them.                                   *)
(*                                                                         *)
(* One task is followed.  A pointer to a Proc is its spawn number, 0 is    *)
(* nil; sizes, rates and names are left out of a progress line.            *)
(***************************************************************************)
EXTENDS Naturals, Sequences

CONSTANTS
    Callers,      \* goroutines that call Pause, Resume, Remove or Close
    MaxProcs,     \* bound: processes ever spawned for the task
    MaxLines,     \* bound: progress lines printed in all
    MaxStalls     \* bound: kills that outlast cancelGrace

ASSUME YtdlpAssumption == MaxProcs \in Nat /\ MaxLines \in Nat /\ MaxStalls \in Nat

VARIABLES
    rec,        \* e.tasks[id]: the taskRecord
    live,       \* r.live[id]: the runner's slot
    proc,       \* Proc, with the child's own state and its stdout pipe
    watcher,    \* the watch goroutine of each process
    caller,     \* the lifecycle calls in flight
    closed,
    settled,    \* how often finishProc applied an outcome of a process
    stalls,
    lines

laneVars == <<rec, live, proc, watcher, caller, closed, settled, stalls, lines>>

Procs == 1 .. MaxProcs
Spawned == {p \in Procs : proc[p].st # "none"}
NoRec == [st |-> "absent", proc |-> 0, removing |-> FALSE]
NoCall == [pc |-> "idle", op |-> "-", proc |-> 0]
Statuses == {"downloading", "completed", "error"}
Printed == {"downloading", "completed"}   \* an error line takes the same path

LaneInit ==
    /\ rec = NoRec
    /\ live = 0
    /\ proc = [p \in Procs |-> [st |-> "none", out |-> <<>>, kill |-> FALSE, code |-> "-"]]
    /\ watcher = [p \in Procs |-> "-"]
    /\ caller = [c \in Callers |-> NoCall]
    /\ closed = FALSE
    /\ settled = [p \in Procs |-> 0]
    /\ stalls = MaxStalls
    /\ lines = MaxLines

--------------------------------------------------------------------------------
(* The child process.                                                      *)

(* One --progress-template line.  A finished fragment or format is printed *)
(* as "finished" while the process goes on to the next one.                *)
ProcPrints(p) ==
    /\ proc[p].st = "running" /\ lines > 0
    /\ lines' = lines - 1
    /\ \E s \in Printed : proc' = [proc EXCEPT ![p].out = Append(@, s)]
    /\ UNCHANGED <<rec, live, watcher, caller, closed, settled, stalls>>

(* It ends by itself or by the kill, and Spawn's reaper closes done.       *)
ProcExits(p) ==
    /\ proc[p].st = "running"
    /\ \E code \in {"ok", "fail"} \union (IF proc[p].kill THEN {"signal"} ELSE {}) :
         proc' = [proc EXCEPT ![p].st = "exited", ![p].code = code]
    /\ UNCHANGED <<rec, live, watcher, caller, closed, settled, stalls, lines>>

(* ClassifyExit: any signal counts as a pause.                             *)
ClassifyExit(code) ==
    CASE code = "ok" -> "completed" [] code = "signal" -> "paused" [] code = "fail" -> "error"

--------------------------------------------------------------------------------
(* Runner and record helpers, each one critical section.                   *)

(* Runner.Spawn refuses an id that still holds the live slot.              *)
CanSpawn == ~closed /\ live = 0 /\ \E p \in Procs : proc[p].st = "none"
Fresh(p) == proc[p].st = "none" /\ \A q \in Procs : q < p => proc[q].st # "none"
Spawn(p) ==
    /\ Fresh(p)
    /\ live' = p
    /\ proc' = [proc EXCEPT ![p].st = "running"]
    /\ watcher' = [watcher EXCEPT ![p] = "drain"]

(* The slot is emptied only when it still names this process.              *)
(* Mutant: whatever the slot names is emptied.                             *)
ReapBlind(p) == 0
Reap(p) == IF live = p THEN 0 ELSE live

(* finishProc: whoever still finds the process on the record settles it.   *)
finishProc(p, st) ==
    IF rec.proc = p
    THEN rec' = [rec EXCEPT !.proc = 0, !.st = st] /\ settled' = [settled EXCEPT ![p] = @ + 1]
    ELSE UNCHANGED <<rec, settled>>

--------------------------------------------------------------------------------
(* Add and Resume.  A refused spawn leaves no record behind an Add, and    *)
(* leaves a resumed record as it was but for its error fields.             *)

LaneAdd ==
    /\ rec = NoRec /\ Spawned = {} /\ ~closed
    /\ \/ rec' = [NoRec EXCEPT !.st = "paused"] /\ UNCHANGED <<live, proc, watcher>>
       \/ /\ CanSpawn
          /\ \E p \in Procs : Spawn(p) /\ rec' = [NoRec EXCEPT !.st = "downloading", !.proc = p]
    /\ UNCHANGED <<caller, closed, settled, stalls, lines>>

LaneResume ==
    /\ rec.st # "absent" /\ ~rec.removing
    /\ rec.proc = 0
    /\ CanSpawn
    /\ \E p \in Procs : Spawn(p) /\ rec' = [rec EXCEPT !.st = "downloading", !.proc = p]
    /\ UNCHANGED <<caller, closed, settled, stalls, lines>>

--------------------------------------------------------------------------------
(* Pause, Remove and Close: snapshot the process, kill it, settle.         *)

Call(c, op, pc, p) == caller' = [caller EXCEPT ![c] = [pc |-> pc, op |-> op, proc |-> p]]
Return(c) == caller' = [caller EXCEPT ![c] = NoCall]

(* proc.cancel() is called before the wait for done.                       *)
Cancelled(p) == proc' = [proc EXCEPT ![p].kill = TRUE]

PauseBegin(c) ==
    /\ caller[c].pc = "idle"
    /\ rec.st # "absent" /\ ~rec.removing
    /\ rec.proc # 0
    /\ Call(c, "pause", "kill", rec.proc)
    /\ Cancelled(rec.proc)
    /\ UNCHANGED <<rec, live, watcher, closed, settled, stalls, lines>>

RemoveBegin(c) ==
    /\ caller[c].pc = "idle"
    /\ rec.st # "absent" /\ ~rec.removing
    /\ rec' = [rec EXCEPT !.removing = TRUE]
    /\ IF rec.proc # 0 THEN Call(c, "remove", "kill", rec.proc) /\ Cancelled(rec.proc)
       ELSE Call(c, "remove", "settle", 0) /\ proc' = proc
    /\ UNCHANGED <<live, watcher, closed, settled, stalls, lines>>

CloseBegin(c) ==
    /\ caller[c].pc = "idle"
    /\ ~closed
    /\ closed' = TRUE
    /\ IF rec.proc # 0 THEN Call(c, "close", "kill", rec.proc) /\ Cancelled(rec.proc)
       ELSE UNCHANGED <<caller, proc>>
    /\ UNCHANGED <<rec, live, watcher, settled, stalls, lines>>

(* killProc: done is closed, and the slot is reaped.                       *)
killProc(c) ==
    /\ caller[c].pc = "kill"
    /\ proc[caller[c].proc].st = "exited"
    /\ caller' = [caller EXCEPT ![c].pc = "reap"]
    /\ UNCHANGED <<rec, live, proc, watcher, closed, settled, stalls, lines>>

killReap(c) ==
    /\ caller[c].pc = "reap"
    /\ live' = Reap(caller[c].proc)
    /\ caller' = [caller EXCEPT ![c].pc = "settle"]
    /\ UNCHANGED <<rec, proc, watcher, closed, settled, stalls, lines>>

(* The process outlasts cancelGrace: the call fails, the slot and the      *)
(* record stay, and a Remove gives its claim back.                         *)
killStalls(c) ==
    /\ caller[c].pc = "kill" /\ proc[caller[c].proc].st = "running" /\ stalls > 0
    /\ stalls' = stalls - 1
    /\ rec' = IF caller[c].op = "remove" THEN [rec EXCEPT !.removing = FALSE] ELSE rec
    /\ Return(c)
    /\ UNCHANGED <<live, proc, watcher, closed, settled, lines>>

Settle(c) ==
    /\ caller[c].pc = "settle"
    /\ IF caller[c].op = "remove" THEN rec' = NoRec /\ settled' = settled
       ELSE finishProc(caller[c].proc, "paused")
    /\ Return(c)
    /\ UNCHANGED <<live, proc, watcher, closed, stalls, lines>>

--------------------------------------------------------------------------------
(* watch: drain, wait for done, reap the slot, settle.                     *)

(* A line of a process the record no longer names is dropped.              *)
Merges(p) == rec.proc = p
WatchLine(p) ==
    /\ watcher[p] = "drain" /\ proc[p].out # <<>>
    /\ proc' = [proc EXCEPT ![p].out = Tail(@)]
    /\ rec' = IF Merges(p) THEN [rec EXCEPT !.st = Head(proc[p].out)] ELSE rec
    /\ UNCHANGED <<live, watcher, caller, closed, settled, stalls, lines>>

(* The pipe reads EOF once the child is gone and drained.                  *)
WatchDone(p) ==
    /\ watcher[p] = "drain" /\ proc[p].out = <<>> /\ proc[p].st = "exited"
    /\ watcher' = [watcher EXCEPT ![p] = "reap"]
    /\ UNCHANGED <<rec, live, proc, caller, closed, settled, stalls, lines>>

WatchReap(p) ==
    /\ watcher[p] = "reap"
    /\ live' = Reap(p)
    /\ watcher' = [watcher EXCEPT ![p] = "settle"]
    /\ UNCHANGED <<rec, proc, caller, closed, settled, stalls, lines>>

(* Mutant: a cancelled process is left to the call that cancelled it.      *)
WatchSettleOwn(p) ==
    /\ watcher[p] = "settle"
    /\ IF proc[p].kill THEN UNCHANGED <<rec, settled>> ELSE finishProc(p, ClassifyExit(proc[p].code))
    /\ watcher' = [watcher EXCEPT ![p] = "-"]
    /\ UNCHANGED <<live, proc, caller, closed, stalls, lines>>
WatchSettle(p) ==
    /\ watcher[p] = "settle"
    /\ finishProc(p, ClassifyExit(proc[p].code))
    /\ watcher' = [watcher EXCEPT ![p] = "-"]
    /\ UNCHANGED <<live, proc, caller, closed, stalls, lines>>

--------------------------------------------------------------------------------
WatchStep(p) == WatchLine(p) \/ WatchDone(p) \/ WatchReap(p) \/ WatchSettle(p)
CallStep(c) == killProc(c) \/ killReap(c) \/ killStalls(c) \/ Settle(c)

LaneNext ==
    \/ LaneAdd \/ LaneResume
    \/ \E c \in Callers : PauseBegin(c) \/ RemoveBegin(c) \/ CloseBegin(c) \/ CallStep(c)
    \/ \E p \in Procs : ProcPrints(p) \/ ProcExits(p) \/ WatchStep(p)

(* A killed child dies, and goroutines run.                                *)
LaneFairness ==
    /\ \A c \in Callers : WF_laneVars(killProc(c) \/ killReap(c) \/ Settle(c))
    /\ \A p \in Procs : WF_laneVars(WatchStep(p))
    /\ \A p \in Procs : WF_laneVars(proc[p].kill /\ ProcExits(p))

LaneSpec == LaneInit /\ [][LaneNext]_laneVars /\ LaneFairness

--------------------------------------------------------------------------------
(* The record, the slot and the pointers of callers and watchers keep      *)
(* their shapes; a slot names a spawned process.                           *)
LaneTypeOK ==
    /\ rec \in [st : Statuses \union {"absent", "paused"}, proc : {0} \union Spawned, removing : BOOLEAN]
    /\ live \in {0} \union Spawned
    /\ \A c \in Callers : caller[c].proc \in {0} \union Spawned
    /\ closed \in BOOLEAN /\ stalls \in 0 .. MaxStalls

(* Every running child is the one its record names and sits in the         *)
(* runner's slot, through any race of kills, exits and respawns: a process *)
(* outside both could be neither paused nor removed (killProc, watch).     *)
ChildOwned == \A p \in Procs : proc[p].st = "running" => live = p /\ rec.proc = p

(* One outcome per process: a kill that races the natural exit does not    *)
(* settle, and so report, the same process twice (finishProc).             *)
SettledOnce == \A p \in Procs : settled[p] <= 1

(* A record that presents a transfer as running has a process: lines left  *)
(* in the pipe of a killed process never revive a settled record (watch).  *)
DownloadingHasProcess == rec.st = "downloading" => rec.proc # 0

(* Only a Remove still in flight claims the record: one that failed gives  *)
(* it back, or every later call would answer not-found for good.           *)
ClaimReleased == rec.removing => \E c \in Callers : caller[c].op = "remove"

(* A process that exits, by itself or killed, is settled by its watcher or *)
(* by the call that killed it: the record does not keep naming it.         *)
ExitsSettle == \A p \in Procs : proc[p].st = "exited" ~> rec.proc # p

(* Record, slot and processes agree through every race of Pause, Resume,   *)
(* Remove, exits and leftover output: a running child is owned, settles    *)
(* once, and neither a running record nor a claim outlives what it stands  *)
(* for (killProc, watch, finishProc).                                      *)
LaneSafe ==
    /\ LaneTypeOK
    /\ ChildOwned
    /\ SettledOnce
    /\ DownloadingHasProcess
    /\ ClaimReleased
================================================================================
