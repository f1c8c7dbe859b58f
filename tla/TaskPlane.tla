------------------------------- MODULE TaskPlane -------------------------------
(***************************************************************************)
(* What the actors of the task plane share: the tasks table, the engine's  *)
(* transfers and the task-operation leases.  The admission pass, the       *)
(* reconciler, the bandwidth schedule and the operator's requests extend   *)
(* this module with a local state of their own; TaskControl composes them. *)
(*                                                                         *)
(* One engine is registered.  Its calls are the methods of the Engine      *)
(* interface, modelled by what the adapters make of the daemon's answers.  *)
(* The lease is the abstract one of TaskOpLock, which TaskOpLease is       *)
(* proved to implement.                                                    *)
(***************************************************************************)
EXTENDS TaskStore, Sequences

CONSTANTS
    NumTasks,        \* tasks are 1..NumTasks in added_at order
    Selective,       \* tasks with a stored file selection
    Limited,         \* tasks with a stored rate limit
    Parked,          \* tasks that may start out parked by the disk-space guard
    Sourceless,      \* tasks with neither a source uri nor an infohash
    StrictEngine     \* Pause and Resume refuse a transfer in the wrong state (aria2)

Tasks == 1 .. NumTasks

ASSUME PlaneAssumption ==
    /\ NumTasks \in Nat \ {0}
    /\ Selective \subseteq Tasks
    /\ Limited \subseteq Tasks
    /\ Sourceless \subseteq Tasks
    /\ Parked \subseteq Tasks
    /\ Parked # {} => NumTasks <= MaxHandles
    /\ StrictEngine \in BOOLEAN

VARIABLES
    rows,     \* the tasks table
    xfers,    \* the engine's transfers, by handle
    lease,    \* who holds each task's operation lease
    faults    \* engine calls and store accesses that may still fail

plane == <<rows, xfers, lease, faults>>

Owners == {"pass", "operator", "sweep"}

(* "none" is a handle not yet minted, "gone" one the engine forgot or      *)
(* dropped, "full" a stopped result with error code disk_full.             *)
XferStates == {"none", "downloading", "paused", "completed", "full", "error", "gone"}

(* task is the task the transfer was added for; meta: its file listing is  *)
(* known; sel: the stored selection has been applied to it.                *)
Xfers == [task : Tasks \union {0}, st : XferStates, meta : BOOLEAN, sel : BOOLEAN]
NoXfer == [task |-> 0, st |-> "none", meta |-> FALSE, sel |-> FALSE]

PlaneTypeOK ==
    /\ rows \in [Tasks -> Rows]
    /\ xfers \in [Handles -> Xfers]
    /\ lease \in [Tasks -> Owners \union {"free"}]
    /\ faults \in [engine : Nat, store : Nat]

(* The process starts over a table of tasks never handed over and tasks    *)
(* that an earlier process parked, whose transfer the engine stopped.      *)
ParkedRow(t) == [st |-> "paused", ref |-> t, code |-> "disk_full", pend |-> FALSE,
                 ev |-> "task.paused"]
StoppedXfer(t, st) == [NoXfer EXCEPT !.task = t, !.st = st]

PlaneInit ==
    /\ \E P \in SUBSET Parked : \E st \in [P -> {"paused", "full"}] :
          /\ rows = [t \in Tasks |-> IF t \in P THEN ParkedRow(t) ELSE NewRow]
          /\ xfers = [h \in Handles |-> IF h \in P THEN StoppedXfer(h, st[h]) ELSE NoXfer]
    /\ lease = [t \in Tasks |-> "free"]

--------------------------------------------------------------------------------
Write(t, r) == rows' = [rows EXCEPT ![t] = r]

(* The call or the store access fails and has no effect.  A failed         *)
(* submission or intent is an outage (ErrUnavailable) or a refusal; any    *)
(* other failed call is an outage, a refusal being its answer below.       *)
EngineErrors == {"unavailable", "refused"}
EngineDown == /\ faults.engine > 0
              /\ faults' = [faults EXCEPT !.engine = @ - 1]
StoreDown == /\ faults.store > 0
             /\ faults' = [faults EXCEPT !.store = @ - 1]

(* A write whose failure the caller only logs.                             *)
TryWrite(t, r) ==
    \/ Write(t, r) /\ UNCHANGED faults
    \/ StoreDown /\ UNCHANGED rows

(* Engine.Get and every other call answer ErrNotFound for these handles.   *)
Known(h) == h # NoRef /\ xfers[h].st \notin {"none", "gone"}
Running(h) == Known(h) /\ xfers[h].st = "downloading"
Live(h) == Known(h) /\ xfers[h].st \in {"downloading", "paused"}

SetXfer(h, st) == xfers' = [xfers EXCEPT ![h].st = st]

(* The answer of each call from the transfer's state, and its effect.      *)
PauseAnswer(h) ==
    CASE ~Known(h) -> "not_found"
      [] Known(h) /\ StrictEngine /\ ~Running(h) -> "refused"
      [] OTHER -> "ok"
ResumeAnswer(h) ==
    CASE ~Known(h) -> "not_found"
      [] Known(h) /\ StrictEngine /\ xfers[h].st # "paused" -> "refused"
      [] OTHER -> "ok"

EnginePause(h) == IF Running(h) THEN SetXfer(h, "paused") ELSE UNCHANGED xfers
EngineResume(h) ==
    IF Known(h) /\ xfers[h].st = "paused" THEN SetXfer(h, "downloading") ELSE UNCHANGED xfers
EngineRemove(h) == IF Known(h) THEN SetXfer(h, "gone") ELSE UNCHANGED xfers

(* applyPersistedIntent on a handle: the rate limits, then the selection,  *)
(* which lands only on a transfer whose file listing the engine knows.     *)
(* Before that, and also on a vanished handle, it is pending.              *)
HasIntent(t) == t \in Selective \union Limited
IntentAnswer(t, h) ==
    CASE t \in Limited /\ ~Known(h) -> "not_found"
      [] t \notin Limited /\ t \in Selective /\ ~Known(h) -> "pending"
      [] t \in Selective /\ Known(h) /\ ~xfers[h].meta -> "pending"
      [] OTHER -> "ok"
ApplyPersistedIntent(t, h) ==
    IF t \in Selective /\ IntentAnswer(t, h) = "ok"
    THEN xfers' = [xfers EXCEPT ![h].sel = TRUE]
    ELSE UNCHANGED xfers

(* Engine.Add mints the next handle.  A stored intent starts it paused; a  *)
(* torrent file comes with its listing, a magnet without.                  *)
Unminted == {h \in Handles : xfers[h].st = "none"}
NextHandle == CHOOSE h \in Unminted : \A g \in Unminted : h <= g
StartPaused(t) == HasIntent(t)
EngineAdd(t) ==
    \E listing \in IF t \in Selective THEN BOOLEAN ELSE {FALSE} :
        xfers' = [xfers EXCEPT ![NextHandle] =
            [task |-> t, st |-> IF StartPaused(t) THEN "paused" ELSE "downloading",
             meta |-> listing, sel |-> FALSE]]

(* What the engine does by itself.                                         *)
ReceiveMetadata(h) ==
    /\ Running(h)
    /\ xfers[h].task \in Selective
    /\ ~xfers[h].meta
    /\ xfers' = [xfers EXCEPT ![h].meta = TRUE]
    /\ UNCHANGED <<rows, lease, faults>>
Finish(h) ==
    /\ Running(h)
    /\ xfers[h].task \in Selective => xfers[h].meta
    /\ SetXfer(h, "completed")
    /\ UNCHANGED <<rows, lease, faults>>
StopWithError(h, st) ==
    /\ Running(h)
    /\ SetXfer(h, st)
    /\ UNCHANGED <<rows, lease, faults>>
LoseHandle(h) ==
    /\ Known(h)
    /\ SetXfer(h, "gone")
    /\ UNCHANGED <<rows, lease, faults>>
================================================================================
