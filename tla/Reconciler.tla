------------------------------- MODULE Reconciler ------------------------------
(***************************************************************************)
(* The poll loop of internal/engine/reconcile.go: one sweep lists the      *)
(* engine's transfers, then the rows, writes each listed transfer back and *)
(* re-submits the vanished ones.  Only the re-submission takes the lease.  *)
(* A disk-full report runs Admitter.PauseDiskFull, which takes none.       *)
(***************************************************************************)
EXTENDS TaskPlane

VARIABLE sweep

SweepLabels == {"idle", "list", "walk", "dfPause", "dfLand", "dfStamp", "add", "setRef",
                "fail", "strand", "intent", "requeue", "mark", "resumeMeta",
                "start", "unstarted"}

(* A Reconcilable of the listing.                                          *)
Knowns == [id : Tasks, ref : Handles, st : States]
NoKnown == [id |-> 0, ref |-> NoRef, st |-> "-"]

SweepTypeOK ==
    /\ sweep.pc \in SweepLabels
    /\ sweep.listed \in [Handles -> XferStates]
    /\ sweep.known \subseteq Knowns
    /\ sweep.cur \in Knowns \union {NoKnown}
    /\ sweep.h \in Handles \union {NoRef}

IdleSweep == [pc |-> "idle", listed |-> [h \in Handles |-> "none"], known |-> {},
              cur |-> NoKnown, h |-> NoRef]
SweepInit == sweep = IdleSweep

SweepGoto(label) == sweep' = [sweep EXCEPT !.pc = label]
Listed(h) == sweep.listed[h] \notin {"none", "gone"}

(* The sweep turns to the next row of its listing; the lease of a          *)
(* re-submission, if it holds one, goes back.                              *)
NextKnown ==
    /\ sweep' = [sweep EXCEPT !.pc = "walk", !.cur = NoKnown, !.h = NoRef]
    /\ lease' = [t \in Tasks |-> IF lease[t] = "sweep" THEN "free" ELSE lease[t]]

--------------------------------------------------------------------------------
(* e.List; an unreachable engine ends the sweep before it began.           *)
SweepList ==
    /\ sweep.pc = "idle"
    /\ \/ /\ sweep' = [sweep EXCEPT !.pc = "list",
                                     !.listed = [h \in Handles |-> xfers[h].st]]
          /\ UNCHANGED faults
       \/ EngineDown /\ UNCHANGED sweep
    /\ UNCHANGED <<rows, xfers, lease>>

(* ListNonTerminalByEngine, read after the engine's list.                  *)
SweepKnown ==
    /\ sweep.pc = "list"
    /\ \/ /\ sweep' = [sweep EXCEPT !.pc = "walk",
                         !.known = {[id |-> t, ref |-> rows[t].ref, st |-> rows[t].st] :
                                      t \in ListNonTerminalByEngine(rows)}]
          /\ UNCHANGED faults
       \/ StoreDown /\ sweep' = IdleSweep
    /\ UNCHANGED <<rows, xfers, lease>>

(* The normalised state of a listed transfer.                              *)
Reported(h) == IF sweep.listed[h] = "full" THEN "error" ELSE sweep.listed[h]
ReportsDiskFull(h) == sweep.listed[h] = "full"

(* Mutant: engine state is adopted over queued rows too.                   *)
AdoptedQueued(k) == Transition(rows[k.id], Reported(k.ref), "task.reconciled")

(* The generic adoption of writeBack, judged on the listing's row.         *)
Adopted(k) ==
    IF k.st = "queued" \/ k.st = Reported(k.ref)
    THEN rows[k.id]
    ELSE Transition(rows[k.id], Reported(k.ref), "task.reconciled")

(* Pass 1.  A disk-full report on a row listed as paused is inert.         *)
WriteBack(k) ==
    /\ sweep.pc = "walk"
    /\ k \in sweep.known
    /\ Listed(k.ref)
    /\ ~ReportsDiskFull(k.ref)
    /\ TryWrite(k.id, Adopted(k))
    /\ sweep' = [sweep EXCEPT !.known = @ \ {k}]
    /\ UNCHANGED <<xfers, lease>>

(* The states in which PauseDiskFull contacts the engine: the active ones, *)
(* a row the guard already parked, and a queued row, whose transfer the    *)
(* pass may just have started.                                             *)
ReactsToDiskFull(r) ==
    r.st \in diskFullPauseSources \union {"queued"} \/ ParkedDiskFull(r)

DropReport(k) ==
    /\ sweep.pc = "walk"
    /\ k \in sweep.known
    /\ ReportsDiskFull(k.ref)
    /\ \/ (k.st = "paused" \/ ~ReactsToDiskFull(rows[k.id])) /\ UNCHANGED faults
       \/ k.st # "paused" /\ StoreDown
    /\ sweep' = [sweep EXCEPT !.known = @ \ {k}]
    /\ UNCHANGED <<rows, xfers, lease>>

(* PauseDiskFull reads the row; cur.st keeps the state it branches on.     *)
RouteDiskFull(k) ==
    /\ sweep.pc = "walk"
    /\ k \in sweep.known
    /\ ReportsDiskFull(k.ref)
    /\ k.st # "paused"
    /\ ReactsToDiskFull(rows[k.id])
    /\ sweep' = [sweep EXCEPT !.pc = "dfPause", !.known = @ \ {k},
                              !.cur = [k EXCEPT !.st = rows[k.id].st], !.h = rows[k.id].ref]
    /\ UNCHANGED plane

(* pauseEngineSide: a failure is only logged.  A queued row gets no write. *)
DiskFullPause ==
    /\ sweep.pc = "dfPause"
    /\ \/ EnginePause(sweep.h) /\ UNCHANGED faults
       \/ EngineDown /\ UNCHANGED xfers
    /\ CASE sweep.cur.st = "queued" -> NextKnown
         [] sweep.cur.st = "paused" -> SweepGoto("dfStamp") /\ UNCHANGED lease
         [] OTHER -> SweepGoto("dfLand") /\ UNCHANGED lease
    /\ UNCHANGED rows

DiskFullLand ==
    /\ sweep.pc = "dfLand"
    /\ TryWrite(sweep.cur.id, PauseWithCode(rows[sweep.cur.id]))
    /\ NextKnown
    /\ UNCHANGED xfers

(* The already-parked branch refreshes the stamp of a paused row.          *)
DiskFullStamp ==
    /\ sweep.pc = "dfStamp"
    /\ TryWrite(sweep.cur.id, SetErrorCodeIfState(rows[sweep.cur.id], "paused", "disk_full"))
    /\ NextKnown
    /\ UNCHANGED xfers

--------------------------------------------------------------------------------
(* Pass 2 walks the handles the engine did not list, after pass 1.         *)
Vanished(k) ==
    /\ sweep.pc = "walk"
    /\ k \in sweep.known
    /\ \A j \in sweep.known : ~Listed(j.ref)

resubmittable(st) == st \in {"downloading", "seeding", "checking"}

(* A vanished handle is left alone when its row is not mid-transfer, the   *)
(* lease is busy, the row moved on before the lease or cannot be re-read,  *)
(* or there is nothing to submit.                                          *)
LeaveVanished(k) ==
    /\ Vanished(k)
    /\ \/ /\ \/ ~resubmittable(k.st)
             \/ lease[k.id] # "free"
             \/ ~resubmittable(rows[k.id].st)
             \/ k.id \in Sourceless
          /\ UNCHANGED faults
       \/ resubmittable(k.st) /\ lease[k.id] = "free" /\ StoreDown
    /\ sweep' = [sweep EXCEPT !.known = @ \ {k}]
    /\ UNCHANGED <<rows, xfers, lease>>

(* resubmit: the lease, the re-read and the engine's Add.                  *)
Resubmit(k) ==
    /\ Vanished(k)
    /\ resubmittable(k.st)
    /\ lease[k.id] = "free"
    /\ resubmittable(rows[k.id].st)
    /\ k.id \notin Sourceless
    /\ lease' = [lease EXCEPT ![k.id] = "sweep"]
    /\ sweep' = [sweep EXCEPT !.pc = "add", !.known = @ \ {k}, !.cur = k]
    /\ UNCHANGED <<rows, xfers, faults>>

ResubmitAdd ==
    /\ sweep.pc = "add"
    /\ \/ /\ Unminted # {}
          /\ EngineAdd(sweep.cur.id)
          /\ sweep' = [sweep EXCEPT !.pc = "setRef", !.h = NextHandle]
          /\ UNCHANGED <<rows, lease, faults>>
       \/ /\ Unminted = {}              \* bound: no handle left to mint
          /\ NextKnown
          /\ UNCHANGED <<rows, xfers, faults>>
       \/ EngineDown /\ SweepGoto("fail") /\ UNCHANGED <<rows, xfers, lease>>

(* Mutant: a refused re-submission returns without giving the lease back.  *)
FailResubmitLeaks ==
    /\ sweep.pc = "fail"
    /\ TryWrite(sweep.cur.id, Transition(rows[sweep.cur.id], "error", "engine.unavailable"))
    /\ sweep' = [sweep EXCEPT !.pc = "walk", !.cur = NoKnown]
    /\ UNCHANGED <<xfers, lease>>

FailResubmit ==
    /\ sweep.pc = "fail"
    /\ TryWrite(sweep.cur.id, Transition(rows[sweep.cur.id], "error", "engine.unavailable"))
    /\ NextKnown
    /\ UNCHANGED xfers

ResubmitRecord ==
    /\ sweep.pc = "setRef"
    /\ \/ /\ Write(sweep.cur.id, SetEngineRef(rows[sweep.cur.id], sweep.h))
          /\ SweepGoto("intent")
          /\ UNCHANGED faults
       \/ StoreDown /\ SweepGoto("strand") /\ UNCHANGED rows
    /\ UNCHANGED <<xfers, lease>>

ResubmitStrand ==
    /\ sweep.pc = "strand"
    /\ \/ EngineRemove(sweep.h) /\ UNCHANGED faults
       \/ EngineDown /\ UNCHANGED xfers
    /\ NextKnown
    /\ UNCHANGED rows

(* The intent on the fresh handle: pending requeues, a failure leaves the  *)
(* transfer stopped, success starts it when the add was paused.            *)
ResubmitIntent ==
    LET t == sweep.cur.id IN
    /\ sweep.pc = "intent"
    /\ \/ /\ ApplyPersistedIntent(t, sweep.h)
          /\ CASE IntentAnswer(t, sweep.h) = "pending" -> SweepGoto("requeue") /\ UNCHANGED lease
               [] IntentAnswer(t, sweep.h) = "ok" /\ StartPaused(t) ->
                    SweepGoto("start") /\ UNCHANGED lease
               [] OTHER -> NextKnown
          /\ UNCHANGED faults
       \/ HasIntent(t) /\ EngineDown /\ NextKnown /\ UNCHANGED xfers
    /\ UNCHANGED rows

(* Queue, mark, then run: each only when the one before it landed.         *)
ResubmitRequeue ==
    LET r == rows[sweep.cur.id] IN
    /\ sweep.pc = "requeue"
    /\ \/ /\ Write(sweep.cur.id, Transition(r, "queued", "task.reconciled"))
          /\ IF transitionLegal(r.st, "queued") THEN SweepGoto("mark") /\ UNCHANGED lease
                                                ELSE NextKnown
          /\ UNCHANGED faults
       \/ StoreDown /\ NextKnown /\ UNCHANGED rows
    /\ UNCHANGED xfers

ResubmitMark ==
    LET r == rows[sweep.cur.id] IN
    /\ sweep.pc = "mark"
    /\ \/ /\ Write(sweep.cur.id, MarkAdmissionPending(r))
          /\ IF r.st = "queued" THEN SweepGoto("resumeMeta") /\ UNCHANGED lease ELSE NextKnown
          /\ UNCHANGED faults
       \/ StoreDown /\ NextKnown /\ UNCHANGED rows
    /\ UNCHANGED xfers

ResubmitResume ==
    /\ sweep.pc = "resumeMeta"
    /\ \/ EngineResume(sweep.h) /\ UNCHANGED faults
       \/ EngineDown /\ UNCHANGED xfers
    /\ NextKnown
    /\ UNCHANGED rows

ResubmitStart ==
    /\ sweep.pc = "start"
    /\ \/ /\ EngineResume(sweep.h)
          /\ IF ResumeAnswer(sweep.h) = "ok" THEN NextKnown
                                             ELSE SweepGoto("unstarted") /\ UNCHANGED lease
          /\ UNCHANGED faults
       \/ EngineDown /\ SweepGoto("unstarted") /\ UNCHANGED <<xfers, lease>>
    /\ UNCHANGED rows

ResubmitUnstarted ==
    /\ sweep.pc = "unstarted"
    /\ TryWrite(sweep.cur.id, Transition(rows[sweep.cur.id], "queued", "task.reconciled"))
    /\ NextKnown
    /\ UNCHANGED xfers

SweepDone ==
    /\ sweep.pc = "walk"
    /\ sweep.known = {}
    /\ sweep' = IdleSweep
    /\ UNCHANGED plane

SweepNext ==
    \/ SweepList \/ SweepKnown \/ SweepDone
    \/ \E k \in sweep.known : \/ WriteBack(k) \/ DropReport(k) \/ RouteDiskFull(k)
                              \/ LeaveVanished(k) \/ Resubmit(k)
    \/ DiskFullPause \/ DiskFullLand \/ DiskFullStamp
    \/ ResubmitAdd \/ FailResubmit \/ ResubmitRecord \/ ResubmitStrand \/ ResubmitIntent
    \/ ResubmitRequeue \/ ResubmitMark \/ ResubmitResume
    \/ ResubmitStart \/ ResubmitUnstarted
================================================================================
