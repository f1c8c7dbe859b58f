------------------------------- MODULE Admission -------------------------------
(***************************************************************************)
(* The admission pass of internal/engine/admission.go: Pass selects the    *)
(* candidates once, then walks them in added_at order, each under its      *)
(* task-operation lease.  Every store read or write and every engine call  *)
(* is one step, so anything that does not take the lease may come between  *)
(* two of them.                                                            *)
(*                                                                         *)
(* The space gate's answer for a candidate is a choice from SpaceAnswers:  *)
(* it depends on the filesystem, which nothing here constrains.            *)
(***************************************************************************)
EXTENDS TaskPlane

CONSTANTS
    MaxActive,       \* Limits.MaxActiveTotal; 0 is unlimited
    SpaceAnswers     \* what the space gate may answer

ASSUME AdmissionAssumption ==
    /\ MaxActive \in Nat
    /\ SpaceAnswers \subseteq {"admits", "full", "unreadable"}

VARIABLE pass        \* the pass's program counter and locals

PassLabels == {"idle", "select", "walk", "stampLimit", "stampFull", "claim",
               "inspect", "pauseSel", "intent", "resume", "markReleased",
               "clearHold", "markPending", "stopUnowned", "add", "intentNew",
               "strand", "setRef", "resumeNew", "requeue", "mark",
               "resumeMeta", "failed", "held", "spent", "released"}

(* Why release returned an error; "-" while it has not.                    *)
Causes == {"-", "store", "no_submission", "unavailable", "pending",
           "incomplete", "refused"}

(* The columns SelectQueuedCandidates reads that the pass later uses.      *)
Candidates == [id : Tasks, st : {"queued", "paused"},
               ref : Handles \union {NoRef}, pend : BOOLEAN]

PassTypeOK ==
    /\ pass.pc \in PassLabels
    /\ pass.n \in 0 .. 2 * NumTasks
    /\ pass.cands \in Seq(Candidates)
    /\ pass.h \in Handles \union {NoRef}
    /\ pass.ans \in {"-", "ok", "pending", "unavailable", "not_found"}
    /\ pass.cause \in Causes

IdlePass == [pc |-> "idle", n |-> 0, cands |-> << >>, h |-> NoRef,
             ans |-> "-", cause |-> "-"]

PassInit == pass = IdlePass

cand == Head(pass.cands)
At(label) == pass.pc = label
Goto(label) == pass' = [pass EXCEPT !.pc = label]
FailWith(cause) == pass' = [pass EXCEPT !.pc = "failed", !.cause = cause]

(* The pass works on task t and holds its lease.                           *)
Working(t) == pass.pc \notin {"idle", "select", "walk"} /\ cand.id = t

Blocked(n) == MaxActive > 0 /\ n >= MaxActive

--------------------------------------------------------------------------------
(* Pass reads the counts, then the candidates.                             *)
PassCount ==
    /\ At("idle")
    /\ pass' = [IdlePass EXCEPT !.pc = "select", !.n = CountActive(rows)]
    /\ UNCHANGED plane

InOrder(S) == [i \in 1 .. Cardinality(S) |->
                  CHOOSE t \in S : Cardinality({u \in S : u < t}) = i - 1]
Snapshot(t) == [id |-> t, st |-> rows[t].st, ref |-> rows[t].ref, pend |-> rows[t].pend]

PassSelect ==
    /\ At("select")
    /\ LET order == InOrder(SelectQueuedCandidates(rows)) IN
       \/ /\ pass' = [pass EXCEPT !.pc = "walk",
                            !.cands = [i \in DOMAIN order |-> Snapshot(order[i])]]
          /\ UNCHANGED faults
       \/ StoreDown /\ pass' = IdlePass
    /\ UNCHANGED <<rows, xfers, lease>>

PassDone ==
    /\ At("walk")
    /\ pass.cands = << >>
    /\ pass' = IdlePass
    /\ UNCHANGED plane

NextCandidate == [pass EXCEPT !.pc = "walk", !.cands = Tail(@), !.h = NoRef,
                              !.ans = "-", !.cause = "-"]

candidateStillCurrent(c) ==
    IF c.st = "paused" THEN ParkedDiskFull(rows[c.id])
                       ELSE rows[c.id].st = "queued"

(* A busy lease, an overtaken row or a failed revalidation read: the       *)
(* candidate costs nothing and the walk goes on.                           *)
SkipCandidate ==
    /\ At("walk")
    /\ pass.cands # << >>
    /\ pass' = NextCandidate
    /\ \/ /\ lease[cand.id] # "free" \/ ~candidateStillCurrent(cand)
          /\ UNCHANGED faults
       \/ lease[cand.id] = "free" /\ StoreDown
    /\ UNCHANGED <<rows, xfers, lease>>

(* Mutant: a release always submits, whatever handle the row has.          *)
HandOffFresh(c) == "add"
HandOff(c) == IF c.ref = NoRef THEN "add" ELSE "inspect"

(* Mutant: the limit is compared with > instead of >=.                     *)
GateOffByOne(c, space) ==
    IF c.st = "paused"
    THEN CASE space # "admits" -> "stampFull"
           [] space = "admits" /\ MaxActive > 0 /\ pass.n > MaxActive -> "held"
           [] OTHER -> "claim"
    ELSE CASE c.pend -> HandOff(c)
           [] ~c.pend /\ MaxActive > 0 /\ pass.n > MaxActive -> "stampLimit"
           [] ~c.pend /\ space = "full" -> "stampFull"
           [] OTHER -> HandOff(c)

(* Mutant: a marked row is gated like any other.                           *)
GateMarkedToo(c, space) ==
    IF c.st = "paused"
    THEN CASE space # "admits" -> "stampFull"
           [] space = "admits" /\ Blocked(pass.n) -> "held"
           [] OTHER -> "claim"
    ELSE CASE Blocked(pass.n) -> "stampLimit"
           [] ~Blocked(pass.n) /\ space = "full" -> "stampFull"
           [] OTHER -> HandOff(c)

(* The gates.  A parked candidate needs space first, and an unreadable     *)
(* filesystem holds it; a queued one needs a slot first, and an unreadable *)
(* filesystem lets it through; a marked one is mid-release and exempt.     *)
Gate(c, space) ==
    IF c.st = "paused"
    THEN CASE space # "admits" -> "stampFull"
           [] space = "admits" /\ Blocked(pass.n) -> "held"
           [] OTHER -> "claim"
    ELSE CASE c.pend -> HandOff(c)
           [] ~c.pend /\ Blocked(pass.n) -> "stampLimit"
           [] ~c.pend /\ ~Blocked(pass.n) /\ space = "full" -> "stampFull"
           [] OTHER -> HandOff(c)

(* AcquireTaskOp in Try mode and the revalidation read.                    *)
BeginCandidate ==
    /\ At("walk")
    /\ pass.cands # << >>
    /\ lease[cand.id] = "free"
    /\ candidateStillCurrent(cand)
    /\ lease' = [lease EXCEPT ![cand.id] = "pass"]
    /\ \E space \in SpaceAnswers :
          pass' = [pass EXCEPT !.pc = Gate(cand, space), !.h = cand.ref]
    /\ UNCHANGED <<rows, xfers, faults>>

Stamped(c, code) == SetErrorCodeIfState(rows[c.id], c.st, code)

StampHeld ==
    /\ At("stampLimit") \/ At("stampFull")
    /\ TryWrite(cand.id, Stamped(cand, IF At("stampFull") THEN "disk_full"
                                                          ELSE "concurrency_limit"))
    /\ Goto("held")
    /\ UNCHANGED <<xfers, lease>>

(* ClaimParkedDiskFull stores nothing; its guard is the answer.            *)
Claim ==
    /\ At("claim")
    /\ \/ /\ Goto(IF ParkedDiskFull(rows[cand.id]) THEN HandOff(cand) ELSE "held")
          /\ UNCHANGED faults
       \/ StoreDown /\ Goto("held")
    /\ UNCHANGED <<rows, xfers, lease>>

--------------------------------------------------------------------------------
(* release, the resume path: the row had a handle when it was selected.    *)

Inspect ==
    /\ At("inspect")
    /\ \/ /\ CASE ~Known(pass.h) -> Goto("add")
               [] Known(pass.h) /\ xfers[pass.h].st = "full" -> Goto("add")
               [] Known(pass.h) /\ xfers[pass.h].st = "error" -> FailWith("refused")
               [] Running(pass.h) /\ cand.id \in Selective -> Goto("pauseSel")
               [] OTHER -> Goto("intent")
          /\ UNCHANGED faults
       \/ EngineDown /\ FailWith("unavailable")
    /\ UNCHANGED <<rows, xfers, lease>>

PauseForSelection ==
    /\ At("pauseSel")
    /\ \/ /\ EnginePause(pass.h)
          /\ CASE PauseAnswer(pass.h) = "ok" -> Goto("intent")
               [] PauseAnswer(pass.h) = "not_found" -> Goto("add")
               [] OTHER -> FailWith("refused")
          /\ UNCHANGED faults
       \/ EngineDown /\ FailWith("unavailable") /\ UNCHANGED xfers
    /\ UNCHANGED <<rows, lease>>

Intent ==
    /\ At("intent")
    /\ \/ /\ ApplyPersistedIntent(cand.id, pass.h)
          /\ CASE IntentAnswer(cand.id, pass.h) = "ok" -> Goto("resume")
               [] IntentAnswer(cand.id, pass.h) = "not_found" -> Goto("add")
               [] OTHER -> Goto("requeue")
          /\ UNCHANGED faults
       \/ /\ HasIntent(cand.id)
          /\ EngineDown
          /\ \E cause \in EngineErrors : FailWith(cause)
          /\ UNCHANGED xfers
    /\ UNCHANGED <<rows, lease>>

Resume ==
    /\ At("resume")
    /\ \/ /\ EngineResume(pass.h)
          /\ CASE ResumeAnswer(pass.h) = "ok" -> Goto("markReleased")
               [] ResumeAnswer(pass.h) = "not_found" -> Goto("add")
               [] OTHER -> FailWith("refused")
          /\ UNCHANGED faults
       \/ EngineDown /\ FailWith("unavailable") /\ UNCHANGED xfers
    /\ UNCHANGED <<rows, lease>>

--------------------------------------------------------------------------------
(* release, the submission path.                                           *)

Add ==
    /\ At("add")
    /\ \/ /\ cand.id \in Sourceless
          /\ FailWith("no_submission")
          /\ UNCHANGED <<xfers, faults>>
       \/ /\ cand.id \notin Sourceless
          /\ Unminted # {}
          /\ EngineAdd(cand.id)
          /\ pass' = [pass EXCEPT !.pc = "intentNew", !.h = NextHandle]
          /\ UNCHANGED faults
       \/ /\ cand.id \notin Sourceless
          /\ EngineDown
          /\ \E cause \in EngineErrors : FailWith(cause)
          /\ UNCHANGED xfers
       \/ /\ cand.id \notin Sourceless   \* bound: no handle left to mint
          /\ Unminted = {}
          /\ FailWith("unavailable")
          /\ UNCHANGED <<xfers, faults>>
    /\ UNCHANGED <<rows, lease>>

(* The intent on the fresh handle.  A refusal removes the transfer; a      *)
(* pending listing, a vanished handle or an outage only waits.             *)
IntentNew ==
    /\ At("intentNew")
    /\ \/ /\ ApplyPersistedIntent(cand.id, pass.h)
          /\ pass' = [pass EXCEPT !.pc = "setRef", !.ans = IntentAnswer(cand.id, pass.h)]
          /\ UNCHANGED faults
       \/ /\ EngineDown
          /\ HasIntent(cand.id)
          /\ pass' = [pass EXCEPT !.pc = "setRef", !.ans = "unavailable"]
          /\ UNCHANGED xfers
       \/ /\ EngineDown
          /\ HasIntent(cand.id)
          /\ pass' = [pass EXCEPT !.pc = "strand", !.cause = "refused"]
          /\ UNCHANGED xfers
    /\ UNCHANGED <<rows, lease>>

RecordHandle ==
    /\ At("setRef")
    /\ \/ /\ Write(cand.id, SetEngineRef(rows[cand.id], pass.h))
          /\ CASE pass.ans = "pending" -> Goto("requeue")
               [] pass.ans \in {"unavailable", "not_found"} -> FailWith("incomplete")
               [] OTHER -> Goto(IF StartPaused(cand.id) THEN "resumeNew" ELSE "markReleased")
          /\ UNCHANGED faults
       \/ /\ StoreDown
          /\ pass' = [pass EXCEPT !.pc = "strand", !.cause = "store"]
          /\ UNCHANGED rows
    /\ UNCHANGED <<xfers, lease>>

(* Mutant: the transfer just created is left behind.                       *)
RemoveStrandedSkipped == At("strand") /\ Goto("failed") /\ UNCHANGED plane

(* removeStrandedTransfer: a failed removal is only logged.                *)
RemoveStranded ==
    /\ At("strand")
    /\ \/ EngineRemove(pass.h) /\ UNCHANGED faults
       \/ EngineDown /\ UNCHANGED xfers
    /\ Goto("failed")
    /\ UNCHANGED <<rows, lease>>

ResumeNew ==
    /\ At("resumeNew")
    /\ \/ /\ EngineResume(pass.h)
          /\ IF ResumeAnswer(pass.h) = "ok" THEN Goto("markReleased")
                                            ELSE FailWith("incomplete")
          /\ UNCHANGED faults
       \/ EngineDown /\ FailWith("incomplete") /\ UNCHANGED xfers
    /\ UNCHANGED <<rows, lease>>

--------------------------------------------------------------------------------
(* The release's own writes.                                               *)

(* markReleased.  Its write may fail, or land and still report a failure.  *)
MarkReleased ==
    /\ At("markReleased")
    /\ \/ /\ Write(cand.id, Transition(rows[cand.id], "downloading", "task.resumed"))
          /\ Goto(IF transitionLegal(rows[cand.id].st, "downloading")
                  THEN "clearHold" ELSE "markPending")
          /\ UNCHANGED faults
       \/ /\ StoreDown
          /\ Goto("markPending")
          /\ \/ UNCHANGED rows
             \/ Write(cand.id, Transition(rows[cand.id], "downloading", "task.resumed"))
    /\ UNCHANGED <<xfers, lease>>

ClearHold ==
    /\ At("clearHold")
    /\ TryWrite(cand.id, ClearHoldCode(rows[cand.id]))
    /\ Goto("released")
    /\ UNCHANGED <<xfers, lease>>

(* Mutant: a release write that failed leaves no ownership mark.           *)
MarkPendingSkipped ==
    /\ At("markPending")
    /\ FailWith("store")
    /\ UNCHANGED plane

(* markAdmissionPending after a release write that did not land: when even *)
(* the mark fails, the unowned transfer is stopped.                        *)
MarkPending ==
    /\ At("markPending")
    /\ \/ /\ Write(cand.id, MarkAdmissionPending(rows[cand.id]))
          /\ FailWith("store")
          /\ UNCHANGED faults
       \/ /\ StoreDown
          /\ IF cand.st = "queued" /\ ~cand.pend THEN Goto("stopUnowned")
                                                 ELSE FailWith("store")
          /\ UNCHANGED rows
    /\ UNCHANGED <<xfers, lease>>

StopUnowned ==
    /\ At("stopUnowned")
    /\ \/ EnginePause(pass.h) /\ UNCHANGED faults
       \/ EngineDown /\ UNCHANGED xfers
    /\ FailWith("store")
    /\ UNCHANGED <<rows, lease>>

(* requeuePendingSelection: a parked row is requeued, then every row takes *)
(* the mark; only then may the transfer run for its metadata.              *)
RequeuePending ==
    /\ At("requeue")
    /\ \/ /\ cand.st = "queued"
          /\ Goto("mark")
          /\ UNCHANGED <<rows, faults>>
       \/ /\ cand.st = "paused"
          /\ Write(cand.id, Transition(rows[cand.id], "queued", "task.resumed"))
          /\ IF transitionLegal(rows[cand.id].st, "queued") THEN Goto("mark")
                                                            ELSE FailWith("pending")
          /\ UNCHANGED faults
       \/ /\ cand.st = "paused"
          /\ StoreDown /\ FailWith("pending") /\ UNCHANGED rows
    /\ UNCHANGED <<xfers, lease>>

MarkRequeued ==
    /\ At("mark")
    /\ \/ /\ Write(cand.id, MarkAdmissionPending(rows[cand.id]))
          /\ IF rows[cand.id].st = "queued" THEN Goto("resumeMeta")
                                            ELSE FailWith("pending")
          /\ UNCHANGED faults
       \/ StoreDown /\ FailWith("pending") /\ UNCHANGED rows
    /\ UNCHANGED <<xfers, lease>>

ResumeForMetadata ==
    /\ At("resumeMeta")
    /\ \/ EngineResume(pass.h) /\ UNCHANGED faults
       \/ EngineDown /\ UNCHANGED xfers
    /\ FailWith("pending")
    /\ UNCHANGED <<rows, lease>>

(* What one failed release cost the pass, read from the selected handle.   *)
OutcomeOf(c, cause) ==
    IF cause \in {"pending", "incomplete"} \/ (cause = "store" /\ c.ref # NoRef)
    THEN "spent" ELSE "held"

(* releaseFailed: a refusal errors the task, anything else waits and drops *)
(* a hold stamp that no longer applies.                                    *)
ReleaseFailed ==
    /\ At("failed")
    /\ TryWrite(cand.id, IF pass.cause = "refused"
                         THEN Transition(rows[cand.id], "error", "engine.rejected")
                         ELSE ClearHoldCode(rows[cand.id]))
    /\ Goto(OutcomeOf(cand, pass.cause))
    /\ UNCHANGED <<xfers, lease>>

(* A release spends one slot, unless the snapshot already counted the row. *)
Spend(c) ==
    IF pass.pc \in {"released", "spent"} /\ (c.st # "queued" \/ ~c.pend)
    THEN pass.n + 1 ELSE pass.n

EndCandidate ==
    /\ pass.pc \in {"held", "spent", "released"}
    /\ lease' = [lease EXCEPT ![cand.id] = "free"]
    /\ pass' = [NextCandidate EXCEPT !.n = Spend(cand)]
    /\ UNCHANGED <<rows, xfers, faults>>

PassNext ==
    \/ PassCount \/ PassSelect \/ PassDone \/ SkipCandidate \/ BeginCandidate
    \/ StampHeld \/ Claim \/ Inspect \/ PauseForSelection \/ Intent \/ Resume
    \/ Add \/ IntentNew \/ RecordHandle \/ RemoveStranded \/ ResumeNew
    \/ MarkReleased \/ ClearHold \/ MarkPending \/ StopUnowned
    \/ RequeuePending \/ MarkRequeued \/ ResumeForMetadata
    \/ ReleaseFailed \/ EndCandidate
================================================================================
