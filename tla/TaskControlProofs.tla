--------------------------- MODULE TaskControlProofs ---------------------------
(***************************************************************************)
(* Theorems about the task plane, for every number of tasks and handles,   *)
(* every scenario and every bound on failures and crashes.                 *)
(***************************************************************************)
EXTENDS TaskControl, TLAPS

--------------------------------------------------------------------------------
(* The mark.  A row is well marked when it is a row and carries the mark   *)
(* only while it is queued; the table is when each of its rows is.         *)

WellMarked(r) ==
    /\ r = [st |-> r.st, ref |-> r.ref, code |-> r.code, pend |-> r.pend, ev |-> r.ev]
    /\ r.pend \in BOOLEAN
    /\ r.pend => r.st = "queued"

TableMarked ==
    /\ rows = [t \in Tasks |-> rows[t]]
    /\ \A t \in Tasks : WellMarked(rows[t])

(* Every guarded write of the store keeps a row well marked.               *)
LEMMA NewRowMarked == WellMarked(NewRow)
BY DEF NewRow, WellMarked

LEMMA ParkedRowMarked == ASSUME NEW t PROVE WellMarked(ParkedRow(t))
BY DEF ParkedRow, WellMarked

LEMMA TransitionMarked ==
    ASSUME NEW r, WellMarked(r), NEW next, NEW code
    PROVE  WellMarked(Transition(r, next, code))
BY DEF Transition, WellMarked

LEMMA MarkRemovedMarked == ASSUME NEW r, WellMarked(r) PROVE WellMarked(MarkRemoved(r))
BY DEF MarkRemoved, WellMarked

LEMMA SetEngineRefMarked ==
    ASSUME NEW r, WellMarked(r), NEW h PROVE WellMarked(SetEngineRef(r, h))
BY DEF SetEngineRef, WellMarked

LEMMA SetErrorCodeMarked ==
    ASSUME NEW r, WellMarked(r), NEW st, NEW code
    PROVE  WellMarked(SetErrorCodeIfState(r, st, code))
BY DEF SetErrorCodeIfState, WellMarked

LEMMA PauseWithCodeMarked == ASSUME NEW r, WellMarked(r) PROVE WellMarked(PauseWithCode(r))
BY DEF PauseWithCode, WellMarked

LEMMA ClearHoldCodeMarked == ASSUME NEW r, WellMarked(r) PROVE WellMarked(ClearHoldCode(r))
BY DEF ClearHoldCode, WellMarked

LEMMA ClearPausedHoldCodeMarked ==
    ASSUME NEW r, WellMarked(r) PROVE WellMarked(ClearPausedHoldCode(r))
BY DEF ClearPausedHoldCode, WellMarked

LEMMA MarkAdmissionPendingMarked ==
    ASSUME NEW r, WellMarked(r) PROVE WellMarked(MarkAdmissionPending(r))
BY DEF MarkAdmissionPending, WellMarked

LEMMA ScheduleParkedMarked == ASSUME NEW r, WellMarked(r) PROVE WellMarked(ScheduleParked(r))
BY DEF ScheduleParked, WellMarked

(* A write of a well-marked row, and a step that leaves the table alone.   *)
LEMMA WriteMarked ==
    ASSUME TableMarked, NEW t, NEW r, Write(t, r), t \in Tasks => WellMarked(r)
    PROVE  TableMarked'
BY DEF TableMarked, Write

LEMMA UnchangedMarked == ASSUME TableMarked, UNCHANGED rows PROVE TableMarked'
BY DEF TableMarked

LEMMA TryWriteMarked ==
    ASSUME TableMarked, NEW t, NEW r, TryWrite(t, r), t \in Tasks => WellMarked(r)
    PROVE  TableMarked'
BY WriteMarked, UnchangedMarked DEF TryWrite

(* The table's rows are well marked, as a fact about the row a step reads. *)
LEMMA RowMarked == ASSUME TableMarked, NEW t \in Tasks PROVE WellMarked(rows[t])
BY DEF TableMarked

LEMMA InitMarked == Init => TableMarked
<1> SUFFICES ASSUME Init PROVE TableMarked
    OBVIOUS
<1>1. PICK P \in SUBSET Parked : rows = [t \in Tasks |-> IF t \in P THEN ParkedRow(t) ELSE NewRow]
    BY DEF Init, PlaneInit
<1> QED
    BY <1>1, NewRowMarked, ParkedRowMarked DEF TableMarked

(* The admission pass writes under its lease; the row it writes may still  *)
(* have moved since it was selected.                                       *)
LEMMA PassMarked == ASSUME TableMarked, PassNext PROVE TableMarked'
<1>1. CASE StampHeld
    BY <1>1, TryWriteMarked, RowMarked, SetErrorCodeMarked DEF StampHeld, Stamped
<1>2. CASE RecordHandle
    BY <1>2, WriteMarked, UnchangedMarked, RowMarked, SetEngineRefMarked DEF RecordHandle
<1>3. CASE MarkReleased
    BY <1>3, WriteMarked, UnchangedMarked, RowMarked, TransitionMarked DEF MarkReleased
<1>4. CASE ClearHold
    BY <1>4, TryWriteMarked, RowMarked, ClearHoldCodeMarked DEF ClearHold
<1>5. CASE MarkPending
    BY <1>5, WriteMarked, UnchangedMarked, RowMarked, MarkAdmissionPendingMarked DEF MarkPending
<1>6. CASE RequeuePending
    BY <1>6, WriteMarked, UnchangedMarked, RowMarked, TransitionMarked DEF RequeuePending
<1>7. CASE MarkRequeued
    BY <1>7, WriteMarked, UnchangedMarked, RowMarked, MarkAdmissionPendingMarked DEF MarkRequeued
<1>8. CASE ReleaseFailed
    BY <1>8, TryWriteMarked, RowMarked, TransitionMarked, ClearHoldCodeMarked DEF ReleaseFailed
<1>9. CASE PassCount \/ PassSelect \/ PassDone \/ SkipCandidate \/ BeginCandidate \/ Claim
    BY <1>9, UnchangedMarked
    DEF PassCount, PassSelect, PassDone, SkipCandidate, BeginCandidate, Claim, plane
<1>10. CASE Inspect \/ PauseForSelection \/ Intent \/ Resume \/ Add \/ IntentNew
    BY <1>10, UnchangedMarked DEF Inspect, PauseForSelection, Intent, Resume, Add, IntentNew
<1>11. CASE RemoveStranded \/ ResumeNew \/ StopUnowned \/ ResumeForMetadata \/ EndCandidate
    BY <1>11, UnchangedMarked
    DEF RemoveStranded, ResumeNew, StopUnowned, ResumeForMetadata, EndCandidate
<1> QED
    BY <1>1, <1>2, <1>3, <1>4, <1>5, <1>6, <1>7, <1>8, <1>9, <1>10, <1>11 DEF PassNext

LEMMA ActionsMarked == ASSUME TableMarked, ActionsNext PROVE TableMarked'
<1>1. CASE PauseRow
    BY <1>1, WriteMarked, UnchangedMarked, RowMarked, TransitionMarked DEF PauseRow
<1>2. CASE Takeover
    BY <1>2, WriteMarked, UnchangedMarked, RowMarked, ClearPausedHoldCodeMarked DEF Takeover
<1>3. CASE ResumeRow
    BY <1>3, WriteMarked, UnchangedMarked, RowMarked, TransitionMarked DEF ResumeRow
<1>4. CASE EndRow
    BY <1>4, WriteMarked, UnchangedMarked, RowMarked, TransitionMarked, MarkRemovedMarked
    DEF EndRow, Ended
<1>5. CASE \/ \E kind \in OpKinds, t \in Tasks : Request(kind, t)
           \/ PauseAcquire \/ PauseExpires \/ PauseEngine \/ DetachPause \/ Detach
    BY <1>5, UnchangedMarked
    DEF Request, PauseAcquire, PauseExpires, PauseEngine, DetachPause, Detach, plane
<1> QED
    BY <1>1, <1>2, <1>3, <1>4, <1>5 DEF ActionsNext

(* The governor writes without the lease.                                  *)
LEMMA GovMarked == ASSUME TableMarked, GovNext PROVE TableMarked'
<1>1. ASSUME NEW p \in gov.todo, ParkRow(p) PROVE TableMarked'
    BY <1>1, WriteMarked, UnchangedMarked, RowMarked, ScheduleParkedMarked DEF ParkRow
<1>2. ASSUME NEW p \in gov.todo, ReleaseRow(p) PROVE TableMarked'
    BY <1>2, WriteMarked, UnchangedMarked, RowMarked, TransitionMarked DEF ReleaseRow
<1>3. ASSUME NEW p \in gov.todo, ParkEngine(p) PROVE TableMarked'
    BY <1>3, UnchangedMarked DEF ParkEngine
<1>4. CASE \/ CellChanges \/ ParkScanQueued \/ ParkScanRunning \/ ParkEnd
           \/ ReleaseList \/ ReleaseEnd
    BY <1>4, UnchangedMarked
    DEF CellChanges, ParkScanQueued, ParkScanRunning, ParkEnd, ReleaseList, ReleaseEnd, plane
<1> QED
    BY <1>1, <1>2, <1>3, <1>4 DEF GovNext

(* The sweep judges on its listing and writes to the row as it now is.     *)
LEMMA SweepMarked == ASSUME TableMarked, SweepNext PROVE TableMarked'
<1>1. ASSUME NEW k \in sweep.known, WriteBack(k) PROVE TableMarked'
    BY <1>1, TryWriteMarked, RowMarked, TransitionMarked DEF WriteBack, Adopted
<1>2. CASE DiskFullLand
    BY <1>2, TryWriteMarked, RowMarked, PauseWithCodeMarked DEF DiskFullLand
<1>3. CASE DiskFullStamp
    BY <1>3, TryWriteMarked, RowMarked, SetErrorCodeMarked DEF DiskFullStamp
<1>4. CASE FailResubmit \/ ResubmitUnstarted
    BY <1>4, TryWriteMarked, RowMarked, TransitionMarked DEF FailResubmit, ResubmitUnstarted
<1>5. CASE ResubmitRecord
    BY <1>5, WriteMarked, UnchangedMarked, RowMarked, SetEngineRefMarked DEF ResubmitRecord
<1>6. CASE ResubmitRequeue
    BY <1>6, WriteMarked, UnchangedMarked, RowMarked, TransitionMarked DEF ResubmitRequeue
<1>7. CASE ResubmitMark
    BY <1>7, WriteMarked, UnchangedMarked, RowMarked, MarkAdmissionPendingMarked DEF ResubmitMark
<1>8. CASE \E k \in sweep.known :
              DropReport(k) \/ RouteDiskFull(k) \/ LeaveVanished(k) \/ Resubmit(k)
    BY <1>8, UnchangedMarked DEF DropReport, RouteDiskFull, LeaveVanished, Resubmit, plane
<1>9. CASE \/ SweepList \/ SweepKnown \/ SweepDone \/ DiskFullPause \/ ResubmitAdd
           \/ ResubmitStrand \/ ResubmitIntent \/ ResubmitResume \/ ResubmitStart
    BY <1>9, UnchangedMarked
    DEF SweepList, SweepKnown, SweepDone, DiskFullPause, ResubmitAdd,
        ResubmitStrand, ResubmitIntent, ResubmitResume, ResubmitStart, plane
<1> QED
    BY <1>1, <1>2, <1>3, <1>4, <1>5, <1>6, <1>7, <1>8, <1>9 DEF SweepNext

LEMMA NextMarked == ASSUME TableMarked, [Next]_vars PROVE TableMarked'
<1>1. CASE PassStep
    BY <1>1, PassMarked DEF PassStep
<1>2. CASE OperatorStep
    BY <1>2, ActionsMarked DEF OperatorStep
<1>3. CASE ScheduleStep
    BY <1>3, GovMarked DEF ScheduleStep
<1>4. CASE SweepStep
    BY <1>4, SweepMarked DEF SweepStep
<1>5. CASE \E h \in Handles : MetadataStep(h) \/ FinishStep(h) \/ StopStep(h) \/ LoseStep(h)
    BY <1>5, UnchangedMarked
    DEF MetadataStep, FinishStep, StopStep, LoseStep, ReceiveMetadata, Finish,
        StopWithError, LoseHandle
<1>6. CASE Crash \/ UNCHANGED vars
    BY <1>6, UnchangedMarked DEF Crash, vars, plane
<1> QED
    BY <1>1, <1>2, <1>3, <1>4, <1>5, <1>6 DEF Next

(* MarkDiscipline: for any tasks, actors, failures and crashes, no writer  *)
(* of the tasks table (Transition, MarkRemoved, PauseWithCode,             *)
(* ScheduleParked and the rest) moves a row out of queued and leaves the   *)
(* admission_pending mark on it.                                           *)
THEOREM MarkDiscipline == Spec => []MarkOnlyQueued
<1>1. Init => TableMarked
    BY InitMarked
<1>2. TableMarked /\ [Next]_vars => TableMarked'
    BY NextMarked
<1>3. TableMarked => MarkOnlyQueued
    BY DEF TableMarked, WellMarked, MarkOnlyQueued
<1> QED
    BY <1>1, <1>2, <1>3, PTL DEF Spec

--------------------------------------------------------------------------------
(* The leases.  Each actor's record keeps its fields, so that the steps    *)
(* that assign some of them leave the others alone.                        *)

LeaseShape == lease = [t \in Tasks |-> lease[t]]
PassShape == pass = [pc |-> pass.pc, n |-> pass.n, cands |-> pass.cands, h |-> pass.h,
                     ans |-> pass.ans, cause |-> pass.cause]
OpShape == op = [pc |-> op.pc, kind |-> op.kind, id |-> op.id, st |-> op.st,
                 ref |-> op.ref, left |-> op.left]
SweepShape == sweep = [pc |-> sweep.pc, listed |-> sweep.listed, known |-> sweep.known,
                       cur |-> sweep.cur, h |-> sweep.h]

Between == {"idle", "select", "walk"}
Pausing == {"enginePause", "pauseRow", "takeover"}
DiskFull == {"dfPause", "dfLand", "dfStamp"}

PassOwned == \A t \in Tasks : lease[t] = "pass" <=> Working(t)
OpOwned == \A t \in Tasks : lease[t] = "operator" <=> (op.id = t /\ op.pc \in Pausing)
SweepOwned ==
    /\ \A t \in Tasks :
          lease[t] = "sweep" <=> (sweep.cur.id = t /\ sweep.pc \notin DiskFull)
    /\ sweep.pc \in {"idle", "list", "walk"} => sweep.cur = NoKnown

PassInv == PassShape /\ PassOwned
OpInv == OpShape /\ OpOwned
SweepInv == SweepShape /\ SweepOwned
LeaseInv == LeaseShape /\ PassInv /\ OpInv /\ SweepInv

(* An actor takes only a free lease and gives back only its own.           *)
KeepsLeasesBut(me) ==
    /\ LeaseShape'
    /\ \A t \in Tasks, o \in Owners \ {me} : lease'[t] = o <=> lease[t] = o

LEMMA KeepAll == ASSUME LeaseShape, UNCHANGED lease, NEW me PROVE KeepsLeasesBut(me)
BY DEF LeaseShape, KeepsLeasesBut

LEMMA OthersPass == ASSUME PassInv, UNCHANGED pass, NEW me \in {"operator", "sweep", "none"}, KeepsLeasesBut(me)
                    PROVE  PassInv'
BY DEF PassInv, PassShape, PassOwned, Working, cand, KeepsLeasesBut, Owners

LEMMA OthersOp == ASSUME OpInv, UNCHANGED op, NEW me \in {"pass", "sweep", "none"}, KeepsLeasesBut(me)
                  PROVE  OpInv'
BY DEF OpInv, OpShape, OpOwned, KeepsLeasesBut, Owners

LEMMA OthersSweep == ASSUME SweepInv, UNCHANGED sweep, NEW me \in {"pass", "operator", "none"}, KeepsLeasesBut(me)
                     PROVE  SweepInv'
BY DEF SweepInv, SweepShape, SweepOwned, KeepsLeasesBut, Owners

(* A step of the pass inside one candidate.                                *)
LEMMA GotoStays ==
    ASSUME PassInv, pass.pc \notin Between, UNCHANGED lease,
           NEW label, label \notin Between, Goto(label)
    PROVE  PassInv'
BY DEF PassInv, PassShape, PassOwned, Working, cand, Goto, Between

LEMMA FailStays ==
    ASSUME PassInv, pass.pc \notin Between, UNCHANGED lease, NEW cause, FailWith(cause)
    PROVE  PassInv'
BY DEF PassInv, PassShape, PassOwned, Working, cand, FailWith, Between

(* A step of the pass between two candidates.                              *)
LEMMA BetweenStays ==
    ASSUME PassInv, pass.pc \in Between, UNCHANGED lease, PassShape', pass'.pc \in Between
    PROVE  PassInv'
BY DEF PassInv, PassOwned, Working, cand, Between

LEMMA PassLeases ==
    ASSUME LeaseShape, PassInv, PassNext
    PROVE  PassInv' /\ KeepsLeasesBut("pass")
<1>1. CASE BeginCandidate
  <2>1. PICK space : pass' = [pass EXCEPT !.pc = Gate(cand, space), !.h = cand.ref]
      BY <1>1 DEF BeginCandidate
  <2>2. Gate(cand, space) \notin Between
      BY DEF Gate, HandOff, Between
  <2>3. /\ pass'.pc \notin Between
        /\ pass'.cands = pass.cands
        /\ PassShape'
      BY <2>1, <2>2 DEF PassInv, PassShape
  <2>4. pass.pc \in Between /\ lease[cand.id] = "free"
      BY <1>1 DEF BeginCandidate, At, Between
  <2>5. lease' = [lease EXCEPT ![cand.id] = "pass"]
      BY <1>1 DEF BeginCandidate
  <2>6. PassOwned'
      BY <2>3, <2>4, <2>5 DEF PassInv, PassOwned, Working, cand, Between, LeaseShape
  <2> QED
      BY <2>3, <2>4, <2>5, <2>6 DEF PassInv, KeepsLeasesBut, LeaseShape, Owners
<1>2. CASE EndCandidate
  <2>1. /\ lease' = [lease EXCEPT ![cand.id] = "free"]
        /\ pass' = [NextCandidate EXCEPT !.n = Spend(cand)]
        /\ pass.pc \notin Between
      BY <1>2 DEF EndCandidate, Between
  <2>2. PassShape' /\ pass'.pc = "walk"
      BY <2>1 DEF NextCandidate, PassInv, PassShape
  <2>3. PassOwned'
      BY <2>1, <2>2 DEF PassInv, PassOwned, Working, cand, Between, LeaseShape
  <2> QED
      BY <2>1, <2>2, <2>3 DEF PassInv, PassOwned, Working, KeepsLeasesBut, LeaseShape, Owners, Between
<1>3. CASE PassCount \/ PassSelect \/ PassDone \/ SkipCandidate
  <2>1. pass.pc \in Between /\ UNCHANGED lease
      BY <1>3 DEF PassCount, PassSelect, PassDone, SkipCandidate, At, Between, plane
  <2>2. PassShape' /\ pass'.pc \in Between
    <3>1. CASE PassCount
        BY <3>1 DEF PassCount, IdlePass, PassShape, Between
    <3>2. CASE PassSelect
      <4>1. pass' = IdlePass \/ \E c : pass' = [pass EXCEPT !.pc = "walk", !.cands = c]
          BY <3>2 DEF PassSelect
      <4>2. CASE pass' = IdlePass
          BY <4>2 DEF IdlePass, PassShape, Between
      <4>3. ASSUME NEW c, pass' = [pass EXCEPT !.pc = "walk", !.cands = c]
            PROVE  PassShape' /\ pass'.pc \in Between
          BY <4>3 DEF PassInv, PassShape, Between
      <4> QED
          BY <4>1, <4>2, <4>3
    <3>3. CASE PassDone
        BY <3>3 DEF PassDone, IdlePass, PassShape, Between
    <3>4. CASE SkipCandidate
        BY <3>4 DEF SkipCandidate, NextCandidate, PassInv, PassShape, Between
    <3> QED
        BY <1>3, <3>1, <3>2, <3>3, <3>4
  <2> QED
      BY <2>1, <2>2, BetweenStays, KeepAll
<1>4. CASE StampHeld \/ Claim \/ ClearHold \/ RemoveStranded
  <2>1. pass.pc \notin Between /\ UNCHANGED lease
      BY <1>4 DEF StampHeld, Claim, ClearHold, RemoveStranded, At, Between
  <2>2. \E label : label \notin Between /\ Goto(label)
      BY <1>4 DEF StampHeld, Claim, ClearHold, RemoveStranded, HandOff, Between
  <2> QED
      BY <2>1, <2>2, GotoStays, KeepAll
<1>5. CASE StopUnowned \/ ResumeForMetadata
  <2>1. pass.pc \notin Between /\ UNCHANGED lease
      BY <1>5 DEF StopUnowned, ResumeForMetadata, At, Between
  <2>2. \E cause : FailWith(cause)
      BY <1>5 DEF StopUnowned, ResumeForMetadata
  <2> QED
      BY <2>1, <2>2, FailStays, KeepAll
<1>6. CASE Inspect \/ PauseForSelection \/ Intent \/ Resume \/ ResumeNew
  <2>1. pass.pc \notin Between /\ UNCHANGED lease
      BY <1>6 DEF Inspect, PauseForSelection, Intent, Resume, ResumeNew, At, Between
  <2>2. (\E label : label \notin Between /\ Goto(label)) \/ (\E cause : FailWith(cause))
      BY <1>6 DEF Inspect, PauseForSelection, Intent, Resume, ResumeNew, Between
  <2> QED
      BY <2>1, <2>2, GotoStays, FailStays, KeepAll
<1>7. CASE MarkReleased \/ MarkPending \/ RequeuePending \/ MarkRequeued
  <2>1. pass.pc \notin Between /\ UNCHANGED lease
      BY <1>7 DEF MarkReleased, MarkPending, RequeuePending, MarkRequeued, At, Between
  <2>2. (\E label : label \notin Between /\ Goto(label)) \/ (\E cause : FailWith(cause))
      BY <1>7 DEF MarkReleased, MarkPending, RequeuePending, MarkRequeued, Between
  <2> QED
      BY <2>1, <2>2, GotoStays, FailStays, KeepAll
<1>8. CASE ReleaseFailed
  <2>1. pass.pc \notin Between /\ UNCHANGED lease
      BY <1>8 DEF ReleaseFailed, At, Between
  <2>2. \E label : label \notin Between /\ Goto(label)
      BY <1>8 DEF ReleaseFailed, OutcomeOf, Between
  <2> QED
      BY <2>1, <2>2, GotoStays, KeepAll
<1>9. CASE Add \/ IntentNew \/ RecordHandle
  <2>1. pass.pc \notin Between /\ UNCHANGED lease
      BY <1>9 DEF Add, IntentNew, RecordHandle, At, Between
  <2>2. \/ \E cause : FailWith(cause)
        \/ \E label : label \notin Between /\ Goto(label)
        \/ pass' = [pass EXCEPT !.pc = "intentNew", !.h = NextHandle]
        \/ \E ans : pass' = [pass EXCEPT !.pc = "setRef", !.ans = ans]
        \/ \E cause : pass' = [pass EXCEPT !.pc = "strand", !.cause = cause]
      BY <1>9 DEF Add, IntentNew, RecordHandle, Between
  <2>3. ASSUME NEW label, label \notin Between, NEW x,
               \/ pass' = [pass EXCEPT !.pc = label, !.h = x]
               \/ pass' = [pass EXCEPT !.pc = label, !.ans = x]
               \/ pass' = [pass EXCEPT !.pc = label, !.cause = x]
        PROVE  PassInv'
      BY <2>1, <2>3 DEF PassInv, PassShape, PassOwned, Working, cand, Between
  <2> QED
      BY <2>1, <2>2, <2>3, GotoStays, FailStays, KeepAll DEF Between
<1> QED
    BY <1>1, <1>2, <1>3, <1>4, <1>5, <1>6, <1>7, <1>8, <1>9 DEF PassNext

(* The operator: OpDone gives back whatever the operator holds.            *)
LEMMA OpDoneKeeps ==
    ASSUME LeaseShape, OpInv, OpDone PROVE OpInv' /\ KeepsLeasesBut("operator")
<1>1. OpShape' /\ op'.pc = "idle"
    BY DEF OpDone, OpIdle, OpInv, OpShape
<1>2. lease' = [t \in Tasks |-> IF lease[t] = "operator" THEN "free" ELSE lease[t]]
    BY DEF OpDone
<1> QED
    BY <1>1, <1>2 DEF OpInv, OpOwned, Pausing, KeepsLeasesBut, LeaseShape, Owners

(* A step that neither enters nor leaves the part of a pause under lease.  *)
LEMMA OpStays ==
    ASSUME OpInv, UNCHANGED lease, OpShape',
           \/ op.pc \notin Pausing /\ op'.pc \notin Pausing
           \/ op.pc \in Pausing /\ op'.pc \in Pausing /\ op'.id = op.id
    PROVE  OpInv'
BY DEF OpInv, OpOwned

LEMMA ActionsLeases ==
    ASSUME LeaseShape, OpInv, ActionsNext
    PROVE  OpInv' /\ KeepsLeasesBut("operator")
<1>1. ASSUME NEW kind \in OpKinds, NEW t \in Tasks, Request(kind, t)
      PROVE  OpInv' /\ KeepsLeasesBut("operator")
  <2>1. FirstStep(kind, rows[t]) \notin Pausing
      BY DEF FirstStep, Pausing
  <2>2. UNCHANGED lease /\ op.pc \notin Pausing /\ OpShape' /\ op'.pc \notin Pausing
      BY <1>1, <2>1 DEF Request, OpShape, Pausing, plane
  <2> QED
      BY <2>2, OpStays, KeepAll
<1>2. CASE PauseAcquire
  <2>1. ASSUME NEW st, NEW ref, NEW label \in Pausing,
               lease' = [lease EXCEPT ![op.id] = "operator"],
               op' = [op EXCEPT !.pc = label, !.st = st, !.ref = ref]
        PROVE  OpInv' /\ KeepsLeasesBut("operator")
    <3>1. op.pc = "wait" /\ lease[op.id] = "free"
        BY <1>2 DEF PauseAcquire
    <3>2. op'.id = op.id /\ op'.pc \in Pausing /\ OpShape'
        BY <2>1 DEF OpInv, OpShape
    <3> QED
        BY <2>1, <3>1, <3>2 DEF OpInv, OpOwned, Pausing, KeepsLeasesBut, LeaseShape, Owners
  <2>2. CASE UNCHANGED lease /\ op' = OpIdle
    <3>1. op.pc \notin Pausing /\ op'.pc \notin Pausing /\ OpShape'
        BY <1>2, <2>2 DEF PauseAcquire, OpInv, OpShape, OpIdle, Pausing
    <3> QED
        BY <2>2, <3>1, OpStays, KeepAll
  <2>3. LeasedStep(rows[op.id]) \in Pausing
      BY DEF LeasedStep, Pausing
  <2> QED
      BY <1>2, <2>1, <2>2, <2>3 DEF PauseAcquire
<1>3. CASE PauseExpires \/ DetachPause \/ Detach
  <2>1. UNCHANGED lease /\ op.pc \notin Pausing /\ op'.pc \notin Pausing /\ OpShape'
      BY <1>3 DEF PauseExpires, DetachPause, Detach, OpInv, OpShape, OpIdle, Pausing, plane
  <2> QED
      BY <2>1, OpStays, KeepAll
<1>4. CASE PauseEngine \/ PauseRow
  <2>1. CASE OpDone
      BY <2>1, OpDoneKeeps
  <2>2. CASE UNCHANGED lease /\ \E label \in Pausing : OpGoto(label)
    <3>1. op.pc \in Pausing /\ op'.pc \in Pausing /\ op'.id = op.id /\ OpShape'
        BY <1>4, <2>2 DEF PauseEngine, PauseRow, OpGoto, OpInv, OpShape, Pausing
    <3> QED
        BY <2>2, <3>1, OpStays, KeepAll
  <2> QED
      BY <1>4, <2>1, <2>2 DEF PauseEngine, PauseRow, Pausing
<1>5. CASE Takeover \/ ResumeRow \/ EndRow
    BY <1>5, OpDoneKeeps DEF Takeover, ResumeRow, EndRow
<1> QED
    BY <1>1, <1>2, <1>3, <1>4, <1>5 DEF ActionsNext

(* The sweep: NextKnown gives back the lease of a re-submission.           *)
LEMMA NextKnownKeeps ==
    ASSUME LeaseShape, SweepInv, NextKnown PROVE SweepInv' /\ KeepsLeasesBut("sweep")
<1>1. SweepShape' /\ sweep'.pc = "walk" /\ sweep'.cur = NoKnown
    BY DEF NextKnown, SweepInv, SweepShape
<1>2. lease' = [t \in Tasks |-> IF lease[t] = "sweep" THEN "free" ELSE lease[t]]
    BY DEF NextKnown
<1>3. NoKnown.id \notin Tasks
    BY DEF NoKnown, Tasks
<1> QED
    BY <1>1, <1>2, <1>3 DEF SweepInv, SweepOwned, KeepsLeasesBut, LeaseShape, Owners

(* A step that stays inside one re-submission or one disk-full report, or  *)
(* between two rows of the listing.                                        *)
Listing == {"idle", "list", "walk"}
LEMMA SweepStays ==
    ASSUME SweepInv, UNCHANGED lease, SweepShape', sweep'.cur = sweep.cur,
           sweep.pc \in Listing <=> sweep'.pc \in Listing,
           sweep.pc \in DiskFull <=> sweep'.pc \in DiskFull
    PROVE  SweepInv'
BY DEF SweepInv, SweepOwned, Listing

LEMMA SweepGotoStays ==
    ASSUME SweepInv, UNCHANGED lease, NEW label, SweepGoto(label),
           sweep.pc \notin Listing, label \notin Listing,
           sweep.pc \in DiskFull <=> label \in DiskFull
    PROVE  SweepInv'
<1>1. SweepShape' /\ sweep'.cur = sweep.cur /\ sweep'.pc = label
    BY DEF SweepGoto, SweepInv, SweepShape
<1> QED
    BY <1>1, SweepStays

LEMMA SweepLeases ==
    ASSUME LeaseShape, SweepInv, SweepNext
    PROVE  SweepInv' /\ KeepsLeasesBut("sweep")
<1>1. CASE SweepList \/ SweepKnown \/ SweepDone
  <2>1. UNCHANGED lease /\ sweep.pc \in Listing /\ sweep.cur = NoKnown
      BY <1>1 DEF SweepList, SweepKnown, SweepDone, Listing, SweepInv, SweepOwned, plane
  <2>2. SweepShape' /\ sweep'.pc \in Listing /\ sweep'.cur = NoKnown
    <3>1. CASE SweepList
        BY <2>1, <3>1 DEF SweepList, SweepInv, SweepShape, Listing
    <3>2. CASE SweepKnown
      <4>1. sweep' = IdleSweep \/ \E K : sweep' = [sweep EXCEPT !.pc = "walk", !.known = K]
          BY <3>2 DEF SweepKnown
      <4>2. CASE sweep' = IdleSweep
          BY <4>2 DEF IdleSweep, SweepShape, Listing
      <4>3. ASSUME NEW K, sweep' = [sweep EXCEPT !.pc = "walk", !.known = K]
            PROVE  SweepShape' /\ sweep'.pc \in Listing /\ sweep'.cur = sweep.cur
          BY <4>3 DEF SweepInv, SweepShape, Listing
      <4> QED
          BY <2>1, <4>1, <4>2, <4>3
    <3>3. CASE SweepDone
        BY <2>1, <3>3 DEF SweepDone, IdleSweep, SweepShape, Listing
    <3> QED
        BY <1>1, <3>1, <3>2, <3>3
  <2> QED
      BY <2>1, <2>2, SweepStays, KeepAll DEF Listing, DiskFull
<1>2. ASSUME NEW k \in sweep.known, WriteBack(k) \/ DropReport(k) \/ LeaveVanished(k)
      PROVE  SweepInv' /\ KeepsLeasesBut("sweep")
  <2>1. UNCHANGED lease /\ sweep.pc = "walk" /\ sweep' = [sweep EXCEPT !.known = @ \ {k}]
      BY <1>2 DEF WriteBack, DropReport, LeaveVanished, Vanished
  <2>2. SweepShape' /\ sweep'.pc = sweep.pc /\ sweep'.cur = sweep.cur
      BY <2>1 DEF SweepInv, SweepShape
  <2> QED
      BY <2>1, <2>2, SweepStays, KeepAll
<1>3. ASSUME NEW k \in sweep.known, RouteDiskFull(k)
      PROVE  SweepInv' /\ KeepsLeasesBut("sweep")
  <2>1. UNCHANGED lease /\ sweep.pc = "walk" /\ sweep.cur = NoKnown
      BY <1>3 DEF RouteDiskFull, SweepInv, SweepOwned, plane
  <2>2. SweepShape' /\ sweep'.pc = "dfPause"
      BY <1>3 DEF RouteDiskFull, SweepInv, SweepShape
  <2>3. NoKnown.id \notin Tasks
      BY DEF NoKnown, Tasks
  <2> QED
      BY <2>1, <2>2, <2>3, KeepAll DEF SweepInv, SweepOwned, DiskFull
<1>4. ASSUME NEW k \in sweep.known, Resubmit(k)
      PROVE  SweepInv' /\ KeepsLeasesBut("sweep")
  <2>1. /\ lease[k.id] = "free" /\ lease' = [lease EXCEPT ![k.id] = "sweep"]
        /\ sweep.pc = "walk" /\ sweep.cur = NoKnown
      BY <1>4 DEF Resubmit, Vanished, SweepInv, SweepOwned
  <2>2. SweepShape' /\ sweep'.pc = "add" /\ sweep'.cur = k
      BY <1>4 DEF Resubmit, SweepInv, SweepShape
  <2>3. NoKnown.id \notin Tasks
      BY DEF NoKnown, Tasks
  <2> QED
      BY <2>1, <2>2, <2>3 DEF SweepInv, SweepOwned, DiskFull, KeepsLeasesBut, LeaseShape, Owners
<1>5. CASE DiskFullPause
  <2>1. NextKnown \/ ((SweepGoto("dfStamp") \/ SweepGoto("dfLand")) /\ UNCHANGED lease)
      BY <1>5 DEF DiskFullPause
  <2>2. sweep.pc = "dfPause"
      BY <1>5 DEF DiskFullPause
  <2> QED
      BY <2>1, <2>2, NextKnownKeeps, SweepGotoStays, KeepAll DEF Listing, DiskFull
<1>6. CASE DiskFullLand \/ DiskFullStamp \/ FailResubmit \/ ResubmitStrand
           \/ ResubmitResume \/ ResubmitUnstarted
    BY <1>6, NextKnownKeeps
    DEF DiskFullLand, DiskFullStamp, FailResubmit, ResubmitStrand, ResubmitResume,
        ResubmitUnstarted
<1>7. CASE ResubmitAdd
  <2>1. CASE sweep' = [sweep EXCEPT !.pc = "setRef", !.h = NextHandle] /\ UNCHANGED lease
    <3>1. /\ SweepShape' /\ sweep'.pc = "setRef" /\ sweep'.cur = sweep.cur
          /\ sweep.pc = "add"
        BY <1>7, <2>1 DEF ResubmitAdd, SweepInv, SweepShape
    <3> QED
        BY <2>1, <3>1, SweepStays, KeepAll DEF Listing, DiskFull
  <2>2. CASE SweepGoto("fail") /\ UNCHANGED lease
    <3>1. sweep.pc = "add"
        BY <1>7 DEF ResubmitAdd
    <3> QED
        BY <2>2, <3>1, SweepGotoStays, KeepAll DEF Listing, DiskFull
  <2> QED
      BY <1>7, <2>1, <2>2, NextKnownKeeps DEF ResubmitAdd
<1>8. CASE ResubmitRecord \/ ResubmitIntent \/ ResubmitRequeue \/ ResubmitMark \/ ResubmitStart
  <2>1. sweep.pc \notin Listing \union DiskFull
      BY <1>8 DEF ResubmitRecord, ResubmitIntent, ResubmitRequeue, ResubmitMark, ResubmitStart,
                  Listing, DiskFull
  <2>2. \/ NextKnown
        \/ /\ \E label : label \notin Listing \union DiskFull /\ SweepGoto(label)
           /\ UNCHANGED lease
      BY <1>8 DEF ResubmitRecord, ResubmitIntent, ResubmitRequeue, ResubmitMark, ResubmitStart,
                  Listing, DiskFull
  <2> QED
      BY <2>1, <2>2, NextKnownKeeps, SweepGotoStays, KeepAll
<1> QED
    BY <1>1, <1>2, <1>3, <1>4, <1>5, <1>6, <1>7, <1>8 DEF SweepNext

LEMMA InitLeases == Init => LeaseInv
<1> SUFFICES ASSUME Init PROVE LeaseInv
    OBVIOUS
<1>1. LeaseShape /\ \A t \in Tasks : lease[t] = "free"
    BY DEF Init, PlaneInit, LeaseShape
<1>2. PassShape /\ pass.pc = "idle"
    BY DEF Init, PassInit, IdlePass, PassShape
<1>3. OpShape /\ op.pc = "idle"
    BY DEF Init, ActionsInit, OpShape
<1>4. SweepShape /\ sweep.pc = "idle" /\ sweep.cur = NoKnown
    BY DEF Init, SweepInit, IdleSweep, SweepShape
<1>5. NoKnown.id \notin Tasks
    BY DEF NoKnown, Tasks
<1> QED
    BY <1>1, <1>2, <1>3, <1>4, <1>5
    DEF LeaseInv, PassInv, OpInv, SweepInv, PassOwned, OpOwned, SweepOwned, Working, Pausing,
        DiskFull

LEMMA NextLeases == ASSUME LeaseInv, [Next]_vars PROVE LeaseInv'
<1>1. CASE PassStep
  <2>1. PassInv' /\ KeepsLeasesBut("pass") /\ UNCHANGED <<op, sweep>>
      BY <1>1, PassLeases DEF PassStep, LeaseInv
  <2> QED
      BY <2>1, OthersOp, OthersSweep DEF LeaseInv, KeepsLeasesBut
<1>2. CASE OperatorStep
  <2>1. OpInv' /\ KeepsLeasesBut("operator") /\ UNCHANGED <<pass, sweep>>
      BY <1>2, ActionsLeases DEF OperatorStep, LeaseInv
  <2> QED
      BY <2>1, OthersPass, OthersSweep DEF LeaseInv, KeepsLeasesBut
<1>3. CASE SweepStep
  <2>1. SweepInv' /\ KeepsLeasesBut("sweep") /\ UNCHANGED <<pass, op>>
      BY <1>3, SweepLeases DEF SweepStep, LeaseInv
  <2> QED
      BY <2>1, OthersPass, OthersOp DEF LeaseInv, KeepsLeasesBut
<1>4. CASE UNCHANGED <<lease, pass, op, sweep>>
  <2>1. KeepsLeasesBut("none")
      BY <1>4, KeepAll DEF LeaseInv
  <2> QED
      BY <1>4, <2>1, OthersPass, OthersOp, OthersSweep DEF LeaseInv, KeepsLeasesBut
<1>5. CASE ScheduleStep
  <2>1. UNCHANGED lease
      BY <1>5 DEF ScheduleStep, GovNext, CellChanges, ParkScanQueued, ParkScanRunning, ParkEnd,
                  ParkEngine, ParkRow, ReleaseRow, ReleaseList, ReleaseEnd, plane
  <2> QED
      BY <1>4, <1>5, <2>1 DEF ScheduleStep
<1>6. CASE \E h \in Handles : MetadataStep(h) \/ FinishStep(h) \/ StopStep(h) \/ LoseStep(h)
    BY <1>4, <1>6
    DEF MetadataStep, FinishStep, StopStep, LoseStep, ReceiveMetadata, Finish,
        StopWithError, LoseHandle, controllers
<1>7. CASE Crash
  <2>1. LeaseShape' /\ \A t \in Tasks : lease'[t] = "free"
      BY <1>7 DEF Crash, LeaseShape
  <2>2. PassShape' /\ pass'.pc = "idle"
      BY <1>7 DEF Crash, IdlePass, PassShape
  <2>3. OpShape' /\ op'.pc = "idle"
      BY <1>7 DEF Crash, OpIdle, LeaseInv, OpInv, OpShape
  <2>4. SweepShape' /\ sweep'.pc = "idle" /\ sweep'.cur = NoKnown
      BY <1>7 DEF Crash, IdleSweep, SweepShape
  <2>5. NoKnown.id \notin Tasks
      BY DEF NoKnown, Tasks
  <2> QED
      BY <2>1, <2>2, <2>3, <2>4, <2>5
      DEF LeaseInv, PassInv, OpInv, SweepInv, PassOwned, OpOwned, SweepOwned, Working, Pausing,
          DiskFull
<1>8. CASE UNCHANGED vars
    BY <1>4, <1>8 DEF vars, plane
<1> QED
    BY <1>1, <1>2, <1>3, <1>5, <1>6, <1>7, <1>8 DEF Next

(* LeasesReturn: for any tasks, actors, failures and crashes, each lease   *)
(* is held exactly while the pass, the pause or the re-submission that     *)
(* took it is at work on the task; no early return of processCandidate,    *)
(* pauseAction or resubmit keeps one.                                      *)
THEOREM LeasesReturn == Spec => []LeaseOwned
<1>1. Init => LeaseInv
    BY InitLeases
<1>2. LeaseInv /\ [Next]_vars => LeaseInv'
    BY NextLeases
<1>3. LeaseInv => LeaseOwned
    BY DEF LeaseInv, PassInv, OpInv, SweepInv, PassOwned, OpOwned, SweepOwned, LeaseOwned,
           Pausing, DiskFull
<1> QED
    BY <1>1, <1>2, <1>3, PTL DEF Spec
================================================================================
