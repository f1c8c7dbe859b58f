----------------------------- MODULE EngineProofs ------------------------------
(***************************************************************************)
(* Proofs about what stands between the engine contract and an engine: the *)
(* media lane, which runs yt-dlp processes (YtdlpLane), and the cache of   *)
(* the torrent daemon's list (QbtCache).                                   *)
(***************************************************************************)
EXTENDS YtdlpLane, QbtCache, TLAPS

--------------------------------------------------------------------------------
(***************************************************************************)
(* Theorems about the media lane, for every number of lifecycle callers,   *)
(* processes, progress lines and stalled kills.                            *)
(***************************************************************************)

Pointers == {0} \union Procs
Codes == {"ok", "fail", "signal"}
Records == [st : Statuses \union {"absent", "paused"}, proc : Pointers, removing : BOOLEAN]
Children == [st : {"none", "running", "exited"}, out : Seq(Printed),
             kill : BOOLEAN, code : {"-"} \union Codes]
Calls == [pc : {"idle", "kill", "reap", "settle"}, op : {"-", "pause", "remove", "close"},
          proc : Pointers]

(* The shapes of the lane's state.                                         *)
Shapes ==
    /\ rec \in Records
    /\ live \in Pointers
    /\ proc \in [Procs -> Children]
    /\ watcher \in [Procs -> {"-", "drain", "reap", "settle"}]
    /\ caller \in [Callers -> Calls]
    /\ closed \in BOOLEAN
    /\ settled \in [Procs -> Nat]
    /\ stalls \in 0 .. MaxStalls
    /\ lines \in Nat

(* No pointer names a process that was not spawned.                        *)
PointersSpawned ==
    /\ rec.proc # 0 => proc[rec.proc].st # "none"
    /\ live # 0 => proc[live].st # "none"
    /\ \A c \in Callers : caller[c].proc # 0 => proc[caller[c].proc].st # "none"

(* Whoever reaps or settles a process found it exited before, and a        *)
(* process that exited has a code to classify.                             *)
ReapersSawExit ==
    /\ \A c \in Callers :
         caller[c].pc \in {"reap", "settle"} /\ caller[c].proc # 0 => proc[caller[c].proc].st = "exited"
    /\ \A p \in Procs : watcher[p] \in {"reap", "settle"} => proc[p].st = "exited"
    /\ \A p \in Procs : proc[p].st = "exited" => proc[p].code \in Codes

(* Only a Remove may be without a process, and only when it has none to    *)
(* kill.                                                                   *)
CallsShaped ==
    \A c \in Callers :
        /\ caller[c].op = "-" <=> caller[c].pc = "idle"
        /\ caller[c].pc \in {"kill", "reap"} => caller[c].proc # 0
        /\ caller[c].op \in {"pause", "close"} => caller[c].proc # 0

(* A settled process is off the record, and a record never names a process *)
(* a second time.                                                          *)
SettledGone ==
    \A p \in Procs :
        /\ settled[p] <= 1
        /\ settled[p] > 0 => rec.proc # p /\ proc[p].st # "none"

(* A Remove in flight holds the record's claim alone, and while it does no *)
(* process other than the one it kills is on the record.                   *)
OneRemove ==
    \A c \in Callers : caller[c].op = "remove" =>
        /\ rec.removing
        /\ rec.proc \in {0, caller[c].proc}
        /\ \A d \in Callers : caller[d].op = "remove" => d = c

LaneInv ==
    /\ Shapes
    /\ PointersSpawned
    /\ ReapersSawExit
    /\ CallsShaped
    /\ SettledGone
    /\ OneRemove
    /\ ChildOwned
    /\ DownloadingHasProcess
    /\ ClaimReleased

--------------------------------------------------------------------------------
LEMMA LaneInitInv == LaneInit => LaneInv
<1> SUFFICES ASSUME LaneInit PROVE LaneInv
    OBVIOUS
<1> USE DEF LaneInit, NoRec, NoCall
<1>1. Shapes
  <2>1. rec \in Records /\ live \in Pointers /\ caller \in [Callers -> Calls]
      BY DEF Records, Calls, Pointers
  <2>2. <<>> \in Seq(Printed)
      OBVIOUS
  <2>3. proc \in [Procs -> Children]
      BY <2>2 DEF Children
  <2>4. watcher \in [Procs -> {"-", "drain", "reap", "settle"}] /\ closed \in BOOLEAN
      OBVIOUS
  <2>5. settled \in [Procs -> Nat] /\ stalls \in 0 .. MaxStalls /\ lines \in Nat
      BY YtdlpAssumption
  <2> QED
      BY <2>1, <2>3, <2>4, <2>5 DEF Shapes
<1>2. PointersSpawned /\ ReapersSawExit /\ CallsShaped
    BY DEF PointersSpawned, ReapersSawExit, CallsShaped
<1>3. SettledGone /\ OneRemove /\ ChildOwned /\ DownloadingHasProcess /\ ClaimReleased
    BY DEF SettledGone, OneRemove, ChildOwned, DownloadingHasProcess, ClaimReleased
<1> QED
    BY <1>1, <1>2, <1>3 DEF LaneInv

(* A spawn goes into an empty slot, so no other child runs; the process is *)
(* new, so nobody points at it yet (Add, Resume).                          *)
LEMMA SpawnKeeps ==
    ASSUME LaneInv, NEW p \in Procs, Spawn(p), live = 0, rec.proc = 0, ~rec.removing,
           rec' \in Records, rec'.proc = p, rec'.st = "downloading", ~rec'.removing,
           UNCHANGED <<caller, closed, settled, stalls, lines>>
    PROVE  LaneInv'
<1> USE DEF LaneInv
<1>a. /\ p # 0 /\ proc[p].st = "none" /\ live' = p
      /\ proc' = [proc EXCEPT ![p].st = "running"]
      /\ watcher' = [watcher EXCEPT ![p] = "drain"]
    BY DEF Spawn, Fresh, Procs
<1>b. proc' \in [Procs -> Children] /\ proc'[p].st = "running"
      /\ \A q \in Procs \ {p} : proc'[q] = proc[q]
  <2> DEFINE child == [proc[p] EXCEPT !.st = "running"]
  <2>1. proc \in [Procs -> Children] /\ proc' = [proc EXCEPT ![p] = child]
      BY <1>a DEF Shapes
  <2>2. child \in Children /\ child.st = "running"
    <3>1. PICK c \in Children : c = proc[p]
        BY <2>1
    <3>2. [c EXCEPT !.st = "running"] \in Children /\ [c EXCEPT !.st = "running"].st = "running"
        BY DEF Children
    <3> QED
        BY <3>1, <3>2
  <2> HIDE DEF child
  <2> QED
      BY <2>1, <2>2
<1>1. Shapes'
    BY <1>a, <1>b DEF Shapes, Pointers
<1>2. PointersSpawned'
    BY <1>a, <1>b DEF PointersSpawned, Shapes, Pointers, Calls
<1>3. ReapersSawExit'
    BY <1>a, <1>b DEF ReapersSawExit, Shapes, Pointers, Calls
<1>4. CallsShaped'
    BY DEF CallsShaped
<1>5. SettledGone'
    BY <1>a, <1>b DEF SettledGone, Shapes
<1>6. OneRemove' /\ ClaimReleased'
    BY DEF OneRemove, ClaimReleased
<1>7. ChildOwned' /\ DownloadingHasProcess'
    BY <1>a, <1>b DEF ChildOwned, DownloadingHasProcess, Procs
<1> QED
    BY <1>1, <1>2, <1>3, <1>4, <1>5, <1>6, <1>7

LEMMA LaneAddKeeps == ASSUME LaneInv, LaneAdd PROVE LaneInv'
<1>a. rec = NoRec /\ NoRec \in Records /\ UNCHANGED <<caller, closed, settled, stalls, lines>>
    BY DEF LaneAdd, NoRec, Records, Pointers
<1>1. CASE rec' = [NoRec EXCEPT !.st = "paused"] /\ UNCHANGED <<live, proc, watcher>>
  <2>1. rec' \in Records /\ rec'.proc = 0 /\ ~rec'.removing /\ rec'.st = "paused"
      BY <1>1 DEF NoRec, Records, Pointers
  <2>2. rec.proc = 0 /\ ~rec.removing
      BY <1>a DEF NoRec
  <2>3. (Shapes /\ PointersSpawned /\ ReapersSawExit /\ CallsShaped)'
      BY <1>1, <1>a, <2>1 DEF LaneInv, Shapes, PointersSpawned, ReapersSawExit, CallsShaped
  <2>4. (SettledGone /\ OneRemove /\ ChildOwned /\ DownloadingHasProcess /\ ClaimReleased)'
      BY <1>1, <1>a, <2>1, <2>2
      DEF LaneInv, SettledGone, OneRemove, ChildOwned, DownloadingHasProcess, ClaimReleased, Procs
  <2> QED
      BY <2>3, <2>4 DEF LaneInv
<1>2. ASSUME CanSpawn, NEW p \in Procs, Spawn(p), rec' = [NoRec EXCEPT !.st = "downloading", !.proc = p]
      PROVE  LaneInv'
  <2>1. rec' \in Records /\ rec'.proc = p /\ ~rec'.removing /\ rec'.st = "downloading"
      BY <1>2 DEF NoRec, Records, Pointers, Statuses
  <2>2. rec.proc = 0 /\ ~rec.removing /\ live = 0
      BY <1>2, <1>a DEF NoRec, CanSpawn
  <2> QED
      BY <1>2, <1>a, <2>1, <2>2, SpawnKeeps
<1> QED
    BY <1>1, <1>2 DEF LaneAdd

LEMMA LaneResumeKeeps == ASSUME LaneInv, LaneResume PROVE LaneInv'
<1>1. PICK p \in Procs : Spawn(p) /\ rec' = [rec EXCEPT !.st = "downloading", !.proc = p]
    BY DEF LaneResume
<1>2. rec' \in Records /\ rec'.proc = p /\ ~rec'.removing /\ rec'.st = "downloading"
    BY <1>1 DEF LaneResume, LaneInv, Shapes, Records, Pointers, Statuses
<1>3. rec.proc = 0 /\ ~rec.removing /\ live = 0 /\ UNCHANGED <<caller, closed, settled, stalls, lines>>
    BY DEF LaneResume, CanSpawn
<1> QED
    BY <1>1, <1>2, <1>3, SpawnKeeps

(* A call snapshots the process on the record and cancels it; a Remove     *)
(* also claims the record, which nobody else had claimed (Pause, Remove,   *)
(* Close).                                                                 *)
LEMMA CancelKeeps ==
    ASSUME LaneInv, NEW c \in Callers, caller[c].pc = "idle", rec.proc # 0,
           NEW o \in {"pause", "remove", "close"},
           Call(c, o, "kill", rec.proc), Cancelled(rec.proc),
           rec' \in Records, rec'.proc = rec.proc, rec'.st = rec.st,
           IF o = "remove" THEN ~rec.removing /\ rec'.removing ELSE rec'.removing = rec.removing,
           closed' \in BOOLEAN, UNCHANGED <<live, watcher, settled, stalls, lines>>
    PROVE  LaneInv'
<1> USE DEF LaneInv
<1>a. /\ rec.proc \in Procs
      /\ caller' \in [Callers -> Calls]
      /\ caller'[c] = [pc |-> "kill", op |-> o, proc |-> rec.proc]
      /\ \A d \in Callers \ {c} : caller'[d] = caller[d]
    BY DEF Shapes, Records, Pointers, Call, Calls
<1>b. /\ proc' \in [Procs -> Children]
      /\ \A p \in Procs : proc'[p].st = proc[p].st /\ proc'[p].code = proc[p].code
  <2> DEFINE child == [proc[rec.proc] EXCEPT !.kill = TRUE]
  <2>1. proc \in [Procs -> Children] /\ proc' = [proc EXCEPT ![rec.proc] = child]
      BY <1>a DEF Cancelled, Shapes
  <2>2. child \in Children /\ child.st = proc[rec.proc].st /\ child.code = proc[rec.proc].code
      BY <1>a, <2>1 DEF Children
  <2> HIDE DEF child
  <2> QED
      BY <1>a, <2>1, <2>2
<1>1. Shapes'
    BY <1>a, <1>b DEF Shapes
<1>2. PointersSpawned'
    BY <1>a, <1>b DEF PointersSpawned, Shapes, Pointers, Calls
<1>3. ReapersSawExit'
  <2>1. \A d \in Callers : caller[d].proc \in {0} \union Procs
      BY DEF Shapes, Calls, Pointers
  <2>2. ASSUME NEW d \in Callers, caller'[d].pc \in {"reap", "settle"}, caller'[d].proc # 0
        PROVE  proc'[caller'[d].proc].st = "exited"
      BY <1>a, <1>b, <2>1, <2>2 DEF ReapersSawExit
  <2> QED
      BY <1>b, <2>2 DEF ReapersSawExit
<1>4. CallsShaped'
    BY <1>a DEF CallsShaped
<1>5. SettledGone' /\ ChildOwned' /\ DownloadingHasProcess'
    BY <1>b DEF SettledGone, ChildOwned, DownloadingHasProcess
<1>6. OneRemove'
    BY <1>a DEF OneRemove, ClaimReleased
<1>7. ClaimReleased'
  <2>1. caller[c].op # "remove"
      BY DEF CallsShaped
  <2>2. CASE o = "remove"
      BY <1>a, <2>2 DEF ClaimReleased
  <2>3. CASE o # "remove"
      BY <1>a, <2>1, <2>3 DEF ClaimReleased
  <2> QED
      BY <2>2, <2>3
<1> QED
    BY <1>1, <1>2, <1>3, <1>4, <1>5, <1>6, <1>7

LEMMA PauseBeginKeeps == ASSUME LaneInv, NEW c \in Callers, PauseBegin(c) PROVE LaneInv'
<1>1. rec \in Records /\ closed \in BOOLEAN
    BY DEF LaneInv, Shapes
<1> QED
    BY <1>1, CancelKeeps DEF PauseBegin

LEMMA RemoveBeginKeeps == ASSUME LaneInv, NEW c \in Callers, RemoveBegin(c) PROVE LaneInv'
<1>a. rec \in Records /\ closed \in BOOLEAN
    BY DEF LaneInv, Shapes
<1>b. rec' \in Records /\ rec'.proc = rec.proc /\ rec'.st = rec.st /\ rec'.removing
    BY <1>a DEF RemoveBegin, Records
<1>c. caller[c].pc = "idle" /\ ~rec.removing
    BY DEF RemoveBegin
<1>1. CASE rec.proc # 0
    BY <1>1, <1>a, <1>b, <1>c, CancelKeeps DEF RemoveBegin
<1>2. CASE rec.proc = 0
  <2> USE DEF LaneInv
  <2>1. /\ caller' \in [Callers -> Calls]
        /\ caller'[c] = [pc |-> "settle", op |-> "remove", proc |-> 0]
        /\ \A d \in Callers \ {c} : caller'[d] = caller[d]
      BY <1>2 DEF Shapes, Pointers, RemoveBegin, Call, Calls
  <2>2. UNCHANGED <<live, proc, watcher, closed, settled, stalls, lines>>
      BY <1>2 DEF RemoveBegin
  <2>3. (Shapes /\ PointersSpawned /\ ReapersSawExit /\ CallsShaped)'
      BY <1>b, <2>1, <2>2 DEF Shapes, PointersSpawned, ReapersSawExit, CallsShaped
  <2>4. (SettledGone /\ ChildOwned /\ DownloadingHasProcess)'
      BY <1>b, <2>2 DEF SettledGone, ChildOwned, DownloadingHasProcess
  <2>5. (OneRemove /\ ClaimReleased)'
      BY <1>2, <1>b, <1>c, <2>1 DEF OneRemove, ClaimReleased
  <2> QED
      BY <2>3, <2>4, <2>5
<1> QED
    BY <1>1, <1>2

LEMMA CloseBeginKeeps == ASSUME LaneInv, NEW c \in Callers, CloseBegin(c) PROVE LaneInv'
<1>a. rec \in Records /\ closed' \in BOOLEAN /\ UNCHANGED <<rec, live, watcher, settled, stalls, lines>>
    BY DEF LaneInv, Shapes, CloseBegin
<1>1. CASE rec.proc # 0
    BY <1>1, <1>a, CancelKeeps DEF CloseBegin
<1>2. CASE rec.proc = 0
  <2>1. UNCHANGED <<caller, proc>>
      BY <1>2 DEF CloseBegin
  <2> QED
      BY <1>a, <2>1
      DEF LaneInv, Shapes, PointersSpawned, ReapersSawExit, CallsShaped, SettledGone, OneRemove,
          ChildOwned, DownloadingHasProcess, ClaimReleased
<1> QED
    BY <1>1, <1>2

(* The steps of a call up to its settling leave the record alone, but for  *)
(* the claim a failed Remove gives back.                                   *)
LEMMA killProcKeeps == ASSUME LaneInv, NEW c \in Callers, killProc(c) PROVE LaneInv'
<1> USE DEF LaneInv
<1>a. /\ caller' \in [Callers -> Calls]
      /\ caller'[c].pc = "reap" /\ caller'[c].op = caller[c].op /\ caller'[c].proc = caller[c].proc
      /\ \A d \in Callers \ {c} : caller'[d] = caller[d]
    BY DEF Shapes, killProc, Calls
<1>1. (Shapes /\ PointersSpawned /\ SettledGone /\ ChildOwned /\ DownloadingHasProcess)'
    BY <1>a DEF killProc, Shapes, PointersSpawned, SettledGone, ChildOwned, DownloadingHasProcess
<1>2. (ReapersSawExit /\ CallsShaped)'
    BY <1>a DEF killProc, ReapersSawExit, CallsShaped
<1>3. (OneRemove /\ ClaimReleased)'
    BY <1>a DEF killProc, OneRemove, ClaimReleased
<1> QED
    BY <1>1, <1>2, <1>3

LEMMA killReapKeeps == ASSUME LaneInv, NEW c \in Callers, killReap(c) PROVE LaneInv'
<1> USE DEF LaneInv
<1>a. /\ caller' \in [Callers -> Calls]
      /\ caller'[c].pc = "settle" /\ caller'[c].op = caller[c].op /\ caller'[c].proc = caller[c].proc
      /\ \A d \in Callers \ {c} : caller'[d] = caller[d]
    BY DEF Shapes, killReap, Calls
<1>b. live' \in {0, live} /\ (live' # live => proc[live].st = "exited")
    BY DEF killReap, Reap, ReapersSawExit, CallsShaped
<1>1. (Shapes /\ PointersSpawned /\ SettledGone /\ DownloadingHasProcess)'
    BY <1>a, <1>b DEF killReap, Shapes, Pointers, PointersSpawned, SettledGone, DownloadingHasProcess
<1>2. (ReapersSawExit /\ CallsShaped)'
    BY <1>a DEF killReap, ReapersSawExit, CallsShaped
<1>3. (OneRemove /\ ClaimReleased)'
    BY <1>a DEF killReap, OneRemove, ClaimReleased
<1>4. ChildOwned'
    BY <1>b DEF killReap, ChildOwned
<1> QED
    BY <1>1, <1>2, <1>3, <1>4

LEMMA killStallsKeeps == ASSUME LaneInv, NEW c \in Callers, killStalls(c) PROVE LaneInv'
<1> USE DEF LaneInv
<1>a. /\ caller' \in [Callers -> Calls] /\ caller'[c] = NoCall
      /\ \A d \in Callers \ {c} : caller'[d] = caller[d]
    BY DEF Shapes, killStalls, Return, NoCall, Calls, Pointers
<1>b. /\ rec' \in Records /\ rec'.proc = rec.proc /\ rec'.st = rec.st
      /\ rec'.removing = (rec.removing /\ caller[c].op # "remove")
    BY DEF Shapes, killStalls, Records
<1>c. stalls' \in 0 .. MaxStalls
    BY YtdlpAssumption DEF Shapes, killStalls
<1>1. (Shapes /\ PointersSpawned)'
    BY <1>a, <1>b, <1>c DEF killStalls, Shapes, PointersSpawned, NoCall
<1>2. (ReapersSawExit /\ CallsShaped)'
    BY <1>a DEF killStalls, ReapersSawExit, CallsShaped, NoCall
<1>3. (SettledGone /\ ChildOwned /\ DownloadingHasProcess)'
    BY <1>b DEF killStalls, SettledGone, ChildOwned, DownloadingHasProcess
<1>4. OneRemove'
  <2> SUFFICES ASSUME NEW d \in Callers, caller'[d].op = "remove"
               PROVE  /\ rec'.removing
                      /\ rec'.proc \in {0, caller'[d].proc}
                      /\ \A e \in Callers : caller'[e].op = "remove" => e = d
      BY DEF OneRemove
  <2>1. d # c /\ caller[d].op = "remove"
      BY <1>a DEF NoCall
  <2>2. rec.removing /\ rec.proc \in {0, caller[d].proc} /\ caller[c].op # "remove"
      BY <2>1 DEF OneRemove
  <2>3. \A e \in Callers : caller'[e].op = "remove" => e = d
      BY <1>a, <2>1 DEF OneRemove, NoCall
  <2> QED
      BY <1>a, <1>b, <2>1, <2>2, <2>3
<1>5. ClaimReleased'
    BY <1>a, <1>b DEF ClaimReleased
<1> QED
    BY <1>1, <1>2, <1>3, <1>4, <1>5

(* finishProc, by a call or by the watcher: the process it takes off the   *)
(* record has exited, so no child loses its record, and it is settled for  *)
(* the first time.                                                         *)
LEMMA FinishKeeps ==
    ASSUME LaneInv, NEW p \in Procs, proc[p].st = "exited",
           NEW st \in {"paused", "completed", "error"}, finishProc(p, st)
    PROVE  /\ rec' \in Records /\ rec'.removing = rec.removing
           /\ rec'.proc \in {0, rec.proc} /\ settled' \in [Procs -> Nat]
           /\ SettledGone' \/ proc' # proc
           /\ DownloadingHasProcess'
           /\ \A q \in Procs : proc[q].st = "running" => rec'.proc = q
<1> USE DEF LaneInv
<1>a. p # 0 /\ rec \in Records /\ settled \in [Procs -> Nat]
    BY DEF Shapes, Procs
<1>1. CASE rec.proc = p
  <2>1. /\ rec' = [rec EXCEPT !.proc = 0, !.st = st]
        /\ settled' = [settled EXCEPT ![p] = @ + 1]
      BY <1>1 DEF finishProc
  <2>2. settled[p] = 0
      BY <1>1, <1>a DEF SettledGone
  <2>3. rec' \in Records /\ rec'.proc = 0 /\ rec'.st = st /\ rec'.removing = rec.removing
      BY <2>1, <1>a DEF Records, Statuses, Pointers
  <2>4. settled' \in [Procs -> Nat] /\ settled'[p] = 1 /\ \A q \in Procs \ {p} : settled'[q] = settled[q]
      BY <2>1, <2>2, <1>a
  <2>5. proc' = proc => SettledGone'
      BY <2>3, <2>4 DEF SettledGone, Procs
  <2>6. DownloadingHasProcess'
      BY <2>3 DEF DownloadingHasProcess
  <2>7. \A q \in Procs : proc[q].st # "running"
      BY <1>1 DEF ChildOwned
  <2> QED
      BY <2>3, <2>4, <2>5, <2>6, <2>7
<1>2. CASE rec.proc # p
    BY <1>2, <1>a DEF finishProc, SettledGone, DownloadingHasProcess, ChildOwned
<1> QED
    BY <1>1, <1>2

LEMMA SettleKeeps == ASSUME LaneInv, NEW c \in Callers, Settle(c) PROVE LaneInv'
<1> USE DEF LaneInv
<1>a. /\ caller' \in [Callers -> Calls] /\ caller'[c] = NoCall
      /\ \A d \in Callers \ {c} : caller'[d] = caller[d]
    BY DEF Shapes, Settle, Return, NoCall, Calls, Pointers
<1>b. UNCHANGED <<live, proc, watcher, closed, stalls, lines>> /\ caller[c].pc = "settle"
    BY DEF Settle
<1>c. (ReapersSawExit /\ CallsShaped)'
    BY <1>a, <1>b DEF ReapersSawExit, CallsShaped, NoCall
<1>1. CASE caller[c].op = "remove"
  <2>1. rec' = NoRec /\ settled' = settled
      BY <1>1 DEF Settle
  <2>2. rec' \in Records /\ rec'.proc = 0 /\ ~rec'.removing /\ rec'.st = "absent"
      BY <2>1 DEF NoRec, Records, Pointers
  <2>3. \A p \in Procs : proc[p].st # "running"
      BY <1>1, <1>b DEF OneRemove, ChildOwned, ReapersSawExit, Procs
  <2>4. (Shapes /\ PointersSpawned)'
      BY <1>a, <1>b, <2>1, <2>2 DEF Shapes, PointersSpawned, NoCall
  <2>5. (SettledGone /\ ChildOwned /\ DownloadingHasProcess /\ ClaimReleased)'
      BY <1>b, <2>1, <2>2, <2>3
      DEF SettledGone, ChildOwned, DownloadingHasProcess, ClaimReleased, Procs
  <2>6. OneRemove'
      BY <1>1, <1>a DEF OneRemove, NoCall
  <2> QED
      BY <1>c, <2>4, <2>5, <2>6
<1>2. CASE caller[c].op # "remove"
  <2>1. caller[c].op \in {"pause", "close"}
      BY <1>2, <1>b DEF CallsShaped, Shapes, Calls
  <2>2. caller[c].proc \in Procs /\ proc[caller[c].proc].st = "exited"
      BY <1>b, <2>1 DEF CallsShaped, Shapes, Calls, Pointers, ReapersSawExit
  <2>3. finishProc(caller[c].proc, "paused")
      BY <1>2 DEF Settle
  <2>4. /\ rec' \in Records /\ rec'.removing = rec.removing
        /\ rec'.proc \in {0, rec.proc} /\ settled' \in [Procs -> Nat]
        /\ SettledGone' /\ DownloadingHasProcess'
        /\ \A q \in Procs : proc[q].st = "running" => rec'.proc = q
      BY <1>b, <2>2, <2>3, FinishKeeps
  <2>5. (Shapes /\ PointersSpawned)'
      BY <1>a, <1>b, <2>4 DEF Shapes, PointersSpawned, NoCall
  <2>6. ChildOwned'
      BY <1>b, <2>4 DEF ChildOwned
  <2>7. OneRemove'
      BY <1>a, <2>4 DEF OneRemove, NoCall
  <2>8. ClaimReleased'
      BY <1>2, <1>a, <2>4 DEF ClaimReleased
  <2> QED
      BY <1>c, <2>4, <2>5, <2>6, <2>7, <2>8
<1> QED
    BY <1>1, <1>2

(* The child: what it prints and how it ends concern its pipe and code.    *)
LEMMA ChildKeeps ==
    ASSUME LaneInv, NEW p \in Procs, proc[p].st = "running",
           proc' \in [Procs -> Children], \A q \in Procs \ {p} : proc'[q] = proc[q],
           \/ proc'[p].st = "running"
           \/ proc'[p].st = "exited" /\ proc'[p].code \in Codes,
           UNCHANGED <<rec, live, watcher, caller, closed, settled, stalls>>, lines' \in Nat
    PROVE  LaneInv'
<1> USE DEF LaneInv
<1>1. Shapes'
    BY DEF Shapes
<1>2. PointersSpawned'
    BY DEF PointersSpawned, Shapes, Records, Calls, Pointers
<1>3. ReapersSawExit'
    BY DEF ReapersSawExit, Shapes, Calls, Pointers
<1>4. (CallsShaped /\ OneRemove /\ DownloadingHasProcess /\ ClaimReleased)'
    BY DEF CallsShaped, OneRemove, DownloadingHasProcess, ClaimReleased
<1>5. (SettledGone /\ ChildOwned)'
    BY DEF SettledGone, ChildOwned
<1> QED
    BY <1>1, <1>2, <1>3, <1>4, <1>5

LEMMA ProcPrintsKeeps == ASSUME LaneInv, NEW p \in Procs, ProcPrints(p) PROVE LaneInv'
<1>1. PICK s \in Printed : proc' = [proc EXCEPT ![p].out = Append(@, s)]
    BY DEF ProcPrints
<1>2. proc \in [Procs -> Children] /\ proc[p].out \in Seq(Printed) /\ lines \in Nat
    BY DEF LaneInv, Shapes, Children
<1>3. Append(proc[p].out, s) \in Seq(Printed)
    BY <1>2
<1>4. proc' \in [Procs -> Children] /\ proc'[p].st = proc[p].st
      /\ \A q \in Procs \ {p} : proc'[q] = proc[q]
    BY <1>1, <1>2, <1>3 DEF Children
<1>5. lines' \in Nat
    BY <1>2 DEF ProcPrints
<1> QED
    BY <1>4, <1>5, ChildKeeps DEF ProcPrints

LEMMA ProcExitsKeeps == ASSUME LaneInv, NEW p \in Procs, ProcExits(p) PROVE LaneInv'
<1>1. PICK code \in Codes : proc' = [proc EXCEPT ![p].st = "exited", ![p].code = code]
    BY DEF ProcExits, Codes
<1>2. proc \in [Procs -> Children] /\ lines \in Nat
    BY DEF LaneInv, Shapes
<1>3. proc' \in [Procs -> Children] /\ proc'[p].st = "exited" /\ proc'[p].code = code
      /\ \A q \in Procs \ {p} : proc'[q] = proc[q]
    BY <1>1, <1>2 DEF Children
<1> QED
    BY <1>2, <1>3, ChildKeeps DEF ProcExits

(* The watcher.                                                            *)
LEMMA WatchLineKeeps == ASSUME LaneInv, NEW p \in Procs, WatchLine(p) PROVE LaneInv'
<1> USE DEF LaneInv
<1>a. proc \in [Procs -> Children] /\ proc[p].out \in Seq(Printed) /\ proc[p].out # <<>> /\ p # 0
    BY DEF Shapes, Children, WatchLine, Procs
<1>b. Head(proc[p].out) \in Printed /\ Tail(proc[p].out) \in Seq(Printed)
    BY <1>a
<1>c. /\ proc' \in [Procs -> Children]
      /\ \A q \in Procs : proc'[q].st = proc[q].st /\ proc'[q].code = proc[q].code
    BY <1>a, <1>b DEF WatchLine, Children
<1>d. /\ rec' \in Records /\ rec'.proc = rec.proc /\ rec'.removing = rec.removing
      /\ rec'.st # rec.st => rec.proc # 0
    BY <1>a, <1>b DEF WatchLine, Merges, Shapes, Records, Printed, Statuses
<1>1. Shapes'
    BY <1>c, <1>d DEF WatchLine, Shapes
<1>2. PointersSpawned'
    BY <1>c, <1>d DEF WatchLine, PointersSpawned, Shapes, Records, Calls, Pointers
<1>3. ReapersSawExit'
    BY <1>c DEF WatchLine, ReapersSawExit, Shapes, Calls, Pointers
<1>4. (CallsShaped /\ OneRemove /\ DownloadingHasProcess /\ ClaimReleased)'
    BY <1>d DEF WatchLine, CallsShaped, OneRemove, DownloadingHasProcess, ClaimReleased
<1>5. (SettledGone /\ ChildOwned)'
    BY <1>c, <1>d DEF WatchLine, SettledGone, ChildOwned
<1> QED
    BY <1>1, <1>2, <1>3, <1>4, <1>5

LEMMA WatchDoneKeeps == ASSUME LaneInv, NEW p \in Procs, WatchDone(p) PROVE LaneInv'
<1> USE DEF LaneInv, WatchDone
<1>1. (Shapes /\ ReapersSawExit)'
    BY DEF Shapes, ReapersSawExit
<1>2. (PointersSpawned /\ CallsShaped /\ SettledGone /\ OneRemove)'
    BY DEF PointersSpawned, CallsShaped, SettledGone, OneRemove
<1>3. (ChildOwned /\ DownloadingHasProcess /\ ClaimReleased)'
    BY DEF ChildOwned, DownloadingHasProcess, ClaimReleased
<1> QED
    BY <1>1, <1>2, <1>3

LEMMA WatchReapKeeps == ASSUME LaneInv, NEW p \in Procs, WatchReap(p) PROVE LaneInv'
<1> USE DEF LaneInv
<1>a. live' \in {0, live} /\ (live' # live => proc[live].st = "exited")
    BY DEF WatchReap, Reap, ReapersSawExit
<1>1. (Shapes /\ ReapersSawExit)'
    BY <1>a DEF WatchReap, Shapes, ReapersSawExit, Pointers
<1>2. (PointersSpawned /\ CallsShaped /\ SettledGone /\ OneRemove)'
    BY <1>a DEF WatchReap, PointersSpawned, CallsShaped, SettledGone, OneRemove
<1>3. (ChildOwned /\ DownloadingHasProcess /\ ClaimReleased)'
    BY <1>a DEF WatchReap, ChildOwned, DownloadingHasProcess, ClaimReleased
<1> QED
    BY <1>1, <1>2, <1>3

LEMMA WatchSettleKeeps == ASSUME LaneInv, NEW p \in Procs, WatchSettle(p) PROVE LaneInv'
<1> USE DEF LaneInv
<1>a. proc[p].st = "exited" /\ proc[p].code \in Codes
    BY DEF WatchSettle, ReapersSawExit
<1>b. ClassifyExit(proc[p].code) \in {"paused", "completed", "error"}
    BY <1>a DEF ClassifyExit, Codes
<1>c. finishProc(p, ClassifyExit(proc[p].code)) /\ UNCHANGED <<live, proc, caller, closed, stalls, lines>>
    BY DEF WatchSettle
<1>d. /\ rec' \in Records /\ rec'.removing = rec.removing
      /\ rec'.proc \in {0, rec.proc} /\ settled' \in [Procs -> Nat]
      /\ SettledGone' /\ DownloadingHasProcess'
      /\ \A q \in Procs : proc[q].st = "running" => rec'.proc = q
    BY <1>a, <1>b, <1>c, FinishKeeps
<1>1. (Shapes /\ ReapersSawExit)'
    BY <1>c, <1>d DEF WatchSettle, Shapes, ReapersSawExit
<1>2. (PointersSpawned /\ CallsShaped /\ OneRemove)'
    BY <1>c, <1>d DEF PointersSpawned, CallsShaped, OneRemove
<1>3. (ChildOwned /\ ClaimReleased)'
    BY <1>c, <1>d DEF ChildOwned, ClaimReleased
<1> QED
    BY <1>d, <1>1, <1>2, <1>3

LEMMA LaneNextInv == LaneInv /\ [LaneNext]_laneVars => LaneInv'
<1> SUFFICES ASSUME LaneInv, [LaneNext]_laneVars PROVE LaneInv'
    OBVIOUS
<1>1. CASE LaneAdd \/ LaneResume
    BY <1>1, LaneAddKeeps, LaneResumeKeeps
<1>2. ASSUME NEW c \in Callers, PauseBegin(c) \/ RemoveBegin(c) \/ CloseBegin(c) \/ CallStep(c)
      PROVE  LaneInv'
    BY <1>2, PauseBeginKeeps, RemoveBeginKeeps, CloseBeginKeeps, killProcKeeps, killReapKeeps,
       killStallsKeeps, SettleKeeps DEF CallStep
<1>3. ASSUME NEW p \in Procs, ProcPrints(p) \/ ProcExits(p) \/ WatchStep(p)
      PROVE  LaneInv'
    BY <1>3, ProcPrintsKeeps, ProcExitsKeeps, WatchLineKeeps, WatchDoneKeeps, WatchReapKeeps,
       WatchSettleKeeps DEF WatchStep
<1>4. CASE UNCHANGED laneVars
    BY <1>4 DEF laneVars, LaneInv, Shapes, PointersSpawned, ReapersSawExit, CallsShaped, SettledGone,
       OneRemove, ChildOwned, DownloadingHasProcess, ClaimReleased
<1> QED
    BY <1>1, <1>2, <1>3, <1>4 DEF LaneNext

LEMMA LaneInvSafe == LaneInv => LaneSafe
<1> SUFFICES ASSUME LaneInv PROVE LaneSafe
    OBVIOUS
<1>1. Spawned = {p \in Procs : proc[p].st # "none"}
    BY DEF Spawned
<1>2. LaneTypeOK
    BY <1>1 DEF LaneInv, Shapes, PointersSpawned, LaneTypeOK, Records, Calls, Pointers
<1>3. SettledOnce
    BY DEF LaneInv, SettledGone, SettledOnce
<1> QED
    BY <1>2, <1>3 DEF LaneInv, LaneSafe

(* Whatever calls, exits and leftover lines race, a running child is in    *)
(* the runner's slot and on the record, no process is settled twice, a     *)
(* downloading record has its process, and only a Remove in flight claims  *)
(* the record (killProc, watch, finishProc, Remove).                       *)
THEOREM LaneStaysSafe == LaneSpec => []LaneSafe
<1>1. LaneInit => LaneInv
    BY LaneInitInv
<1>2. LaneInv /\ [LaneNext]_laneVars => LaneInv'
    BY LaneNextInv
<1>3. LaneInv => LaneSafe
    BY LaneInvSafe
<1> QED
    BY <1>1, <1>2, <1>3, PTL DEF LaneSpec

--------------------------------------------------------------------------------
(***************************************************************************)
(* Proofs about the maindata cache, for every set of torrent hashes, any   *)
(* duplicates, any attempt limit and any number of changes and failures:   *)
(* QbtSafe is an invariant of QbtSpec.                                     *)
(*                                                                         *)
(* NoDeltaMissed is not inductive.  It speaks of the cache between polls;  *)
(* what makes it true is what holds while a request is in flight.  A delta *)
(* is asked for only from a cache that mirrors the daemon's last reply     *)
(* (AskedSynced), a delta in hand leads from the cache to the newer reply  *)
(* (DeltaFits), and both stop to matter exactly when the epoch moved, in   *)
(* which case the next request is a full one (EpochForces).  The same is   *)
(* true of an owned hash that waits for its complete object (WaitForces).  *)
(***************************************************************************)

Keys == {"state", "id"}

(* A map from hashes to complete torrent objects.                          *)
TorrentMap(f) ==
    /\ f = [h \in DOMAIN f |-> f[h]]
    /\ DOMAIN f \subseteq QbtHashes
    /\ \A h \in DOMAIN f : f[h] \in TorrentFields

(* The record the cache is, with complete objects only.                    *)
CacheShape(c) ==
    /\ DOMAIN c = {"fields", "rejected", "pending", "owned", "forceFull"}
    /\ TorrentMap(c.fields)
    /\ c.rejected \subseteq QbtHashes
    /\ c.pending \subseteq QbtHashes
    /\ c.forceFull \in BOOLEAN

TrackShape ==
    /\ track \in [QbtHashes -> [st : {"none", "pending", "done", "dropped"}, tries : Nat]]
    /\ \A h \in QbtHashes : track[h].tries < MaxFlushAttempts

PollShape ==
    /\ DOMAIN syncPoll = {"pc", "set", "full", "reply", "gone", "batch"}
    /\ syncPoll.pc \in {"idle", "prepass", "plan", "request", "reply", "merge", "flush", "halt"}
    /\ syncPoll.full \in BOOLEAN
    /\ DOMAIN syncPoll.reply \subseteq QbtHashes
    /\ syncPoll.batch \subseteq QbtHashes

QbtShapes ==
    /\ TorrentMap(daemon) /\ TorrentMap(answered)
    /\ CacheShape(cache)
    /\ moved \in BOOLEAN
    /\ TrackShape
    /\ PollShape

(* The three collections are told apart and follow the stored snapshot.    *)
Classified(c) ==
    /\ DOMAIN c.fields \intersect (c.rejected \union c.pending) = {}
    /\ DOMAIN c.fields \union c.pending \subseteq c.owned

(* Every hash the cache knows of.                                          *)
Known(c) == DOMAIN c.fields \union c.rejected \union c.pending

(* The cached object of a hash agrees with the daemon's word on a key, but *)
(* for a state that was projected.                                         *)
Agrees(c, h, k) == (k = "state" /\ h \in projected) \/ c.fields[h][k] = answered[h][k]
Mirror(c) ==
    /\ DOMAIN answered = Known(c)
    /\ \A h \in DOMAIN c.fields : \A k \in Keys : Agrees(c, h, k)

(* A delta leads from the cache to the reply it was cut from: it names     *)
(* what is new, changed and gone, and whole objects for what is new.       *)
Leads(c, t, gone) ==
    /\ DOMAIN answered = (Known(c) \union DOMAIN t) \ gone
    /\ DOMAIN t \subseteq DOMAIN answered
    /\ \A h \in DOMAIN t : DOMAIN t[h] \subseteq Keys /\ \A k \in DOMAIN t[h] : t[h][k] = answered[h][k]
    /\ \A h \in DOMAIN t \ Known(c) : t[h] = answered[h]
    /\ \A h \in DOMAIN c.fields \ gone : \A k \in Keys :
         (h \in DOMAIN t /\ k \in DOMAIN t[h]) \/ Agrees(c, h, k)

Between == {"idle", "prepass", "plan", "flush", "halt"}
InHand == {"reply", "merge"}

(* Between polls a cache that needs no full reply mirrors the last one.    *)
RestsSynced == syncPoll.pc \in Between /\ ~cache.forceFull => Mirror(cache)
AskedSynced == syncPoll.pc = "request" /\ ~syncPoll.full /\ ~moved => Mirror(cache)
DeltaFits == syncPoll.pc \in InHand /\ ~syncPoll.full /\ ~moved
               => Leads(cache, syncPoll.reply, syncPoll.gone)
FullInHand == syncPoll.pc \in InHand /\ syncPoll.full => syncPoll.reply = answered
EpochForces == moved => cache.forceFull
WaitForces == cache.pending # {} => cache.forceFull

QbtInv ==
    /\ QbtShapes
    /\ Classified(cache)
    /\ RestsSynced /\ AskedSynced /\ DeltaFits /\ FullInHand
    /\ EpochForces /\ WaitForces
    /\ DuplicateStopped


--------------------------------------------------------------------------------
(* Objects and maps of objects.                                            *)

(* Two complete objects that agree on both keys are one.                   *)
LEMMA SameObject ==
  ASSUME NEW f \in TorrentFields, NEW g \in TorrentFields, \A k \in Keys : f[k] = g[k]
  PROVE  f = g
<1>1. f["state"] = g["state"] /\ f["id"] = g["id"]
  BY DEF Keys
<1> QED
  BY <1>1 DEF TorrentFields

(* A complete object has both keys.                                        *)
LEMMA ObjectKeys ==
  ASSUME NEW f \in TorrentFields
  PROVE  DOMAIN f = Keys
BY DEF TorrentFields, Keys

(* Dropping hashes leaves a map of complete objects (DropHashes).          *)
LEMMA DropMap ==
  ASSUME NEW f, NEW S, TorrentMap(f)
  PROVE  /\ TorrentMap(DropHashes(f, S))
         /\ DOMAIN DropHashes(f, S) = DOMAIN f \ S
         /\ \A h \in DOMAIN f \ S : DropHashes(f, S)[h] = f[h]
BY DEF TorrentMap, DropHashes

(* No torrents is a map of complete objects.                               *)
LEMMA NoMap ==
  TorrentMap(NoTorrents) /\ DOMAIN NoTorrents = {}
<1>1. DOMAIN <<>> = {} /\ <<>> = [h \in {} |-> <<>>[h]]
  OBVIOUS
<1> QED
  BY <1>1 DEF TorrentMap, NoTorrents

(* A patch of the daemon's keys over a complete object is complete, with   *)
(* the patch's word where it has one (the merge loop of mergePartial).     *)
LEMMA OverwriteObject ==
  ASSUME NEW t, NEW f \in TorrentFields, NEW a \in TorrentFields,
         DOMAIN t \subseteq Keys, \A k \in DOMAIN t : t[k] = a[k]
  PROVE  /\ Overwrite(t, f) \in TorrentFields
         /\ \A k \in Keys : Overwrite(t, f)[k] = IF k \in DOMAIN t THEN a[k] ELSE f[k]
<1> DEFINE o == Overwrite(t, f)
<1>1. DOMAIN f = Keys
  BY ObjectKeys
<1>2. o = [k \in Keys |-> IF k \in DOMAIN t THEN t[k] ELSE f[k]]
  BY <1>1 DEF Overwrite
<1>3. \A k \in Keys : o[k] = IF k \in DOMAIN t THEN a[k] ELSE f[k]
  BY <1>2
<1> HIDE DEF o
<1>4. /\ f["state"] \in {"run", "stop"} /\ f["id"] \in {0, 1}
      /\ a["state"] \in {"run", "stop"} /\ a["id"] \in {0, 1}
  BY DEF TorrentFields
<1>5. o["state"] \in {"run", "stop"} /\ o["id"] \in {0, 1}
  BY <1>3, <1>4 DEF Keys
<1>6. o = [state |-> o["state"], id |-> o["id"]]
  BY <1>2 DEF Keys
<1>7. o \in TorrentFields
  BY <1>5, <1>6 DEF TorrentFields
<1> QED
  BY <1>3, <1>7 DEF o

--------------------------------------------------------------------------------
(* The operators of the cache, for any cache record.                       *)

(* ownershipScan, against whatever snapshot is stored, keeps the known     *)
(* hashes, hides what is not owned and raises the flag for what became     *)
(* owned; it changes no object.                                            *)
LEMMA ScanClassifies ==
  ASSUME NEW c, CacheShape(c), DOMAIN c.fields \intersect (c.rejected \union c.pending) = {},
         c.pending # {} => c.forceFull
  PROVE  LET s == ownershipScan(c) IN
         /\ CacheShape(s) /\ Classified(s) /\ s.owned = c.owned
         /\ Known(s) = Known(c)
         /\ DOMAIN s.fields \subseteq DOMAIN c.fields
         /\ \A h \in DOMAIN s.fields : s.fields[h] = c.fields[h]
         /\ c.forceFull => s.forceFull
         /\ s.pending # {} => s.forceFull
<1> DEFINE lost == {h \in DOMAIN c.fields \union c.pending : h \notin c.owned}
           s == ownershipScan(c)
<1>1. /\ s.fields = DropHashes(c.fields, lost)
      /\ s.pending = (c.pending \ lost) \union Became(c)
      /\ s.rejected = (c.rejected \ Became(c)) \union lost
      /\ s.owned = c.owned
      /\ s.forceFull = (c.forceFull \/ Became(c) # {})
      /\ DOMAIN s = {"fields", "rejected", "pending", "owned", "forceFull"}
  BY DEF ownershipScan, CacheShape
<1> HIDE DEF s
<1>2. /\ TorrentMap(s.fields)
      /\ DOMAIN s.fields = DOMAIN c.fields \ lost
      /\ \A h \in DOMAIN s.fields : s.fields[h] = c.fields[h]
  <2>1. TorrentMap(c.fields)
    BY DEF CacheShape
  <2> HIDE DEF lost
  <2>2. /\ TorrentMap(DropHashes(c.fields, lost))
        /\ DOMAIN DropHashes(c.fields, lost) = DOMAIN c.fields \ lost
        /\ \A h \in DOMAIN c.fields \ lost : DropHashes(c.fields, lost)[h] = c.fields[h]
    BY <2>1, DropMap
  <2> QED
    BY <1>1, <2>2
<1>3. Became(c) \subseteq c.rejected /\ Became(c) \subseteq c.owned
  BY DEF Became
<1>4. lost \subseteq QbtHashes /\ Became(c) \subseteq QbtHashes
  BY <1>3 DEF CacheShape, TorrentMap
<1>5. CacheShape(s)
  BY <1>1, <1>2, <1>4 DEF CacheShape
<1>6. Classified(s)
  BY <1>1, <1>2, <1>3 DEF Classified
<1>7. Known(s) = Known(c)
  BY <1>1, <1>2, <1>3 DEF Known
<1>8. s.pending # {} => s.forceFull
  BY <1>1
<1> QED
  BY <1>1, <1>2, <1>5, <1>6, <1>7, <1>8 DEF s

(* mergeFull builds the cache from the reply alone and lowers the flag.    *)
LEMMA FullMerge ==
  ASSUME NEW c, NEW t, CacheShape(c), TorrentMap(t)
  PROVE  LET s == mergeFull(c, t) IN
         /\ CacheShape(s) /\ Classified(s)
         /\ Known(s) = DOMAIN t
         /\ \A h \in DOMAIN s.fields : s.fields[h] = t[h]
         /\ s.pending = {}
<1> DEFINE s == mergeFull(c, t)
<1>1. /\ s.fields = [h \in DOMAIN t \intersect c.owned |-> t[h]]
      /\ s.pending = {} /\ s.rejected = DOMAIN t \ c.owned
      /\ s.owned = c.owned /\ s.forceFull = FALSE
      /\ DOMAIN s = {"fields", "rejected", "pending", "owned", "forceFull"}
  BY DEF mergeFull, CacheShape
<1> HIDE DEF s
<1>2. TorrentMap(s.fields)
  BY <1>1 DEF TorrentMap
<1>3. CacheShape(s)
  BY <1>1, <1>2 DEF CacheShape, TorrentMap
<1>4. Classified(s) /\ Known(s) = DOMAIN t
  BY <1>1 DEF Classified, Known
<1> QED
  BY <1>1, <1>3, <1>4 DEF s

(* reclassify adds the foreign hashes of the reply and has the newly owned *)
(* ones wait; it changes no object.                                        *)
LEMMA ReplyReclassified ==
  ASSUME NEW c, NEW t, CacheShape(c), Classified(c), DOMAIN t \subseteq QbtHashes,
         c.pending # {} => c.forceFull
  PROVE  LET s == reclassify(c, t) IN
         /\ CacheShape(s) /\ Classified(s) /\ s.owned = c.owned
         /\ Known(s) = Known(c) \union (DOMAIN t \ c.owned)
         /\ s.fields = c.fields
         /\ DOMAIN t \intersect s.owned \intersect s.rejected = {}
         /\ \A h \in DOMAIN t \intersect s.owned : h \in Known(c) => h \in DOMAIN c.fields \union s.pending
         /\ c.forceFull => s.forceFull
         /\ s.pending # {} => s.forceFull
<1> DEFINE foreign == DOMAIN t \ c.owned
           became == DOMAIN t \intersect c.owned \intersect c.rejected
           s == reclassify(c, t)
<1>1. /\ s.fields = DropHashes(c.fields, foreign)
      /\ s.pending = (c.pending \ foreign) \union became
      /\ s.rejected = (c.rejected \ became) \union foreign
      /\ s.owned = c.owned
      /\ s.forceFull = (c.forceFull \/ became # {})
      /\ DOMAIN s = {"fields", "rejected", "pending", "owned", "forceFull"}
  BY DEF reclassify, CacheShape
<1> HIDE DEF s
<1>2. s.fields = c.fields
  <2>1. DOMAIN c.fields \ foreign = DOMAIN c.fields
    BY DEF Classified
  <2>2. c.fields = [h \in DOMAIN c.fields |-> c.fields[h]]
    BY DEF CacheShape, TorrentMap
  <2> QED
    BY <1>1, <2>1, <2>2 DEF DropHashes
<1>3. CacheShape(s)
  BY <1>1, <1>2 DEF CacheShape
<1>4. Classified(s)
  BY <1>1, <1>2 DEF Classified
<1>5. Known(s) = Known(c) \union foreign
  BY <1>1, <1>2 DEF Known
<1>6. DOMAIN t \intersect s.owned \intersect s.rejected = {}
  BY <1>1
<1>7. \A h \in DOMAIN t \intersect s.owned : h \in Known(c) => h \in DOMAIN c.fields \union s.pending
  BY <1>1 DEF Known
<1>8. s.pending # {} => s.forceFull
  BY <1>1
<1> QED
  BY <1>1, <1>2, <1>3, <1>4, <1>5, <1>6, <1>7, <1>8 DEF s


(* publish applies a delta that leads from the cache to the daemon's last  *)
(* reply: afterwards the cache mirrors that reply, with complete objects,  *)
(* and what the delta says of a state is no longer projected.              *)
LEMMA DeltaPublished ==
  ASSUME NEW c, NEW t, NEW gone, CacheShape(c), Classified(c), TorrentMap(answered),
         c.pending = {}, Leads(c, t, gone), DOMAIN t \ c.owned \subseteq Known(c),
         DOMAIN t \intersect c.owned \intersect c.rejected = {},
         \A h \in (DOMAIN t \intersect c.owned) \ DOMAIN c.fields : t[h] = answered[h]
  PROVE  LET s == publish(c, t, gone)
             said == {h \in DOMAIN t : "state" \in DOMAIN t[h]} \union gone IN
         /\ CacheShape(s) /\ Classified(s)
         /\ s.pending = {} /\ s.forceFull = c.forceFull
         /\ Known(s) = DOMAIN answered
         /\ \A h \in DOMAIN s.fields : \A k \in Keys :
              (k = "state" /\ h \in projected \ said) \/ s.fields[h][k] = answered[h][k]
<1> DEFINE mine == DOMAIN t \intersect c.owned
           merged == [h \in DOMAIN c.fields \union mine |->
                        IF h \notin mine THEN c.fields[h]
                        ELSE IF h \in DOMAIN c.fields THEN Overwrite(t[h], c.fields[h]) ELSE t[h]]
           said == {h \in DOMAIN t : "state" \in DOMAIN t[h]} \union gone
           s == publish(c, t, gone)
<1>1. /\ s.fields = DropHashes(merged, gone)
      /\ s.rejected = c.rejected \ gone /\ s.pending = c.pending \ gone
      /\ s.owned = c.owned /\ s.forceFull = c.forceFull
      /\ DOMAIN s = {"fields", "rejected", "pending", "owned", "forceFull"}
  BY DEF publish, CacheShape
<1> HIDE DEF s
<1>2. \A h \in DOMAIN c.fields : c.fields[h] \in TorrentFields
  BY DEF CacheShape, TorrentMap
<1>3. \A h \in DOMAIN answered : answered[h] \in TorrentFields
  BY DEF TorrentMap
<1>4. /\ DOMAIN answered = (Known(c) \union DOMAIN t) \ gone
      /\ DOMAIN t \subseteq DOMAIN answered
      /\ \A h \in DOMAIN t : DOMAIN t[h] \subseteq Keys /\ \A k \in DOMAIN t[h] : t[h][k] = answered[h][k]
  BY DEF Leads
<1>5. \A h \in DOMAIN c.fields \ gone : \A k \in Keys :
         \/ h \in DOMAIN t /\ k \in DOMAIN t[h]
         \/ k = "state" /\ h \in projected
         \/ c.fields[h][k] = answered[h][k]
  BY DEF Leads, Agrees
<1>6. ASSUME NEW h \in DOMAIN c.fields \union mine
      PROVE  /\ merged[h] \in TorrentFields
             /\ h \notin gone => \A k \in Keys :
                  (k = "state" /\ h \in projected \ said) \/ merged[h][k] = answered[h][k]
  <2>1. CASE h \notin mine
    <3>1. merged[h] = c.fields[h] /\ h \in DOMAIN c.fields
      BY <2>1
    <3>2. h \notin DOMAIN t
      BY <3>1, <2>1 DEF Classified
    <3>3. h \notin gone => h \notin said
      BY <3>2
    <3> QED
      BY <3>1, <3>2, <3>3, <1>2, <1>5
  <2>2. CASE h \in mine /\ h \in DOMAIN c.fields
    <3>1. merged[h] = Overwrite(t[h], c.fields[h])
      BY <2>2
    <3>2. /\ answered[h] \in TorrentFields /\ c.fields[h] \in TorrentFields
          /\ DOMAIN t[h] \subseteq Keys /\ \A k \in DOMAIN t[h] : t[h][k] = answered[h][k]
      BY <2>2, <1>2, <1>3, <1>4
    <3>3. /\ merged[h] \in TorrentFields
          /\ \A k \in Keys : merged[h][k] = IF k \in DOMAIN t[h] THEN answered[h][k] ELSE c.fields[h][k]
      BY <3>1, <3>2, OverwriteObject
    <3>4. ASSUME h \notin gone, NEW k \in Keys, merged[h][k] # answered[h][k]
          PROVE  k = "state" /\ h \in projected \ said
      <4>1. k \notin DOMAIN t[h] /\ c.fields[h][k] # answered[h][k]
        BY <3>3, <3>4
      <4>2. k = "state" /\ h \in projected
        BY <4>1, <1>5, <2>2, <3>4
      <4> QED
        BY <4>1, <4>2, <3>4
    <3> QED
      BY <3>3, <3>4
  <2>3. CASE h \in mine /\ h \notin DOMAIN c.fields
    <3>1. merged[h] = answered[h]
      BY <2>3
    <3>2. h \in DOMAIN answered
      BY <2>3, <1>4
    <3> QED
      BY <3>1, <3>2, <1>3
  <2> QED
    BY <2>1, <2>2, <2>3
<1>7. DOMAIN merged = DOMAIN c.fields \union mine /\ merged = [h \in DOMAIN merged |-> merged[h]]
  OBVIOUS
<1>8. TorrentMap(merged)
  <2>1. DOMAIN merged \subseteq QbtHashes
    BY <1>7, <1>4 DEF CacheShape, TorrentMap
  <2>2. \A h \in DOMAIN merged : merged[h] \in TorrentFields
    BY <1>6, <1>7
  <2> HIDE DEF merged
  <2> QED
    BY <1>7, <2>1, <2>2 DEF TorrentMap
<1>9. /\ DOMAIN s.fields = (DOMAIN c.fields \union mine) \ gone
      /\ \A h \in DOMAIN s.fields : s.fields[h] = merged[h]
      /\ TorrentMap(s.fields)
  <2> HIDE DEF merged, mine
  <2>1. /\ TorrentMap(DropHashes(merged, gone))
        /\ DOMAIN DropHashes(merged, gone) = DOMAIN merged \ gone
        /\ \A h \in DOMAIN merged \ gone : DropHashes(merged, gone)[h] = merged[h]
    BY <1>8, DropMap
  <2> QED
    BY <1>1, <1>7, <2>1
<1> HIDE DEF merged
<1>10. CacheShape(s)
  BY <1>1, <1>9 DEF CacheShape
<1>11. Classified(s)
  BY <1>1, <1>9 DEF Classified
<1>12. Known(s) = DOMAIN answered
  <2>1. Known(c) \union DOMAIN t = Known(c) \union mine
    OBVIOUS
  <2> QED
    BY <1>1, <1>4, <1>9, <2>1 DEF Known
<1>13. \A h \in DOMAIN s.fields : \A k \in Keys :
         (k = "state" /\ h \in projected \ said) \/ s.fields[h][k] = answered[h][k]
  BY <1>6, <1>9
<1> QED
  BY <1>1, <1>10, <1>11, <1>12, <1>13 DEF s


(* A cache that hides objects, or learns of hashes the delta names, is     *)
(* still led to the same reply.                                            *)
LEMMA LeadsStays ==
  ASSUME NEW c, NEW s, NEW t, NEW gone, NEW X, Leads(c, t, gone),
         X \subseteq DOMAIN t, Known(s) = Known(c) \union X,
         DOMAIN s.fields \subseteq DOMAIN c.fields,
         \A h \in DOMAIN s.fields : s.fields[h] = c.fields[h]
  PROVE  Leads(s, t, gone)
<1>1. /\ DOMAIN answered = (Known(s) \union DOMAIN t) \ gone
      /\ DOMAIN t \subseteq DOMAIN answered
      /\ \A h \in DOMAIN t : DOMAIN t[h] \subseteq Keys /\ \A k \in DOMAIN t[h] : t[h][k] = answered[h][k]
      /\ \A h \in DOMAIN t \ Known(s) : t[h] = answered[h]
  BY DEF Leads
<1>2. \A h \in DOMAIN s.fields \ gone : \A k \in Keys :
         (h \in DOMAIN t /\ k \in DOMAIN t[h]) \/ Agrees(s, h, k)
  BY DEF Leads, Agrees
<1> QED
  BY <1>1, <1>2 DEF Leads

(* A cache that hides objects still mirrors the last reply.                *)
LEMMA MirrorStays ==
  ASSUME NEW c, NEW s, Mirror(c), Known(s) = Known(c),
         DOMAIN s.fields \subseteq DOMAIN c.fields,
         \A h \in DOMAIN s.fields : s.fields[h] = c.fields[h]
  PROVE  Mirror(s)
BY DEF Mirror, Agrees

(* The partial branch of applyResponseInner, from any cache that the delta *)
(* leads to the reply: the scan, the reclassification and, if no owned     *)
(* hash waits, the published delta.                                        *)
LEMMA PartialMerge ==
  ASSUME NEW c, NEW t, NEW gone, CacheShape(c), TorrentMap(answered), DOMAIN t \subseteq QbtHashes,
         DOMAIN c.fields \intersect (c.rejected \union c.pending) = {},
         c.pending # {} => c.forceFull, Leads(c, t, gone)
  PROVE  LET r == reclassify(ownershipScan(c), t)
             s == publish(r, t, gone)
             said == {h \in DOMAIN t : "state" \in DOMAIN t[h]} \union gone IN
         /\ ~Publishable(r) => CacheShape(r) /\ Classified(r) /\ r.forceFull
         /\ Publishable(r) => /\ CacheShape(s) /\ Classified(s)
                              /\ s.pending = {} /\ (c.forceFull => s.forceFull)
                              /\ Known(s) = DOMAIN answered
                              /\ \A h \in DOMAIN s.fields : \A k \in Keys :
                                   (k = "state" /\ h \in projected \ said) \/ s.fields[h][k] = answered[h][k]
<1> DEFINE o == ownershipScan(c)
           r == reclassify(o, t)
           s == publish(r, t, gone)
           said == {h \in DOMAIN t : "state" \in DOMAIN t[h]} \union gone
<1>1. /\ CacheShape(o) /\ Classified(o) /\ o.owned = c.owned
      /\ Known(o) = Known(c)
      /\ DOMAIN o.fields \subseteq DOMAIN c.fields
      /\ \A h \in DOMAIN o.fields : o.fields[h] = c.fields[h]
      /\ c.forceFull => o.forceFull
      /\ o.pending # {} => o.forceFull
  BY ScanClassifies
<1>2. Leads(o, t, gone)
  <2> HIDE DEF o
  <2>1. Known(o) = Known(c) \union {}
    BY <1>1
  <2> QED
    BY <1>1, <2>1, LeadsStays
<1>3. /\ CacheShape(r) /\ Classified(r) /\ r.owned = o.owned
      /\ Known(r) = Known(o) \union (DOMAIN t \ o.owned)
      /\ r.fields = o.fields
      /\ DOMAIN t \intersect r.owned \intersect r.rejected = {}
      /\ \A h \in DOMAIN t \intersect r.owned : h \in Known(o) => h \in DOMAIN o.fields \union r.pending
      /\ o.forceFull => r.forceFull
      /\ r.pending # {} => r.forceFull
  <2> HIDE DEF o
  <2> QED
    BY <1>1, ReplyReclassified
<1> HIDE DEF o
<1>4. Leads(r, t, gone)
  <2> HIDE DEF r
  <2> DEFINE X == DOMAIN t \ o.owned
  <2>1. X \subseteq DOMAIN t /\ Known(r) = Known(o) \union X
    BY <1>3
  <2>2. DOMAIN r.fields \subseteq DOMAIN o.fields /\ \A h \in DOMAIN r.fields : r.fields[h] = o.fields[h]
    BY <1>3
  <2> HIDE DEF X
  <2> QED
    BY <1>2, <2>1, <2>2, LeadsStays
<1>5. ASSUME ~Publishable(r) PROVE CacheShape(r) /\ Classified(r) /\ r.forceFull
  <2> HIDE DEF r
  <2> QED
    BY <1>3, <1>5 DEF Publishable
<1>6. ASSUME Publishable(r)
      PROVE  /\ CacheShape(s) /\ Classified(s)
             /\ s.pending = {} /\ (c.forceFull => s.forceFull)
             /\ Known(s) = DOMAIN answered
             /\ \A h \in DOMAIN s.fields : \A k \in Keys :
                  (k = "state" /\ h \in projected \ said) \/ s.fields[h][k] = answered[h][k]
  <2> HIDE DEF r
  <2>1. r.pending = {}
    BY <1>3, <1>6 DEF Publishable, Classified
  <2>2. \A h \in (DOMAIN t \intersect r.owned) \ DOMAIN r.fields : t[h] = answered[h]
    BY <1>2, <1>3, <2>1 DEF Leads
  <2>3. DOMAIN t \ r.owned \subseteq Known(r)
    BY <1>3
  <2>4. CacheShape(r) /\ Classified(r) /\ DOMAIN t \intersect r.owned \intersect r.rejected = {}
    BY <1>3
  <2>5. /\ CacheShape(s) /\ Classified(s)
        /\ s.pending = {} /\ s.forceFull = r.forceFull
        /\ Known(s) = DOMAIN answered
        /\ \A h \in DOMAIN s.fields : \A k \in Keys :
             (k = "state" /\ h \in projected \ said) \/ s.fields[h][k] = answered[h][k]
    BY <1>4, <2>1, <2>2, <2>3, <2>4, DeltaPublished
  <2>6. c.forceFull => s.forceFull
    BY <1>1, <1>3, <2>5
  <2> HIDE DEF s, said
  <2> QED
    BY <2>5, <2>6
<1> QED
  BY <1>5, <1>6 DEF o


--------------------------------------------------------------------------------
(* The actions.                                                            *)

LEMMA QbtStarts ==
  QbtInit => QbtInv
<1> SUFFICES ASSUME QbtInit PROVE QbtInv
  OBVIOUS
<1>1. TorrentMap(NoTorrents) /\ DOMAIN NoTorrents = {}
  BY NoMap
<1>2. TorrentMap(daemon) /\ TorrentMap(answered)
  BY <1>1 DEF QbtInit
<1>3. /\ cache.fields = NoTorrents /\ cache.rejected = {} /\ cache.pending = {} /\ cache.forceFull = TRUE
      /\ DOMAIN cache = {"fields", "rejected", "pending", "owned", "forceFull"}
  BY DEF QbtInit
<1>4. CacheShape(cache)
  BY <1>1, <1>3 DEF CacheShape
<1>5. track \in [QbtHashes -> [st : {"none", "pending", "done", "dropped"}, tries : Nat]]
      /\ \A h \in QbtHashes : track[h].st = "none" /\ track[h].tries < MaxFlushAttempts
  BY QbtAssumption DEF QbtInit, NoTrack
<1>6. /\ syncPoll.pc = "idle" /\ syncPoll.full = FALSE /\ syncPoll.reply = NoTorrents /\ syncPoll.batch = {}
      /\ DOMAIN syncPoll = {"pc", "set", "full", "reply", "gone", "batch"}
  BY DEF QbtInit, IdleSync
<1>7. PollShape
  BY <1>1, <1>6 DEF PollShape
<1>8. Classified(cache)
  BY <1>1, <1>3 DEF Classified
<1>9. DuplicateStopped
  BY <1>5, QbtAssumption DEF DuplicateStopped
<1>10. moved = FALSE
  BY DEF QbtInit
<1> QED
  BY <1>2, <1>3, <1>4, <1>5, <1>6, <1>7, <1>8, <1>9, <1>10
  DEF QbtInv, QbtShapes, TrackShape, RestsSynced, AskedSynced, DeltaFits, FullInHand, InHand, EpochForces, WaitForces

(* Changes of the daemon and of the store reach the cache only in replies. *)
LEMMA OutsideKeepsInv ==
  ASSUME QbtInv, TorrentMap(daemon)',
         UNCHANGED <<answered, cache, moved, track, syncPoll, halted, projected>>
  PROVE  QbtInv'
<1>1. QbtShapes'
  BY DEF QbtInv, QbtShapes, TorrentMap, CacheShape, TrackShape, PollShape
<1>2. (Classified(cache) /\ RestsSynced /\ AskedSynced /\ DeltaFits /\ FullInHand)'
  BY DEF QbtInv, Classified, RestsSynced, AskedSynced, DeltaFits, FullInHand, Mirror, Leads, Agrees, Known
<1> QED
  BY <1>1, <1>2 DEF QbtInv, EpochForces, WaitForces, DuplicateStopped

LEMMA DaemonKeepsInv ==
  ASSUME QbtInv, DaemonChanges
  PROVE  QbtInv'
<1>1. TorrentMap(daemon)
  BY DEF QbtInv, QbtShapes
<1>2. PICK h \in QbtHashes :
         \/ /\ h \notin DOMAIN daemon
            /\ \E i \in {0, 1} : daemon' = [g \in DOMAIN daemon \union {h} |->
                                  IF g = h THEN [state |-> "run", id |-> i] ELSE daemon[g]]
         \/ /\ h \in DOMAIN daemon
            /\ \E f \in TorrentFields : daemon' = [daemon EXCEPT ![h] = f]
         \/ h \in DOMAIN daemon /\ daemon' = DropHashes(daemon, {h})
  BY DEF DaemonChanges
<1>3. TorrentMap(daemon)'
  <2>1. CASE \E i \in {0, 1} : daemon' = [g \in DOMAIN daemon \union {h} |->
                                  IF g = h THEN [state |-> "run", id |-> i] ELSE daemon[g]]
    <3>1. PICK i \in {0, 1} : daemon' = [g \in DOMAIN daemon \union {h} |->
                                  IF g = h THEN [state |-> "run", id |-> i] ELSE daemon[g]]
      BY <2>1
    <3>2. [state |-> "run", id |-> i] \in TorrentFields
      BY DEF TorrentFields
    <3> QED
      BY <1>1, <3>1, <3>2 DEF TorrentMap
  <2>2. CASE \E f \in TorrentFields : daemon' = [daemon EXCEPT ![h] = f]
    BY <1>1, <2>2 DEF TorrentMap
  <2>3. CASE daemon' = DropHashes(daemon, {h})
    BY <1>1, <2>3 DEF TorrentMap, DropHashes
  <2> QED
    BY <1>2, <2>1, <2>2, <2>3
<1> QED
  BY <1>3, OutsideKeepsInv DEF DaemonChanges

LEMMA StoreKeepsInv ==
  ASSUME QbtInv, StoreChanges
  PROVE  QbtInv'
<1>1. TorrentMap(daemon)'
  BY DEF StoreChanges, QbtInv, QbtShapes, TorrentMap
<1> QED
  BY <1>1, OutsideKeepsInv DEF StoreChanges

(* An idle poll has nothing in hand: what must hold then is that the cache *)
(* mirrors the last reply or asks for a full one.                          *)
LEMMA BackToIdle ==
  ASSUME QbtInv, syncPoll' = IdleSync, TorrentMap(answered)',
         (CacheShape(cache) /\ Classified(cache) /\ EpochForces /\ WaitForces)',
         (~cache.forceFull => Mirror(cache))',
         UNCHANGED <<daemon, moved, track, halted>>
  PROVE  QbtInv'
<1>1. /\ syncPoll'.pc = "idle" /\ syncPoll'.full = FALSE /\ syncPoll'.reply = NoTorrents /\ syncPoll'.batch = {}
      /\ DOMAIN syncPoll' = {"pc", "set", "full", "reply", "gone", "batch"}
  BY DEF IdleSync
<1>2. PollShape'
  BY <1>1, NoMap DEF PollShape
<1>3. QbtShapes'
  BY <1>2 DEF QbtInv, QbtShapes, TorrentMap, TrackShape
<1>4. (RestsSynced /\ AskedSynced /\ DeltaFits /\ FullInHand)'
  BY <1>1 DEF RestsSynced, AskedSynced, DeltaFits, FullInHand, InHand
<1> QED
  BY <1>3, <1>4 DEF QbtInv, DuplicateStopped

(* What is said of the cache alone holds of the same cache.                *)
LEMMA SameCache ==
  ASSUME QbtInv, UNCHANGED <<cache, answered>>
  PROVE  (TorrentMap(answered) /\ CacheShape(cache) /\ Classified(cache) /\ WaitForces)'
BY DEF QbtInv, QbtShapes, TorrentMap, CacheShape, Classified, WaitForces


(* The same cache, reply and projected states mirror as before.            *)
LEMMA SameMirror ==
  ASSUME Mirror(cache), UNCHANGED <<cache, answered, projected>>
  PROVE  Mirror(cache)'
BY DEF Mirror, Agrees, Known

LEMMA PrepassFetchKeepsInv ==
  ASSUME QbtInv, PrepassFetch
  PROVE  QbtInv'
<1>1. /\ syncPoll'.pc = "prepass" /\ syncPoll'.full = FALSE /\ syncPoll'.reply = NoTorrents /\ syncPoll'.batch = {}
      /\ DOMAIN syncPoll' = {"pc", "set", "full", "reply", "gone", "batch"}
  BY DEF PrepassFetch, IdleSync
<1>2. PollShape'
  BY <1>1, NoMap DEF PollShape
<1>3. moved' = FALSE
  BY DEF PrepassFetch
<1>4. QbtShapes' /\ Classified(cache)' /\ WaitForces'
  BY <1>2, <1>3, SameCache DEF PrepassFetch, QbtInv, QbtShapes, TorrentMap, TrackShape
<1>5. RestsSynced'
  <2>1. ~cache.forceFull => Mirror(cache)
    BY DEF PrepassFetch, QbtInv, RestsSynced, Between
  <2> QED
    BY <2>1, SameMirror DEF PrepassFetch, RestsSynced
<1> QED
  BY <1>1, <1>3, <1>4, <1>5
  DEF PrepassFetch, QbtInv, AskedSynced, DeltaFits, FullInHand, InHand, EpochForces, DuplicateStopped

(* The snapshot a pass stores, before the scan.                            *)
LEMMA SnapshotStored ==
  ASSUME QbtInv, NEW S
  PROVE  LET c == [cache EXCEPT !.owned = S] IN
         /\ CacheShape(c) /\ Known(c) = Known(cache)
         /\ c.fields = cache.fields /\ c.forceFull = cache.forceFull
         /\ DOMAIN c.fields \intersect (c.rejected \union c.pending) = {}
         /\ c.pending # {} => c.forceFull
<1> DEFINE c == [cache EXCEPT !.owned = S]
<1>1. /\ c.fields = cache.fields /\ c.rejected = cache.rejected /\ c.pending = cache.pending
      /\ c.forceFull = cache.forceFull
      /\ DOMAIN c = {"fields", "rejected", "pending", "owned", "forceFull"}
  BY DEF QbtInv, QbtShapes, CacheShape
<1> HIDE DEF c
<1>2. CacheShape(c)
  BY <1>1 DEF QbtInv, QbtShapes, CacheShape
<1>3. DOMAIN c.fields \intersect (c.rejected \union c.pending) = {} /\ (c.pending # {} => c.forceFull)
  BY <1>1 DEF QbtInv, Classified, WaitForces
<1> QED
  BY <1>1, <1>2, <1>3 DEF Known, c

(* A stored snapshot and its scan: what the prepass and an installed       *)
(* filter do to the cache.                                                 *)
LEMMA SnapshotScanned ==
  ASSUME QbtInv, NEW S
  PROVE  LET s == ownershipScan([cache EXCEPT !.owned = S]) IN
         /\ CacheShape(s) /\ Classified(s)
         /\ (Mirror(cache) => Mirror(s))
         /\ (cache.forceFull => s.forceFull)
         /\ (s.pending # {} => s.forceFull)
<1> DEFINE c == [cache EXCEPT !.owned = S]
           s == ownershipScan(c)
<1>1. /\ CacheShape(c) /\ Known(c) = Known(cache)
      /\ c.fields = cache.fields /\ c.forceFull = cache.forceFull
      /\ DOMAIN c.fields \intersect (c.rejected \union c.pending) = {}
      /\ c.pending # {} => c.forceFull
  BY SnapshotStored
<1> HIDE DEF c
<1>2. /\ CacheShape(s) /\ Classified(s)
      /\ Known(s) = Known(c)
      /\ DOMAIN s.fields \subseteq DOMAIN c.fields
      /\ \A h \in DOMAIN s.fields : s.fields[h] = c.fields[h]
      /\ c.forceFull => s.forceFull
      /\ s.pending # {} => s.forceFull
  BY <1>1, ScanClassifies
<1> HIDE DEF s
<1>3. Mirror(cache) => Mirror(s)
  BY <1>1, <1>2, MirrorStays
<1> QED
  BY <1>1, <1>2, <1>3 DEF s, c

LEMMA PrepassKeepsInv ==
  ASSUME QbtInv, ownershipPrepass
  PROVE  QbtInv'
<1>0. syncPoll.pc = "prepass" /\ UNCHANGED <<daemon, answered, moved, track, halted, projected>>
  BY DEF ownershipPrepass
<1>1. ~cache.forceFull => Mirror(cache)
  BY <1>0 DEF QbtInv, RestsSynced, Between
<1>2. CASE moved
  <2>1. syncPoll' = IdleSync /\ cache' = cache
    BY <1>2 DEF ownershipPrepass
  <2>2. (~cache.forceFull => Mirror(cache))'
    BY <1>0, <1>1, <2>1, SameMirror
  <2>3. EpochForces'
    BY <1>0, <2>1 DEF QbtInv, EpochForces
  <2> QED
    BY <1>0, <2>1, <2>2, <2>3, SameCache, BackToIdle
<1>3. CASE ~moved
  <2> DEFINE s == ownershipScan([cache EXCEPT !.owned = syncPoll.set])
  <2>1. cache' = s /\ syncPoll' = [syncPoll EXCEPT !.pc = "plan"]
    BY <1>3 DEF ownershipPrepass
  <2>2. /\ CacheShape(s) /\ Classified(s)
        /\ (Mirror(cache) => Mirror(s))
        /\ (cache.forceFull => s.forceFull)
        /\ (s.pending # {} => s.forceFull)
    BY SnapshotScanned
  <2> HIDE DEF s
  <2>3. CacheShape(cache)' /\ Classified(cache)' /\ WaitForces'
    BY <2>1, <2>2 DEF CacheShape, Classified, TorrentMap, WaitForces
  <2>4. /\ syncPoll'.pc = "plan" /\ syncPoll'.full = syncPoll.full
        /\ syncPoll'.reply = syncPoll.reply /\ syncPoll'.batch = syncPoll.batch
        /\ DOMAIN syncPoll' = {"pc", "set", "full", "reply", "gone", "batch"}
    BY <2>1 DEF QbtInv, QbtShapes, PollShape
  <2>5. PollShape'
    BY <2>4 DEF QbtInv, QbtShapes, PollShape
  <2>6. QbtShapes'
    BY <1>0, <2>3, <2>5 DEF QbtInv, QbtShapes, TorrentMap, TrackShape
  <2>7. RestsSynced'
    <3>1. ASSUME ~cache'.forceFull PROVE Mirror(cache)'
      <4>1. Mirror(s)
        BY <1>1, <2>1, <2>2, <3>1
      <4> QED
        BY <1>0, <2>1, <4>1 DEF Mirror, Agrees, Known
    <3> QED
      BY <3>1 DEF RestsSynced
  <2> QED
    BY <1>0, <1>3, <2>3, <2>4, <2>6, <2>7
    DEF QbtInv, AskedSynced, DeltaFits, FullInHand, InHand, EpochForces, DuplicateStopped
<1>4. moved \in BOOLEAN
  BY DEF QbtInv, QbtShapes
<1> QED
  BY <1>2, <1>3, <1>4

LEMMA PlanKeepsInv ==
  ASSUME QbtInv, requestPlan
  PROVE  QbtInv'
<1>0. syncPoll.pc = "plan" /\ UNCHANGED <<daemon, answered, cache, track, halted, projected>> /\ moved' = FALSE
  BY DEF requestPlan
<1>1. ~cache.forceFull => Mirror(cache)'
  <2>1. ~cache.forceFull => Mirror(cache)
    BY <1>0 DEF QbtInv, RestsSynced, Between
  <2> QED
    BY <1>0, <2>1, SameMirror
<1>2. /\ syncPoll'.pc = "request" /\ syncPoll'.full = cache.forceFull
      /\ syncPoll'.reply = syncPoll.reply /\ syncPoll'.batch = syncPoll.batch
      /\ DOMAIN syncPoll' = {"pc", "set", "full", "reply", "gone", "batch"}
  BY DEF requestPlan, QbtInv, QbtShapes, PollShape
<1>3. PollShape'
  BY <1>2 DEF QbtInv, QbtShapes, PollShape, CacheShape
<1>4. QbtShapes' /\ Classified(cache)' /\ WaitForces'
  BY <1>0, <1>3, SameCache DEF QbtInv, QbtShapes, TorrentMap, TrackShape
<1>5. AskedSynced'
  BY <1>1, <1>2 DEF AskedSynced
<1> QED
  BY <1>0, <1>2, <1>4, <1>5
  DEF QbtInv, RestsSynced, Between, DeltaFits, FullInHand, InHand, EpochForces, DuplicateStopped

(* The delta the daemon cuts leads from a mirror of its last reply to the  *)
(* reply it is cut from.                                                   *)
LEMMA DeltaLeads ==
  ASSUME Mirror(cache), TorrentMap(answered), TorrentMap(daemon),
         answered' = daemon, UNCHANGED <<cache, projected>>,
         NEW t, NEW gone, t = Delta, gone = DOMAIN answered \ DOMAIN daemon
  PROVE  /\ DOMAIN t \subseteq QbtHashes
         /\ DOMAIN answered' = (Known(cache') \union DOMAIN t) \ gone
         /\ DOMAIN t \subseteq DOMAIN answered'
         /\ \A h \in DOMAIN t : DOMAIN t[h] \subseteq Keys /\ \A k \in DOMAIN t[h] : t[h][k] = answered'[h][k]
         /\ \A h \in DOMAIN t \ Known(cache') : t[h] = answered'[h]
         /\ \A h \in DOMAIN cache'.fields \ gone : \A k \in Keys :
              \/ h \in DOMAIN t /\ k \in DOMAIN t[h]
              \/ k = "state" /\ h \in projected'
              \/ cache'.fields[h][k] = answered'[h][k]
<1>1. DOMAIN t = {g \in DOMAIN daemon : g \notin DOMAIN answered \/ daemon[g] # answered[g]}
  BY DEF Delta
<1>2. \A h \in DOMAIN t : t[h] = IF h \in DOMAIN answered THEN ChangedKeys(answered[h], daemon[h]) ELSE daemon[h]
  BY DEF Delta
<1>3. \A h \in DOMAIN daemon : daemon[h] \in TorrentFields /\ DOMAIN daemon[h] = Keys
  BY ObjectKeys DEF TorrentMap
<1>4. ASSUME NEW h \in DOMAIN t, h \in DOMAIN answered
      PROVE  /\ DOMAIN t[h] = {k \in Keys : answered[h][k] # daemon[h][k]}
             /\ \A k \in DOMAIN t[h] : t[h][k] = daemon[h][k]
  BY <1>1, <1>2, <1>3, <1>4 DEF ChangedKeys
<1>5. DOMAIN answered = Known(cache) /\ Known(cache') = Known(cache)
  BY DEF Mirror, Known
<1>6. DOMAIN t \subseteq DOMAIN daemon /\ DOMAIN daemon \subseteq QbtHashes
  BY <1>1 DEF TorrentMap
<1>7. DOMAIN daemon = (Known(cache) \union DOMAIN t) \ gone
  BY <1>1, <1>5
<1>8. \A h \in DOMAIN t : DOMAIN t[h] \subseteq Keys /\ \A k \in DOMAIN t[h] : t[h][k] = daemon[h][k]
  <2> SUFFICES ASSUME NEW h \in DOMAIN t
               PROVE  DOMAIN t[h] \subseteq Keys /\ \A k \in DOMAIN t[h] : t[h][k] = daemon[h][k]
    OBVIOUS
  <2>1. CASE h \in DOMAIN answered
    BY <1>4, <2>1
  <2>2. CASE h \notin DOMAIN answered
    <3>1. t[h] = daemon[h] /\ DOMAIN daemon[h] = Keys
      BY <1>2, <1>3, <1>6, <2>2
    <3> QED
      BY <3>1
  <2> QED
    BY <2>1, <2>2
<1>9. \A h \in DOMAIN t \ Known(cache) : t[h] = daemon[h]
  BY <1>2, <1>5
<1>10. ASSUME NEW h \in DOMAIN cache.fields \ gone, NEW k \in Keys,
              ~(h \in DOMAIN t /\ k \in DOMAIN t[h])
       PROVE  (k = "state" /\ h \in projected) \/ cache.fields[h][k] = daemon[h][k]
  <2>1. h \in DOMAIN answered /\ h \in DOMAIN daemon
    BY <1>5 DEF Known
  <2>2. answered[h][k] = daemon[h][k]
    <3>1. CASE h \notin DOMAIN t
      BY <1>1, <2>1, <3>1
    <3>2. CASE h \in DOMAIN t
      BY <1>4, <1>10, <2>1, <3>2
    <3> QED
      BY <3>1, <3>2
  <2> QED
    BY <2>1, <2>2 DEF Mirror, Agrees
<1> QED
  BY <1>5, <1>6, <1>7, <1>8, <1>9, <1>10


LEMMA AnsweredKeepsInv ==
  ASSUME QbtInv, PollAnswered
  PROVE  QbtInv'
<1>0. /\ syncPoll.pc = "request" /\ answered' = daemon
      /\ UNCHANGED <<daemon, cache, moved, track, halted, projected>>
  BY DEF PollAnswered, Answer
<1>1. TorrentMap(daemon) /\ TorrentMap(answered)
  BY DEF QbtInv, QbtShapes
<1>2. TorrentMap(answered)' /\ TorrentMap(daemon)'
  BY <1>0, <1>1 DEF TorrentMap
<1>3. CacheShape(cache)' /\ Classified(cache)' /\ WaitForces' /\ EpochForces' /\ DuplicateStopped'
  BY <1>0 DEF QbtInv, QbtShapes, CacheShape, TorrentMap, Classified, WaitForces, EpochForces, DuplicateStopped
<1>4. TrackShape' /\ moved' \in BOOLEAN
  BY <1>0 DEF QbtInv, QbtShapes, TrackShape
<1>5. CASE Answer(TRUE)
  <2>1. /\ syncPoll'.pc = "reply" /\ syncPoll'.full = TRUE
        /\ syncPoll'.reply = daemon /\ syncPoll'.batch = syncPoll.batch
        /\ DOMAIN syncPoll' = {"pc", "set", "full", "reply", "gone", "batch"}
    BY <1>5 DEF Answer, QbtInv, QbtShapes, PollShape
  <2>2. PollShape'
    BY <1>1, <2>1 DEF QbtInv, QbtShapes, PollShape, TorrentMap
  <2> QED
    BY <1>0, <1>2, <1>3, <1>4, <2>1, <2>2
    DEF QbtInv, QbtShapes, RestsSynced, Between, AskedSynced, DeltaFits, FullInHand
<1>6. CASE ~syncPoll.full /\ Answer(FALSE)
  <2>1. /\ syncPoll'.pc = "reply" /\ syncPoll'.full = FALSE
        /\ syncPoll'.reply = Delta /\ syncPoll'.batch = syncPoll.batch
        /\ syncPoll'.gone = DOMAIN answered \ DOMAIN daemon
        /\ DOMAIN syncPoll' = {"pc", "set", "full", "reply", "gone", "batch"}
    BY <1>6 DEF Answer, QbtInv, QbtShapes, PollShape
  <2>2. DOMAIN Delta \subseteq QbtHashes
    BY <1>1 DEF Delta, TorrentMap
  <2>3. PollShape'
    BY <2>1, <2>2 DEF QbtInv, QbtShapes, PollShape
  <2>4. DeltaFits'
    <3>1. ASSUME ~moved PROVE Leads(cache, syncPoll.reply, syncPoll.gone)'
      <4>1. Mirror(cache)
        BY <1>0, <1>6, <3>1 DEF QbtInv, AskedSynced
      <4> DEFINE t == syncPoll'.reply
                 gone == syncPoll'.gone
      <4>2. t = Delta /\ gone = DOMAIN answered \ DOMAIN daemon
        BY <2>1
      <4> HIDE DEF t, gone
      <4>3. /\ DOMAIN answered' = (Known(cache') \union DOMAIN t) \ gone
            /\ DOMAIN t \subseteq DOMAIN answered'
            /\ \A h \in DOMAIN t : DOMAIN t[h] \subseteq Keys /\ \A k \in DOMAIN t[h] : t[h][k] = answered'[h][k]
            /\ \A h \in DOMAIN t \ Known(cache') : t[h] = answered'[h]
            /\ \A h \in DOMAIN cache'.fields \ gone : \A k \in Keys :
                 \/ h \in DOMAIN t /\ k \in DOMAIN t[h]
                 \/ k = "state" /\ h \in projected'
                 \/ cache'.fields[h][k] = answered'[h][k]
        BY <1>0, <1>1, <4>1, <4>2, DeltaLeads
      <4> QED
        BY <4>3 DEF Leads, Agrees, t, gone
    <3> QED
      BY <1>0, <3>1 DEF DeltaFits
  <2> QED
    BY <1>0, <1>2, <1>3, <1>4, <2>1, <2>3, <2>4
    DEF QbtInv, QbtShapes, RestsSynced, Between, AskedSynced, FullInHand
<1> QED
  BY <1>5, <1>6 DEF PollAnswered

LEMMA FailsKeepsInv ==
  ASSUME QbtInv, PollFails
  PROVE  QbtInv'
<1>0. /\ answered' \in {answered, daemon} /\ syncPoll' = IdleSync
      /\ UNCHANGED <<daemon, moved, track, halted>>
  BY DEF PollFails
<1>1. /\ cache'.fields = cache.fields /\ cache'.rejected = cache.rejected /\ cache'.pending = cache.pending
      /\ cache'.owned = cache.owned /\ cache'.forceFull = TRUE
      /\ DOMAIN cache' = {"fields", "rejected", "pending", "owned", "forceFull"}
  BY DEF PollFails, forceFullFlag, QbtInv, QbtShapes, CacheShape
<1>2. TorrentMap(answered)'
  BY <1>0 DEF QbtInv, QbtShapes, TorrentMap
<1>3. (CacheShape(cache) /\ Classified(cache) /\ EpochForces /\ WaitForces)'
  BY <1>1 DEF QbtInv, QbtShapes, CacheShape, Classified, TorrentMap, EpochForces, WaitForces
<1> QED
  BY <1>0, <1>1, <1>2, <1>3, BackToIdle

LEMMA ApplyFetchKeepsInv ==
  ASSUME QbtInv, ApplyFetch
  PROVE  QbtInv'
<1>0. syncPoll.pc = "reply" /\ UNCHANGED <<daemon, answered, cache, moved, track, halted, projected>>
  BY DEF ApplyFetch
<1>1. CASE moved
  <2>1. syncPoll' = IdleSync
    BY <1>1 DEF ApplyFetch
  <2>2. cache'.forceFull /\ EpochForces'
    BY <1>0, <1>1 DEF QbtInv, EpochForces
  <2> QED
    BY <1>0, <2>1, <2>2, SameCache, BackToIdle
<1>2. CASE ~moved
  <2>1. /\ syncPoll'.pc = "merge" /\ syncPoll'.full = syncPoll.full
        /\ syncPoll'.reply = syncPoll.reply /\ syncPoll'.batch = syncPoll.batch /\ syncPoll'.gone = syncPoll.gone
        /\ DOMAIN syncPoll' = {"pc", "set", "full", "reply", "gone", "batch"}
    BY <1>2 DEF ApplyFetch, QbtInv, QbtShapes, PollShape
  <2>2. PollShape'
    BY <2>1 DEF QbtInv, QbtShapes, PollShape
  <2>3. QbtShapes' /\ Classified(cache)' /\ WaitForces'
    BY <1>0, <2>2, SameCache DEF QbtInv, QbtShapes, TorrentMap, TrackShape
  <2>4. DeltaFits' /\ FullInHand'
    BY <1>0, <2>1 DEF QbtInv, DeltaFits, FullInHand, InHand, Leads, Agrees, Known
  <2> QED
    BY <1>0, <2>1, <2>3, <2>4
    DEF QbtInv, RestsSynced, Between, AskedSynced, EpochForces, DuplicateStopped
<1>3. moved \in BOOLEAN
  BY DEF QbtInv, QbtShapes
<1> QED
  BY <1>1, <1>2, <1>3

(* The merged cache of a response that is not stale.                       *)
LEMMA MergedCache ==
  ASSUME QbtInv, syncPoll.pc = "merge", ~moved
  PROVE  LET m == Merged([cache EXCEPT !.owned = syncPoll.set])
             said == {h \in DOMAIN syncPoll.reply : "state" \in DOMAIN syncPoll.reply[h]} \union syncPoll.gone IN
         /\ m.ok \in BOOLEAN
         /\ CacheShape(m.c) /\ Classified(m.c)
         /\ m.c.pending # {} => m.c.forceFull
         /\ ~m.ok => m.c.forceFull
         /\ m.ok => DOMAIN answered = Known(m.c)
         /\ m.ok /\ syncPoll.full => \A h \in DOMAIN m.c.fields : m.c.fields[h] = answered[h]
         /\ m.ok /\ ~syncPoll.full => \A h \in DOMAIN m.c.fields : \A k \in Keys :
              (k = "state" /\ h \in projected \ said) \/ m.c.fields[h][k] = answered[h][k]
<1> DEFINE c == [cache EXCEPT !.owned = syncPoll.set]
           t == syncPoll.reply
           gone == syncPoll.gone
           said == {h \in DOMAIN t : "state" \in DOMAIN t[h]} \union gone
           m == Merged(c)
<1>1. /\ CacheShape(c) /\ Known(c) = Known(cache)
      /\ c.fields = cache.fields /\ c.forceFull = cache.forceFull
      /\ DOMAIN c.fields \intersect (c.rejected \union c.pending) = {}
      /\ c.pending # {} => c.forceFull
  BY SnapshotStored
<1> HIDE DEF c
<1>2. TorrentMap(answered) /\ DOMAIN t \subseteq QbtHashes
  BY DEF QbtInv, QbtShapes, PollShape
<1>3. CASE syncPoll.full
  <2>1. t = answered
    BY <1>3 DEF QbtInv, FullInHand, InHand
  <2> DEFINE s == mergeFull(c, t)
  <2>2. m = [ok |-> TRUE, c |-> s]
    BY <1>3 DEF Merged
  <2>3. /\ CacheShape(s) /\ Classified(s)
        /\ Known(s) = DOMAIN t
        /\ \A h \in DOMAIN s.fields : s.fields[h] = t[h]
        /\ s.pending = {}
    BY <1>1, <1>2, <2>1, FullMerge
  <2> HIDE DEF s, m
  <2>4. m.ok = TRUE /\ m.c = s
    BY <2>2
  <2> QED
    BY <1>3, <2>1, <2>3, <2>4 DEF m, c
<1>4. CASE ~syncPoll.full
  <2> DEFINE r == reclassify(ownershipScan(c), t)
             s == publish(r, t, gone)
  <2>1. Leads(cache, t, gone)
    BY <1>4 DEF QbtInv, DeltaFits, InHand
  <2>2. Leads(c, t, gone)
    <3> DEFINE X == {}
    <3>1. Known(c) = Known(cache) \union X /\ X \subseteq DOMAIN t
      BY <1>1
    <3>2. DOMAIN c.fields \subseteq DOMAIN cache.fields /\ \A h \in DOMAIN c.fields : c.fields[h] = cache.fields[h]
      BY <1>1
    <3> HIDE DEF t, gone, X
    <3> QED
      BY <2>1, <3>1, <3>2, LeadsStays
  <2>3. /\ ~Publishable(r) => CacheShape(r) /\ Classified(r) /\ r.forceFull
        /\ Publishable(r) => /\ CacheShape(s) /\ Classified(s)
                             /\ s.pending = {} /\ (c.forceFull => s.forceFull)
                             /\ Known(s) = DOMAIN answered
                             /\ \A h \in DOMAIN s.fields : \A k \in Keys :
                                  (k = "state" /\ h \in projected \ said) \/ s.fields[h][k] = answered[h][k]
    <3> HIDE DEF t, gone
    <3>1. DOMAIN t \subseteq QbtHashes
      BY <1>2
    <3> QED
      BY <1>1, <1>2, <2>2, <3>1, PartialMerge
  <2>4. m = IF Publishable(r) THEN [ok |-> TRUE, c |-> s] ELSE [ok |-> FALSE, c |-> r]
    BY <1>4 DEF Merged
  <2> HIDE DEF r, s, m, said
  <2>5. CASE Publishable(r)
    <3>1. m.ok = TRUE /\ m.c = s
      BY <2>4, <2>5
    <3>2. /\ CacheShape(m.c) /\ Classified(m.c) /\ m.c.pending = {}
          /\ DOMAIN answered = Known(m.c)
          /\ \A h \in DOMAIN m.c.fields : \A k \in Keys :
               (k = "state" /\ h \in projected \ said) \/ m.c.fields[h][k] = answered[h][k]
      BY <2>3, <2>5, <3>1
    <3>3. m.ok = TRUE
      BY <3>1
    <3> QED
      BY <1>4, <3>2, <3>3 DEF m, c, said
  <2>6. CASE ~Publishable(r)
    <3>1. m.ok = FALSE /\ m.c = r
      BY <2>4, <2>6
    <3> QED
      BY <1>4, <2>3, <2>6, <3>1 DEF m, c, said
  <2> QED
    BY <2>5, <2>6
<1>5. syncPoll.full \in BOOLEAN
  BY DEF QbtInv, QbtShapes, PollShape
<1> QED
  BY <1>3, <1>4, <1>5


LEMMA ResponseKeepsInv ==
  ASSUME QbtInv, applyResponse
  PROVE  QbtInv'
<1>0. syncPoll.pc = "merge" /\ UNCHANGED <<daemon, answered, moved, halted>>
  BY DEF applyResponse
<1>1. CASE moved
  <2>1. syncPoll' = IdleSync /\ UNCHANGED <<cache, track>>
    BY <1>1 DEF applyResponse
  <2>2. cache'.forceFull /\ EpochForces'
    BY <1>0, <1>1, <2>1 DEF QbtInv, EpochForces
  <2> QED
    BY <1>0, <2>1, <2>2, SameCache, BackToIdle
<1>2. CASE ~moved
  <2> DEFINE m == Merged([cache EXCEPT !.owned = syncPoll.set])
             said == {h \in DOMAIN syncPoll.reply : "state" \in DOMAIN syncPoll.reply[h]} \union syncPoll.gone
  <2>1. /\ cache' = m.c
        /\ track' = IF m.ok THEN noteInfohash(m.c) ELSE track
        /\ projected' = IF m.ok /\ syncPoll.full THEN {} ELSE IF m.ok THEN projected \ said ELSE projected
        /\ syncPoll' = IF m.ok THEN [IdleSync EXCEPT !.pc = "flush",
                                       !.batch = {h \in QbtHashes : track'[h].st = "pending"}]
                       ELSE IdleSync
    BY <1>2 DEF applyResponse
  <2>2. /\ m.ok \in BOOLEAN
        /\ CacheShape(m.c) /\ Classified(m.c)
        /\ m.c.pending # {} => m.c.forceFull
        /\ ~m.ok => m.c.forceFull
        /\ m.ok => DOMAIN answered = Known(m.c)
        /\ m.ok /\ syncPoll.full => \A h \in DOMAIN m.c.fields : m.c.fields[h] = answered[h]
        /\ m.ok /\ ~syncPoll.full => \A h \in DOMAIN m.c.fields : \A k \in Keys :
             (k = "state" /\ h \in projected \ said) \/ m.c.fields[h][k] = answered[h][k]
    BY <1>0, <1>2, MergedCache
  <2> HIDE DEF m, said
  <2>3. (TorrentMap(answered) /\ CacheShape(cache) /\ Classified(cache) /\ WaitForces /\ EpochForces)'
    BY <1>0, <1>2, <2>1, <2>2
    DEF QbtInv, QbtShapes, TorrentMap, CacheShape, Classified, WaitForces, EpochForces
  <2>4. CASE ~m.ok
    <3>1. syncPoll' = IdleSync /\ track' = track /\ cache'.forceFull
      BY <2>1, <2>2, <2>4
    <3> QED
      BY <1>0, <2>3, <3>1, BackToIdle
  <2>5. CASE m.ok
    <3>1. track' = noteInfohash(m.c)
      BY <2>1, <2>5
    <3>2. TrackShape' /\ DuplicateStopped'
      <4>1. \A h \in QbtHashes : track'[h] \in {NoTrack, [st |-> "pending", tries |-> 0], track[h]}
        BY <3>1 DEF noteInfohash
      <4>2. track' = [h \in QbtHashes |-> track'[h]]
        BY <3>1 DEF noteInfohash
      <4>3. \A h \in QbtHashes : track[h] \in [st : {"none", "pending", "done", "dropped"}, tries : Nat]
                                 /\ track[h].tries < MaxFlushAttempts
        BY DEF QbtInv, QbtShapes, TrackShape
      <4>4. \A h \in QbtHashes : /\ track'[h] \in [st : {"none", "pending", "done", "dropped"}, tries : Nat]
                                 /\ track'[h].tries < MaxFlushAttempts
                                 /\ track'[h].st = "done" => track[h].st = "done"
        BY <4>1, <4>3, QbtAssumption DEF NoTrack
      <4>5. TrackShape'
        BY <4>2, <4>4 DEF TrackShape
      <4> QED
        BY <1>0, <4>4, <4>5, QbtAssumption DEF QbtInv, DuplicateStopped
    <3>3. /\ syncPoll'.pc = "flush" /\ syncPoll'.full = FALSE /\ syncPoll'.reply = NoTorrents
          /\ syncPoll'.batch = {h \in QbtHashes : track'[h].st = "pending"}
          /\ DOMAIN syncPoll' = {"pc", "set", "full", "reply", "gone", "batch"}
      BY <2>1, <2>5 DEF IdleSync
    <3>4. PollShape'
      BY <3>3, NoMap DEF PollShape
    <3>5. QbtShapes'
      BY <1>0, <2>3, <3>2, <3>4 DEF QbtInv, QbtShapes, TorrentMap
    <3>6. Mirror(cache)'
      <4>1. DOMAIN answered' = Known(cache)'
        BY <1>0, <2>1, <2>2, <2>5 DEF Known
      <4>2. \A h \in DOMAIN cache'.fields : \A k \in Keys :
              (k = "state" /\ h \in projected') \/ cache'.fields[h][k] = answered'[h][k]
        <5>1. CASE syncPoll.full
          BY <1>0, <2>1, <2>2, <2>5, <5>1
        <5>2. CASE ~syncPoll.full
          BY <1>0, <2>1, <2>2, <2>5, <5>2
        <5>3. syncPoll.full \in BOOLEAN
          BY DEF QbtInv, QbtShapes, PollShape
        <5> QED
          BY <5>1, <5>2, <5>3
      <4> QED
        BY <4>1, <4>2 DEF Mirror, Agrees
    <3> QED
      BY <2>3, <3>2, <3>3, <3>5, <3>6
      DEF QbtInv, RestsSynced, AskedSynced, DeltaFits, FullInHand, InHand
  <2> QED
    BY <2>2, <2>4, <2>5
<1>3. moved \in BOOLEAN
  BY DEF QbtInv, QbtShapes
<1> QED
  BY <1>1, <1>2, <1>3

(* A landed write or a charged attempt keeps the bookkeeping in shape; it  *)
(* makes a hash done only by landing.                                      *)
LEMMA LandedTrack ==
  ASSUME QbtInv, NEW h \in QbtHashes, StopLanded(h)
  PROVE  TrackShape' /\ \A g \in QbtHashes : track'[g].st = "done" => track[g].st = "done" \/ g = h
<1>1. track' = [track EXCEPT ![h] = IF track[h].st = "pending" THEN [st |-> "done", tries |-> 0] ELSE track[h]]
  BY DEF StopLanded
<1>2. track \in [QbtHashes -> [st : {"none", "pending", "done", "dropped"}, tries : Nat]]
      /\ \A g \in QbtHashes : track[g].tries < MaxFlushAttempts
  BY DEF QbtInv, QbtShapes, TrackShape
<1>3. \A g \in QbtHashes : g # h => track'[g] = track[g]
  BY <1>1, <1>2
<1>4. track'[h] \in {track[h], [st |-> "done", tries |-> 0]}
  BY <1>1, <1>2
<1>5. track'[h] \in [st : {"none", "pending", "done", "dropped"}, tries : Nat] /\ track'[h].tries < MaxFlushAttempts
  BY <1>2, <1>4, QbtAssumption
<1>6. TrackShape'
  BY <1>1, <1>2, <1>3, <1>5 DEF TrackShape
<1> QED
  BY <1>3, <1>6

LEMMA ChargedTrack ==
  ASSUME QbtInv, NEW h \in QbtHashes, chargeFlushAttempt(h)
  PROVE  TrackShape' /\ \A g \in QbtHashes : track'[g].st = "done" => track[g].st = "done"
<1> DEFINE e == IF track[h].st # "pending" THEN track[h]
                ELSE IF track[h].tries + 1 < MaxFlushAttempts THEN [st |-> track[h].st, tries |-> track[h].tries + 1]
                ELSE [st |-> "dropped", tries |-> 0]
<1>1. track' = [track EXCEPT ![h] = e]
  BY DEF chargeFlushAttempt
<1>2. track \in [QbtHashes -> [st : {"none", "pending", "done", "dropped"}, tries : Nat]]
      /\ \A g \in QbtHashes : track[g].tries < MaxFlushAttempts
  BY DEF QbtInv, QbtShapes, TrackShape
<1>3. /\ e \in [st : {"none", "pending", "done", "dropped"}, tries : Nat]
      /\ e.tries < MaxFlushAttempts
      /\ e.st = "done" => track[h].st = "done"
  BY <1>2, QbtAssumption
<1> HIDE DEF e
<1>4. \A g \in QbtHashes : track'[g] = IF g = h THEN e ELSE track[g]
  BY <1>1, <1>2
<1>5. TrackShape'
  BY <1>1, <1>2, <1>3, <1>4 DEF TrackShape
<1> QED
  BY <1>3, <1>4, <1>5

(* A poll that stays among the states between two requests keeps the       *)
(* invariant with what the cache says of the last reply.                   *)
LEMMA StaysBetween ==
  ASSUME QbtInv, syncPoll.pc \in Between, PollShape', syncPoll'.pc \in Between,
         TorrentMap(daemon)', TrackShape', DuplicateStopped',
         (CacheShape(cache) /\ Classified(cache))',
         cache'.forceFull = cache.forceFull, cache'.pending = cache.pending,
         Mirror(cache) => Mirror(cache)', UNCHANGED <<answered, moved>>
  PROVE  QbtInv'
<1>1. QbtShapes'
  BY DEF QbtInv, QbtShapes, TorrentMap
<1>2. RestsSynced' /\ EpochForces' /\ WaitForces'
  BY DEF QbtInv, RestsSynced, EpochForces, WaitForces
<1>3. AskedSynced' /\ DeltaFits' /\ FullInHand'
  BY DEF AskedSynced, DeltaFits, FullInHand, InHand, Between
<1> QED
  BY <1>1, <1>2, <1>3 DEF QbtInv


LEMMA ResolveKeepsInv ==
  ASSUME QbtInv, NEW h \in QbtHashes, FlushResolve(h)
  PROVE  QbtInv'
<1>0. /\ syncPoll.pc = "flush" /\ syncPoll.pc \in Between
      /\ UNCHANGED <<daemon, answered, moved, halted>>
  BY DEF FlushResolve, Between
<1>1. TorrentMap(daemon)' /\ TorrentMap(answered)'
  BY <1>0 DEF QbtInv, QbtShapes, TorrentMap
<1>2. DuplicateStopped
  BY DEF QbtInv
<1>3. ASSUME syncPoll' = [syncPoll EXCEPT !.batch = @ \ {h}], UNCHANGED <<cache, projected>>,
             TrackShape', DuplicateStopped'
      PROVE  QbtInv'
  <2>1. /\ syncPoll'.pc = "flush" /\ syncPoll'.full = syncPoll.full
        /\ syncPoll'.reply = syncPoll.reply /\ syncPoll'.batch = syncPoll.batch \ {h}
        /\ DOMAIN syncPoll' = {"pc", "set", "full", "reply", "gone", "batch"}
    BY <1>0, <1>3 DEF QbtInv, QbtShapes, PollShape
  <2>2. PollShape' /\ syncPoll'.pc \in Between
    BY <2>1 DEF QbtInv, QbtShapes, PollShape, Between
  <2>3. (CacheShape(cache) /\ Classified(cache))' /\ (Mirror(cache) => Mirror(cache)')
    BY <1>0, <1>3, SameCache, SameMirror
  <2> QED
    BY <1>0, <1>1, <1>3, <2>2, <2>3, StaysBetween
<1>4. CASE /\ chargeFlushAttempt(h)
           /\ syncPoll' = [syncPoll EXCEPT !.batch = @ \ {h}]
           /\ UNCHANGED <<cache, projected>>
  <2>1. TrackShape' /\ DuplicateStopped'
    BY <1>0, <1>2, <1>4, ChargedTrack, QbtAssumption DEF DuplicateStopped
  <2> QED
    BY <1>3, <1>4, <2>1
<1>5. CASE /\ h \notin Duplicates /\ StopLanded(h)
           /\ syncPoll' = [syncPoll EXCEPT !.batch = @ \ {h}]
           /\ UNCHANGED <<cache, projected>>
  <2>1. TrackShape' /\ DuplicateStopped'
    BY <1>0, <1>2, <1>5, LandedTrack, QbtAssumption DEF DuplicateStopped
  <2> QED
    BY <1>3, <1>5, <2>1
<1>6. CASE /\ syncPoll' = [syncPoll EXCEPT !.pc = "halt", !.set = {h}]
           /\ cache' = IF h \in DOMAIN cache.fields THEN [cache EXCEPT !.fields[h].state = "stop"] ELSE cache
           /\ projected' = projected \union (DOMAIN cache.fields \intersect {h})
           /\ UNCHANGED track
  <2>1. /\ syncPoll'.pc = "halt" /\ syncPoll'.full = syncPoll.full
        /\ syncPoll'.reply = syncPoll.reply /\ syncPoll'.batch = syncPoll.batch
        /\ DOMAIN syncPoll' = {"pc", "set", "full", "reply", "gone", "batch"}
    BY <1>6 DEF QbtInv, QbtShapes, PollShape
  <2>2. PollShape' /\ syncPoll'.pc \in Between
    BY <2>1 DEF QbtInv, QbtShapes, PollShape, Between
  <2>3. TrackShape' /\ DuplicateStopped'
    BY <1>0, <1>6 DEF QbtInv, QbtShapes, TrackShape, DuplicateStopped
  <2>4. /\ cache'.rejected = cache.rejected /\ cache'.pending = cache.pending
        /\ cache'.owned = cache.owned /\ cache'.forceFull = cache.forceFull
        /\ DOMAIN cache' = {"fields", "rejected", "pending", "owned", "forceFull"}
    BY <1>6 DEF QbtInv, QbtShapes, CacheShape
  <2>5. /\ DOMAIN cache'.fields = DOMAIN cache.fields
        /\ cache'.fields = [g \in DOMAIN cache'.fields |-> cache'.fields[g]]
        /\ \A g \in DOMAIN cache.fields : g # h => cache'.fields[g] = cache.fields[g]
        /\ h \in DOMAIN cache.fields => cache'.fields[h] = [cache.fields[h] EXCEPT !.state = "stop"]
    BY <1>6 DEF QbtInv, QbtShapes, CacheShape, TorrentMap
  <2>6. ASSUME h \in DOMAIN cache.fields
        PROVE  cache'.fields[h] \in TorrentFields /\ cache'.fields[h]["id"] = cache.fields[h]["id"]
    <3>1. cache.fields[h] \in TorrentFields
      BY <2>6 DEF QbtInv, QbtShapes, CacheShape, TorrentMap
    <3> QED
      BY <2>5, <2>6, <3>1 DEF TorrentFields
  <2>7. TorrentMap(cache'.fields)
    BY <2>5, <2>6 DEF QbtInv, QbtShapes, CacheShape, TorrentMap
  <2>8. (CacheShape(cache) /\ Classified(cache))'
    BY <2>4, <2>5, <2>7 DEF QbtInv, QbtShapes, CacheShape, Classified, TorrentMap
  <2>9. ASSUME Mirror(cache) PROVE Mirror(cache)'
    <3>1. Known(cache)' = Known(cache)
      BY <2>4, <2>5 DEF Known
    <3>2. ASSUME NEW g \in DOMAIN cache.fields, NEW k \in Keys
          PROVE  Agrees(cache, g, k)'
      <4>1. Agrees(cache, g, k)
        BY <2>9 DEF Mirror
      <4>2. CASE g # h
        BY <1>0, <1>6, <2>5, <4>1, <4>2 DEF Agrees
      <4>3. CASE g = h /\ k = "id"
        BY <1>0, <2>6, <4>1, <4>3 DEF Agrees
      <4>4. CASE g = h /\ k = "state"
        BY <1>6, <4>4 DEF Agrees
      <4> QED
        BY <4>2, <4>3, <4>4 DEF Keys
    <3> QED
      BY <1>0, <2>5, <2>9, <3>1, <3>2 DEF Mirror
  <2> QED
    BY <1>0, <1>1, <2>2, <2>3, <2>4, <2>8, <2>9, StaysBetween
<1> QED
  BY <1>4, <1>5, <1>6 DEF FlushResolve

LEMMA HaltKeepsInv ==
  ASSUME QbtInv, NEW h \in QbtHashes, FlushHalt(h)
  PROVE  QbtInv'
<1>0. /\ syncPoll.pc = "halt" /\ syncPoll.pc \in Between
      /\ UNCHANGED <<answered, cache, moved, projected>>
      /\ syncPoll' = [syncPoll EXCEPT !.pc = "flush", !.set = {}, !.batch = @ \ {h}]
  BY DEF FlushHalt, Between
<1>1. /\ syncPoll'.pc = "flush" /\ syncPoll'.full = syncPoll.full
      /\ syncPoll'.reply = syncPoll.reply /\ syncPoll'.batch = syncPoll.batch \ {h}
      /\ DOMAIN syncPoll' = {"pc", "set", "full", "reply", "gone", "batch"}
  BY <1>0 DEF QbtInv, QbtShapes, PollShape
<1>2. PollShape' /\ syncPoll'.pc \in Between
  BY <1>1 DEF QbtInv, QbtShapes, PollShape, Between
<1>3. (CacheShape(cache) /\ Classified(cache))' /\ (Mirror(cache) => Mirror(cache)')
  BY <1>0, SameCache, SameMirror
<1>4. TorrentMap(daemon) /\ DuplicateStopped
  BY DEF QbtInv, QbtShapes
<1>5. TorrentMap(daemon)'
  <2>1. CASE h \in DOMAIN daemon /\ daemon' = [daemon EXCEPT ![h].state = "stop"]
    <3>1. [daemon[h] EXCEPT !.state = "stop"] \in TorrentFields
      BY <1>4, <2>1 DEF TorrentMap, TorrentFields
    <3> QED
      BY <1>4, <2>1, <3>1 DEF TorrentMap
  <2>2. CASE daemon' = daemon
    BY <1>4, <2>2 DEF TorrentMap
  <2> QED
    BY <2>1, <2>2 DEF FlushHalt
<1>6. TrackShape' /\ DuplicateStopped'
  <2>1. CASE halted' = halted \union {h} /\ StopLanded(h)
    BY <1>4, <2>1, LandedTrack, QbtAssumption DEF DuplicateStopped
  <2>2. CASE halted' = halted /\ chargeFlushAttempt(h)
    BY <1>4, <2>2, ChargedTrack, QbtAssumption DEF DuplicateStopped
  <2> QED
    BY <2>1, <2>2 DEF FlushHalt
<1> QED
  BY <1>0, <1>2, <1>3, <1>5, <1>6, StaysBetween

LEMMA FlushDoneKeepsInv ==
  ASSUME QbtInv, FlushDone
  PROVE  QbtInv'
<1>0. syncPoll.pc = "flush" /\ syncPoll' = IdleSync
      /\ UNCHANGED <<daemon, answered, cache, moved, track, halted, projected>>
  BY DEF FlushDone
<1>1. (~cache.forceFull => Mirror(cache))'
  <2>1. ~cache.forceFull => Mirror(cache)
    BY <1>0 DEF QbtInv, RestsSynced, Between
  <2> QED
    BY <1>0, <2>1, SameMirror
<1>2. EpochForces'
  BY <1>0 DEF QbtInv, EpochForces
<1> QED
  BY <1>0, <1>1, <1>2, SameCache, BackToIdle

LEMMA DueKeepsInv ==
  ASSUME QbtInv, dueFullSync
  PROVE  QbtInv'
<1>0. UNCHANGED <<daemon, answered, moved, track, syncPoll, halted, projected>>
  BY DEF dueFullSync
<1>1. /\ cache'.fields = cache.fields /\ cache'.rejected = cache.rejected /\ cache'.pending = cache.pending
      /\ cache'.owned = cache.owned /\ cache'.forceFull = TRUE
      /\ DOMAIN cache' = {"fields", "rejected", "pending", "owned", "forceFull"}
  BY DEF dueFullSync, QbtInv, QbtShapes, CacheShape
<1>2. QbtShapes' /\ Classified(cache)'
  <2>1. CacheShape(cache)' /\ Classified(cache)'
    BY <1>1 DEF QbtInv, QbtShapes, CacheShape, TorrentMap, Classified
  <2> QED
    BY <1>0, <2>1 DEF QbtInv, QbtShapes, TorrentMap, TrackShape, PollShape
<1>3. (Mirror(cache) => Mirror(cache)') /\ (Leads(cache, syncPoll.reply, syncPoll.gone) => Leads(cache, syncPoll.reply, syncPoll.gone)')
  BY <1>0, <1>1 DEF Mirror, Leads, Agrees, Known
<1>4. AskedSynced' /\ DeltaFits' /\ FullInHand'
  BY <1>0, <1>3 DEF QbtInv, AskedSynced, DeltaFits, FullInHand
<1> QED
  BY <1>0, <1>1, <1>2, <1>4 DEF QbtInv, RestsSynced, EpochForces, WaitForces, DuplicateStopped

LEMMA InstallKeepsInv ==
  ASSUME QbtInv, installOwnership
  PROVE  QbtInv'
<1>0. moved' = TRUE /\ UNCHANGED <<daemon, answered, track, syncPoll, halted, projected>>
  BY DEF installOwnership
<1> DEFINE s == ownershipScan([cache EXCEPT !.owned = store])
<1>1. cache' = [s EXCEPT !.forceFull = TRUE]
  BY DEF installOwnership
<1>2. CacheShape(s) /\ Classified(s)
  BY SnapshotScanned
<1> HIDE DEF s
<1>3. /\ cache'.fields = s.fields /\ cache'.rejected = s.rejected /\ cache'.pending = s.pending
      /\ cache'.owned = s.owned /\ cache'.forceFull = TRUE
      /\ DOMAIN cache' = {"fields", "rejected", "pending", "owned", "forceFull"}
  BY <1>1, <1>2 DEF CacheShape
<1>4. CacheShape(cache)' /\ Classified(cache)'
  BY <1>2, <1>3 DEF CacheShape, Classified, TorrentMap
<1>5. QbtShapes'
  BY <1>0, <1>4 DEF QbtInv, QbtShapes, TorrentMap, TrackShape, PollShape
<1> QED
  BY <1>0, <1>3, <1>4, <1>5
  DEF QbtInv, RestsSynced, AskedSynced, DeltaFits, FullInHand, EpochForces, WaitForces, DuplicateStopped

LEMMA QbtStutters ==
  ASSUME QbtInv, UNCHANGED qbtVars
  PROVE  QbtInv'
<1>1. TorrentMap(daemon)'
  BY DEF QbtInv, QbtShapes, TorrentMap, qbtVars
<1> QED
  BY <1>1, OutsideKeepsInv DEF qbtVars

(* The invariant says what QbtSafe says.                                   *)
LEMMA InvIsSafe ==
  QbtInv => QbtSafe
<1> SUFFICES ASSUME QbtInv PROVE QbtSafe
  OBVIOUS
<1>1. QbtTypeOK
  BY DEF QbtInv, QbtShapes, CacheShape, TorrentMap, TrackShape, PollShape, QbtTypeOK
<1>2. \A h \in DOMAIN cache.fields : cache.fields[h] \in TorrentFields /\ DOMAIN cache.fields[h] = Keys
  BY ObjectKeys DEF QbtInv, QbtShapes, CacheShape, TorrentMap
<1>3. ForeignHidden
  BY <1>2 DEF QbtInv, Classified, ForeignHidden, Keys
<1>4. NoDeltaMissed
  <2> SUFFICES ASSUME syncPoll.pc \in Between, ~cache.forceFull
               PROVE  /\ DOMAIN answered = DOMAIN cache.fields \union cache.rejected \union cache.pending
                      /\ \A h \in DOMAIN cache.fields \ projected : cache.fields[h] = answered[h]
    BY DEF NoDeltaMissed, Between
  <2>1. Mirror(cache)
    BY DEF QbtInv, RestsSynced
  <2>2. ASSUME NEW h \in DOMAIN cache.fields \ projected
        PROVE  cache.fields[h] = answered[h]
    <3>1. \A k \in Keys : cache.fields[h][k] = answered[h][k]
      BY <2>1 DEF Mirror, Agrees
    <3>2. h \in DOMAIN answered
      BY <2>1 DEF Mirror, Known
    <3>3. answered[h] \in TorrentFields
      BY <3>2 DEF QbtInv, QbtShapes, TorrentMap
    <3> QED
      BY <1>2, <3>1, <3>3, SameObject
  <2> QED
    BY <2>1, <2>2 DEF Mirror, Known
<1> QED
  BY <1>1, <1>3, <1>4 DEF QbtInv, QbtSafe

(* Through every interleaving of polls, failures, late replies, ownership  *)
(* changes, restarts of the filter and changes of the daemon the cache     *)
(* shows only owned, complete torrents, skips no delta over and settles a  *)
(* duplicate only after the daemon stopped it (poll, merge, ownershipScan, *)
(* flushInfohashes).                                                       *)
THEOREM CacheIsHonest == QbtSpec => []QbtSafe
<1>1. QbtInit => QbtInv
  BY QbtStarts
<1>2. QbtInv /\ [QbtNext]_qbtVars => QbtInv'
  <2> SUFFICES ASSUME QbtInv, [QbtNext]_qbtVars PROVE QbtInv'
    OBVIOUS
  <2>1. CASE PollStep
    BY <2>1, PrepassFetchKeepsInv, PrepassKeepsInv, PlanKeepsInv, AnsweredKeepsInv, ApplyFetchKeepsInv,
       ResponseKeepsInv, ResolveKeepsInv, HaltKeepsInv, FlushDoneKeepsInv DEF PollStep
  <2>2. CASE PollFails
    BY <2>2, FailsKeepsInv
  <2>3. CASE DaemonChanges
    BY <2>3, DaemonKeepsInv
  <2>4. CASE StoreChanges
    BY <2>4, StoreKeepsInv
  <2>5. CASE dueFullSync
    BY <2>5, DueKeepsInv
  <2>6. CASE installOwnership
    BY <2>6, InstallKeepsInv
  <2>7. CASE UNCHANGED qbtVars
    BY <2>7, QbtStutters
  <2> QED
    BY <2>1, <2>2, <2>3, <2>4, <2>5, <2>6, <2>7 DEF QbtNext
<1>3. QbtInv => QbtSafe
  BY InvIsSafe
<1> QED
  BY <1>1, <1>2, <1>3, PTL DEF QbtSpec
================================================================================
