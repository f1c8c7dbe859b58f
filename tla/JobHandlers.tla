------------------------------ MODULE JobHandlers ------------------------------
(***************************************************************************)
(* The extract, move and webhook handlers of internal/jobs, as a worker    *)
(* runs them on the job it claimed: one step per database access, per      *)
(* filesystem change and per call of an external program.                  *)
(*                                                                         *)
(* A handler ends in pc "ok" (nil: the worker completes the job) or "err"  *)
(* (the worker fails it).  A handler that moves its row into completed     *)
(* runs the chain first, in pc "chain".                                    *)
(***************************************************************************)
EXTENDS PostProcess

VARIABLE hand      \* what each worker runs

(* job and attempts are the claimed copy; st and path the handler's read   *)
(* of the task row.                                                        *)
IdleHand == [pc |-> "idle", job |-> <<"-", "-", 0>>, attempts |-> 0, st |-> "-", path |-> "none"]
TaskOf(w) == hand[w].job[2]

ExtractSteps == {"x.get", "x.claim", "x.start", "x.run", "x.done", "x.complete",
                 "x.failget", "x.fail"}
MoveSteps == {"m.get", "m.claim", "m.decide", "m.dup", "m.rename", "m.copy", "m.deliver",
              "m.unlink", "m.path", "m.settle", "m.pause", "m.failget", "m.fail"}
WebhookSteps == {"w.send"}
HandSteps == ExtractSteps \union MoveSteps \union WebhookSteps
               \union {"idle", "chain", "ok", "err"}

HandlerTypeOK ==
    hand \in [Workers -> [pc : HandSteps, job : JobKeys \union {IdleHand.job},
                             attempts : 0 .. AttemptBound,
                             st : RowStates \union {"-"}, path : Places]]

HandlerInit == hand = [w \in Workers |-> IdleHand]

On(w, pc) == hand[w].pc = pc
Go(w, pc) == hand' = [hand EXCEPT ![w].pc = pc]

(* The two common frames: a step that reads, and one that writes the row.  *)
Reads == UNCHANGED shared
WritesRow == UNCHANGED <<setup, jobs, disk, finished, phase, mishaps, stopped>>

(* Transition(taskID, next): moves the row and goes to yes, or no.         *)
CanGo(t, next) == row[t].st # "gone" /\ transitionLegal(row[t].st, next)
TransitionElse(w, next, yes, no) ==
    LET t == TaskOf(w) IN
    /\ IF CanGo(t, next)
       THEN row' = [row EXCEPT ![t].st = next] /\ Go(w, yes)
       ELSE row' = row /\ Go(w, no)
    /\ UNCHANGED chain
    /\ WritesRow

(* The same into completed: the caller then runs the chain.                *)
CompleteElse(w, no) ==
    LET t == TaskOf(w) IN
    /\ IF CanGo(t, "completed")
       THEN row' = [row EXCEPT ![t].st = "completed"] /\ Go(w, "chain") /\ StartChain(w, t)
       ELSE row' = row /\ Go(w, no) /\ UNCHANGED chain
    /\ WritesRow

(* fail of both handlers: re-read the row, and record the verdict only if  *)
(* the handler's own state still holds it.                                 *)
FailGet(w, from, to, own) ==
    /\ On(w, from)
    /\ Go(w, IF row[TaskOf(w)].st = own THEN to ELSE "ok")
    /\ Reads

(* SetErrorCode and the transition; an illegal edge is already settled, a  *)
(* row that has gone is an error of the handler.                           *)
FailRecord(w, at) ==
    /\ On(w, at)
    /\ TransitionElse(w, "error", "ok", IF row[TaskOf(w)].st = "gone" THEN "err" ELSE "ok")

(* A handler waits for the chain it started.                               *)
ChainReturns(w) ==
    /\ On(w, "chain")
    /\ chain[w].pc = "idle"
    /\ Go(w, "ok")
    /\ Reads

--------------------------------------------------------------------------------
(* The extract handler.                                                    *)

ExtractGet(w) ==
    /\ On(w, "x.get")
    /\ Go(w, CASE row[TaskOf(w)].st = "completed" -> "x.claim"
               [] row[TaskOf(w)].st = "extracting" -> "x.start"
               [] OTHER -> "ok")
    /\ Reads

ExtractClaim(w) == On(w, "x.claim") /\ TransitionElse(w, "extracting", "x.start", "err")

(* SetExtractProgress writes nothing, and errs, unless the row still is    *)
(* extracting.                                                             *)
SetExtractProgress(w, next) == Go(w, IF row[TaskOf(w)].st = "extracting" THEN next ELSE "err")

ExtractStart(w) == On(w, "x.start") /\ SetExtractProgress(w, "x.run") /\ Reads

(* The archive is read at the row's content path.  It is listed, validated *)
(* and extracted into a staging directory, verified, and renamed into      *)
(* place; a directory in the way that agrees in names, kinds and sizes is  *)
(* taken for the handler's own earlier output, any other is a failure.  A  *)
(* missing archive, a wrong password, an invalid member, a cap or a full   *)
(* disk is a verdict.  The progress poll also cancels the run, as a        *)
(* failure, when the row has left extracting.                              *)
verifyAndMove(w) ==
    LET t == TaskOf(w) IN
    IF disk[t].tree = "other" THEN Go(w, "x.failget") /\ UNCHANGED disk
    ELSE /\ disk' = [disk EXCEPT ![t].tree = IF @ = "none" THEN "own" ELSE @]
         /\ Go(w, "x.done")

(* A file that is only alike is not an archive.                            *)
ArchiveThere(t) == CASE row[t].path = "src" -> disk[t].src # "absent"
                     [] row[t].path = "dst" -> disk[t].dst = "payload"
                     [] OTHER -> FALSE

ExtractRun(w) ==
    /\ On(w, "x.run")
    /\ \/ ArchiveThere(TaskOf(w)) /\ verifyAndMove(w)
       \/ Go(w, "x.failget") /\ UNCHANGED disk
    /\ UNCHANGED <<setup, row, jobs, chain, finished, phase, mishaps, stopped>>

(* The pool is shutting down: no verdict, the row stays extracting.        *)
(* Mutant: the interrupted run is reported as success.                     *)
ExtractInterruptedOk(w) ==
    /\ On(w, "x.run")
    /\ phase = "stopping"
    /\ Go(w, "ok")
    /\ Reads
ExtractInterrupted(w) ==
    /\ On(w, "x.run")
    /\ phase = "stopping"
    /\ Go(w, "err")
    /\ Reads

ExtractDone(w) == On(w, "x.done") /\ SetExtractProgress(w, "x.complete") /\ Reads
ExtractComplete(w) == On(w, "x.complete") /\ CompleteElse(w, "err")

ExtractHandle(w) ==
    \/ ExtractGet(w) \/ ExtractClaim(w) \/ ExtractStart(w) \/ ExtractRun(w)
    \/ ExtractInterrupted(w) \/ ExtractDone(w) \/ ExtractComplete(w)
    \/ FailGet(w, "x.failget", "x.fail", "extracting") \/ FailRecord(w, "x.fail")

--------------------------------------------------------------------------------
(* The move handler.  Its payload, from src to dst, is fixed at enqueue.   *)

SrcThere(t) == disk[t].src # "absent"
DstThere(t) == disk[t].dst # "absent"

MoveGet(w) ==
    LET t == TaskOf(w) IN
    /\ On(w, "m.get")
    /\ hand' = [hand EXCEPT ![w].st = row[t].st, ![w].path = row[t].path,
         ![w].pc = IF row[t].st \notin {"completed", "moving", "seeding"} THEN "ok"
                   ELSE IF ~SrcThere(t) /\ DstThere(t) THEN "m.path"
                   ELSE CASE row[t].st = "seeding" -> "ok"
                          [] row[t].st = "moving" -> "m.decide"
                          [] row[t].st = "completed" -> "m.claim"]
    /\ Reads

MoveClaim(w) ==
    LET t == TaskOf(w) IN
    /\ On(w, "m.claim")
    /\ IF CanGo(t, "moving")
       THEN /\ row' = [row EXCEPT ![t].st = "moving"]
            /\ hand' = [hand EXCEPT ![w].pc = "m.decide", ![w].st = "moving"]
       ELSE row' = row /\ Go(w, "ok")
    /\ UNCHANGED chain
    /\ WritesRow

(* Both sides present is the crash window between delivery and removal,    *)
(* or a name that was taken.  The comparison does not read the bytes.      *)
samePayload(t) == disk[t].src = "payload" /\ disk[t].dst \in {"payload", "alike"}

(* The space check gates only the copy across filesystems.                 *)
MoveDecide(w) ==
    LET t == TaskOf(w) both == SrcThere(t) /\ DstThere(t) IN
    /\ On(w, "m.decide")
    /\ \/ both /\ Go(w, IF samePayload(t) THEN "m.dup" ELSE "m.failget")
       \/ ~both /\ setup[t].sameFs /\ Go(w, "m.rename")
       \/ ~both /\ ~setup[t].sameFs /\ Go(w, IF SrcThere(t) THEN "m.copy" ELSE "m.failget")
       \/ ~both /\ ~setup[t].sameFs /\ SrcThere(t) /\ Go(w, "m.pause")
    /\ Reads

(* fsx.Move.  A rename is one step; the copy across filesystems is staged, *)
(* verified, delivered by a rename, and only then is the source removed.   *)
(* Any failure up to the delivery leaves the source untouched.             *)
MoveDisk(w, d, pc) ==
    /\ disk' = [disk EXCEPT ![TaskOf(w)] = d]
    /\ Go(w, pc)
    /\ UNCHANGED <<setup, row, jobs, chain, finished, phase, mishaps, stopped>>

MoveRename(w) ==
    LET d == disk[TaskOf(w)] IN
    /\ On(w, "m.rename")
    /\ \/ d.src = "payload" /\ MoveDisk(w, [d EXCEPT !.src = "absent", !.dst = "payload"], "m.path")
       \/ MoveDisk(w, d, "m.failget")

(* Mutant: the source goes as soon as the copy is staged.                  *)
CopyThenRemove(w) ==
    LET d == disk[TaskOf(w)] IN
    /\ On(w, "m.copy")
    /\ \/ MoveDisk(w, [d EXCEPT !.stage = "full", !.src = "absent"], "m.deliver")
       \/ \E pc \in {"m.pause", "m.failget"} : MoveDisk(w, [d EXCEPT !.stage = "none"], pc)
       \/ phase = "stopping" /\ MoveDisk(w, [d EXCEPT !.stage = "none"], "err")
MoveCopy(w) ==
    LET d == disk[TaskOf(w)] IN
    /\ On(w, "m.copy")
    /\ \/ MoveDisk(w, [d EXCEPT !.stage = "full"], "m.deliver")
       \/ \E pc \in {"m.pause", "m.failget"} : MoveDisk(w, [d EXCEPT !.stage = "none"], pc)
       \/ phase = "stopping" /\ MoveDisk(w, [d EXCEPT !.stage = "none"], "err")

(* A failed fsync of the destination directory discards the delivery.      *)
MoveDeliver(w) ==
    LET d == disk[TaskOf(w)] IN
    /\ On(w, "m.deliver")
    /\ \/ MoveDisk(w, [d EXCEPT !.stage = "none", !.dst = "payload"], "m.unlink")
       \/ \E pc \in {"m.pause", "m.failget"} : MoveDisk(w, [d EXCEPT !.stage = "none"], pc)

(* RemoveAll(src): entry by entry, so that a crash or an error may leave a *)
(* part of a tree.                                                         *)
RemoveAll(w, pc) ==
    LET d == disk[TaskOf(w)] IN
    \/ d.src = "payload" /\ MoveDisk(w, [d EXCEPT !.src = "part"], pc)
    \/ MoveDisk(w, [d EXCEPT !.src = "absent"], "m.path")

(* An error here is a verdict, and one of a duplicate's removal is not.    *)
MoveUnlink(w) ==
    /\ On(w, "m.unlink")
    /\ \/ RemoveAll(w, "m.unlink")
       \/ MoveDisk(w, disk[TaskOf(w)], "m.failget")

MoveDuplicate(w) == On(w, "m.dup") /\ RemoveAll(w, "m.dup")

(* settle: the path first, wherever the row stands, then the walk back,    *)
(* which a row that left moving refuses.                                   *)
SettlePath(w) ==
    LET t == TaskOf(w) IN
    /\ On(w, "m.path")
    /\ row' = IF hand[w].path # "dst" /\ row[t].st # "gone"
              THEN [row EXCEPT ![t].path = "dst"] ELSE row
    /\ Go(w, IF hand[w].st = "moving" THEN "m.settle" ELSE "ok")
    /\ UNCHANGED chain
    /\ WritesRow

SettleComplete(w) == On(w, "m.settle") /\ CompleteElse(w, "ok")

pauseDiskFull(w) ==
    LET t == TaskOf(w) IN
    /\ On(w, "m.pause")
    /\ row' = IF row[t].st = "moving" THEN [row EXCEPT ![t].st = "paused"] ELSE row
    /\ Go(w, "ok")
    /\ UNCHANGED chain
    /\ WritesRow

MoveHandle(w) ==
    \/ MoveGet(w) \/ MoveClaim(w) \/ MoveDecide(w) \/ MoveDuplicate(w) \/ MoveRename(w)
    \/ MoveCopy(w) \/ MoveDeliver(w) \/ MoveUnlink(w) \/ SettlePath(w)
    \/ SettleComplete(w) \/ pauseDiskFull(w)
    \/ FailGet(w, "m.failget", "m.fail", "moving") \/ FailRecord(w, "m.fail")

--------------------------------------------------------------------------------
(* The webhook handler: a channel that is gone or disabled ends the        *)
(* delivery, an answer other than 2xx is retried.                          *)
WebhookHandle(w) ==
    /\ On(w, "w.send")
    /\ \E outcome \in {"ok", "err"} : Go(w, outcome)
    /\ Reads

(* Any database access of a handler may fail, and so may the comparison of *)
(* the two places of a payload and the removal of a duplicate.             *)
HandlerError(w) ==
    /\ hand[w].pc \in {"x.get", "x.claim", "x.start", "x.done", "x.complete", "x.failget",
                       "x.fail", "m.get", "m.claim", "m.decide", "m.dup", "m.path",
                       "m.settle", "m.pause", "m.failget", "m.fail"}
    /\ mishaps > 0
    /\ mishaps' = mishaps - 1
    /\ Go(w, "err")
    /\ UNCHANGED <<setup, row, jobs, disk, chain, finished, phase, stopped>>
================================================================================
