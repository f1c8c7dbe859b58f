------------------------------- MODULE JobProofs -------------------------------
(***************************************************************************)
(* Proofs about the worker pool, its handlers and the post-processing      *)
(* chain, for every set of tasks and workers, every mix of settings, every *)
(* retry ladder and any number of failures, crashes and shutdowns:         *)
(* JobsSafe and PayloadSafe are invariants of Spec.                        *)
(*                                                                         *)
(* Neither is inductive.  Both rest on who may act: a job row that is run  *)
(* has one runner and stays running until it ends, unless its task has     *)
(* gone (Owned).  From that follows what a handler knows between its       *)
(* steps, the state of the row (Walking) and of the files (Filed), and     *)
(* what has to have happened before the chain gets to its tail (Ordered).  *)
(* That a move notifies once is counted: a finished download is worth one  *)
(* notification, which is still with the chain that saw it finish, or with *)
(* the move, or has been sent (Counted).                                   *)
(***************************************************************************)
EXTENDS WorkerPool, FiniteSetTheorems, TLAPS

Typed == setup \in [Tasks -> Setups] /\ TypeOK

Kind(w) == hand[w].job[1]
Busy(w) == hand[w].pc # "idle"
Extracts(w, t) == Busy(w) /\ hand[w].job = ExtractJob(t)
Moves(w, t) == Busy(w) /\ hand[w].job = MoveJob(t)
Passing(a, t) == chain[a].pc # "idle" /\ chain[a].task = t

--------------------------------------------------------------------------------
(* Owned: who runs what.                                                   *)

(* A handler's steps are those of the kind of its job.                     *)
KindsFit ==
    \A w \in Workers : Busy(w) =>
        /\ hand[w].job \in JobKeys
        /\ hand[w].pc \in ExtractSteps => \E t \in Tasks : hand[w].job = ExtractJob(t)
        /\ hand[w].pc \in MoveSteps => \E t \in Tasks : hand[w].job = MoveJob(t)
        /\ hand[w].pc = "chain" => \E t \in Tasks : hand[w].job \in {ExtractJob(t), MoveJob(t)}
        /\ hand[w].pc = "w.send" => \A t \in Tasks : hand[w].job \notin {ExtractJob(t), MoveJob(t)}
(* A worker's pass is over the task of its job; the handler waits for it.  *)
ChainsOwned ==
    \A a \in Actors : chain[a].pc # "idle" =>
        /\ chain[a].task \in Tasks
        /\ a # "sweep" => hand[a].pc = "chain" /\ hand[a].job \in {ExtractJob(chain[a].task), MoveJob(chain[a].task)}
RunnersApart == \A v, w \in Workers : Busy(v) /\ Busy(w) /\ hand[v].job = hand[w].job => v = w
TaskGone(j) == \E t \in Tasks : j \in {ExtractJob(t), MoveJob(t)} /\ row[t].st = "gone"
RunningRows ==
    \A w \in Workers : Busy(w) =>
        \/ jobs[hand[w].job] = [st |-> "running", attempts |-> hand[w].attempts]
        \/ TaskGone(hand[w].job)
GoneNoJobs == \A t \in Tasks : row[t].st = "gone" => jobs[ExtractJob(t)] = NoJob /\ jobs[MoveJob(t)] = NoJob
(* Before the pool starts nothing runs; before the first stop nothing is   *)
(* stranded.                                                               *)
BootIdle ==
    /\ phase = "boot" => \A w \in Workers : ~Busy(w)
    /\ phase = "boot" /\ ~stopped => \A j \in JobKeys : jobs[j].st # "running"
    /\ phase = "stopping" => stopped
(* The webhook rows of a task are numbered without a gap.                  *)
NotesInRow == \A t \in Tasks : \E k \in 0 .. MaxNotes : Notes(t) = 1 .. k
Owned == KindsFit /\ ChainsOwned /\ RunnersApart /\ RunningRows /\ GoneNoJobs /\ BootIdle /\ NotesInRow

--------------------------------------------------------------------------------
(* Walking: a handler that is about to end well has left no row in its     *)
(* state.                                                                  *)
Left ==
    \A w \in Workers, t \in Tasks :
        /\ Extracts(w, t) /\ hand[w].pc \in {"chain", "ok"} => row[t].st # "extracting"
        /\ Moves(w, t) /\ \/ hand[w].pc \in {"m.claim", "chain", "ok"}
                          \/ hand[w].pc = "m.path" /\ hand[w].st # "moving"
             => row[t].st # "moving"
Walking == Left /\ WorkHasJob

--------------------------------------------------------------------------------
(* Filed: where the payload is, and who has seen it there.                 *)
ToExtract(t) == setup[t].archive /\ setup[t].autoExtract /\ setup[t].path # "none"
PlacesTrue ==
    \A t \in Tasks :
        /\ row[t].path \in {setup[t].path, "dst"}
        /\ setup[t].path # "src" => row[t].path = setup[t].path /\ disk[t].src = "absent" /\ jobs[MoveJob(t)].st = "none"
        /\ row[t].path = "dst" => disk[t].src = "absent" /\ disk[t].dst \in {"payload", "alike"}
        /\ setup[t].taken = "other" /\ setup[t].path = "src" => disk[t].src = "payload"
        /\ disk[t].src = "part" => disk[t].dst \in {"payload", "alike"}
        /\ disk[t].dst = "alike" => setup[t].taken = "alike"
        /\ ~ToExtract(t) => jobs[ExtractJob(t)].st = "none"
UnmovedSteps == {"m.claim", "m.decide", "m.dup", "m.rename", "m.copy", "m.deliver", "m.unlink", "m.failget", "m.fail", "m.pause"}
MovedSteps == {"m.path", "m.settle", "chain"}
MoversSee ==
    \A w \in Workers, t \in Tasks : Moves(w, t) =>
        /\ setup[t].path = "src"
        /\ hand[w].pc \in UnmovedSteps => disk[t].src # "absent" /\ hand[w].path = "src"
        /\ hand[w].pc \in MovedSteps => disk[t].src = "absent"
        /\ hand[w].pc = "m.unlink" => disk[t].dst = "payload"
        /\ hand[w].pc = "m.dup" => disk[t].dst \in {"payload", "alike"}
        /\ hand[w].pc \in {"m.rename", "m.copy", "m.deliver", "m.unlink"} => setup[t].taken = "free"
        /\ hand[w].pc = "m.path" => hand[w].path \in {"src", row[t].path}
        /\ hand[w].pc \in {"m.settle", "chain"} => row[t].path = "dst" \/ row[t].st = "gone"
        /\ hand[w].pc \in {"m.decide", "m.dup", "m.rename", "m.copy", "m.deliver", "m.unlink", "m.settle"} => hand[w].st = "moving"
ExtractorsSee ==
    \A w \in Workers, t \in Tasks : Extracts(w, t) =>
        /\ ToExtract(t)
        /\ hand[w].pc \in {"x.done", "x.complete", "chain"} => disk[t].tree \in {"own", "alike"}
PassesSee ==
    \A a \in Actors, t \in Tasks : Passing(a, t) =>
        /\ chain[a].pc # "get" => chain[a].path \in {setup[t].path, row[t].path}
        /\ chain[a].pc \in {"reset", "insert"} => ToExtract(t)
        /\ chain[a].pc = "enqueue" => setup[t].path = "src"
Filed == PlacesTrue /\ MoversSee /\ ExtractorsSee /\ PassesSee /\ PayloadKept /\ NoClobber

--------------------------------------------------------------------------------
(* Ordered: what happens before the first download has finished, and       *)
(* between the first and the second.                                       *)
Unstarted(t) ==
    /\ jobs[ExtractJob(t)].st = "none" /\ jobs[MoveJob(t)].st = "none"
    /\ \A w \in Workers : ~Extracts(w, t) /\ ~Moves(w, t)
    /\ row[t].path = setup[t].path /\ (setup[t].path = "src" => disk[t].src = "payload")
NothingYet ==
    \A t \in Tasks : finished[t] = 0 =>
        Unstarted(t) /\ row[t].st \in {"downloading", "removed"} /\ \A a \in Actors : ~Passing(a, t)

(* The one pass of the reconciler after the first finished download comes  *)
(* before any job of the task.                                             *)
First(t) == ~setup[t].reported /\ finished[t] = 1
SweepFirst ==
    \A t \in Tasks : First(t) /\ Passing("sweep", t) =>
        /\ Unstarted(t)
        /\ ToExtract(t) => chain["sweep"].pc \in {"get", "extract", "reset", "insert"}
        /\ setup[t].path = "src" => chain["sweep"].pc \notin {"notify", "hook", "remove"}

(* Until the process is stopped the move comes after the extraction, and   *)
(* the tail of the extraction's pass after the move.                       *)
InOrder(t) == First(t) /\ ~stopped /\ ToExtract(t)
MoveWaits ==
    \A t \in Tasks : InOrder(t) /\ jobs[MoveJob(t)].st # "none" =>
        /\ disk[t].tree \in {"own", "alike"} /\ jobs[ExtractJob(t)].st \in {"running", "done"}
        /\ \A w \in Workers : Extracts(w, t) => hand[w].pc \in {"chain", "ok"} /\ chain[w].pc = "idle"
MoversAfter == \A t \in Tasks, w \in Workers : InOrder(t) /\ Moves(w, t) => disk[t].tree \in {"own", "alike"}
TailWaits ==
    \A t \in Tasks, w \in Workers :
        InOrder(t) /\ Extracts(w, t) /\ chain[w].pc \in {"notify", "hook", "remove"} => chain[w].path # "src"

(* A payload that was moved under a row that still names the source: the   *)
(* row is on its way out of moving, and does not complete before the       *)
(* download has finished once more.                                        *)
AwayStates == {"moving", "paused", "queued", "downloading", "removed", "gone"}
StalePathAway ==
    \A t \in Tasks : OnlyMoves(t) /\ ~setup[t].reported /\ setup[t].path = "src" /\ finished[t] = 1 =>
        /\ disk[t].src = "absent" /\ row[t].path = "src" => row[t].st \in AwayStates
        /\ \A w \in Workers :
             Moves(w, t) /\ hand[w].pc \in {"m.decide", "m.dup", "m.rename", "m.copy", "m.deliver", "m.unlink"} => row[t].st \in AwayStates
Ordered == NothingYet /\ SweepFirst /\ MoveWaits /\ MoversAfter /\ TailWaits /\ StalePathAway

--------------------------------------------------------------------------------
(* Counted: the notifications of a task.                                   *)
ToNotify == {"get", "extract", "reset", "insert", "move", "enqueue", "notify"}
SweepOwes(t) == Passing("sweep", t) /\ chain["sweep"].pc \in ToNotify
MoverOwes(w, t) ==
    /\ Moves(w, t)
    /\ \/ hand[w].pc \in {"m.decide", "m.dup", "m.rename", "m.copy", "m.deliver", "m.unlink", "m.path", "m.settle"} /\ hand[w].st = "moving"
       \/ hand[w].pc = "chain" /\ chain[w].pc \in ToNotify
MoveOwes(t) ==
    \/ jobs[MoveJob(t)].st \in {"pending", "running"} /\ disk[t].src # "absent"
    \/ row[t].st = "moving"
    \/ \E w \in Workers : MoverOwes(w, t)
One(p) == IF p THEN 1 ELSE 0
Due(t) == OnlyMoves(t) /\ ~setup[t].reported
Counted ==
    \A t \in Tasks : Due(t) => Cardinality(Notes(t)) + One(SweepOwes(t)) + One(MoveOwes(t)) <= finished[t]

JobInv == Typed /\ Owned /\ Walking /\ Filed /\ Ordered /\ Counted

--------------------------------------------------------------------------------
(* What a step writes, one record at a time.                               *)

HandRecs == [pc : HandSteps, job : JobKeys \union {IdleHand.job}, attempts : 0 .. AttemptBound,
             st : RowStates \union {"-"}, path : Places]
ChainRecs == [pc : ChainSteps, task : Tasks \union {"-"}, path : Places]
RowRecs == [st : RowStates, path : Places]

HandTo(w, pc, st, path) ==
    /\ hand' \in [Workers -> HandRecs]
    /\ hand'[w].pc = pc /\ hand'[w].job = hand[w].job /\ hand'[w].attempts = hand[w].attempts
    /\ hand'[w].st = st /\ hand'[w].path = path
    /\ \A v \in Workers \ {w} : hand'[v] = hand[v]
GoesTo(w, pc) == HandTo(w, pc, hand[w].st, hand[w].path)
ChainTo(a, pc, task, path) ==
    /\ chain' \in [Actors -> ChainRecs]
    /\ chain'[a].pc = pc /\ chain'[a].task = task /\ chain'[a].path = path
    /\ \A b \in Actors \ {a} : chain'[b] = chain[b]
RowTo(t, st, path) ==
    /\ row' \in [Tasks -> RowRecs]
    /\ row'[t].st = st /\ row'[t].path = path
    /\ \A u \in Tasks \ {t} : row'[u] = row[u]
DiskTo(t, src, dst, tree) ==
    /\ disk' \in [Tasks -> Disks]
    /\ disk'[t].src = src /\ disk'[t].dst = dst /\ disk'[t].tree = tree
    /\ \A u \in Tasks \ {t} : disk'[u] = disk[u]
JobTo(j, st, attempts) ==
    /\ jobs' \in [JobKeys -> JobRows]
    /\ jobs'[j] = [st |-> st, attempts |-> attempts]
    /\ \A i \in JobKeys \ {j} : jobs'[i] = jobs[i]

(* What every step leaves alone.                                           *)
Rest == setup' = setup /\ mishaps' \in 0 .. MaxMishaps
HandlerRest == Rest /\ UNCHANGED <<jobs, finished, phase, stopped>>

LEMMA GoSets ==
    ASSUME Typed, NEW w \in Workers, NEW pc \in HandSteps, Go(w, pc)
    PROVE  GoesTo(w, pc)
<1>1. hand \in [Workers -> HandRecs]
    BY DEF Typed, TypeOK, HandlerTypeOK, HandRecs
<1>2. PICK h \in HandRecs : h = hand[w]
    BY <1>1
<1>3. [h EXCEPT !.pc = pc] = [pc |-> pc, job |-> h.job, attempts |-> h.attempts, st |-> h.st, path |-> h.path]
    BY DEF HandRecs
<1>4. [pc |-> pc, job |-> h.job, attempts |-> h.attempts, st |-> h.st, path |-> h.path] \in HandRecs
    BY DEF HandRecs
<1>5. hand' = [hand EXCEPT ![w] = [h EXCEPT !.pc = pc]]
    BY <1>2 DEF Go
<1> QED
    BY <1>1, <1>2, <1>3, <1>4, <1>5 DEF GoesTo, HandTo

LEMMA RowSets ==
    ASSUME Typed, NEW t \in Tasks, NEW st \in RowStates, row' = [row EXCEPT ![t].st = st]
    PROVE  RowTo(t, st, row[t].path)
<1>1. row \in [Tasks -> RowRecs]
    BY DEF Typed, TypeOK, SharedTypeOK, RowRecs
<1>2. PICK r \in RowRecs : r = row[t]
    BY <1>1
<1>3. [r EXCEPT !.st = st] = [st |-> st, path |-> r.path] /\ [st |-> st, path |-> r.path] \in RowRecs
    BY DEF RowRecs
<1> QED
    BY <1>1, <1>2, <1>3 DEF RowTo

LEMMA ChainSteps1 ==
    ASSUME Typed, NEW a \in Actors, NEW pc \in ChainSteps, Step(a, pc)
    PROVE  ChainTo(a, pc, chain[a].task, chain[a].path)
<1>1. chain \in [Actors -> ChainRecs]
    BY DEF Typed, TypeOK, SharedTypeOK, ChainRecs
<1>2. PICK c \in ChainRecs : c = chain[a]
    BY <1>1
<1>3. [c EXCEPT !.pc = pc] = [pc |-> pc, task |-> c.task, path |-> c.path] /\ [pc |-> pc, task |-> c.task, path |-> c.path] \in ChainRecs
    BY DEF ChainRecs
<1> QED
    BY <1>1, <1>2, <1>3 DEF ChainTo, Step

LEMMA ChainEnds ==
    ASSUME Typed, NEW a \in Actors, EndChain(a)
    PROVE  ChainTo(a, "idle", "-", "none")
<1>1. chain \in [Actors -> ChainRecs]
    BY DEF Typed, TypeOK, SharedTypeOK, ChainRecs
<1>2. IdleChain = [pc |-> "idle", task |-> "-", path |-> "none"] /\ IdleChain \in ChainRecs
    BY DEF IdleChain, ChainRecs, ChainSteps, Places
<1> QED
    BY <1>1, <1>2 DEF ChainTo, EndChain

LEMMA ChainStarts ==
    ASSUME Typed, NEW a \in Actors, NEW t \in Tasks, StartChain(a, t)
    PROVE  ChainTo(a, "get", t, "none")
<1>1. chain \in [Actors -> ChainRecs]
    BY DEF Typed, TypeOK, SharedTypeOK, ChainRecs
<1>2. PICK c : c = [IdleChain EXCEPT !.pc = "get", !.task = t]
    OBVIOUS
<1>3. c.pc = "get" /\ c.task = t /\ c.path = "none" /\ c \in ChainRecs
    BY <1>2 DEF IdleChain, ChainRecs, ChainSteps, Places
<1> QED
    BY <1>1, <1>2, <1>3 DEF ChainTo, StartChain

(* The edges of taskTransitions the handlers ask for.                      *)
LEMMA Edges ==
    \A s \in RowStates \ {"gone"} :
        /\ transitionLegal(s, "error") <=> s \notin {"removed", "error"}
        /\ transitionLegal(s, "extracting") <=> s \in {"seeding", "completed"}
        /\ transitionLegal(s, "moving") <=> s \in {"seeding", "completed", "extracting"}
        /\ transitionLegal(s, "completed") <=> s \notin {"removed", "completed"}
        /\ transitionLegal(s, "removed") <=> s # "removed"
    BY DEF RowStates, transitionLegal, RowStore!transitionLegal, RowStore!States, RowStore!taskTransitions, RowStore!universalTransitionTargets

--------------------------------------------------------------------------------
(* The steps of the handlers, by what they read, know and write.           *)

OnExtract(w, t) == hand[w].job = ExtractJob(t) /\ hand[w].pc \in ExtractSteps
OnMove(w, t) == hand[w].job = MoveJob(t) /\ hand[w].pc \in MoveSteps

ExtractReads(w, t) ==
    /\ OnExtract(w, t) /\ HandlerRest /\ UNCHANGED <<row, disk, chain>>
    /\ \E q \in HandSteps :
         /\ GoesTo(w, q)
         /\ q \in (ExtractSteps \ {"x.done"}) \union {"ok", "err"}
         /\ q = "ok" => row[t].st # "extracting"
         /\ q = "x.complete" => hand[w].pc = "x.done"
ExtractClaims(w, t) ==
    /\ OnExtract(w, t) /\ HandlerRest /\ UNCHANGED <<disk, chain>>
    /\ row[t].st \in {"seeding", "completed"} /\ RowTo(t, "extracting", row[t].path) /\ GoesTo(w, "x.start")
ExtractFails(w, t) ==
    /\ OnExtract(w, t) /\ HandlerRest /\ UNCHANGED <<disk, chain>>
    /\ row[t].st # "gone" /\ RowTo(t, "error", row[t].path) /\ GoesTo(w, "ok")
ExtractFiles(w, t) ==
    /\ OnExtract(w, t) /\ HandlerRest /\ UNCHANGED <<row, chain>>
    /\ GoesTo(w, "x.done")
    /\ \E tree \in {"own", "alike"} :
         /\ DiskTo(t, disk[t].src, disk[t].dst, tree)
         /\ disk[t].tree # "none" => tree = disk[t].tree
ExtractCompletes(w, t) ==
    /\ OnExtract(w, t) /\ hand[w].pc = "x.complete" /\ HandlerRest /\ UNCHANGED disk
    /\ row[t].st # "gone" /\ RowTo(t, "completed", row[t].path) /\ GoesTo(w, "chain") /\ ChainTo(w, "get", t, "none")

MoveReads(w, t) ==
    /\ OnMove(w, t) /\ HandlerRest /\ UNCHANGED <<row, disk, chain>>
    /\ \/ GoesTo(w, "err")
       \/ GoesTo(w, "ok") /\ (row[t].st # "moving" \/ hand[w].pc = "m.claim")
       \/ hand[w].pc = "m.failget" /\ GoesTo(w, "m.fail")
MoveLooks(w, t) ==
    /\ OnMove(w, t) /\ hand[w].pc = "m.get" /\ HandlerRest /\ UNCHANGED <<row, disk, chain>>
    /\ \E q \in HandSteps :
         /\ HandTo(w, q, row[t].st, row[t].path)
         /\ \/ q = "ok" /\ row[t].st # "moving"
            \/ q = "m.path" /\ disk[t].src = "absent" /\ disk[t].dst # "absent"
            \/ q = "m.decide" /\ row[t].st = "moving" /\ ~(disk[t].src = "absent" /\ disk[t].dst # "absent")
            \/ q = "m.claim" /\ row[t].st = "completed" /\ ~(disk[t].src = "absent" /\ disk[t].dst # "absent")
MoveClaims(w, t) ==
    /\ OnMove(w, t) /\ hand[w].pc = "m.claim" /\ HandlerRest /\ UNCHANGED <<disk, chain>>
    /\ row[t].st # "gone" /\ RowTo(t, "moving", row[t].path) /\ HandTo(w, "m.decide", "moving", hand[w].path)
MoveFails(w, t) ==
    /\ OnMove(w, t) /\ hand[w].pc = "m.fail" /\ HandlerRest /\ UNCHANGED <<disk, chain>>
    /\ row[t].st # "gone" /\ RowTo(t, "error", row[t].path) /\ GoesTo(w, "ok")
MovePauses(w, t) ==
    /\ OnMove(w, t) /\ hand[w].pc = "m.pause" /\ HandlerRest /\ UNCHANGED <<disk, chain>>
    /\ row[t].st = "moving" /\ RowTo(t, "paused", row[t].path) /\ GoesTo(w, "ok")
MoveSettles(w, t) ==
    /\ OnMove(w, t) /\ hand[w].pc = "m.path" /\ HandlerRest /\ UNCHANGED <<disk, chain>>
    /\ \/ hand[w].path # "dst" /\ row[t].st # "gone" /\ RowTo(t, row[t].st, "dst")
       \/ (hand[w].path = "dst" \/ row[t].st = "gone") /\ row' = row
    /\ GoesTo(w, IF hand[w].st = "moving" THEN "m.settle" ELSE "ok")
MoveCompletes(w, t) ==
    /\ OnMove(w, t) /\ hand[w].pc = "m.settle" /\ HandlerRest /\ UNCHANGED disk
    /\ row[t].st # "gone" /\ RowTo(t, "completed", row[t].path) /\ GoesTo(w, "chain") /\ ChainTo(w, "get", t, "none")
MoveFiles(w, t) ==
    /\ OnMove(w, t) /\ HandlerRest /\ UNCHANGED <<row, chain>>
    /\ \E q \in HandSteps, src \in {"absent", "payload", "part"}, dst \in {"absent", "payload", "other", "alike"} :
         /\ GoesTo(w, q) /\ DiskTo(t, src, dst, disk[t].tree)
         /\ \/ /\ hand[w].pc \in {"m.decide", "m.rename", "m.copy", "m.deliver", "m.unlink"} /\ q \in {"m.pause", "m.failget", "err"}
               /\ src = disk[t].src /\ dst = disk[t].dst
            \/ /\ hand[w].pc = "m.decide" /\ q = "m.dup" /\ src = disk[t].src /\ dst = disk[t].dst
               /\ disk[t].dst \in {"payload", "alike"}
            \/ /\ hand[w].pc = "m.decide" /\ q \in {"m.rename", "m.copy"} /\ src = disk[t].src /\ dst = disk[t].dst
               /\ disk[t].src = "absent" \/ disk[t].dst = "absent"
            \/ hand[w].pc = "m.rename" /\ q = "m.path" /\ src = "absent" /\ dst = "payload"
            \/ hand[w].pc = "m.copy" /\ q = "m.deliver" /\ src = disk[t].src /\ dst = disk[t].dst
            \/ hand[w].pc = "m.deliver" /\ q = "m.unlink" /\ src = disk[t].src /\ dst = "payload"
            \/ /\ hand[w].pc \in {"m.unlink", "m.dup"} /\ dst = disk[t].dst
               /\ (q = "m.path" /\ src = "absent") \/ (q = hand[w].pc /\ src = "part")

Sends(w) ==
    /\ hand[w].pc = "w.send" /\ HandlerRest /\ UNCHANGED <<row, disk, chain>>
    /\ \E q \in {"ok", "err"} : GoesTo(w, q)
Returns(w) ==
    /\ hand[w].pc = "chain" /\ chain[w].pc = "idle" /\ HandlerRest /\ UNCHANGED <<row, disk, chain>>
    /\ GoesTo(w, "ok")

ExtractSome(w, t) ==
    ExtractReads(w, t) \/ ExtractClaims(w, t) \/ ExtractFails(w, t) \/ ExtractFiles(w, t) \/ ExtractCompletes(w, t)
MoveSome(w, t) ==
    \/ MoveReads(w, t) \/ MoveLooks(w, t) \/ MoveClaims(w, t) \/ MoveFails(w, t) \/ MovePauses(w, t)
    \/ MoveSettles(w, t) \/ MoveCompletes(w, t) \/ MoveFiles(w, t)

LEMMA ReadsKeep ==
    ASSUME Typed, Reads
    PROVE  HandlerRest /\ UNCHANGED <<row, disk, chain>>
    BY DEF Reads, shared, HandlerRest, Rest, Typed, TypeOK, SharedTypeOK

LEMMA TransitionEffect ==
    ASSUME Typed, NEW w \in Workers, NEW t \in Tasks, TaskOf(w) = t, NEW next \in RowStates, NEW yes \in HandSteps, NEW no \in HandSteps,
           TransitionElse(w, next, yes, no)
    PROVE  /\ HandlerRest /\ UNCHANGED <<disk, chain>>
           /\ \/ CanGo(t, next) /\ RowTo(t, next, row[t].path) /\ GoesTo(w, yes)
              \/ ~CanGo(t, next) /\ row' = row /\ GoesTo(w, no)
<1>1. HandlerRest /\ UNCHANGED <<disk, chain>>
    BY DEF TransitionElse, WritesRow, HandlerRest, Rest, Typed, TypeOK, SharedTypeOK
<1>2. CASE CanGo(t, next)
    <2>1. row' = [row EXCEPT ![t].st = next] /\ Go(w, yes)
        BY <1>2 DEF TransitionElse
    <2> QED
        BY <1>1, <1>2, <2>1, RowSets, GoSets
<1>3. CASE ~CanGo(t, next)
    <2>1. row' = row /\ Go(w, no)
        BY <1>3 DEF TransitionElse
    <2> QED
        BY <1>1, <1>3, <2>1, GoSets
<1> QED
    BY <1>2, <1>3

LEMMA CompleteEffect ==
    ASSUME Typed, NEW w \in Workers, NEW t \in Tasks, TaskOf(w) = t, NEW no \in HandSteps, CompleteElse(w, no)
    PROVE  /\ HandlerRest /\ UNCHANGED disk
           /\ \/ CanGo(t, "completed") /\ RowTo(t, "completed", row[t].path) /\ GoesTo(w, "chain") /\ ChainTo(w, "get", t, "none")
              \/ ~CanGo(t, "completed") /\ row' = row /\ chain' = chain /\ GoesTo(w, no)
<1>0. "chain" \in HandSteps /\ "completed" \in RowStates /\ w \in Actors
    BY DEF HandSteps, RowStates, RowStore!States, Actors
<1>1. HandlerRest /\ UNCHANGED disk
    BY DEF CompleteElse, WritesRow, HandlerRest, Rest, Typed, TypeOK, SharedTypeOK
<1>2. CASE CanGo(t, "completed")
    <2>1. row' = [row EXCEPT ![t].st = "completed"] /\ Go(w, "chain") /\ StartChain(w, t)
        BY <1>2 DEF CompleteElse
    <2> QED
        BY <1>0, <1>1, <1>2, <2>1, RowSets, GoSets, ChainStarts
<1>3. CASE ~CanGo(t, "completed")
    <2>1. row' = row /\ Go(w, no) /\ chain' = chain
        BY <1>3 DEF CompleteElse
    <2> QED
        BY <1>1, <1>3, <2>1, GoSets
<1> QED
    BY <1>2, <1>3

LEMMA StepNames ==
    /\ ExtractSteps \subseteq HandSteps /\ MoveSteps \subseteq HandSteps /\ {"ok", "err", "chain"} \subseteq HandSteps
    /\ {"extracting", "error", "moving", "completed", "paused"} \subseteq RowStates \ {"gone"}
    BY DEF HandSteps, RowStates, RowStore!States

(* What a name that the program is about to use may hold.                  *)
LEMMA NamesHeld ==
    ASSUME Typed, NEW t \in Tasks
    PROVE  /\ setup[t].taken \in {"free", "other", "alike"} /\ setup[t].sibling \in {"free", "other", "alike"}
           /\ setup[t].taken # "free" => setup[t].path # "dst"
    BY PostProcessAssumption DEF Typed, NameHeld

(* The row of a busy worker's task.                                        *)
LEMMA TaskKnown ==
    ASSUME Typed, NEW w \in Workers, NEW t \in Tasks, hand[w].job \in {ExtractJob(t), MoveJob(t)}
    PROVE  TaskOf(w) = t /\ row[t].st \in RowStates
    BY DEF TaskOf, ExtractJob, MoveJob, Typed, TypeOK, SharedTypeOK

LEMMA ExtractEffects ==
    ASSUME Typed, NEW w \in Workers, NEW t \in Tasks, OnExtract(w, t), ExtractHandle(w)
    PROVE  ExtractSome(w, t)
<1>0. TaskOf(w) = t /\ row[t].st \in RowStates
    BY TaskKnown DEF OnExtract
<1> USE StepNames
<1>1. CASE ExtractGet(w) \/ ExtractStart(w) \/ ExtractInterrupted(w) \/ ExtractDone(w) \/ FailGet(w, "x.failget", "x.fail", "extracting")
    <2>1. Reads /\ \E q \in (ExtractSteps \ {"x.done"}) \union {"ok", "err"} :
             Go(w, q) /\ (q = "ok" => row[t].st # "extracting") /\ (q = "x.complete" => hand[w].pc = "x.done")
        BY <1>0, <1>1 DEF ExtractGet, ExtractStart, ExtractInterrupted, ExtractDone, FailGet, SetExtractProgress, On, ExtractSteps
    <2> QED
        BY <2>1, ReadsKeep, GoSets DEF ExtractSome, ExtractReads
<1>2. CASE ExtractClaim(w)
    <2>1. TransitionElse(w, "extracting", "x.start", "err") /\ "x.start" \in ExtractSteps
        BY <1>2 DEF ExtractClaim, ExtractSteps
    <2>2. /\ HandlerRest /\ UNCHANGED <<disk, chain>>
          /\ \/ CanGo(t, "extracting") /\ RowTo(t, "extracting", row[t].path) /\ GoesTo(w, "x.start")
             \/ ~CanGo(t, "extracting") /\ row' = row /\ GoesTo(w, "err")
        BY <1>0, <2>1, TransitionEffect
    <2> QED
        BY <1>0, <2>2, Edges DEF ExtractSome, ExtractReads, ExtractClaims, CanGo
<1>3. CASE FailRecord(w, "x.fail")
    <2>1. PICK no \in {"ok", "err"} : TransitionElse(w, "error", "ok", no) /\ (no = "ok" => row[t].st # "gone")
        BY <1>0, <1>3 DEF FailRecord
    <2>2. /\ HandlerRest /\ UNCHANGED <<disk, chain>>
          /\ \/ CanGo(t, "error") /\ RowTo(t, "error", row[t].path) /\ GoesTo(w, "ok")
             \/ ~CanGo(t, "error") /\ row' = row /\ GoesTo(w, no)
        BY <1>0, <2>1, TransitionEffect
    <2> QED
        BY <1>0, <2>1, <2>2, Edges DEF ExtractSome, ExtractReads, ExtractFails, CanGo
<1>4. CASE ExtractComplete(w)
    <2>1. CompleteElse(w, "err") /\ hand[w].pc = "x.complete"
        BY <1>4 DEF ExtractComplete, On
    <2>2. /\ HandlerRest /\ UNCHANGED disk
          /\ \/ CanGo(t, "completed") /\ RowTo(t, "completed", row[t].path) /\ GoesTo(w, "chain") /\ ChainTo(w, "get", t, "none")
             \/ ~CanGo(t, "completed") /\ row' = row /\ chain' = chain /\ GoesTo(w, "err")
        BY <1>0, <2>1, CompleteEffect
    <2> QED
        BY <2>1, <2>2 DEF ExtractSome, ExtractReads, ExtractCompletes, CanGo
<1>5. CASE ExtractRun(w)
    <2>1. HandlerRest /\ UNCHANGED <<row, chain>> /\ {"x.done", "x.failget"} \subseteq ExtractSteps
        BY <1>5 DEF ExtractRun, HandlerRest, Rest, Typed, TypeOK, SharedTypeOK, ExtractSteps
    <2>2. \/ Go(w, "x.failget") /\ disk' = disk
          \/ disk[t].tree # "other" /\ disk' = [disk EXCEPT ![t].tree = IF @ = "none" THEN "own" ELSE @] /\ Go(w, "x.done")
        BY <1>0, <1>5 DEF ExtractRun, verifyAndMove
    <2>3. CASE Go(w, "x.failget") /\ disk' = disk
        BY <2>1, <2>3, GoSets DEF ExtractSome, ExtractReads
    <2>4. CASE disk[t].tree # "other" /\ disk' = [disk EXCEPT ![t].tree = IF @ = "none" THEN "own" ELSE @] /\ Go(w, "x.done")
        <3>1. disk \in [Tasks -> Disks]
            BY DEF Typed, TypeOK, SharedTypeOK
        <3>2. PICK tree \in {"own", "alike"} :
                /\ tree = IF disk[t].tree = "none" THEN "own" ELSE disk[t].tree
                /\ disk' = [disk EXCEPT ![t].tree = tree]
            BY <2>4, <3>1 DEF Disks
        <3>3. DiskTo(t, disk[t].src, disk[t].dst, tree)
            BY <3>1, <3>2 DEF DiskTo, Disks
        <3> QED
            BY <2>1, <2>4, <3>2, <3>3, GoSets DEF ExtractSome, ExtractFiles
    <2> QED
        BY <2>2, <2>3, <2>4
<1> QED
    BY <1>1, <1>2, <1>3, <1>4, <1>5 DEF ExtractHandle

(* A step of fsx.Move.                                                     *)
LEMMA MoveDiskEffect ==
    ASSUME Typed, NEW w \in Workers, NEW t \in Tasks, TaskOf(w) = t, NEW d \in Disks, NEW pc \in HandSteps, MoveDisk(w, d, pc),
           d.tree = disk[t].tree
    PROVE  HandlerRest /\ UNCHANGED <<row, chain>> /\ GoesTo(w, pc) /\ DiskTo(t, d.src, d.dst, disk[t].tree)
<1>1. disk \in [Tasks -> Disks] /\ HandlerRest /\ UNCHANGED <<row, chain>>
    BY DEF MoveDisk, HandlerRest, Rest, Typed, TypeOK, SharedTypeOK
<1>2. DiskTo(t, d.src, d.dst, disk[t].tree)
    BY <1>1 DEF DiskTo, MoveDisk
<1> QED
    BY <1>1, <1>2, GoSets DEF MoveDisk

LEMMA FsMoveEffects ==
    ASSUME Typed, NEW w \in Workers, NEW t \in Tasks, OnMove(w, t),
           MoveDecide(w) \/ MoveRename(w) \/ MoveCopy(w) \/ MoveDeliver(w) \/ MoveUnlink(w) \/ MoveDuplicate(w)
    PROVE  MoveFiles(w, t)
<1>0. TaskOf(w) = t /\ disk \in [Tasks -> Disks] /\ disk[t] \in Disks
    BY TaskKnown DEF OnMove, Typed, TypeOK, SharedTypeOK
<1> USE StepNames
<1>s. {"m.dup", "m.rename", "m.copy", "m.deliver", "m.unlink", "m.path", "m.pause", "m.failget"} \subseteq MoveSteps
    BY DEF MoveSteps
<1>1. CASE MoveDecide(w)
    <2>1. HandlerRest /\ UNCHANGED <<row, chain>> /\ hand[w].pc = "m.decide"
        BY <1>1 DEF MoveDecide, Reads, shared, On, HandlerRest, Rest, Typed, TypeOK, SharedTypeOK
    <2>2. disk' = disk /\ DiskTo(t, disk[t].src, disk[t].dst, disk[t].tree)
        BY <1>0, <1>1 DEF MoveDecide, Reads, shared, DiskTo
    <2>3. PICK q \in {"m.failget", "m.pause", "m.dup", "m.rename", "m.copy"} :
            /\ Go(w, q)
            /\ q = "m.dup" => disk[t].dst \in {"payload", "alike"}
            /\ q \in {"m.rename", "m.copy"} => disk[t].src = "absent" \/ disk[t].dst = "absent"
        BY <1>0, <1>1 DEF MoveDecide, SrcThere, DstThere, samePayload, Disks
    <2>4. GoesTo(w, q) /\ q \in HandSteps
        BY <1>s, <2>3, GoSets
    <2> QED
        BY <1>0, <2>1, <2>2, <2>3, <2>4 DEF MoveFiles, Disks
<1>2. CASE MoveRename(w)
    <2>1. hand[w].pc = "m.rename"
        BY <1>2 DEF MoveRename, On
    <2>2. PICK d \in Disks, q \in {"m.path", "m.failget"} :
             /\ MoveDisk(w, d, q) /\ d.tree = disk[t].tree
             /\ \/ q = "m.path" /\ d.src = "absent" /\ d.dst = "payload"
                \/ q = "m.failget" /\ d = disk[t]
        <3>1. PICK e : e = [disk[t] EXCEPT !.src = "absent", !.dst = "payload"]
            OBVIOUS
        <3>2. e \in Disks /\ e.src = "absent" /\ e.dst = "payload" /\ e.tree = disk[t].tree
            BY <1>0, <3>1 DEF Disks
        <3>3. MoveDisk(w, e, "m.path") \/ MoveDisk(w, disk[t], "m.failget")
            BY <1>0, <1>2, <3>1 DEF MoveRename
        <3> QED
            BY <1>0, <3>2, <3>3
    <2> QED
        BY <1>0, <1>s, <2>1, <2>2, MoveDiskEffect DEF MoveFiles, Disks
<1>3. CASE MoveCopy(w)
    <2>1. hand[w].pc = "m.copy"
        BY <1>3 DEF MoveCopy, On
    <2>2. PICK d \in Disks, q \in {"m.deliver", "m.pause", "m.failget", "err"} :
             MoveDisk(w, d, q) /\ d.tree = disk[t].tree /\ d.src = disk[t].src /\ d.dst = disk[t].dst
        BY <1>0, <1>3 DEF MoveCopy, Disks
    <2> QED
        BY <1>0, <1>s, <2>1, <2>2, MoveDiskEffect DEF MoveFiles, Disks
<1>4. CASE MoveDeliver(w)
    <2>1. hand[w].pc = "m.deliver"
        BY <1>4 DEF MoveDeliver, On
    <2>2. PICK d \in Disks, q \in {"m.unlink", "m.pause", "m.failget"} :
             /\ MoveDisk(w, d, q) /\ d.tree = disk[t].tree /\ d.src = disk[t].src
             /\ d.dst = IF q = "m.unlink" THEN "payload" ELSE disk[t].dst
        <3>1. PICK e : e = [disk[t] EXCEPT !.stage = "none", !.dst = "payload"]
            OBVIOUS
        <3>2. PICK f : f = [disk[t] EXCEPT !.stage = "none"]
            OBVIOUS
        <3>3. e \in Disks /\ e.src = disk[t].src /\ e.dst = "payload" /\ e.tree = disk[t].tree
            BY <1>0, <3>1 DEF Disks
        <3>4. f \in Disks /\ f.src = disk[t].src /\ f.dst = disk[t].dst /\ f.tree = disk[t].tree
            BY <1>0, <3>2 DEF Disks
        <3>5. MoveDisk(w, e, "m.unlink") \/ \E pc \in {"m.pause", "m.failget"} : MoveDisk(w, f, pc)
            BY <1>0, <1>4, <3>1, <3>2 DEF MoveDeliver
        <3> QED
            BY <3>3, <3>4, <3>5
    <2> QED
        BY <1>0, <1>s, <2>1, <2>2, MoveDiskEffect DEF MoveFiles, Disks
<1>5. ASSUME NEW pc \in {"m.unlink", "m.dup"}, hand[w].pc = pc, RemoveAll(w, pc)
      PROVE  MoveFiles(w, t)
    <2>1. PICK d \in Disks, q \in {pc, "m.path"} :
             /\ MoveDisk(w, d, q) /\ d.tree = disk[t].tree /\ d.dst = disk[t].dst
             /\ d.src = IF q = "m.path" THEN "absent" ELSE "part"
        <3>1. PICK e : e = [disk[t] EXCEPT !.src = "part"]
            OBVIOUS
        <3>2. PICK f : f = [disk[t] EXCEPT !.src = "absent"]
            OBVIOUS
        <3>3. e \in Disks /\ e.src = "part" /\ e.dst = disk[t].dst /\ e.tree = disk[t].tree
            BY <1>0, <3>1 DEF Disks
        <3>4. f \in Disks /\ f.src = "absent" /\ f.dst = disk[t].dst /\ f.tree = disk[t].tree
            BY <1>0, <3>2 DEF Disks
        <3>5. MoveDisk(w, e, pc) \/ MoveDisk(w, f, "m.path")
            BY <1>0, <1>5, <3>1, <3>2 DEF RemoveAll
        <3> QED
            BY <1>5, <3>3, <3>4, <3>5
    <2>2. /\ HandlerRest /\ UNCHANGED <<row, chain>> /\ GoesTo(w, q) /\ q \in HandSteps
          /\ DiskTo(t, d.src, disk[t].dst, disk[t].tree) /\ d.src \in {"absent", "payload", "part"}
        BY <1>0, <1>s, <1>5, <2>1, MoveDiskEffect DEF Disks
    <2>3. disk[t].dst \in {"absent", "payload", "other", "alike"}
        BY <1>0 DEF Disks
    <2>4. (q = "m.path" /\ d.src = "absent") \/ (q = hand[w].pc /\ d.src = "part")
        BY <1>5, <2>1
    <2>5. PICK src, dst : src = d.src /\ dst = disk[t].dst
        OBVIOUS
    <2> QED
        BY <1>5, <2>2, <2>3, <2>4, <2>5 DEF MoveFiles
<1>6. CASE MoveUnlink(w)
    <2>1. hand[w].pc = "m.unlink" /\ (RemoveAll(w, "m.unlink") \/ MoveDisk(w, disk[t], "m.failget"))
        BY <1>0, <1>6 DEF MoveUnlink, On
    <2> QED
        BY <1>0, <1>s, <1>5, <2>1, MoveDiskEffect DEF MoveFiles, Disks
<1>7. CASE MoveDuplicate(w)
    BY <1>5, <1>7 DEF MoveDuplicate, On
<1> QED
    BY <1>1, <1>2, <1>3, <1>4, <1>6, <1>7

LEMMA MoveGetEffect ==
    ASSUME Typed, NEW w \in Workers, NEW t \in Tasks, OnMove(w, t), MoveGet(w)
    PROVE  MoveLooks(w, t)
<1>0. TaskOf(w) = t /\ row[t].st \in RowStates /\ row[t].path \in Places /\ disk[t] \in Disks
    BY TaskKnown DEF OnMove, Typed, TypeOK, SharedTypeOK
<1>1. hand[w].pc = "m.get" /\ HandlerRest /\ UNCHANGED <<row, disk, chain>>
    BY ReadsKeep DEF MoveGet, On
<1>2. PICK q : /\ hand' = [hand EXCEPT ![w].st = row[t].st, ![w].path = row[t].path, ![w].pc = q]
               /\ q = IF row[t].st \notin {"completed", "moving", "seeding"} THEN "ok"
                      ELSE IF ~SrcThere(t) /\ DstThere(t) THEN "m.path"
                      ELSE CASE row[t].st = "seeding" -> "ok"
                             [] row[t].st = "moving" -> "m.decide"
                             [] row[t].st = "completed" -> "m.claim"
    BY <1>0 DEF MoveGet
<1>3. /\ q \in HandSteps
      /\ \/ q = "ok" /\ row[t].st # "moving"
         \/ q = "m.path" /\ disk[t].src = "absent" /\ disk[t].dst # "absent"
         \/ q = "m.decide" /\ row[t].st = "moving" /\ ~(disk[t].src = "absent" /\ disk[t].dst # "absent")
         \/ q = "m.claim" /\ row[t].st = "completed" /\ ~(disk[t].src = "absent" /\ disk[t].dst # "absent")
    <2> DEFINE moved == ~SrcThere(t) /\ DstThere(t)
    <2>1. moved <=> disk[t].src = "absent" /\ disk[t].dst # "absent"
        BY <1>0 DEF SrcThere, DstThere, Disks
    <2> HIDE DEF moved
    <2>2. \/ q = "ok" /\ row[t].st # "moving"
          \/ q = "m.path" /\ moved
          \/ q = "m.decide" /\ row[t].st = "moving" /\ ~moved
          \/ q = "m.claim" /\ row[t].st = "completed" /\ ~moved
        <3>1. CASE row[t].st \notin {"completed", "moving", "seeding"}
            BY <1>2, <3>1
        <3>2. CASE row[t].st \in {"completed", "moving", "seeding"} /\ moved
            BY <1>2, <3>2 DEF moved
        <3>3. CASE row[t].st \in {"completed", "moving", "seeding"} /\ ~moved
            BY <1>2, <3>3 DEF moved
        <3> QED
            BY <3>1, <3>2, <3>3
    <2> QED
        BY <2>1, <2>2 DEF HandSteps, MoveSteps
<1>4. HandTo(w, q, row[t].st, row[t].path)
    <2>1. PICK h \in HandRecs : h = hand[w]
        BY DEF Typed, TypeOK, HandlerTypeOK, HandRecs
    <2>2. PICK g : g = [h EXCEPT !.st = row[t].st, !.path = row[t].path, !.pc = q]
        OBVIOUS
    <2>3. /\ g \in HandRecs /\ g.pc = q /\ g.job = h.job /\ g.attempts = h.attempts
          /\ g.st = row[t].st /\ g.path = row[t].path
        BY <1>0, <1>3, <2>2 DEF HandRecs
    <2>4. hand \in [Workers -> HandRecs]
        BY DEF Typed, TypeOK, HandlerTypeOK, HandRecs
    <2>5. hand' = [hand EXCEPT ![w] = g]
        BY <1>2, <2>1, <2>2, <2>4
    <2> QED
        BY <2>1, <2>3, <2>4, <2>5 DEF HandTo
<1> QED
    BY <1>1, <1>3, <1>4 DEF MoveLooks

LEMMA MoveEffects ==
    ASSUME Typed, NEW w \in Workers, NEW t \in Tasks, OnMove(w, t), MoveHandle(w)
    PROVE  MoveSome(w, t)
<1>0. TaskOf(w) = t /\ row[t].st \in RowStates /\ row \in [Tasks -> RowRecs]
    BY TaskKnown DEF OnMove, Typed, TypeOK, SharedTypeOK, RowRecs
<1> USE StepNames
<1>1. CASE MoveGet(w)
    BY <1>1, MoveGetEffect DEF MoveSome
<1>2. CASE MoveClaim(w)
    <2>1. HandlerRest /\ UNCHANGED <<disk, chain>> /\ hand[w].pc = "m.claim"
        BY <1>2 DEF MoveClaim, On, WritesRow, HandlerRest, Rest, Typed, TypeOK, SharedTypeOK
    <2>2. CASE CanGo(t, "moving")
        <3>1. row' = [row EXCEPT ![t].st = "moving"] /\ hand' = [hand EXCEPT ![w].pc = "m.decide", ![w].st = "moving"]
            BY <1>0, <1>2, <2>2 DEF MoveClaim
        <3>2. hand \in [Workers -> HandRecs] /\ "m.decide" \in HandSteps
            BY DEF Typed, TypeOK, HandlerTypeOK, HandRecs, HandSteps, MoveSteps
        <3>3. HandTo(w, "m.decide", "moving", hand[w].path)
            BY <3>1, <3>2 DEF HandTo, HandRecs
        <3> QED
            BY <2>1, <2>2, <3>1, <3>3, RowSets DEF MoveSome, MoveClaims, CanGo
    <2>3. CASE ~CanGo(t, "moving")
        <3>1. row' = row /\ Go(w, "ok")
            BY <1>0, <1>2, <2>3 DEF MoveClaim
        <3> QED
            BY <2>1, <3>1, GoSets DEF MoveSome, MoveReads
    <2> QED
        BY <2>2, <2>3
<1>3. CASE MoveDecide(w) \/ MoveRename(w) \/ MoveCopy(w) \/ MoveDeliver(w) \/ MoveUnlink(w) \/ MoveDuplicate(w)
    BY <1>3, FsMoveEffects DEF MoveSome
<1>4. CASE SettlePath(w)
    <2>1. HandlerRest /\ UNCHANGED <<disk, chain>> /\ hand[w].pc = "m.path" /\ {"m.settle"} \subseteq HandSteps
        BY <1>4 DEF SettlePath, On, WritesRow, HandlerRest, Rest, Typed, TypeOK, SharedTypeOK, HandSteps, MoveSteps
    <2>2. GoesTo(w, IF hand[w].st = "moving" THEN "m.settle" ELSE "ok")
        BY <1>4, <2>1, GoSets DEF SettlePath
    <2>3. CASE hand[w].path # "dst" /\ row[t].st # "gone"
        <3>1. row' = [row EXCEPT ![t].path = "dst"]
            BY <1>0, <1>4, <2>3 DEF SettlePath
        <3>2. RowTo(t, row[t].st, "dst")
            BY <1>0, <3>1 DEF RowTo, RowRecs, Places
        <3> QED
            BY <2>1, <2>2, <2>3, <3>2 DEF MoveSome, MoveSettles
    <2>4. CASE ~(hand[w].path # "dst" /\ row[t].st # "gone")
        <3>1. row' = row
            BY <1>0, <1>4, <2>4 DEF SettlePath
        <3> QED
            BY <2>1, <2>2, <2>4, <3>1 DEF MoveSome, MoveSettles
    <2> QED
        BY <2>3, <2>4
<1>5. CASE SettleComplete(w)
    <2>1. CompleteElse(w, "ok") /\ hand[w].pc = "m.settle"
        BY <1>5 DEF SettleComplete, On
    <2>2. /\ HandlerRest /\ UNCHANGED disk
          /\ \/ CanGo(t, "completed") /\ RowTo(t, "completed", row[t].path) /\ GoesTo(w, "chain") /\ ChainTo(w, "get", t, "none")
             \/ ~CanGo(t, "completed") /\ row' = row /\ chain' = chain /\ GoesTo(w, "ok")
        BY <1>0, <2>1, CompleteEffect
    <2> QED
        BY <1>0, <2>1, <2>2, Edges DEF MoveSome, MoveReads, MoveCompletes, CanGo
<1>6. CASE pauseDiskFull(w)
    <2>1. HandlerRest /\ UNCHANGED <<disk, chain>> /\ hand[w].pc = "m.pause" /\ Go(w, "ok")
        BY <1>6 DEF pauseDiskFull, On, WritesRow, HandlerRest, Rest, Typed, TypeOK, SharedTypeOK
    <2>2. CASE row[t].st = "moving"
        <3>1. row' = [row EXCEPT ![t].st = "paused"]
            BY <1>0, <1>6, <2>2 DEF pauseDiskFull
        <3> QED
            BY <2>1, <2>2, <3>1, RowSets, GoSets DEF MoveSome, MovePauses
    <2>3. CASE row[t].st # "moving"
        <3>1. row' = row
            BY <1>0, <1>6, <2>3 DEF pauseDiskFull
        <3> QED
            BY <2>1, <2>3, <3>1, GoSets DEF MoveSome, MoveReads
    <2> QED
        BY <2>2, <2>3
<1>7. CASE FailGet(w, "m.failget", "m.fail", "moving")
    <2>1. Reads /\ hand[w].pc = "m.failget" /\ "m.fail" \in HandSteps /\ (Go(w, "m.fail") \/ (Go(w, "ok") /\ row[t].st # "moving"))
        BY <1>0, <1>7 DEF FailGet, On, HandSteps, MoveSteps
    <2> QED
        BY <2>1, ReadsKeep, GoSets DEF MoveSome, MoveReads
<1>8. CASE FailRecord(w, "m.fail")
    <2>1. hand[w].pc = "m.fail" /\ \E no \in {"ok", "err"} : TransitionElse(w, "error", "ok", no) /\ (no = "ok" => row[t].st # "gone")
        BY <1>0, <1>8 DEF FailRecord, On
    <2>2. PICK no \in {"ok", "err"} : TransitionElse(w, "error", "ok", no) /\ (no = "ok" => row[t].st # "gone")
        BY <2>1
    <2>3. /\ HandlerRest /\ UNCHANGED <<disk, chain>>
          /\ \/ CanGo(t, "error") /\ RowTo(t, "error", row[t].path) /\ GoesTo(w, "ok")
             \/ ~CanGo(t, "error") /\ row' = row /\ GoesTo(w, no)
        BY <1>0, <2>2, TransitionEffect
    <2> QED
        BY <1>0, <2>1, <2>2, <2>3, Edges DEF MoveSome, MoveReads, MoveFails, CanGo
<1> QED
    BY <1>1, <1>2, <1>3, <1>4, <1>5, <1>6, <1>7, <1>8 DEF MoveHandle

(* What a worker does next, whatever it runs.                              *)
HandlerSome(w) == (\E t \in Tasks : ExtractSome(w, t) \/ MoveSome(w, t)) \/ Sends(w) \/ Returns(w)
LEMMA HandlerEffects ==
    ASSUME Typed, KindsFit, NEW w \in Workers, runSafely(w)
    PROVE  HandlerSome(w)
<1>0. /\ hand[w].pc \in ExtractSteps => \E t \in Tasks : OnExtract(w, t)
      /\ hand[w].pc \in MoveSteps => \E t \in Tasks : OnMove(w, t)
    BY DEF KindsFit, Busy, OnExtract, OnMove, ExtractSteps, MoveSteps
<1>1. CASE ExtractHandle(w)
    <2>1. hand[w].pc \in ExtractSteps
        BY <1>1 DEF ExtractHandle, ExtractGet, ExtractClaim, ExtractStart, ExtractRun, ExtractInterrupted, ExtractDone, ExtractComplete,
            FailGet, FailRecord, On, ExtractSteps
    <2> QED
        BY <1>0, <1>1, <2>1, ExtractEffects DEF HandlerSome
<1>2. CASE MoveHandle(w)
    <2>1. hand[w].pc \in MoveSteps
        BY <1>2 DEF MoveHandle, MoveGet, MoveClaim, MoveDecide, MoveRename, MoveCopy, MoveDeliver, MoveUnlink, MoveDuplicate, SettlePath,
            SettleComplete, pauseDiskFull, FailGet, FailRecord, On, MoveSteps
    <2> QED
        BY <1>0, <1>2, <2>1, MoveEffects DEF HandlerSome
<1>3. CASE WebhookHandle(w)
    <2>1. Reads /\ hand[w].pc = "w.send" /\ \E q \in {"ok", "err"} : Go(w, q)
        BY <1>3 DEF WebhookHandle, On
    <2> QED
        BY <2>1, ReadsKeep, GoSets, StepNames DEF HandlerSome, Sends
<1>4. CASE ChainReturns(w)
    <2>1. Reads /\ hand[w].pc = "chain" /\ chain[w].pc = "idle" /\ Go(w, "ok")
        BY <1>4 DEF ChainReturns, On
    <2> QED
        BY <2>1, ReadsKeep, GoSets, StepNames DEF HandlerSome, Returns
<1>5. CASE HandlerError(w)
    <2>1. HandlerRest /\ UNCHANGED <<row, disk, chain>> /\ GoesTo(w, "err") /\ hand[w].pc \in ExtractSteps \union MoveSteps
        <3>1. HandlerRest /\ UNCHANGED <<row, disk, chain>> /\ Go(w, "err")
            BY <1>5, PostProcessAssumption DEF HandlerError, HandlerRest, Rest, Typed, TypeOK, SharedTypeOK
        <3>2. hand[w].pc \in ExtractSteps \union MoveSteps
            BY <1>5 DEF HandlerError, ExtractSteps, MoveSteps
        <3> QED
            BY <3>1, <3>2, GoSets, StepNames
    <2>2. CASE hand[w].pc \in ExtractSteps
        BY <1>0, <2>1, <2>2, StepNames DEF HandlerSome, ExtractSome, ExtractReads
    <2>3. CASE hand[w].pc \in MoveSteps
        BY <1>0, <2>1, <2>3 DEF HandlerSome, MoveSome, MoveReads
    <2> QED
        BY <2>1, <2>2, <2>3
<1> QED
    BY <1>1, <1>2, <1>3, <1>4, <1>5 DEF runSafely

--------------------------------------------------------------------------------
(* The steps of the chain, of the row's other writers and of the pool.     *)

PassRest == Rest /\ UNCHANGED <<disk, finished, phase, stopped, hand>>
PassGoes(a, t) ==
    /\ Passing(a, t) /\ PassRest /\ UNCHANGED <<row, jobs>>
    /\ \/ ChainTo(a, "idle", "-", "none")
       \/ chain[a].pc = "get" /\ row[t].st # "gone" /\ ChainTo(a, "extract", t, row[t].path)
       \/ /\ chain[a].pc = "extract" /\ ChainTo(a, "reset", t, chain[a].path)
          /\ chain[a].path # "none" /\ setup[t].archive /\ setup[t].autoExtract
          /\ jobs[ExtractJob(t)].st \notin {"running", "done"}
       \/ /\ chain[a].pc = "extract" /\ ChainTo(a, "move", t, chain[a].path)
          /\ chain[a].path # "none" /\ setup[t].archive /\ setup[t].autoExtract => jobs[ExtractJob(t)].st \in {"running", "done"}
       \/ chain[a].pc = "reset" /\ ChainTo(a, "insert", t, chain[a].path)
       \/ chain[a].pc = "move" /\ chain[a].path = "src" /\ ChainTo(a, "enqueue", t, chain[a].path)
       \/ /\ chain[a].pc = "move" /\ ChainTo(a, "notify", t, chain[a].path)
          /\ chain[a].path # "src" \/ jobs[MoveJob(t)].st = "running"
       \/ chain[a].pc = "hook" /\ ChainTo(a, "remove", t, chain[a].path)
PassResets(a, t) ==
    /\ Passing(a, t) /\ PassRest /\ UNCHANGED row
    /\ chain[a].pc = "reset" /\ ChainTo(a, "insert", t, chain[a].path)
    /\ jobs[ExtractJob(t)].st = "failed" /\ JobTo(ExtractJob(t), "pending", 0)
PassInserts(a, t) ==
    /\ Passing(a, t) /\ PassRest /\ UNCHANGED row
    /\ chain[a].pc = "insert" /\ ChainTo(a, "idle", "-", "none")
    /\ jobs[ExtractJob(t)].st = "none" /\ row[t].st # "gone" /\ JobTo(ExtractJob(t), "pending", 0)
PassEnqueues(a, t) ==
    /\ Passing(a, t) /\ PassRest /\ UNCHANGED row
    /\ chain[a].pc = "enqueue" /\ ChainTo(a, "idle", "-", "none")
    /\ jobs[MoveJob(t)].st \in {"done", "failed"} \/ (jobs[MoveJob(t)].st = "none" /\ row[t].st # "gone")
    /\ JobTo(MoveJob(t), "pending", 0)
PassNotifies(a, t) ==
    /\ Passing(a, t) /\ PassRest /\ UNCHANGED row
    /\ chain[a].pc = "notify" /\ ChainTo(a, "hook", t, chain[a].path)
    /\ Cardinality(Notes(t)) < MaxNotes /\ JobTo(WebhookJob(t, Cardinality(Notes(t)) + 1), "pending", 0)
PassRemoves(a, t) ==
    /\ Passing(a, t) /\ PassRest
    /\ chain[a].pc = "remove" /\ ChainTo(a, "idle", "-", "none")
    /\ RowTo(t, "gone", row[t].path)
    /\ jobs' \in [JobKeys -> JobRows] /\ jobs'[ExtractJob(t)] = NoJob /\ jobs'[MoveJob(t)] = NoJob
    /\ \A j \in JobKeys \ {ExtractJob(t), MoveJob(t)} : jobs'[j] = jobs[j]
PassSome(a, t) ==
    \/ PassGoes(a, t) \/ PassResets(a, t) \/ PassInserts(a, t) \/ PassEnqueues(a, t) \/ PassNotifies(a, t) \/ PassRemoves(a, t)

RowRest == Rest /\ UNCHANGED <<jobs, disk, phase, stopped, hand>>
Finishes(t) ==
    /\ RowRest /\ chain["sweep"].pc = "idle" /\ row[t].st \in {"downloading", "checking"}
    /\ RowTo(t, "completed", row[t].path) /\ ChainTo("sweep", "get", t, "none")
    /\ finished' \in [Tasks -> 0 .. MaxFinishes] /\ finished'[t] = finished[t] + 1
    /\ \A u \in Tasks \ {t} : finished'[u] = finished[u]
Adopts(t) ==
    /\ RowRest /\ finished' = finished /\ setup[t].reported
    /\ chain["sweep"].pc = "idle" /\ row[t].st \in {"extracting", "moving", "paused"}
    /\ RowTo(t, "completed", row[t].path) /\ ChainTo("sweep", "get", t, "none")
Operates(t) ==
    /\ RowRest /\ UNCHANGED <<finished, chain>>
    /\ \E st \in RowStates :
         /\ RowTo(t, st, row[t].path)
         /\ \/ row[t].st \in {"extracting", "moving"} /\ st = "paused"
            \/ row[t].st \in {"paused", "error"} /\ st = "queued"
            \/ row[t].st = "queued" /\ st = "downloading"
            \/ row[t].st = "completed" /\ st = "checking"
            \/ row[t].st # "gone" /\ st = "removed"

PoolRest == Rest /\ UNCHANGED <<row, disk, chain, finished, stopped>>
Claims(w, j) ==
    /\ PoolRest /\ UNCHANGED phase /\ phase = "up" /\ ~Busy(w)
    /\ jobs[j].st = "pending" /\ JobTo(j, "running", jobs[j].attempts + 1)
    /\ hand' \in [Workers -> HandRecs]
    /\ hand'[w].job = j /\ hand'[w].attempts = jobs[j].attempts + 1
    /\ \/ \E t \in Tasks : j = ExtractJob(t) /\ hand'[w].pc = "x.get"
       \/ \E t \in Tasks : j = MoveJob(t) /\ hand'[w].pc = "m.get"
       \/ hand'[w].pc = "w.send" /\ \A t \in Tasks : j \notin {ExtractJob(t), MoveJob(t)}
    /\ \A v \in Workers \ {w} : hand'[v] = hand[v]
Outcomes(w) ==
    /\ PoolRest /\ UNCHANGED phase /\ hand[w].pc \in {"ok", "err"}
    /\ \/ jobs' = jobs
       \/ /\ jobs[hand[w].job].st # "none"
          /\ JobTo(hand[w].job, IF hand[w].pc = "ok" THEN "done" ELSE IF hand[w].attempts >= MaxAttempts THEN "failed" ELSE "pending",
                   jobs[hand[w].job].attempts)
    /\ hand' \in [Workers -> HandRecs] /\ hand'[w].pc = "idle"
    /\ \A v \in Workers \ {w} : hand'[v] = hand[v]
Recovers ==
    /\ PoolRest /\ UNCHANGED hand /\ phase = "boot" /\ phase' = "up"
    /\ \/ jobs' = jobs
       \/ /\ jobs' \in [JobKeys -> JobRows]
          /\ \A j \in JobKeys : IF jobs[j].st = "running" THEN jobs'[j].st = "pending" /\ jobs'[j].attempts = jobs[j].attempts
                                ELSE jobs'[j] = jobs[j]
Dies ==
    /\ Rest /\ UNCHANGED <<row, jobs, finished>> /\ stopped' = TRUE /\ phase' = "boot"
    /\ chain' \in [Actors -> ChainRecs] /\ \A a \in Actors : chain'[a].pc = "idle" /\ chain'[a].task = "-"
    /\ hand' \in [Workers -> HandRecs] /\ \A w \in Workers : hand'[w].pc = "idle"
    /\ disk' \in [Tasks -> Disks]
    /\ \A t \in Tasks : disk'[t].src = disk[t].src /\ disk'[t].dst = disk[t].dst /\ disk'[t].tree = disk[t].tree
Stops == Rest /\ UNCHANGED <<row, jobs, disk, chain, finished, hand>> /\ stopped' = TRUE /\ phase' = "stopping"
Restarts ==
    /\ Rest /\ UNCHANGED <<row, jobs, disk, finished, hand, stopped>> /\ phase = "stopping" /\ phase' = "boot"
    /\ \A w \in Workers : ~Busy(w)
    /\ chain' \in [Actors -> ChainRecs] /\ \A a \in Actors : chain'[a].pc = "idle" /\ chain'[a].task = "-"

LEMMA JobSets ==
    ASSUME Typed, NEW j \in JobKeys, jobs' = [jobs EXCEPT ![j] = EnqueueJob]
    PROVE  JobTo(j, "pending", 0)
<1>1. jobs \in [JobKeys -> JobRows] /\ EnqueueJob \in JobRows
    BY QueueAssumption DEF Typed, TypeOK, SharedTypeOK, EnqueueJob, JobRows, JobStates
<1> QED
    BY <1>1 DEF JobTo, EnqueueJob

LEMMA KeysKnown ==
    \A t \in Tasks : /\ ExtractJob(t) \in JobKeys /\ MoveJob(t) \in JobKeys /\ ExtractJob(t) # MoveJob(t)
                     /\ \A n \in 1 .. MaxNotes : WebhookJob(t, n) \in JobKeys
    BY DEF JobKeys, ExtractJob, MoveJob, WebhookJob

LEMMA PassEffects ==
    ASSUME Typed, ChainsOwned, NEW a \in Actors, ChainStep(a)
    PROVE  \E t \in Tasks : PassSome(a, t)
<1>0. chain[a].pc # "idle"
    BY DEF ChainStep, OnCompleted, ChainError, ChainGet, ChainExtract, enqueueExtractReset, enqueueExtractInsert, ChainMove, enqueueMove,
           Fanout, runHook, maybeAutoRemove, At
<1>1. PICK t \in Tasks : chain[a].task = t
    BY <1>0 DEF ChainsOwned
<1>2. Passing(a, t)
    BY <1>0, <1>1 DEF Passing
<1>3. SUFFICES PassSome(a, t)
    OBVIOUS
<1>4. PassRest
    BY PostProcessAssumption DEF ChainStep, OnCompleted, ChainError, ChainGet, ChainExtract, enqueueExtractReset, enqueueExtractInsert, ChainMove,
           enqueueMove, Fanout, runHook, maybeAutoRemove, PassRest, Rest, Typed, TypeOK, SharedTypeOK
<1>5. chain \in [Actors -> ChainRecs] /\ row[t].path \in Places
    BY DEF Typed, TypeOK, SharedTypeOK, ChainRecs
<1>6. CASE ChainGet(a)
    <2>1. UNCHANGED <<row, jobs>> /\ chain[a].pc = "get"
        BY <1>6 DEF ChainGet, At
    <2>2. CASE row[t].st = "gone"
        BY <1>1, <1>2, <1>4, <1>6, <2>1, <2>2, ChainEnds DEF ChainGet, PassSome, PassGoes
    <2>3. CASE row[t].st # "gone"
        <3>1. chain' = [chain EXCEPT ![a].pc = "extract", ![a].path = row[t].path]
            BY <1>1, <1>6, <2>3 DEF ChainGet
        <3>2. ChainTo(a, "extract", t, row[t].path)
            BY <1>1, <1>5, <3>1 DEF ChainTo, ChainRecs, ChainSteps
        <3> QED
            BY <1>2, <1>4, <2>1, <2>3, <3>2 DEF PassSome, PassGoes
    <2> QED
        BY <2>2, <2>3
<1>7. CASE ChainExtract(a)
    <2>1. UNCHANGED <<row, jobs>> /\ chain[a].pc = "extract"
        BY <1>7 DEF ChainExtract, At
    <2>2. CASE ExtractOwed(a) /\ ~extractSettled(t)
        <3>1. ChainTo(a, "reset", t, chain[a].path)
            BY <1>1, <1>7, <2>2, ChainSteps1 DEF ChainExtract, ChainSteps
        <3> QED
            BY <1>1, <1>2, <1>4, <2>1, <2>2, <3>1 DEF PassSome, PassGoes, ExtractOwed, extractSettled
    <2>3. CASE ~(ExtractOwed(a) /\ ~extractSettled(t))
        <3>1. ChainTo(a, "move", t, chain[a].path)
            BY <1>1, <1>7, <2>3, ChainSteps1 DEF ChainExtract, ChainSteps
        <3> QED
            BY <1>1, <1>2, <1>4, <2>1, <2>3, <3>1 DEF PassSome, PassGoes, ExtractOwed, extractSettled
    <2> QED
        BY <2>2, <2>3
<1>8. CASE enqueueExtractReset(a)
    <2>1. ChainTo(a, "insert", t, chain[a].path) /\ chain[a].pc = "reset" /\ row' = row
        BY <1>1, <1>8, ChainSteps1 DEF enqueueExtractReset, ChainSteps, At
    <2>2. CASE jobs[ExtractJob(t)].st = "failed"
        <3>1. jobs' = [jobs EXCEPT ![ExtractJob(t)] = EnqueueJob]
            BY <1>1, <1>8, <2>2 DEF enqueueExtractReset
        <3> QED
            BY <1>2, <1>4, <2>1, <2>2, <3>1, JobSets, KeysKnown DEF PassSome, PassResets
    <2>3. CASE jobs[ExtractJob(t)].st # "failed"
        BY <1>1, <1>2, <1>4, <1>8, <2>1, <2>3 DEF enqueueExtractReset, PassSome, PassGoes
    <2> QED
        BY <2>2, <2>3
<1>9. CASE enqueueExtractInsert(a)
    <2>1. ChainTo(a, "idle", "-", "none") /\ chain[a].pc = "insert" /\ row' = row
        BY <1>9, ChainEnds DEF enqueueExtractInsert, At
    <2>2. CASE jobs[ExtractJob(t)].st = "none" /\ row[t].st # "gone"
        <3>1. jobs' = [jobs EXCEPT ![ExtractJob(t)] = EnqueueJob]
            BY <1>1, <1>9, <2>2 DEF enqueueExtractInsert
        <3> QED
            BY <1>2, <1>4, <2>1, <2>2, <3>1, JobSets, KeysKnown DEF PassSome, PassInserts
    <2>3. CASE ~(jobs[ExtractJob(t)].st = "none" /\ row[t].st # "gone")
        <3>1. jobs' = jobs
            BY <1>1, <1>9, <2>3 DEF enqueueExtractInsert
        <3> QED
            BY <1>2, <1>4, <2>1, <3>1 DEF PassSome, PassGoes
    <2> QED
        BY <2>2, <2>3
<1>10. CASE ChainMove(a)
    <2>1. UNCHANGED <<row, jobs>> /\ chain[a].pc = "move"
        BY <1>10 DEF ChainMove, At
    <2>2. CASE MoveOwed(a) /\ ~moveSettled(t)
        <3>1. ChainTo(a, "enqueue", t, chain[a].path)
            BY <1>1, <1>10, <2>2, ChainSteps1 DEF ChainMove, ChainSteps
        <3> QED
            BY <1>2, <1>4, <2>1, <2>2, <3>1 DEF PassSome, PassGoes, MoveOwed
    <2>3. CASE ~(MoveOwed(a) /\ ~moveSettled(t))
        <3>1. ChainTo(a, "notify", t, chain[a].path)
            BY <1>1, <1>10, <2>3, ChainSteps1 DEF ChainMove, ChainSteps
        <3> QED
            BY <1>2, <1>4, <2>1, <2>3, <3>1 DEF PassSome, PassGoes, MoveOwed, moveSettled
    <2> QED
        BY <2>2, <2>3
<1>11. CASE enqueueMove(a)
    <2> DEFINE free == jobs[MoveJob(t)].st \in {"done", "failed"} \/ (jobs[MoveJob(t)].st = "none" /\ row[t].st # "gone")
    <2>1. ChainTo(a, "idle", "-", "none") /\ chain[a].pc = "enqueue" /\ row' = row
        BY <1>11, ChainEnds DEF enqueueMove, At
    <2>2. CASE free
        <3>1. jobs' = [jobs EXCEPT ![MoveJob(t)] = EnqueueJob]
            BY <1>1, <1>11, <2>2 DEF enqueueMove
        <3> QED
            BY <1>2, <1>4, <2>1, <2>2, <3>1, JobSets, KeysKnown DEF PassSome, PassEnqueues
    <2>3. CASE ~free
        <3>1. jobs' = jobs
            BY <1>1, <1>11, <2>3 DEF enqueueMove
        <3> QED
            BY <1>2, <1>4, <2>1, <3>1 DEF PassSome, PassGoes
    <2> QED
        BY <2>2, <2>3
<1>12. CASE Fanout(a)
    <2>1. ChainTo(a, "hook", t, chain[a].path) /\ chain[a].pc = "notify" /\ row' = row
        BY <1>1, <1>12, ChainSteps1 DEF Fanout, ChainSteps, At
    <2>2. PICK n : n = Cardinality(Notes(t)) /\ n < MaxNotes /\ jobs' = [jobs EXCEPT ![WebhookJob(t, n + 1)] = EnqueueJob]
        BY <1>1, <1>12 DEF Fanout
    <2>3. n \in Nat
        <3>1. MaxNotes \in Nat
            BY PostProcessAssumption DEF MaxNotes
        <3>2. IsFiniteSet(1 .. MaxNotes)
            BY <3>1, FS_Interval
        <3>3. Notes(t) \subseteq 1 .. MaxNotes
            BY DEF Notes
        <3> QED
            BY <2>2, <3>2, <3>3, FS_Subset, FS_CardinalityType
    <2>4. WebhookJob(t, n + 1) \in JobKeys
        BY <2>2, <2>3, KeysKnown, PostProcessAssumption DEF MaxNotes
    <2> QED
        BY <1>2, <1>4, <2>1, <2>2, <2>4, JobSets DEF PassSome, PassNotifies
<1>13. CASE runHook(a)
    <2>1. UNCHANGED <<row, jobs>> /\ chain[a].pc = "hook" /\ (EndChain(a) \/ Step(a, "remove"))
        BY <1>13 DEF runHook, At
    <2>2. ChainTo(a, "idle", "-", "none") \/ ChainTo(a, "remove", t, chain[a].path)
        BY <1>1, <2>1, ChainEnds, ChainSteps1 DEF ChainSteps
    <2> QED
        BY <1>2, <1>4, <2>1, <2>2 DEF PassSome, PassGoes
<1>14. CASE maybeAutoRemove(a)
    <2>1. ChainTo(a, "idle", "-", "none") /\ chain[a].pc = "remove"
        BY <1>14, ChainEnds DEF maybeAutoRemove, At
    <2>2. CASE setup[t].autoRemove
        <3>1. row' = [row EXCEPT ![t].st = "gone"] /\ jobs' = [jobs EXCEPT ![ExtractJob(t)] = NoJob, ![MoveJob(t)] = NoJob]
            BY <1>1, <1>14, <2>2 DEF maybeAutoRemove
        <3>2. RowTo(t, "gone", row[t].path)
            BY <3>1, RowSets DEF RowStates
        <3>3. jobs \in [JobKeys -> JobRows] /\ NoJob \in JobRows
            BY QueueAssumption DEF Typed, TypeOK, SharedTypeOK, NoJob, JobRows, JobStates
        <3>4. /\ jobs' \in [JobKeys -> JobRows] /\ jobs'[ExtractJob(t)] = NoJob /\ jobs'[MoveJob(t)] = NoJob
              /\ \A j \in JobKeys \ {ExtractJob(t), MoveJob(t)} : jobs'[j] = jobs[j]
            BY <3>1, <3>3, KeysKnown
        <3> QED
            BY <1>2, <1>4, <2>1, <3>2, <3>4 DEF PassSome, PassRemoves
    <2>3. CASE ~setup[t].autoRemove
        <3>1. UNCHANGED <<row, jobs>>
            BY <1>1, <1>14, <2>3 DEF maybeAutoRemove
        <3> QED
            BY <1>2, <1>4, <2>1, <3>1 DEF PassSome, PassGoes
    <2> QED
        BY <2>2, <2>3
<1>15. CASE ChainError(a)
    BY <1>2, <1>4, <1>15, ChainEnds DEF ChainError, PassSome, PassGoes
<1> QED
    BY <1>6, <1>7, <1>8, <1>9, <1>10, <1>11, <1>12, <1>13, <1>14, <1>15 DEF ChainStep, OnCompleted

LEMMA RowWriteEffects ==
    ASSUME Typed, RowWrites, UNCHANGED hand
    PROVE  \E t \in Tasks : Finishes(t) \/ Adopts(t) \/ Operates(t)
<1>1. PICK t \in Tasks :
        \/ SweepFinish(t) \/ SweepAdopt(t) \/ OperatorPause(t) \/ OperatorResume(t)
        \/ AdmitAgain(t) \/ OperatorRecheck(t) \/ OperatorRemove(t)
    BY DEF RowWrites
<1>2. RowRest
    BY <1>1 DEF SweepFinish, SweepAdopt, OperatorPause, OperatorResume, AdmitAgain, OperatorRecheck, OperatorRemove, RowRest, Rest,
        Typed, TypeOK, SharedTypeOK
<1>3. {"completed", "paused", "queued", "downloading", "checking", "removed"} \subseteq RowStates /\ "sweep" \in Actors
    BY DEF RowStates, RowStore!States, Actors
<1>4. CASE SweepFinish(t)
    <2>1. finished \in [Tasks -> 0 .. MaxFinishes] /\ setup[t].finishes \in 0 .. MaxFinishes /\ MaxFinishes \in Nat
        BY PostProcessAssumption DEF Typed, TypeOK, SharedTypeOK
    <2>2. /\ finished' \in [Tasks -> 0 .. MaxFinishes] /\ finished'[t] = finished[t] + 1
          /\ \A u \in Tasks \ {t} : finished'[u] = finished[u]
        BY <1>4, <2>1 DEF SweepFinish
    <2> QED
        BY <1>2, <1>3, <1>4, <2>2, RowSets, ChainStarts DEF SweepFinish, Finishes
<1>5. CASE SweepAdopt(t)
    BY <1>2, <1>3, <1>5, RowSets, ChainStarts DEF SweepAdopt, Adopts
<1>6. CASE OperatorPause(t) \/ OperatorResume(t) \/ AdmitAgain(t) \/ OperatorRecheck(t) \/ OperatorRemove(t)
    <2>1. UNCHANGED <<finished, chain>> /\ \E st \in RowStates :
             /\ row' = [row EXCEPT ![t].st = st]
             /\ \/ row[t].st \in {"extracting", "moving"} /\ st = "paused"
                \/ row[t].st \in {"paused", "error"} /\ st = "queued"
                \/ row[t].st = "queued" /\ st = "downloading"
                \/ row[t].st = "completed" /\ st = "checking"
                \/ row[t].st # "gone" /\ st = "removed"
        BY <1>3, <1>6 DEF OperatorPause, OperatorResume, AdmitAgain, OperatorRecheck, OperatorRemove
    <2> QED
        BY <1>2, <2>1, RowSets DEF Operates
<1> QED
    BY <1>1, <1>4, <1>5, <1>6

LEMMA IdleHandKnown == IdleHand \in HandRecs /\ IdleHand.pc = "idle" /\ IdleChain \in ChainRecs /\ IdleChain.pc = "idle" /\ IdleChain.task = "-"
    BY QueueAssumption DEF IdleHand, HandRecs, HandSteps, RowStates, Places, IdleChain, ChainRecs, ChainSteps

LEMMA ClaimEffects ==
    ASSUME Typed, NEW w \in Workers, claimLoop(w)
    PROVE  \E j \in JobKeys : Claims(w, j)
<1>1. PICK j \in JobKeys :
        /\ jobs[j].st = "pending" /\ jobs[j].attempts < AttemptBound
        /\ jobs' = [jobs EXCEPT ![j] = ClaimJob(@)]
        /\ hand' = [hand EXCEPT ![w] = [IdleHand EXCEPT !.pc = FirstStep(j[1]), !.job = j, !.attempts = jobs[j].attempts + 1]]
    BY DEF claimLoop
<1>2. jobs \in [JobKeys -> JobRows] /\ hand \in [Workers -> HandRecs] /\ AttemptBound \in Nat
    BY QueueAssumption DEF Typed, TypeOK, SharedTypeOK, HandlerTypeOK, HandRecs
<1>3. jobs[j].attempts + 1 \in 0 .. AttemptBound
    BY <1>1, <1>2 DEF JobRows
<1>4. JobTo(j, "running", jobs[j].attempts + 1)
    <2>1. PICK r : r = ClaimJob(jobs[j])
        OBVIOUS
    <2>2. r \in JobRows /\ r = [st |-> "running", attempts |-> jobs[j].attempts + 1]
        BY <1>2, <1>3, <2>1 DEF ClaimJob, JobRows, JobStates
    <2> QED
        BY <1>1, <1>2, <2>1, <2>2 DEF JobTo
<1>5. \/ \E t \in Tasks : j = ExtractJob(t) /\ FirstStep(j[1]) = "x.get"
      \/ \E t \in Tasks : j = MoveJob(t) /\ FirstStep(j[1]) = "m.get"
      \/ FirstStep(j[1]) = "w.send" /\ \A t \in Tasks : j \notin {ExtractJob(t), MoveJob(t)}
    BY DEF JobKeys, FirstStep, ExtractJob, MoveJob, WebhookJob
<1>6. PICK h : h = [IdleHand EXCEPT !.pc = FirstStep(j[1]), !.job = j, !.attempts = jobs[j].attempts + 1]
    OBVIOUS
<1>7. h \in HandRecs /\ h.pc = FirstStep(j[1]) /\ h.job = j /\ h.attempts = jobs[j].attempts + 1
    <2>1. FirstStep(j[1]) \in HandSteps
        BY <1>5 DEF HandSteps, ExtractSteps, MoveSteps, WebhookSteps
    <2> HIDE DEF FirstStep
    <2> QED
        BY <1>3, <1>6, <2>1 DEF IdleHand, HandRecs, RowStates, Places
<1>8. /\ hand' \in [Workers -> HandRecs] /\ hand'[w] = h
      /\ \A v \in Workers \ {w} : hand'[v] = hand[v]
    BY <1>1, <1>2, <1>6, <1>7
<1>9. PoolRest /\ UNCHANGED phase /\ phase = "up" /\ ~Busy(w)
    BY DEF claimLoop, PoolRest, Rest, Typed, TypeOK, SharedTypeOK, On, Busy
<1> HIDE DEF FirstStep
<1> QED
    BY <1>1, <1>4, <1>5, <1>7, <1>8, <1>9 DEF Claims

LEMMA OutcomeEffects ==
    ASSUME Typed, KindsFit, NEW w \in Workers, ExecuteOutcome(w)
    PROVE  Outcomes(w)
<1>1. jobs \in [JobKeys -> JobRows] /\ hand \in [Workers -> HandRecs] /\ hand[w].job \in JobKeys /\ hand[w].pc \in {"ok", "err"}
    BY DEF Typed, TypeOK, SharedTypeOK, HandlerTypeOK, HandRecs, KindsFit, Busy, ExecuteOutcome
<1>2. PoolRest /\ UNCHANGED phase
    BY PostProcessAssumption DEF ExecuteOutcome, PoolRest, Rest, Typed, TypeOK, SharedTypeOK
<1>3. hand' \in [Workers -> HandRecs] /\ hand'[w].pc = "idle" /\ \A v \in Workers \ {w} : hand'[v] = hand[v]
    BY <1>1, IdleHandKnown DEF ExecuteOutcome
<1>4. PICK j \in JobKeys : j = hand[w].job
    BY <1>1
<1>5. PICK r : r = IF hand[w].pc = "ok" THEN CompleteJob(jobs[j]) ELSE FailJob(jobs[j], hand[w].attempts)
    OBVIOUS
<1>6. jobs' = jobs \/ jobs' = [jobs EXCEPT ![j] = r]
    BY <1>4, <1>5 DEF ExecuteOutcome, On
<1>7. CASE jobs[j].st = "none"
    <2>1. r = jobs[j]
        BY <1>5, <1>7 DEF CompleteJob, FailJob
    <2>2. jobs' = jobs
        BY <1>1, <1>6, <2>1
    <2> QED
        BY <1>1, <1>2, <1>3, <2>2 DEF Outcomes
<1>8. CASE jobs[j].st # "none"
    <2> DEFINE st == IF hand[w].pc = "ok" THEN "done" ELSE IF hand[w].attempts >= MaxAttempts THEN "failed" ELSE "pending"
    <2>1. r = [st |-> st, attempts |-> jobs[j].attempts] /\ r \in JobRows
        BY <1>1, <1>5, <1>8 DEF CompleteJob, FailJob, JobRows, JobStates
    <2>2. jobs' = jobs \/ JobTo(j, st, jobs[j].attempts)
        <3> HIDE DEF st
        <3> QED
            BY <1>1, <1>6, <2>1 DEF JobTo
    <2> QED
        BY <1>1, <1>2, <1>3, <1>4, <1>8, <2>2 DEF Outcomes
<1> QED
    BY <1>7, <1>8

LEMMA PoolEffects ==
    ASSUME Typed, PoolRun \/ Crash \/ Shutdown \/ Restart
    PROVE  Recovers \/ Dies \/ Stops \/ Restarts
<1>0. jobs \in [JobKeys -> JobRows] /\ disk \in [Tasks -> Disks] /\ MaxMishaps \in Nat /\ mishaps \in 0 .. MaxMishaps
    BY PostProcessAssumption DEF Typed, TypeOK, SharedTypeOK
<1>1. CASE PoolRun
    <2>1. PoolRest /\ UNCHANGED hand /\ phase = "boot" /\ phase' = "up"
        BY <1>0, <1>1 DEF PoolRun, PoolRest, Rest
    <2>2. \A j \in JobKeys : LET r == RecoverRunningJobs(jobs[j]) IN
            r \in JobRows /\ IF jobs[j].st = "running" THEN r.st = "pending" /\ r.attempts = jobs[j].attempts ELSE r = jobs[j]
        BY <1>0 DEF RecoverRunningJobs, JobRows, JobStates
    <2>3. jobs' = jobs \/ jobs' = [j \in JobKeys |-> RecoverRunningJobs(jobs[j])]
        BY <1>1 DEF PoolRun
    <2> QED
        BY <2>1, <2>2, <2>3 DEF Recovers
<1>2. CASE Crash
    <2>1. \A t \in Tasks : /\ [disk[t] EXCEPT !.stage = "none"] \in Disks
                           /\ [disk[t] EXCEPT !.stage = "none"].src = disk[t].src
                           /\ [disk[t] EXCEPT !.stage = "none"].dst = disk[t].dst
                           /\ [disk[t] EXCEPT !.stage = "none"].tree = disk[t].tree
        BY <1>0 DEF Disks
    <2>2. /\ disk' \in [Tasks -> Disks]
          /\ \A t \in Tasks : disk'[t].src = disk[t].src /\ disk'[t].dst = disk[t].dst /\ disk'[t].tree = disk[t].tree
        BY <1>2, <2>1 DEF Crash
    <2>3. Rest /\ UNCHANGED <<row, jobs, finished>> /\ stopped' = TRUE /\ phase' = "boot"
        BY <1>0, <1>2 DEF Crash, Rest
    <2>4. /\ chain' \in [Actors -> ChainRecs] /\ \A a \in Actors : chain'[a].pc = "idle" /\ chain'[a].task = "-"
          /\ hand' \in [Workers -> HandRecs] /\ \A w \in Workers : hand'[w].pc = "idle"
        BY <1>2, IdleHandKnown DEF Crash
    <2> QED
        BY <2>2, <2>3, <2>4 DEF Dies
<1>3. CASE Shutdown
    BY <1>0, <1>3 DEF Shutdown, Stops, Rest
<1>4. CASE Restart
    <2>1. chain' \in [Actors -> ChainRecs] /\ \A a \in Actors : chain'[a].pc = "idle" /\ chain'[a].task = "-"
        BY <1>4, IdleHandKnown DEF Restart
    <2> QED
        BY <1>0, <1>4, <2>1 DEF Restart, Restarts, Rest, On, Busy
<1> QED
    BY <1>1, <1>2, <1>3, <1>4

(* Every step of the specification, once more.                             *)
SomeStep ==
    \/ \E w \in Workers : HandlerSome(w) \/ Outcomes(w) \/ \E j \in JobKeys : Claims(w, j)
    \/ \E a \in Actors, t \in Tasks : PassSome(a, t)
    \/ \E t \in Tasks : Finishes(t) \/ Adopts(t) \/ Operates(t)
    \/ Recovers \/ Dies \/ Stops \/ Restarts
LEMMA NextEffects ==
    ASSUME Typed, KindsFit, ChainsOwned, [Next]_vars
    PROVE  SomeStep \/ UNCHANGED vars
<1>1. CASE \E w \in Workers : claimLoop(w) \/ claimNothing(w) \/ ExecuteOutcome(w) \/ runSafely(w)
    <2>1. PICK w \in Workers : claimLoop(w) \/ claimNothing(w) \/ ExecuteOutcome(w) \/ runSafely(w)
        BY <1>1
    <2>2. CASE claimLoop(w)
        BY <2>2, ClaimEffects DEF SomeStep
    <2>3. CASE claimNothing(w)
        BY <2>3 DEF claimNothing
    <2>4. CASE ExecuteOutcome(w)
        BY <2>4, OutcomeEffects DEF SomeStep
    <2>5. CASE runSafely(w)
        BY <2>5, HandlerEffects DEF SomeStep
    <2> QED
        BY <2>1, <2>2, <2>3, <2>4, <2>5
<1>2. CASE \E a \in Actors : ChainStep(a)
    BY <1>2, PassEffects DEF SomeStep
<1>3. CASE RowWrites /\ UNCHANGED hand
    BY <1>3, RowWriteEffects DEF SomeStep
<1>4. CASE PoolRun \/ Crash \/ Shutdown \/ Restart
    BY <1>4, PoolEffects DEF SomeStep
<1> QED
    BY <1>1, <1>2, <1>3, <1>4 DEF Next

LEMMA KeysApart ==
    \A t, u \in Tasks :
        /\ ExtractJob(t) = ExtractJob(u) => t = u
        /\ MoveJob(t) = MoveJob(u) => t = u
        /\ ExtractJob(t) # MoveJob(u)
        /\ \A n, m : /\ WebhookJob(t, n) \notin {ExtractJob(u), MoveJob(u)}
                     /\ WebhookJob(t, n) = WebhookJob(u, m) => t = u /\ n = m
    BY DEF ExtractJob, MoveJob, WebhookJob

(* A set of consecutive notes, and the number of the next one.             *)
LEMMA NotesCounted ==
    ASSUME Owned, NEW t \in Tasks
    PROVE  \E k \in 0 .. MaxNotes : Notes(t) = 1 .. k /\ Cardinality(Notes(t)) = k
<1>1. PICK k \in 0 .. MaxNotes : Notes(t) = 1 .. k
    BY DEF Owned, NotesInRow
<1>2. k \in Nat
    BY <1>1, PostProcessAssumption DEF MaxNotes
<1>3. Cardinality(1 .. k) = k
    <2>1. Cardinality(1 .. k) = IF 1 > k THEN 0 ELSE k - 1 + 1
        BY <1>2, FS_Interval
    <2> QED
        BY <1>2, <2>1
<1> QED
    BY <1>1, <1>3

LEMMA NextNoteFree ==
    ASSUME Owned, NEW t \in Tasks, Cardinality(Notes(t)) < MaxNotes
    PROVE  /\ Cardinality(Notes(t)) + 1 \in 1 .. MaxNotes
           /\ WebhookJob(t, Cardinality(Notes(t)) + 1) \in JobKeys
           /\ jobs[WebhookJob(t, Cardinality(Notes(t)) + 1)].st = "none"
<1>1. PICK k \in 0 .. MaxNotes : Notes(t) = 1 .. k /\ Cardinality(Notes(t)) = k
    BY NotesCounted
<1>2. k \in Nat /\ MaxNotes \in Nat
    BY <1>1, PostProcessAssumption DEF MaxNotes
<1>3. k + 1 \in 1 .. MaxNotes /\ k + 1 \notin Notes(t)
    BY <1>1, <1>2
<1> QED
    BY <1>1, <1>3, KeysKnown DEF Notes

(* The reconciler is no worker; a worker's pass is that of its handler.    *)
LEMMA SweepApart == "sweep" \in Actors /\ \A w \in Workers : w \in Actors /\ w # "sweep"
    BY PostProcessAssumption DEF Actors
LEMMA WorkersPass ==
    ASSUME Owned
    PROVE  /\ \A a \in Actors, t \in Tasks : Passing(a, t) =>
                a = "sweep" \/ (a \in Workers /\ hand[a].pc = "chain" /\ (Extracts(a, t) \/ Moves(a, t)))
           /\ \A w \in Workers : hand[w].pc # "chain" => chain[w].pc = "idle"
           /\ \A w \in Workers, t \in Tasks : chain[w].pc # "idle" /\ (Extracts(w, t) \/ Moves(w, t)) => Passing(w, t)
<1>1. \A a \in Actors, t \in Tasks : Passing(a, t) =>
         a = "sweep" \/ (a \in Workers /\ hand[a].pc = "chain" /\ (Extracts(a, t) \/ Moves(a, t)))
    BY DEF Owned, ChainsOwned, Passing, Extracts, Moves, Busy, Actors
<1>2. \A w \in Workers : hand[w].pc # "chain" => chain[w].pc = "idle"
    BY SweepApart DEF Owned, ChainsOwned
<1>3. ASSUME NEW w \in Workers, NEW t \in Tasks, chain[w].pc # "idle", Extracts(w, t) \/ Moves(w, t) PROVE Passing(w, t)
    <2>1. chain[w].task \in Tasks /\ hand[w].job \in {ExtractJob(chain[w].task), MoveJob(chain[w].task)}
        BY <1>3, SweepApart DEF Owned, ChainsOwned
    <2> QED
        BY <1>3, <2>1, KeysApart DEF Passing, Extracts, Moves
<1> QED
    BY <1>1, <1>2, <1>3

LEMMA FinishCounts ==
    ASSUME Typed, NEW t \in Tasks, Finishes(t)
    PROVE  finished'[t] # 0 /\ (finished'[t] = 1 => finished[t] = 0)
<1>1. finished[t] \in Nat
    BY PostProcessAssumption DEF Typed, TypeOK, SharedTypeOK
<1> QED
    BY <1>1 DEF Finishes

LEMMA RunnersRow ==
    ASSUME Owned, NEW w \in Workers, NEW t \in Tasks, Extracts(w, t) \/ Moves(w, t), jobs[hand[w].job].st # "none"
    PROVE  jobs[hand[w].job].st = "running"
<1>1. row[t].st # "gone"
    BY DEF Owned, GoneNoJobs, NoJob, Extracts, Moves
<1>2. ~TaskGone(hand[w].job)
    BY <1>1, KeysApart DEF TaskGone, Extracts, Moves
<1>3. jobs[hand[w].job] = [st |-> "running", attempts |-> hand[w].attempts]
    BY <1>2 DEF Owned, RunningRows, Extracts, Moves
<1> QED
    BY <1>3

(* The types.                                                              *)
LEMMA TypedKeeps ==
    ASSUME Typed, SomeStep
    PROVE  Typed'
<1>1. ASSUME NEW w \in Workers, NEW t \in Tasks, ExtractReads(w, t) PROVE Typed'
BY <1>1 DEF ExtractReads, HandlerRest, Rest, HandTo, GoesTo, OnExtract, Typed, TypeOK, SharedTypeOK, HandlerTypeOK, HandRecs,
        ChainRecs, RowRecs
<1>2. ASSUME NEW w \in Workers, NEW t \in Tasks, ExtractClaims(w, t) PROVE Typed'
BY <1>2 DEF ExtractClaims, HandlerRest, Rest, HandTo, GoesTo, RowTo, OnExtract, Typed, TypeOK, SharedTypeOK, HandlerTypeOK,
        HandRecs, ChainRecs, RowRecs
<1>3. ASSUME NEW w \in Workers, NEW t \in Tasks, ExtractFails(w, t) PROVE Typed'
BY <1>3 DEF ExtractFails, HandlerRest, Rest, HandTo, GoesTo, RowTo, OnExtract, Typed, TypeOK, SharedTypeOK, HandlerTypeOK,
        HandRecs, ChainRecs, RowRecs
<1>4. ASSUME NEW w \in Workers, NEW t \in Tasks, ExtractFiles(w, t) PROVE Typed'
BY <1>4 DEF ExtractFiles, HandlerRest, Rest, HandTo, GoesTo, DiskTo, OnExtract, Typed, TypeOK, SharedTypeOK, HandlerTypeOK,
        HandRecs, ChainRecs, RowRecs
<1>5. ASSUME NEW w \in Workers, NEW t \in Tasks, ExtractCompletes(w, t) PROVE Typed'
BY <1>5 DEF ExtractCompletes, HandlerRest, Rest, HandTo, GoesTo, RowTo, ChainTo, OnExtract, Typed, TypeOK, SharedTypeOK,
        HandlerTypeOK, HandRecs, ChainRecs, RowRecs
<1>6. ASSUME NEW w \in Workers, NEW t \in Tasks, MoveReads(w, t) PROVE Typed'
BY <1>6 DEF MoveReads, HandlerRest, Rest, HandTo, GoesTo, OnMove, Typed, TypeOK, SharedTypeOK, HandlerTypeOK, HandRecs, ChainRecs,
        RowRecs
<1>7. ASSUME NEW w \in Workers, NEW t \in Tasks, MoveLooks(w, t) PROVE Typed'
BY <1>7 DEF MoveLooks, HandlerRest, Rest, HandTo, OnMove, Typed, TypeOK, SharedTypeOK, HandlerTypeOK, HandRecs, ChainRecs, RowRecs
<1>8. ASSUME NEW w \in Workers, NEW t \in Tasks, MoveClaims(w, t) PROVE Typed'
BY <1>8 DEF MoveClaims, HandlerRest, Rest, HandTo, RowTo, OnMove, Typed, TypeOK, SharedTypeOK, HandlerTypeOK, HandRecs, ChainRecs,
        RowRecs
<1>9. ASSUME NEW w \in Workers, NEW t \in Tasks, MoveFails(w, t) PROVE Typed'
BY <1>9 DEF MoveFails, HandlerRest, Rest, HandTo, GoesTo, RowTo, OnMove, Typed, TypeOK, SharedTypeOK, HandlerTypeOK, HandRecs,
        ChainRecs, RowRecs
<1>10. ASSUME NEW w \in Workers, NEW t \in Tasks, MovePauses(w, t) PROVE Typed'
BY <1>10 DEF MovePauses, HandlerRest, Rest, HandTo, GoesTo, RowTo, OnMove, Typed, TypeOK, SharedTypeOK, HandlerTypeOK, HandRecs,
        ChainRecs, RowRecs
<1>11. ASSUME NEW w \in Workers, NEW t \in Tasks, MoveSettles(w, t) PROVE Typed'
BY <1>11 DEF MoveSettles, HandlerRest, Rest, HandTo, GoesTo, RowTo, OnMove, Typed, TypeOK, SharedTypeOK, HandlerTypeOK, HandRecs,
        ChainRecs, RowRecs
<1>12. ASSUME NEW w \in Workers, NEW t \in Tasks, MoveCompletes(w, t) PROVE Typed'
BY <1>12 DEF MoveCompletes, HandlerRest, Rest, HandTo, GoesTo, RowTo, ChainTo, OnMove, Typed, TypeOK, SharedTypeOK, HandlerTypeOK,
        HandRecs, ChainRecs, RowRecs
<1>13. ASSUME NEW w \in Workers, NEW t \in Tasks, MoveFiles(w, t) PROVE Typed'
BY <1>13 DEF MoveFiles, HandlerRest, Rest, HandTo, GoesTo, DiskTo, OnMove, Typed, TypeOK, SharedTypeOK, HandlerTypeOK, HandRecs,
        ChainRecs, RowRecs
<1>14. ASSUME NEW w \in Workers, Sends(w) PROVE Typed'
BY <1>14 DEF Sends, HandlerRest, Rest, HandTo, GoesTo, Typed, TypeOK, SharedTypeOK, HandlerTypeOK, HandRecs, ChainRecs, RowRecs
<1>15. ASSUME NEW w \in Workers, Returns(w) PROVE Typed'
BY <1>15 DEF Returns, HandlerRest, Rest, HandTo, GoesTo, Typed, TypeOK, SharedTypeOK, HandlerTypeOK, HandRecs, ChainRecs, RowRecs
<1>16. ASSUME NEW w \in Workers, Outcomes(w) PROVE Typed'
    BY <1>16 DEF Outcomes, PoolRest, Rest, JobTo, Typed, TypeOK, SharedTypeOK, HandlerTypeOK, HandRecs, ChainRecs, RowRecs
<1>17. ASSUME NEW w \in Workers, NEW j \in JobKeys, Claims(w, j) PROVE Typed'
    BY <1>17 DEF Claims, PoolRest, Rest, JobTo, Typed, TypeOK, SharedTypeOK, HandlerTypeOK, HandRecs, ChainRecs, RowRecs
<1>18. ASSUME NEW a \in Actors, NEW t \in Tasks, PassGoes(a, t) PROVE Typed'
BY <1>18 DEF PassGoes, Passing, PassRest, Rest, ChainTo, Typed, TypeOK, SharedTypeOK, HandlerTypeOK, HandRecs, ChainRecs, RowRecs
<1>19. ASSUME NEW a \in Actors, NEW t \in Tasks, PassResets(a, t) PROVE Typed'
BY <1>19 DEF PassResets, Passing, PassRest, Rest, ChainTo, JobTo, Typed, TypeOK, SharedTypeOK, HandlerTypeOK, HandRecs, ChainRecs,
        RowRecs
<1>20. ASSUME NEW a \in Actors, NEW t \in Tasks, PassInserts(a, t) PROVE Typed'
BY <1>20 DEF PassInserts, Passing, PassRest, Rest, ChainTo, JobTo, Typed, TypeOK, SharedTypeOK, HandlerTypeOK, HandRecs,
        ChainRecs, RowRecs
<1>21. ASSUME NEW a \in Actors, NEW t \in Tasks, PassEnqueues(a, t) PROVE Typed'
BY <1>21 DEF PassEnqueues, Passing, PassRest, Rest, ChainTo, JobTo, Typed, TypeOK, SharedTypeOK, HandlerTypeOK, HandRecs,
        ChainRecs, RowRecs
<1>22. ASSUME NEW a \in Actors, NEW t \in Tasks, PassNotifies(a, t) PROVE Typed'
BY <1>22 DEF PassNotifies, Passing, PassRest, Rest, ChainTo, JobTo, Typed, TypeOK, SharedTypeOK, HandlerTypeOK, HandRecs,
        ChainRecs, RowRecs
<1>23. ASSUME NEW a \in Actors, NEW t \in Tasks, PassRemoves(a, t) PROVE Typed'
BY <1>23 DEF PassRemoves, Passing, PassRest, Rest, ChainTo, RowTo, Typed, TypeOK, SharedTypeOK, HandlerTypeOK, HandRecs,
        ChainRecs, RowRecs
<1>24. ASSUME NEW t \in Tasks, Finishes(t) PROVE Typed'
    BY <1>24 DEF Finishes, RowRest, Rest, RowTo, ChainTo, Typed, TypeOK, SharedTypeOK, HandlerTypeOK, HandRecs, ChainRecs, RowRecs
<1>25. ASSUME NEW t \in Tasks, Adopts(t) PROVE Typed'
    BY <1>25 DEF Adopts, RowRest, Rest, RowTo, ChainTo, Typed, TypeOK, SharedTypeOK, HandlerTypeOK, HandRecs, ChainRecs, RowRecs
<1>26. ASSUME NEW t \in Tasks, Operates(t) PROVE Typed'
    BY <1>26 DEF Operates, RowRest, Rest, RowTo, Typed, TypeOK, SharedTypeOK, HandlerTypeOK, HandRecs, ChainRecs, RowRecs
<1>27. ASSUME Recovers PROVE Typed'
    BY <1>27 DEF Recovers, PoolRest, Rest, Typed, TypeOK, SharedTypeOK, HandlerTypeOK, HandRecs, ChainRecs, RowRecs
<1>28. ASSUME Dies PROVE Typed'
    BY <1>28 DEF Dies, Rest, Typed, TypeOK, SharedTypeOK, HandlerTypeOK, HandRecs, ChainRecs, RowRecs
<1>29. ASSUME Stops PROVE Typed'
    BY <1>29 DEF Stops, Rest, Typed, TypeOK, SharedTypeOK, HandlerTypeOK, HandRecs, ChainRecs, RowRecs
<1>30. ASSUME Restarts PROVE Typed'
    BY <1>30 DEF Restarts, Rest, Typed, TypeOK, SharedTypeOK, HandlerTypeOK, HandRecs, ChainRecs, RowRecs
<1> QED
BY <1>1, <1>2, <1>3, <1>4, <1>5, <1>6, <1>7, <1>8, <1>9, <1>10, <1>11, <1>12, <1>13, <1>14, <1>15, <1>16, <1>17, <1>18, <1>19,
        <1>20, <1>21, <1>22, <1>23, <1>24, <1>25, <1>26, <1>27, <1>28, <1>29, <1>30 DEF SomeStep, HandlerSome, ExtractSome,
        MoveSome, PassSome

(* Who runs what.                                                          *)
LEMMA OwnedKeeps ==
    ASSUME Typed, Owned, SomeStep
    PROVE  Owned'
<1>1. ASSUME NEW w \in Workers, NEW t \in Tasks, ExtractReads(w, t) PROVE Owned'
    <2>1. KindsFit'
        BY <1>1, KeysKnown, KeysApart DEF ExtractReads, HandlerRest, Rest, HandTo, GoesTo, OnExtract, Owned, KindsFit,
            ExtractSteps, MoveSteps, Busy
    <2>2. ChainsOwned'
        BY <1>1, KeysKnown, KeysApart DEF ExtractReads, HandlerRest, Rest, HandTo, GoesTo, OnExtract, Owned, ChainsOwned, Actors,
            ExtractSteps, MoveSteps, Busy
    <2>3. RunnersApart'
        BY <1>1, KeysKnown, KeysApart DEF ExtractReads, HandlerRest, Rest, HandTo, GoesTo, OnExtract, Owned, RunnersApart,
            ExtractSteps, MoveSteps, Busy
    <2>4. RunningRows'
        BY <1>1, KeysKnown, KeysApart DEF ExtractReads, HandlerRest, Rest, HandTo, GoesTo, OnExtract, Owned, RunningRows,
            TaskGone, ExtractSteps, MoveSteps, Busy
    <2>5. GoneNoJobs'
        BY <1>1, KeysKnown, KeysApart DEF ExtractReads, HandlerRest, Rest, HandTo, GoesTo, OnExtract, Owned, GoneNoJobs, NoJob,
            RunningRows, TaskGone, ExtractSteps, MoveSteps, Busy
    <2>6. BootIdle'
        BY <1>1, KeysKnown, KeysApart DEF ExtractReads, HandlerRest, Rest, HandTo, GoesTo, OnExtract, Owned, BootIdle,
            ExtractSteps, MoveSteps, Busy
    <2>7. NotesInRow'
        BY <1>1, KeysKnown, KeysApart DEF ExtractReads, HandlerRest, Rest, HandTo, GoesTo, OnExtract, Owned, NotesInRow, Notes,
            NoJob, ExtractSteps, MoveSteps, Busy
    <2> QED
        BY <2>1, <2>2, <2>3, <2>4, <2>5, <2>6, <2>7 DEF Owned
<1>2. ASSUME NEW w \in Workers, NEW t \in Tasks, ExtractClaims(w, t) PROVE Owned'
    <2>1. KindsFit'
        BY <1>2, KeysKnown, KeysApart DEF ExtractClaims, HandlerRest, Rest, HandTo, GoesTo, RowTo, OnExtract, Owned, KindsFit,
            ExtractSteps, MoveSteps, Busy
    <2>2. ChainsOwned'
        BY <1>2, KeysKnown, KeysApart DEF ExtractClaims, HandlerRest, Rest, HandTo, GoesTo, RowTo, OnExtract, Owned, ChainsOwned,
            Actors, ExtractSteps, MoveSteps, Busy
    <2>3. RunnersApart'
        BY <1>2, KeysKnown, KeysApart DEF ExtractClaims, HandlerRest, Rest, HandTo, GoesTo, RowTo, OnExtract, Owned, RunnersApart,
            ExtractSteps, MoveSteps, Busy
    <2>4. RunningRows'
        BY <1>2, KeysKnown, KeysApart DEF ExtractClaims, HandlerRest, Rest, HandTo, GoesTo, RowTo, OnExtract, Owned, RunningRows,
            TaskGone, ExtractSteps, MoveSteps, Busy
    <2>5. GoneNoJobs'
        BY <1>2, KeysKnown, KeysApart DEF ExtractClaims, HandlerRest, Rest, HandTo, GoesTo, RowTo, OnExtract, Owned, GoneNoJobs,
            NoJob, RunningRows, TaskGone, ExtractSteps, MoveSteps, Busy
    <2>6. BootIdle'
        BY <1>2, KeysKnown, KeysApart DEF ExtractClaims, HandlerRest, Rest, HandTo, GoesTo, RowTo, OnExtract, Owned, BootIdle,
            ExtractSteps, MoveSteps, Busy
    <2>7. NotesInRow'
        BY <1>2, KeysKnown, KeysApart DEF ExtractClaims, HandlerRest, Rest, HandTo, GoesTo, RowTo, OnExtract, Owned, NotesInRow,
            Notes, NoJob, ExtractSteps, MoveSteps, Busy
    <2> QED
        BY <2>1, <2>2, <2>3, <2>4, <2>5, <2>6, <2>7 DEF Owned
<1>3. ASSUME NEW w \in Workers, NEW t \in Tasks, ExtractFails(w, t) PROVE Owned'
    <2>1. KindsFit'
        BY <1>3, KeysKnown, KeysApart DEF ExtractFails, HandlerRest, Rest, HandTo, GoesTo, RowTo, OnExtract, Owned, KindsFit,
            ExtractSteps, MoveSteps, Busy
    <2>2. ChainsOwned'
        BY <1>3, KeysKnown, KeysApart DEF ExtractFails, HandlerRest, Rest, HandTo, GoesTo, RowTo, OnExtract, Owned, ChainsOwned,
            Actors, ExtractSteps, MoveSteps, Busy
    <2>3. RunnersApart'
        BY <1>3, KeysKnown, KeysApart DEF ExtractFails, HandlerRest, Rest, HandTo, GoesTo, RowTo, OnExtract, Owned, RunnersApart,
            ExtractSteps, MoveSteps, Busy
    <2>4. RunningRows'
        BY <1>3, KeysKnown, KeysApart DEF ExtractFails, HandlerRest, Rest, HandTo, GoesTo, RowTo, OnExtract, Owned, RunningRows,
            TaskGone, ExtractSteps, MoveSteps, Busy
    <2>5. GoneNoJobs'
        BY <1>3, KeysKnown, KeysApart DEF ExtractFails, HandlerRest, Rest, HandTo, GoesTo, RowTo, OnExtract, Owned, GoneNoJobs,
            NoJob, RunningRows, TaskGone, ExtractSteps, MoveSteps, Busy
    <2>6. BootIdle'
        BY <1>3, KeysKnown, KeysApart DEF ExtractFails, HandlerRest, Rest, HandTo, GoesTo, RowTo, OnExtract, Owned, BootIdle,
            ExtractSteps, MoveSteps, Busy
    <2>7. NotesInRow'
        BY <1>3, KeysKnown, KeysApart DEF ExtractFails, HandlerRest, Rest, HandTo, GoesTo, RowTo, OnExtract, Owned, NotesInRow,
            Notes, NoJob, ExtractSteps, MoveSteps, Busy
    <2> QED
        BY <2>1, <2>2, <2>3, <2>4, <2>5, <2>6, <2>7 DEF Owned
<1>4. ASSUME NEW w \in Workers, NEW t \in Tasks, ExtractFiles(w, t) PROVE Owned'
    <2>1. KindsFit'
        BY <1>4, KeysKnown, KeysApart DEF ExtractFiles, HandlerRest, Rest, HandTo, GoesTo, DiskTo, OnExtract, Owned, KindsFit,
            ExtractSteps, MoveSteps, Busy
    <2>2. ChainsOwned'
        BY <1>4, KeysKnown, KeysApart DEF ExtractFiles, HandlerRest, Rest, HandTo, GoesTo, DiskTo, OnExtract, Owned, ChainsOwned,
            Actors, ExtractSteps, MoveSteps, Busy
    <2>3. RunnersApart'
        BY <1>4, KeysKnown, KeysApart DEF ExtractFiles, HandlerRest, Rest, HandTo, GoesTo, DiskTo, OnExtract, Owned, RunnersApart,
            ExtractSteps, MoveSteps, Busy
    <2>4. RunningRows'
        BY <1>4, KeysKnown, KeysApart DEF ExtractFiles, HandlerRest, Rest, HandTo, GoesTo, DiskTo, OnExtract, Owned, RunningRows,
            TaskGone, ExtractSteps, MoveSteps, Busy
    <2>5. GoneNoJobs'
        BY <1>4, KeysKnown, KeysApart DEF ExtractFiles, HandlerRest, Rest, HandTo, GoesTo, DiskTo, OnExtract, Owned, GoneNoJobs,
            NoJob, RunningRows, TaskGone, ExtractSteps, MoveSteps, Busy
    <2>6. BootIdle'
        BY <1>4, KeysKnown, KeysApart DEF ExtractFiles, HandlerRest, Rest, HandTo, GoesTo, DiskTo, OnExtract, Owned, BootIdle,
            ExtractSteps, MoveSteps, Busy
    <2>7. NotesInRow'
        BY <1>4, KeysKnown, KeysApart DEF ExtractFiles, HandlerRest, Rest, HandTo, GoesTo, DiskTo, OnExtract, Owned, NotesInRow,
            Notes, NoJob, ExtractSteps, MoveSteps, Busy
    <2> QED
        BY <2>1, <2>2, <2>3, <2>4, <2>5, <2>6, <2>7 DEF Owned
<1>5. ASSUME NEW w \in Workers, NEW t \in Tasks, ExtractCompletes(w, t) PROVE Owned'
    <2>1. KindsFit'
        BY <1>5, KeysKnown, KeysApart DEF ExtractCompletes, HandlerRest, Rest, HandTo, GoesTo, RowTo, ChainTo, OnExtract, Owned,
            KindsFit, ExtractSteps, MoveSteps, Busy
    <2>2. ChainsOwned'
        BY <1>5, KeysKnown, KeysApart DEF ExtractCompletes, HandlerRest, Rest, HandTo, GoesTo, RowTo, ChainTo, OnExtract, Owned,
            ChainsOwned, Actors, ExtractSteps, MoveSteps, Busy
    <2>3. RunnersApart'
        BY <1>5, KeysKnown, KeysApart DEF ExtractCompletes, HandlerRest, Rest, HandTo, GoesTo, RowTo, ChainTo, OnExtract, Owned,
            RunnersApart, ExtractSteps, MoveSteps, Busy
    <2>4. RunningRows'
        <3>1. \A v \in Workers : hand'[v].job = hand[v].job /\ hand'[v].attempts = hand[v].attempts /\ (Busy(v)' => Busy(v))
            BY <1>5 DEF ExtractCompletes, HandTo, GoesTo, OnExtract, ExtractSteps, MoveSteps, Busy
        <3>2. \A u \in Tasks : row'[u].st = "gone" <=> row[u].st = "gone"
            BY <1>5 DEF ExtractCompletes, RowTo
        <3>3. jobs' = jobs
            BY <1>5 DEF ExtractCompletes, HandlerRest
        <3> QED
            BY <3>1, <3>2, <3>3 DEF Owned, RunningRows, TaskGone
    <2>5. GoneNoJobs'
        BY <1>5, KeysKnown, KeysApart DEF ExtractCompletes, HandlerRest, Rest, HandTo, GoesTo, RowTo, ChainTo, OnExtract, Owned,
            GoneNoJobs, NoJob, RunningRows, TaskGone, ExtractSteps, MoveSteps, Busy
    <2>6. BootIdle'
        BY <1>5, KeysKnown, KeysApart DEF ExtractCompletes, HandlerRest, Rest, HandTo, GoesTo, RowTo, ChainTo, OnExtract, Owned,
            BootIdle, ExtractSteps, MoveSteps, Busy
    <2>7. NotesInRow'
        BY <1>5, KeysKnown, KeysApart DEF ExtractCompletes, HandlerRest, Rest, HandTo, GoesTo, RowTo, ChainTo, OnExtract, Owned,
            NotesInRow, Notes, NoJob, ExtractSteps, MoveSteps, Busy
    <2> QED
        BY <2>1, <2>2, <2>3, <2>4, <2>5, <2>6, <2>7 DEF Owned
<1>6. ASSUME NEW w \in Workers, NEW t \in Tasks, MoveReads(w, t) PROVE Owned'
    <2>1. KindsFit'
        BY <1>6, KeysKnown, KeysApart DEF MoveReads, HandlerRest, Rest, HandTo, GoesTo, OnMove, Owned, KindsFit, ExtractSteps,
            MoveSteps, Busy
    <2>2. ChainsOwned'
        BY <1>6, KeysKnown, KeysApart DEF MoveReads, HandlerRest, Rest, HandTo, GoesTo, OnMove, Owned, ChainsOwned, Actors,
            ExtractSteps, MoveSteps, Busy
    <2>3. RunnersApart'
        BY <1>6, KeysKnown, KeysApart DEF MoveReads, HandlerRest, Rest, HandTo, GoesTo, OnMove, Owned, RunnersApart, ExtractSteps,
            MoveSteps, Busy
    <2>4. RunningRows'
        BY <1>6, KeysKnown, KeysApart DEF MoveReads, HandlerRest, Rest, HandTo, GoesTo, OnMove, Owned, RunningRows, TaskGone,
            ExtractSteps, MoveSteps, Busy
    <2>5. GoneNoJobs'
        BY <1>6, KeysKnown, KeysApart DEF MoveReads, HandlerRest, Rest, HandTo, GoesTo, OnMove, Owned, GoneNoJobs, NoJob,
            RunningRows, TaskGone, ExtractSteps, MoveSteps, Busy
    <2>6. BootIdle'
        BY <1>6, KeysKnown, KeysApart DEF MoveReads, HandlerRest, Rest, HandTo, GoesTo, OnMove, Owned, BootIdle, ExtractSteps,
            MoveSteps, Busy
    <2>7. NotesInRow'
        BY <1>6, KeysKnown, KeysApart DEF MoveReads, HandlerRest, Rest, HandTo, GoesTo, OnMove, Owned, NotesInRow, Notes, NoJob,
            ExtractSteps, MoveSteps, Busy
    <2> QED
        BY <2>1, <2>2, <2>3, <2>4, <2>5, <2>6, <2>7 DEF Owned
<1>7. ASSUME NEW w \in Workers, NEW t \in Tasks, MoveLooks(w, t) PROVE Owned'
    <2>1. KindsFit'
        BY <1>7, KeysKnown, KeysApart DEF MoveLooks, HandlerRest, Rest, HandTo, OnMove, Owned, KindsFit, ExtractSteps, MoveSteps,
            Busy
    <2>2. ChainsOwned'
        BY <1>7, KeysKnown, KeysApart DEF MoveLooks, HandlerRest, Rest, HandTo, OnMove, Owned, ChainsOwned, Actors, ExtractSteps,
            MoveSteps, Busy
    <2>3. RunnersApart'
        BY <1>7, KeysKnown, KeysApart DEF MoveLooks, HandlerRest, Rest, HandTo, OnMove, Owned, RunnersApart, ExtractSteps,
            MoveSteps, Busy
    <2>4. RunningRows'
        BY <1>7, KeysKnown, KeysApart DEF MoveLooks, HandlerRest, Rest, HandTo, OnMove, Owned, RunningRows, TaskGone,
            ExtractSteps, MoveSteps, Busy
    <2>5. GoneNoJobs'
        BY <1>7, KeysKnown, KeysApart DEF MoveLooks, HandlerRest, Rest, HandTo, OnMove, Owned, GoneNoJobs, NoJob, RunningRows,
            TaskGone, ExtractSteps, MoveSteps, Busy
    <2>6. BootIdle'
        BY <1>7, KeysKnown, KeysApart DEF MoveLooks, HandlerRest, Rest, HandTo, OnMove, Owned, BootIdle, ExtractSteps, MoveSteps,
            Busy
    <2>7. NotesInRow'
        BY <1>7, KeysKnown, KeysApart DEF MoveLooks, HandlerRest, Rest, HandTo, OnMove, Owned, NotesInRow, Notes, NoJob,
            ExtractSteps, MoveSteps, Busy
    <2> QED
        BY <2>1, <2>2, <2>3, <2>4, <2>5, <2>6, <2>7 DEF Owned
<1>8. ASSUME NEW w \in Workers, NEW t \in Tasks, MoveClaims(w, t) PROVE Owned'
    <2>1. KindsFit'
        BY <1>8, KeysKnown, KeysApart DEF MoveClaims, HandlerRest, Rest, HandTo, RowTo, OnMove, Owned, KindsFit, ExtractSteps,
            MoveSteps, Busy
    <2>2. ChainsOwned'
        BY <1>8, KeysKnown, KeysApart DEF MoveClaims, HandlerRest, Rest, HandTo, RowTo, OnMove, Owned, ChainsOwned, Actors,
            ExtractSteps, MoveSteps, Busy
    <2>3. RunnersApart'
        BY <1>8, KeysKnown, KeysApart DEF MoveClaims, HandlerRest, Rest, HandTo, RowTo, OnMove, Owned, RunnersApart, ExtractSteps,
            MoveSteps, Busy
    <2>4. RunningRows'
        BY <1>8, KeysKnown, KeysApart DEF MoveClaims, HandlerRest, Rest, HandTo, RowTo, OnMove, Owned, RunningRows, TaskGone,
            ExtractSteps, MoveSteps, Busy
    <2>5. GoneNoJobs'
        BY <1>8, KeysKnown, KeysApart DEF MoveClaims, HandlerRest, Rest, HandTo, RowTo, OnMove, Owned, GoneNoJobs, NoJob,
            RunningRows, TaskGone, ExtractSteps, MoveSteps, Busy
    <2>6. BootIdle'
        BY <1>8, KeysKnown, KeysApart DEF MoveClaims, HandlerRest, Rest, HandTo, RowTo, OnMove, Owned, BootIdle, ExtractSteps,
            MoveSteps, Busy
    <2>7. NotesInRow'
        BY <1>8, KeysKnown, KeysApart DEF MoveClaims, HandlerRest, Rest, HandTo, RowTo, OnMove, Owned, NotesInRow, Notes, NoJob,
            ExtractSteps, MoveSteps, Busy
    <2> QED
        BY <2>1, <2>2, <2>3, <2>4, <2>5, <2>6, <2>7 DEF Owned
<1>9. ASSUME NEW w \in Workers, NEW t \in Tasks, MoveFails(w, t) PROVE Owned'
    <2>1. KindsFit'
        BY <1>9, KeysKnown, KeysApart DEF MoveFails, HandlerRest, Rest, HandTo, GoesTo, RowTo, OnMove, Owned, KindsFit,
            ExtractSteps, MoveSteps, Busy
    <2>2. ChainsOwned'
        BY <1>9, KeysKnown, KeysApart DEF MoveFails, HandlerRest, Rest, HandTo, GoesTo, RowTo, OnMove, Owned, ChainsOwned, Actors,
            ExtractSteps, MoveSteps, Busy
    <2>3. RunnersApart'
        BY <1>9, KeysKnown, KeysApart DEF MoveFails, HandlerRest, Rest, HandTo, GoesTo, RowTo, OnMove, Owned, RunnersApart,
            ExtractSteps, MoveSteps, Busy
    <2>4. RunningRows'
        BY <1>9, KeysKnown, KeysApart DEF MoveFails, HandlerRest, Rest, HandTo, GoesTo, RowTo, OnMove, Owned, RunningRows,
            TaskGone, ExtractSteps, MoveSteps, Busy
    <2>5. GoneNoJobs'
        BY <1>9, KeysKnown, KeysApart DEF MoveFails, HandlerRest, Rest, HandTo, GoesTo, RowTo, OnMove, Owned, GoneNoJobs, NoJob,
            RunningRows, TaskGone, ExtractSteps, MoveSteps, Busy
    <2>6. BootIdle'
        BY <1>9, KeysKnown, KeysApart DEF MoveFails, HandlerRest, Rest, HandTo, GoesTo, RowTo, OnMove, Owned, BootIdle,
            ExtractSteps, MoveSteps, Busy
    <2>7. NotesInRow'
        BY <1>9, KeysKnown, KeysApart DEF MoveFails, HandlerRest, Rest, HandTo, GoesTo, RowTo, OnMove, Owned, NotesInRow, Notes,
            NoJob, ExtractSteps, MoveSteps, Busy
    <2> QED
        BY <2>1, <2>2, <2>3, <2>4, <2>5, <2>6, <2>7 DEF Owned
<1>10. ASSUME NEW w \in Workers, NEW t \in Tasks, MovePauses(w, t) PROVE Owned'
    <2>1. KindsFit'
        BY <1>10, KeysKnown, KeysApart DEF MovePauses, HandlerRest, Rest, HandTo, GoesTo, RowTo, OnMove, Owned, KindsFit,
            ExtractSteps, MoveSteps, Busy
    <2>2. ChainsOwned'
        BY <1>10, KeysKnown, KeysApart DEF MovePauses, HandlerRest, Rest, HandTo, GoesTo, RowTo, OnMove, Owned, ChainsOwned,
            Actors, ExtractSteps, MoveSteps, Busy
    <2>3. RunnersApart'
        BY <1>10, KeysKnown, KeysApart DEF MovePauses, HandlerRest, Rest, HandTo, GoesTo, RowTo, OnMove, Owned, RunnersApart,
            ExtractSteps, MoveSteps, Busy
    <2>4. RunningRows'
        BY <1>10, KeysKnown, KeysApart DEF MovePauses, HandlerRest, Rest, HandTo, GoesTo, RowTo, OnMove, Owned, RunningRows,
            TaskGone, ExtractSteps, MoveSteps, Busy
    <2>5. GoneNoJobs'
        BY <1>10, KeysKnown, KeysApart DEF MovePauses, HandlerRest, Rest, HandTo, GoesTo, RowTo, OnMove, Owned, GoneNoJobs, NoJob,
            RunningRows, TaskGone, ExtractSteps, MoveSteps, Busy
    <2>6. BootIdle'
        BY <1>10, KeysKnown, KeysApart DEF MovePauses, HandlerRest, Rest, HandTo, GoesTo, RowTo, OnMove, Owned, BootIdle,
            ExtractSteps, MoveSteps, Busy
    <2>7. NotesInRow'
        BY <1>10, KeysKnown, KeysApart DEF MovePauses, HandlerRest, Rest, HandTo, GoesTo, RowTo, OnMove, Owned, NotesInRow, Notes,
            NoJob, ExtractSteps, MoveSteps, Busy
    <2> QED
        BY <2>1, <2>2, <2>3, <2>4, <2>5, <2>6, <2>7 DEF Owned
<1>11. ASSUME NEW w \in Workers, NEW t \in Tasks, MoveSettles(w, t) PROVE Owned'
    <2>1. KindsFit'
        BY <1>11, KeysKnown, KeysApart DEF MoveSettles, HandlerRest, Rest, HandTo, GoesTo, RowTo, OnMove, Owned, KindsFit,
            ExtractSteps, MoveSteps, Busy
    <2>2. ChainsOwned'
        BY <1>11, KeysKnown, KeysApart DEF MoveSettles, HandlerRest, Rest, HandTo, GoesTo, RowTo, OnMove, Owned, ChainsOwned,
            Actors, ExtractSteps, MoveSteps, Busy
    <2>3. RunnersApart'
        BY <1>11, KeysKnown, KeysApart DEF MoveSettles, HandlerRest, Rest, HandTo, GoesTo, RowTo, OnMove, Owned, RunnersApart,
            ExtractSteps, MoveSteps, Busy
    <2>4. RunningRows'
        BY <1>11, KeysKnown, KeysApart DEF MoveSettles, HandlerRest, Rest, HandTo, GoesTo, RowTo, OnMove, Owned, RunningRows,
            TaskGone, ExtractSteps, MoveSteps, Busy
    <2>5. GoneNoJobs'
        BY <1>11, KeysKnown, KeysApart DEF MoveSettles, HandlerRest, Rest, HandTo, GoesTo, RowTo, OnMove, Owned, GoneNoJobs,
            NoJob, RunningRows, TaskGone, ExtractSteps, MoveSteps, Busy
    <2>6. BootIdle'
        BY <1>11, KeysKnown, KeysApart DEF MoveSettles, HandlerRest, Rest, HandTo, GoesTo, RowTo, OnMove, Owned, BootIdle,
            ExtractSteps, MoveSteps, Busy
    <2>7. NotesInRow'
        BY <1>11, KeysKnown, KeysApart DEF MoveSettles, HandlerRest, Rest, HandTo, GoesTo, RowTo, OnMove, Owned, NotesInRow,
            Notes, NoJob, ExtractSteps, MoveSteps, Busy
    <2> QED
        BY <2>1, <2>2, <2>3, <2>4, <2>5, <2>6, <2>7 DEF Owned
<1>12. ASSUME NEW w \in Workers, NEW t \in Tasks, MoveCompletes(w, t) PROVE Owned'
    <2>1. KindsFit'
        BY <1>12, KeysKnown, KeysApart DEF MoveCompletes, HandlerRest, Rest, HandTo, GoesTo, RowTo, ChainTo, OnMove, Owned,
            KindsFit, ExtractSteps, MoveSteps, Busy
    <2>2. ChainsOwned'
        BY <1>12, KeysKnown, KeysApart DEF MoveCompletes, HandlerRest, Rest, HandTo, GoesTo, RowTo, ChainTo, OnMove, Owned,
            ChainsOwned, Actors, ExtractSteps, MoveSteps, Busy
    <2>3. RunnersApart'
        BY <1>12, KeysKnown, KeysApart DEF MoveCompletes, HandlerRest, Rest, HandTo, GoesTo, RowTo, ChainTo, OnMove, Owned,
            RunnersApart, ExtractSteps, MoveSteps, Busy
    <2>4. RunningRows'
        BY <1>12, KeysKnown, KeysApart DEF MoveCompletes, HandlerRest, Rest, HandTo, GoesTo, RowTo, ChainTo, OnMove, Owned,
            RunningRows, TaskGone, ExtractSteps, MoveSteps, Busy
    <2>5. GoneNoJobs'
        BY <1>12, KeysKnown, KeysApart DEF MoveCompletes, HandlerRest, Rest, HandTo, GoesTo, RowTo, ChainTo, OnMove, Owned,
            GoneNoJobs, NoJob, RunningRows, TaskGone, ExtractSteps, MoveSteps, Busy
    <2>6. BootIdle'
        BY <1>12, KeysKnown, KeysApart DEF MoveCompletes, HandlerRest, Rest, HandTo, GoesTo, RowTo, ChainTo, OnMove, Owned,
            BootIdle, ExtractSteps, MoveSteps, Busy
    <2>7. NotesInRow'
        BY <1>12, KeysKnown, KeysApart DEF MoveCompletes, HandlerRest, Rest, HandTo, GoesTo, RowTo, ChainTo, OnMove, Owned,
            NotesInRow, Notes, NoJob, ExtractSteps, MoveSteps, Busy
    <2> QED
        BY <2>1, <2>2, <2>3, <2>4, <2>5, <2>6, <2>7 DEF Owned
<1>13. ASSUME NEW w \in Workers, NEW t \in Tasks, MoveFiles(w, t) PROVE Owned'
    <2>1. KindsFit'
        BY <1>13, KeysKnown, KeysApart DEF MoveFiles, HandlerRest, Rest, HandTo, GoesTo, DiskTo, OnMove, Owned, KindsFit,
            ExtractSteps, MoveSteps, Busy
    <2>2. ChainsOwned'
        BY <1>13, KeysKnown, KeysApart DEF MoveFiles, HandlerRest, Rest, HandTo, GoesTo, DiskTo, OnMove, Owned, ChainsOwned,
            Actors, ExtractSteps, MoveSteps, Busy
    <2>3. RunnersApart'
        BY <1>13, KeysKnown, KeysApart DEF MoveFiles, HandlerRest, Rest, HandTo, GoesTo, DiskTo, OnMove, Owned, RunnersApart,
            ExtractSteps, MoveSteps, Busy
    <2>4. RunningRows'
        <3>1. \A v \in Workers : hand'[v].job = hand[v].job /\ hand'[v].attempts = hand[v].attempts /\ (Busy(v)' => Busy(v))
            BY <1>13 DEF MoveFiles, HandTo, GoesTo, OnMove, ExtractSteps, MoveSteps, Busy
        <3>2. \A u \in Tasks : row'[u].st = "gone" <=> row[u].st = "gone"
            BY <1>13 DEF MoveFiles, RowTo
        <3>3. jobs' = jobs
            BY <1>13 DEF MoveFiles, HandlerRest
        <3> QED
            BY <3>1, <3>2, <3>3 DEF Owned, RunningRows, TaskGone
    <2>5. GoneNoJobs'
        BY <1>13, KeysKnown, KeysApart DEF MoveFiles, HandlerRest, Rest, HandTo, GoesTo, DiskTo, OnMove, Owned, GoneNoJobs, NoJob,
            RunningRows, TaskGone, ExtractSteps, MoveSteps, Busy
    <2>6. BootIdle'
        BY <1>13, KeysKnown, KeysApart DEF MoveFiles, HandlerRest, Rest, HandTo, GoesTo, DiskTo, OnMove, Owned, BootIdle,
            ExtractSteps, MoveSteps, Busy
    <2>7. NotesInRow'
        BY <1>13, KeysKnown, KeysApart DEF MoveFiles, HandlerRest, Rest, HandTo, GoesTo, DiskTo, OnMove, Owned, NotesInRow, Notes,
            NoJob, ExtractSteps, MoveSteps, Busy
    <2> QED
        BY <2>1, <2>2, <2>3, <2>4, <2>5, <2>6, <2>7 DEF Owned
<1>14. ASSUME NEW w \in Workers, Sends(w) PROVE Owned'
    <2>1. KindsFit'
        BY <1>14, KeysKnown, KeysApart DEF Sends, HandlerRest, Rest, HandTo, GoesTo, Owned, KindsFit, ExtractSteps, MoveSteps,
            Busy
    <2>2. ChainsOwned'
        BY <1>14, KeysKnown, KeysApart DEF Sends, HandlerRest, Rest, HandTo, GoesTo, Owned, ChainsOwned, Actors, ExtractSteps,
            MoveSteps, Busy
    <2>3. RunnersApart'
        BY <1>14, KeysKnown, KeysApart DEF Sends, HandlerRest, Rest, HandTo, GoesTo, Owned, RunnersApart, ExtractSteps, MoveSteps,
            Busy
    <2>4. RunningRows'
        BY <1>14, KeysKnown, KeysApart DEF Sends, HandlerRest, Rest, HandTo, GoesTo, Owned, RunningRows, TaskGone, ExtractSteps,
            MoveSteps, Busy
    <2>5. GoneNoJobs'
        BY <1>14, KeysKnown, KeysApart DEF Sends, HandlerRest, Rest, HandTo, GoesTo, Owned, GoneNoJobs, NoJob, RunningRows,
            TaskGone, ExtractSteps, MoveSteps, Busy
    <2>6. BootIdle'
        BY <1>14, KeysKnown, KeysApart DEF Sends, HandlerRest, Rest, HandTo, GoesTo, Owned, BootIdle, ExtractSteps, MoveSteps,
            Busy
    <2>7. NotesInRow'
        BY <1>14, KeysKnown, KeysApart DEF Sends, HandlerRest, Rest, HandTo, GoesTo, Owned, NotesInRow, Notes, NoJob,
            ExtractSteps, MoveSteps, Busy
    <2> QED
        BY <2>1, <2>2, <2>3, <2>4, <2>5, <2>6, <2>7 DEF Owned
<1>15. ASSUME NEW w \in Workers, Returns(w) PROVE Owned'
    <2>1. KindsFit'
        BY <1>15, KeysKnown, KeysApart DEF Returns, HandlerRest, Rest, HandTo, GoesTo, Owned, KindsFit, ExtractSteps, MoveSteps,
            Busy
    <2>2. ChainsOwned'
        BY <1>15, KeysKnown, KeysApart DEF Returns, HandlerRest, Rest, HandTo, GoesTo, Owned, ChainsOwned, Actors, ExtractSteps,
            MoveSteps, Busy
    <2>3. RunnersApart'
        BY <1>15, KeysKnown, KeysApart DEF Returns, HandlerRest, Rest, HandTo, GoesTo, Owned, RunnersApart, ExtractSteps,
            MoveSteps, Busy
    <2>4. RunningRows'
        BY <1>15, KeysKnown, KeysApart DEF Returns, HandlerRest, Rest, HandTo, GoesTo, Owned, RunningRows, TaskGone, ExtractSteps,
            MoveSteps, Busy
    <2>5. GoneNoJobs'
        BY <1>15, KeysKnown, KeysApart DEF Returns, HandlerRest, Rest, HandTo, GoesTo, Owned, GoneNoJobs, NoJob, RunningRows,
            TaskGone, ExtractSteps, MoveSteps, Busy
    <2>6. BootIdle'
        BY <1>15, KeysKnown, KeysApart DEF Returns, HandlerRest, Rest, HandTo, GoesTo, Owned, BootIdle, ExtractSteps, MoveSteps,
            Busy
    <2>7. NotesInRow'
        BY <1>15, KeysKnown, KeysApart DEF Returns, HandlerRest, Rest, HandTo, GoesTo, Owned, NotesInRow, Notes, NoJob,
            ExtractSteps, MoveSteps, Busy
    <2> QED
        BY <2>1, <2>2, <2>3, <2>4, <2>5, <2>6, <2>7 DEF Owned
<1>16. ASSUME NEW w \in Workers, Outcomes(w) PROVE Owned'
    <2>1. KindsFit'
        BY <1>16, KeysKnown, KeysApart DEF Outcomes, PoolRest, Rest, JobTo, Owned, KindsFit, ExtractSteps, MoveSteps, Busy
    <2>2. ChainsOwned'
        BY <1>16, KeysKnown, KeysApart DEF Outcomes, PoolRest, Rest, JobTo, Owned, ChainsOwned, Actors, ExtractSteps, MoveSteps,
            Busy
    <2>3. RunnersApart'
        BY <1>16, KeysKnown, KeysApart DEF Outcomes, PoolRest, Rest, JobTo, Owned, RunnersApart, ExtractSteps, MoveSteps, Busy
    <2>4. RunningRows'
        BY <1>16, KeysKnown, KeysApart, SMTT(30) DEF Outcomes, PoolRest, Rest, JobTo, Owned, RunningRows, TaskGone, ExtractSteps, MoveSteps,
            Busy, RunnersApart, KindsFit
    <2>5. GoneNoJobs'
        BY <1>16, KeysKnown, KeysApart DEF Outcomes, PoolRest, Rest, JobTo, Owned, GoneNoJobs, NoJob, RunningRows, TaskGone,
            ExtractSteps, MoveSteps, Busy
    <2>6. BootIdle'
        BY <1>16, KeysKnown, KeysApart DEF Outcomes, PoolRest, Rest, JobTo, Owned, BootIdle, ExtractSteps, MoveSteps, Busy
    <2>7. NotesInRow'
        BY <1>16, KeysKnown, KeysApart DEF Outcomes, PoolRest, Rest, JobTo, Owned, NotesInRow, Notes, NoJob, ExtractSteps,
            MoveSteps, Busy
    <2> QED
        BY <2>1, <2>2, <2>3, <2>4, <2>5, <2>6, <2>7 DEF Owned
<1>17. ASSUME NEW w \in Workers, NEW j \in JobKeys, Claims(w, j) PROVE Owned'
    <2>1. KindsFit'
        BY <1>17, KeysKnown, KeysApart DEF Claims, PoolRest, Rest, JobTo, Owned, KindsFit, ExtractSteps, MoveSteps, Busy
    <2>2. ChainsOwned'
        BY <1>17, KeysKnown, KeysApart DEF Claims, PoolRest, Rest, JobTo, Owned, ChainsOwned, Actors, ExtractSteps, MoveSteps,
            Busy
    <2>3. RunnersApart'
        <3>1. ASSUME NEW v \in Workers, Busy(v), hand[v].job = j PROVE FALSE
            <4>1. jobs[j].st = "pending"
                BY <1>17 DEF Claims
            <4>2. \/ jobs[j] = [st |-> "running", attempts |-> hand[v].attempts]
                  \/ TaskGone(j)
                BY <3>1 DEF Owned, RunningRows
            <4>3. TaskGone(j) => jobs[j].st = "none"
                BY DEF Owned, GoneNoJobs, NoJob, TaskGone
            <4> QED
                BY <4>1, <4>2, <4>3
        <3> QED
            BY <1>17, <3>1 DEF Claims, Owned, RunnersApart, Busy
    <2>4. RunningRows'
        BY <1>17, KeysKnown, KeysApart DEF Claims, PoolRest, Rest, JobTo, Owned, RunningRows, TaskGone, ExtractSteps, MoveSteps,
            Busy, KindsFit
    <2>5. GoneNoJobs'
        BY <1>17, KeysKnown, KeysApart DEF Claims, PoolRest, Rest, JobTo, Owned, GoneNoJobs, NoJob, RunningRows, TaskGone,
            ExtractSteps, MoveSteps, Busy
    <2>6. BootIdle'
        BY <1>17, KeysKnown, KeysApart DEF Claims, PoolRest, Rest, JobTo, Owned, BootIdle, ExtractSteps, MoveSteps, Busy
    <2>7. NotesInRow'
        BY <1>17, KeysKnown, KeysApart DEF Claims, PoolRest, Rest, JobTo, Owned, NotesInRow, Notes, NoJob, ExtractSteps,
            MoveSteps, Busy, JobRows
    <2> QED
        BY <2>1, <2>2, <2>3, <2>4, <2>5, <2>6, <2>7 DEF Owned
<1>18. ASSUME NEW a \in Actors, NEW t \in Tasks, PassGoes(a, t) PROVE Owned'
    <2>1. KindsFit'
        BY <1>18, KeysKnown, KeysApart DEF PassGoes, Passing, PassRest, Rest, ChainTo, Owned, KindsFit, ExtractSteps, MoveSteps,
            Busy
    <2>2. ChainsOwned'
        BY <1>18, KeysKnown, KeysApart DEF PassGoes, Passing, PassRest, Rest, ChainTo, Owned, ChainsOwned, Actors, ExtractSteps,
            MoveSteps, Busy
    <2>3. RunnersApart'
        BY <1>18, KeysKnown, KeysApart DEF PassGoes, Passing, PassRest, Rest, ChainTo, Owned, RunnersApart, ExtractSteps,
            MoveSteps, Busy
    <2>4. RunningRows'
        BY <1>18, KeysKnown, KeysApart DEF PassGoes, Passing, PassRest, Rest, ChainTo, Owned, RunningRows, TaskGone, ExtractSteps,
            MoveSteps, Busy
    <2>5. GoneNoJobs'
        BY <1>18, KeysKnown, KeysApart DEF PassGoes, Passing, PassRest, Rest, ChainTo, Owned, GoneNoJobs, NoJob, RunningRows,
            TaskGone, ExtractSteps, MoveSteps, Busy
    <2>6. BootIdle'
        BY <1>18, KeysKnown, KeysApart DEF PassGoes, Passing, PassRest, Rest, ChainTo, Owned, BootIdle, ExtractSteps, MoveSteps,
            Busy
    <2>7. NotesInRow'
        BY <1>18, KeysKnown, KeysApart DEF PassGoes, Passing, PassRest, Rest, ChainTo, Owned, NotesInRow, Notes, NoJob,
            ExtractSteps, MoveSteps, Busy
    <2> QED
        BY <2>1, <2>2, <2>3, <2>4, <2>5, <2>6, <2>7 DEF Owned
<1>19. ASSUME NEW a \in Actors, NEW t \in Tasks, PassResets(a, t) PROVE Owned'
    <2>1. KindsFit'
        BY <1>19, KeysKnown, KeysApart DEF PassResets, Passing, PassRest, Rest, ChainTo, JobTo, Owned, KindsFit, ExtractSteps,
            MoveSteps, Busy
    <2>2. ChainsOwned'
        BY <1>19, KeysKnown, KeysApart DEF PassResets, Passing, PassRest, Rest, ChainTo, JobTo, Owned, ChainsOwned, Actors,
            ExtractSteps, MoveSteps, Busy
    <2>3. RunnersApart'
        BY <1>19, KeysKnown, KeysApart DEF PassResets, Passing, PassRest, Rest, ChainTo, JobTo, Owned, RunnersApart, ExtractSteps,
            MoveSteps, Busy
    <2>4. RunningRows'
        BY <1>19, KeysKnown, KeysApart DEF PassResets, Passing, PassRest, Rest, ChainTo, JobTo, Owned, RunningRows, TaskGone,
            ExtractSteps, MoveSteps, Busy, KindsFit
    <2>5. GoneNoJobs'
        BY <1>19, KeysKnown, KeysApart DEF PassResets, Passing, PassRest, Rest, ChainTo, JobTo, Owned, GoneNoJobs, NoJob,
            RunningRows, TaskGone, ExtractSteps, MoveSteps, Busy
    <2>6. BootIdle'
        BY <1>19, KeysKnown, KeysApart DEF PassResets, Passing, PassRest, Rest, ChainTo, JobTo, Owned, BootIdle, ExtractSteps,
            MoveSteps, Busy
    <2>7. NotesInRow'
        BY <1>19, KeysKnown, KeysApart DEF PassResets, Passing, PassRest, Rest, ChainTo, JobTo, Owned, NotesInRow, Notes, NoJob,
            ExtractSteps, MoveSteps, Busy
    <2> QED
        BY <2>1, <2>2, <2>3, <2>4, <2>5, <2>6, <2>7 DEF Owned
<1>20. ASSUME NEW a \in Actors, NEW t \in Tasks, PassInserts(a, t) PROVE Owned'
    <2>1. KindsFit'
        BY <1>20, KeysKnown, KeysApart DEF PassInserts, Passing, PassRest, Rest, ChainTo, JobTo, Owned, KindsFit, ExtractSteps,
            MoveSteps, Busy
    <2>2. ChainsOwned'
        BY <1>20, KeysKnown, KeysApart DEF PassInserts, Passing, PassRest, Rest, ChainTo, JobTo, Owned, ChainsOwned, Actors,
            ExtractSteps, MoveSteps, Busy
    <2>3. RunnersApart'
        BY <1>20, KeysKnown, KeysApart DEF PassInserts, Passing, PassRest, Rest, ChainTo, JobTo, Owned, RunnersApart,
            ExtractSteps, MoveSteps, Busy
    <2>4. RunningRows'
        BY <1>20, KeysKnown, KeysApart DEF PassInserts, Passing, PassRest, Rest, ChainTo, JobTo, Owned, RunningRows, TaskGone,
            ExtractSteps, MoveSteps, Busy, KindsFit
    <2>5. GoneNoJobs'
        BY <1>20, KeysKnown, KeysApart DEF PassInserts, Passing, PassRest, Rest, ChainTo, JobTo, Owned, GoneNoJobs, NoJob,
            RunningRows, TaskGone, ExtractSteps, MoveSteps, Busy
    <2>6. BootIdle'
        BY <1>20, KeysKnown, KeysApart DEF PassInserts, Passing, PassRest, Rest, ChainTo, JobTo, Owned, BootIdle, ExtractSteps,
            MoveSteps, Busy
    <2>7. NotesInRow'
        BY <1>20, KeysKnown, KeysApart DEF PassInserts, Passing, PassRest, Rest, ChainTo, JobTo, Owned, NotesInRow, Notes, NoJob,
            ExtractSteps, MoveSteps, Busy
    <2> QED
        BY <2>1, <2>2, <2>3, <2>4, <2>5, <2>6, <2>7 DEF Owned
<1>21. ASSUME NEW a \in Actors, NEW t \in Tasks, PassEnqueues(a, t) PROVE Owned'
    <2>1. KindsFit'
        BY <1>21, KeysKnown, KeysApart DEF PassEnqueues, Passing, PassRest, Rest, ChainTo, JobTo, Owned, KindsFit, ExtractSteps,
            MoveSteps, Busy
    <2>2. ChainsOwned'
        BY <1>21, KeysKnown, KeysApart DEF PassEnqueues, Passing, PassRest, Rest, ChainTo, JobTo, Owned, ChainsOwned, Actors,
            ExtractSteps, MoveSteps, Busy
    <2>3. RunnersApart'
        BY <1>21, KeysKnown, KeysApart DEF PassEnqueues, Passing, PassRest, Rest, ChainTo, JobTo, Owned, RunnersApart,
            ExtractSteps, MoveSteps, Busy
    <2>4. RunningRows'
        BY <1>21, KeysKnown, KeysApart DEF PassEnqueues, Passing, PassRest, Rest, ChainTo, JobTo, Owned, RunningRows, TaskGone,
            ExtractSteps, MoveSteps, Busy, KindsFit
    <2>5. GoneNoJobs'
        BY <1>21, KeysKnown, KeysApart DEF PassEnqueues, Passing, PassRest, Rest, ChainTo, JobTo, Owned, GoneNoJobs, NoJob,
            RunningRows, TaskGone, ExtractSteps, MoveSteps, Busy
    <2>6. BootIdle'
        BY <1>21, KeysKnown, KeysApart DEF PassEnqueues, Passing, PassRest, Rest, ChainTo, JobTo, Owned, BootIdle, ExtractSteps,
            MoveSteps, Busy
    <2>7. NotesInRow'
        BY <1>21, KeysKnown, KeysApart DEF PassEnqueues, Passing, PassRest, Rest, ChainTo, JobTo, Owned, NotesInRow, Notes, NoJob,
            ExtractSteps, MoveSteps, Busy
    <2> QED
        BY <2>1, <2>2, <2>3, <2>4, <2>5, <2>6, <2>7 DEF Owned
<1>22. ASSUME NEW a \in Actors, NEW t \in Tasks, PassNotifies(a, t) PROVE Owned'
    <2>1. KindsFit'
        BY <1>22, KeysKnown, KeysApart DEF PassNotifies, Passing, PassRest, Rest, ChainTo, JobTo, Owned, KindsFit, ExtractSteps,
            MoveSteps, Busy
    <2>2. ChainsOwned'
        BY <1>22, KeysKnown, KeysApart DEF PassNotifies, Passing, PassRest, Rest, ChainTo, JobTo, Owned, ChainsOwned, Actors,
            ExtractSteps, MoveSteps, Busy
    <2>3. RunnersApart'
        BY <1>22, KeysKnown, KeysApart DEF PassNotifies, Passing, PassRest, Rest, ChainTo, JobTo, Owned, RunnersApart,
            ExtractSteps, MoveSteps, Busy
    <2>4. RunningRows'
        BY <1>22, KeysKnown, KeysApart, NextNoteFree DEF PassNotifies, Passing, PassRest, Rest, ChainTo, JobTo, Owned,
            RunningRows, TaskGone, ExtractSteps, MoveSteps, Busy, KindsFit
    <2>5. GoneNoJobs'
        BY <1>22, KeysKnown, KeysApart DEF PassNotifies, Passing, PassRest, Rest, ChainTo, JobTo, Owned, GoneNoJobs, NoJob,
            RunningRows, TaskGone, ExtractSteps, MoveSteps, Busy
    <2>6. BootIdle'
        BY <1>22, KeysKnown, KeysApart DEF PassNotifies, Passing, PassRest, Rest, ChainTo, JobTo, Owned, BootIdle, ExtractSteps,
            MoveSteps, Busy
    <2>7. NotesInRow'
        <3>1. PICK k \in 0 .. MaxNotes : Notes(t) = 1 .. k /\ Cardinality(Notes(t)) = k
            BY NotesCounted
        <3>2. k \in Nat /\ MaxNotes \in Nat /\ k < MaxNotes /\ k + 1 \in 0 .. MaxNotes
            BY <1>22, <3>1, PostProcessAssumption DEF PassNotifies, MaxNotes
        <3>3. JobTo(WebhookJob(t, k + 1), "pending", 0)
            BY <1>22, <3>1 DEF PassNotifies
        <3>4. Notes(t)' = 1 .. (k + 1)
            <4>1. \A n \in 1 .. MaxNotes : n \in Notes(t)' <=> n \in Notes(t) \/ n = k + 1
                BY <3>3, KeysKnown, KeysApart DEF JobTo, Notes
            <4> QED
                BY <3>1, <3>2, <4>1 DEF Notes
        <3>5. \A u \in Tasks \ {t} : Notes(u)' = Notes(u)
            BY <3>3, KeysKnown, KeysApart DEF JobTo, Notes
        <3> QED
            BY <3>2, <3>4, <3>5 DEF Owned, NotesInRow
    <2> QED
        BY <2>1, <2>2, <2>3, <2>4, <2>5, <2>6, <2>7 DEF Owned
<1>23. ASSUME NEW a \in Actors, NEW t \in Tasks, PassRemoves(a, t) PROVE Owned'
    <2>1. KindsFit'
        BY <1>23, KeysKnown, KeysApart DEF PassRemoves, Passing, PassRest, Rest, ChainTo, RowTo, Owned, KindsFit, ExtractSteps,
            MoveSteps, Busy
    <2>2. ChainsOwned'
        BY <1>23, KeysKnown, KeysApart DEF PassRemoves, Passing, PassRest, Rest, ChainTo, RowTo, Owned, ChainsOwned, Actors,
            ExtractSteps, MoveSteps, Busy
    <2>3. RunnersApart'
        BY <1>23, KeysKnown, KeysApart DEF PassRemoves, Passing, PassRest, Rest, ChainTo, RowTo, Owned, RunnersApart,
            ExtractSteps, MoveSteps, Busy
    <2>4. RunningRows'
        <3>0. hand' = hand
            BY <1>23 DEF PassRemoves, PassRest
        <3>1. \A j : TaskGone(j) => TaskGone(j)'
            BY <1>23 DEF PassRemoves, RowTo, TaskGone
        <3>2. \A j \in {ExtractJob(t), MoveJob(t)} : TaskGone(j)'
            BY <1>23 DEF PassRemoves, RowTo, TaskGone
        <3>3. ASSUME NEW w \in Workers, Busy(w)
              PROVE  \/ jobs'[hand[w].job] = [st |-> "running", attempts |-> hand[w].attempts]
                     \/ TaskGone(hand[w].job)'
            <4>1. hand[w].job \in JobKeys
                BY <3>3 DEF Owned, KindsFit
            <4>2. \/ jobs[hand[w].job] = [st |-> "running", attempts |-> hand[w].attempts]
                  \/ TaskGone(hand[w].job)
                BY <3>3 DEF Owned, RunningRows
            <4>3. hand[w].job \notin {ExtractJob(t), MoveJob(t)} => jobs'[hand[w].job] = jobs[hand[w].job]
                BY <1>23, <4>1 DEF PassRemoves
            <4> QED
                BY <3>0, <3>1, <3>2, <4>2, <4>3
        <3> QED
            BY <3>0, <3>3 DEF RunningRows, Busy
    <2>5. GoneNoJobs'
        <3>1. jobs'[ExtractJob(t)] = NoJob /\ jobs'[MoveJob(t)] = NoJob
            BY <1>23 DEF PassRemoves
        <3>2. ASSUME NEW u \in Tasks \ {t}, row'[u].st = "gone"
              PROVE  jobs'[ExtractJob(u)] = NoJob /\ jobs'[MoveJob(u)] = NoJob
            <4>1. jobs[ExtractJob(u)] = NoJob /\ jobs[MoveJob(u)] = NoJob
                BY <1>23, <3>2 DEF PassRemoves, RowTo, Owned, GoneNoJobs
            <4>2. {ExtractJob(u), MoveJob(u)} \subseteq JobKeys \ {ExtractJob(t), MoveJob(t)}
                BY <3>2, KeysKnown, KeysApart
            <4> QED
                BY <1>23, <4>1, <4>2 DEF PassRemoves
        <3> QED
            BY <3>1, <3>2 DEF GoneNoJobs
    <2>6. BootIdle'
        BY <1>23, KeysKnown, KeysApart DEF PassRemoves, Passing, PassRest, Rest, ChainTo, RowTo, Owned, BootIdle, ExtractSteps,
            MoveSteps, Busy, NoJob
    <2>7. NotesInRow'
        BY <1>23, KeysKnown, KeysApart DEF PassRemoves, Passing, PassRest, Rest, ChainTo, RowTo, Owned, NotesInRow, Notes, NoJob,
            ExtractSteps, MoveSteps, Busy
    <2> QED
        BY <2>1, <2>2, <2>3, <2>4, <2>5, <2>6, <2>7 DEF Owned
<1>24. ASSUME NEW t \in Tasks, Finishes(t) PROVE Owned'
    <2>1. KindsFit'
        BY <1>24, KeysKnown, KeysApart DEF Finishes, RowRest, Rest, RowTo, ChainTo, Owned, KindsFit, ExtractSteps, MoveSteps, Busy
    <2>2. ChainsOwned'
        BY <1>24, KeysKnown, KeysApart DEF Finishes, RowRest, Rest, RowTo, ChainTo, Owned, ChainsOwned, Actors, ExtractSteps,
            MoveSteps, Busy
    <2>3. RunnersApart'
        BY <1>24, KeysKnown, KeysApart DEF Finishes, RowRest, Rest, RowTo, ChainTo, Owned, RunnersApart, ExtractSteps, MoveSteps,
            Busy
    <2>4. RunningRows'
        BY <1>24, KeysKnown, KeysApart DEF Finishes, RowRest, Rest, RowTo, ChainTo, Owned, RunningRows, TaskGone, ExtractSteps,
            MoveSteps, Busy
    <2>5. GoneNoJobs'
        BY <1>24, KeysKnown, KeysApart DEF Finishes, RowRest, Rest, RowTo, ChainTo, Owned, GoneNoJobs, NoJob, RunningRows,
            TaskGone, ExtractSteps, MoveSteps, Busy
    <2>6. BootIdle'
        BY <1>24, KeysKnown, KeysApart DEF Finishes, RowRest, Rest, RowTo, ChainTo, Owned, BootIdle, ExtractSteps, MoveSteps, Busy
    <2>7. NotesInRow'
        BY <1>24, KeysKnown, KeysApart DEF Finishes, RowRest, Rest, RowTo, ChainTo, Owned, NotesInRow, Notes, NoJob, ExtractSteps,
            MoveSteps, Busy
    <2> QED
        BY <2>1, <2>2, <2>3, <2>4, <2>5, <2>6, <2>7 DEF Owned
<1>25. ASSUME NEW t \in Tasks, Adopts(t) PROVE Owned'
    <2>1. KindsFit'
        BY <1>25, KeysKnown, KeysApart DEF Adopts, RowRest, Rest, RowTo, ChainTo, Owned, KindsFit, ExtractSteps, MoveSteps, Busy
    <2>2. ChainsOwned'
        BY <1>25, KeysKnown, KeysApart DEF Adopts, RowRest, Rest, RowTo, ChainTo, Owned, ChainsOwned, Actors, ExtractSteps,
            MoveSteps, Busy
    <2>3. RunnersApart'
        BY <1>25, KeysKnown, KeysApart DEF Adopts, RowRest, Rest, RowTo, ChainTo, Owned, RunnersApart, ExtractSteps, MoveSteps,
            Busy
    <2>4. RunningRows'
        BY <1>25, KeysKnown, KeysApart DEF Adopts, RowRest, Rest, RowTo, ChainTo, Owned, RunningRows, TaskGone, ExtractSteps,
            MoveSteps, Busy
    <2>5. GoneNoJobs'
        BY <1>25, KeysKnown, KeysApart DEF Adopts, RowRest, Rest, RowTo, ChainTo, Owned, GoneNoJobs, NoJob, RunningRows, TaskGone,
            ExtractSteps, MoveSteps, Busy
    <2>6. BootIdle'
        BY <1>25, KeysKnown, KeysApart DEF Adopts, RowRest, Rest, RowTo, ChainTo, Owned, BootIdle, ExtractSteps, MoveSteps, Busy
    <2>7. NotesInRow'
        BY <1>25, KeysKnown, KeysApart DEF Adopts, RowRest, Rest, RowTo, ChainTo, Owned, NotesInRow, Notes, NoJob, ExtractSteps,
            MoveSteps, Busy
    <2> QED
        BY <2>1, <2>2, <2>3, <2>4, <2>5, <2>6, <2>7 DEF Owned
<1>26. ASSUME NEW t \in Tasks, Operates(t) PROVE Owned'
    <2>1. KindsFit'
        BY <1>26, KeysKnown, KeysApart DEF Operates, RowRest, Rest, RowTo, Owned, KindsFit, ExtractSteps, MoveSteps, Busy
    <2>2. ChainsOwned'
        BY <1>26, KeysKnown, KeysApart DEF Operates, RowRest, Rest, RowTo, Owned, ChainsOwned, Actors, ExtractSteps, MoveSteps,
            Busy
    <2>3. RunnersApart'
        BY <1>26, KeysKnown, KeysApart DEF Operates, RowRest, Rest, RowTo, Owned, RunnersApart, ExtractSteps, MoveSteps, Busy
    <2>4. RunningRows'
        BY <1>26, KeysKnown, KeysApart DEF Operates, RowRest, Rest, RowTo, Owned, RunningRows, TaskGone, ExtractSteps, MoveSteps,
            Busy
    <2>5. GoneNoJobs'
        BY <1>26, KeysKnown, KeysApart DEF Operates, RowRest, Rest, RowTo, Owned, GoneNoJobs, NoJob, RunningRows, TaskGone,
            ExtractSteps, MoveSteps, Busy
    <2>6. BootIdle'
        BY <1>26, KeysKnown, KeysApart DEF Operates, RowRest, Rest, RowTo, Owned, BootIdle, ExtractSteps, MoveSteps, Busy
    <2>7. NotesInRow'
        BY <1>26, KeysKnown, KeysApart DEF Operates, RowRest, Rest, RowTo, Owned, NotesInRow, Notes, NoJob, ExtractSteps,
            MoveSteps, Busy
    <2> QED
        BY <2>1, <2>2, <2>3, <2>4, <2>5, <2>6, <2>7 DEF Owned
<1>27. ASSUME Recovers PROVE Owned'
    <2>1. KindsFit'
        BY <1>27, KeysKnown, KeysApart DEF Recovers, PoolRest, Rest, Owned, KindsFit, ExtractSteps, MoveSteps, Busy
    <2>2. ChainsOwned'
        BY <1>27, KeysKnown, KeysApart DEF Recovers, PoolRest, Rest, Owned, ChainsOwned, Actors, ExtractSteps, MoveSteps, Busy
    <2>3. RunnersApart'
        BY <1>27, KeysKnown, KeysApart DEF Recovers, PoolRest, Rest, Owned, RunnersApart, ExtractSteps, MoveSteps, Busy
    <2>4. RunningRows'
        BY <1>27, KeysKnown, KeysApart DEF Recovers, PoolRest, Rest, Owned, RunningRows, TaskGone, ExtractSteps, MoveSteps, Busy,
            BootIdle
    <2>5. GoneNoJobs'
        BY <1>27, KeysKnown, KeysApart DEF Recovers, PoolRest, Rest, Owned, GoneNoJobs, NoJob, RunningRows, TaskGone,
            ExtractSteps, MoveSteps, Busy
    <2>6. BootIdle'
        BY <1>27, KeysKnown, KeysApart DEF Recovers, PoolRest, Rest, Owned, BootIdle, ExtractSteps, MoveSteps, Busy
    <2>7. NotesInRow'
        BY <1>27, KeysKnown, KeysApart DEF Recovers, PoolRest, Rest, Owned, NotesInRow, Notes, NoJob, ExtractSteps, MoveSteps,
            Busy
    <2> QED
        BY <2>1, <2>2, <2>3, <2>4, <2>5, <2>6, <2>7 DEF Owned
<1>28. ASSUME Dies PROVE Owned'
    <2>1. KindsFit'
        BY <1>28, KeysKnown, KeysApart DEF Dies, Rest, Owned, KindsFit, ExtractSteps, MoveSteps, Busy
    <2>2. ChainsOwned'
        BY <1>28, KeysKnown, KeysApart DEF Dies, Rest, Owned, ChainsOwned, Actors, ExtractSteps, MoveSteps, Busy
    <2>3. RunnersApart'
        BY <1>28, KeysKnown, KeysApart DEF Dies, Rest, Owned, RunnersApart, ExtractSteps, MoveSteps, Busy
    <2>4. RunningRows'
        BY <1>28, KeysKnown, KeysApart DEF Dies, Rest, Owned, RunningRows, TaskGone, ExtractSteps, MoveSteps, Busy
    <2>5. GoneNoJobs'
        BY <1>28, KeysKnown, KeysApart DEF Dies, Rest, Owned, GoneNoJobs, NoJob, RunningRows, TaskGone, ExtractSteps, MoveSteps,
            Busy
    <2>6. BootIdle'
        BY <1>28, KeysKnown, KeysApart DEF Dies, Rest, Owned, BootIdle, ExtractSteps, MoveSteps, Busy
    <2>7. NotesInRow'
        BY <1>28, KeysKnown, KeysApart DEF Dies, Rest, Owned, NotesInRow, Notes, NoJob, ExtractSteps, MoveSteps, Busy
    <2> QED
        BY <2>1, <2>2, <2>3, <2>4, <2>5, <2>6, <2>7 DEF Owned
<1>29. ASSUME Stops PROVE Owned'
    <2>1. KindsFit'
        BY <1>29, KeysKnown, KeysApart DEF Stops, Rest, Owned, KindsFit, ExtractSteps, MoveSteps, Busy
    <2>2. ChainsOwned'
        BY <1>29, KeysKnown, KeysApart DEF Stops, Rest, Owned, ChainsOwned, Actors, ExtractSteps, MoveSteps, Busy
    <2>3. RunnersApart'
        BY <1>29, KeysKnown, KeysApart DEF Stops, Rest, Owned, RunnersApart, ExtractSteps, MoveSteps, Busy
    <2>4. RunningRows'
        BY <1>29, KeysKnown, KeysApart DEF Stops, Rest, Owned, RunningRows, TaskGone, ExtractSteps, MoveSteps, Busy
    <2>5. GoneNoJobs'
        BY <1>29, KeysKnown, KeysApart DEF Stops, Rest, Owned, GoneNoJobs, NoJob, RunningRows, TaskGone, ExtractSteps, MoveSteps,
            Busy
    <2>6. BootIdle'
        BY <1>29, KeysKnown, KeysApart DEF Stops, Rest, Owned, BootIdle, ExtractSteps, MoveSteps, Busy
    <2>7. NotesInRow'
        BY <1>29, KeysKnown, KeysApart DEF Stops, Rest, Owned, NotesInRow, Notes, NoJob, ExtractSteps, MoveSteps, Busy
    <2> QED
        BY <2>1, <2>2, <2>3, <2>4, <2>5, <2>6, <2>7 DEF Owned
<1>30. ASSUME Restarts PROVE Owned'
    <2>1. KindsFit'
        BY <1>30, KeysKnown, KeysApart DEF Restarts, Rest, Owned, KindsFit, ExtractSteps, MoveSteps, Busy
    <2>2. ChainsOwned'
        BY <1>30, KeysKnown, KeysApart DEF Restarts, Rest, Owned, ChainsOwned, Actors, ExtractSteps, MoveSteps, Busy
    <2>3. RunnersApart'
        BY <1>30, KeysKnown, KeysApart DEF Restarts, Rest, Owned, RunnersApart, ExtractSteps, MoveSteps, Busy
    <2>4. RunningRows'
        BY <1>30, KeysKnown, KeysApart DEF Restarts, Rest, Owned, RunningRows, TaskGone, ExtractSteps, MoveSteps, Busy
    <2>5. GoneNoJobs'
        BY <1>30, KeysKnown, KeysApart DEF Restarts, Rest, Owned, GoneNoJobs, NoJob, RunningRows, TaskGone, ExtractSteps,
            MoveSteps, Busy
    <2>6. BootIdle'
        BY <1>30, KeysKnown, KeysApart DEF Restarts, Rest, Owned, BootIdle, ExtractSteps, MoveSteps, Busy
    <2>7. NotesInRow'
        BY <1>30, KeysKnown, KeysApart DEF Restarts, Rest, Owned, NotesInRow, Notes, NoJob, ExtractSteps, MoveSteps, Busy
    <2> QED
        BY <2>1, <2>2, <2>3, <2>4, <2>5, <2>6, <2>7 DEF Owned
<1> QED
    BY <1>1, <1>2, <1>3, <1>4, <1>5, <1>6, <1>7, <1>8, <1>9, <1>10, <1>11, <1>12, <1>13, <1>14, <1>15, <1>16, <1>17, <1>18, <1>19,
        <1>20, <1>21, <1>22, <1>23, <1>24, <1>25, <1>26, <1>27, <1>28, <1>29, <1>30 DEF SomeStep, HandlerSome, ExtractSome,
        MoveSome, PassSome

(* Where the payload is.                                                   *)
LEMMA FiledKeeps ==
    ASSUME Typed, Owned, Filed, SomeStep
    PROVE  Filed'
<1>0. \A t \in Tasks : /\ setup[t].taken # "free" => disk[t].dst # "absent"
                       /\ setup[t].sibling # "free" => disk[t].tree # "none"
                       /\ setup[t].path # "none" /\ disk[t].src = "absent" => disk[t].dst \in {"payload", "alike"}
    BY NamesHeld DEF Filed, NoClobber, PayloadKept
<1>1. ASSUME NEW w \in Workers, NEW t \in Tasks, ExtractReads(w, t) PROVE Filed'
    <2>1. PlacesTrue'
        BY <1>1, KeysKnown, KeysApart DEF ExtractReads, HandlerRest, Rest, HandTo, GoesTo, OnExtract, Filed, PlacesTrue,
            MoversSee, ExtractorsSee, PassesSee, ToExtract, UnmovedSteps, MovedSteps, NoJob, Busy, Moves, Extracts, Passing, Owned
    <2>2. MoversSee'
        BY <1>1, KeysKnown, KeysApart DEF ExtractReads, HandlerRest, Rest, HandTo, GoesTo, OnExtract, Filed, MoversSee,
            PlacesTrue, UnmovedSteps, MovedSteps, MoveSteps, ExtractSteps, RunnersApart, Busy, Moves, Extracts, Passing, Owned
    <2>3. ExtractorsSee'
        BY <1>1, KeysKnown, KeysApart DEF ExtractReads, HandlerRest, Rest, HandTo, GoesTo, OnExtract, Filed, ExtractorsSee,
            PlacesTrue, ToExtract, ExtractSteps, MoveSteps, RunnersApart, Busy, Moves, Extracts, Passing, Owned
    <2>4. PassesSee'
        BY <1>1, KeysKnown, KeysApart DEF ExtractReads, HandlerRest, Rest, HandTo, GoesTo, OnExtract, Filed, PassesSee,
            PlacesTrue, ToExtract, Busy, Moves, Extracts, Passing, Owned
    <2>5. PayloadKept'
        BY <1>1, KeysKnown, KeysApart DEF ExtractReads, HandlerRest, Rest, HandTo, GoesTo, OnExtract, Filed, PayloadKept,
            PlacesTrue, MoversSee, UnmovedSteps, MovedSteps, MoveSteps, Busy, Moves, Extracts, Passing, Owned
    <2>6. NoClobber'
        BY <1>1, KeysKnown, KeysApart DEF ExtractReads, HandlerRest, Rest, HandTo, GoesTo, OnExtract, Filed, NoClobber,
            PlacesTrue, MoversSee, UnmovedSteps, MovedSteps, MoveSteps, Busy, Moves, Extracts, Passing, Owned
    <2> QED
        BY <2>1, <2>2, <2>3, <2>4, <2>5, <2>6 DEF Filed
<1>2. ASSUME NEW w \in Workers, NEW t \in Tasks, ExtractClaims(w, t) PROVE Filed'
    <2>1. PlacesTrue'
        BY <1>2, KeysKnown, KeysApart DEF ExtractClaims, HandlerRest, Rest, HandTo, GoesTo, RowTo, OnExtract, Filed, PlacesTrue,
            MoversSee, ExtractorsSee, PassesSee, ToExtract, UnmovedSteps, MovedSteps, NoJob, Busy, Moves, Extracts, Passing, Owned
    <2>2. MoversSee'
        BY <1>2, KeysKnown, KeysApart DEF ExtractClaims, HandlerRest, Rest, HandTo, GoesTo, RowTo, OnExtract, Filed, MoversSee,
            PlacesTrue, UnmovedSteps, MovedSteps, MoveSteps, ExtractSteps, RunnersApart, Busy, Moves, Extracts, Passing, Owned
    <2>3. ExtractorsSee'
        BY <1>2, KeysKnown, KeysApart DEF ExtractClaims, HandlerRest, Rest, HandTo, GoesTo, RowTo, OnExtract, Filed,
            ExtractorsSee, PlacesTrue, ToExtract, ExtractSteps, MoveSteps, RunnersApart, Busy, Moves, Extracts, Passing, Owned
    <2>4. PassesSee'
        BY <1>2, KeysKnown, KeysApart DEF ExtractClaims, HandlerRest, Rest, HandTo, GoesTo, RowTo, OnExtract, Filed, PassesSee,
            PlacesTrue, ToExtract, Busy, Moves, Extracts, Passing, Owned
    <2>5. PayloadKept'
        BY <1>2, KeysKnown, KeysApart DEF ExtractClaims, HandlerRest, Rest, HandTo, GoesTo, RowTo, OnExtract, Filed, PayloadKept,
            PlacesTrue, MoversSee, UnmovedSteps, MovedSteps, MoveSteps, Busy, Moves, Extracts, Passing, Owned
    <2>6. NoClobber'
        BY <1>2, KeysKnown, KeysApart DEF ExtractClaims, HandlerRest, Rest, HandTo, GoesTo, RowTo, OnExtract, Filed, NoClobber,
            PlacesTrue, MoversSee, UnmovedSteps, MovedSteps, MoveSteps, Busy, Moves, Extracts, Passing, Owned
    <2> QED
        BY <2>1, <2>2, <2>3, <2>4, <2>5, <2>6 DEF Filed
<1>3. ASSUME NEW w \in Workers, NEW t \in Tasks, ExtractFails(w, t) PROVE Filed'
    <2>1. PlacesTrue'
        BY <1>3, KeysKnown, KeysApart DEF ExtractFails, HandlerRest, Rest, HandTo, GoesTo, RowTo, OnExtract, Filed, PlacesTrue,
            MoversSee, ExtractorsSee, PassesSee, ToExtract, UnmovedSteps, MovedSteps, NoJob, Busy, Moves, Extracts, Passing, Owned
    <2>2. MoversSee'
        BY <1>3, KeysKnown, KeysApart DEF ExtractFails, HandlerRest, Rest, HandTo, GoesTo, RowTo, OnExtract, Filed, MoversSee,
            PlacesTrue, UnmovedSteps, MovedSteps, MoveSteps, ExtractSteps, RunnersApart, Busy, Moves, Extracts, Passing, Owned
    <2>3. ExtractorsSee'
        BY <1>3, KeysKnown, KeysApart DEF ExtractFails, HandlerRest, Rest, HandTo, GoesTo, RowTo, OnExtract, Filed, ExtractorsSee,
            PlacesTrue, ToExtract, ExtractSteps, MoveSteps, RunnersApart, Busy, Moves, Extracts, Passing, Owned
    <2>4. PassesSee'
        BY <1>3, KeysKnown, KeysApart DEF ExtractFails, HandlerRest, Rest, HandTo, GoesTo, RowTo, OnExtract, Filed, PassesSee,
            PlacesTrue, ToExtract, Busy, Moves, Extracts, Passing, Owned
    <2>5. PayloadKept'
        BY <1>3, KeysKnown, KeysApart DEF ExtractFails, HandlerRest, Rest, HandTo, GoesTo, RowTo, OnExtract, Filed, PayloadKept,
            PlacesTrue, MoversSee, UnmovedSteps, MovedSteps, MoveSteps, Busy, Moves, Extracts, Passing, Owned
    <2>6. NoClobber'
        BY <1>3, KeysKnown, KeysApart DEF ExtractFails, HandlerRest, Rest, HandTo, GoesTo, RowTo, OnExtract, Filed, NoClobber,
            PlacesTrue, MoversSee, UnmovedSteps, MovedSteps, MoveSteps, Busy, Moves, Extracts, Passing, Owned
    <2> QED
        BY <2>1, <2>2, <2>3, <2>4, <2>5, <2>6 DEF Filed
<1>4. ASSUME NEW w \in Workers, NEW t \in Tasks, ExtractFiles(w, t) PROVE Filed'
    <2>1. PlacesTrue'
        BY <1>4, KeysKnown, KeysApart DEF ExtractFiles, HandlerRest, Rest, HandTo, GoesTo, DiskTo, OnExtract, Filed, PlacesTrue,
            MoversSee, ExtractorsSee, PassesSee, ToExtract, UnmovedSteps, MovedSteps, NoJob, Busy, Moves, Extracts, Passing, Owned
    <2>2. MoversSee'
        BY <1>4, KeysKnown, KeysApart DEF ExtractFiles, HandlerRest, Rest, HandTo, GoesTo, DiskTo, OnExtract, Filed, MoversSee,
            PlacesTrue, UnmovedSteps, MovedSteps, MoveSteps, ExtractSteps, RunnersApart, Busy, Moves, Extracts, Passing, Owned
    <2>3. ExtractorsSee'
        BY <1>4, KeysKnown, KeysApart DEF ExtractFiles, HandlerRest, Rest, HandTo, GoesTo, DiskTo, OnExtract, Filed,
            ExtractorsSee, PlacesTrue, ToExtract, ExtractSteps, MoveSteps, RunnersApart, Busy, Moves, Extracts, Passing, Owned
    <2>4. PassesSee'
        BY <1>4, KeysKnown, KeysApart DEF ExtractFiles, HandlerRest, Rest, HandTo, GoesTo, DiskTo, OnExtract, Filed, PassesSee,
            PlacesTrue, ToExtract, Busy, Moves, Extracts, Passing, Owned
    <2>5. PayloadKept'
        BY <1>4, KeysKnown, KeysApart DEF ExtractFiles, HandlerRest, Rest, HandTo, GoesTo, DiskTo, OnExtract, Filed, PayloadKept,
            PlacesTrue, MoversSee, UnmovedSteps, MovedSteps, MoveSteps, Busy, Moves, Extracts, Passing, Owned
    <2>6. NoClobber'
        BY <1>0, <1>4, KeysKnown, KeysApart DEF ExtractFiles, HandlerRest, Rest, HandTo, GoesTo, DiskTo, OnExtract, Filed, NoClobber,
            PlacesTrue, MoversSee, UnmovedSteps, MovedSteps, MoveSteps, Busy, Moves, Extracts, Passing, Owned
    <2> QED
        BY <2>1, <2>2, <2>3, <2>4, <2>5, <2>6 DEF Filed
<1>5. ASSUME NEW w \in Workers, NEW t \in Tasks, ExtractCompletes(w, t) PROVE Filed'
    <2>1. PlacesTrue'
        BY <1>5, KeysKnown, KeysApart DEF ExtractCompletes, HandlerRest, Rest, HandTo, GoesTo, RowTo, ChainTo, OnExtract, Filed,
            PlacesTrue, MoversSee, ExtractorsSee, PassesSee, ToExtract, UnmovedSteps, MovedSteps, NoJob, Busy, Moves, Extracts,
            Passing, Owned
    <2>2. MoversSee'
        BY <1>5, KeysKnown, KeysApart DEF ExtractCompletes, HandlerRest, Rest, HandTo, GoesTo, RowTo, ChainTo, OnExtract, Filed,
            MoversSee, PlacesTrue, UnmovedSteps, MovedSteps, MoveSteps, ExtractSteps, RunnersApart, Busy, Moves, Extracts,
            Passing, Owned
    <2>3. ExtractorsSee'
        BY <1>5, KeysKnown, KeysApart DEF ExtractCompletes, HandlerRest, Rest, HandTo, GoesTo, RowTo, ChainTo, OnExtract, Filed,
            ExtractorsSee, PlacesTrue, ToExtract, ExtractSteps, MoveSteps, RunnersApart, Busy, Moves, Extracts, Passing, Owned
    <2>4. PassesSee'
        BY <1>5, KeysKnown, KeysApart DEF ExtractCompletes, HandlerRest, Rest, HandTo, GoesTo, RowTo, ChainTo, OnExtract, Filed,
            PassesSee, PlacesTrue, ToExtract, Busy, Moves, Extracts, Passing, Owned
    <2>5. PayloadKept'
        BY <1>5, KeysKnown, KeysApart DEF ExtractCompletes, HandlerRest, Rest, HandTo, GoesTo, RowTo, ChainTo, OnExtract, Filed,
            PayloadKept, PlacesTrue, MoversSee, UnmovedSteps, MovedSteps, MoveSteps, Busy, Moves, Extracts, Passing, Owned
    <2>6. NoClobber'
        BY <1>5, KeysKnown, KeysApart DEF ExtractCompletes, HandlerRest, Rest, HandTo, GoesTo, RowTo, ChainTo, OnExtract, Filed,
            NoClobber, PlacesTrue, MoversSee, UnmovedSteps, MovedSteps, MoveSteps, Busy, Moves, Extracts, Passing, Owned
    <2> QED
        BY <2>1, <2>2, <2>3, <2>4, <2>5, <2>6 DEF Filed
<1>6. ASSUME NEW w \in Workers, NEW t \in Tasks, MoveReads(w, t) PROVE Filed'
    <2>1. PlacesTrue'
        BY <1>6, KeysKnown, KeysApart DEF MoveReads, HandlerRest, Rest, HandTo, GoesTo, OnMove, Filed, PlacesTrue, MoversSee,
            ExtractorsSee, PassesSee, ToExtract, UnmovedSteps, MovedSteps, NoJob, Busy, Moves, Extracts, Passing, Owned
    <2>2. MoversSee'
        BY <1>6, KeysKnown, KeysApart DEF MoveReads, HandlerRest, Rest, HandTo, GoesTo, OnMove, Filed, MoversSee, PlacesTrue,
            UnmovedSteps, MovedSteps, MoveSteps, ExtractSteps, RunnersApart, Busy, Moves, Extracts, Passing, Owned
    <2>3. ExtractorsSee'
        BY <1>6, KeysKnown, KeysApart DEF MoveReads, HandlerRest, Rest, HandTo, GoesTo, OnMove, Filed, ExtractorsSee, PlacesTrue,
            ToExtract, ExtractSteps, MoveSteps, RunnersApart, Busy, Moves, Extracts, Passing, Owned
    <2>4. PassesSee'
        BY <1>6, KeysKnown, KeysApart DEF MoveReads, HandlerRest, Rest, HandTo, GoesTo, OnMove, Filed, PassesSee, PlacesTrue,
            ToExtract, Busy, Moves, Extracts, Passing, Owned
    <2>5. PayloadKept'
        BY <1>6, KeysKnown, KeysApart DEF MoveReads, HandlerRest, Rest, HandTo, GoesTo, OnMove, Filed, PayloadKept, PlacesTrue,
            MoversSee, UnmovedSteps, MovedSteps, MoveSteps, Busy, Moves, Extracts, Passing, Owned
    <2>6. NoClobber'
        BY <1>6, KeysKnown, KeysApart DEF MoveReads, HandlerRest, Rest, HandTo, GoesTo, OnMove, Filed, NoClobber, PlacesTrue,
            MoversSee, UnmovedSteps, MovedSteps, MoveSteps, Busy, Moves, Extracts, Passing, Owned
    <2> QED
        BY <2>1, <2>2, <2>3, <2>4, <2>5, <2>6 DEF Filed
<1>7. ASSUME NEW w \in Workers, NEW t \in Tasks, MoveLooks(w, t) PROVE Filed'
    <2>1. PlacesTrue'
        BY <1>7, KeysKnown, KeysApart DEF MoveLooks, HandlerRest, Rest, HandTo, OnMove, Filed, PlacesTrue, MoversSee,
            ExtractorsSee, PassesSee, ToExtract, UnmovedSteps, MovedSteps, NoJob, Busy, Moves, Extracts, Passing, Owned
    <2>2. MoversSee'
        <3>1. PICK q \in HandSteps :
                /\ HandTo(w, q, row[t].st, row[t].path)
                /\ \/ q = "ok" /\ row[t].st # "moving"
                   \/ q = "m.path" /\ disk[t].src = "absent" /\ disk[t].dst # "absent"
                   \/ q = "m.decide" /\ row[t].st = "moving" /\ ~(disk[t].src = "absent" /\ disk[t].dst # "absent")
                   \/ q = "m.claim" /\ row[t].st = "completed" /\ ~(disk[t].src = "absent" /\ disk[t].dst # "absent")
            BY <1>7 DEF MoveLooks
        <3>2. Moves(w, t) /\ setup[t].path = "src" /\ row[t].path \in {"src", "dst"} /\ (row[t].path = "dst" => disk[t].src = "absent")
            BY <1>7 DEF MoveLooks, OnMove, Moves, Busy, MoveSteps, Filed, MoversSee, PlacesTrue
        <3>3. disk[t].src = "absent" => disk[t].dst # "absent"
            BY <1>0, <3>2
        <3>4. q \in UnmovedSteps => disk[t].src # "absent" /\ row[t].path = "src"
            BY <3>1, <3>2, <3>3 DEF UnmovedSteps
        <3> QED
            BY <1>7, <3>1, <3>2, <3>4, KeysKnown, KeysApart DEF MoveLooks, HandlerRest, Rest, HandTo, OnMove, Filed, MoversSee,
                UnmovedSteps, MovedSteps, MoveSteps, RunnersApart, Busy, Moves, Owned
    <2>3. ExtractorsSee'
        BY <1>7, KeysKnown, KeysApart DEF MoveLooks, HandlerRest, Rest, HandTo, OnMove, Filed, ExtractorsSee, PlacesTrue,
            ToExtract, ExtractSteps, MoveSteps, RunnersApart, Busy, Moves, Extracts, Passing, Owned
    <2>4. PassesSee'
        BY <1>7, KeysKnown, KeysApart DEF MoveLooks, HandlerRest, Rest, HandTo, OnMove, Filed, PassesSee, PlacesTrue, ToExtract,
            Busy, Moves, Extracts, Passing, Owned
    <2>5. PayloadKept'
        BY <1>7, KeysKnown, KeysApart DEF MoveLooks, HandlerRest, Rest, HandTo, OnMove, Filed, PayloadKept, PlacesTrue, MoversSee,
            UnmovedSteps, MovedSteps, MoveSteps, Busy, Moves, Extracts, Passing, Owned
    <2>6. NoClobber'
        BY <1>7, KeysKnown, KeysApart DEF MoveLooks, HandlerRest, Rest, HandTo, OnMove, Filed, NoClobber, PlacesTrue, MoversSee,
            UnmovedSteps, MovedSteps, MoveSteps, Busy, Moves, Extracts, Passing, Owned
    <2> QED
        BY <2>1, <2>2, <2>3, <2>4, <2>5, <2>6 DEF Filed
<1>8. ASSUME NEW w \in Workers, NEW t \in Tasks, MoveClaims(w, t) PROVE Filed'
    <2>1. PlacesTrue'
        BY <1>8, KeysKnown, KeysApart DEF MoveClaims, HandlerRest, Rest, HandTo, RowTo, OnMove, Filed, PlacesTrue, MoversSee,
            ExtractorsSee, PassesSee, ToExtract, UnmovedSteps, MovedSteps, NoJob, Busy, Moves, Extracts, Passing, Owned
    <2>2. MoversSee'
        BY <1>8, KeysKnown, KeysApart DEF MoveClaims, HandlerRest, Rest, HandTo, RowTo, OnMove, Filed, MoversSee, PlacesTrue,
            UnmovedSteps, MovedSteps, MoveSteps, ExtractSteps, RunnersApart, Busy, Moves, Extracts, Passing, Owned
    <2>3. ExtractorsSee'
        BY <1>8, KeysKnown, KeysApart DEF MoveClaims, HandlerRest, Rest, HandTo, RowTo, OnMove, Filed, ExtractorsSee, PlacesTrue,
            ToExtract, ExtractSteps, MoveSteps, RunnersApart, Busy, Moves, Extracts, Passing, Owned
    <2>4. PassesSee'
        BY <1>8, KeysKnown, KeysApart DEF MoveClaims, HandlerRest, Rest, HandTo, RowTo, OnMove, Filed, PassesSee, PlacesTrue,
            ToExtract, Busy, Moves, Extracts, Passing, Owned
    <2>5. PayloadKept'
        BY <1>8, KeysKnown, KeysApart DEF MoveClaims, HandlerRest, Rest, HandTo, RowTo, OnMove, Filed, PayloadKept, PlacesTrue,
            MoversSee, UnmovedSteps, MovedSteps, MoveSteps, Busy, Moves, Extracts, Passing, Owned
    <2>6. NoClobber'
        BY <1>8, KeysKnown, KeysApart DEF MoveClaims, HandlerRest, Rest, HandTo, RowTo, OnMove, Filed, NoClobber, PlacesTrue,
            MoversSee, UnmovedSteps, MovedSteps, MoveSteps, Busy, Moves, Extracts, Passing, Owned
    <2> QED
        BY <2>1, <2>2, <2>3, <2>4, <2>5, <2>6 DEF Filed
<1>9. ASSUME NEW w \in Workers, NEW t \in Tasks, MoveFails(w, t) PROVE Filed'
    <2>1. PlacesTrue'
        BY <1>9, KeysKnown, KeysApart DEF MoveFails, HandlerRest, Rest, HandTo, GoesTo, RowTo, OnMove, Filed, PlacesTrue,
            MoversSee, ExtractorsSee, PassesSee, ToExtract, UnmovedSteps, MovedSteps, NoJob, Busy, Moves, Extracts, Passing, Owned
    <2>2. MoversSee'
        BY <1>9, KeysKnown, KeysApart DEF MoveFails, HandlerRest, Rest, HandTo, GoesTo, RowTo, OnMove, Filed, MoversSee,
            PlacesTrue, UnmovedSteps, MovedSteps, MoveSteps, ExtractSteps, RunnersApart, Busy, Moves, Extracts, Passing, Owned
    <2>3. ExtractorsSee'
        BY <1>9, KeysKnown, KeysApart DEF MoveFails, HandlerRest, Rest, HandTo, GoesTo, RowTo, OnMove, Filed, ExtractorsSee,
            PlacesTrue, ToExtract, ExtractSteps, MoveSteps, RunnersApart, Busy, Moves, Extracts, Passing, Owned
    <2>4. PassesSee'
        BY <1>9, KeysKnown, KeysApart DEF MoveFails, HandlerRest, Rest, HandTo, GoesTo, RowTo, OnMove, Filed, PassesSee,
            PlacesTrue, ToExtract, Busy, Moves, Extracts, Passing, Owned
    <2>5. PayloadKept'
        BY <1>9, KeysKnown, KeysApart DEF MoveFails, HandlerRest, Rest, HandTo, GoesTo, RowTo, OnMove, Filed, PayloadKept,
            PlacesTrue, MoversSee, UnmovedSteps, MovedSteps, MoveSteps, Busy, Moves, Extracts, Passing, Owned
    <2>6. NoClobber'
        BY <1>9, KeysKnown, KeysApart DEF MoveFails, HandlerRest, Rest, HandTo, GoesTo, RowTo, OnMove, Filed, NoClobber,
            PlacesTrue, MoversSee, UnmovedSteps, MovedSteps, MoveSteps, Busy, Moves, Extracts, Passing, Owned
    <2> QED
        BY <2>1, <2>2, <2>3, <2>4, <2>5, <2>6 DEF Filed
<1>10. ASSUME NEW w \in Workers, NEW t \in Tasks, MovePauses(w, t) PROVE Filed'
    <2>1. PlacesTrue'
        BY <1>10, KeysKnown, KeysApart DEF MovePauses, HandlerRest, Rest, HandTo, GoesTo, RowTo, OnMove, Filed, PlacesTrue,
            MoversSee, ExtractorsSee, PassesSee, ToExtract, UnmovedSteps, MovedSteps, NoJob, Busy, Moves, Extracts, Passing, Owned
    <2>2. MoversSee'
        BY <1>10, KeysKnown, KeysApart DEF MovePauses, HandlerRest, Rest, HandTo, GoesTo, RowTo, OnMove, Filed, MoversSee,
            PlacesTrue, UnmovedSteps, MovedSteps, MoveSteps, ExtractSteps, RunnersApart, Busy, Moves, Extracts, Passing, Owned
    <2>3. ExtractorsSee'
        BY <1>10, KeysKnown, KeysApart DEF MovePauses, HandlerRest, Rest, HandTo, GoesTo, RowTo, OnMove, Filed, ExtractorsSee,
            PlacesTrue, ToExtract, ExtractSteps, MoveSteps, RunnersApart, Busy, Moves, Extracts, Passing, Owned
    <2>4. PassesSee'
        BY <1>10, KeysKnown, KeysApart DEF MovePauses, HandlerRest, Rest, HandTo, GoesTo, RowTo, OnMove, Filed, PassesSee,
            PlacesTrue, ToExtract, Busy, Moves, Extracts, Passing, Owned
    <2>5. PayloadKept'
        BY <1>10, KeysKnown, KeysApart DEF MovePauses, HandlerRest, Rest, HandTo, GoesTo, RowTo, OnMove, Filed, PayloadKept,
            PlacesTrue, MoversSee, UnmovedSteps, MovedSteps, MoveSteps, Busy, Moves, Extracts, Passing, Owned
    <2>6. NoClobber'
        BY <1>10, KeysKnown, KeysApart DEF MovePauses, HandlerRest, Rest, HandTo, GoesTo, RowTo, OnMove, Filed, NoClobber,
            PlacesTrue, MoversSee, UnmovedSteps, MovedSteps, MoveSteps, Busy, Moves, Extracts, Passing, Owned
    <2> QED
        BY <2>1, <2>2, <2>3, <2>4, <2>5, <2>6 DEF Filed
<1>11. ASSUME NEW w \in Workers, NEW t \in Tasks, MoveSettles(w, t) PROVE Filed'
    <2>1. PlacesTrue'
        BY <1>0, <1>11, KeysKnown, KeysApart DEF MoveSettles, HandlerRest, Rest, HandTo, GoesTo, RowTo, OnMove, Filed, PlacesTrue,
            MoversSee, ExtractorsSee, PassesSee, ToExtract, UnmovedSteps, MovedSteps, NoJob, Busy, Moves, Extracts, Passing,
            Owned, PayloadKept, Typed, TypeOK, SharedTypeOK, Disks
    <2>2. MoversSee'
        BY <1>11, KeysKnown, KeysApart DEF MoveSettles, HandlerRest, Rest, HandTo, GoesTo, RowTo, OnMove, Filed, MoversSee,
            PlacesTrue, UnmovedSteps, MovedSteps, MoveSteps, ExtractSteps, RunnersApart, Busy, Moves, Extracts, Passing, Owned
    <2>3. ExtractorsSee'
        BY <1>11, KeysKnown, KeysApart DEF MoveSettles, HandlerRest, Rest, HandTo, GoesTo, RowTo, OnMove, Filed, ExtractorsSee,
            PlacesTrue, ToExtract, ExtractSteps, MoveSteps, RunnersApart, Busy, Moves, Extracts, Passing, Owned
    <2>4. PassesSee'
        BY <1>11, KeysKnown, KeysApart DEF MoveSettles, HandlerRest, Rest, HandTo, GoesTo, RowTo, OnMove, Filed, PassesSee,
            PlacesTrue, ToExtract, Busy, Moves, Extracts, Passing, Owned
    <2>5. PayloadKept'
        BY <1>11, KeysKnown, KeysApart DEF MoveSettles, HandlerRest, Rest, HandTo, GoesTo, RowTo, OnMove, Filed, PayloadKept,
            PlacesTrue, MoversSee, UnmovedSteps, MovedSteps, MoveSteps, Busy, Moves, Extracts, Passing, Owned
    <2>6. NoClobber'
        BY <1>11, KeysKnown, KeysApart DEF MoveSettles, HandlerRest, Rest, HandTo, GoesTo, RowTo, OnMove, Filed, NoClobber,
            PlacesTrue, MoversSee, UnmovedSteps, MovedSteps, MoveSteps, Busy, Moves, Extracts, Passing, Owned
    <2> QED
        BY <2>1, <2>2, <2>3, <2>4, <2>5, <2>6 DEF Filed
<1>12. ASSUME NEW w \in Workers, NEW t \in Tasks, MoveCompletes(w, t) PROVE Filed'
    <2>1. PlacesTrue'
        BY <1>12, KeysKnown, KeysApart DEF MoveCompletes, HandlerRest, Rest, HandTo, GoesTo, RowTo, ChainTo, OnMove, Filed,
            PlacesTrue, MoversSee, ExtractorsSee, PassesSee, ToExtract, UnmovedSteps, MovedSteps, NoJob, Busy, Moves, Extracts,
            Passing, Owned
    <2>2. MoversSee'
        BY <1>12, KeysKnown, KeysApart DEF MoveCompletes, HandlerRest, Rest, HandTo, GoesTo, RowTo, ChainTo, OnMove, Filed,
            MoversSee, PlacesTrue, UnmovedSteps, MovedSteps, MoveSteps, ExtractSteps, RunnersApart, Busy, Moves, Extracts,
            Passing, Owned
    <2>3. ExtractorsSee'
        BY <1>12, KeysKnown, KeysApart DEF MoveCompletes, HandlerRest, Rest, HandTo, GoesTo, RowTo, ChainTo, OnMove, Filed,
            ExtractorsSee, PlacesTrue, ToExtract, ExtractSteps, MoveSteps, RunnersApart, Busy, Moves, Extracts, Passing, Owned
    <2>4. PassesSee'
        BY <1>12, KeysKnown, KeysApart DEF MoveCompletes, HandlerRest, Rest, HandTo, GoesTo, RowTo, ChainTo, OnMove, Filed,
            PassesSee, PlacesTrue, ToExtract, Busy, Moves, Extracts, Passing, Owned
    <2>5. PayloadKept'
        BY <1>12, KeysKnown, KeysApart DEF MoveCompletes, HandlerRest, Rest, HandTo, GoesTo, RowTo, ChainTo, OnMove, Filed,
            PayloadKept, PlacesTrue, MoversSee, UnmovedSteps, MovedSteps, MoveSteps, Busy, Moves, Extracts, Passing, Owned
    <2>6. NoClobber'
        BY <1>12, KeysKnown, KeysApart DEF MoveCompletes, HandlerRest, Rest, HandTo, GoesTo, RowTo, ChainTo, OnMove, Filed,
            NoClobber, PlacesTrue, MoversSee, UnmovedSteps, MovedSteps, MoveSteps, Busy, Moves, Extracts, Passing, Owned
    <2> QED
        BY <2>1, <2>2, <2>3, <2>4, <2>5, <2>6 DEF Filed
<1>13. ASSUME NEW w \in Workers, NEW t \in Tasks, MoveFiles(w, t) PROVE Filed'
    <2>1. PlacesTrue'
        BY <1>0, <1>13, KeysKnown, KeysApart DEF MoveFiles, HandlerRest, Rest, HandTo, GoesTo, DiskTo, OnMove, Filed, PlacesTrue,
            MoversSee, ExtractorsSee, PassesSee, ToExtract, UnmovedSteps, MovedSteps, NoJob, Busy, Moves, Extracts, Passing,
            Owned, NoClobber
    <2>2. MoversSee'
        BY <1>0, <1>13, KeysKnown, KeysApart DEF MoveFiles, HandlerRest, Rest, HandTo, GoesTo, DiskTo, OnMove, Filed, MoversSee,
            PlacesTrue, UnmovedSteps, MovedSteps, MoveSteps, ExtractSteps, RunnersApart, Busy, Moves, Extracts, Passing, Owned,
            NoClobber
    <2>3. ExtractorsSee'
        BY <1>13, KeysKnown, KeysApart DEF MoveFiles, HandlerRest, Rest, HandTo, GoesTo, DiskTo, OnMove, Filed, ExtractorsSee,
            PlacesTrue, ToExtract, ExtractSteps, MoveSteps, RunnersApart, Busy, Moves, Extracts, Passing, Owned
    <2>4. PassesSee'
        BY <1>13, KeysKnown, KeysApart DEF MoveFiles, HandlerRest, Rest, HandTo, GoesTo, DiskTo, OnMove, Filed, PassesSee,
            PlacesTrue, ToExtract, Busy, Moves, Extracts, Passing, Owned
    <2>5. PayloadKept'
        BY <1>13, KeysKnown, KeysApart DEF MoveFiles, HandlerRest, Rest, HandTo, GoesTo, DiskTo, OnMove, Filed, PayloadKept,
            PlacesTrue, MoversSee, UnmovedSteps, MovedSteps, MoveSteps, Busy, Moves, Extracts, Passing, Owned
    <2>6. NoClobber'
        BY <1>13, KeysKnown, KeysApart DEF MoveFiles, HandlerRest, Rest, HandTo, GoesTo, DiskTo, OnMove, Filed, NoClobber,
            PlacesTrue, MoversSee, UnmovedSteps, MovedSteps, MoveSteps, Busy, Moves, Extracts, Passing, Owned
    <2> QED
        BY <2>1, <2>2, <2>3, <2>4, <2>5, <2>6 DEF Filed
<1>14. ASSUME NEW w \in Workers, Sends(w) PROVE Filed'
    <2>1. PlacesTrue'
        BY <1>14, KeysKnown, KeysApart DEF Sends, HandlerRest, Rest, HandTo, GoesTo, Filed, PlacesTrue, MoversSee, ExtractorsSee,
            PassesSee, ToExtract, UnmovedSteps, MovedSteps, NoJob, Busy, Moves, Extracts, Passing, Owned
    <2>2. MoversSee'
        BY <1>14, KeysKnown, KeysApart DEF Sends, HandlerRest, Rest, HandTo, GoesTo, Filed, MoversSee, PlacesTrue, UnmovedSteps,
            MovedSteps, MoveSteps, ExtractSteps, RunnersApart, Busy, Moves, Extracts, Passing, Owned
    <2>3. ExtractorsSee'
        BY <1>14, KeysKnown, KeysApart DEF Sends, HandlerRest, Rest, HandTo, GoesTo, Filed, ExtractorsSee, PlacesTrue, ToExtract,
            ExtractSteps, MoveSteps, RunnersApart, Busy, Moves, Extracts, Passing, Owned
    <2>4. PassesSee'
        BY <1>14, KeysKnown, KeysApart DEF Sends, HandlerRest, Rest, HandTo, GoesTo, Filed, PassesSee, PlacesTrue, ToExtract,
            Busy, Moves, Extracts, Passing, Owned
    <2>5. PayloadKept'
        BY <1>14, KeysKnown, KeysApart DEF Sends, HandlerRest, Rest, HandTo, GoesTo, Filed, PayloadKept, PlacesTrue, MoversSee,
            UnmovedSteps, MovedSteps, MoveSteps, Busy, Moves, Extracts, Passing, Owned
    <2>6. NoClobber'
        BY <1>14, KeysKnown, KeysApart DEF Sends, HandlerRest, Rest, HandTo, GoesTo, Filed, NoClobber, PlacesTrue, MoversSee,
            UnmovedSteps, MovedSteps, MoveSteps, Busy, Moves, Extracts, Passing, Owned
    <2> QED
        BY <2>1, <2>2, <2>3, <2>4, <2>5, <2>6 DEF Filed
<1>15. ASSUME NEW w \in Workers, Returns(w) PROVE Filed'
    <2>1. PlacesTrue'
        BY <1>15, KeysKnown, KeysApart DEF Returns, HandlerRest, Rest, HandTo, GoesTo, Filed, PlacesTrue, MoversSee,
            ExtractorsSee, PassesSee, ToExtract, UnmovedSteps, MovedSteps, NoJob, Busy, Moves, Extracts, Passing, Owned
    <2>2. MoversSee'
        BY <1>15, KeysKnown, KeysApart DEF Returns, HandlerRest, Rest, HandTo, GoesTo, Filed, MoversSee, PlacesTrue, UnmovedSteps,
            MovedSteps, MoveSteps, ExtractSteps, RunnersApart, Busy, Moves, Extracts, Passing, Owned
    <2>3. ExtractorsSee'
        BY <1>15, KeysKnown, KeysApart DEF Returns, HandlerRest, Rest, HandTo, GoesTo, Filed, ExtractorsSee, PlacesTrue,
            ToExtract, ExtractSteps, MoveSteps, RunnersApart, Busy, Moves, Extracts, Passing, Owned
    <2>4. PassesSee'
        BY <1>15, KeysKnown, KeysApart DEF Returns, HandlerRest, Rest, HandTo, GoesTo, Filed, PassesSee, PlacesTrue, ToExtract,
            Busy, Moves, Extracts, Passing, Owned
    <2>5. PayloadKept'
        BY <1>15, KeysKnown, KeysApart DEF Returns, HandlerRest, Rest, HandTo, GoesTo, Filed, PayloadKept, PlacesTrue, MoversSee,
            UnmovedSteps, MovedSteps, MoveSteps, Busy, Moves, Extracts, Passing, Owned
    <2>6. NoClobber'
        BY <1>15, KeysKnown, KeysApart DEF Returns, HandlerRest, Rest, HandTo, GoesTo, Filed, NoClobber, PlacesTrue, MoversSee,
            UnmovedSteps, MovedSteps, MoveSteps, Busy, Moves, Extracts, Passing, Owned
    <2> QED
        BY <2>1, <2>2, <2>3, <2>4, <2>5, <2>6 DEF Filed
<1>16. ASSUME NEW w \in Workers, Outcomes(w) PROVE Filed'
    <2>1. PlacesTrue'
        BY <1>16, KeysKnown, KeysApart DEF Outcomes, PoolRest, Rest, JobTo, Filed, PlacesTrue, MoversSee, ExtractorsSee,
            PassesSee, ToExtract, UnmovedSteps, MovedSteps, NoJob, Busy, Moves, Extracts, Passing, Owned
    <2>2. MoversSee'
        BY <1>16, KeysKnown, KeysApart DEF Outcomes, PoolRest, Rest, JobTo, Filed, MoversSee, PlacesTrue, UnmovedSteps,
            MovedSteps, MoveSteps, ExtractSteps, RunnersApart, Busy, Moves, Extracts, Passing, Owned
    <2>3. ExtractorsSee'
        BY <1>16, KeysKnown, KeysApart DEF Outcomes, PoolRest, Rest, JobTo, Filed, ExtractorsSee, PlacesTrue, ToExtract,
            ExtractSteps, MoveSteps, RunnersApart, Busy, Moves, Extracts, Passing, Owned
    <2>4. PassesSee'
        BY <1>16, KeysKnown, KeysApart DEF Outcomes, PoolRest, Rest, JobTo, Filed, PassesSee, PlacesTrue, ToExtract, Busy, Moves,
            Extracts, Passing, Owned
    <2>5. PayloadKept'
        BY <1>16, KeysKnown, KeysApart DEF Outcomes, PoolRest, Rest, JobTo, Filed, PayloadKept, PlacesTrue, MoversSee,
            UnmovedSteps, MovedSteps, MoveSteps, Busy, Moves, Extracts, Passing, Owned
    <2>6. NoClobber'
        BY <1>16, KeysKnown, KeysApart DEF Outcomes, PoolRest, Rest, JobTo, Filed, NoClobber, PlacesTrue, MoversSee, UnmovedSteps,
            MovedSteps, MoveSteps, Busy, Moves, Extracts, Passing, Owned
    <2> QED
        BY <2>1, <2>2, <2>3, <2>4, <2>5, <2>6 DEF Filed
<1>17. ASSUME NEW w \in Workers, NEW j \in JobKeys, Claims(w, j) PROVE Filed'
    <2>1. PlacesTrue'
        BY <1>17, KeysKnown, KeysApart DEF Claims, PoolRest, Rest, JobTo, Filed, PlacesTrue, MoversSee, ExtractorsSee, PassesSee,
            ToExtract, UnmovedSteps, MovedSteps, NoJob, Busy, Moves, Extracts, Passing, Owned
    <2>2. MoversSee'
        BY <1>17, KeysKnown, KeysApart DEF Claims, PoolRest, Rest, JobTo, Filed, MoversSee, PlacesTrue, UnmovedSteps, MovedSteps,
            MoveSteps, ExtractSteps, RunnersApart, Busy, Moves, Extracts, Passing, Owned
    <2>3. ExtractorsSee'
        BY <1>17, KeysKnown, KeysApart DEF Claims, PoolRest, Rest, JobTo, Filed, ExtractorsSee, PlacesTrue, ToExtract,
            ExtractSteps, MoveSteps, RunnersApart, Busy, Moves, Extracts, Passing, Owned
    <2>4. PassesSee'
        BY <1>17, KeysKnown, KeysApart DEF Claims, PoolRest, Rest, JobTo, Filed, PassesSee, PlacesTrue, ToExtract, Busy, Moves,
            Extracts, Passing, Owned
    <2>5. PayloadKept'
        BY <1>17, KeysKnown, KeysApart DEF Claims, PoolRest, Rest, JobTo, Filed, PayloadKept, PlacesTrue, MoversSee, UnmovedSteps,
            MovedSteps, MoveSteps, Busy, Moves, Extracts, Passing, Owned
    <2>6. NoClobber'
        BY <1>17, KeysKnown, KeysApart DEF Claims, PoolRest, Rest, JobTo, Filed, NoClobber, PlacesTrue, MoversSee, UnmovedSteps,
            MovedSteps, MoveSteps, Busy, Moves, Extracts, Passing, Owned
    <2> QED
        BY <2>1, <2>2, <2>3, <2>4, <2>5, <2>6 DEF Filed
<1>18. ASSUME NEW a \in Actors, NEW t \in Tasks, PassGoes(a, t) PROVE Filed'
    <2>1. PlacesTrue'
        BY <1>18, KeysKnown, KeysApart DEF PassGoes, Passing, PassRest, Rest, ChainTo, Filed, PlacesTrue, MoversSee,
            ExtractorsSee, PassesSee, ToExtract, UnmovedSteps, MovedSteps, NoJob, Busy, Moves, Extracts, Owned
    <2>2. MoversSee'
        BY <1>18, KeysKnown, KeysApart DEF PassGoes, Passing, PassRest, Rest, ChainTo, Filed, MoversSee, PlacesTrue, UnmovedSteps,
            MovedSteps, MoveSteps, ExtractSteps, RunnersApart, Busy, Moves, Extracts, Owned
    <2>3. ExtractorsSee'
        BY <1>18, KeysKnown, KeysApart DEF PassGoes, Passing, PassRest, Rest, ChainTo, Filed, ExtractorsSee, PlacesTrue,
            ToExtract, ExtractSteps, MoveSteps, RunnersApart, Busy, Moves, Extracts, Owned
    <2>4. PassesSee'
        BY <1>18, KeysKnown, KeysApart DEF PassGoes, Passing, PassRest, Rest, ChainTo, Filed, PassesSee, PlacesTrue, ToExtract,
            Busy, Moves, Extracts, Owned
    <2>5. PayloadKept'
        BY <1>18, KeysKnown, KeysApart DEF PassGoes, Passing, PassRest, Rest, ChainTo, Filed, PayloadKept, PlacesTrue, MoversSee,
            UnmovedSteps, MovedSteps, MoveSteps, Busy, Moves, Extracts, Owned
    <2>6. NoClobber'
        BY <1>18, KeysKnown, KeysApart DEF PassGoes, Passing, PassRest, Rest, ChainTo, Filed, NoClobber, PlacesTrue, MoversSee,
            UnmovedSteps, MovedSteps, MoveSteps, Busy, Moves, Extracts, Owned
    <2> QED
        BY <2>1, <2>2, <2>3, <2>4, <2>5, <2>6 DEF Filed
<1>19. ASSUME NEW a \in Actors, NEW t \in Tasks, PassResets(a, t) PROVE Filed'
    <2>1. PlacesTrue'
        BY <1>19, KeysKnown, KeysApart DEF PassResets, Passing, PassRest, Rest, ChainTo, JobTo, Filed, PlacesTrue, MoversSee,
            ExtractorsSee, PassesSee, ToExtract, UnmovedSteps, MovedSteps, NoJob, Busy, Moves, Extracts, Owned
    <2>2. MoversSee'
        BY <1>19, KeysKnown, KeysApart DEF PassResets, Passing, PassRest, Rest, ChainTo, JobTo, Filed, MoversSee, PlacesTrue,
            UnmovedSteps, MovedSteps, MoveSteps, ExtractSteps, RunnersApart, Busy, Moves, Extracts, Owned
    <2>3. ExtractorsSee'
        BY <1>19, KeysKnown, KeysApart DEF PassResets, Passing, PassRest, Rest, ChainTo, JobTo, Filed, ExtractorsSee, PlacesTrue,
            ToExtract, ExtractSteps, MoveSteps, RunnersApart, Busy, Moves, Extracts, Owned
    <2>4. PassesSee'
        BY <1>19, KeysKnown, KeysApart DEF PassResets, Passing, PassRest, Rest, ChainTo, JobTo, Filed, PassesSee, PlacesTrue,
            ToExtract, Busy, Moves, Extracts, Owned
    <2>5. PayloadKept'
        BY <1>19, KeysKnown, KeysApart DEF PassResets, Passing, PassRest, Rest, ChainTo, JobTo, Filed, PayloadKept, PlacesTrue,
            MoversSee, UnmovedSteps, MovedSteps, MoveSteps, Busy, Moves, Extracts, Owned
    <2>6. NoClobber'
        BY <1>19, KeysKnown, KeysApart DEF PassResets, Passing, PassRest, Rest, ChainTo, JobTo, Filed, NoClobber, PlacesTrue,
            MoversSee, UnmovedSteps, MovedSteps, MoveSteps, Busy, Moves, Extracts, Owned
    <2> QED
        BY <2>1, <2>2, <2>3, <2>4, <2>5, <2>6 DEF Filed
<1>20. ASSUME NEW a \in Actors, NEW t \in Tasks, PassInserts(a, t) PROVE Filed'
    <2>1. PlacesTrue'
        BY <1>20, KeysKnown, KeysApart DEF PassInserts, Passing, PassRest, Rest, ChainTo, JobTo, Filed, PlacesTrue, MoversSee,
            ExtractorsSee, PassesSee, ToExtract, UnmovedSteps, MovedSteps, NoJob, Busy, Moves, Extracts, Owned
    <2>2. MoversSee'
        BY <1>20, KeysKnown, KeysApart DEF PassInserts, Passing, PassRest, Rest, ChainTo, JobTo, Filed, MoversSee, PlacesTrue,
            UnmovedSteps, MovedSteps, MoveSteps, ExtractSteps, RunnersApart, Busy, Moves, Extracts, Owned
    <2>3. ExtractorsSee'
        BY <1>20, KeysKnown, KeysApart DEF PassInserts, Passing, PassRest, Rest, ChainTo, JobTo, Filed, ExtractorsSee, PlacesTrue,
            ToExtract, ExtractSteps, MoveSteps, RunnersApart, Busy, Moves, Extracts, Owned
    <2>4. PassesSee'
        BY <1>20, KeysKnown, KeysApart DEF PassInserts, Passing, PassRest, Rest, ChainTo, JobTo, Filed, PassesSee, PlacesTrue,
            ToExtract, Busy, Moves, Extracts, Owned
    <2>5. PayloadKept'
        BY <1>20, KeysKnown, KeysApart DEF PassInserts, Passing, PassRest, Rest, ChainTo, JobTo, Filed, PayloadKept, PlacesTrue,
            MoversSee, UnmovedSteps, MovedSteps, MoveSteps, Busy, Moves, Extracts, Owned
    <2>6. NoClobber'
        BY <1>20, KeysKnown, KeysApart DEF PassInserts, Passing, PassRest, Rest, ChainTo, JobTo, Filed, NoClobber, PlacesTrue,
            MoversSee, UnmovedSteps, MovedSteps, MoveSteps, Busy, Moves, Extracts, Owned
    <2> QED
        BY <2>1, <2>2, <2>3, <2>4, <2>5, <2>6 DEF Filed
<1>21. ASSUME NEW a \in Actors, NEW t \in Tasks, PassEnqueues(a, t) PROVE Filed'
    <2>1. PlacesTrue'
        BY <1>21, KeysKnown, KeysApart DEF PassEnqueues, Passing, PassRest, Rest, ChainTo, JobTo, Filed, PlacesTrue, MoversSee,
            ExtractorsSee, PassesSee, ToExtract, UnmovedSteps, MovedSteps, NoJob, Busy, Moves, Extracts, Owned
    <2>2. MoversSee'
        BY <1>21, KeysKnown, KeysApart DEF PassEnqueues, Passing, PassRest, Rest, ChainTo, JobTo, Filed, MoversSee, PlacesTrue,
            UnmovedSteps, MovedSteps, MoveSteps, ExtractSteps, RunnersApart, Busy, Moves, Extracts, Owned
    <2>3. ExtractorsSee'
        BY <1>21, KeysKnown, KeysApart DEF PassEnqueues, Passing, PassRest, Rest, ChainTo, JobTo, Filed, ExtractorsSee,
            PlacesTrue, ToExtract, ExtractSteps, MoveSteps, RunnersApart, Busy, Moves, Extracts, Owned
    <2>4. PassesSee'
        BY <1>21, KeysKnown, KeysApart DEF PassEnqueues, Passing, PassRest, Rest, ChainTo, JobTo, Filed, PassesSee, PlacesTrue,
            ToExtract, Busy, Moves, Extracts, Owned
    <2>5. PayloadKept'
        BY <1>21, KeysKnown, KeysApart DEF PassEnqueues, Passing, PassRest, Rest, ChainTo, JobTo, Filed, PayloadKept, PlacesTrue,
            MoversSee, UnmovedSteps, MovedSteps, MoveSteps, Busy, Moves, Extracts, Owned
    <2>6. NoClobber'
        BY <1>21, KeysKnown, KeysApart DEF PassEnqueues, Passing, PassRest, Rest, ChainTo, JobTo, Filed, NoClobber, PlacesTrue,
            MoversSee, UnmovedSteps, MovedSteps, MoveSteps, Busy, Moves, Extracts, Owned
    <2> QED
        BY <2>1, <2>2, <2>3, <2>4, <2>5, <2>6 DEF Filed
<1>22. ASSUME NEW a \in Actors, NEW t \in Tasks, PassNotifies(a, t) PROVE Filed'
    <2>1. PlacesTrue'
        <3>1. \A u \in Tasks : jobs'[MoveJob(u)] = jobs[MoveJob(u)] /\ jobs'[ExtractJob(u)] = jobs[ExtractJob(u)]
            BY <1>22, KeysKnown, KeysApart DEF PassNotifies, JobTo
        <3> QED
            BY <1>22, <3>1 DEF PassNotifies, PassRest, Rest, Filed, PlacesTrue, ToExtract
    <2>2. MoversSee'
        BY <1>22, KeysKnown, KeysApart DEF PassNotifies, Passing, PassRest, Rest, ChainTo, JobTo, Filed, MoversSee, PlacesTrue,
            UnmovedSteps, MovedSteps, MoveSteps, ExtractSteps, RunnersApart, Busy, Moves, Extracts, Owned
    <2>3. ExtractorsSee'
        BY <1>22, KeysKnown, KeysApart DEF PassNotifies, Passing, PassRest, Rest, ChainTo, JobTo, Filed, ExtractorsSee,
            PlacesTrue, ToExtract, ExtractSteps, MoveSteps, RunnersApart, Busy, Moves, Extracts, Owned
    <2>4. PassesSee'
        BY <1>22, KeysKnown, KeysApart DEF PassNotifies, Passing, PassRest, Rest, ChainTo, JobTo, Filed, PassesSee, PlacesTrue,
            ToExtract, Busy, Moves, Extracts, Owned
    <2>5. PayloadKept'
        BY <1>22, KeysKnown, KeysApart DEF PassNotifies, Passing, PassRest, Rest, ChainTo, JobTo, Filed, PayloadKept, PlacesTrue,
            MoversSee, UnmovedSteps, MovedSteps, MoveSteps, Busy, Moves, Extracts, Owned
    <2>6. NoClobber'
        BY <1>22, KeysKnown, KeysApart DEF PassNotifies, Passing, PassRest, Rest, ChainTo, JobTo, Filed, NoClobber, PlacesTrue,
            MoversSee, UnmovedSteps, MovedSteps, MoveSteps, Busy, Moves, Extracts, Owned
    <2> QED
        BY <2>1, <2>2, <2>3, <2>4, <2>5, <2>6 DEF Filed
<1>23. ASSUME NEW a \in Actors, NEW t \in Tasks, PassRemoves(a, t) PROVE Filed'
    <2>1. PlacesTrue'
        BY <1>23, KeysKnown, KeysApart DEF PassRemoves, Passing, PassRest, Rest, ChainTo, RowTo, Filed, PlacesTrue, MoversSee,
            ExtractorsSee, PassesSee, ToExtract, UnmovedSteps, MovedSteps, NoJob, Busy, Moves, Extracts, Owned
    <2>2. MoversSee'
        BY <1>23, KeysKnown, KeysApart DEF PassRemoves, Passing, PassRest, Rest, ChainTo, RowTo, Filed, MoversSee, PlacesTrue,
            UnmovedSteps, MovedSteps, MoveSteps, ExtractSteps, RunnersApart, Busy, Moves, Extracts, Owned
    <2>3. ExtractorsSee'
        BY <1>23, KeysKnown, KeysApart DEF PassRemoves, Passing, PassRest, Rest, ChainTo, RowTo, Filed, ExtractorsSee, PlacesTrue,
            ToExtract, ExtractSteps, MoveSteps, RunnersApart, Busy, Moves, Extracts, Owned
    <2>4. PassesSee'
        BY <1>23, KeysKnown, KeysApart DEF PassRemoves, Passing, PassRest, Rest, ChainTo, RowTo, Filed, PassesSee, PlacesTrue,
            ToExtract, Busy, Moves, Extracts, Owned
    <2>5. PayloadKept'
        BY <1>23, KeysKnown, KeysApart DEF PassRemoves, Passing, PassRest, Rest, ChainTo, RowTo, Filed, PayloadKept, PlacesTrue,
            MoversSee, UnmovedSteps, MovedSteps, MoveSteps, Busy, Moves, Extracts, Owned
    <2>6. NoClobber'
        BY <1>23, KeysKnown, KeysApart DEF PassRemoves, Passing, PassRest, Rest, ChainTo, RowTo, Filed, NoClobber, PlacesTrue,
            MoversSee, UnmovedSteps, MovedSteps, MoveSteps, Busy, Moves, Extracts, Owned
    <2> QED
        BY <2>1, <2>2, <2>3, <2>4, <2>5, <2>6 DEF Filed
<1>24. ASSUME NEW t \in Tasks, Finishes(t) PROVE Filed'
    <2>1. PlacesTrue'
        BY <1>24, KeysKnown, KeysApart DEF Finishes, RowRest, Rest, RowTo, ChainTo, Filed, PlacesTrue, MoversSee, ExtractorsSee,
            PassesSee, ToExtract, UnmovedSteps, MovedSteps, NoJob, Busy, Moves, Extracts, Passing, Owned
    <2>2. MoversSee'
        BY <1>24, KeysKnown, KeysApart DEF Finishes, RowRest, Rest, RowTo, ChainTo, Filed, MoversSee, PlacesTrue, UnmovedSteps,
            MovedSteps, MoveSteps, ExtractSteps, RunnersApart, Busy, Moves, Extracts, Passing, Owned
    <2>3. ExtractorsSee'
        BY <1>24, KeysKnown, KeysApart DEF Finishes, RowRest, Rest, RowTo, ChainTo, Filed, ExtractorsSee, PlacesTrue, ToExtract,
            ExtractSteps, MoveSteps, RunnersApart, Busy, Moves, Extracts, Passing, Owned
    <2>4. PassesSee'
        BY <1>24, KeysKnown, KeysApart DEF Finishes, RowRest, Rest, RowTo, ChainTo, Filed, PassesSee, PlacesTrue, ToExtract, Busy,
            Moves, Extracts, Passing, Owned
    <2>5. PayloadKept'
        BY <1>24, KeysKnown, KeysApart DEF Finishes, RowRest, Rest, RowTo, ChainTo, Filed, PayloadKept, PlacesTrue, MoversSee,
            UnmovedSteps, MovedSteps, MoveSteps, Busy, Moves, Extracts, Passing, Owned
    <2>6. NoClobber'
        BY <1>24, KeysKnown, KeysApart DEF Finishes, RowRest, Rest, RowTo, ChainTo, Filed, NoClobber, PlacesTrue, MoversSee,
            UnmovedSteps, MovedSteps, MoveSteps, Busy, Moves, Extracts, Passing, Owned
    <2> QED
        BY <2>1, <2>2, <2>3, <2>4, <2>5, <2>6 DEF Filed
<1>25. ASSUME NEW t \in Tasks, Adopts(t) PROVE Filed'
    <2>1. PlacesTrue'
        BY <1>25, KeysKnown, KeysApart DEF Adopts, RowRest, Rest, RowTo, ChainTo, Filed, PlacesTrue, MoversSee, ExtractorsSee,
            PassesSee, ToExtract, UnmovedSteps, MovedSteps, NoJob, Busy, Moves, Extracts, Passing, Owned
    <2>2. MoversSee'
        BY <1>25, KeysKnown, KeysApart DEF Adopts, RowRest, Rest, RowTo, ChainTo, Filed, MoversSee, PlacesTrue, UnmovedSteps,
            MovedSteps, MoveSteps, ExtractSteps, RunnersApart, Busy, Moves, Extracts, Passing, Owned
    <2>3. ExtractorsSee'
        BY <1>25, KeysKnown, KeysApart DEF Adopts, RowRest, Rest, RowTo, ChainTo, Filed, ExtractorsSee, PlacesTrue, ToExtract,
            ExtractSteps, MoveSteps, RunnersApart, Busy, Moves, Extracts, Passing, Owned
    <2>4. PassesSee'
        BY <1>25, KeysKnown, KeysApart DEF Adopts, RowRest, Rest, RowTo, ChainTo, Filed, PassesSee, PlacesTrue, ToExtract, Busy,
            Moves, Extracts, Passing, Owned
    <2>5. PayloadKept'
        BY <1>25, KeysKnown, KeysApart DEF Adopts, RowRest, Rest, RowTo, ChainTo, Filed, PayloadKept, PlacesTrue, MoversSee,
            UnmovedSteps, MovedSteps, MoveSteps, Busy, Moves, Extracts, Passing, Owned
    <2>6. NoClobber'
        BY <1>25, KeysKnown, KeysApart DEF Adopts, RowRest, Rest, RowTo, ChainTo, Filed, NoClobber, PlacesTrue, MoversSee,
            UnmovedSteps, MovedSteps, MoveSteps, Busy, Moves, Extracts, Passing, Owned
    <2> QED
        BY <2>1, <2>2, <2>3, <2>4, <2>5, <2>6 DEF Filed
<1>26. ASSUME NEW t \in Tasks, Operates(t) PROVE Filed'
    <2>1. PlacesTrue'
        BY <1>26, KeysKnown, KeysApart DEF Operates, RowRest, Rest, RowTo, Filed, PlacesTrue, MoversSee, ExtractorsSee, PassesSee,
            ToExtract, UnmovedSteps, MovedSteps, NoJob, Busy, Moves, Extracts, Passing, Owned
    <2>2. MoversSee'
        BY <1>26, KeysKnown, KeysApart DEF Operates, RowRest, Rest, RowTo, Filed, MoversSee, PlacesTrue, UnmovedSteps, MovedSteps,
            MoveSteps, ExtractSteps, RunnersApart, Busy, Moves, Extracts, Passing, Owned
    <2>3. ExtractorsSee'
        BY <1>26, KeysKnown, KeysApart DEF Operates, RowRest, Rest, RowTo, Filed, ExtractorsSee, PlacesTrue, ToExtract,
            ExtractSteps, MoveSteps, RunnersApart, Busy, Moves, Extracts, Passing, Owned
    <2>4. PassesSee'
        BY <1>26, KeysKnown, KeysApart DEF Operates, RowRest, Rest, RowTo, Filed, PassesSee, PlacesTrue, ToExtract, Busy, Moves,
            Extracts, Passing, Owned
    <2>5. PayloadKept'
        BY <1>26, KeysKnown, KeysApart DEF Operates, RowRest, Rest, RowTo, Filed, PayloadKept, PlacesTrue, MoversSee,
            UnmovedSteps, MovedSteps, MoveSteps, Busy, Moves, Extracts, Passing, Owned
    <2>6. NoClobber'
        BY <1>26, KeysKnown, KeysApart DEF Operates, RowRest, Rest, RowTo, Filed, NoClobber, PlacesTrue, MoversSee, UnmovedSteps,
            MovedSteps, MoveSteps, Busy, Moves, Extracts, Passing, Owned
    <2> QED
        BY <2>1, <2>2, <2>3, <2>4, <2>5, <2>6 DEF Filed
<1>27. ASSUME Recovers PROVE Filed'
    <2>1. PlacesTrue'
        BY <1>27, KeysKnown, KeysApart DEF Recovers, PoolRest, Rest, Filed, PlacesTrue, MoversSee, ExtractorsSee, PassesSee,
            ToExtract, UnmovedSteps, MovedSteps, NoJob, Busy, Moves, Extracts, Passing, Owned
    <2>2. MoversSee'
        BY <1>27, KeysKnown, KeysApart DEF Recovers, PoolRest, Rest, Filed, MoversSee, PlacesTrue, UnmovedSteps, MovedSteps,
            MoveSteps, ExtractSteps, RunnersApart, Busy, Moves, Extracts, Passing, Owned
    <2>3. ExtractorsSee'
        BY <1>27, KeysKnown, KeysApart DEF Recovers, PoolRest, Rest, Filed, ExtractorsSee, PlacesTrue, ToExtract, ExtractSteps,
            MoveSteps, RunnersApart, Busy, Moves, Extracts, Passing, Owned
    <2>4. PassesSee'
        BY <1>27, KeysKnown, KeysApart DEF Recovers, PoolRest, Rest, Filed, PassesSee, PlacesTrue, ToExtract, Busy, Moves,
            Extracts, Passing, Owned
    <2>5. PayloadKept'
        BY <1>27, KeysKnown, KeysApart DEF Recovers, PoolRest, Rest, Filed, PayloadKept, PlacesTrue, MoversSee, UnmovedSteps,
            MovedSteps, MoveSteps, Busy, Moves, Extracts, Passing, Owned
    <2>6. NoClobber'
        BY <1>27, KeysKnown, KeysApart DEF Recovers, PoolRest, Rest, Filed, NoClobber, PlacesTrue, MoversSee, UnmovedSteps,
            MovedSteps, MoveSteps, Busy, Moves, Extracts, Passing, Owned
    <2> QED
        BY <2>1, <2>2, <2>3, <2>4, <2>5, <2>6 DEF Filed
<1>28. ASSUME Dies PROVE Filed'
    <2>1. PlacesTrue'
        BY <1>28, KeysKnown, KeysApart DEF Dies, Rest, Filed, PlacesTrue, MoversSee, ExtractorsSee, PassesSee, ToExtract,
            UnmovedSteps, MovedSteps, NoJob, Busy, Moves, Extracts, Passing, Owned
    <2>2. MoversSee'
        BY <1>28, KeysKnown, KeysApart DEF Dies, Rest, Filed, MoversSee, PlacesTrue, UnmovedSteps, MovedSteps, MoveSteps,
            ExtractSteps, RunnersApart, Busy, Moves, Extracts, Passing, Owned
    <2>3. ExtractorsSee'
        BY <1>28, KeysKnown, KeysApart DEF Dies, Rest, Filed, ExtractorsSee, PlacesTrue, ToExtract, ExtractSteps, MoveSteps,
            RunnersApart, Busy, Moves, Extracts, Passing, Owned
    <2>4. PassesSee'
        BY <1>28, KeysKnown, KeysApart DEF Dies, Rest, Filed, PassesSee, PlacesTrue, ToExtract, Busy, Moves, Extracts, Passing,
            Owned
    <2>5. PayloadKept'
        BY <1>28, KeysKnown, KeysApart DEF Dies, Rest, Filed, PayloadKept, PlacesTrue, MoversSee, UnmovedSteps, MovedSteps,
            MoveSteps, Busy, Moves, Extracts, Passing, Owned
    <2>6. NoClobber'
        BY <1>28, KeysKnown, KeysApart DEF Dies, Rest, Filed, NoClobber, PlacesTrue, MoversSee, UnmovedSteps, MovedSteps,
            MoveSteps, Busy, Moves, Extracts, Passing, Owned
    <2> QED
        BY <2>1, <2>2, <2>3, <2>4, <2>5, <2>6 DEF Filed
<1>29. ASSUME Stops PROVE Filed'
    <2>1. PlacesTrue'
        BY <1>29, KeysKnown, KeysApart DEF Stops, Rest, Filed, PlacesTrue, MoversSee, ExtractorsSee, PassesSee, ToExtract,
            UnmovedSteps, MovedSteps, NoJob, Busy, Moves, Extracts, Passing, Owned
    <2>2. MoversSee'
        BY <1>29, KeysKnown, KeysApart DEF Stops, Rest, Filed, MoversSee, PlacesTrue, UnmovedSteps, MovedSteps, MoveSteps,
            ExtractSteps, RunnersApart, Busy, Moves, Extracts, Passing, Owned
    <2>3. ExtractorsSee'
        BY <1>29, KeysKnown, KeysApart DEF Stops, Rest, Filed, ExtractorsSee, PlacesTrue, ToExtract, ExtractSteps, MoveSteps,
            RunnersApart, Busy, Moves, Extracts, Passing, Owned
    <2>4. PassesSee'
        BY <1>29, KeysKnown, KeysApart DEF Stops, Rest, Filed, PassesSee, PlacesTrue, ToExtract, Busy, Moves, Extracts, Passing,
            Owned
    <2>5. PayloadKept'
        BY <1>29, KeysKnown, KeysApart DEF Stops, Rest, Filed, PayloadKept, PlacesTrue, MoversSee, UnmovedSteps, MovedSteps,
            MoveSteps, Busy, Moves, Extracts, Passing, Owned
    <2>6. NoClobber'
        BY <1>29, KeysKnown, KeysApart DEF Stops, Rest, Filed, NoClobber, PlacesTrue, MoversSee, UnmovedSteps, MovedSteps,
            MoveSteps, Busy, Moves, Extracts, Passing, Owned
    <2> QED
        BY <2>1, <2>2, <2>3, <2>4, <2>5, <2>6 DEF Filed
<1>30. ASSUME Restarts PROVE Filed'
    <2>1. PlacesTrue'
        BY <1>30, KeysKnown, KeysApart DEF Restarts, Rest, Filed, PlacesTrue, MoversSee, ExtractorsSee, PassesSee, ToExtract,
            UnmovedSteps, MovedSteps, NoJob, Busy, Moves, Extracts, Passing, Owned
    <2>2. MoversSee'
        BY <1>30, KeysKnown, KeysApart DEF Restarts, Rest, Filed, MoversSee, PlacesTrue, UnmovedSteps, MovedSteps, MoveSteps,
            ExtractSteps, RunnersApart, Busy, Moves, Extracts, Passing, Owned
    <2>3. ExtractorsSee'
        BY <1>30, KeysKnown, KeysApart DEF Restarts, Rest, Filed, ExtractorsSee, PlacesTrue, ToExtract, ExtractSteps, MoveSteps,
            RunnersApart, Busy, Moves, Extracts, Passing, Owned
    <2>4. PassesSee'
        BY <1>30, KeysKnown, KeysApart DEF Restarts, Rest, Filed, PassesSee, PlacesTrue, ToExtract, Busy, Moves, Extracts,
            Passing, Owned
    <2>5. PayloadKept'
        BY <1>30, KeysKnown, KeysApart DEF Restarts, Rest, Filed, PayloadKept, PlacesTrue, MoversSee, UnmovedSteps, MovedSteps,
            MoveSteps, Busy, Moves, Extracts, Passing, Owned
    <2>6. NoClobber'
        BY <1>30, KeysKnown, KeysApart DEF Restarts, Rest, Filed, NoClobber, PlacesTrue, MoversSee, UnmovedSteps, MovedSteps,
            MoveSteps, Busy, Moves, Extracts, Passing, Owned
    <2> QED
        BY <2>1, <2>2, <2>3, <2>4, <2>5, <2>6 DEF Filed
<1> QED
    BY <1>1, <1>2, <1>3, <1>4, <1>5, <1>6, <1>7, <1>8, <1>9, <1>10, <1>11, <1>12, <1>13, <1>14, <1>15, <1>16, <1>17, <1>18, <1>19,
        <1>20, <1>21, <1>22, <1>23, <1>24, <1>25, <1>26, <1>27, <1>28, <1>29, <1>30 DEF SomeStep, HandlerSome, ExtractSome,
        MoveSome, PassSome

(* The states a row is walked through.                                      *)
LEMMA WalkingKeeps ==
    ASSUME Typed, Owned, Filed, Walking, SomeStep
    PROVE  Walking'
<1>1. ASSUME NEW w \in Workers, NEW t \in Tasks, ExtractReads(w, t) PROVE Walking'
    <2>1. Left'
        BY <1>1, KeysKnown, KeysApart DEF ExtractReads, HandlerRest, Rest, HandTo, GoesTo, OnExtract, Walking, Left, KindsFit,
            RunnersApart, MoveSteps, ExtractSteps, Busy, Moves, Extracts, Passing, Owned
    <2>2. WorkHasJob'
        BY <1>1, KeysKnown, KeysApart DEF ExtractReads, HandlerRest, Rest, HandTo, GoesTo, OnExtract, Walking, WorkHasJob,
            RunningRows, TaskGone, MoveSteps, ExtractSteps, Busy, Owned
    <2> QED
        BY <2>1, <2>2 DEF Walking
<1>2. ASSUME NEW w \in Workers, NEW t \in Tasks, ExtractClaims(w, t) PROVE Walking'
    <2>1. Left'
        BY <1>2, KeysKnown, KeysApart DEF ExtractClaims, HandlerRest, Rest, HandTo, GoesTo, RowTo, OnExtract, Walking, Left,
            KindsFit, RunnersApart, MoveSteps, ExtractSteps, Busy, Moves, Extracts, Passing, Owned
    <2>2. WorkHasJob'
        <3>1. jobs[ExtractJob(t)].st = "running"
            <4>1. row[t].st # "gone" /\ hand[w].job = ExtractJob(t) /\ Busy(w)
                BY <1>2 DEF ExtractClaims, OnExtract, ExtractJob, Busy, ExtractSteps
            <4>2. ~TaskGone(ExtractJob(t))
                BY <4>1, KeysApart DEF TaskGone
            <4>3. jobs[ExtractJob(t)] = [st |-> "running", attempts |-> hand[w].attempts]
                BY <4>1, <4>2 DEF Owned, RunningRows
            <4> QED
                BY <4>3
        <3>2. jobs' = jobs /\ row'[t].st = "extracting" /\ \A u \in Tasks \ {t} : row'[u] = row[u]
            BY <1>2 DEF ExtractClaims, HandlerRest, RowTo
        <3> QED
            BY <3>1, <3>2 DEF Walking, WorkHasJob
    <2> QED
        BY <2>1, <2>2 DEF Walking
<1>3. ASSUME NEW w \in Workers, NEW t \in Tasks, ExtractFails(w, t) PROVE Walking'
    <2>1. Left'
        BY <1>3, KeysKnown, KeysApart DEF ExtractFails, HandlerRest, Rest, HandTo, GoesTo, RowTo, OnExtract, Walking, Left,
            KindsFit, RunnersApart, MoveSteps, ExtractSteps, Busy, Moves, Extracts, Passing, Owned
    <2>2. WorkHasJob'
        BY <1>3, KeysKnown, KeysApart DEF ExtractFails, HandlerRest, Rest, HandTo, GoesTo, RowTo, OnExtract, Walking, WorkHasJob,
            RunningRows, TaskGone, MoveSteps, ExtractSteps, Busy, Owned
    <2> QED
        BY <2>1, <2>2 DEF Walking
<1>4. ASSUME NEW w \in Workers, NEW t \in Tasks, ExtractFiles(w, t) PROVE Walking'
    <2>1. Left'
        BY <1>4, KeysKnown, KeysApart DEF ExtractFiles, HandlerRest, Rest, HandTo, GoesTo, DiskTo, OnExtract, Walking, Left,
            KindsFit, RunnersApart, MoveSteps, ExtractSteps, Busy, Moves, Extracts, Passing, Owned
    <2>2. WorkHasJob'
        BY <1>4, KeysKnown, KeysApart DEF ExtractFiles, HandlerRest, Rest, HandTo, GoesTo, DiskTo, OnExtract, Walking, WorkHasJob,
            RunningRows, TaskGone, MoveSteps, ExtractSteps, Busy, Owned
    <2> QED
        BY <2>1, <2>2 DEF Walking
<1>5. ASSUME NEW w \in Workers, NEW t \in Tasks, ExtractCompletes(w, t) PROVE Walking'
    <2>1. Left'
        BY <1>5, KeysKnown, KeysApart DEF ExtractCompletes, HandlerRest, Rest, HandTo, GoesTo, RowTo, ChainTo, OnExtract, Walking,
            Left, KindsFit, RunnersApart, MoveSteps, ExtractSteps, Busy, Moves, Extracts, Passing, Owned
    <2>2. WorkHasJob'
        BY <1>5, KeysKnown, KeysApart DEF ExtractCompletes, HandlerRest, Rest, HandTo, GoesTo, RowTo, ChainTo, OnExtract, Walking,
            WorkHasJob, RunningRows, TaskGone, MoveSteps, ExtractSteps, Busy, Owned
    <2> QED
        BY <2>1, <2>2 DEF Walking
<1>6. ASSUME NEW w \in Workers, NEW t \in Tasks, MoveReads(w, t) PROVE Walking'
    <2>1. Left'
        BY <1>6, KeysKnown, KeysApart DEF MoveReads, HandlerRest, Rest, HandTo, GoesTo, OnMove, Walking, Left, KindsFit,
            RunnersApart, MoveSteps, ExtractSteps, Busy, Moves, Extracts, Passing, Owned
    <2>2. WorkHasJob'
        BY <1>6, KeysKnown, KeysApart DEF MoveReads, HandlerRest, Rest, HandTo, GoesTo, OnMove, Walking, WorkHasJob, RunningRows,
            TaskGone, MoveSteps, ExtractSteps, Busy, Owned
    <2> QED
        BY <2>1, <2>2 DEF Walking
<1>7. ASSUME NEW w \in Workers, NEW t \in Tasks, MoveLooks(w, t) PROVE Walking'
    <2>1. Left'
        BY <1>7, KeysKnown, KeysApart DEF MoveLooks, HandlerRest, Rest, HandTo, OnMove, Walking, Left, KindsFit, RunnersApart,
            MoveSteps, ExtractSteps, Busy, Moves, Extracts, Passing, Owned
    <2>2. WorkHasJob'
        BY <1>7, KeysKnown, KeysApart DEF MoveLooks, HandlerRest, Rest, HandTo, OnMove, Walking, WorkHasJob, RunningRows,
            TaskGone, MoveSteps, ExtractSteps, Busy, Owned
    <2> QED
        BY <2>1, <2>2 DEF Walking
<1>8. ASSUME NEW w \in Workers, NEW t \in Tasks, MoveClaims(w, t) PROVE Walking'
    <2>1. Left'
        BY <1>8, KeysKnown, KeysApart DEF MoveClaims, HandlerRest, Rest, HandTo, RowTo, OnMove, Walking, Left, KindsFit,
            RunnersApart, MoveSteps, ExtractSteps, Busy, Moves, Extracts, Passing, Owned
    <2>2. WorkHasJob'
        <3>1. jobs[MoveJob(t)].st = "running"
            <4>1. row[t].st # "gone" /\ hand[w].job = MoveJob(t) /\ Busy(w)
                BY <1>8 DEF MoveClaims, OnMove, MoveJob, Busy, MoveSteps
            <4>2. ~TaskGone(MoveJob(t))
                BY <4>1, KeysApart DEF TaskGone
            <4>3. jobs[MoveJob(t)] = [st |-> "running", attempts |-> hand[w].attempts]
                BY <4>1, <4>2 DEF Owned, RunningRows
            <4> QED
                BY <4>3
        <3>2. jobs' = jobs /\ row'[t].st = "moving" /\ \A u \in Tasks \ {t} : row'[u] = row[u]
            BY <1>8 DEF MoveClaims, HandlerRest, RowTo
        <3> QED
            BY <3>1, <3>2 DEF Walking, WorkHasJob
    <2> QED
        BY <2>1, <2>2 DEF Walking
<1>9. ASSUME NEW w \in Workers, NEW t \in Tasks, MoveFails(w, t) PROVE Walking'
    <2>1. Left'
        BY <1>9, KeysKnown, KeysApart DEF MoveFails, HandlerRest, Rest, HandTo, GoesTo, RowTo, OnMove, Walking, Left, KindsFit,
            RunnersApart, MoveSteps, ExtractSteps, Busy, Moves, Extracts, Passing, Owned
    <2>2. WorkHasJob'
        BY <1>9, KeysKnown, KeysApart DEF MoveFails, HandlerRest, Rest, HandTo, GoesTo, RowTo, OnMove, Walking, WorkHasJob,
            RunningRows, TaskGone, MoveSteps, ExtractSteps, Busy, Owned
    <2> QED
        BY <2>1, <2>2 DEF Walking
<1>10. ASSUME NEW w \in Workers, NEW t \in Tasks, MovePauses(w, t) PROVE Walking'
    <2>1. Left'
        BY <1>10, KeysKnown, KeysApart DEF MovePauses, HandlerRest, Rest, HandTo, GoesTo, RowTo, OnMove, Walking, Left, KindsFit,
            RunnersApart, MoveSteps, ExtractSteps, Busy, Moves, Extracts, Passing, Owned
    <2>2. WorkHasJob'
        BY <1>10, KeysKnown, KeysApart DEF MovePauses, HandlerRest, Rest, HandTo, GoesTo, RowTo, OnMove, Walking, WorkHasJob,
            RunningRows, TaskGone, MoveSteps, ExtractSteps, Busy, Owned
    <2> QED
        BY <2>1, <2>2 DEF Walking
<1>11. ASSUME NEW w \in Workers, NEW t \in Tasks, MoveSettles(w, t) PROVE Walking'
    <2>1. Left'
        BY <1>11, KeysKnown, KeysApart DEF MoveSettles, HandlerRest, Rest, HandTo, GoesTo, RowTo, OnMove, Walking, Left, KindsFit,
            RunnersApart, MoveSteps, ExtractSteps, Busy, Moves, Extracts, Passing, Owned
    <2>2. WorkHasJob'
        BY <1>11, KeysKnown, KeysApart DEF MoveSettles, HandlerRest, Rest, HandTo, GoesTo, RowTo, OnMove, Walking, WorkHasJob,
            RunningRows, TaskGone, MoveSteps, ExtractSteps, Busy, Owned
    <2> QED
        BY <2>1, <2>2 DEF Walking
<1>12. ASSUME NEW w \in Workers, NEW t \in Tasks, MoveCompletes(w, t) PROVE Walking'
    <2>1. Left'
        BY <1>12, KeysKnown, KeysApart DEF MoveCompletes, HandlerRest, Rest, HandTo, GoesTo, RowTo, ChainTo, OnMove, Walking,
            Left, KindsFit, RunnersApart, MoveSteps, ExtractSteps, Busy, Moves, Extracts, Passing, Owned
    <2>2. WorkHasJob'
        BY <1>12, KeysKnown, KeysApart DEF MoveCompletes, HandlerRest, Rest, HandTo, GoesTo, RowTo, ChainTo, OnMove, Walking,
            WorkHasJob, RunningRows, TaskGone, MoveSteps, ExtractSteps, Busy, Owned
    <2> QED
        BY <2>1, <2>2 DEF Walking
<1>13. ASSUME NEW w \in Workers, NEW t \in Tasks, MoveFiles(w, t) PROVE Walking'
    <2>1. Left'
        BY <1>13, KeysKnown, KeysApart DEF MoveFiles, HandlerRest, Rest, HandTo, GoesTo, DiskTo, OnMove, Walking, Left, KindsFit,
            RunnersApart, MoveSteps, ExtractSteps, Busy, Moves, Extracts, Passing, Owned, Filed, MoversSee
    <2>2. WorkHasJob'
        BY <1>13, KeysKnown, KeysApart DEF MoveFiles, HandlerRest, Rest, HandTo, GoesTo, DiskTo, OnMove, Walking, WorkHasJob,
            RunningRows, TaskGone, MoveSteps, ExtractSteps, Busy, Owned
    <2> QED
        BY <2>1, <2>2 DEF Walking
<1>14. ASSUME NEW w \in Workers, Sends(w) PROVE Walking'
    <2>1. Left'
        BY <1>14, KeysKnown, KeysApart DEF Sends, HandlerRest, Rest, HandTo, GoesTo, Walking, Left, KindsFit, RunnersApart,
            MoveSteps, ExtractSteps, Busy, Moves, Extracts, Passing, Owned
    <2>2. WorkHasJob'
        BY <1>14, KeysKnown, KeysApart DEF Sends, HandlerRest, Rest, HandTo, GoesTo, Walking, WorkHasJob, RunningRows, TaskGone,
            MoveSteps, ExtractSteps, Busy, Owned
    <2> QED
        BY <2>1, <2>2 DEF Walking
<1>15. ASSUME NEW w \in Workers, Returns(w) PROVE Walking'
    <2>1. Left'
        BY <1>15, KeysKnown, KeysApart DEF Returns, HandlerRest, Rest, HandTo, GoesTo, Walking, Left, KindsFit, RunnersApart,
            MoveSteps, ExtractSteps, Busy, Moves, Extracts, Passing, Owned
    <2>2. WorkHasJob'
        BY <1>15, KeysKnown, KeysApart DEF Returns, HandlerRest, Rest, HandTo, GoesTo, Walking, WorkHasJob, RunningRows, TaskGone,
            MoveSteps, ExtractSteps, Busy, Owned
    <2> QED
        BY <2>1, <2>2 DEF Walking
<1>16. ASSUME NEW w \in Workers, Outcomes(w) PROVE Walking'
    <2>1. Left'
        BY <1>16, KeysKnown, KeysApart DEF Outcomes, PoolRest, Rest, JobTo, Walking, Left, KindsFit, RunnersApart, MoveSteps,
            ExtractSteps, Busy, Moves, Extracts, Passing, Owned
    <2>2. WorkHasJob'
        <3>1. ASSUME NEW t \in Tasks, row[t].st = "extracting"
              PROVE  \/ jobs'[ExtractJob(t)].st \in {"pending", "running"}
                     \/ jobs'[ExtractJob(t)].st = "failed" /\ jobs'[ExtractJob(t)].attempts >= MaxAttempts
            <4>1. \/ jobs[ExtractJob(t)].st \in {"pending", "running"}
                  \/ jobs[ExtractJob(t)].st = "failed" /\ jobs[ExtractJob(t)].attempts >= MaxAttempts
                BY <3>1 DEF Walking, WorkHasJob
            <4>2. CASE hand[w].job = ExtractJob(t)
                <5>1. Busy(w) /\ Extracts(w, t) /\ hand[w].pc = "err"
                    BY <1>16, <3>1, <4>2 DEF Outcomes, Busy, Extracts, Walking, Left
                <5>2. ~TaskGone(ExtractJob(t))
                    BY <3>1, KeysApart DEF TaskGone
                <5>3. jobs[ExtractJob(t)].attempts = hand[w].attempts
                    <6>1. jobs[ExtractJob(t)] = [st |-> "running", attempts |-> hand[w].attempts]
                        BY <4>2, <5>1, <5>2 DEF Owned, RunningRows
                    <6> QED
                        BY <6>1
                <5> QED
                    BY <1>16, <4>1, <4>2, <5>1, <5>3 DEF Outcomes, JobTo
            <4>3. CASE hand[w].job # ExtractJob(t)
                BY <1>16, <4>1, <4>3, KeysKnown DEF Outcomes, JobTo
            <4> QED
                BY <4>2, <4>3
        <3>2. ASSUME NEW t \in Tasks, row[t].st = "moving"
              PROVE  \/ jobs'[MoveJob(t)].st \in {"pending", "running"}
                     \/ jobs'[MoveJob(t)].st = "failed" /\ jobs'[MoveJob(t)].attempts >= MaxAttempts
            <4>1. \/ jobs[MoveJob(t)].st \in {"pending", "running"}
                  \/ jobs[MoveJob(t)].st = "failed" /\ jobs[MoveJob(t)].attempts >= MaxAttempts
                BY <3>2 DEF Walking, WorkHasJob
            <4>2. CASE hand[w].job = MoveJob(t)
                <5>1. Busy(w) /\ Moves(w, t) /\ hand[w].pc = "err"
                    BY <1>16, <3>2, <4>2 DEF Outcomes, Busy, Moves, Walking, Left
                <5>2. ~TaskGone(MoveJob(t))
                    BY <3>2, KeysApart DEF TaskGone
                <5>3. jobs[MoveJob(t)].attempts = hand[w].attempts
                    <6>1. jobs[MoveJob(t)] = [st |-> "running", attempts |-> hand[w].attempts]
                        BY <4>2, <5>1, <5>2 DEF Owned, RunningRows
                    <6> QED
                        BY <6>1
                <5> QED
                    BY <1>16, <4>1, <4>2, <5>1, <5>3 DEF Outcomes, JobTo
            <4>3. CASE hand[w].job # MoveJob(t)
                BY <1>16, <4>1, <4>3, KeysKnown DEF Outcomes, JobTo
            <4> QED
                BY <4>2, <4>3
        <3>3. row' = row
            BY <1>16 DEF Outcomes, PoolRest
        <3> QED
            BY <3>1, <3>2, <3>3 DEF WorkHasJob
    <2> QED
        BY <2>1, <2>2 DEF Walking
<1>17. ASSUME NEW w \in Workers, NEW j \in JobKeys, Claims(w, j) PROVE Walking'
    <2>1. Left'
        BY <1>17, KeysKnown, KeysApart DEF Claims, PoolRest, Rest, JobTo, Walking, Left, KindsFit, RunnersApart, MoveSteps,
            ExtractSteps, Busy, Moves, Extracts, Passing, Owned
    <2>2. WorkHasJob'
        BY <1>17, KeysKnown, KeysApart DEF Claims, PoolRest, Rest, JobTo, Walking, WorkHasJob, RunningRows, TaskGone, MoveSteps,
            ExtractSteps, Busy, Owned
    <2> QED
        BY <2>1, <2>2 DEF Walking
<1>18. ASSUME NEW a \in Actors, NEW t \in Tasks, PassGoes(a, t) PROVE Walking'
    <2>1. Left'
        BY <1>18, KeysKnown, KeysApart DEF PassGoes, Passing, PassRest, Rest, ChainTo, Walking, Left, KindsFit, RunnersApart,
            MoveSteps, ExtractSteps, Busy, Moves, Extracts, Owned
    <2>2. WorkHasJob'
        BY <1>18, KeysKnown, KeysApart DEF PassGoes, Passing, PassRest, Rest, ChainTo, Walking, WorkHasJob, RunningRows, TaskGone,
            MoveSteps, ExtractSteps, Busy, Owned
    <2> QED
        BY <2>1, <2>2 DEF Walking
<1>19. ASSUME NEW a \in Actors, NEW t \in Tasks, PassResets(a, t) PROVE Walking'
    <2>1. Left'
        BY <1>19, KeysKnown, KeysApart DEF PassResets, Passing, PassRest, Rest, ChainTo, JobTo, Walking, Left, KindsFit,
            RunnersApart, MoveSteps, ExtractSteps, Busy, Moves, Extracts, Owned
    <2>2. WorkHasJob'
        BY <1>19, KeysKnown, KeysApart DEF PassResets, Passing, PassRest, Rest, ChainTo, JobTo, Walking, WorkHasJob, RunningRows,
            TaskGone, MoveSteps, ExtractSteps, Busy, Owned
    <2> QED
        BY <2>1, <2>2 DEF Walking
<1>20. ASSUME NEW a \in Actors, NEW t \in Tasks, PassInserts(a, t) PROVE Walking'
    <2>1. Left'
        BY <1>20, KeysKnown, KeysApart DEF PassInserts, Passing, PassRest, Rest, ChainTo, JobTo, Walking, Left, KindsFit,
            RunnersApart, MoveSteps, ExtractSteps, Busy, Moves, Extracts, Owned
    <2>2. WorkHasJob'
        BY <1>20, KeysKnown, KeysApart DEF PassInserts, Passing, PassRest, Rest, ChainTo, JobTo, Walking, WorkHasJob, RunningRows,
            TaskGone, MoveSteps, ExtractSteps, Busy, Owned
    <2> QED
        BY <2>1, <2>2 DEF Walking
<1>21. ASSUME NEW a \in Actors, NEW t \in Tasks, PassEnqueues(a, t) PROVE Walking'
    <2>1. Left'
        BY <1>21, KeysKnown, KeysApart DEF PassEnqueues, Passing, PassRest, Rest, ChainTo, JobTo, Walking, Left, KindsFit,
            RunnersApart, MoveSteps, ExtractSteps, Busy, Moves, Extracts, Owned
    <2>2. WorkHasJob'
        BY <1>21, KeysKnown, KeysApart DEF PassEnqueues, Passing, PassRest, Rest, ChainTo, JobTo, Walking, WorkHasJob,
            RunningRows, TaskGone, MoveSteps, ExtractSteps, Busy, Owned
    <2> QED
        BY <2>1, <2>2 DEF Walking
<1>22. ASSUME NEW a \in Actors, NEW t \in Tasks, PassNotifies(a, t) PROVE Walking'
    <2>1. Left'
        BY <1>22, KeysKnown, KeysApart DEF PassNotifies, Passing, PassRest, Rest, ChainTo, JobTo, Walking, Left, KindsFit,
            RunnersApart, MoveSteps, ExtractSteps, Busy, Moves, Extracts, Owned
    <2>2. WorkHasJob'
        BY <1>22, KeysKnown, KeysApart DEF PassNotifies, Passing, PassRest, Rest, ChainTo, JobTo, Walking, WorkHasJob,
            RunningRows, TaskGone, MoveSteps, ExtractSteps, Busy, Owned
    <2> QED
        BY <2>1, <2>2 DEF Walking
<1>23. ASSUME NEW a \in Actors, NEW t \in Tasks, PassRemoves(a, t) PROVE Walking'
    <2>1. Left'
        BY <1>23, KeysKnown, KeysApart DEF PassRemoves, Passing, PassRest, Rest, ChainTo, RowTo, Walking, Left, KindsFit,
            RunnersApart, MoveSteps, ExtractSteps, Busy, Moves, Extracts, Owned
    <2>2. WorkHasJob'
        BY <1>23, KeysKnown, KeysApart DEF PassRemoves, Passing, PassRest, Rest, ChainTo, RowTo, Walking, WorkHasJob, RunningRows,
            TaskGone, MoveSteps, ExtractSteps, Busy, Owned
    <2> QED
        BY <2>1, <2>2 DEF Walking
<1>24. ASSUME NEW t \in Tasks, Finishes(t) PROVE Walking'
    <2>1. Left'
        BY <1>24, KeysKnown, KeysApart DEF Finishes, RowRest, Rest, RowTo, ChainTo, Walking, Left, KindsFit, RunnersApart,
            MoveSteps, ExtractSteps, Busy, Moves, Extracts, Passing, Owned
    <2>2. WorkHasJob'
        BY <1>24, KeysKnown, KeysApart DEF Finishes, RowRest, Rest, RowTo, ChainTo, Walking, WorkHasJob, RunningRows, TaskGone,
            MoveSteps, ExtractSteps, Busy, Owned
    <2> QED
        BY <2>1, <2>2 DEF Walking
<1>25. ASSUME NEW t \in Tasks, Adopts(t) PROVE Walking'
    <2>1. Left'
        BY <1>25, KeysKnown, KeysApart DEF Adopts, RowRest, Rest, RowTo, ChainTo, Walking, Left, KindsFit, RunnersApart,
            MoveSteps, ExtractSteps, Busy, Moves, Extracts, Passing, Owned
    <2>2. WorkHasJob'
        BY <1>25, KeysKnown, KeysApart DEF Adopts, RowRest, Rest, RowTo, ChainTo, Walking, WorkHasJob, RunningRows, TaskGone,
            MoveSteps, ExtractSteps, Busy, Owned
    <2> QED
        BY <2>1, <2>2 DEF Walking
<1>26. ASSUME NEW t \in Tasks, Operates(t) PROVE Walking'
    <2>1. Left'
        BY <1>26, KeysKnown, KeysApart DEF Operates, RowRest, Rest, RowTo, Walking, Left, KindsFit, RunnersApart, MoveSteps,
            ExtractSteps, Busy, Moves, Extracts, Passing, Owned
    <2>2. WorkHasJob'
        BY <1>26, KeysKnown, KeysApart DEF Operates, RowRest, Rest, RowTo, Walking, WorkHasJob, RunningRows, TaskGone, MoveSteps,
            ExtractSteps, Busy, Owned
    <2> QED
        BY <2>1, <2>2 DEF Walking
<1>27. ASSUME Recovers PROVE Walking'
    <2>1. Left'
        BY <1>27, KeysKnown, KeysApart DEF Recovers, PoolRest, Rest, Walking, Left, KindsFit, RunnersApart, MoveSteps,
            ExtractSteps, Busy, Moves, Extracts, Passing, Owned
    <2>2. WorkHasJob'
        BY <1>27, KeysKnown, KeysApart DEF Recovers, PoolRest, Rest, Walking, WorkHasJob, RunningRows, TaskGone, MoveSteps,
            ExtractSteps, Busy, Owned
    <2> QED
        BY <2>1, <2>2 DEF Walking
<1>28. ASSUME Dies PROVE Walking'
    <2>1. Left'
        BY <1>28, KeysKnown, KeysApart DEF Dies, Rest, Walking, Left, KindsFit, RunnersApart, MoveSteps, ExtractSteps, Busy,
            Moves, Extracts, Passing, Owned
    <2>2. WorkHasJob'
        BY <1>28, KeysKnown, KeysApart DEF Dies, Rest, Walking, WorkHasJob, RunningRows, TaskGone, MoveSteps, ExtractSteps, Busy,
            Owned
    <2> QED
        BY <2>1, <2>2 DEF Walking
<1>29. ASSUME Stops PROVE Walking'
    <2>1. Left'
        BY <1>29, KeysKnown, KeysApart DEF Stops, Rest, Walking, Left, KindsFit, RunnersApart, MoveSteps, ExtractSteps, Busy,
            Moves, Extracts, Passing, Owned
    <2>2. WorkHasJob'
        BY <1>29, KeysKnown, KeysApart DEF Stops, Rest, Walking, WorkHasJob, RunningRows, TaskGone, MoveSteps, ExtractSteps, Busy,
            Owned
    <2> QED
        BY <2>1, <2>2 DEF Walking
<1>30. ASSUME Restarts PROVE Walking'
    <2>1. Left'
        BY <1>30, KeysKnown, KeysApart DEF Restarts, Rest, Walking, Left, KindsFit, RunnersApart, MoveSteps, ExtractSteps, Busy,
            Moves, Extracts, Passing, Owned
    <2>2. WorkHasJob'
        BY <1>30, KeysKnown, KeysApart DEF Restarts, Rest, Walking, WorkHasJob, RunningRows, TaskGone, MoveSteps, ExtractSteps,
            Busy, Owned
    <2> QED
        BY <2>1, <2>2 DEF Walking
<1> QED
    BY <1>1, <1>2, <1>3, <1>4, <1>5, <1>6, <1>7, <1>8, <1>9, <1>10, <1>11, <1>12, <1>13, <1>14, <1>15, <1>16, <1>17, <1>18, <1>19,
        <1>20, <1>21, <1>22, <1>23, <1>24, <1>25, <1>26, <1>27, <1>28, <1>29, <1>30 DEF SomeStep, HandlerSome, ExtractSome,
        MoveSome, PassSome

(* What has to happen first.                                              *)
LEMMA OrderedKeeps ==
    ASSUME Typed, Owned, Filed, Ordered, SomeStep
    PROVE  Ordered'
<1>1. ASSUME NEW w \in Workers, NEW t \in Tasks, ExtractReads(w, t) PROVE Ordered'
    <2>1. NothingYet'
        BY <1>1, KeysKnown, KeysApart, SweepApart, WorkersPass DEF ExtractReads, HandlerRest, Rest, HandTo, GoesTo, OnExtract,
            Ordered, NothingYet, Unstarted, MoveSteps, ExtractSteps, Busy, Moves, Extracts, Passing, Owned
    <2>2. SweepFirst'
        BY <1>1, KeysKnown, KeysApart, SweepApart, WorkersPass DEF ExtractReads, HandlerRest, Rest, HandTo, GoesTo, OnExtract,
            Ordered, SweepFirst, NothingYet, Unstarted, First, Filed, PassesSee, PlacesTrue, ToExtract, MoveSteps, ExtractSteps,
            Busy, Moves, Extracts, Passing, Owned
    <2>3. MoveWaits'
        BY <1>1, KeysKnown, KeysApart, SweepApart, WorkersPass DEF ExtractReads, HandlerRest, Rest, HandTo, GoesTo, OnExtract,
            Ordered, MoveWaits, InOrder, First, NothingYet, Unstarted, MoveSteps, ExtractSteps, Busy, Moves, Extracts, Passing,
            Owned, ToExtract
    <2>4. MoversAfter'
        BY <1>1, KeysKnown, KeysApart, SweepApart, WorkersPass DEF ExtractReads, HandlerRest, Rest, HandTo, GoesTo, OnExtract,
            Ordered, MoversAfter, MoveWaits, InOrder, First, NothingYet, Unstarted, MoveSteps, ExtractSteps, Busy, Moves,
            Extracts, Passing, Owned, ToExtract
    <2>5. TailWaits'
        BY <1>1, KeysKnown, KeysApart, SweepApart, WorkersPass DEF ExtractReads, HandlerRest, Rest, HandTo, GoesTo, OnExtract,
            Ordered, TailWaits, MoveWaits, InOrder, First, NothingYet, Unstarted, MoveSteps, ExtractSteps, Busy, Moves, Extracts,
            Passing, Owned, ToExtract
    <2>6. StalePathAway'
        BY <1>1, KeysKnown, KeysApart, SweepApart, WorkersPass DEF ExtractReads, HandlerRest, Rest, HandTo, GoesTo, OnExtract,
            Ordered, StalePathAway, NothingYet, Unstarted, OnlyMoves, AwayStates, Filed, MoversSee, ExtractorsSee, UnmovedSteps,
            MovedSteps, ToExtract, RunnersApart, MoveSteps, ExtractSteps, Busy, Moves, Extracts, Passing, Owned
    <2> QED
        BY <2>1, <2>2, <2>3, <2>4, <2>5, <2>6 DEF Ordered
<1>2. ASSUME NEW w \in Workers, NEW t \in Tasks, ExtractClaims(w, t) PROVE Ordered'
    <2>1. NothingYet'
        BY <1>2, KeysKnown, KeysApart, SweepApart, WorkersPass DEF ExtractClaims, HandlerRest, Rest, HandTo, GoesTo, RowTo,
            OnExtract, Ordered, NothingYet, Unstarted, MoveSteps, ExtractSteps, Busy, Moves, Extracts, Passing, Owned
    <2>2. SweepFirst'
        BY <1>2, KeysKnown, KeysApart, SweepApart, WorkersPass DEF ExtractClaims, HandlerRest, Rest, HandTo, GoesTo, RowTo,
            OnExtract, Ordered, SweepFirst, NothingYet, Unstarted, First, Filed, PassesSee, PlacesTrue, ToExtract, MoveSteps,
            ExtractSteps, Busy, Moves, Extracts, Passing, Owned
    <2>3. MoveWaits'
        BY <1>2, KeysKnown, KeysApart, SweepApart, WorkersPass DEF ExtractClaims, HandlerRest, Rest, HandTo, GoesTo, RowTo,
            OnExtract, Ordered, MoveWaits, InOrder, First, NothingYet, Unstarted, MoveSteps, ExtractSteps, Busy, Moves, Extracts,
            Passing, Owned, ToExtract
    <2>4. MoversAfter'
        BY <1>2, KeysKnown, KeysApart, SweepApart, WorkersPass DEF ExtractClaims, HandlerRest, Rest, HandTo, GoesTo, RowTo,
            OnExtract, Ordered, MoversAfter, MoveWaits, InOrder, First, NothingYet, Unstarted, MoveSteps, ExtractSteps, Busy,
            Moves, Extracts, Passing, Owned, ToExtract
    <2>5. TailWaits'
        BY <1>2, KeysKnown, KeysApart, SweepApart, WorkersPass DEF ExtractClaims, HandlerRest, Rest, HandTo, GoesTo, RowTo,
            OnExtract, Ordered, TailWaits, MoveWaits, InOrder, First, NothingYet, Unstarted, MoveSteps, ExtractSteps, Busy, Moves,
            Extracts, Passing, Owned, ToExtract
    <2>6. StalePathAway'
        BY <1>2, KeysKnown, KeysApart, SweepApart, WorkersPass DEF ExtractClaims, HandlerRest, Rest, HandTo, GoesTo, RowTo,
            OnExtract, Ordered, StalePathAway, NothingYet, Unstarted, OnlyMoves, AwayStates, Filed, MoversSee, ExtractorsSee,
            UnmovedSteps, MovedSteps, ToExtract, RunnersApart, MoveSteps, ExtractSteps, Busy, Moves, Extracts, Passing, Owned
    <2> QED
        BY <2>1, <2>2, <2>3, <2>4, <2>5, <2>6 DEF Ordered
<1>3. ASSUME NEW w \in Workers, NEW t \in Tasks, ExtractFails(w, t) PROVE Ordered'
    <2>1. NothingYet'
        BY <1>3, KeysKnown, KeysApart, SweepApart, WorkersPass DEF ExtractFails, HandlerRest, Rest, HandTo, GoesTo, RowTo,
            OnExtract, Ordered, NothingYet, Unstarted, MoveSteps, ExtractSteps, Busy, Moves, Extracts, Passing, Owned
    <2>2. SweepFirst'
        BY <1>3, KeysKnown, KeysApart, SweepApart, WorkersPass DEF ExtractFails, HandlerRest, Rest, HandTo, GoesTo, RowTo,
            OnExtract, Ordered, SweepFirst, NothingYet, Unstarted, First, Filed, PassesSee, PlacesTrue, ToExtract, MoveSteps,
            ExtractSteps, Busy, Moves, Extracts, Passing, Owned
    <2>3. MoveWaits'
        BY <1>3, KeysKnown, KeysApart, SweepApart, WorkersPass DEF ExtractFails, HandlerRest, Rest, HandTo, GoesTo, RowTo,
            OnExtract, Ordered, MoveWaits, InOrder, First, NothingYet, Unstarted, MoveSteps, ExtractSteps, Busy, Moves, Extracts,
            Passing, Owned, ToExtract
    <2>4. MoversAfter'
        BY <1>3, KeysKnown, KeysApart, SweepApart, WorkersPass DEF ExtractFails, HandlerRest, Rest, HandTo, GoesTo, RowTo,
            OnExtract, Ordered, MoversAfter, MoveWaits, InOrder, First, NothingYet, Unstarted, MoveSteps, ExtractSteps, Busy,
            Moves, Extracts, Passing, Owned, ToExtract
    <2>5. TailWaits'
        BY <1>3, KeysKnown, KeysApart, SweepApart, WorkersPass DEF ExtractFails, HandlerRest, Rest, HandTo, GoesTo, RowTo,
            OnExtract, Ordered, TailWaits, MoveWaits, InOrder, First, NothingYet, Unstarted, MoveSteps, ExtractSteps, Busy, Moves,
            Extracts, Passing, Owned, ToExtract
    <2>6. StalePathAway'
        BY <1>3, KeysKnown, KeysApart, SweepApart, WorkersPass DEF ExtractFails, HandlerRest, Rest, HandTo, GoesTo, RowTo,
            OnExtract, Ordered, StalePathAway, NothingYet, Unstarted, OnlyMoves, AwayStates, Filed, MoversSee, ExtractorsSee,
            UnmovedSteps, MovedSteps, ToExtract, RunnersApart, MoveSteps, ExtractSteps, Busy, Moves, Extracts, Passing, Owned
    <2> QED
        BY <2>1, <2>2, <2>3, <2>4, <2>5, <2>6 DEF Ordered
<1>4. ASSUME NEW w \in Workers, NEW t \in Tasks, ExtractFiles(w, t) PROVE Ordered'
    <2>1. NothingYet'
        BY <1>4, KeysKnown, KeysApart, SweepApart, WorkersPass DEF ExtractFiles, HandlerRest, Rest, HandTo, GoesTo, DiskTo,
            OnExtract, Ordered, NothingYet, Unstarted, MoveSteps, ExtractSteps, Busy, Moves, Extracts, Passing, Owned
    <2>2. SweepFirst'
        BY <1>4, KeysKnown, KeysApart, SweepApart, WorkersPass DEF ExtractFiles, HandlerRest, Rest, HandTo, GoesTo, DiskTo,
            OnExtract, Ordered, SweepFirst, NothingYet, Unstarted, First, Filed, PassesSee, PlacesTrue, ToExtract, MoveSteps,
            ExtractSteps, Busy, Moves, Extracts, Passing, Owned
    <2>3. MoveWaits'
        BY <1>4, KeysKnown, KeysApart, SweepApart, WorkersPass DEF ExtractFiles, HandlerRest, Rest, HandTo, GoesTo, DiskTo,
            OnExtract, Ordered, MoveWaits, InOrder, First, NothingYet, Unstarted, MoveSteps, ExtractSteps, Busy, Moves, Extracts,
            Passing, Owned, ToExtract
    <2>4. MoversAfter'
        BY <1>4, KeysKnown, KeysApart, SweepApart, WorkersPass DEF ExtractFiles, HandlerRest, Rest, HandTo, GoesTo, DiskTo,
            OnExtract, Ordered, MoversAfter, MoveWaits, InOrder, First, NothingYet, Unstarted, MoveSteps, ExtractSteps, Busy,
            Moves, Extracts, Passing, Owned, ToExtract
    <2>5. TailWaits'
        BY <1>4, KeysKnown, KeysApart, SweepApart, WorkersPass DEF ExtractFiles, HandlerRest, Rest, HandTo, GoesTo, DiskTo,
            OnExtract, Ordered, TailWaits, MoveWaits, InOrder, First, NothingYet, Unstarted, MoveSteps, ExtractSteps, Busy, Moves,
            Extracts, Passing, Owned, ToExtract
    <2>6. StalePathAway'
        BY <1>4, KeysKnown, KeysApart, SweepApart, WorkersPass DEF ExtractFiles, HandlerRest, Rest, HandTo, GoesTo, DiskTo,
            OnExtract, Ordered, StalePathAway, NothingYet, Unstarted, OnlyMoves, AwayStates, Filed, MoversSee, ExtractorsSee,
            UnmovedSteps, MovedSteps, ToExtract, RunnersApart, MoveSteps, ExtractSteps, Busy, Moves, Extracts, Passing, Owned
    <2> QED
        BY <2>1, <2>2, <2>3, <2>4, <2>5, <2>6 DEF Ordered
<1>5. ASSUME NEW w \in Workers, NEW t \in Tasks, ExtractCompletes(w, t) PROVE Ordered'
    <2>1. NothingYet'
        BY <1>5, KeysKnown, KeysApart, SweepApart, WorkersPass DEF ExtractCompletes, HandlerRest, Rest, HandTo, GoesTo, RowTo,
            ChainTo, OnExtract, Ordered, NothingYet, Unstarted, MoveSteps, ExtractSteps, Busy, Moves, Extracts, Passing, Owned
    <2>2. SweepFirst'
        BY <1>5, KeysKnown, KeysApart, SweepApart, WorkersPass DEF ExtractCompletes, HandlerRest, Rest, HandTo, GoesTo, RowTo,
            ChainTo, OnExtract, Ordered, SweepFirst, NothingYet, Unstarted, First, Filed, PassesSee, PlacesTrue, ToExtract,
            MoveSteps, ExtractSteps, Busy, Moves, Extracts, Passing, Owned
    <2>3. MoveWaits'
        BY <1>5, KeysKnown, KeysApart, SweepApart, WorkersPass DEF ExtractCompletes, HandlerRest, Rest, HandTo, GoesTo, RowTo,
            ChainTo, OnExtract, Ordered, MoveWaits, InOrder, First, NothingYet, Unstarted, MoveSteps, ExtractSteps, Busy, Moves,
            Extracts, Passing, Owned, ToExtract
    <2>4. MoversAfter'
        BY <1>5, KeysKnown, KeysApart, SweepApart, WorkersPass DEF ExtractCompletes, HandlerRest, Rest, HandTo, GoesTo, RowTo,
            ChainTo, OnExtract, Ordered, MoversAfter, MoveWaits, InOrder, First, NothingYet, Unstarted, MoveSteps, ExtractSteps,
            Busy, Moves, Extracts, Passing, Owned, ToExtract
    <2>5. TailWaits'
        BY <1>5, KeysKnown, KeysApart, SweepApart, WorkersPass DEF ExtractCompletes, HandlerRest, Rest, HandTo, GoesTo, RowTo,
            ChainTo, OnExtract, Ordered, TailWaits, MoveWaits, InOrder, First, NothingYet, Unstarted, MoveSteps, ExtractSteps,
            Busy, Moves, Extracts, Passing, Owned, ToExtract
    <2>6. StalePathAway'
        BY <1>5, KeysKnown, KeysApart, SweepApart, WorkersPass DEF ExtractCompletes, HandlerRest, Rest, HandTo, GoesTo, RowTo,
            ChainTo, OnExtract, Ordered, StalePathAway, NothingYet, Unstarted, OnlyMoves, AwayStates, Filed, MoversSee,
            ExtractorsSee, UnmovedSteps, MovedSteps, ToExtract, RunnersApart, MoveSteps, ExtractSteps, Busy, Moves, Extracts,
            Passing, Owned
    <2> QED
        BY <2>1, <2>2, <2>3, <2>4, <2>5, <2>6 DEF Ordered
<1>6. ASSUME NEW w \in Workers, NEW t \in Tasks, MoveReads(w, t) PROVE Ordered'
    <2>1. NothingYet'
        BY <1>6, KeysKnown, KeysApart, SweepApart, WorkersPass DEF MoveReads, HandlerRest, Rest, HandTo, GoesTo, OnMove, Ordered,
            NothingYet, Unstarted, MoveSteps, ExtractSteps, Busy, Moves, Extracts, Passing, Owned
    <2>2. SweepFirst'
        BY <1>6, KeysKnown, KeysApart, SweepApart, WorkersPass DEF MoveReads, HandlerRest, Rest, HandTo, GoesTo, OnMove, Ordered,
            SweepFirst, NothingYet, Unstarted, First, Filed, PassesSee, PlacesTrue, ToExtract, MoveSteps, ExtractSteps, Busy,
            Moves, Extracts, Passing, Owned
    <2>3. MoveWaits'
        BY <1>6, KeysKnown, KeysApart, SweepApart, WorkersPass DEF MoveReads, HandlerRest, Rest, HandTo, GoesTo, OnMove, Ordered,
            MoveWaits, InOrder, First, NothingYet, Unstarted, MoveSteps, ExtractSteps, Busy, Moves, Extracts, Passing, Owned,
            ToExtract
    <2>4. MoversAfter'
        BY <1>6, KeysKnown, KeysApart, SweepApart, WorkersPass DEF MoveReads, HandlerRest, Rest, HandTo, GoesTo, OnMove, Ordered,
            MoversAfter, MoveWaits, InOrder, First, NothingYet, Unstarted, MoveSteps, ExtractSteps, Busy, Moves, Extracts,
            Passing, Owned, ToExtract
    <2>5. TailWaits'
        BY <1>6, KeysKnown, KeysApart, SweepApart, WorkersPass DEF MoveReads, HandlerRest, Rest, HandTo, GoesTo, OnMove, Ordered,
            TailWaits, MoveWaits, InOrder, First, NothingYet, Unstarted, MoveSteps, ExtractSteps, Busy, Moves, Extracts, Passing,
            Owned, ToExtract
    <2>6. StalePathAway'
        BY <1>6, KeysKnown, KeysApart, SweepApart, WorkersPass DEF MoveReads, HandlerRest, Rest, HandTo, GoesTo, OnMove, Ordered,
            StalePathAway, NothingYet, Unstarted, OnlyMoves, AwayStates, Filed, MoversSee, ExtractorsSee, UnmovedSteps,
            MovedSteps, ToExtract, RunnersApart, MoveSteps, ExtractSteps, Busy, Moves, Extracts, Passing, Owned
    <2> QED
        BY <2>1, <2>2, <2>3, <2>4, <2>5, <2>6 DEF Ordered
<1>7. ASSUME NEW w \in Workers, NEW t \in Tasks, MoveLooks(w, t) PROVE Ordered'
    <2>1. NothingYet'
        BY <1>7, KeysKnown, KeysApart, SweepApart, WorkersPass DEF MoveLooks, HandlerRest, Rest, HandTo, OnMove, Ordered,
            NothingYet, Unstarted, MoveSteps, ExtractSteps, Busy, Moves, Extracts, Passing, Owned
    <2>2. SweepFirst'
        BY <1>7, KeysKnown, KeysApart, SweepApart, WorkersPass DEF MoveLooks, HandlerRest, Rest, HandTo, OnMove, Ordered,
            SweepFirst, NothingYet, Unstarted, First, Filed, PassesSee, PlacesTrue, ToExtract, MoveSteps, ExtractSteps, Busy,
            Moves, Extracts, Passing, Owned
    <2>3. MoveWaits'
        BY <1>7, KeysKnown, KeysApart, SweepApart, WorkersPass DEF MoveLooks, HandlerRest, Rest, HandTo, OnMove, Ordered,
            MoveWaits, InOrder, First, NothingYet, Unstarted, MoveSteps, ExtractSteps, Busy, Moves, Extracts, Passing, Owned,
            ToExtract
    <2>4. MoversAfter'
        BY <1>7, KeysKnown, KeysApart, SweepApart, WorkersPass DEF MoveLooks, HandlerRest, Rest, HandTo, OnMove, Ordered,
            MoversAfter, MoveWaits, InOrder, First, NothingYet, Unstarted, MoveSteps, ExtractSteps, Busy, Moves, Extracts,
            Passing, Owned, ToExtract
    <2>5. TailWaits'
        BY <1>7, KeysKnown, KeysApart, SweepApart, WorkersPass DEF MoveLooks, HandlerRest, Rest, HandTo, OnMove, Ordered,
            TailWaits, MoveWaits, InOrder, First, NothingYet, Unstarted, MoveSteps, ExtractSteps, Busy, Moves, Extracts, Passing,
            Owned, ToExtract
    <2>6. StalePathAway'
        BY <1>7, KeysKnown, KeysApart, SweepApart, WorkersPass DEF MoveLooks, HandlerRest, Rest, HandTo, OnMove, Ordered,
            StalePathAway, NothingYet, Unstarted, OnlyMoves, AwayStates, Filed, MoversSee, ExtractorsSee, UnmovedSteps,
            MovedSteps, ToExtract, RunnersApart, MoveSteps, ExtractSteps, Busy, Moves, Extracts, Passing, Owned
    <2> QED
        BY <2>1, <2>2, <2>3, <2>4, <2>5, <2>6 DEF Ordered
<1>8. ASSUME NEW w \in Workers, NEW t \in Tasks, MoveClaims(w, t) PROVE Ordered'
    <2>1. NothingYet'
        BY <1>8, KeysKnown, KeysApart, SweepApart, WorkersPass DEF MoveClaims, HandlerRest, Rest, HandTo, RowTo, OnMove, Ordered,
            NothingYet, Unstarted, MoveSteps, ExtractSteps, Busy, Moves, Extracts, Passing, Owned
    <2>2. SweepFirst'
        BY <1>8, KeysKnown, KeysApart, SweepApart, WorkersPass DEF MoveClaims, HandlerRest, Rest, HandTo, RowTo, OnMove, Ordered,
            SweepFirst, NothingYet, Unstarted, First, Filed, PassesSee, PlacesTrue, ToExtract, MoveSteps, ExtractSteps, Busy,
            Moves, Extracts, Passing, Owned
    <2>3. MoveWaits'
        BY <1>8, KeysKnown, KeysApart, SweepApart, WorkersPass DEF MoveClaims, HandlerRest, Rest, HandTo, RowTo, OnMove, Ordered,
            MoveWaits, InOrder, First, NothingYet, Unstarted, MoveSteps, ExtractSteps, Busy, Moves, Extracts, Passing, Owned,
            ToExtract
    <2>4. MoversAfter'
        BY <1>8, KeysKnown, KeysApart, SweepApart, WorkersPass DEF MoveClaims, HandlerRest, Rest, HandTo, RowTo, OnMove, Ordered,
            MoversAfter, MoveWaits, InOrder, First, NothingYet, Unstarted, MoveSteps, ExtractSteps, Busy, Moves, Extracts,
            Passing, Owned, ToExtract
    <2>5. TailWaits'
        BY <1>8, KeysKnown, KeysApart, SweepApart, WorkersPass DEF MoveClaims, HandlerRest, Rest, HandTo, RowTo, OnMove, Ordered,
            TailWaits, MoveWaits, InOrder, First, NothingYet, Unstarted, MoveSteps, ExtractSteps, Busy, Moves, Extracts, Passing,
            Owned, ToExtract
    <2>6. StalePathAway'
        BY <1>8, KeysKnown, KeysApart, SweepApart, WorkersPass DEF MoveClaims, HandlerRest, Rest, HandTo, RowTo, OnMove, Ordered,
            StalePathAway, NothingYet, Unstarted, OnlyMoves, AwayStates, Filed, MoversSee, ExtractorsSee, UnmovedSteps,
            MovedSteps, ToExtract, RunnersApart, MoveSteps, ExtractSteps, Busy, Moves, Extracts, Passing, Owned
    <2> QED
        BY <2>1, <2>2, <2>3, <2>4, <2>5, <2>6 DEF Ordered
<1>9. ASSUME NEW w \in Workers, NEW t \in Tasks, MoveFails(w, t) PROVE Ordered'
    <2>1. NothingYet'
        BY <1>9, KeysKnown, KeysApart, SweepApart, WorkersPass DEF MoveFails, HandlerRest, Rest, HandTo, GoesTo, RowTo, OnMove,
            Ordered, NothingYet, Unstarted, MoveSteps, ExtractSteps, Busy, Moves, Extracts, Passing, Owned
    <2>2. SweepFirst'
        BY <1>9, KeysKnown, KeysApart, SweepApart, WorkersPass, SMTT(30) DEF MoveFails, HandlerRest, Rest, HandTo, GoesTo, RowTo, OnMove,
            Ordered, SweepFirst, NothingYet, Unstarted, First, Filed, PassesSee, PlacesTrue, ToExtract, MoveSteps, ExtractSteps,
            Busy, Moves, Extracts, Passing, Owned
    <2>3. MoveWaits'
        BY <1>9, KeysKnown, KeysApart, SweepApart, WorkersPass DEF MoveFails, HandlerRest, Rest, HandTo, GoesTo, RowTo, OnMove,
            Ordered, MoveWaits, InOrder, First, NothingYet, Unstarted, MoveSteps, ExtractSteps, Busy, Moves, Extracts, Passing,
            Owned, ToExtract
    <2>4. MoversAfter'
        BY <1>9, KeysKnown, KeysApart, SweepApart, WorkersPass DEF MoveFails, HandlerRest, Rest, HandTo, GoesTo, RowTo, OnMove,
            Ordered, MoversAfter, MoveWaits, InOrder, First, NothingYet, Unstarted, MoveSteps, ExtractSteps, Busy, Moves,
            Extracts, Passing, Owned, ToExtract
    <2>5. TailWaits'
        BY <1>9, KeysKnown, KeysApart, SweepApart, WorkersPass DEF MoveFails, HandlerRest, Rest, HandTo, GoesTo, RowTo, OnMove,
            Ordered, TailWaits, MoveWaits, InOrder, First, NothingYet, Unstarted, MoveSteps, ExtractSteps, Busy, Moves, Extracts,
            Passing, Owned, ToExtract
    <2>6. StalePathAway'
        BY <1>9, KeysKnown, KeysApart, SweepApart, WorkersPass DEF MoveFails, HandlerRest, Rest, HandTo, GoesTo, RowTo, OnMove,
            Ordered, StalePathAway, NothingYet, Unstarted, OnlyMoves, AwayStates, Filed, MoversSee, ExtractorsSee, UnmovedSteps,
            MovedSteps, ToExtract, RunnersApart, MoveSteps, ExtractSteps, Busy, Moves, Extracts, Passing, Owned
    <2> QED
        BY <2>1, <2>2, <2>3, <2>4, <2>5, <2>6 DEF Ordered
<1>10. ASSUME NEW w \in Workers, NEW t \in Tasks, MovePauses(w, t) PROVE Ordered'
    <2>1. NothingYet'
        BY <1>10, KeysKnown, KeysApart, SweepApart, WorkersPass DEF MovePauses, HandlerRest, Rest, HandTo, GoesTo, RowTo, OnMove,
            Ordered, NothingYet, Unstarted, MoveSteps, ExtractSteps, Busy, Moves, Extracts, Passing, Owned
    <2>2. SweepFirst'
        BY <1>10, KeysKnown, KeysApart, SweepApart, WorkersPass DEF MovePauses, HandlerRest, Rest, HandTo, GoesTo, RowTo, OnMove,
            Ordered, SweepFirst, NothingYet, Unstarted, First, Filed, PassesSee, PlacesTrue, ToExtract, MoveSteps, ExtractSteps,
            Busy, Moves, Extracts, Passing, Owned
    <2>3. MoveWaits'
        BY <1>10, KeysKnown, KeysApart, SweepApart, WorkersPass DEF MovePauses, HandlerRest, Rest, HandTo, GoesTo, RowTo, OnMove,
            Ordered, MoveWaits, InOrder, First, NothingYet, Unstarted, MoveSteps, ExtractSteps, Busy, Moves, Extracts, Passing,
            Owned, ToExtract
    <2>4. MoversAfter'
        BY <1>10, KeysKnown, KeysApart, SweepApart, WorkersPass DEF MovePauses, HandlerRest, Rest, HandTo, GoesTo, RowTo, OnMove,
            Ordered, MoversAfter, MoveWaits, InOrder, First, NothingYet, Unstarted, MoveSteps, ExtractSteps, Busy, Moves,
            Extracts, Passing, Owned, ToExtract
    <2>5. TailWaits'
        BY <1>10, KeysKnown, KeysApart, SweepApart, WorkersPass DEF MovePauses, HandlerRest, Rest, HandTo, GoesTo, RowTo, OnMove,
            Ordered, TailWaits, MoveWaits, InOrder, First, NothingYet, Unstarted, MoveSteps, ExtractSteps, Busy, Moves, Extracts,
            Passing, Owned, ToExtract
    <2>6. StalePathAway'
        BY <1>10, KeysKnown, KeysApart, SweepApart, WorkersPass DEF MovePauses, HandlerRest, Rest, HandTo, GoesTo, RowTo, OnMove,
            Ordered, StalePathAway, NothingYet, Unstarted, OnlyMoves, AwayStates, Filed, MoversSee, ExtractorsSee, UnmovedSteps,
            MovedSteps, ToExtract, RunnersApart, MoveSteps, ExtractSteps, Busy, Moves, Extracts, Passing, Owned
    <2> QED
        BY <2>1, <2>2, <2>3, <2>4, <2>5, <2>6 DEF Ordered
<1>11. ASSUME NEW w \in Workers, NEW t \in Tasks, MoveSettles(w, t) PROVE Ordered'
    <2>1. NothingYet'
        BY <1>11, KeysKnown, KeysApart, SweepApart, WorkersPass DEF MoveSettles, HandlerRest, Rest, HandTo, GoesTo, RowTo, OnMove,
            Ordered, NothingYet, Unstarted, MoveSteps, ExtractSteps, Busy, Moves, Extracts, Passing, Owned
    <2>2. SweepFirst'
        BY <1>11, KeysKnown, KeysApart, SweepApart, WorkersPass DEF MoveSettles, HandlerRest, Rest, HandTo, GoesTo, RowTo, OnMove,
            Ordered, SweepFirst, NothingYet, Unstarted, First, Filed, PassesSee, PlacesTrue, ToExtract, MoveSteps, ExtractSteps,
            Busy, Moves, Extracts, Passing, Owned
    <2>3. MoveWaits'
        BY <1>11, KeysKnown, KeysApart, SweepApart, WorkersPass DEF MoveSettles, HandlerRest, Rest, HandTo, GoesTo, RowTo, OnMove,
            Ordered, MoveWaits, InOrder, First, NothingYet, Unstarted, MoveSteps, ExtractSteps, Busy, Moves, Extracts, Passing,
            Owned, ToExtract
    <2>4. MoversAfter'
        BY <1>11, KeysKnown, KeysApart, SweepApart, WorkersPass DEF MoveSettles, HandlerRest, Rest, HandTo, GoesTo, RowTo, OnMove,
            Ordered, MoversAfter, MoveWaits, InOrder, First, NothingYet, Unstarted, MoveSteps, ExtractSteps, Busy, Moves,
            Extracts, Passing, Owned, ToExtract
    <2>5. TailWaits'
        BY <1>11, KeysKnown, KeysApart, SweepApart, WorkersPass DEF MoveSettles, HandlerRest, Rest, HandTo, GoesTo, RowTo, OnMove,
            Ordered, TailWaits, MoveWaits, InOrder, First, NothingYet, Unstarted, MoveSteps, ExtractSteps, Busy, Moves, Extracts,
            Passing, Owned, ToExtract
    <2>6. StalePathAway'
        BY <1>11, KeysKnown, KeysApart, SweepApart, WorkersPass DEF MoveSettles, HandlerRest, Rest, HandTo, GoesTo, RowTo, OnMove,
            Ordered, StalePathAway, NothingYet, Unstarted, OnlyMoves, AwayStates, Filed, MoversSee, ExtractorsSee, UnmovedSteps,
            MovedSteps, ToExtract, RunnersApart, MoveSteps, ExtractSteps, Busy, Moves, Extracts, Passing, Owned
    <2> QED
        BY <2>1, <2>2, <2>3, <2>4, <2>5, <2>6 DEF Ordered
<1>12. ASSUME NEW w \in Workers, NEW t \in Tasks, MoveCompletes(w, t) PROVE Ordered'
    <2>1. NothingYet'
        BY <1>12, KeysKnown, KeysApart, SweepApart, WorkersPass DEF MoveCompletes, HandlerRest, Rest, HandTo, GoesTo, RowTo,
            ChainTo, OnMove, Ordered, NothingYet, Unstarted, MoveSteps, ExtractSteps, Busy, Moves, Extracts, Passing, Owned
    <2>2. SweepFirst'
        BY <1>12, KeysKnown, KeysApart, SweepApart, WorkersPass DEF MoveCompletes, HandlerRest, Rest, HandTo, GoesTo, RowTo,
            ChainTo, OnMove, Ordered, SweepFirst, NothingYet, Unstarted, First, Filed, PassesSee, PlacesTrue, ToExtract,
            MoveSteps, ExtractSteps, Busy, Moves, Extracts, Passing, Owned
    <2>3. MoveWaits'
        BY <1>12, KeysKnown, KeysApart, SweepApart, WorkersPass DEF MoveCompletes, HandlerRest, Rest, HandTo, GoesTo, RowTo,
            ChainTo, OnMove, Ordered, MoveWaits, InOrder, First, NothingYet, Unstarted, MoveSteps, ExtractSteps, Busy, Moves,
            Extracts, Passing, Owned, ToExtract
    <2>4. MoversAfter'
        BY <1>12, KeysKnown, KeysApart, SweepApart, WorkersPass DEF MoveCompletes, HandlerRest, Rest, HandTo, GoesTo, RowTo,
            ChainTo, OnMove, Ordered, MoversAfter, MoveWaits, InOrder, First, NothingYet, Unstarted, MoveSteps, ExtractSteps,
            Busy, Moves, Extracts, Passing, Owned, ToExtract
    <2>5. TailWaits'
        BY <1>12, KeysKnown, KeysApart, SweepApart, WorkersPass DEF MoveCompletes, HandlerRest, Rest, HandTo, GoesTo, RowTo,
            ChainTo, OnMove, Ordered, TailWaits, MoveWaits, InOrder, First, NothingYet, Unstarted, MoveSteps, ExtractSteps, Busy,
            Moves, Extracts, Passing, Owned, ToExtract
    <2>6. StalePathAway'
        BY <1>12, KeysKnown, KeysApart, SweepApart, WorkersPass DEF MoveCompletes, HandlerRest, Rest, HandTo, GoesTo, RowTo,
            ChainTo, OnMove, Ordered, StalePathAway, NothingYet, Unstarted, OnlyMoves, AwayStates, Filed, MoversSee,
            ExtractorsSee, UnmovedSteps, MovedSteps, ToExtract, RunnersApart, MoveSteps, ExtractSteps, Busy, Moves, Extracts,
            Passing, Owned
    <2> QED
        BY <2>1, <2>2, <2>3, <2>4, <2>5, <2>6 DEF Ordered
<1>13. ASSUME NEW w \in Workers, NEW t \in Tasks, MoveFiles(w, t) PROVE Ordered'
    <2>1. NothingYet'
        BY <1>13, KeysKnown, KeysApart, SweepApart, WorkersPass DEF MoveFiles, HandlerRest, Rest, HandTo, GoesTo, DiskTo, OnMove,
            Ordered, NothingYet, Unstarted, MoveSteps, ExtractSteps, Busy, Moves, Extracts, Passing, Owned
    <2>2. SweepFirst'
        BY <1>13, KeysKnown, KeysApart, SweepApart, WorkersPass DEF MoveFiles, HandlerRest, Rest, HandTo, GoesTo, DiskTo, OnMove,
            Ordered, SweepFirst, NothingYet, Unstarted, First, Filed, PassesSee, PlacesTrue, ToExtract, MoveSteps, ExtractSteps,
            Busy, Moves, Extracts, Passing, Owned
    <2>3. MoveWaits'
        BY <1>13, KeysKnown, KeysApart, SweepApart, WorkersPass DEF MoveFiles, HandlerRest, Rest, HandTo, GoesTo, DiskTo, OnMove,
            Ordered, MoveWaits, InOrder, First, NothingYet, Unstarted, MoveSteps, ExtractSteps, Busy, Moves, Extracts, Passing,
            Owned, ToExtract
    <2>4. MoversAfter'
        BY <1>13, KeysKnown, KeysApart, SweepApart, WorkersPass DEF MoveFiles, HandlerRest, Rest, HandTo, GoesTo, DiskTo, OnMove,
            Ordered, MoversAfter, MoveWaits, InOrder, First, NothingYet, Unstarted, MoveSteps, ExtractSteps, Busy, Moves,
            Extracts, Passing, Owned, ToExtract
    <2>5. TailWaits'
        BY <1>13, KeysKnown, KeysApart, SweepApart, WorkersPass DEF MoveFiles, HandlerRest, Rest, HandTo, GoesTo, DiskTo, OnMove,
            Ordered, TailWaits, MoveWaits, InOrder, First, NothingYet, Unstarted, MoveSteps, ExtractSteps, Busy, Moves, Extracts,
            Passing, Owned, ToExtract
    <2>6. StalePathAway'
        BY <1>13, KeysKnown, KeysApart, SweepApart, WorkersPass DEF MoveFiles, HandlerRest, Rest, HandTo, GoesTo, DiskTo, OnMove,
            Ordered, StalePathAway, NothingYet, Unstarted, OnlyMoves, AwayStates, Filed, MoversSee, ExtractorsSee, UnmovedSteps,
            MovedSteps, ToExtract, RunnersApart, MoveSteps, ExtractSteps, Busy, Moves, Extracts, Passing, Owned
    <2> QED
        BY <2>1, <2>2, <2>3, <2>4, <2>5, <2>6 DEF Ordered
<1>14. ASSUME NEW w \in Workers, Sends(w) PROVE Ordered'
    <2>1. NothingYet'
        BY <1>14, KeysKnown, KeysApart, SweepApart, WorkersPass DEF Sends, HandlerRest, Rest, HandTo, GoesTo, Ordered, NothingYet,
            Unstarted, MoveSteps, ExtractSteps, Busy, Moves, Extracts, Passing, Owned
    <2>2. SweepFirst'
        BY <1>14, KeysKnown, KeysApart, SweepApart, WorkersPass DEF Sends, HandlerRest, Rest, HandTo, GoesTo, Ordered, SweepFirst,
            NothingYet, Unstarted, First, Filed, PassesSee, PlacesTrue, ToExtract, MoveSteps, ExtractSteps, Busy, Moves, Extracts,
            Passing, Owned
    <2>3. MoveWaits'
        BY <1>14, KeysKnown, KeysApart, SweepApart, WorkersPass DEF Sends, HandlerRest, Rest, HandTo, GoesTo, Ordered, MoveWaits,
            InOrder, First, NothingYet, Unstarted, MoveSteps, ExtractSteps, Busy, Moves, Extracts, Passing, Owned, ToExtract
    <2>4. MoversAfter'
        BY <1>14, KeysKnown, KeysApart, SweepApart, WorkersPass DEF Sends, HandlerRest, Rest, HandTo, GoesTo, Ordered,
            MoversAfter, MoveWaits, InOrder, First, NothingYet, Unstarted, MoveSteps, ExtractSteps, Busy, Moves, Extracts,
            Passing, Owned, ToExtract
    <2>5. TailWaits'
        BY <1>14, KeysKnown, KeysApart, SweepApart, WorkersPass DEF Sends, HandlerRest, Rest, HandTo, GoesTo, Ordered, TailWaits,
            MoveWaits, InOrder, First, NothingYet, Unstarted, MoveSteps, ExtractSteps, Busy, Moves, Extracts, Passing, Owned,
            ToExtract
    <2>6. StalePathAway'
        BY <1>14, KeysKnown, KeysApart, SweepApart, WorkersPass DEF Sends, HandlerRest, Rest, HandTo, GoesTo, Ordered,
            StalePathAway, NothingYet, Unstarted, OnlyMoves, AwayStates, Filed, MoversSee, ExtractorsSee, UnmovedSteps,
            MovedSteps, ToExtract, RunnersApart, MoveSteps, ExtractSteps, Busy, Moves, Extracts, Passing, Owned
    <2> QED
        BY <2>1, <2>2, <2>3, <2>4, <2>5, <2>6 DEF Ordered
<1>15. ASSUME NEW w \in Workers, Returns(w) PROVE Ordered'
    <2>1. NothingYet'
        BY <1>15, KeysKnown, KeysApart, SweepApart, WorkersPass DEF Returns, HandlerRest, Rest, HandTo, GoesTo, Ordered,
            NothingYet, Unstarted, MoveSteps, ExtractSteps, Busy, Moves, Extracts, Passing, Owned
    <2>2. SweepFirst'
        BY <1>15, KeysKnown, KeysApart, SweepApart, WorkersPass DEF Returns, HandlerRest, Rest, HandTo, GoesTo, Ordered,
            SweepFirst, NothingYet, Unstarted, First, Filed, PassesSee, PlacesTrue, ToExtract, MoveSteps, ExtractSteps, Busy,
            Moves, Extracts, Passing, Owned
    <2>3. MoveWaits'
        BY <1>15, KeysKnown, KeysApart, SweepApart, WorkersPass DEF Returns, HandlerRest, Rest, HandTo, GoesTo, Ordered,
            MoveWaits, InOrder, First, NothingYet, Unstarted, MoveSteps, ExtractSteps, Busy, Moves, Extracts, Passing, Owned,
            ToExtract
    <2>4. MoversAfter'
        BY <1>15, KeysKnown, KeysApart, SweepApart, WorkersPass DEF Returns, HandlerRest, Rest, HandTo, GoesTo, Ordered,
            MoversAfter, MoveWaits, InOrder, First, NothingYet, Unstarted, MoveSteps, ExtractSteps, Busy, Moves, Extracts,
            Passing, Owned, ToExtract
    <2>5. TailWaits'
        BY <1>15, KeysKnown, KeysApart, SweepApart, WorkersPass DEF Returns, HandlerRest, Rest, HandTo, GoesTo, Ordered,
            TailWaits, MoveWaits, InOrder, First, NothingYet, Unstarted, MoveSteps, ExtractSteps, Busy, Moves, Extracts, Passing,
            Owned, ToExtract
    <2>6. StalePathAway'
        BY <1>15, KeysKnown, KeysApart, SweepApart, WorkersPass DEF Returns, HandlerRest, Rest, HandTo, GoesTo, Ordered,
            StalePathAway, NothingYet, Unstarted, OnlyMoves, AwayStates, Filed, MoversSee, ExtractorsSee, UnmovedSteps,
            MovedSteps, ToExtract, RunnersApart, MoveSteps, ExtractSteps, Busy, Moves, Extracts, Passing, Owned
    <2> QED
        BY <2>1, <2>2, <2>3, <2>4, <2>5, <2>6 DEF Ordered
<1>16. ASSUME NEW w \in Workers, Outcomes(w) PROVE Ordered'
    <2>1. NothingYet'
        BY <1>16, KeysKnown, KeysApart, SweepApart, WorkersPass DEF Outcomes, PoolRest, Rest, JobTo, Ordered, NothingYet,
            Unstarted, MoveSteps, ExtractSteps, Busy, Moves, Extracts, Passing, Owned
    <2>2. SweepFirst'
        BY <1>16, KeysKnown, KeysApart, SweepApart, WorkersPass DEF Outcomes, PoolRest, Rest, JobTo, Ordered, SweepFirst,
            NothingYet, Unstarted, First, Filed, PassesSee, PlacesTrue, ToExtract, MoveSteps, ExtractSteps, Busy, Moves, Extracts,
            Passing, Owned
    <2>3. MoveWaits'
        BY <1>16, KeysKnown, KeysApart, SweepApart, WorkersPass DEF Outcomes, PoolRest, Rest, JobTo, Ordered, MoveWaits, InOrder,
            First, NothingYet, Unstarted, MoveSteps, ExtractSteps, Busy, Moves, Extracts, Passing, Owned, ToExtract
    <2>4. MoversAfter'
        BY <1>16, KeysKnown, KeysApart, SweepApart, WorkersPass DEF Outcomes, PoolRest, Rest, JobTo, Ordered, MoversAfter,
            MoveWaits, InOrder, First, NothingYet, Unstarted, MoveSteps, ExtractSteps, Busy, Moves, Extracts, Passing, Owned,
            ToExtract
    <2>5. TailWaits'
        BY <1>16, KeysKnown, KeysApart, SweepApart, WorkersPass DEF Outcomes, PoolRest, Rest, JobTo, Ordered, TailWaits,
            MoveWaits, InOrder, First, NothingYet, Unstarted, MoveSteps, ExtractSteps, Busy, Moves, Extracts, Passing, Owned,
            ToExtract
    <2>6. StalePathAway'
        BY <1>16, KeysKnown, KeysApart, SweepApart, WorkersPass DEF Outcomes, PoolRest, Rest, JobTo, Ordered, StalePathAway,
            NothingYet, Unstarted, OnlyMoves, AwayStates, Filed, MoversSee, ExtractorsSee, UnmovedSteps, MovedSteps, ToExtract,
            RunnersApart, MoveSteps, ExtractSteps, Busy, Moves, Extracts, Passing, Owned
    <2> QED
        BY <2>1, <2>2, <2>3, <2>4, <2>5, <2>6 DEF Ordered
<1>17. ASSUME NEW w \in Workers, NEW j \in JobKeys, Claims(w, j) PROVE Ordered'
    <2>1. NothingYet'
        BY <1>17, KeysKnown, KeysApart, SweepApart, WorkersPass DEF Claims, PoolRest, Rest, JobTo, Ordered, NothingYet, Unstarted,
            MoveSteps, ExtractSteps, Busy, Moves, Extracts, Passing, Owned
    <2>2. SweepFirst'
        BY <1>17, KeysKnown, KeysApart, SweepApart, WorkersPass DEF Claims, PoolRest, Rest, JobTo, Ordered, SweepFirst,
            NothingYet, Unstarted, First, Filed, PassesSee, PlacesTrue, ToExtract, MoveSteps, ExtractSteps, Busy, Moves, Extracts,
            Passing, Owned
    <2>3. MoveWaits'
        BY <1>17, KeysKnown, KeysApart, SweepApart, WorkersPass DEF Claims, PoolRest, Rest, JobTo, Ordered, MoveWaits, InOrder,
            First, NothingYet, Unstarted, MoveSteps, ExtractSteps, Busy, Moves, Extracts, Passing, Owned, ToExtract
    <2>4. MoversAfter'
        BY <1>17, KeysKnown, KeysApart, SweepApart, WorkersPass DEF Claims, PoolRest, Rest, JobTo, Ordered, MoversAfter,
            MoveWaits, InOrder, First, NothingYet, Unstarted, MoveSteps, ExtractSteps, Busy, Moves, Extracts, Passing, Owned,
            ToExtract
    <2>5. TailWaits'
        BY <1>17, KeysKnown, KeysApart, SweepApart, WorkersPass DEF Claims, PoolRest, Rest, JobTo, Ordered, TailWaits, MoveWaits,
            InOrder, First, NothingYet, Unstarted, MoveSteps, ExtractSteps, Busy, Moves, Extracts, Passing, Owned, ToExtract
    <2>6. StalePathAway'
        BY <1>17, KeysKnown, KeysApart, SweepApart, WorkersPass DEF Claims, PoolRest, Rest, JobTo, Ordered, StalePathAway,
            NothingYet, Unstarted, OnlyMoves, AwayStates, Filed, MoversSee, ExtractorsSee, UnmovedSteps, MovedSteps, ToExtract,
            RunnersApart, MoveSteps, ExtractSteps, Busy, Moves, Extracts, Passing, Owned
    <2> QED
        BY <2>1, <2>2, <2>3, <2>4, <2>5, <2>6 DEF Ordered
<1>18. ASSUME NEW a \in Actors, NEW t \in Tasks, PassGoes(a, t) PROVE Ordered'
    <2>1. NothingYet'
        BY <1>18, KeysKnown, KeysApart, SweepApart, WorkersPass DEF PassGoes, Passing, PassRest, Rest, ChainTo, Ordered,
            NothingYet, Unstarted, MoveSteps, ExtractSteps, Busy, Moves, Extracts, Owned
    <2>2. SweepFirst'
        BY <1>18, KeysKnown, KeysApart, SweepApart, WorkersPass, SMTT(30) DEF PassGoes, Passing, PassRest, Rest, ChainTo, Ordered,
            SweepFirst, NothingYet, Unstarted, First, Filed, PassesSee, PlacesTrue, ToExtract, MoveSteps, ExtractSteps, Busy,
            Moves, Extracts, Owned
    <2>3. MoveWaits'
        BY <1>18, KeysKnown, KeysApart, SweepApart, WorkersPass DEF PassGoes, Passing, PassRest, Rest, ChainTo, Ordered,
            MoveWaits, InOrder, First, NothingYet, Unstarted, MoveSteps, ExtractSteps, Busy, Moves, Extracts, Owned, ToExtract
    <2>4. MoversAfter'
        BY <1>18, KeysKnown, KeysApart, SweepApart, WorkersPass DEF PassGoes, Passing, PassRest, Rest, ChainTo, Ordered,
            MoversAfter, MoveWaits, InOrder, First, NothingYet, Unstarted, MoveSteps, ExtractSteps, Busy, Moves, Extracts, Owned,
            ToExtract
    <2>5. TailWaits'
        BY <1>18, KeysKnown, KeysApart, SweepApart, WorkersPass DEF PassGoes, Passing, PassRest, Rest, ChainTo, Ordered,
            TailWaits, MoveWaits, InOrder, First, NothingYet, Unstarted, MoveSteps, ExtractSteps, Busy, Moves, Extracts, Owned,
            ToExtract
    <2>6. StalePathAway'
        BY <1>18, KeysKnown, KeysApart, SweepApart, WorkersPass DEF PassGoes, Passing, PassRest, Rest, ChainTo, Ordered,
            StalePathAway, NothingYet, Unstarted, OnlyMoves, AwayStates, Filed, MoversSee, ExtractorsSee, UnmovedSteps,
            MovedSteps, ToExtract, RunnersApart, MoveSteps, ExtractSteps, Busy, Moves, Extracts, Owned
    <2> QED
        BY <2>1, <2>2, <2>3, <2>4, <2>5, <2>6 DEF Ordered
<1>19. ASSUME NEW a \in Actors, NEW t \in Tasks, PassResets(a, t) PROVE Ordered'
    <2>1. NothingYet'
        BY <1>19, KeysKnown, KeysApart, SweepApart, WorkersPass DEF PassResets, Passing, PassRest, Rest, ChainTo, JobTo, Ordered,
            NothingYet, Unstarted, MoveSteps, ExtractSteps, Busy, Moves, Extracts, Owned
    <2>2. SweepFirst'
        BY <1>19, KeysKnown, KeysApart, SweepApart, WorkersPass DEF PassResets, Passing, PassRest, Rest, ChainTo, JobTo, Ordered,
            SweepFirst, NothingYet, Unstarted, First, Filed, PassesSee, PlacesTrue, ToExtract, MoveSteps, ExtractSteps, Busy,
            Moves, Extracts, Owned
    <2>3. MoveWaits'
        BY <1>19, KeysKnown, KeysApart, SweepApart, WorkersPass DEF PassResets, Passing, PassRest, Rest, ChainTo, JobTo, Ordered,
            MoveWaits, InOrder, First, NothingYet, Unstarted, MoveSteps, ExtractSteps, Busy, Moves, Extracts, Owned, ToExtract
    <2>4. MoversAfter'
        BY <1>19, KeysKnown, KeysApart, SweepApart, WorkersPass DEF PassResets, Passing, PassRest, Rest, ChainTo, JobTo, Ordered,
            MoversAfter, MoveWaits, InOrder, First, NothingYet, Unstarted, MoveSteps, ExtractSteps, Busy, Moves, Extracts, Owned,
            ToExtract
    <2>5. TailWaits'
        BY <1>19, KeysKnown, KeysApart, SweepApart, WorkersPass DEF PassResets, Passing, PassRest, Rest, ChainTo, JobTo, Ordered,
            TailWaits, MoveWaits, InOrder, First, NothingYet, Unstarted, MoveSteps, ExtractSteps, Busy, Moves, Extracts, Owned,
            ToExtract
    <2>6. StalePathAway'
        BY <1>19, KeysKnown, KeysApart, SweepApart, WorkersPass DEF PassResets, Passing, PassRest, Rest, ChainTo, JobTo, Ordered,
            StalePathAway, NothingYet, Unstarted, OnlyMoves, AwayStates, Filed, MoversSee, ExtractorsSee, UnmovedSteps,
            MovedSteps, ToExtract, RunnersApart, MoveSteps, ExtractSteps, Busy, Moves, Extracts, Owned
    <2> QED
        BY <2>1, <2>2, <2>3, <2>4, <2>5, <2>6 DEF Ordered
<1>20. ASSUME NEW a \in Actors, NEW t \in Tasks, PassInserts(a, t) PROVE Ordered'
    <2>1. NothingYet'
        BY <1>20, KeysKnown, KeysApart, SweepApart, WorkersPass DEF PassInserts, Passing, PassRest, Rest, ChainTo, JobTo, Ordered,
            NothingYet, Unstarted, MoveSteps, ExtractSteps, Busy, Moves, Extracts, Owned
    <2>2. SweepFirst'
        BY <1>20, KeysKnown, KeysApart, SweepApart, WorkersPass DEF PassInserts, Passing, PassRest, Rest, ChainTo, JobTo, Ordered,
            SweepFirst, NothingYet, Unstarted, First, Filed, PassesSee, PlacesTrue, ToExtract, MoveSteps, ExtractSteps, Busy,
            Moves, Extracts, Owned
    <2>3. MoveWaits'
        BY <1>20, KeysKnown, KeysApart, SweepApart, WorkersPass DEF PassInserts, Passing, PassRest, Rest, ChainTo, JobTo, Ordered,
            MoveWaits, InOrder, First, NothingYet, Unstarted, MoveSteps, ExtractSteps, Busy, Moves, Extracts, Owned, ToExtract
    <2>4. MoversAfter'
        BY <1>20, KeysKnown, KeysApart, SweepApart, WorkersPass DEF PassInserts, Passing, PassRest, Rest, ChainTo, JobTo, Ordered,
            MoversAfter, MoveWaits, InOrder, First, NothingYet, Unstarted, MoveSteps, ExtractSteps, Busy, Moves, Extracts, Owned,
            ToExtract
    <2>5. TailWaits'
        BY <1>20, KeysKnown, KeysApart, SweepApart, WorkersPass DEF PassInserts, Passing, PassRest, Rest, ChainTo, JobTo, Ordered,
            TailWaits, MoveWaits, InOrder, First, NothingYet, Unstarted, MoveSteps, ExtractSteps, Busy, Moves, Extracts, Owned,
            ToExtract
    <2>6. StalePathAway'
        BY <1>20, KeysKnown, KeysApart, SweepApart, WorkersPass DEF PassInserts, Passing, PassRest, Rest, ChainTo, JobTo, Ordered,
            StalePathAway, NothingYet, Unstarted, OnlyMoves, AwayStates, Filed, MoversSee, ExtractorsSee, UnmovedSteps,
            MovedSteps, ToExtract, RunnersApart, MoveSteps, ExtractSteps, Busy, Moves, Extracts, Owned
    <2> QED
        BY <2>1, <2>2, <2>3, <2>4, <2>5, <2>6 DEF Ordered
<1>21. ASSUME NEW a \in Actors, NEW t \in Tasks, PassEnqueues(a, t) PROVE Ordered'
    <2>1. NothingYet'
        BY <1>21, KeysKnown, KeysApart, SweepApart, WorkersPass DEF PassEnqueues, Passing, PassRest, Rest, ChainTo, JobTo,
            Ordered, NothingYet, Unstarted, MoveSteps, ExtractSteps, Busy, Moves, Extracts, Owned
    <2>2. SweepFirst'
        BY <1>21, KeysKnown, KeysApart, SweepApart, WorkersPass DEF PassEnqueues, Passing, PassRest, Rest, ChainTo, JobTo,
            Ordered, SweepFirst, NothingYet, Unstarted, First, Filed, PassesSee, PlacesTrue, ToExtract, MoveSteps, ExtractSteps,
            Busy, Moves, Extracts, Owned
    <2>3. MoveWaits'
        <3>1. ASSUME InOrder(t) PROVE a \in Workers /\ Extracts(a, t) /\ hand[a].pc = "chain" /\ jobs[ExtractJob(t)].st = "running"
            <4>1. a # "sweep"
                BY <1>21, <3>1 DEF PassEnqueues, Ordered, SweepFirst, InOrder, Passing
            <4>2. a \in Workers /\ hand[a].pc = "chain" /\ (Extracts(a, t) \/ Moves(a, t))
                BY <1>21, <4>1, WorkersPass DEF PassEnqueues
            <4>3. ~(row[t].st = "gone")
                BY <1>21 DEF PassEnqueues, Owned, GoneNoJobs, NoJob
            <4>4. ~TaskGone(hand[a].job)
                BY <4>2, <4>3, KeysApart DEF TaskGone, Extracts, Moves
            <4>5. jobs[hand[a].job] = [st |-> "running", attempts |-> hand[a].attempts]
                BY <4>2, <4>4 DEF Owned, RunningRows, Extracts, Moves
            <4>6. jobs[hand[a].job].st = "running"
                BY <4>5
            <4> QED
                BY <1>21, <4>2, <4>6 DEF PassEnqueues, Extracts, Moves
        <3>2. \A v \in Workers : hand'[v] = hand[v]
            BY <1>21 DEF PassEnqueues, PassRest
        <3>3. InOrder(t) => disk[t].tree \in {"own", "alike"} /\ chain'[a].pc = "idle"
            BY <1>21, <3>1 DEF PassEnqueues, ChainTo, Owned, Filed, ExtractorsSee
        <3>4. InOrder(t) => \A v \in Workers : Extracts(v, t) => v = a
            BY <3>1 DEF Owned, RunnersApart, Extracts
        <3>5. \A u \in Tasks : InOrder(u)' <=> InOrder(u)
            BY <1>21 DEF PassEnqueues, PassRest, Rest, InOrder, First, ToExtract
        <3>6. disk' = disk /\ \A u \in Tasks : jobs'[ExtractJob(u)] = jobs[ExtractJob(u)] /\ (u # t => jobs'[MoveJob(u)] = jobs[MoveJob(u)])
            BY <1>21, KeysKnown, KeysApart DEF PassEnqueues, PassRest, JobTo
        <3>7. ASSUME NEW u \in Tasks, u # t, NEW v \in Workers, Extracts(v, u), chain[v].pc = "idle" PROVE chain'[v].pc = "idle"
            BY <1>21, <3>7, SweepApart DEF PassEnqueues, ChainTo
        <3> QED
            BY <3>1, <3>2, <3>3, <3>4, <3>5, <3>6, <3>7 DEF Ordered, MoveWaits, Extracts, Busy
    <2>4. MoversAfter'
        BY <1>21, KeysKnown, KeysApart, SweepApart, WorkersPass DEF PassEnqueues, Passing, PassRest, Rest, ChainTo, JobTo,
            Ordered, MoversAfter, MoveWaits, InOrder, First, NothingYet, Unstarted, MoveSteps, ExtractSteps, Busy, Moves,
            Extracts, Owned, ToExtract
    <2>5. TailWaits'
        BY <1>21, KeysKnown, KeysApart, SweepApart, WorkersPass DEF PassEnqueues, Passing, PassRest, Rest, ChainTo, JobTo,
            Ordered, TailWaits, MoveWaits, InOrder, First, NothingYet, Unstarted, MoveSteps, ExtractSteps, Busy, Moves, Extracts,
            Owned, ToExtract
    <2>6. StalePathAway'
        BY <1>21, KeysKnown, KeysApart, SweepApart, WorkersPass DEF PassEnqueues, Passing, PassRest, Rest, ChainTo, JobTo,
            Ordered, StalePathAway, NothingYet, Unstarted, OnlyMoves, AwayStates, Filed, MoversSee, ExtractorsSee, UnmovedSteps,
            MovedSteps, ToExtract, RunnersApart, MoveSteps, ExtractSteps, Busy, Moves, Extracts, Owned
    <2> QED
        BY <2>1, <2>2, <2>3, <2>4, <2>5, <2>6 DEF Ordered
<1>22. ASSUME NEW a \in Actors, NEW t \in Tasks, PassNotifies(a, t) PROVE Ordered'
    <2>1. NothingYet'
        <3>1. \A u \in Tasks : jobs'[MoveJob(u)] = jobs[MoveJob(u)] /\ jobs'[ExtractJob(u)] = jobs[ExtractJob(u)]
            BY <1>22, KeysKnown, KeysApart DEF PassNotifies, JobTo
        <3> QED
            BY <1>22, <3>1, KeysKnown, KeysApart, SweepApart, WorkersPass DEF PassNotifies, Passing, PassRest, Rest, ChainTo,
                JobTo, Ordered, NothingYet, Unstarted, MoveSteps, ExtractSteps, Busy, Moves, Extracts, Owned, ToExtract
    <2>2. SweepFirst'
        <3>1. \A u \in Tasks : jobs'[MoveJob(u)] = jobs[MoveJob(u)] /\ jobs'[ExtractJob(u)] = jobs[ExtractJob(u)]
            BY <1>22, KeysKnown, KeysApart DEF PassNotifies, JobTo
        <3> QED
            BY <1>22, <3>1, KeysKnown, KeysApart, SweepApart, WorkersPass DEF PassNotifies, Passing, PassRest, Rest, ChainTo,
                JobTo, Ordered, SweepFirst, NothingYet, Unstarted, First, Filed, PassesSee, PlacesTrue, ToExtract, MoveSteps,
                ExtractSteps, Busy, Moves, Extracts, Owned
    <2>3. MoveWaits'
        <3>1. \A u \in Tasks : jobs'[MoveJob(u)] = jobs[MoveJob(u)] /\ jobs'[ExtractJob(u)] = jobs[ExtractJob(u)]
            BY <1>22, KeysKnown, KeysApart DEF PassNotifies, JobTo
        <3> QED
            BY <1>22, <3>1, KeysKnown, KeysApart, SweepApart, WorkersPass DEF PassNotifies, Passing, PassRest, Rest, ChainTo,
                JobTo, Ordered, MoveWaits, InOrder, First, NothingYet, Unstarted, MoveSteps, ExtractSteps, Busy, Moves, Extracts,
                Owned, ToExtract
    <2>4. MoversAfter'
        BY <1>22, KeysKnown, KeysApart, SweepApart, WorkersPass DEF PassNotifies, Passing, PassRest, Rest, ChainTo, JobTo,
            Ordered, MoversAfter, MoveWaits, InOrder, First, NothingYet, Unstarted, MoveSteps, ExtractSteps, Busy, Moves,
            Extracts, Owned, ToExtract
    <2>5. TailWaits'
        BY <1>22, KeysKnown, KeysApart, SweepApart, WorkersPass DEF PassNotifies, Passing, PassRest, Rest, ChainTo, JobTo,
            Ordered, TailWaits, MoveWaits, InOrder, First, NothingYet, Unstarted, MoveSteps, ExtractSteps, Busy, Moves, Extracts,
            Owned, ToExtract
    <2>6. StalePathAway'
        BY <1>22, KeysKnown, KeysApart, SweepApart, WorkersPass DEF PassNotifies, Passing, PassRest, Rest, ChainTo, JobTo,
            Ordered, StalePathAway, NothingYet, Unstarted, OnlyMoves, AwayStates, Filed, MoversSee, ExtractorsSee, UnmovedSteps,
            MovedSteps, ToExtract, RunnersApart, MoveSteps, ExtractSteps, Busy, Moves, Extracts, Owned
    <2> QED
        BY <2>1, <2>2, <2>3, <2>4, <2>5, <2>6 DEF Ordered
<1>23. ASSUME NEW a \in Actors, NEW t \in Tasks, PassRemoves(a, t) PROVE Ordered'
    <2>1. NothingYet'
        BY <1>23, KeysKnown, KeysApart, SweepApart, WorkersPass DEF PassRemoves, Passing, PassRest, Rest, ChainTo, RowTo, Ordered,
            NothingYet, Unstarted, MoveSteps, ExtractSteps, Busy, Moves, Extracts, Owned
    <2>2. SweepFirst'
        BY <1>23, KeysKnown, KeysApart, SweepApart, WorkersPass DEF PassRemoves, Passing, PassRest, Rest, ChainTo, RowTo, Ordered,
            SweepFirst, NothingYet, Unstarted, First, Filed, PassesSee, PlacesTrue, ToExtract, MoveSteps, ExtractSteps, Busy,
            Moves, Extracts, Owned
    <2>3. MoveWaits'
        BY <1>23, KeysKnown, KeysApart, SweepApart, WorkersPass DEF PassRemoves, Passing, PassRest, Rest, ChainTo, RowTo, Ordered,
            MoveWaits, InOrder, First, NothingYet, Unstarted, MoveSteps, ExtractSteps, Busy, Moves, Extracts, Owned, ToExtract,
            NoJob
    <2>4. MoversAfter'
        BY <1>23, KeysKnown, KeysApart, SweepApart, WorkersPass DEF PassRemoves, Passing, PassRest, Rest, ChainTo, RowTo, Ordered,
            MoversAfter, MoveWaits, InOrder, First, NothingYet, Unstarted, MoveSteps, ExtractSteps, Busy, Moves, Extracts, Owned,
            ToExtract
    <2>5. TailWaits'
        BY <1>23, KeysKnown, KeysApart, SweepApart, WorkersPass DEF PassRemoves, Passing, PassRest, Rest, ChainTo, RowTo, Ordered,
            TailWaits, MoveWaits, InOrder, First, NothingYet, Unstarted, MoveSteps, ExtractSteps, Busy, Moves, Extracts, Owned,
            ToExtract
    <2>6. StalePathAway'
        BY <1>23, KeysKnown, KeysApart, SweepApart, WorkersPass DEF PassRemoves, Passing, PassRest, Rest, ChainTo, RowTo, Ordered,
            StalePathAway, NothingYet, Unstarted, OnlyMoves, AwayStates, Filed, MoversSee, ExtractorsSee, UnmovedSteps,
            MovedSteps, ToExtract, RunnersApart, MoveSteps, ExtractSteps, Busy, Moves, Extracts, Owned
    <2> QED
        BY <2>1, <2>2, <2>3, <2>4, <2>5, <2>6 DEF Ordered
<1>24. ASSUME NEW t \in Tasks, Finishes(t) PROVE Ordered'
    <2>1. NothingYet'
        BY <1>24, KeysKnown, KeysApart, SweepApart, WorkersPass, FinishCounts DEF Finishes, RowRest, Rest, RowTo, ChainTo,
            Ordered, NothingYet, Unstarted, MoveSteps, ExtractSteps, Busy, Moves, Extracts, Passing, Owned, ToExtract
    <2>2. SweepFirst'
        BY <1>24, KeysKnown, KeysApart, SweepApart, WorkersPass, FinishCounts DEF Finishes, RowRest, Rest, RowTo, ChainTo,
            Ordered, SweepFirst, NothingYet, Unstarted, First, Filed, PassesSee, PlacesTrue, ToExtract, MoveSteps, ExtractSteps,
            Busy, Moves, Extracts, Passing, Owned
    <2>3. MoveWaits'
        BY <1>24, KeysKnown, KeysApart, SweepApart, WorkersPass, FinishCounts DEF Finishes, RowRest, Rest, RowTo, ChainTo,
            Ordered, MoveWaits, InOrder, First, NothingYet, Unstarted, MoveSteps, ExtractSteps, Busy, Moves, Extracts, Passing,
            Owned, ToExtract
    <2>4. MoversAfter'
        BY <1>24, KeysKnown, KeysApart, SweepApart, WorkersPass, FinishCounts DEF Finishes, RowRest, Rest, RowTo, ChainTo,
            Ordered, MoversAfter, MoveWaits, InOrder, First, NothingYet, Unstarted, MoveSteps, ExtractSteps, Busy, Moves,
            Extracts, Passing, Owned, ToExtract
    <2>5. TailWaits'
        BY <1>24, KeysKnown, KeysApart, SweepApart, WorkersPass, FinishCounts DEF Finishes, RowRest, Rest, RowTo, ChainTo,
            Ordered, TailWaits, MoveWaits, InOrder, First, NothingYet, Unstarted, MoveSteps, ExtractSteps, Busy, Moves, Extracts,
            Passing, Owned, ToExtract
    <2>6. StalePathAway'
        BY <1>24, KeysKnown, KeysApart, SweepApart, WorkersPass, FinishCounts DEF Finishes, RowRest, Rest, RowTo, ChainTo,
            Ordered, StalePathAway, NothingYet, Unstarted, OnlyMoves, AwayStates, Filed, MoversSee, ExtractorsSee, UnmovedSteps,
            MovedSteps, ToExtract, RunnersApart, MoveSteps, ExtractSteps, Busy, Moves, Extracts, Passing, Owned
    <2> QED
        BY <2>1, <2>2, <2>3, <2>4, <2>5, <2>6 DEF Ordered
<1>25. ASSUME NEW t \in Tasks, Adopts(t) PROVE Ordered'
    <2>1. NothingYet'
        BY <1>25, KeysKnown, KeysApart, SweepApart, WorkersPass DEF Adopts, RowRest, Rest, RowTo, ChainTo, Ordered, NothingYet,
            Unstarted, MoveSteps, ExtractSteps, Busy, Moves, Extracts, Passing, Owned
    <2>2. SweepFirst'
        BY <1>25, KeysKnown, KeysApart, SweepApart, WorkersPass DEF Adopts, RowRest, Rest, RowTo, ChainTo, Ordered, SweepFirst,
            NothingYet, Unstarted, First, Filed, PassesSee, PlacesTrue, ToExtract, MoveSteps, ExtractSteps, Busy, Moves, Extracts,
            Passing, Owned
    <2>3. MoveWaits'
        BY <1>25, KeysKnown, KeysApart, SweepApart, WorkersPass DEF Adopts, RowRest, Rest, RowTo, ChainTo, Ordered, MoveWaits,
            InOrder, First, NothingYet, Unstarted, MoveSteps, ExtractSteps, Busy, Moves, Extracts, Passing, Owned, ToExtract
    <2>4. MoversAfter'
        BY <1>25, KeysKnown, KeysApart, SweepApart, WorkersPass DEF Adopts, RowRest, Rest, RowTo, ChainTo, Ordered, MoversAfter,
            MoveWaits, InOrder, First, NothingYet, Unstarted, MoveSteps, ExtractSteps, Busy, Moves, Extracts, Passing, Owned,
            ToExtract
    <2>5. TailWaits'
        BY <1>25, KeysKnown, KeysApart, SweepApart, WorkersPass DEF Adopts, RowRest, Rest, RowTo, ChainTo, Ordered, TailWaits,
            MoveWaits, InOrder, First, NothingYet, Unstarted, MoveSteps, ExtractSteps, Busy, Moves, Extracts, Passing, Owned,
            ToExtract
    <2>6. StalePathAway'
        BY <1>25, KeysKnown, KeysApart, SweepApart, WorkersPass DEF Adopts, RowRest, Rest, RowTo, ChainTo, Ordered, StalePathAway,
            NothingYet, Unstarted, OnlyMoves, AwayStates, Filed, MoversSee, ExtractorsSee, UnmovedSteps, MovedSteps, ToExtract,
            RunnersApart, MoveSteps, ExtractSteps, Busy, Moves, Extracts, Passing, Owned
    <2> QED
        BY <2>1, <2>2, <2>3, <2>4, <2>5, <2>6 DEF Ordered
<1>26. ASSUME NEW t \in Tasks, Operates(t) PROVE Ordered'
    <2>1. NothingYet'
        BY <1>26, KeysKnown, KeysApart, SweepApart, WorkersPass DEF Operates, RowRest, Rest, RowTo, Ordered, NothingYet,
            Unstarted, MoveSteps, ExtractSteps, Busy, Moves, Extracts, Passing, Owned
    <2>2. SweepFirst'
        BY <1>26, KeysKnown, KeysApart, SweepApart, WorkersPass DEF Operates, RowRest, Rest, RowTo, Ordered, SweepFirst,
            NothingYet, Unstarted, First, Filed, PassesSee, PlacesTrue, ToExtract, MoveSteps, ExtractSteps, Busy, Moves, Extracts,
            Passing, Owned
    <2>3. MoveWaits'
        BY <1>26, KeysKnown, KeysApart, SweepApart, WorkersPass DEF Operates, RowRest, Rest, RowTo, Ordered, MoveWaits, InOrder,
            First, NothingYet, Unstarted, MoveSteps, ExtractSteps, Busy, Moves, Extracts, Passing, Owned, ToExtract
    <2>4. MoversAfter'
        BY <1>26, KeysKnown, KeysApart, SweepApart, WorkersPass DEF Operates, RowRest, Rest, RowTo, Ordered, MoversAfter,
            MoveWaits, InOrder, First, NothingYet, Unstarted, MoveSteps, ExtractSteps, Busy, Moves, Extracts, Passing, Owned,
            ToExtract
    <2>5. TailWaits'
        BY <1>26, KeysKnown, KeysApart, SweepApart, WorkersPass DEF Operates, RowRest, Rest, RowTo, Ordered, TailWaits, MoveWaits,
            InOrder, First, NothingYet, Unstarted, MoveSteps, ExtractSteps, Busy, Moves, Extracts, Passing, Owned, ToExtract
    <2>6. StalePathAway'
        BY <1>26, KeysKnown, KeysApart, SweepApart, WorkersPass DEF Operates, RowRest, Rest, RowTo, Ordered, StalePathAway,
            NothingYet, Unstarted, OnlyMoves, AwayStates, Filed, MoversSee, ExtractorsSee, UnmovedSteps, MovedSteps, ToExtract,
            RunnersApart, MoveSteps, ExtractSteps, Busy, Moves, Extracts, Passing, Owned
    <2> QED
        BY <2>1, <2>2, <2>3, <2>4, <2>5, <2>6 DEF Ordered
<1>27. ASSUME Recovers PROVE Ordered'
    <2>1. NothingYet'
        BY <1>27, KeysKnown, KeysApart, SweepApart, WorkersPass DEF Recovers, PoolRest, Rest, Ordered, NothingYet, Unstarted,
            MoveSteps, ExtractSteps, Busy, Moves, Extracts, Passing, Owned
    <2>2. SweepFirst'
        BY <1>27, KeysKnown, KeysApart, SweepApart, WorkersPass DEF Recovers, PoolRest, Rest, Ordered, SweepFirst, NothingYet,
            Unstarted, First, Filed, PassesSee, PlacesTrue, ToExtract, MoveSteps, ExtractSteps, Busy, Moves, Extracts, Passing,
            Owned
    <2>3. MoveWaits'
        BY <1>27, KeysKnown, KeysApart, SweepApart, WorkersPass DEF Recovers, PoolRest, Rest, Ordered, MoveWaits, InOrder, First,
            NothingYet, Unstarted, MoveSteps, ExtractSteps, Busy, Moves, Extracts, Passing, Owned, ToExtract, BootIdle
    <2>4. MoversAfter'
        BY <1>27, KeysKnown, KeysApart, SweepApart, WorkersPass DEF Recovers, PoolRest, Rest, Ordered, MoversAfter, MoveWaits,
            InOrder, First, NothingYet, Unstarted, MoveSteps, ExtractSteps, Busy, Moves, Extracts, Passing, Owned, ToExtract
    <2>5. TailWaits'
        BY <1>27, KeysKnown, KeysApart, SweepApart, WorkersPass DEF Recovers, PoolRest, Rest, Ordered, TailWaits, MoveWaits,
            InOrder, First, NothingYet, Unstarted, MoveSteps, ExtractSteps, Busy, Moves, Extracts, Passing, Owned, ToExtract
    <2>6. StalePathAway'
        BY <1>27, KeysKnown, KeysApart, SweepApart, WorkersPass DEF Recovers, PoolRest, Rest, Ordered, StalePathAway, NothingYet,
            Unstarted, OnlyMoves, AwayStates, Filed, MoversSee, ExtractorsSee, UnmovedSteps, MovedSteps, ToExtract, RunnersApart,
            MoveSteps, ExtractSteps, Busy, Moves, Extracts, Passing, Owned
    <2> QED
        BY <2>1, <2>2, <2>3, <2>4, <2>5, <2>6 DEF Ordered
<1>28. ASSUME Dies PROVE Ordered'
    <2>1. NothingYet'
        BY <1>28, KeysKnown, KeysApart, SweepApart, WorkersPass DEF Dies, Rest, Ordered, NothingYet, Unstarted, MoveSteps,
            ExtractSteps, Busy, Moves, Extracts, Passing, Owned
    <2>2. SweepFirst'
        BY <1>28, KeysKnown, KeysApart, SweepApart, WorkersPass DEF Dies, Rest, Ordered, SweepFirst, NothingYet, Unstarted, First,
            Filed, PassesSee, PlacesTrue, ToExtract, MoveSteps, ExtractSteps, Busy, Moves, Extracts, Passing, Owned
    <2>3. MoveWaits'
        BY <1>28, KeysKnown, KeysApart, SweepApart, WorkersPass DEF Dies, Rest, Ordered, MoveWaits, InOrder, First, NothingYet,
            Unstarted, MoveSteps, ExtractSteps, Busy, Moves, Extracts, Passing, Owned, ToExtract
    <2>4. MoversAfter'
        BY <1>28, KeysKnown, KeysApart, SweepApart, WorkersPass DEF Dies, Rest, Ordered, MoversAfter, MoveWaits, InOrder, First,
            NothingYet, Unstarted, MoveSteps, ExtractSteps, Busy, Moves, Extracts, Passing, Owned, ToExtract
    <2>5. TailWaits'
        BY <1>28, KeysKnown, KeysApart, SweepApart, WorkersPass DEF Dies, Rest, Ordered, TailWaits, MoveWaits, InOrder, First,
            NothingYet, Unstarted, MoveSteps, ExtractSteps, Busy, Moves, Extracts, Passing, Owned, ToExtract
    <2>6. StalePathAway'
        BY <1>28, KeysKnown, KeysApart, SweepApart, WorkersPass DEF Dies, Rest, Ordered, StalePathAway, NothingYet, Unstarted,
            OnlyMoves, AwayStates, Filed, MoversSee, ExtractorsSee, UnmovedSteps, MovedSteps, ToExtract, RunnersApart, MoveSteps,
            ExtractSteps, Busy, Moves, Extracts, Passing, Owned
    <2> QED
        BY <2>1, <2>2, <2>3, <2>4, <2>5, <2>6 DEF Ordered
<1>29. ASSUME Stops PROVE Ordered'
    <2>1. NothingYet'
        BY <1>29, KeysKnown, KeysApart, SweepApart, WorkersPass DEF Stops, Rest, Ordered, NothingYet, Unstarted, MoveSteps,
            ExtractSteps, Busy, Moves, Extracts, Passing, Owned
    <2>2. SweepFirst'
        BY <1>29, KeysKnown, KeysApart, SweepApart, WorkersPass DEF Stops, Rest, Ordered, SweepFirst, NothingYet, Unstarted,
            First, Filed, PassesSee, PlacesTrue, ToExtract, MoveSteps, ExtractSteps, Busy, Moves, Extracts, Passing, Owned
    <2>3. MoveWaits'
        BY <1>29, KeysKnown, KeysApart, SweepApart, WorkersPass DEF Stops, Rest, Ordered, MoveWaits, InOrder, First, NothingYet,
            Unstarted, MoveSteps, ExtractSteps, Busy, Moves, Extracts, Passing, Owned, ToExtract
    <2>4. MoversAfter'
        BY <1>29, KeysKnown, KeysApart, SweepApart, WorkersPass DEF Stops, Rest, Ordered, MoversAfter, MoveWaits, InOrder, First,
            NothingYet, Unstarted, MoveSteps, ExtractSteps, Busy, Moves, Extracts, Passing, Owned, ToExtract
    <2>5. TailWaits'
        BY <1>29, KeysKnown, KeysApart, SweepApart, WorkersPass DEF Stops, Rest, Ordered, TailWaits, MoveWaits, InOrder, First,
            NothingYet, Unstarted, MoveSteps, ExtractSteps, Busy, Moves, Extracts, Passing, Owned, ToExtract
    <2>6. StalePathAway'
        BY <1>29, KeysKnown, KeysApart, SweepApart, WorkersPass DEF Stops, Rest, Ordered, StalePathAway, NothingYet, Unstarted,
            OnlyMoves, AwayStates, Filed, MoversSee, ExtractorsSee, UnmovedSteps, MovedSteps, ToExtract, RunnersApart, MoveSteps,
            ExtractSteps, Busy, Moves, Extracts, Passing, Owned
    <2> QED
        BY <2>1, <2>2, <2>3, <2>4, <2>5, <2>6 DEF Ordered
<1>30. ASSUME Restarts PROVE Ordered'
    <2>1. NothingYet'
        BY <1>30, KeysKnown, KeysApart, SweepApart, WorkersPass DEF Restarts, Rest, Ordered, NothingYet, Unstarted, MoveSteps,
            ExtractSteps, Busy, Moves, Extracts, Passing, Owned
    <2>2. SweepFirst'
        BY <1>30, KeysKnown, KeysApart, SweepApart, WorkersPass DEF Restarts, Rest, Ordered, SweepFirst, NothingYet, Unstarted,
            First, Filed, PassesSee, PlacesTrue, ToExtract, MoveSteps, ExtractSteps, Busy, Moves, Extracts, Passing, Owned
    <2>3. MoveWaits'
        BY <1>30, KeysKnown, KeysApart, SweepApart, WorkersPass DEF Restarts, Rest, Ordered, MoveWaits, InOrder, First,
            NothingYet, Unstarted, MoveSteps, ExtractSteps, Busy, Moves, Extracts, Passing, Owned, ToExtract
    <2>4. MoversAfter'
        BY <1>30, KeysKnown, KeysApart, SweepApart, WorkersPass DEF Restarts, Rest, Ordered, MoversAfter, MoveWaits, InOrder,
            First, NothingYet, Unstarted, MoveSteps, ExtractSteps, Busy, Moves, Extracts, Passing, Owned, ToExtract
    <2>5. TailWaits'
        BY <1>30, KeysKnown, KeysApart, SweepApart, WorkersPass DEF Restarts, Rest, Ordered, TailWaits, MoveWaits, InOrder, First,
            NothingYet, Unstarted, MoveSteps, ExtractSteps, Busy, Moves, Extracts, Passing, Owned, ToExtract
    <2>6. StalePathAway'
        BY <1>30, KeysKnown, KeysApart, SweepApart, WorkersPass DEF Restarts, Rest, Ordered, StalePathAway, NothingYet, Unstarted,
            OnlyMoves, AwayStates, Filed, MoversSee, ExtractorsSee, UnmovedSteps, MovedSteps, ToExtract, RunnersApart, MoveSteps,
            ExtractSteps, Busy, Moves, Extracts, Passing, Owned
    <2> QED
        BY <2>1, <2>2, <2>3, <2>4, <2>5, <2>6 DEF Ordered
<1> QED
    BY <1>1, <1>2, <1>3, <1>4, <1>5, <1>6, <1>7, <1>8, <1>9, <1>10, <1>11, <1>12, <1>13, <1>14, <1>15, <1>16, <1>17, <1>18, <1>19,
        <1>20, <1>21, <1>22, <1>23, <1>24, <1>25, <1>26, <1>27, <1>28, <1>29, <1>30 DEF SomeStep, HandlerSome, ExtractSome,
        MoveSome, PassSome

StillOwed(t) == (SweepOwes(t)' => SweepOwes(t)) /\ (MoveOwes(t)' => MoveOwes(t))
LEMMA NotesNat ==
    ASSUME Typed, Owned, NEW t \in Tasks
    PROVE  Cardinality(Notes(t)) \in Nat /\ finished[t] \in Nat
<1>1. PICK k \in 0 .. MaxNotes : Cardinality(Notes(t)) = k
    BY NotesCounted
<1> QED
    BY <1>1, PostProcessAssumption DEF MaxNotes, Typed, TypeOK, SharedTypeOK
(* A pass that sends adds one note.                                        *)
LEMMA NotedOnce ==
    ASSUME Owned, NEW t \in Tasks, Cardinality(Notes(t)) < MaxNotes, JobTo(WebhookJob(t, Cardinality(Notes(t)) + 1), "pending", 0)
    PROVE  Cardinality(Notes(t)') = Cardinality(Notes(t)) + 1
<1>1. PICK k \in 0 .. MaxNotes : Notes(t) = 1 .. k /\ Cardinality(Notes(t)) = k
    BY NotesCounted
<1>2. k \in Nat /\ MaxNotes \in Nat /\ k < MaxNotes
    BY <1>1, PostProcessAssumption DEF MaxNotes
<1>3. Notes(t)' = 1 .. (k + 1)
    <2>1. \A n \in 1 .. MaxNotes : n \in Notes(t)' <=> n \in Notes(t) \/ n = k + 1
        BY <1>1, KeysKnown, KeysApart DEF JobTo, Notes
    <2> QED
        BY <1>1, <1>2, <2>1 DEF Notes
<1>4. Cardinality(1 .. (k + 1)) = k + 1
    <2>1. Cardinality(1 .. (k + 1)) = IF 1 > k + 1 THEN 0 ELSE (k + 1) - 1 + 1
        BY <1>2, FS_Interval
    <2> QED
        BY <1>2, <2>1
<1> QED
    BY <1>1, <1>3, <1>4
(* The books of one task over a step that sends n and finishes f.          *)
LEMMA Balanced ==
    ASSUME Typed, Owned, Counted, NEW t \in Tasks, Due(t), NEW n \in Nat, NEW f \in Nat,
           Cardinality(Notes(t)') = Cardinality(Notes(t)) + n, finished'[t] = finished[t] + f,
           n + One(SweepOwes(t)') + One(MoveOwes(t)') <= One(SweepOwes(t)) + One(MoveOwes(t)) + f
    PROVE  Cardinality(Notes(t)') + One(SweepOwes(t)') + One(MoveOwes(t)') <= finished'[t]
<1>1. PICK k \in Nat : k = Cardinality(Notes(t))
    BY NotesNat
<1>2. PICK g \in Nat : g = finished[t]
    BY NotesNat
<1>3. \A p : One(p) \in 0 .. 1
    BY DEF One
<1>4. PICK a, b, c, d \in 0 .. 1 : a = One(SweepOwes(t)) /\ b = One(MoveOwes(t)) /\ c = One(SweepOwes(t)') /\ d = One(MoveOwes(t)')
    BY <1>3
<1>5. k + a + b <= g
    BY <1>1, <1>2, <1>4 DEF Counted
<1>6. n + c + d <= a + b + f
    BY <1>4
<1>7. k + n + c + d <= g + f
    BY <1>1, <1>2, <1>5, <1>6
<1> QED
    BY <1>1, <1>2, <1>4, <1>7
LEMMA OneLess ==
    ASSUME NEW p, NEW q, p => q
    PROVE  One(p) <= One(q)
    BY DEF One
LEMMA NoMoreOwed ==
    ASSUME Typed, Owned, Counted, NEW t \in Tasks, Due(t), finished'[t] = finished[t], Notes(t)' = Notes(t), StillOwed(t)
    PROVE  Cardinality(Notes(t)') + One(SweepOwes(t)') + One(MoveOwes(t)') <= finished'[t]
<1>1. Cardinality(Notes(t)) \in Nat /\ finished[t] \in Nat
    BY NotesNat
<1>2. One(SweepOwes(t)') <= One(SweepOwes(t)) /\ One(MoveOwes(t)') <= One(MoveOwes(t))
    BY OneLess DEF StillOwed
<1>3. \A p : One(p) \in 0 .. 1
    BY DEF One
<1>4. 0 + One(SweepOwes(t)') + One(MoveOwes(t)') <= One(SweepOwes(t)) + One(MoveOwes(t)) + 0
    BY <1>2, <1>3
<1>5. Cardinality(Notes(t)') = Cardinality(Notes(t)) + 0 /\ finished'[t] = finished[t] + 0
    BY <1>1
<1> QED
    BY <1>4, <1>5, Balanced
(* It is enough to keep the books of each task.                            *)
Booked(t) == Cardinality(Notes(t)') + One(SweepOwes(t)') + One(MoveOwes(t)') <= finished'[t]
LEMMA BooksKept ==
    ASSUME setup' = setup, \A t \in Tasks : Due(t) => Booked(t)
    PROVE  Counted'
    BY DEF Counted, Booked, Due, OnlyMoves

(* The notifications of a task.                                           *)
LEMMA CountedKeeps ==
    ASSUME Typed, Owned, Walking, Filed, Counted, SomeStep
    PROVE  Counted'
<1>1. ASSUME NEW w \in Workers, NEW t \in Tasks, ExtractReads(w, t) PROVE Counted'
    <2>1. setup' = setup /\ finished' = finished
        BY <1>1 DEF ExtractReads, HandlerRest, Rest, HandTo, GoesTo, OnExtract
    <2>2. \A u \in Tasks : Notes(u)' = Notes(u)
        BY <1>1 DEF ExtractReads, HandlerRest, Rest, HandTo, GoesTo, OnExtract, Notes
    <2>3. ASSUME NEW u \in Tasks, Due(u) PROVE StillOwed(u)
        BY <1>1, <2>3, KeysKnown, KeysApart, SweepApart, WorkersPass DEF ExtractReads, HandlerRest, Rest, HandTo, GoesTo,
            OnExtract, StillOwed, Due, SweepOwes, MoveOwes, MoverOwes, ToNotify, Busy, Moves, Extracts, Passing, Owned, MoveSteps,
            ExtractSteps, Filed, ExtractorsSee, ToExtract, OnlyMoves
    <2> QED
        BY <2>1, <2>2, <2>3, NoMoreOwed, BooksKept DEF Booked
<1>2. ASSUME NEW w \in Workers, NEW t \in Tasks, ExtractClaims(w, t) PROVE Counted'
    <2>1. setup' = setup /\ finished' = finished
        BY <1>2 DEF ExtractClaims, HandlerRest, Rest, HandTo, GoesTo, RowTo, OnExtract
    <2>2. \A u \in Tasks : Notes(u)' = Notes(u)
        BY <1>2 DEF ExtractClaims, HandlerRest, Rest, HandTo, GoesTo, RowTo, OnExtract, Notes
    <2>3. ASSUME NEW u \in Tasks, Due(u) PROVE StillOwed(u)
        BY <1>2, <2>3, KeysKnown, KeysApart, SweepApart, WorkersPass DEF ExtractClaims, HandlerRest, Rest, HandTo, GoesTo, RowTo,
            OnExtract, StillOwed, Due, SweepOwes, MoveOwes, MoverOwes, ToNotify, Busy, Moves, Extracts, Passing, Owned, MoveSteps,
            ExtractSteps, Filed, ExtractorsSee, ToExtract, OnlyMoves
    <2> QED
        BY <2>1, <2>2, <2>3, NoMoreOwed, BooksKept DEF Booked
<1>3. ASSUME NEW w \in Workers, NEW t \in Tasks, ExtractFails(w, t) PROVE Counted'
    <2>1. setup' = setup /\ finished' = finished
        BY <1>3 DEF ExtractFails, HandlerRest, Rest, HandTo, GoesTo, RowTo, OnExtract
    <2>2. \A u \in Tasks : Notes(u)' = Notes(u)
        BY <1>3 DEF ExtractFails, HandlerRest, Rest, HandTo, GoesTo, RowTo, OnExtract, Notes
    <2>3. ASSUME NEW u \in Tasks, Due(u) PROVE StillOwed(u)
        BY <1>3, <2>3, KeysKnown, KeysApart, SweepApart, WorkersPass DEF ExtractFails, HandlerRest, Rest, HandTo, GoesTo, RowTo,
            OnExtract, StillOwed, Due, SweepOwes, MoveOwes, MoverOwes, ToNotify, Busy, Moves, Extracts, Passing, Owned, MoveSteps,
            ExtractSteps, Filed, ExtractorsSee, ToExtract, OnlyMoves
    <2> QED
        BY <2>1, <2>2, <2>3, NoMoreOwed, BooksKept DEF Booked
<1>4. ASSUME NEW w \in Workers, NEW t \in Tasks, ExtractFiles(w, t) PROVE Counted'
    <2>1. setup' = setup /\ finished' = finished
        BY <1>4 DEF ExtractFiles, HandlerRest, Rest, HandTo, GoesTo, DiskTo, OnExtract
    <2>2. \A u \in Tasks : Notes(u)' = Notes(u)
        BY <1>4 DEF ExtractFiles, HandlerRest, Rest, HandTo, GoesTo, DiskTo, OnExtract, Notes
    <2>3. ASSUME NEW u \in Tasks, Due(u) PROVE StillOwed(u)
        BY <1>4, <2>3, KeysKnown, KeysApart, SweepApart, WorkersPass DEF ExtractFiles, HandlerRest, Rest, HandTo, GoesTo, DiskTo,
            OnExtract, StillOwed, Due, SweepOwes, MoveOwes, MoverOwes, ToNotify, Busy, Moves, Extracts, Passing, Owned, MoveSteps,
            ExtractSteps, Filed, ExtractorsSee, ToExtract, OnlyMoves
    <2> QED
        BY <2>1, <2>2, <2>3, NoMoreOwed, BooksKept DEF Booked
<1>5. ASSUME NEW w \in Workers, NEW t \in Tasks, ExtractCompletes(w, t) PROVE Counted'
    <2>1. setup' = setup /\ finished' = finished
        BY <1>5 DEF ExtractCompletes, HandlerRest, Rest, HandTo, GoesTo, RowTo, ChainTo, OnExtract
    <2>2. \A u \in Tasks : Notes(u)' = Notes(u)
        BY <1>5 DEF ExtractCompletes, HandlerRest, Rest, HandTo, GoesTo, RowTo, ChainTo, OnExtract, Notes
    <2>3. ASSUME NEW u \in Tasks, Due(u) PROVE StillOwed(u)
        BY <1>5, <2>3, KeysKnown, KeysApart, SweepApart, WorkersPass DEF ExtractCompletes, HandlerRest, Rest, HandTo, GoesTo,
            RowTo, ChainTo, OnExtract, StillOwed, Due, SweepOwes, MoveOwes, MoverOwes, ToNotify, Busy, Moves, Extracts, Passing,
            Owned, MoveSteps, ExtractSteps, Filed, ExtractorsSee, ToExtract, OnlyMoves
    <2> QED
        BY <2>1, <2>2, <2>3, NoMoreOwed, BooksKept DEF Booked
<1>6. ASSUME NEW w \in Workers, NEW t \in Tasks, MoveReads(w, t) PROVE Counted'
    <2>1. setup' = setup /\ finished' = finished
        BY <1>6 DEF MoveReads, HandlerRest, Rest, HandTo, GoesTo, OnMove
    <2>2. \A u \in Tasks : Notes(u)' = Notes(u)
        BY <1>6 DEF MoveReads, HandlerRest, Rest, HandTo, GoesTo, OnMove, Notes
    <2>3. ASSUME NEW u \in Tasks, Due(u) PROVE StillOwed(u)
        BY <1>6, <2>3, KeysKnown, KeysApart, SweepApart, WorkersPass DEF MoveReads, HandlerRest, Rest, HandTo, GoesTo, OnMove,
            StillOwed, Due, SweepOwes, MoveOwes, MoverOwes, ToNotify, Busy, Moves, Extracts, Passing, Owned, MoveSteps,
            ExtractSteps
    <2> QED
        BY <2>1, <2>2, <2>3, NoMoreOwed, BooksKept DEF Booked
<1>7. ASSUME NEW w \in Workers, NEW t \in Tasks, MoveLooks(w, t) PROVE Counted'
    <2>1. setup' = setup /\ finished' = finished
        BY <1>7 DEF MoveLooks, HandlerRest, Rest, HandTo, OnMove
    <2>2. \A u \in Tasks : Notes(u)' = Notes(u)
        BY <1>7 DEF MoveLooks, HandlerRest, Rest, HandTo, OnMove, Notes
    <2>3. ASSUME NEW u \in Tasks, Due(u) PROVE StillOwed(u)
        BY <1>7, <2>3, KeysKnown, KeysApart, SweepApart, WorkersPass DEF MoveLooks, HandlerRest, Rest, HandTo, OnMove, StillOwed,
            Due, SweepOwes, MoveOwes, MoverOwes, ToNotify, Busy, Moves, Extracts, Passing, Owned, MoveSteps, ExtractSteps, Filed,
            MoversSee
    <2> QED
        BY <2>1, <2>2, <2>3, NoMoreOwed, BooksKept DEF Booked
<1>8. ASSUME NEW w \in Workers, NEW t \in Tasks, MoveClaims(w, t) PROVE Counted'
    <2>1. setup' = setup /\ finished' = finished
        BY <1>8 DEF MoveClaims, HandlerRest, Rest, HandTo, RowTo, OnMove
    <2>2. \A u \in Tasks : Notes(u)' = Notes(u)
        BY <1>8 DEF MoveClaims, HandlerRest, Rest, HandTo, RowTo, OnMove, Notes
    <2>3. ASSUME NEW u \in Tasks, Due(u) PROVE StillOwed(u)
        <3>1. MoveOwes(t)
            <4>1. Moves(w, t) /\ row[t].st # "gone" /\ hand[w].pc = "m.claim" /\ hand[w].job = MoveJob(t)
                BY <1>8 DEF MoveClaims, OnMove, Moves, MoveSteps, Busy
            <4>2. ~TaskGone(hand[w].job)
                BY <4>1, KeysApart DEF TaskGone
            <4>3. jobs[hand[w].job] = [st |-> "running", attempts |-> hand[w].attempts]
                BY <4>1, <4>2 DEF Owned, RunningRows, Moves
            <4>4. disk[t].src # "absent"
                BY <4>1 DEF Filed, MoversSee, UnmovedSteps
            <4> QED
                BY <4>1, <4>3, <4>4 DEF MoveOwes
        <3>2. SweepOwes(u)' <=> SweepOwes(u)
            BY <1>8 DEF MoveClaims, SweepOwes, Passing
        <3>3. CASE u # t
            BY <1>8, <3>2, <3>3, KeysApart DEF MoveClaims, HandlerRest, RowTo, HandTo, OnMove, StillOwed, MoveOwes, MoverOwes, Moves, Busy
        <3> QED
            BY <3>1, <3>2, <3>3 DEF StillOwed
    <2> QED
        BY <2>1, <2>2, <2>3, NoMoreOwed, BooksKept DEF Booked
<1>9. ASSUME NEW w \in Workers, NEW t \in Tasks, MoveFails(w, t) PROVE Counted'
    <2>1. setup' = setup /\ finished' = finished
        BY <1>9 DEF MoveFails, HandlerRest, Rest, HandTo, GoesTo, RowTo, OnMove
    <2>2. \A u \in Tasks : Notes(u)' = Notes(u)
        BY <1>9 DEF MoveFails, HandlerRest, Rest, HandTo, GoesTo, RowTo, OnMove, Notes
    <2>3. ASSUME NEW u \in Tasks, Due(u) PROVE StillOwed(u)
        BY <1>9, <2>3, KeysKnown, KeysApart, SweepApart, WorkersPass DEF MoveFails, HandlerRest, Rest, HandTo, GoesTo, RowTo,
            OnMove, StillOwed, Due, SweepOwes, MoveOwes, MoverOwes, ToNotify, Busy, Moves, Extracts, Passing, Owned, MoveSteps,
            ExtractSteps
    <2> QED
        BY <2>1, <2>2, <2>3, NoMoreOwed, BooksKept DEF Booked
<1>10. ASSUME NEW w \in Workers, NEW t \in Tasks, MovePauses(w, t) PROVE Counted'
    <2>1. setup' = setup /\ finished' = finished
        BY <1>10 DEF MovePauses, HandlerRest, Rest, HandTo, GoesTo, RowTo, OnMove
    <2>2. \A u \in Tasks : Notes(u)' = Notes(u)
        BY <1>10 DEF MovePauses, HandlerRest, Rest, HandTo, GoesTo, RowTo, OnMove, Notes
    <2>3. ASSUME NEW u \in Tasks, Due(u) PROVE StillOwed(u)
        BY <1>10, <2>3, KeysKnown, KeysApart, SweepApart, WorkersPass DEF MovePauses, HandlerRest, Rest, HandTo, GoesTo, RowTo,
            OnMove, StillOwed, Due, SweepOwes, MoveOwes, MoverOwes, ToNotify, Busy, Moves, Extracts, Passing, Owned, MoveSteps,
            ExtractSteps
    <2> QED
        BY <2>1, <2>2, <2>3, NoMoreOwed, BooksKept DEF Booked
<1>11. ASSUME NEW w \in Workers, NEW t \in Tasks, MoveSettles(w, t) PROVE Counted'
    <2>1. setup' = setup /\ finished' = finished
        BY <1>11 DEF MoveSettles, HandlerRest, Rest, HandTo, GoesTo, RowTo, OnMove
    <2>2. \A u \in Tasks : Notes(u)' = Notes(u)
        BY <1>11 DEF MoveSettles, HandlerRest, Rest, HandTo, GoesTo, RowTo, OnMove, Notes
    <2>3. ASSUME NEW u \in Tasks, Due(u) PROVE StillOwed(u)
        BY <1>11, <2>3, KeysKnown, KeysApart, SweepApart, WorkersPass DEF MoveSettles, HandlerRest, Rest, HandTo, GoesTo, RowTo,
            OnMove, StillOwed, Due, SweepOwes, MoveOwes, MoverOwes, ToNotify, Busy, Moves, Extracts, Passing, Owned, MoveSteps,
            ExtractSteps, Filed, MoversSee
    <2> QED
        BY <2>1, <2>2, <2>3, NoMoreOwed, BooksKept DEF Booked
<1>12. ASSUME NEW w \in Workers, NEW t \in Tasks, MoveCompletes(w, t) PROVE Counted'
    <2>1. setup' = setup /\ finished' = finished
        BY <1>12 DEF MoveCompletes, HandlerRest, Rest, HandTo, GoesTo, RowTo, ChainTo, OnMove
    <2>2. \A u \in Tasks : Notes(u)' = Notes(u)
        BY <1>12 DEF MoveCompletes, HandlerRest, Rest, HandTo, GoesTo, RowTo, ChainTo, OnMove, Notes
    <2>3. ASSUME NEW u \in Tasks, Due(u) PROVE StillOwed(u)
        BY <1>12, <2>3, KeysKnown, KeysApart, SweepApart, WorkersPass DEF MoveCompletes, HandlerRest, Rest, HandTo, GoesTo, RowTo,
            ChainTo, OnMove, StillOwed, Due, SweepOwes, MoveOwes, MoverOwes, ToNotify, Busy, Moves, Extracts, Passing, Owned,
            MoveSteps, ExtractSteps, Filed, MoversSee
    <2> QED
        BY <2>1, <2>2, <2>3, NoMoreOwed, BooksKept DEF Booked
<1>13. ASSUME NEW w \in Workers, NEW t \in Tasks, MoveFiles(w, t) PROVE Counted'
    <2>1. setup' = setup /\ finished' = finished
        BY <1>13 DEF MoveFiles, HandlerRest, Rest, HandTo, GoesTo, DiskTo, OnMove
    <2>2. \A u \in Tasks : Notes(u)' = Notes(u)
        BY <1>13 DEF MoveFiles, HandlerRest, Rest, HandTo, GoesTo, DiskTo, OnMove, Notes
    <2>3. ASSUME NEW u \in Tasks, Due(u) PROVE StillOwed(u)
        BY <1>13, <2>3, KeysKnown, KeysApart, SweepApart, WorkersPass DEF MoveFiles, HandlerRest, Rest, HandTo, GoesTo, DiskTo,
            OnMove, StillOwed, Due, SweepOwes, MoveOwes, MoverOwes, ToNotify, Busy, Moves, Extracts, Passing, Owned, MoveSteps,
            ExtractSteps, Filed, MoversSee
    <2> QED
        BY <2>1, <2>2, <2>3, NoMoreOwed, BooksKept DEF Booked
<1>14. ASSUME NEW w \in Workers, Sends(w) PROVE Counted'
    <2>1. setup' = setup /\ finished' = finished
        BY <1>14 DEF Sends, HandlerRest, Rest, HandTo, GoesTo
    <2>2. \A u \in Tasks : Notes(u)' = Notes(u)
        BY <1>14 DEF Sends, HandlerRest, Rest, HandTo, GoesTo, Notes
    <2>3. ASSUME NEW u \in Tasks, Due(u) PROVE StillOwed(u)
        BY <1>14, <2>3, KeysKnown, KeysApart, SweepApart, WorkersPass DEF Sends, HandlerRest, Rest, HandTo, GoesTo, StillOwed, Due,
            SweepOwes, MoveOwes, MoverOwes, ToNotify, Busy, Moves, Extracts, Passing, Owned, MoveSteps, ExtractSteps, KindsFit
    <2> QED
        BY <2>1, <2>2, <2>3, NoMoreOwed, BooksKept DEF Booked
<1>15. ASSUME NEW w \in Workers, Returns(w) PROVE Counted'
    <2>1. setup' = setup /\ finished' = finished
        BY <1>15 DEF Returns, HandlerRest, Rest, HandTo, GoesTo
    <2>2. \A u \in Tasks : Notes(u)' = Notes(u)
        BY <1>15 DEF Returns, HandlerRest, Rest, HandTo, GoesTo, Notes
    <2>3. ASSUME NEW u \in Tasks, Due(u) PROVE StillOwed(u)
        BY <1>15, <2>3, KeysKnown, KeysApart, SweepApart, WorkersPass DEF Returns, HandlerRest, Rest, HandTo, GoesTo, StillOwed,
            Due, SweepOwes, MoveOwes, MoverOwes, ToNotify, Busy, Moves, Extracts, Passing, Owned, MoveSteps, ExtractSteps
    <2> QED
        BY <2>1, <2>2, <2>3, NoMoreOwed, BooksKept DEF Booked
<1>16. ASSUME NEW w \in Workers, Outcomes(w) PROVE Counted'
    <2>1. setup' = setup /\ finished' = finished
        BY <1>16 DEF Outcomes, PoolRest, Rest, JobTo
    <2>2. \A u \in Tasks : Notes(u)' = Notes(u)
        BY <1>16, KeysKnown, KeysApart DEF Outcomes, PoolRest, Rest, JobTo, Notes
    <2>3. ASSUME NEW u \in Tasks, Due(u) PROVE StillOwed(u)
        <3>1. jobs'[MoveJob(u)].st \in {"pending", "running"} => jobs[MoveJob(u)].st \in {"pending", "running"}
            <4>1. CASE hand[w].job = MoveJob(u) /\ jobs[hand[w].job].st # "none"
                BY <1>16, <4>1, RunnersRow DEF Outcomes, Moves, Busy
            <4>2. CASE ~(hand[w].job = MoveJob(u) /\ jobs[hand[w].job].st # "none")
                BY <1>16, <4>2, KeysKnown DEF Outcomes, JobTo
            <4> QED
                BY <4>1, <4>2
        <3> QED
            BY <1>16, <3>1 DEF Outcomes, PoolRest, StillOwed, SweepOwes, MoveOwes, MoverOwes, Moves, Passing, Busy
    <2> QED
        BY <2>1, <2>2, <2>3, NoMoreOwed, BooksKept DEF Booked
<1>17. ASSUME NEW w \in Workers, NEW j \in JobKeys, Claims(w, j) PROVE Counted'
    <2>1. setup' = setup /\ finished' = finished
        BY <1>17 DEF Claims, PoolRest, Rest, JobTo
    <2>2. \A u \in Tasks : Notes(u)' = Notes(u)
        BY <1>17, KeysKnown, KeysApart DEF Claims, PoolRest, Rest, JobTo, Notes
    <2>3. ASSUME NEW u \in Tasks, Due(u) PROVE StillOwed(u)
        BY <1>17, <2>3, KeysKnown, KeysApart, SweepApart, WorkersPass DEF Claims, PoolRest, Rest, JobTo, StillOwed, Due, SweepOwes,
            MoveOwes, MoverOwes, ToNotify, Busy, Moves, Extracts, Passing, Owned, MoveSteps, ExtractSteps
    <2> QED
        BY <2>1, <2>2, <2>3, NoMoreOwed, BooksKept DEF Booked
<1>18. ASSUME NEW a \in Actors, NEW t \in Tasks, PassGoes(a, t) PROVE Counted'
    <2>1. setup' = setup /\ finished' = finished
        BY <1>18 DEF PassGoes, Passing, PassRest, Rest, ChainTo
    <2>2. \A u \in Tasks : Notes(u)' = Notes(u)
        BY <1>18 DEF PassGoes, Passing, PassRest, Rest, ChainTo, Notes
    <2>3. ASSUME NEW u \in Tasks, Due(u) PROVE StillOwed(u)
        BY <1>18, <2>3, KeysKnown, KeysApart, SweepApart, WorkersPass DEF PassGoes, Passing, PassRest, Rest, ChainTo, StillOwed,
            Due, SweepOwes, MoveOwes, MoverOwes, ToNotify, Busy, Moves, Extracts, Owned, MoveSteps, ExtractSteps
    <2> QED
        BY <2>1, <2>2, <2>3, NoMoreOwed, BooksKept DEF Booked
<1>19. ASSUME NEW a \in Actors, NEW t \in Tasks, PassResets(a, t) PROVE Counted'
    <2>1. setup' = setup /\ finished' = finished
        BY <1>19 DEF PassResets, Passing, PassRest, Rest, ChainTo, JobTo
    <2>2. \A u \in Tasks : Notes(u)' = Notes(u)
        BY <1>19, KeysKnown, KeysApart DEF PassResets, Passing, PassRest, Rest, ChainTo, JobTo, Notes
    <2>3. ASSUME NEW u \in Tasks, Due(u) PROVE StillOwed(u)
        BY <1>19, <2>3, KeysKnown, KeysApart, SweepApart, WorkersPass DEF PassResets, Passing, PassRest, Rest, ChainTo, JobTo,
            StillOwed, Due, SweepOwes, MoveOwes, MoverOwes, ToNotify, Busy, Moves, Extracts, Owned, MoveSteps, ExtractSteps
    <2> QED
        BY <2>1, <2>2, <2>3, NoMoreOwed, BooksKept DEF Booked
<1>20. ASSUME NEW a \in Actors, NEW t \in Tasks, PassInserts(a, t) PROVE Counted'
    <2>1. setup' = setup /\ finished' = finished
        BY <1>20 DEF PassInserts, Passing, PassRest, Rest, ChainTo, JobTo
    <2>2. \A u \in Tasks : Notes(u)' = Notes(u)
        BY <1>20, KeysKnown, KeysApart DEF PassInserts, Passing, PassRest, Rest, ChainTo, JobTo, Notes
    <2>3. ASSUME NEW u \in Tasks, Due(u) PROVE StillOwed(u)
        BY <1>20, <2>3, KeysKnown, KeysApart, SweepApart, WorkersPass DEF PassInserts, Passing, PassRest, Rest, ChainTo, JobTo,
            StillOwed, Due, SweepOwes, MoveOwes, MoverOwes, ToNotify, Busy, Moves, Extracts, Owned, MoveSteps, ExtractSteps
    <2> QED
        BY <2>1, <2>2, <2>3, NoMoreOwed, BooksKept DEF Booked
<1>21. ASSUME NEW a \in Actors, NEW t \in Tasks, PassEnqueues(a, t) PROVE Counted'
    <2>1. setup' = setup /\ finished' = finished
        BY <1>21 DEF PassEnqueues, PassRest, Rest
    <2>2. \A u \in Tasks : Notes(u)' = Notes(u)
        BY <1>21, KeysKnown, KeysApart DEF PassEnqueues, JobTo, Notes
    <2>3. ASSUME NEW u \in Tasks, u # t, Due(u) PROVE StillOwed(u)
        BY <1>21, <2>3, KeysKnown, KeysApart, SweepApart, WorkersPass DEF PassEnqueues, PassRest, JobTo, ChainTo, StillOwed, SweepOwes, MoveOwes,
            MoverOwes, Moves, Extracts, Passing, Busy, ToNotify
    <2>4. ASSUME Due(t) PROVE Booked(t)
        <3>1. CASE a = "sweep"
            <4>1. SweepOwes(t) /\ ~SweepOwes(t)'
                BY <1>21, <3>1, SweepApart DEF PassEnqueues, ChainTo, SweepOwes, Passing, ToNotify
            <4>2. One(SweepOwes(t)) = 1 /\ One(SweepOwes(t)') = 0 /\ \A p : One(p) \in 0 .. 1
                BY <4>1 DEF One
            <4>3. 0 + One(SweepOwes(t)') + One(MoveOwes(t)') <= One(SweepOwes(t)) + One(MoveOwes(t)) + 0
                BY <4>2
            <4>4. Cardinality(Notes(t)') = Cardinality(Notes(t)) + 0 /\ finished'[t] = finished[t] + 0
                BY <2>1, <2>2, NotesNat
            <4> QED
                BY <2>4, <4>3, <4>4, Balanced DEF Booked
        <3>2. CASE a # "sweep"
            <4>1. a \in Workers /\ hand[a].pc = "chain" /\ Moves(a, t)
                BY <1>21, <2>4, <3>2, WorkersPass DEF PassEnqueues, Due, OnlyMoves, Filed, ExtractorsSee, ToExtract
            <4>2. MoveOwes(t)
                BY <1>21, <4>1 DEF PassEnqueues, MoveOwes, MoverOwes, ToNotify
            <4>3. SweepOwes(t)' => SweepOwes(t)
                BY <1>21, <3>2, SweepApart DEF PassEnqueues, ChainTo, SweepOwes, Passing
            <4> QED
                BY <2>1, <2>2, <2>4, <4>2, <4>3, NoMoreOwed DEF Booked, StillOwed
        <3> QED
            BY <3>1, <3>2
    <2> QED
        BY <2>1, <2>2, <2>3, <2>4, NoMoreOwed, BooksKept DEF Booked
<1>22. ASSUME NEW a \in Actors, NEW t \in Tasks, PassNotifies(a, t) PROVE Counted'
    <2>1. setup' = setup /\ finished' = finished
        BY <1>22 DEF PassNotifies, PassRest, Rest
    <2>2. \A u \in Tasks : jobs'[MoveJob(u)] = jobs[MoveJob(u)]
        BY <1>22, KeysKnown, KeysApart DEF PassNotifies, JobTo
    <2>3. ASSUME NEW u \in Tasks, u # t, Due(u) PROVE StillOwed(u) /\ Notes(u)' = Notes(u)
        <3>1. Notes(u)' = Notes(u)
            BY <1>22, <2>3, KeysKnown, KeysApart DEF PassNotifies, JobTo, Notes
        <3>2. StillOwed(u)
            BY <1>22, <2>2, <2>3, KeysApart, SweepApart, WorkersPass DEF PassNotifies, PassRest, ChainTo, StillOwed, SweepOwes, MoveOwes,
                MoverOwes, Moves, Extracts, Passing, Busy, ToNotify
        <3> QED
            BY <3>1, <3>2
    <2>4. ASSUME Due(t) PROVE Booked(t)
        <3>1. Cardinality(Notes(t)') = Cardinality(Notes(t)) + 1
            BY <1>22, NotedOnce DEF PassNotifies
        <3>2. ASSUME a = "sweep" PROVE 1 + One(SweepOwes(t)') + One(MoveOwes(t)') <= One(SweepOwes(t)) + One(MoveOwes(t)) + 0
            <4>1. SweepOwes(t) /\ ~SweepOwes(t)'
                BY <1>22, <3>2, SweepApart DEF PassNotifies, ChainTo, SweepOwes, Passing, ToNotify
            <4>2. MoveOwes(t)' => MoveOwes(t)
                BY <1>22, <2>2, <3>2, SweepApart DEF PassNotifies, PassRest, ChainTo, MoveOwes, MoverOwes, Moves, Busy
            <4>3. One(SweepOwes(t)) = 1 /\ One(SweepOwes(t)') = 0 /\ One(MoveOwes(t)') <= One(MoveOwes(t)) /\ \A p : One(p) \in 0 .. 1
                BY <4>1, <4>2, OneLess DEF One
            <4> QED
                BY <4>3
        <3>3. ASSUME a # "sweep" PROVE 1 + One(SweepOwes(t)') + One(MoveOwes(t)') <= One(SweepOwes(t)) + One(MoveOwes(t)) + 0
            <4>1. a \in Workers /\ hand[a].pc = "chain" /\ Moves(a, t)
                BY <1>22, <2>4, <3>3, WorkersPass DEF PassNotifies, Due, OnlyMoves, Filed, ExtractorsSee, ToExtract
            <4>2. MoveOwes(t)
                BY <1>22, <4>1 DEF PassNotifies, MoveOwes, MoverOwes, ToNotify
            <4>3. disk'[t].src = "absent" /\ row'[t].st # "moving"
                BY <1>22, <4>1 DEF PassNotifies, PassRest, Filed, MoversSee, MovedSteps, Walking, Left
            <4>4. \A v \in Workers : Moves(v, t) => v = a
                BY <4>1 DEF Owned, RunnersApart, Moves
            <4>5. ~MoveOwes(t)'
                BY <1>22, <4>1, <4>3, <4>4, SweepApart DEF PassNotifies, PassRest, ChainTo, MoveOwes, MoverOwes, Moves, Busy, ToNotify
            <4>6. SweepOwes(t)' => SweepOwes(t)
                BY <1>22, <3>3, SweepApart DEF PassNotifies, ChainTo, SweepOwes, Passing
            <4>7. One(MoveOwes(t)) = 1 /\ One(MoveOwes(t)') = 0 /\ One(SweepOwes(t)') <= One(SweepOwes(t)) /\ \A p : One(p) \in 0 .. 1
                BY <4>2, <4>5, <4>6, OneLess DEF One
            <4> QED
                BY <4>7
        <3>4. 1 + One(SweepOwes(t)') + One(MoveOwes(t)') <= One(SweepOwes(t)) + One(MoveOwes(t)) + 0
            BY <3>2, <3>3
        <3>5. finished'[t] = finished[t] + 0
            BY <2>1, NotesNat
        <3> QED
            BY <2>4, <3>1, <3>4, <3>5, Balanced DEF Booked
    <2> QED
        BY <2>1, <2>3, <2>4, NoMoreOwed, BooksKept DEF Booked
<1>23. ASSUME NEW a \in Actors, NEW t \in Tasks, PassRemoves(a, t) PROVE Counted'
    <2>1. setup' = setup /\ finished' = finished
        BY <1>23 DEF PassRemoves, Passing, PassRest, Rest, ChainTo, RowTo
    <2>2. \A u \in Tasks : Notes(u)' = Notes(u)
        BY <1>23, KeysKnown, KeysApart DEF PassRemoves, Passing, PassRest, Rest, ChainTo, RowTo, Notes, NoJob
    <2>3. ASSUME NEW u \in Tasks, Due(u) PROVE StillOwed(u)
        BY <1>23, <2>3, KeysKnown, KeysApart, SweepApart, WorkersPass DEF PassRemoves, Passing, PassRest, Rest, ChainTo, RowTo,
            StillOwed, Due, SweepOwes, MoveOwes, MoverOwes, ToNotify, Busy, Moves, Extracts, Owned, MoveSteps, ExtractSteps, NoJob
    <2> QED
        BY <2>1, <2>2, <2>3, NoMoreOwed, BooksKept DEF Booked
<1>24. ASSUME NEW t \in Tasks, Finishes(t) PROVE Counted'
    <2>1. setup' = setup
        BY <1>24 DEF Finishes, RowRest, Rest
    <2>2. \A u \in Tasks : Notes(u)' = Notes(u)
        BY <1>24 DEF Finishes, RowRest, Notes
    <2>3. ASSUME NEW u \in Tasks, u # t, Due(u) PROVE StillOwed(u) /\ finished'[u] = finished[u]
        BY <1>24, <2>3, SweepApart DEF Finishes, RowRest, Rest, RowTo, ChainTo, StillOwed, SweepOwes, MoveOwes, MoverOwes, Moves, Passing, Busy
    <2>4. ASSUME Due(t) PROVE Booked(t)
        <3>1. finished'[t] = finished[t] + 1 /\ ~SweepOwes(t)
            BY <1>24 DEF Finishes, SweepOwes, Passing
        <3>2. MoveOwes(t)' => MoveOwes(t)
            BY <1>24, SweepApart DEF Finishes, RowRest, RowTo, ChainTo, MoveOwes, MoverOwes, Moves, Busy
        <3>3. One(MoveOwes(t)') <= One(MoveOwes(t)) /\ One(SweepOwes(t)) = 0 /\ \A p : One(p) \in 0 .. 1
            BY <3>1, <3>2, OneLess DEF One
        <3>4. 0 + One(SweepOwes(t)') + One(MoveOwes(t)') <= One(SweepOwes(t)) + One(MoveOwes(t)) + 1
            BY <3>3
        <3>5. Cardinality(Notes(t)') = Cardinality(Notes(t)) + 0
            BY <2>2, NotesNat
        <3> QED
            BY <2>4, <3>1, <3>4, <3>5, Balanced DEF Booked
    <2> QED
        BY <2>1, <2>2, <2>3, <2>4, NoMoreOwed, BooksKept DEF Booked
<1>25. ASSUME NEW t \in Tasks, Adopts(t) PROVE Counted'
    <2>1. setup' = setup /\ finished' = finished
        BY <1>25 DEF Adopts, RowRest, Rest, RowTo, ChainTo
    <2>2. \A u \in Tasks : Notes(u)' = Notes(u)
        BY <1>25 DEF Adopts, RowRest, Rest, RowTo, ChainTo, Notes
    <2>3. ASSUME NEW u \in Tasks, Due(u) PROVE StillOwed(u)
        BY <1>25, <2>3, KeysKnown, KeysApart, SweepApart, WorkersPass DEF Adopts, RowRest, Rest, RowTo, ChainTo, StillOwed, Due,
            SweepOwes, MoveOwes, MoverOwes, ToNotify, Busy, Moves, Extracts, Passing, Owned, MoveSteps, ExtractSteps
    <2> QED
        BY <2>1, <2>2, <2>3, NoMoreOwed, BooksKept DEF Booked
<1>26. ASSUME NEW t \in Tasks, Operates(t) PROVE Counted'
    <2>1. setup' = setup /\ finished' = finished
        BY <1>26 DEF Operates, RowRest, Rest, RowTo
    <2>2. \A u \in Tasks : Notes(u)' = Notes(u)
        BY <1>26 DEF Operates, RowRest, Rest, RowTo, Notes
    <2>3. ASSUME NEW u \in Tasks, Due(u) PROVE StillOwed(u)
        BY <1>26, <2>3, KeysKnown, KeysApart, SweepApart, WorkersPass DEF Operates, RowRest, Rest, RowTo, StillOwed, Due,
            SweepOwes, MoveOwes, MoverOwes, ToNotify, Busy, Moves, Extracts, Passing, Owned, MoveSteps, ExtractSteps
    <2> QED
        BY <2>1, <2>2, <2>3, NoMoreOwed, BooksKept DEF Booked
<1>27. ASSUME Recovers PROVE Counted'
    <2>1. setup' = setup /\ finished' = finished
        BY <1>27 DEF Recovers, PoolRest, Rest
    <2>2. \A u \in Tasks : Notes(u)' = Notes(u)
        BY <1>27, KeysKnown, KeysApart DEF Recovers, PoolRest, Rest, Notes
    <2>3. ASSUME NEW u \in Tasks, Due(u) PROVE StillOwed(u)
        BY <1>27, <2>3, KeysKnown, KeysApart, SweepApart, WorkersPass DEF Recovers, PoolRest, Rest, StillOwed, Due, SweepOwes,
            MoveOwes, MoverOwes, ToNotify, Busy, Moves, Extracts, Passing, Owned, MoveSteps, ExtractSteps
    <2> QED
        BY <2>1, <2>2, <2>3, NoMoreOwed, BooksKept DEF Booked
<1>28. ASSUME Dies PROVE Counted'
    <2>1. setup' = setup /\ finished' = finished
        BY <1>28 DEF Dies, Rest
    <2>2. \A u \in Tasks : Notes(u)' = Notes(u)
        BY <1>28 DEF Dies, Rest, Notes
    <2>3. ASSUME NEW u \in Tasks, Due(u) PROVE StillOwed(u)
        BY <1>28, <2>3, KeysKnown, KeysApart, SweepApart, WorkersPass DEF Dies, Rest, StillOwed, Due, SweepOwes, MoveOwes,
            MoverOwes, ToNotify, Busy, Moves, Extracts, Passing, Owned, MoveSteps, ExtractSteps
    <2> QED
        BY <2>1, <2>2, <2>3, NoMoreOwed, BooksKept DEF Booked
<1>29. ASSUME Stops PROVE Counted'
    <2>1. setup' = setup /\ finished' = finished
        BY <1>29 DEF Stops, Rest
    <2>2. \A u \in Tasks : Notes(u)' = Notes(u)
        BY <1>29 DEF Stops, Rest, Notes
    <2>3. ASSUME NEW u \in Tasks, Due(u) PROVE StillOwed(u)
        BY <1>29, <2>3, KeysKnown, KeysApart, SweepApart, WorkersPass DEF Stops, Rest, StillOwed, Due, SweepOwes, MoveOwes,
            MoverOwes, ToNotify, Busy, Moves, Extracts, Passing, Owned, MoveSteps, ExtractSteps
    <2> QED
        BY <2>1, <2>2, <2>3, NoMoreOwed, BooksKept DEF Booked
<1>30. ASSUME Restarts PROVE Counted'
    <2>1. setup' = setup /\ finished' = finished
        BY <1>30 DEF Restarts, Rest
    <2>2. \A u \in Tasks : Notes(u)' = Notes(u)
        BY <1>30 DEF Restarts, Rest, Notes
    <2>3. ASSUME NEW u \in Tasks, Due(u) PROVE StillOwed(u)
        BY <1>30, <2>3, KeysKnown, KeysApart, SweepApart, WorkersPass DEF Restarts, Rest, StillOwed, Due, SweepOwes, MoveOwes,
            MoverOwes, ToNotify, Busy, Moves, Extracts, Passing, Owned, MoveSteps, ExtractSteps
    <2> QED
        BY <2>1, <2>2, <2>3, NoMoreOwed, BooksKept DEF Booked
<1> QED
    BY <1>1, <1>2, <1>3, <1>4, <1>5, <1>6, <1>7, <1>8, <1>9, <1>10, <1>11, <1>12, <1>13, <1>14, <1>15, <1>16, <1>17, <1>18, <1>19,
        <1>20, <1>21, <1>22, <1>23, <1>24, <1>25, <1>26, <1>27, <1>28, <1>29, <1>30 DEF SomeStep, HandlerSome, ExtractSome,
        MoveSome, PassSome

--------------------------------------------------------------------------------
LEMMA JobInvInit ==
    ASSUME Init
    PROVE  JobInv
<1>0. /\ setup \in [Tasks -> Setups] /\ phase = "boot" /\ stopped = FALSE
      /\ \A t \in Tasks : row[t].st = "downloading" /\ row[t].path = setup[t].path /\ finished[t] = 0
      /\ \A j \in JobKeys : jobs[j].st = "none" /\ jobs[j] = NoJob
      /\ \A a \in Actors : chain[a].pc = "idle"
      /\ \A w \in Workers : hand[w].pc = "idle"
    BY DEF Init, SharedInit, HandlerInit, NoJob, IdleChain, IdleHand
<1>1. \A t \in Tasks : /\ setup[t].path \in Places /\ setup[t].taken \in NameHeld /\ setup[t].sibling \in NameHeld
                       /\ (setup[t].taken # "free" => setup[t].path # "dst")
                       /\ disk[t].src = (IF setup[t].path = "src" THEN "payload" ELSE "absent")
                       /\ disk[t].dst = (IF setup[t].path = "dst" THEN "payload" ELSE IF setup[t].taken = "free" THEN "absent" ELSE setup[t].taken)
                       /\ disk[t].tree = (IF setup[t].sibling = "free" THEN "none" ELSE setup[t].sibling)
    BY PostProcessAssumption DEF Init, SharedInit
<1>2. Typed
    <2>1. "downloading" \in RowStates
        BY DEF RowStates, RowStore!States
    <2>2. row \in [Tasks -> [st : RowStates, path : Places]]
        BY <1>0, <1>1, <2>1 DEF Init, SharedInit
    <2>3. jobs \in [JobKeys -> JobRows]
        BY QueueAssumption DEF Init, SharedInit, NoJob, JobRows, JobStates
    <2>4. disk \in [Tasks -> Disks]
        BY <1>1 DEF Init, SharedInit, Disks, NameHeld
    <2>5. IdleChain \in [pc : ChainSteps, task : Tasks \union {"-"}, path : Places]
        BY DEF IdleChain, ChainSteps, Places
    <2>6. chain \in [Actors -> [pc : ChainSteps, task : Tasks \union {"-"}, path : Places]]
        BY <2>5 DEF Init, SharedInit
    <2>7. HandlerTypeOK
        BY IdleHandKnown DEF Init, HandlerInit, HandlerTypeOK, HandRecs
    <2>8. finished \in [Tasks -> 0 .. MaxFinishes] /\ mishaps \in 0 .. MaxMishaps
        BY PostProcessAssumption DEF Init, SharedInit
    <2> QED
        BY <1>0, <2>2, <2>3, <2>4, <2>6, <2>7, <2>8 DEF Typed, TypeOK, SharedTypeOK
<1>3. \A t \in Tasks : Notes(t) = {} /\ Cardinality(Notes(t)) = 0
    BY <1>0, KeysKnown, FS_EmptySet DEF Notes
<1>4. Owned
    <2>1. ASSUME NEW t \in Tasks PROVE \E k \in 0 .. MaxNotes : Notes(t) = 1 .. k
        <3>1. 0 \in 0 .. MaxNotes /\ 1 .. 0 = {}
            BY PostProcessAssumption DEF MaxNotes
        <3> QED
            BY <1>3, <3>1
    <2>2. NotesInRow
        BY <2>1 DEF NotesInRow
    <2> QED
        BY <1>0, <2>2 DEF Owned, KindsFit, ChainsOwned, RunnersApart, RunningRows, GoneNoJobs, BootIdle, Busy
<1>5. Walking
    BY <1>0 DEF Walking, Left, WorkHasJob, Extracts, Moves, Busy
<1>6. Filed
    BY <1>0, <1>1, KeysKnown DEF Filed, PlacesTrue, MoversSee, ExtractorsSee, PassesSee, PayloadKept, NoClobber, Extracts, Moves, Passing, Busy, Places
<1>7. Ordered
    BY <1>0, <1>1, KeysKnown DEF Ordered, NothingYet, SweepFirst, MoveWaits, MoversAfter, TailWaits, StalePathAway, Unstarted, First, InOrder,
        Extracts, Moves, Passing, Busy, AwayStates
<1>8. Counted
    <2>1. ASSUME NEW t \in Tasks PROVE Cardinality(Notes(t)) + One(SweepOwes(t)) + One(MoveOwes(t)) <= finished[t]
        <3>1. ~SweepOwes(t) /\ ~MoveOwes(t)
            BY <1>0, KeysKnown, SweepApart DEF SweepOwes, MoveOwes, MoverOwes, Moves, Passing, Busy
        <3> QED
            BY <1>0, <1>3, <3>1 DEF One
    <2> QED
        BY <2>1 DEF Counted
<1> QED
    BY <1>2, <1>4, <1>5, <1>6, <1>7, <1>8 DEF JobInv

LEMMA JobInvStutters ==
    ASSUME JobInv, UNCHANGED vars
    PROVE  JobInv'
<1>1. UNCHANGED <<setup, row, jobs, disk, chain, finished, phase, mishaps, stopped, hand>>
    BY DEF vars, shared
<1>2. Typed'
    BY <1>1 DEF JobInv, Typed, TypeOK, SharedTypeOK, HandlerTypeOK
<1>3. Owned'
    BY <1>1 DEF JobInv, Owned, KindsFit, ChainsOwned, RunnersApart, RunningRows, GoneNoJobs, BootIdle, NotesInRow, Notes, Busy, TaskGone
<1>4. Walking'
    BY <1>1 DEF JobInv, Walking, Left, WorkHasJob, Extracts, Moves, Busy
<1>5. Filed'
    BY <1>1 DEF JobInv, Filed, PlacesTrue, MoversSee, ExtractorsSee, PassesSee, PayloadKept, NoClobber, ToExtract, Extracts, Moves, Passing, Busy
<1>6. Ordered'
    BY <1>1 DEF JobInv, Ordered, NothingYet, SweepFirst, MoveWaits, MoversAfter, TailWaits, StalePathAway, Unstarted, First, InOrder, ToExtract,
        Extracts, Moves, Passing, Busy, OnlyMoves
<1>7. Counted'
    BY <1>1 DEF JobInv, Counted, Due, OnlyMoves, SweepOwes, MoveOwes, MoverOwes, Moves, Passing, Busy, Notes, One
<1> QED
    BY <1>2, <1>3, <1>4, <1>5, <1>6, <1>7 DEF JobInv

LEMMA JobInvKept ==
    ASSUME JobInv, [Next]_vars
    PROVE  JobInv'
<1>1. Typed /\ Owned /\ Walking /\ Filed /\ Ordered /\ Counted
    BY DEF JobInv
<1>2. SomeStep \/ UNCHANGED vars
    BY <1>1, NextEffects DEF Owned
<1>3. CASE SomeStep
    BY <1>1, <1>3, TypedKeeps, OwnedKeeps, WalkingKeeps, FiledKeeps, OrderedKeeps, CountedKeeps DEF JobInv
<1> QED
    BY <1>2, <1>3, JobInvStutters

--------------------------------------------------------------------------------
(* What the invariant gives.                                               *)
LEMMA JobInvOneRunner ==
    ASSUME JobInv
    PROVE  OneRunner
<1> SUFFICES ASSUME NEW j \in JobKeys PROVE Cardinality({w \in Workers : Runs(w, j)}) <= 1
    BY DEF OneRunner
<1>1. \A v, w \in {u \in Workers : Runs(u, j)} : v = w
    BY DEF JobInv, Owned, RunnersApart, Runs, Busy
<1>2. CASE {w \in Workers : Runs(w, j)} = {}
    BY <1>2, FS_EmptySet
<1>3. CASE {w \in Workers : Runs(w, j)} # {}
    <2>1. PICK w : {u \in Workers : Runs(u, j)} = {w}
        BY <1>1, <1>3
    <2> QED
        BY <2>1, FS_Singleton
<1> QED
    BY <1>2, <1>3

LEMMA JobInvTail ==
    ASSUME JobInv
    PROVE  TailAfterWork
<1> SUFFICES ASSUME NEW a \in Actors, chain[a].pc \in {"notify", "hook", "remove"}, NEW t, t = chain[a].task,
                    ~setup[t].reported, finished[t] = 1, ~stopped
             PROVE  /\ ToExtract(t) => disk[t].tree \in {"own", "alike"}
                    /\ disk[t].src = "absent"
    BY DEF TailAfterWork, ToExtract, Extracted
<1>0. Owned /\ Filed /\ Ordered
    BY DEF JobInv
<1>1. t \in Tasks /\ Passing(a, t) /\ First(t)
    BY <1>0 DEF Owned, ChainsOwned, Passing, First
<1>2. setup[t].path # "src" => disk[t].src = "absent"
    BY <1>0, <1>1 DEF Filed, PlacesTrue
<1>3. CASE a = "sweep"
    BY <1>0, <1>1, <1>2, <1>3 DEF Ordered, SweepFirst
<1>4. CASE a # "sweep" /\ Extracts(a, t)
    <2>1. a \in Workers /\ hand[a].pc = "chain"
        BY <1>0, <1>1, <1>4, WorkersPass
    <2>2. ToExtract(t) /\ disk[t].tree \in {"own", "alike"}
        BY <1>0, <1>1, <1>4, <2>1 DEF Filed, ExtractorsSee
    <2>3. chain[a].path # "src" /\ chain[a].path \in {setup[t].path, row[t].path} /\ row[t].path \in {setup[t].path, "dst"}
        BY <1>0, <1>1, <1>4, <2>1, <2>2 DEF Ordered, TailWaits, InOrder, Filed, PassesSee, PlacesTrue
    <2>4. setup[t].path = "src" => row[t].path = "dst"
        BY <2>3
    <2> QED
        BY <1>0, <1>1, <1>2, <2>2, <2>4 DEF Filed, PlacesTrue
<1>5. CASE a # "sweep" /\ Moves(a, t)
    <2>1. a \in Workers /\ hand[a].pc = "chain"
        BY <1>0, <1>1, <1>5, WorkersPass
    <2>2. disk[t].src = "absent"
        BY <1>0, <1>1, <1>5, <2>1 DEF Filed, MoversSee, MovedSteps
    <2> QED
        BY <1>0, <1>1, <1>5, <2>1, <2>2 DEF Ordered, MoversAfter, InOrder
<1> QED
    BY <1>0, <1>1, <1>3, <1>4, <1>5, WorkersPass

LEMMA JobInvNotifies ==
    ASSUME JobInv
    PROVE  MoveNotifiesOnce
<1> SUFFICES ASSUME NEW t \in Tasks, Due(t) PROVE Cardinality(Notes(t)) <= finished[t]
    BY DEF MoveNotifiesOnce, Due
<1>1. Cardinality(Notes(t)) \in Nat /\ finished[t] \in Nat
    BY NotesNat DEF JobInv
<1>2. \A p : One(p) \in 0 .. 1
    BY DEF One
<1>3. Cardinality(Notes(t)) + One(SweepOwes(t)) + One(MoveOwes(t)) <= finished[t]
    BY DEF JobInv, Counted
<1> QED
    BY <1>1, <1>2, <1>3

LEMMA JobInvPath ==
    ASSUME JobInv
    PROVE  PathTrue
<1> SUFFICES ASSUME NEW t \in Tasks, OnlyMoves(t), ~setup[t].reported, row[t].st \in {"completed", "error"}, finished[t] = 1,
                    setup[t].taken # "alike", disk[t].src # "part"
             PROVE  \/ row[t].path = "src" /\ disk[t].src = "payload"
                    \/ row[t].path = "dst" /\ disk[t].dst = "payload"
    BY DEF PathTrue
<1>1. setup[t].path \in Places /\ disk[t].src \in {"absent", "payload", "part"}
    BY PostProcessAssumption DEF JobInv, Typed, TypeOK, SharedTypeOK, Disks
<1>2. /\ row[t].path \in {setup[t].path, "dst"} /\ (row[t].path = "dst" => disk[t].dst \in {"payload", "alike"})
      /\ disk[t].dst = "alike" => setup[t].taken = "alike"
    BY DEF JobInv, Filed, PlacesTrue
<1>3. setup[t].path = "src" /\ row[t].path = "src" => disk[t].src # "absent"
    BY DEF JobInv, Ordered, StalePathAway, AwayStates
<1> QED
    BY <1>1, <1>2, <1>3 DEF OnlyMoves, Places

LEMMA JobInvAlways == Spec => []JobInv
<1>1. Init => JobInv
    BY JobInvInit
<1>2. JobInv /\ [Next]_vars => JobInv'
    BY JobInvKept
<1> QED
    BY <1>1, <1>2, PTL DEF Spec

(* A job has one runner, however often it was claimed, failed, stranded    *)
(* and recovered; a row that is extracting or moving has a job that acts   *)
(* on it; the tail of a task's first chain comes after the extraction and  *)
(* the move; a move run again after a crash does not notify again.         *)
THEOREM JobsStaySafe == Spec => []JobsSafe
<1>1. JobInv => JobsSafe
    BY JobInvOneRunner, JobInvTail, JobInvNotifies DEF JobInv, Typed, Walking, JobsSafe
<1> QED
    BY <1>1, JobInvAlways, PTL

(* The bytes of a task survive every interleaving of moves, extractions,   *)
(* crashes and shutdowns, nothing of another's is replaced, and a row that *)
(* completed or failed after its move names where they are.                *)
THEOREM PayloadStaysSafe == Spec => []PayloadSafe
<1>1. JobInv => PayloadSafe
    BY JobInvPath DEF JobInv, Filed, PayloadSafe
<1> QED
    BY <1>1, JobInvAlways, PTL
================================================================================
