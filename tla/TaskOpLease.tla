------------------------------ MODULE TaskOpLease ------------------------------
(***************************************************************************)
(* The task-operation lease of internal/engine/registry.go: a lazily built *)
(* table of per-task entries, each with a holder token and a FIFO queue of *)
(* parked waiters.  Every critical section of Registry.mu is one action.   *)
(*                                                                         *)
(* An element of Acqs is one call of AcquireTaskOp, made at most once.  It *)
(* stands for the token the call mints (two calls never share a token) and *)
(* for the taskOpEntry the call allocates when its task has none, so heap  *)
(* identity needs no counter.  seq is the sequence number of the token.    *)
(***************************************************************************)
EXTENDS Naturals, Sequences, SequencesExt

CONSTANTS
    Tasks,   \* task ids
    Acqs,    \* calls of AcquireTaskOp: tokens and entries
    None     \* Go's nil

ASSUME NoneAssumption == None \notin Tasks /\ None \notin Acqs

VARIABLES
    table,      \* Registry.leases: task -> the entry in the table, or None
    holder,     \* taskOpEntry.holder: entry -> token, or None
    waiters,    \* taskOpEntry.waiters: entry -> parked calls, oldest first
    nextToken,  \* Registry.nextToken
    seq,        \* taskOpToken.seq of each call, 0 before it mints one
    pc,         \* where each call stands
    task,       \* the task id the call was made for
    ent,        \* the entry the call (and its release closure) captured
    won,        \* taskOpWaiter.won; ready is closed exactly when won is set
    ctxEnded    \* ctx.Err() # nil

vars == <<table, holder, waiters, nextToken, seq, pc, task, ent, won, ctxEnded>>

Modes == {"try", "wait"}

(* idle: not called yet; parked: in the select; holding: returned with the *)
(* release closure, not called; released: the closure has been called;     *)
(* busy: answered ErrTaskOpBusy; ended: answered ctx.Err().                *)
PCs == {"idle", "parked", "holding", "released", "busy", "ended"}

TypeOK ==
    /\ table \in [Tasks -> Acqs \union {None}]
    /\ holder \in [Acqs -> Acqs \union {None}]
    /\ waiters \in [Acqs -> Seq(Acqs)]
    /\ nextToken \in Nat
    /\ seq \in [Acqs -> Nat]
    /\ pc \in [Acqs -> PCs]
    /\ task \in [Acqs -> Tasks \union {None}]
    /\ ent \in [Acqs -> Acqs \union {None}]
    /\ won \in [Acqs -> BOOLEAN]
    /\ ctxEnded \in [Acqs -> BOOLEAN]

Init ==
    /\ table = [t \in Tasks |-> None]
    /\ holder = [e \in Acqs |-> None]
    /\ waiters = [e \in Acqs |-> << >>]
    /\ nextToken = 0
    /\ seq = [p \in Acqs |-> 0]
    /\ pc = [p \in Acqs |-> "idle"]
    /\ task = [p \in Acqs |-> None]
    /\ ent = [p \in Acqs |-> None]
    /\ won = [p \in Acqs |-> FALSE]
    /\ ctxEnded = [p \in Acqs |-> FALSE]

--------------------------------------------------------------------------------
(* The entry AcquireTaskOp works on: the one in the table, else the one    *)
(* this call allocates and stores there.                                   *)
EntryFor(p, t) == IF table[t] = None THEN p ELSE table[t]

(* mintTokenLocked. *)
Mint(p) ==
    /\ nextToken' = nextToken + 1
    /\ seq' = [seq EXCEPT ![p] = nextToken + 1]

(* The first critical section of AcquireTaskOp on a lease nobody holds.    *)
AcquireFree(p, t) ==
    /\ pc[p] = "idle"
    /\ holder[EntryFor(p, t)] = None
    /\ table' = [table EXCEPT ![t] = EntryFor(p, t)]
    /\ holder' = [holder EXCEPT ![EntryFor(p, t)] = p]
    /\ Mint(p)
    /\ pc' = [pc EXCEPT ![p] = "holding"]
    /\ task' = [task EXCEPT ![p] = t]
    /\ ent' = [ent EXCEPT ![p] = EntryFor(p, t)]
    /\ UNCHANGED <<waiters, won, ctxEnded>>

(* TaskOpTry on a held lease answers ErrTaskOpBusy and leaves no trace.    *)
AcquireBusy(p, t) ==
    /\ pc[p] = "idle"
    /\ table[t] # None
    /\ holder[table[t]] # None
    /\ pc' = [pc EXCEPT ![p] = "busy"]
    /\ task' = [task EXCEPT ![p] = t]
    /\ UNCHANGED <<table, holder, waiters, nextToken, seq, ent, won, ctxEnded>>

(* TaskOpWait on a held lease parks behind the holder.                     *)
AcquirePark(p, t) ==
    /\ pc[p] = "idle"
    /\ table[t] # None
    /\ holder[table[t]] # None
    /\ waiters' = [waiters EXCEPT ![table[t]] = Append(@, p)]
    /\ Mint(p)
    /\ pc' = [pc EXCEPT ![p] = "parked"]
    /\ task' = [task EXCEPT ![p] = t]
    /\ ent' = [ent EXCEPT ![p] = table[t]]
    /\ UNCHANGED <<table, holder, won, ctxEnded>>

AcquireTaskOp(p, t, mode) ==
    \/ AcquireFree(p, t)
    \/ mode = "try" /\ AcquireBusy(p, t)
    \/ mode = "wait" /\ AcquirePark(p, t)

(* The caller's context ends: a deadline or a disconnected client.         *)
EndCtx(p) ==
    /\ ~ctxEnded[p]
    /\ ctxEnded' = [ctxEnded EXCEPT ![p] = TRUE]
    /\ UNCHANGED <<table, holder, waiters, nextToken, seq, pc, task, ent, won>>

(* The select wakes on ready.                                              *)
WakeReady(p) ==
    /\ pc[p] = "parked"
    /\ won[p]
    /\ pc' = [pc EXCEPT ![p] = "holding"]
    /\ UNCHANGED <<table, holder, waiters, nextToken, seq, task, ent, won, ctxEnded>>

(* removeWaiter: take w off the queue wherever it stands, if it is there.  *)
WithoutWaiter(ws, w) ==
    IF \E i \in DOMAIN ws : ws[i] = w
    THEN RemoveAt(ws, CHOOSE i \in DOMAIN ws : ws[i] = w)
    ELSE ws

(* Mutant: ctx.Done answers the context without reading won.               *)
WakeCancelledIgnoringWon(p) ==
    /\ pc[p] = "parked"
    /\ ctxEnded[p]
    /\ pc' = [pc EXCEPT ![p] = "ended"]
    /\ waiters' = [waiters EXCEPT ![ent[p]] = WithoutWaiter(@, p)]
    /\ UNCHANGED <<table, holder, nextToken, seq, task, ent, won, ctxEnded>>

(* Mutant: the cancelled waiter assumes it is still in the queue.          *)
WakeCancelledIfQueued(p) ==
    /\ pc[p] = "parked"
    /\ \E i \in DOMAIN waiters[ent[p]] : waiters[ent[p]][i] = p
    /\ WakeCancelledIgnoringWon(p)

(* The select wakes on ctx.Done and reads won under the mutex: a handoff   *)
(* that won the race still returns the lease.                              *)
WakeCancelled(p) ==
    /\ pc[p] = "parked"
    /\ ctxEnded[p]
    /\ IF won[p]
       THEN /\ pc' = [pc EXCEPT ![p] = "holding"]
            /\ UNCHANGED waiters
       ELSE /\ pc' = [pc EXCEPT ![p] = "ended"]
            /\ waiters' = [waiters EXCEPT ![ent[p]] = WithoutWaiter(@, p)]
    /\ UNCHANGED <<table, holder, nextToken, seq, task, ent, won, ctxEnded>>

(* Mutant: the handoff serves the newest live waiter.                      *)
NewestLive(ws, i) ==
    ~ctxEnded[ws[i]] /\ \A j \in DOMAIN ws : j > i => ctxEnded[ws[j]]

(* The waiter at i is the oldest whose context has not ended.              *)
OldestLive(ws, i) ==
    ~ctxEnded[ws[i]] /\ \A j \in DOMAIN ws : j < i => ctxEnded[ws[j]]

(* Mutant: the release looks at the head of the queue only.                *)
HeadNotLive(ws) == \A j \in DOMAIN ws : j = 1 => ctxEnded[ws[j]]

NoneLive(ws) == \A j \in DOMAIN ws : ctxEnded[ws[j]]

(* The release closure.  Only the live holder's token acts; ownership goes *)
(* straight to the oldest live waiter (ended ones before it are dropped),  *)
(* and with none left the entry leaves the table.                          *)
Handoff(p) ==
    LET e == ent[p] IN
    \E i \in DOMAIN waiters[e] :
        /\ OldestLive(waiters[e], i)
        /\ holder' = [holder EXCEPT ![e] = waiters[e][i]]
        /\ won' = [won EXCEPT ![waiters[e][i]] = TRUE]
        /\ waiters' = [waiters EXCEPT ![e] = SubSeq(@, i + 1, Len(@))]
        /\ UNCHANGED table

Vacate(p) ==
    LET e == ent[p]
    IN  /\ NoneLive(waiters[e])
        /\ holder' = [holder EXCEPT ![e] = None]
        /\ waiters' = [waiters EXCEPT ![e] = << >>]
        /\ table' = IF table[task[p]] = e
                    THEN [table EXCEPT ![task[p]] = None]
                    ELSE table
        /\ UNCHANGED won

(* Mutant: the closure acts without comparing its token with the holder.   *)
ReleaseUnchecked(p) ==
    /\ pc[p] \in {"holding", "released"}
    /\ pc' = [pc EXCEPT ![p] = "released"]
    /\ Handoff(p) \/ Vacate(p)
    /\ UNCHANGED <<nextToken, seq, task, ent, ctxEnded>>

ReleaseTaskOp(p) ==
    /\ pc[p] \in {"holding", "released"}
    /\ pc' = [pc EXCEPT ![p] = "released"]
    /\ IF holder[ent[p]] = p
       THEN Handoff(p) \/ Vacate(p)
       ELSE UNCHANGED <<table, holder, waiters, won>>
    /\ UNCHANGED <<nextToken, seq, task, ent, ctxEnded>>

Next ==
    \E p \in Acqs :
        \/ \E t \in Tasks, mode \in Modes : AcquireTaskOp(p, t, mode)
        \/ EndCtx(p)
        \/ WakeReady(p)
        \/ WakeCancelled(p)
        \/ ReleaseTaskOp(p)

(* A woken select is scheduled, and every caller defers its release.  No   *)
(* call has to be made and no context has to end.                          *)
Fairness ==
    \A p \in Acqs :
        /\ WF_vars(WakeReady(p))
        /\ WF_vars(WakeCancelled(p))
        /\ WF_vars(ReleaseTaskOp(p) /\ pc[p] = "holding")

Spec == Init /\ [][Next]_vars

FairSpec == Spec /\ Fairness
--------------------------------------------------------------------------------
(* A call owns the lease from the handoff (or the free acquisition) until  *)
(* its release: a parked winner owns it before its goroutine runs again.   *)
Owns(p) == pc[p] = "holding" \/ (pc[p] = "parked" /\ won[p])

(* A call whose context is live and which is still parked without a win.   *)
LiveWaiter(p) == pc[p] = "parked" /\ ~won[p] /\ ~ctxEnded[p]

(* MutualExclusion: AcquireTaskOp promises "operations on one task id      *)
(* exclude each other": whatever cancellations, double releases and table  *)
(* rebuilds happen, one task never has two owners.                         *)
MutualExclusion ==
    \A p, q \in Acqs : Owns(p) /\ Owns(q) /\ task[p] = task[q] => p = q

(* NoStrandedLease: an entry that stays in the table is held by a call     *)
(* that will still release it: never by one that answered ctx.Err() or by  *)
(* nobody.  This is what the won flag under the mutex is for.              *)
NoStrandedLease ==
    \A t \in Tasks : table[t] # None =>
        /\ holder[table[t]] # None
        /\ Owns(holder[table[t]])
        /\ task[holder[table[t]]] = t

(* NoLostWaiter: a live waiter is queued in the very entry the table names *)
(* for its task, so some release will reach it; no second entry is built   *)
(* beside a parked waiter.                                                 *)
NoLostWaiter ==
    \A p \in Acqs : LiveWaiter(p) =>
        /\ table[task[p]] = ent[p]
        /\ \E i \in DOMAIN waiters[ent[p]] : waiters[ent[p]][i] = p

(* NoOvertaking: whoever becomes the owner of a task's lease in a step, by *)
(* a handoff or by walking in, no live waiter with an older token is left  *)
(* parked on the same task.                                                *)
NoOvertaking ==
    [][\A p, q \in Acqs :
          /\ LiveWaiter(p)
          /\ ~Owns(q) /\ Owns(q)'
          /\ task'[q] = task[p]
          => p = q \/ seq'[q] < seq[p]]_vars

(* WaiterServed: under fair scheduling and holders that release, a parked  *)
(* call gets the lease unless its own context ends.                        *)
WaiterServed ==
    \A p \in Acqs : LiveWaiter(p) ~> (pc[p] = "holding" \/ ctxEnded[p])

(* CallReturns: no call stays in the select for ever.                      *)
CallReturns == \A p \in Acqs : pc[p] = "parked" ~> pc[p] # "parked"

(* The abstract lease, with each task's owner and the calls that are done. *)
released == {p \in Acqs : pc[p] = "released"}
owner == [t \in Tasks |-> IF table[t] = None THEN None ELSE holder[table[t]]]

Lock == INSTANCE TaskOpLock WITH owner <- owner, released <- released

(* ImplementsLock: the table, queues and closures behave as one exclusive, *)
(* one-shot lease per task.                                                *)
ImplementsLock == Lock!Spec

(* Every call of AcquireTaskOp ends, and a parked one with the lease       *)
(* unless its own context ends.                                            *)
CallsServed == WaiterServed /\ CallReturns
================================================================================
