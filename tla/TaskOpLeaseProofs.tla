--------------------------- MODULE TaskOpLeaseProofs ---------------------------
(***************************************************************************)
(* Proofs about TaskOpLease for every set of tasks and calls.              *)
(*                                                                         *)
(* Exclusion is not inductive by itself.  The strengthening ties the three *)
(* places that name an owner together: the call's own state, the holder    *)
(* field of the entry it captured, and the table.  It adds that a queue    *)
(* holds exactly parked calls of that entry in token order, and that a     *)
(* call not made yet is nowhere in the heap.                               *)
(***************************************************************************)
EXTENDS TaskOpLease, TLAPS

(* A call that owns the lease captured the entry the table names for its   *)
(* task, and that entry's holder is its token.                             *)
OwnersAnchored ==
    \A p \in Acqs : Owns(p) =>
        /\ task[p] \in Tasks
        /\ ent[p] \in Acqs
        /\ holder[ent[p]] = p
        /\ table[task[p]] = ent[p]

(* A holder field never names a call that does not own the entry.          *)
HoldersOwn ==
    \A e \in Acqs : holder[e] # None =>
        Owns(holder[e]) /\ ent[holder[e]] = e

(* An entry in the table is held, by a call made for that task.            *)
TableHeld ==
    \A t \in Tasks : table[t] # None =>
        holder[table[t]] # None /\ task[holder[table[t]]] = t

(* Queue members are parked, have not won and belong to the entry, which   *)
(* is in the table.                                                        *)
QueuedParked ==
    \A e \in Acqs : \A i \in DOMAIN waiters[e] :
        LET w == waiters[e][i] IN
        /\ pc[w] = "parked"
        /\ ~won[w]
        /\ ent[w] = e
        /\ task[w] \in Tasks
        /\ table[task[w]] = e

(* Queues are in token order.                                              *)
QueueOrdered ==
    \A e \in Acqs : \A i, j \in DOMAIN waiters[e] :
        i < j => seq[waiters[e][i]] < seq[waiters[e][j]]

(* Every live waiter is in the queue of its entry.                         *)
LiveQueued ==
    \A p \in Acqs : LiveWaiter(p) =>
        /\ ent[p] \in Acqs
        /\ \E i \in DOMAIN waiters[ent[p]] : waiters[ent[p]][i] = p

(* A call that has not been made is no entry, no token and no waiter.      *)
IdleFresh ==
    \A p \in Acqs : pc[p] = "idle" =>
        /\ holder[p] = None
        /\ waiters[p] = << >>
        /\ ~won[p]
        /\ \A t \in Tasks : table[t] # p
        /\ \A q \in Acqs : ent[q] # p

(* Calls past the first critical section captured an entry and a task.     *)
Captured ==
    \A p \in Acqs : pc[p] \in {"parked", "holding", "released"} =>
        ent[p] \in Acqs /\ task[p] \in Tasks

TokensMinted == \A p \in Acqs : seq[p] <= nextToken

IInv ==
    /\ TypeOK
    /\ OwnersAnchored
    /\ HoldersOwn
    /\ TableHeld
    /\ QueuedParked
    /\ QueueOrdered
    /\ LiveQueued
    /\ IdleFresh
    /\ Captured
    /\ TokensMinted

--------------------------------------------------------------------------------
(* What removing a prefix of a queue leaves, as releaseTaskOp does.        *)
LEMMA TailFacts ==
    ASSUME NEW S, NEW ws \in Seq(S), NEW i \in DOMAIN ws
    PROVE  /\ SubSeq(ws, i + 1, Len(ws)) \in Seq(S)
           /\ DOMAIN SubSeq(ws, i + 1, Len(ws)) = 1 .. (Len(ws) - i)
           /\ \A j \in 1 .. (Len(ws) - i) :
                 /\ i + j \in DOMAIN ws
                 /\ SubSeq(ws, i + 1, Len(ws))[j] = ws[i + j]
  OBVIOUS

(* What removing one waiter leaves, as removeWaiter does.                  *)
LEMMA RemovalFacts ==
    ASSUME NEW S, NEW ws \in Seq(S), NEW k \in DOMAIN ws
    PROVE  /\ RemoveAt(ws, k) \in Seq(S)
           /\ DOMAIN RemoveAt(ws, k) = 1 .. (Len(ws) - 1)
           /\ \A j \in 1 .. (Len(ws) - 1) :
                 RemoveAt(ws, k)[j] = IF j < k THEN ws[j] ELSE ws[j + 1]
  <1> DEFINE a == SubSeq(ws, 1, k - 1)
             b == SubSeq(ws, k + 1, Len(ws))
  <1>1. /\ a \in Seq(S) /\ Len(a) = k - 1
        /\ \A j \in 1 .. (k - 1) : a[j] = ws[j]
    OBVIOUS
  <1>2. /\ b \in Seq(S) /\ Len(b) = Len(ws) - k
        /\ \A j \in 1 .. (Len(ws) - k) : b[j] = ws[k + j]
    OBVIOUS
  <1> HIDE DEF a, b
  <1>3. /\ a \o b \in Seq(S) /\ Len(a \o b) = Len(ws) - 1
        /\ \A j \in 1 .. (Len(ws) - 1) :
              (a \o b)[j] = IF j < k THEN ws[j] ELSE ws[j + 1]
    BY <1>1, <1>2
  <1>4. RemoveAt(ws, k) = a \o b
    BY DEF RemoveAt, a, b
  <1> QED
    BY <1>3, <1>4

(* A call leaves the queue and the order of the others is kept.            *)
LEMMA WithoutFacts ==
    ASSUME NEW ws \in Seq(Acqs), NEW w \in Acqs,
           \A i, j \in DOMAIN ws : i < j => seq[ws[i]] < seq[ws[j]],
           seq \in [Acqs -> Nat]
    PROVE  /\ WithoutWaiter(ws, w) \in Seq(Acqs)
           /\ \A i \in DOMAIN WithoutWaiter(ws, w) :
                 /\ WithoutWaiter(ws, w)[i] # w
                 /\ \E j \in DOMAIN ws : WithoutWaiter(ws, w)[i] = ws[j]
           /\ \A i, j \in DOMAIN WithoutWaiter(ws, w) :
                 i < j => seq[WithoutWaiter(ws, w)[i]] < seq[WithoutWaiter(ws, w)[j]]
           /\ \A i \in DOMAIN ws : ws[i] # w =>
                 \E j \in DOMAIN WithoutWaiter(ws, w) : WithoutWaiter(ws, w)[j] = ws[i]
  <1>1. CASE ~ \E i \in DOMAIN ws : ws[i] = w
    <2>1. WithoutWaiter(ws, w) = ws
      BY <1>1 DEF WithoutWaiter
    <2> QED
      BY <1>1, <2>1
  <1>2. CASE \E i \in DOMAIN ws : ws[i] = w
    <2> DEFINE k == CHOOSE i \in DOMAIN ws : ws[i] = w
    <2>1. k \in DOMAIN ws /\ ws[k] = w
      BY <1>2
    <2>2. WithoutWaiter(ws, w) = RemoveAt(ws, k)
      BY <1>2 DEF WithoutWaiter
    <2> HIDE DEF k
    <2>0. Len(ws) \in Nat /\ DOMAIN ws = 1 .. Len(ws)
      OBVIOUS
    <2>3. \A i \in DOMAIN ws : i # k => ws[i] # w
      BY <2>1
    <2> DEFINE r == RemoveAt(ws, k)
    <2>4. /\ r \in Seq(Acqs)
          /\ DOMAIN r = 1 .. (Len(ws) - 1)
          /\ \A j \in 1 .. (Len(ws) - 1) : r[j] = IF j < k THEN ws[j] ELSE ws[j + 1]
      BY <2>1, RemovalFacts
    <2> HIDE DEF r
    <2>5. \A i \in DOMAIN r : r[i] # w /\ \E j \in DOMAIN ws : r[i] = ws[j]
      <3> SUFFICES ASSUME NEW i \in DOMAIN r
                   PROVE  r[i] # w /\ \E j \in DOMAIN ws : r[i] = ws[j]
        OBVIOUS
      <3>1. CASE i < k
        <4>1. i \in DOMAIN ws /\ r[i] = ws[i] /\ i # k
          BY <3>1, <2>0, <2>1, <2>4
        <4> QED
          BY <4>1, <2>3
      <3>2. CASE ~(i < k)
        <4>1. i + 1 \in DOMAIN ws /\ r[i] = ws[i + 1] /\ i + 1 # k
          BY <3>2, <2>0, <2>1, <2>4
        <4> QED
          BY <4>1, <2>3
      <3> QED
        BY <3>1, <3>2
    <2>6. \A i, j \in DOMAIN r : i < j => seq[r[i]] < seq[r[j]]
      <3> DEFINE at(i) == IF i < k THEN i ELSE i + 1
      <3>1. \A i \in DOMAIN r : at(i) \in DOMAIN ws /\ r[i] = ws[at(i)]
        BY <2>0, <2>1, <2>4
      <3>2. \A i, j \in DOMAIN r : i < j => at(i) < at(j)
        BY <2>0, <2>1, <2>4
      <3> QED
        BY <3>1, <3>2
    <2>7. ASSUME NEW i \in DOMAIN ws, ws[i] # w
          PROVE  \E j \in DOMAIN r : r[j] = ws[i]
      <3>1. CASE i < k
        <4>1. i \in DOMAIN r /\ r[i] = ws[i]
          BY <3>1, <2>0, <2>1, <2>4
        <4> QED
          BY <4>1
      <3>2. CASE i > k
        <4>1. i - 1 \in DOMAIN r /\ r[i - 1] = ws[i]
          BY <3>2, <2>0, <2>1, <2>4
        <4> QED
          BY <4>1
      <3>3. i # k
        BY <2>1, <2>7
      <3> QED
        BY <3>1, <3>2, <3>3, <2>1
    <2> QED
      BY <2>2, <2>4, <2>5, <2>6, <2>7 DEF r
  <1> QED
    BY <1>1, <1>2

--------------------------------------------------------------------------------
LEMMA InitIInv == Init => IInv
  BY NoneAssumption
     DEF Init, IInv, TypeOK, PCs, OwnersAnchored, HoldersOwn, TableHeld,
         QueuedParked, QueueOrdered, LiveQueued, IdleFresh, Captured,
         TokensMinted, Owns, LiveWaiter

(* A free lease has no entry in the table: the call builds its own.        *)
LEMMA FreeMeansAbsent ==
    ASSUME IInv, NEW p \in Acqs, NEW t \in Tasks, AcquireFree(p, t)
    PROVE  table[t] = None /\ EntryFor(p, t) = p
  BY DEF IInv, TableHeld, AcquireFree, EntryFor

LEMMA AcquireFreeIInv ==
    ASSUME IInv, NEW p \in Acqs, NEW t \in Tasks, AcquireFree(p, t)
    PROVE  IInv'
  <1>1. /\ table[t] = None
        /\ pc[p] = "idle"
        /\ table' = [table EXCEPT ![t] = p]
        /\ holder' = [holder EXCEPT ![p] = p]
        /\ nextToken' = nextToken + 1
        /\ seq' = [seq EXCEPT ![p] = nextToken + 1]
        /\ pc' = [pc EXCEPT ![p] = "holding"]
        /\ task' = [task EXCEPT ![p] = t]
        /\ ent' = [ent EXCEPT ![p] = p]
        /\ UNCHANGED <<waiters, won, ctxEnded>>
    BY FreeMeansAbsent DEF AcquireFree, Mint
  <1>2. TypeOK'
    BY <1>1 DEF IInv, TypeOK, PCs
  <1>3. OwnersAnchored'
    BY <1>1, NoneAssumption DEF IInv, TypeOK, OwnersAnchored, IdleFresh, Owns
  <1>4. HoldersOwn'
    BY <1>1, NoneAssumption DEF IInv, TypeOK, HoldersOwn, IdleFresh, Owns
  <1>5. TableHeld'
    BY <1>1, NoneAssumption DEF IInv, TypeOK, TableHeld, HoldersOwn, IdleFresh, Owns
  <1>6. QueuedParked'
    BY <1>1, NoneAssumption DEF IInv, TypeOK, QueuedParked, IdleFresh
  <1>7. QueueOrdered'
    BY <1>1 DEF IInv, TypeOK, QueuedParked, QueueOrdered
  <1>8. LiveQueued'
    BY <1>1 DEF IInv, TypeOK, LiveQueued, LiveWaiter
  <1>9. IdleFresh'
    BY <1>1 DEF IInv, TypeOK, IdleFresh
  <1>10. Captured' /\ TokensMinted'
    BY <1>1 DEF IInv, TypeOK, Captured, TokensMinted
  <1> QED
    BY <1>2, <1>3, <1>4, <1>5, <1>6, <1>7, <1>8, <1>9, <1>10 DEF IInv

LEMMA AcquireBusyIInv ==
    ASSUME IInv, NEW p \in Acqs, NEW t \in Tasks, AcquireBusy(p, t)
    PROVE  IInv'
  <1>1. TypeOK'
    BY DEF AcquireBusy, IInv, TypeOK, PCs
  <1>2. OwnersAnchored' /\ HoldersOwn' /\ TableHeld'
    BY NoneAssumption
       DEF AcquireBusy, IInv, TypeOK, OwnersAnchored, HoldersOwn, TableHeld, IdleFresh, Owns
  <1>3. QueuedParked'
    BY DEF AcquireBusy, IInv, TypeOK, QueuedParked
  <1>4. QueueOrdered' /\ TokensMinted'
    BY DEF AcquireBusy, IInv, TypeOK, QueueOrdered, TokensMinted
  <1>5. LiveQueued'
    BY DEF AcquireBusy, IInv, TypeOK, LiveQueued, LiveWaiter
  <1>6. IdleFresh' /\ Captured'
    BY DEF AcquireBusy, IInv, TypeOK, IdleFresh, Captured
  <1> QED
    BY <1>1, <1>2, <1>3, <1>4, <1>5, <1>6 DEF IInv

LEMMA AcquireParkIInv ==
    ASSUME IInv, NEW p \in Acqs, NEW t \in Tasks, AcquirePark(p, t)
    PROVE  IInv'
  <1> DEFINE e == table[t]
  <1>1. /\ pc[p] = "idle"
        /\ e \in Acqs /\ holder[e] # None
        /\ waiters' = [waiters EXCEPT ![e] = Append(@, p)]
        /\ nextToken' = nextToken + 1
        /\ seq' = [seq EXCEPT ![p] = nextToken + 1]
        /\ pc' = [pc EXCEPT ![p] = "parked"]
        /\ task' = [task EXCEPT ![p] = t]
        /\ ent' = [ent EXCEPT ![p] = e]
        /\ UNCHANGED <<table, holder, won, ctxEnded>>
    BY DEF AcquirePark, Mint, IInv, TypeOK
  <1>2. waiters[e] \in Seq(Acqs) /\ waiters'[e] = Append(waiters[e], p)
    BY <1>1 DEF IInv, TypeOK
  <1>3. /\ DOMAIN waiters'[e] = DOMAIN waiters[e] \union {Len(waiters[e]) + 1}
        /\ \A i \in DOMAIN waiters[e] : waiters'[e][i] = waiters[e][i] /\ i <= Len(waiters[e])
        /\ waiters'[e][Len(waiters[e]) + 1] = p
        /\ waiters'[e] \in Seq(Acqs)
        /\ Len(waiters[e]) \in Nat
        /\ DOMAIN waiters[e] \subseteq Nat
    BY <1>2
  <1>4. \A x \in Acqs : x # e => waiters'[x] = waiters[x]
    BY <1>1 DEF IInv, TypeOK
  <1>e. table[t] = e
    OBVIOUS
  <1> HIDE DEF e
  <1>5. TypeOK'
    BY <1>1, <1>3, <1>4 DEF IInv, TypeOK, PCs
  <1>6. OwnersAnchored' /\ HoldersOwn' /\ TableHeld'
    BY <1>1, NoneAssumption
       DEF IInv, TypeOK, OwnersAnchored, HoldersOwn, TableHeld, IdleFresh, Owns
  <1>7. QueuedParked'
    <2>1. ASSUME NEW i \in DOMAIN waiters'[e]
          PROVE  LET w == waiters'[e][i] IN
                 /\ pc'[w] = "parked" /\ ~won'[w] /\ ent'[w] = e
                 /\ task'[w] \in Tasks /\ table'[task'[w]] = e
      <3>1. CASE i = Len(waiters[e]) + 1
        BY <1>1, <1>3, <1>e, <3>1 DEF IInv, TypeOK, IdleFresh
      <3>2. CASE i \in DOMAIN waiters[e]
        BY <1>1, <1>3, <3>2 DEF IInv, TypeOK, QueuedParked
      <3> QED
        BY <3>1, <3>2, <1>3
    <2>2. ASSUME NEW x \in Acqs, x # e, NEW i \in DOMAIN waiters'[x]
          PROVE  LET w == waiters'[x][i] IN
                 /\ pc'[w] = "parked" /\ ~won'[w] /\ ent'[w] = x
                 /\ task'[w] \in Tasks /\ table'[task'[w]] = x
      BY <1>1, <1>4, <2>2 DEF IInv, TypeOK, QueuedParked
    <2> QED
      BY <2>1, <2>2 DEF QueuedParked
  <1>8. QueueOrdered'
    <2>1. ASSUME NEW i \in DOMAIN waiters'[e], NEW j \in DOMAIN waiters'[e], i < j
          PROVE  seq'[waiters'[e][i]] < seq'[waiters'[e][j]]
      <3>1. i \in DOMAIN waiters[e]
        BY <2>1, <1>3
      <3>2. waiters[e][i] \in Acqs /\ waiters[e][i] # p
        BY <3>1, <1>1, <1>2 DEF IInv, QueuedParked
      <3>3. CASE j = Len(waiters[e]) + 1
        BY <1>1, <1>3, <3>1, <3>2, <3>3 DEF IInv, TypeOK, TokensMinted
      <3>4. CASE j \in DOMAIN waiters[e]
        <4>1. waiters[e][j] \in Acqs /\ waiters[e][j] # p
          BY <3>4, <1>1, <1>2 DEF IInv, QueuedParked
        <4> QED
          BY <1>1, <1>3, <3>1, <3>2, <3>4, <4>1, <2>1 DEF IInv, TypeOK, QueueOrdered
      <3> QED
        BY <3>3, <3>4, <1>3
    <2>2. ASSUME NEW x \in Acqs, x # e,
                 NEW i \in DOMAIN waiters'[x], NEW j \in DOMAIN waiters'[x], i < j
          PROVE  seq'[waiters'[x][i]] < seq'[waiters'[x][j]]
      <3>1. waiters'[x] = waiters[x]
        BY <1>1, <1>4, <2>2 DEF IInv, TypeOK
      <3>2. /\ waiters[x][i] \in Acqs /\ waiters[x][i] # p
            /\ waiters[x][j] \in Acqs /\ waiters[x][j] # p
        <4>1. i \in DOMAIN waiters[x] /\ j \in DOMAIN waiters[x] /\ waiters[x] \in Seq(Acqs)
          BY <2>2, <3>1 DEF IInv, TypeOK
        <4>2. waiters[x][i] \in Acqs /\ waiters[x][j] \in Acqs
          BY <4>1
        <4>3. pc[waiters[x][i]] = "parked" /\ pc[waiters[x][j]] = "parked"
          BY <4>1 DEF IInv, QueuedParked
        <4> QED
          BY <1>1, <4>2, <4>3
      <3>3. seq[waiters[x][i]] < seq[waiters[x][j]]
        BY <2>2, <3>1 DEF IInv, QueueOrdered
      <3> QED
        BY <1>1, <3>1, <3>2, <3>3 DEF IInv, TypeOK
    <2> QED
      BY <2>1, <2>2 DEF QueueOrdered
  <1>9. LiveQueued'
    <2> SUFFICES ASSUME NEW q \in Acqs, LiveWaiter(q)'
                 PROVE  /\ ent'[q] \in Acqs
                        /\ \E i \in DOMAIN waiters'[ent'[q]] : waiters'[ent'[q]][i] = q
      BY DEF LiveQueued
    <2>1. CASE q = p
      BY <2>1, <1>1, <1>3 DEF IInv, TypeOK
    <2>2. CASE q # p
      <3>1. ent'[q] = ent[q] /\ ent[q] \in Acqs
        BY <2>2, <1>1 DEF IInv, TypeOK, LiveQueued, LiveWaiter
      <3>2. PICK i \in DOMAIN waiters[ent[q]] : waiters[ent[q]][i] = q
        BY <2>2, <1>1 DEF IInv, TypeOK, LiveQueued, LiveWaiter
      <3>3. i \in DOMAIN waiters'[ent[q]] /\ waiters'[ent[q]][i] = q
        BY <3>1, <3>2, <1>3, <1>4
      <3> QED
        BY <3>1, <3>3
    <2> QED
      BY <2>1, <2>2
  <1>10. IdleFresh'
    BY <1>1, <1>4 DEF IInv, TypeOK, IdleFresh
  <1>11. Captured' /\ TokensMinted'
    BY <1>1 DEF IInv, TypeOK, Captured, TokensMinted
  <1> QED
    BY <1>5, <1>6, <1>7, <1>8, <1>9, <1>10, <1>11 DEF IInv

LEMMA EndCtxIInv ==
    ASSUME IInv, NEW p \in Acqs, EndCtx(p)
    PROVE  IInv'
  <1>1. TypeOK'
    BY DEF EndCtx, IInv, TypeOK, PCs
  <1>2. OwnersAnchored' /\ HoldersOwn' /\ TableHeld'
    BY NoneAssumption
       DEF EndCtx, IInv, TypeOK, OwnersAnchored, HoldersOwn, TableHeld, IdleFresh, Owns
  <1>3. QueuedParked'
    BY DEF EndCtx, IInv, TypeOK, QueuedParked
  <1>4. QueueOrdered' /\ TokensMinted'
    BY DEF EndCtx, IInv, TypeOK, QueueOrdered, TokensMinted
  <1>5. LiveQueued'
    BY DEF EndCtx, IInv, TypeOK, LiveQueued, LiveWaiter
  <1>6. IdleFresh' /\ Captured'
    BY DEF EndCtx, IInv, TypeOK, IdleFresh, Captured
  <1> QED
    BY <1>1, <1>2, <1>3, <1>4, <1>5, <1>6 DEF IInv

LEMMA WakeReadyIInv ==
    ASSUME IInv, NEW p \in Acqs, WakeReady(p)
    PROVE  IInv'
  <1>1. TypeOK'
    BY DEF WakeReady, IInv, TypeOK, PCs
  <1>2. OwnersAnchored' /\ HoldersOwn' /\ TableHeld'
    BY NoneAssumption
       DEF WakeReady, IInv, TypeOK, OwnersAnchored, HoldersOwn, TableHeld, IdleFresh, Owns
  <1>3. QueuedParked'
    BY DEF WakeReady, IInv, TypeOK, QueuedParked
  <1>4. QueueOrdered' /\ TokensMinted'
    BY DEF WakeReady, IInv, TypeOK, QueueOrdered, TokensMinted
  <1>5. LiveQueued'
    BY DEF WakeReady, IInv, TypeOK, LiveQueued, LiveWaiter
  <1>6. IdleFresh' /\ Captured'
    BY DEF WakeReady, IInv, TypeOK, IdleFresh, Captured
  <1> QED
    BY <1>1, <1>2, <1>3, <1>4, <1>5, <1>6 DEF IInv

(* A cancelled call that lost the race leaves the queue it may or may not  *)
(* be in; everybody else keeps a place and the order.                      *)
LEMMA WakeCancelledIInv ==
    ASSUME IInv, NEW p \in Acqs, WakeCancelled(p)
    PROVE  IInv'
  <1>1. CASE won[p]
    <2>1. WakeReady(p)
      BY <1>1 DEF WakeCancelled, WakeReady
    <2> QED
      BY <2>1, WakeReadyIInv
  <1>2. CASE ~won[p]
    <2> DEFINE e == ent[p]
               r == WithoutWaiter(waiters[e], p)
    <2>1. /\ pc[p] = "parked" /\ ctxEnded[p] /\ ~won[p]
          /\ e \in Acqs
          /\ pc' = [pc EXCEPT ![p] = "ended"]
          /\ waiters' = [waiters EXCEPT ![e] = r]
          /\ UNCHANGED <<table, holder, nextToken, seq, task, ent, won, ctxEnded>>
      BY <1>2 DEF WakeCancelled, IInv, Captured
    <2>2. /\ r \in Seq(Acqs)
          /\ \A i \in DOMAIN r : r[i] # p /\ \E j \in DOMAIN waiters[e] : r[i] = waiters[e][j]
          /\ \A i, j \in DOMAIN r : i < j => seq[r[i]] < seq[r[j]]
          /\ \A i \in DOMAIN waiters[e] : waiters[e][i] # p =>
                \E j \in DOMAIN r : r[j] = waiters[e][i]
      <3>1. /\ waiters[e] \in Seq(Acqs)
            /\ \A i, j \in DOMAIN waiters[e] : i < j => seq[waiters[e][i]] < seq[waiters[e][j]]
            /\ seq \in [Acqs -> Nat]
        BY <2>1 DEF IInv, TypeOK, QueueOrdered
      <3> HIDE DEF e
      <3> QED
        BY <3>1, WithoutFacts
    <2>3. waiters'[e] = r /\ \A x \in Acqs : x # e => waiters'[x] = waiters[x]
      BY <2>1 DEF IInv, TypeOK
    <2>e. ent[p] = e
      OBVIOUS
    <2> HIDE DEF e, r
    <2>4. TypeOK'
      BY <2>1, <2>2 DEF IInv, TypeOK, PCs
    <2>5. OwnersAnchored' /\ HoldersOwn' /\ TableHeld'
      BY <2>1, NoneAssumption
         DEF IInv, TypeOK, OwnersAnchored, HoldersOwn, TableHeld, Owns
    <2>6. QueuedParked'
      <3>1. ASSUME NEW i \in DOMAIN r
            PROVE  LET w == r[i] IN
                   /\ pc'[w] = "parked" /\ ~won'[w] /\ ent'[w] = e
                   /\ task'[w] \in Tasks /\ table'[task'[w]] = e
        BY <2>1, <2>2 DEF IInv, TypeOK, QueuedParked
      <3>2. ASSUME NEW x \in Acqs, x # e, NEW i \in DOMAIN waiters'[x]
            PROVE  LET w == waiters'[x][i] IN
                   /\ pc'[w] = "parked" /\ ~won'[w] /\ ent'[w] = x
                   /\ task'[w] \in Tasks /\ table'[task'[w]] = x
        BY <2>1, <2>3, <2>e, <3>2 DEF IInv, TypeOK, QueuedParked
      <3> QED
        BY <2>3, <3>1, <3>2 DEF QueuedParked
    <2>7. QueueOrdered' /\ TokensMinted'
      BY <2>1, <2>2, <2>3 DEF IInv, TypeOK, QueueOrdered, TokensMinted
    <2>8. LiveQueued'
      <3> SUFFICES ASSUME NEW q \in Acqs, LiveWaiter(q)'
                   PROVE  /\ ent'[q] \in Acqs
                          /\ \E i \in DOMAIN waiters'[ent'[q]] : waiters'[ent'[q]][i] = q
        BY DEF LiveQueued
      <3>1. q # p /\ LiveWaiter(q) /\ ent'[q] = ent[q] /\ ent[q] \in Acqs
        BY <2>1 DEF IInv, TypeOK, LiveQueued, LiveWaiter
      <3>2. PICK i \in DOMAIN waiters[ent[q]] : waiters[ent[q]][i] = q
        BY <3>1 DEF IInv, LiveQueued
      <3>3. CASE ent[q] = e
        BY <3>1, <3>2, <3>3, <2>2, <2>3
      <3>4. CASE ent[q] # e
        BY <3>1, <3>2, <3>4, <2>3
      <3> QED
        BY <3>3, <3>4
    <2>9. IdleFresh' /\ Captured'
      BY <2>1, <2>3, <2>e DEF IInv, TypeOK, IdleFresh, Captured
    <2> QED
      BY <2>4, <2>5, <2>6, <2>7, <2>8, <2>9 DEF IInv
  <1> QED
    BY <1>1, <1>2

(* The release of a call that no longer owns the lease changes nothing.    *)
LEMMA StaleReleaseIInv ==
    ASSUME IInv, NEW p \in Acqs, ReleaseTaskOp(p), holder[ent[p]] # p
    PROVE  IInv'
  <1>0. ~Owns(p) /\ pc[p] = "released" /\ pc' = pc
    BY DEF ReleaseTaskOp, IInv, OwnersAnchored, Owns, TypeOK
  <1>1. UNCHANGED vars
    BY <1>0 DEF ReleaseTaskOp, vars
  <1> QED
    BY <1>1 DEF vars, IInv, TypeOK, PCs, OwnersAnchored, HoldersOwn, TableHeld,
         QueuedParked, QueueOrdered, LiveQueued, IdleFresh, Captured,
         TokensMinted, Owns, LiveWaiter

(* What the owner of an entry knows when it releases.                      *)
LEMMA OwnerFacts ==
    ASSUME IInv, NEW p \in Acqs, ReleaseTaskOp(p), holder[ent[p]] = p
    PROVE  /\ ent[p] \in Acqs
           /\ task[p] \in Tasks
           /\ pc[p] = "holding"
           /\ table[task[p]] = ent[p]
           /\ \A q \in Acqs : Owns(q) /\ (ent[q] = ent[p] \/ task[q] = task[p]) => q = p
           /\ \A t \in Tasks : table[t] = ent[p] => t = task[p]
           /\ \A e \in Acqs : holder[e] = p => e = ent[p]
  <1>1. ent[p] \in Acqs /\ task[p] \in Tasks
    BY DEF ReleaseTaskOp, IInv, Captured
  <1>2. Owns(p) /\ pc[p] = "holding"
    BY <1>1, NoneAssumption DEF ReleaseTaskOp, IInv, HoldersOwn, Owns
  <1>3. table[task[p]] = ent[p]
    BY <1>2 DEF IInv, OwnersAnchored
  <1>4. ASSUME NEW q \in Acqs, Owns(q), ent[q] = ent[p] \/ task[q] = task[p]
        PROVE  q = p
    BY <1>3, <1>4 DEF IInv, OwnersAnchored
  <1>5. ASSUME NEW t \in Tasks, table[t] = ent[p]
        PROVE  t = task[p]
    BY <1>1, <1>5, NoneAssumption DEF IInv, TableHeld
  <1>6. ASSUME NEW e \in Acqs, holder[e] = p
        PROVE  e = ent[p]
    BY <1>6, NoneAssumption DEF IInv, HoldersOwn
  <1> QED
    BY <1>1, <1>2, <1>3, <1>4, <1>5, <1>6

LEMMA VacateIInv ==
    ASSUME IInv, NEW p \in Acqs, ReleaseTaskOp(p), holder[ent[p]] = p, Vacate(p)
    PROVE  IInv'
  <1> DEFINE e == ent[p]
             t == task[p]
  <1>0. e \in Acqs /\ t \in Tasks /\ pc[p] = "holding" /\ table[t] = e
    BY OwnerFacts
  <1>1. /\ NoneLive(waiters[e])
        /\ pc' = [pc EXCEPT ![p] = "released"]
        /\ holder' = [holder EXCEPT ![e] = None]
        /\ waiters' = [waiters EXCEPT ![e] = << >>]
        /\ table' = [table EXCEPT ![t] = None]
        /\ UNCHANGED <<nextToken, seq, task, ent, won, ctxEnded>>
    BY <1>0 DEF ReleaseTaskOp, Vacate
  <1>2. /\ \A q \in Acqs : Owns(q) /\ (ent[q] = e \/ task[q] = t) => q = p
        /\ \A u \in Tasks : table[u] = e => u = t
        /\ \A x \in Acqs : holder[x] = p => x = e
        /\ holder[e] = p /\ task[p] = t /\ ent[p] = e
    BY OwnerFacts
  <1> HIDE DEF e, t
  <1>3. TypeOK'
    BY <1>0, <1>1 DEF IInv, TypeOK, PCs
  <1>4. OwnersAnchored'
    BY <1>0, <1>1, <1>2 DEF IInv, TypeOK, OwnersAnchored, Owns
  <1>5. HoldersOwn'
    BY <1>0, <1>1, <1>2, NoneAssumption DEF IInv, TypeOK, HoldersOwn, Owns
  <1>6. TableHeld'
    BY <1>0, <1>1, <1>2, NoneAssumption DEF IInv, TypeOK, TableHeld
  <1>7. QueuedParked'
    <2> SUFFICES ASSUME NEW x \in Acqs, NEW i \in DOMAIN waiters'[x]
                 PROVE  LET w == waiters'[x][i] IN
                        /\ pc'[w] = "parked" /\ ~won'[w] /\ ent'[w] = x
                        /\ task'[w] \in Tasks /\ table'[task'[w]] = x
      BY DEF QueuedParked
    <2>1. x # e /\ waiters'[x] = waiters[x]
      BY <1>0, <1>1 DEF IInv, TypeOK
    <2>2. waiters[x][i] \in Acqs /\ waiters[x][i] # p
      BY <2>1, <1>0 DEF IInv, TypeOK, QueuedParked
    <2>3. task[waiters[x][i]] # t
      BY <2>1, <1>0 DEF IInv, QueuedParked
    <2> QED
      BY <1>1, <2>1, <2>2, <2>3 DEF IInv, TypeOK, QueuedParked
  <1>8. QueueOrdered' /\ TokensMinted'
    BY <1>0, <1>1 DEF IInv, TypeOK, QueueOrdered, TokensMinted
  <1>9. LiveQueued'
    <2> SUFFICES ASSUME NEW q \in Acqs, LiveWaiter(q)'
                 PROVE  /\ ent'[q] \in Acqs
                        /\ \E i \in DOMAIN waiters'[ent'[q]] : waiters'[ent'[q]][i] = q
      BY DEF LiveQueued
    <2>1. LiveWaiter(q) /\ ent'[q] = ent[q]
      BY <1>1 DEF IInv, TypeOK, LiveWaiter
    <2>2. ent[q] # e
      BY <1>1, <2>1 DEF IInv, LiveQueued, LiveWaiter, NoneLive
    <2> QED
      BY <1>1, <2>1, <2>2 DEF IInv, TypeOK, LiveQueued
  <1>10. IdleFresh' /\ Captured'
    BY <1>0, <1>1, NoneAssumption DEF IInv, TypeOK, IdleFresh, Captured
  <1> QED
    BY <1>3, <1>4, <1>5, <1>6, <1>7, <1>8, <1>9, <1>10 DEF IInv

LEMMA HandoffIInv ==
    ASSUME IInv, NEW p \in Acqs, ReleaseTaskOp(p), holder[ent[p]] = p, Handoff(p)
    PROVE  IInv'
  <1> DEFINE e == ent[p]
             t == task[p]
             ws == waiters[e]
  <1>0. e \in Acqs /\ t \in Tasks /\ pc[p] = "holding" /\ table[t] = e
    BY OwnerFacts
  <1>1. PICK k \in DOMAIN ws :
        /\ OldestLive(ws, k)
        /\ pc' = [pc EXCEPT ![p] = "released"]
        /\ holder' = [holder EXCEPT ![e] = ws[k]]
        /\ won' = [won EXCEPT ![ws[k]] = TRUE]
        /\ waiters' = [waiters EXCEPT ![e] = SubSeq(ws, k + 1, Len(ws))]
        /\ UNCHANGED <<table, nextToken, seq, task, ent, ctxEnded>>
    BY DEF ReleaseTaskOp, Handoff
  <1> DEFINE w == ws[k]
             r == SubSeq(ws, k + 1, Len(ws))
  <1>2. /\ \A q \in Acqs : Owns(q) /\ (ent[q] = e \/ task[q] = t) => q = p
        /\ \A u \in Tasks : table[u] = e => u = t
        /\ \A x \in Acqs : holder[x] = p => x = e
        /\ holder[e] = p /\ task[p] = t /\ ent[p] = e
    BY OwnerFacts
  <1>3. /\ ws \in Seq(Acqs) /\ Len(ws) \in Nat /\ DOMAIN ws = 1 .. Len(ws)
        /\ ws = waiters[e]
    BY <1>0 DEF IInv, TypeOK
  <1>4. /\ w \in Acqs /\ w # p /\ pc[w] = "parked" /\ ~won[w] /\ ent[w] = e
        /\ task[w] = t
    BY <1>0, <1>1, <1>2, <1>3 DEF IInv, QueuedParked
  <1>5. /\ r \in Seq(Acqs)
        /\ DOMAIN r = 1 .. (Len(ws) - k)
        /\ \A j \in DOMAIN r : k + j \in DOMAIN ws /\ r[j] = ws[k + j]
    BY <1>3, TailFacts
  <1>6. \A i, j \in DOMAIN ws : i < j => seq[ws[i]] < seq[ws[j]]
    BY <1>0, <1>3 DEF IInv, QueueOrdered
  <1>7. \A j \in DOMAIN r : r[j] # w
    <2> SUFFICES ASSUME NEW j \in DOMAIN r
                 PROVE  r[j] # w
      OBVIOUS
    <2>1. k + j \in DOMAIN ws /\ r[j] = ws[k + j] /\ k < k + j
      BY <1>3, <1>5
    <2>2. seq[w] < seq[r[j]] /\ seq[w] \in Nat
      BY <1>4, <1>6, <2>1 DEF IInv, TypeOK
    <2> QED
      BY <2>2
  <1>8. waiters'[e] = r /\ \A x \in Acqs : x # e => waiters'[x] = waiters[x]
    BY <1>0, <1>1 DEF IInv, TypeOK
  <1>w. ws[k] = w
    OBVIOUS
  <1>k. k \in DOMAIN ws /\ \A j \in DOMAIN ws : j < k => ctxEnded[ws[j]]
    BY <1>1 DEF OldestLive
  <1> HIDE DEF e, t, ws, w, r
  <1>9. TypeOK'
    BY <1>0, <1>1, <1>4, <1>5, <1>8, <1>w DEF IInv, TypeOK, PCs
  <1>10. OwnersAnchored'
    BY <1>0, <1>1, <1>2, <1>4, <1>w DEF IInv, TypeOK, OwnersAnchored, Owns
  <1>11. HoldersOwn'
    BY <1>0, <1>1, <1>2, <1>4, <1>w, NoneAssumption DEF IInv, TypeOK, HoldersOwn, Owns
  <1>12. TableHeld'
    BY <1>0, <1>1, <1>2, <1>4, <1>w, NoneAssumption DEF IInv, TypeOK, TableHeld
  <1>13. QueuedParked'
    <2>1. ASSUME NEW i \in DOMAIN r
          PROVE  LET v == r[i] IN
                 /\ pc'[v] = "parked" /\ ~won'[v] /\ ent'[v] = e
                 /\ task'[v] \in Tasks /\ table'[task'[v]] = e
      <3>1. k + i \in DOMAIN waiters[e] /\ r[i] = waiters[e][k + i] /\ r[i] # w
        BY <1>3, <1>5, <1>7
      <3>2. r[i] \in Acqs /\ r[i] # p
        BY <1>0, <1>3, <3>1 DEF IInv, QueuedParked
      <3> QED
        BY <1>0, <1>1, <1>w, <3>1, <3>2 DEF IInv, TypeOK, QueuedParked
    <2>2. ASSUME NEW x \in Acqs, x # e, NEW i \in DOMAIN waiters'[x]
          PROVE  LET v == waiters'[x][i] IN
                 /\ pc'[v] = "parked" /\ ~won'[v] /\ ent'[v] = x
                 /\ task'[v] \in Tasks /\ table'[task'[v]] = x
      <3>1. waiters'[x] = waiters[x] /\ waiters[x][i] \in Acqs
        BY <1>8, <2>2 DEF IInv, TypeOK
      <3>2. waiters[x][i] # w /\ waiters[x][i] # p
        BY <1>0, <1>4, <2>2, <3>1 DEF IInv, QueuedParked
      <3>3. /\ pc'[waiters[x][i]] = pc[waiters[x][i]]
            /\ won'[waiters[x][i]] = won[waiters[x][i]]
        BY <1>0, <1>1, <1>w, <1>4, <3>1, <3>2 DEF IInv, TypeOK
      <3>4. /\ pc[waiters[x][i]] = "parked" /\ ~won[waiters[x][i]]
            /\ ent[waiters[x][i]] = x
            /\ task[waiters[x][i]] \in Tasks /\ table[task[waiters[x][i]]] = x
        BY <3>1, <2>2 DEF IInv, QueuedParked
      <3> QED
        BY <1>1, <3>1, <3>3, <3>4
    <2> QED
      BY <1>8, <2>1, <2>2 DEF QueuedParked
  <1>14. QueueOrdered' /\ TokensMinted'
    <2>1. \A i, j \in DOMAIN r : i < j => seq[r[i]] < seq[r[j]]
      <3> SUFFICES ASSUME NEW i \in DOMAIN r, NEW j \in DOMAIN r, i < j
                   PROVE  seq[r[i]] < seq[r[j]]
        OBVIOUS
      <3>1. /\ k + i \in DOMAIN ws /\ r[i] = ws[k + i]
            /\ k + j \in DOMAIN ws /\ r[j] = ws[k + j]
            /\ k + i < k + j
        BY <1>3, <1>5, <1>k
      <3> QED
        BY <3>1, <1>6
    <2>2. QueueOrdered'
      <3> SUFFICES ASSUME NEW x \in Acqs, NEW i \in DOMAIN waiters'[x], NEW j \in DOMAIN waiters'[x], i < j
                   PROVE  seq'[waiters'[x][i]] < seq'[waiters'[x][j]]
        BY DEF QueueOrdered
      <3>1. seq' = seq
        BY <1>1
      <3>2. CASE x = e
        BY <1>8, <2>1, <3>1, <3>2
      <3>3. CASE x # e
        <4>1. waiters'[x] = waiters[x]
          BY <1>8, <3>3
        <4> QED
          BY <3>1, <4>1 DEF IInv, QueueOrdered
      <3> QED
        BY <3>2, <3>3
    <2>3. TokensMinted'
      BY <1>1 DEF IInv, TokensMinted
    <2> QED
      BY <2>2, <2>3
  <1>15. LiveQueued'
    <2> SUFFICES ASSUME NEW q \in Acqs, LiveWaiter(q)'
                 PROVE  /\ ent'[q] \in Acqs
                        /\ \E i \in DOMAIN waiters'[ent'[q]] : waiters'[ent'[q]][i] = q
      BY DEF LiveQueued
    <2>1. LiveWaiter(q) /\ ent'[q] = ent[q] /\ q # w
      BY <1>1, <1>4, <1>w DEF IInv, TypeOK, LiveWaiter
    <2>2. PICK i \in DOMAIN waiters[ent[q]] : ent[q] \in Acqs /\ waiters[ent[q]][i] = q
      BY <2>1 DEF IInv, LiveQueued
    <2>3. CASE ent[q] # e
      BY <1>8, <2>1, <2>2, <2>3
    <2>4. CASE ent[q] = e
      <3>1. i \in DOMAIN ws /\ ws[i] = q /\ ~ctxEnded[q]
        BY <1>3, <2>1, <2>2, <2>4 DEF LiveWaiter
      <3>2. i > k
        BY <3>1, <1>3, <1>k, <1>w, <2>1
      <3>3. i - k \in DOMAIN r /\ r[i - k] = q
        BY <3>1, <3>2, <1>3, <1>5, <1>k
      <3> QED
        BY <3>3, <2>1, <2>2, <2>4, <1>8
    <2> QED
      BY <2>3, <2>4
  <1>16. IdleFresh' /\ Captured'
    BY <1>0, <1>1, <1>4, <1>8, <1>w, NoneAssumption DEF IInv, TypeOK, IdleFresh, Captured
  <1> QED
    BY <1>9, <1>10, <1>11, <1>12, <1>13, <1>14, <1>15, <1>16 DEF IInv

LEMMA ReleaseIInv ==
    ASSUME IInv, NEW p \in Acqs, ReleaseTaskOp(p)
    PROVE  IInv'
  <1>1. CASE holder[ent[p]] # p
    BY <1>1, StaleReleaseIInv
  <1>2. CASE holder[ent[p]] = p
    <2>1. Handoff(p) \/ Vacate(p)
      BY <1>2 DEF ReleaseTaskOp
    <2> QED
      BY <1>2, <2>1, HandoffIInv, VacateIInv
  <1> QED
    BY <1>1, <1>2

LEMMA StutterIInv == ASSUME IInv, UNCHANGED vars PROVE IInv'
  BY DEF vars, IInv, TypeOK, PCs, OwnersAnchored, HoldersOwn, TableHeld,
         QueuedParked, QueueOrdered, LiveQueued, IdleFresh, Captured,
         TokensMinted, Owns, LiveWaiter

(* Every step of Registry keeps the strengthened invariant.                *)
LEMMA NextIInv == IInv /\ [Next]_vars => IInv'
  <1> SUFFICES ASSUME IInv, [Next]_vars
               PROVE  IInv'
    OBVIOUS
  <1>1. CASE UNCHANGED vars
    BY <1>1, StutterIInv
  <1>2. ASSUME NEW p \in Acqs, NEW t \in Tasks, NEW mode \in Modes,
               AcquireTaskOp(p, t, mode)
        PROVE  IInv'
    BY <1>2, AcquireFreeIInv, AcquireBusyIInv, AcquireParkIInv DEF AcquireTaskOp
  <1>3. ASSUME NEW p \in Acqs, EndCtx(p)
        PROVE  IInv'
    BY <1>3, EndCtxIInv
  <1>4. ASSUME NEW p \in Acqs, WakeReady(p)
        PROVE  IInv'
    BY <1>4, WakeReadyIInv
  <1>5. ASSUME NEW p \in Acqs, WakeCancelled(p)
        PROVE  IInv'
    BY <1>5, WakeCancelledIInv
  <1>6. ASSUME NEW p \in Acqs, ReleaseTaskOp(p)
        PROVE  IInv'
    BY <1>6, ReleaseIInv
  <1> QED
    BY <1>1, <1>2, <1>3, <1>4, <1>5, <1>6 DEF Next

(* IInv holds in every reachable state of the lease table.                 *)
THEOREM Invariant == Spec => []IInv
  BY InitIInv, NextIInv, PTL DEF Spec

(* The lease table, queues and closures keep their types.                  *)
THEOREM TypeCorrect == Spec => []TypeOK
  <1>1. IInv => TypeOK
    BY DEF IInv
  <1> QED
    BY <1>1, Invariant, PTL

(* AcquireTaskOp's promise: operations on one task id exclude each other,  *)
(* for any number of calls, cancellations and repeated releases.           *)
THEOREM Exclusion == Spec => []MutualExclusion
  <1>1. IInv => MutualExclusion
    BY DEF IInv, OwnersAnchored, MutualExclusion
  <1> QED
    BY <1>1, Invariant, PTL

(* A lease in the table is always held by a call that will release it.     *)
THEOREM NeverStranded == Spec => []NoStrandedLease
  <1>1. IInv => NoStrandedLease
    BY DEF IInv, TypeOK, HoldersOwn, TableHeld, NoStrandedLease
  <1> QED
    BY <1>1, Invariant, PTL

(* A live waiter is in the queue a release of its task will walk.          *)
THEOREM NeverLost == Spec => []NoLostWaiter
  <1>1. IInv => NoLostWaiter
    <2> SUFFICES ASSUME IInv, NEW p \in Acqs, LiveWaiter(p)
                 PROVE  /\ table[task[p]] = ent[p]
                        /\ \E i \in DOMAIN waiters[ent[p]] : waiters[ent[p]][i] = p
      BY DEF NoLostWaiter
    <2>1. PICK i \in DOMAIN waiters[ent[p]] : ent[p] \in Acqs /\ waiters[ent[p]][i] = p
      BY DEF IInv, LiveQueued
    <2> QED
      BY <2>1 DEF IInv, QueuedParked
  <1> QED
    BY <1>1, Invariant, PTL

--------------------------------------------------------------------------------
(* Who may become an owner in one step: a call walking in on an absent     *)
(* entry, or the oldest live waiter of a releasing owner.                  *)
LEMMA NewOwner ==
    ASSUME IInv, Next, NEW q \in Acqs, ~Owns(q), Owns(q)'
    PROVE  \/ \E t \in Tasks : AcquireFree(q, t)
           \/ \E p \in Acqs :
                 /\ ReleaseTaskOp(p) /\ holder[ent[p]] = p /\ Handoff(p)
                 /\ \E i \in DOMAIN waiters[ent[p]] :
                       OldestLive(waiters[ent[p]], i) /\ waiters[ent[p]][i] = q
  <1>1. ASSUME NEW p \in Acqs, NEW t \in Tasks, NEW mode \in Modes,
               AcquireTaskOp(p, t, mode)
        PROVE  \E u \in Tasks : AcquireFree(q, u)
    <2>1. CASE AcquireFree(p, t)
      <3>1. p = q
        BY <2>1 DEF AcquireFree, Owns, IInv, TypeOK
      <3> QED
        BY <2>1, <3>1
    <2>2. CASE AcquireBusy(p, t)
      BY <2>2 DEF AcquireBusy, Owns, IInv, TypeOK
    <2>3. CASE AcquirePark(p, t)
      BY <2>3 DEF AcquirePark, Owns, IInv, TypeOK, IdleFresh
    <2> QED
      BY <1>1, <2>1, <2>2, <2>3 DEF AcquireTaskOp
  <1>2. ASSUME NEW p \in Acqs, EndCtx(p) \/ WakeReady(p) \/ WakeCancelled(p)
        PROVE  FALSE
    BY <1>2 DEF EndCtx, WakeReady, WakeCancelled, Owns, IInv, TypeOK
  <1>3. ASSUME NEW p \in Acqs, ReleaseTaskOp(p)
        PROVE  /\ holder[ent[p]] = p /\ Handoff(p)
               /\ \E i \in DOMAIN waiters[ent[p]] :
                     OldestLive(waiters[ent[p]], i) /\ waiters[ent[p]][i] = q
    <2>1. pc' = [pc EXCEPT ![p] = "released"]
      BY <1>3 DEF ReleaseTaskOp
    <2>2. pc'[q] = "parked" /\ pc[q] = "parked" /\ won'[q] /\ ~won[q]
      BY <2>1 DEF Owns, IInv, TypeOK
    <2>3. holder[ent[p]] = p /\ Handoff(p)
      BY <1>3, <2>2 DEF ReleaseTaskOp, Vacate
    <2>4. PICK i \in DOMAIN waiters[ent[p]] :
             /\ OldestLive(waiters[ent[p]], i)
             /\ won' = [won EXCEPT ![waiters[ent[p]][i]] = TRUE]
      BY <2>3 DEF Handoff
    <2>5. waiters[ent[p]][i] = q
      BY <2>2, <2>4 DEF IInv, TypeOK
    <2> QED
      BY <2>3, <2>4, <2>5
  <1> QED
    BY <1>1, <1>2, <1>3 DEF Next

LEMMA StepNoOvertaking ==
    ASSUME IInv, Next, NEW p \in Acqs, NEW q \in Acqs,
           LiveWaiter(p), ~Owns(q), Owns(q)', task'[q] = task[p]
    PROVE  p = q \/ seq'[q] < seq[p]
  <1>0. PICK k \in DOMAIN waiters[ent[p]] : ent[p] \in Acqs /\ waiters[ent[p]][k] = p
    BY DEF IInv, LiveQueued
  <1>p. task[p] \in Tasks /\ table[task[p]] = ent[p]
    BY <1>0 DEF IInv, QueuedParked
  <1>1. ASSUME NEW t \in Tasks, AcquireFree(q, t)
        PROVE  FALSE
    <2>1. table[t] = None /\ task'[q] = t
      BY <1>1, FreeMeansAbsent DEF AcquireFree, IInv, TypeOK
    <2> QED
      BY <2>1, <1>0, <1>p, NoneAssumption
  <1>2. ASSUME NEW o \in Acqs,
               ReleaseTaskOp(o), holder[ent[o]] = o, Handoff(o),
               NEW i \in DOMAIN waiters[ent[o]],
               OldestLive(waiters[ent[o]], i), waiters[ent[o]][i] = q
        PROVE  p = q \/ seq'[q] < seq[p]
    <2>1. ent[o] \in Acqs /\ task'[q] = task[q] /\ seq' = seq
      BY <1>2, OwnerFacts DEF ReleaseTaskOp
    <2>2. table[task[q]] = ent[o]
      BY <1>2, <2>1 DEF IInv, QueuedParked
    <2>3. ent[p] = ent[o]
      BY <2>1, <2>2, <1>p
    <2>4. k >= i /\ k \in Nat /\ i \in Nat
      BY <1>2, <1>0, <2>1, <2>3 DEF OldestLive, LiveWaiter, IInv, TypeOK
    <2>5. CASE k = i
      BY <2>5, <2>3, <1>0, <1>2
    <2>6. CASE i < k
      BY <2>6, <2>3, <2>1, <1>0, <1>2 DEF IInv, QueueOrdered
    <2> QED
      BY <2>4, <2>5, <2>6
  <1> QED
    BY <1>1, <1>2, NewOwner

(* FIFO: no acquisition, by handoff or by walking in, overtakes a live     *)
(* waiter with an older token.                                             *)
THEOREM FIFO == Spec => NoOvertaking
  <1>1. IInv /\ [Next]_vars =>
          [\A p, q \in Acqs :
             /\ LiveWaiter(p)
             /\ ~Owns(q) /\ Owns(q)'
             /\ task'[q] = task[p]
             => p = q \/ seq'[q] < seq[p]]_vars
    BY StepNoOvertaking
  <1> QED
    BY <1>1, Invariant, PTL DEF Spec, NoOvertaking

--------------------------------------------------------------------------------
(* Owners of the abstract lease own it in the registry.                    *)
LEMMA OwnerOwns ==
    ASSUME IInv, NEW t \in Tasks
    PROVE  /\ owner[t] = None <=> table[t] = None
           /\ owner[t] # None =>
                 owner[t] \in Acqs /\ Owns(owner[t]) /\ task[owner[t]] = t
  BY NoneAssumption DEF owner, IInv, TypeOK, TableHeld, HoldersOwn

LEMMA NotOwned ==
    ASSUME IInv, NEW p \in Acqs, ~Owns(p)
    PROVE  p \notin Lock!Owned
  BY OwnerOwns, NoneAssumption DEF Lock!Owned

LEMMA QuietStep ==
    ASSUME IInv, UNCHANGED <<table, holder>>,
           \A q \in Acqs : pc[q] = "released" <=> pc'[q] = "released"
    PROVE  UNCHANGED Lock!vars
  BY DEF Lock!vars, owner, released

LEMMA TakeStep ==
    ASSUME IInv, NEW p \in Acqs, NEW t \in Tasks, AcquireFree(p, t)
    PROVE  Lock!Take(t, p)
  <1>1. /\ table[t] = None /\ pc[p] = "idle"
        /\ table' = [table EXCEPT ![t] = p]
        /\ holder' = [holder EXCEPT ![p] = p]
        /\ pc' = [pc EXCEPT ![p] = "holding"]
    BY FreeMeansAbsent DEF AcquireFree
  <1>2. owner[t] = None /\ p \notin Lock!Owned /\ p \notin released
    <2>1. ~Owns(p)
      BY <1>1 DEF Owns
    <2> QED
      BY <1>1, <2>1, NotOwned, OwnerOwns DEF released
  <1>3. owner' = [owner EXCEPT ![t] = p]
    <2>1. table'[t] = p /\ holder'[p] = p
      BY <1>1 DEF IInv, TypeOK
    <2>2. ASSUME NEW u \in Tasks, u # t
          PROVE  table'[u] = table[u] /\ (table[u] # None => holder'[table[u]] = holder[table[u]])
      BY <1>1, <2>2 DEF IInv, TypeOK, IdleFresh
    <2> QED
      BY <2>1, <2>2, NoneAssumption DEF owner
  <1>4. released' = released
    BY <1>1 DEF released, IInv, TypeOK
  <1> QED
    BY <1>2, <1>3, <1>4 DEF Lock!Take

LEMMA VacateStep ==
    ASSUME IInv, NEW p \in Acqs, ReleaseTaskOp(p), holder[ent[p]] = p, Vacate(p)
    PROVE  Lock!Give(task[p])
  <1>1. /\ ent[p] \in Acqs /\ task[p] \in Tasks /\ table[task[p]] = ent[p]
        /\ \A t \in Tasks : table[t] = ent[p] => t = task[p]
    BY OwnerFacts
  <1>2. /\ pc' = [pc EXCEPT ![p] = "released"]
        /\ holder' = [holder EXCEPT ![ent[p]] = None]
        /\ table' = [table EXCEPT ![task[p]] = None]
    BY <1>1 DEF ReleaseTaskOp, Vacate
  <1>3. owner[task[p]] = p
    BY <1>1, NoneAssumption DEF owner
  <1>4. owner' = [owner EXCEPT ![task[p]] = None]
    BY <1>1, <1>2 DEF owner, IInv, TypeOK
  <1>5. released' = released \union {p}
    BY <1>2 DEF released, IInv, TypeOK
  <1> QED
    BY <1>3, <1>4, <1>5, NoneAssumption DEF Lock!Give

LEMMA HandoffStep ==
    ASSUME IInv, NEW p \in Acqs, ReleaseTaskOp(p), holder[ent[p]] = p, Handoff(p)
    PROVE  \E w \in Acqs : Lock!Pass(task[p], w)
  <1>1. /\ ent[p] \in Acqs /\ task[p] \in Tasks /\ table[task[p]] = ent[p]
        /\ \A t \in Tasks : table[t] = ent[p] => t = task[p]
    BY OwnerFacts
  <1>2. PICK k \in DOMAIN waiters[ent[p]] :
        /\ pc' = [pc EXCEPT ![p] = "released"]
        /\ holder' = [holder EXCEPT ![ent[p]] = waiters[ent[p]][k]]
        /\ table' = table
    BY DEF ReleaseTaskOp, Handoff
  <1> DEFINE w == waiters[ent[p]][k]
  <1>3. w \in Acqs /\ pc[w] = "parked" /\ ~won[w]
    BY <1>1 DEF IInv, TypeOK, QueuedParked
  <1>4. owner[task[p]] = p
    BY <1>1, NoneAssumption DEF owner
  <1>5. w \notin Lock!Owned \union released
    <2>1. ~Owns(w)
      BY <1>3 DEF Owns
    <2> QED
      BY <1>3, <2>1, NotOwned DEF released
  <1>6. owner' = [owner EXCEPT ![task[p]] = w]
    BY <1>1, <1>2, NoneAssumption DEF owner, IInv, TypeOK
  <1>7. released' = released \union {p}
    BY <1>2 DEF released, IInv, TypeOK
  <1>8. Lock!Pass(task[p], w)
    BY <1>4, <1>5, <1>6, <1>7, NoneAssumption DEF Lock!Pass
  <1> QED
    BY <1>3, <1>8

(* The registry's table, queues and closures implement the abstract lease: *)
(* one owner per task, released only by that owner, once.                  *)
THEOREM Refinement == Spec => ImplementsLock
  <1>1. Init => Lock!Init
    BY DEF Init, Lock!Init, owner, released
  <1>2. IInv /\ [Next]_vars => [Lock!Next]_(Lock!vars)
    <2> SUFFICES ASSUME IInv, [Next]_vars
                 PROVE  [Lock!Next]_(Lock!vars)
      OBVIOUS
    <2>1. CASE UNCHANGED vars
      BY <2>1, QuietStep DEF vars
    <2>2. ASSUME NEW p \in Acqs, NEW t \in Tasks, NEW mode \in Modes,
                 AcquireTaskOp(p, t, mode)
          PROVE  [Lock!Next]_(Lock!vars)
      <3>1. CASE AcquireFree(p, t)
        BY <3>1, TakeStep DEF Lock!Next
      <3>2. CASE AcquireBusy(p, t) \/ AcquirePark(p, t)
        <4>1. /\ UNCHANGED <<table, holder>>
              /\ \A q \in Acqs : pc[q] = "released" <=> pc'[q] = "released"
          BY <3>2 DEF AcquireBusy, AcquirePark, IInv, TypeOK
        <4> QED
          BY <4>1, QuietStep
      <3> QED
        BY <2>2, <3>1, <3>2 DEF AcquireTaskOp
    <2>3. ASSUME NEW p \in Acqs, EndCtx(p) \/ WakeReady(p) \/ WakeCancelled(p)
          PROVE  [Lock!Next]_(Lock!vars)
      <3>1. /\ UNCHANGED <<table, holder>>
            /\ \A q \in Acqs : pc[q] = "released" <=> pc'[q] = "released"
        BY <2>3 DEF EndCtx, WakeReady, WakeCancelled, IInv, TypeOK
      <3> QED
        BY <3>1, QuietStep
    <2>4. ASSUME NEW p \in Acqs, ReleaseTaskOp(p)
          PROVE  [Lock!Next]_(Lock!vars)
      <3>1. CASE holder[ent[p]] # p
        <4>1. ~Owns(p) /\ pc[p] = "released" /\ pc' = pc /\ UNCHANGED <<table, holder>>
          BY <2>4, <3>1 DEF ReleaseTaskOp, IInv, OwnersAnchored, Owns, TypeOK
        <4> QED
          BY <4>1, QuietStep
      <3>2. CASE holder[ent[p]] = p /\ Handoff(p)
        BY <2>4, <3>2, HandoffStep, OwnerFacts DEF Lock!Next
      <3>3. CASE holder[ent[p]] = p /\ Vacate(p)
        BY <2>4, <3>3, VacateStep, OwnerFacts DEF Lock!Next
      <3> QED
        BY <2>4, <3>1, <3>2, <3>3 DEF ReleaseTaskOp
    <2> QED
      BY <2>1, <2>2, <2>3, <2>4 DEF Next
  <1> QED
    BY <1>1, <1>2, Invariant, PTL DEF Spec, ImplementsLock, Lock!Spec
================================================================================
