------------------------------ MODULE LiveUpdates ------------------------------
(***************************************************************************)
(* Live updates: the 1 Hz diff loop, the rid ring and the hub of           *)
(* internal/sync, the two endpoints of internal/api/sse.go, and two kinds  *)
(* of client: "web", the transport of web/src/api/events.ts with the       *)
(* reducer of web/src/store/useTasks.ts, and "native", an EventSource that *)
(* resumes with Last-Event-ID and applies every payload.                   *)
(*                                                                         *)
(* A snapshot maps the ids of the rows to their fields; a patch maps some  *)
(* of the fields.  The hub's lock makes Publish, flush and Subscribe one   *)
(* step each; the poll endpoint reads the counter and then the snapshot.   *)
(***************************************************************************)
EXTENDS Naturals, FiniteSets, Sequences, SequencesExt, TLC

CONSTANTS
    TaskIds,
    Clients,
    RingDepth,         \* 300 in the code
    subscriberBuffer,  \* 8 in the code
    MaxEdits,          \* bound: changes of the tasks table
    MaxHubMishaps         \* bound: lost connections and restarts of the process

ASSUME LiveAssumption ==
    /\ RingDepth \in Nat \ {0}
    /\ subscriberBuffer \in Nat \ {0}
    /\ MaxEdits \in Nat /\ MaxHubMishaps \in Nat

VARIABLES
    rows,      \* the tasks table
    tick,      \* the loop between its read and its publish, and what it read
    prev,      \* the snapshot of the last publish
    latest,    \* the copy Subscribe seeds from
    ring,      \* the stored deltas, by rid % RingDepth, and their number
    rid,       \* the last rid handed out
    pending,   \* coalesced since the last send
    window,    \* lastSend is less than publishInterval ago; the timer is armed
    subs,      \* the channel of each client
    client,    \* what each client holds
    poll,      \* the request of a web client to /sync
    hubLeft       \* what the bounds still allow

hubVars == <<rows, tick, prev, latest, ring, rid, pending, window, subs, client, poll, hubLeft>>

Fields == {"state", "name"}
Row == [Fields -> {0, 1}]
Snapshots == UNION {[S -> Row] : S \in SUBSET TaskIds}
Empty == <<>>

newDelta == [rid |-> 0, full |-> FALSE, tasks |-> Empty, removed |-> {}, stats |-> 0]

(* The number of active rows stands for the stats block.                   *)
Aggregate(s) == Cardinality({id \in DOMAIN s : s[id].state = 1})

--------------------------------------------------------------------------------
(* The algebra of deltas.                                                  *)

Diff(before, next) ==
    [tasks |-> [id \in {i \in DOMAIN next : i \notin DOMAIN before \/ before[i] # next[i]} |->
                  IF id \notin DOMAIN before THEN next[id]
                  ELSE [f \in {g \in Fields : before[id][g] # next[id][g]} |-> next[id][f]]],
     removed |-> DOMAIN before \ DOMAIN next]

(* Mutant: the newer patch replaces the older one.                         *)
mergePatchReplaces(previous, next) == next
mergePatch(previous, next) == next @@ previous

Without(f, S) == [x \in DOMAIN f \ S |-> f[x]]
MergeAll(f, g) == [x \in DOMAIN f \union DOMAIN g |->
                     IF x \notin DOMAIN f THEN g[x]
                     ELSE IF x \notin DOMAIN g THEN f[x] ELSE mergePatch(f[x], g[x])]

coalesceInto(dst, next) ==
    LET base == IF next.full THEN newDelta ELSE dst IN
    [dst EXCEPT !.tasks = Without(MergeAll(base.tasks, next.tasks), next.removed),
                !.removed = (base.removed \ DOMAIN next.tasks) \union next.removed,
                !.full = base.full \/ next.full, !.stats = next.stats]

finalizeRemovals(d) == [d EXCEPT !.tasks = Without(@, d.removed)]

(* The ring.                                                               *)
Store(r, d) == [buf |-> [r.buf EXCEPT ![d.rid % RingDepth] = d],
                count |-> IF r.count < RingDepth THEN r.count + 1 ELSE r.count]
oldest == rid - ring.count + 1

Hit(r) == ring.count > 0 /\ r >= oldest /\ r <= rid
Since(r) ==
    LET tail == [k \in 1 .. rid - r |-> ring.buf[(r + k) % RingDepth]]
        d == finalizeRemovals(FoldLeft(coalesceInto, newDelta, tail))
    IN  [d EXCEPT !.rid = rid, !.stats = ring.buf[rid % RingDepth].stats]

(* The full side: every row of the last snapshot.                          *)
seedDelta(cur) == [rid |-> cur, full |-> TRUE, tasks |-> latest, removed |-> {},
                   stats |-> Aggregate(latest)]
Snapshot(r) == IF Hit(r) THEN Since(r) ELSE seedDelta(rid)

--------------------------------------------------------------------------------
NoSub == [open |-> FALSE, queue |-> <<>>]
IdlePoll == [pc |-> "idle", req |-> 0, msg |-> newDelta]
(* based: this connection has applied a message; recover: needsRecovery;   *)
(* crossed: a native client that had connected before a restart, or a web  *)
(* client that applied an answer of a hub which had published nothing.     *)
NewClient(k) ==
             [kind |-> k, mode |-> "off", store |-> Empty, stats |-> 0, rid |-> 0,
              based |-> FALSE, recover |-> FALSE, crossed |-> FALSE]

(* A process that has published its first snapshot, and no client yet.     *)
HubInit ==
    /\ rows = [id \in TaskIds |-> [f \in Fields |-> 0]]
    /\ tick = [pc |-> "idle", next |-> Empty]
    /\ prev = rows
    /\ latest = rows
    /\ rid = 1
    /\ ring = [buf |-> [i \in 0 .. RingDepth - 1 |->
                          IF i = 1 % RingDepth
                          THEN [newDelta EXCEPT !.rid = 1, !.tasks = rows, !.stats = Aggregate(rows)]
                          ELSE newDelta],
               count |-> 1]
    /\ pending = newDelta
    /\ window = [recent |-> FALSE, timer |-> FALSE]
    /\ subs = [c \in Clients |-> NoSub]
    /\ \E k \in [Clients -> {"web", "native"}] : client = [c \in Clients |-> NewClient(k[c])]
    /\ poll = [c \in Clients |-> IdlePoll]
    /\ hubLeft = [edits |-> MaxEdits, mishaps |-> MaxHubMishaps]

(* Any writer of the tasks table.                                          *)
EditRow ==
    /\ hubLeft.edits > 0
    /\ hubLeft' = [hubLeft EXCEPT !.edits = @ - 1]
    /\ \E id \in TaskIds :
         \/ id \in DOMAIN rows /\ rows' = Without(rows, {id})
         \/ \E v \in Row : rows' = (id :> v) @@ rows /\ rows' # rows
    /\ UNCHANGED <<tick, prev, latest, ring, rid, pending, window, subs, client, poll>>

(* deliverLocked: a full buffer closes and removes the subscriber; what it *)
(* holds can still be read.                                                *)
Open(c) == subs[c].open
deliverLocked(d) ==
    /\ pending' = newDelta
    /\ IF \A c \in Clients : ~Open(c)
       THEN UNCHANGED <<subs, window>>
       ELSE /\ window' = [recent |-> TRUE, timer |-> FALSE]
            /\ subs' = [c \in Clients |->
                 IF ~Open(c) THEN subs[c]
                 ELSE IF Len(subs[c].queue) = subscriberBuffer THEN [subs[c] EXCEPT !.open = FALSE]
                 ELSE [subs[c] EXCEPT !.queue = Append(@, finalizeRemovals(d))]]

(* Publish and armLocked.                                                  *)
Publish(d) ==
    LET numbered == [d EXCEPT !.rid = rid + 1]
        merged == [coalesceInto(pending, numbered) EXCEPT !.rid = rid + 1]
    IN  /\ rid' = rid + 1
        /\ ring' = Store(ring, numbered)
        /\ IF ~window.timer /\ ~window.recent THEN deliverLocked(merged)
           ELSE /\ pending' = merged
                /\ window' = [window EXCEPT !.timer = TRUE]
                /\ UNCHANGED subs

(* A tick of the loop: the snapshot, which also refreshes latest, and the  *)
(* diff against the previous one.  A snapshot that fails changes nothing.  *)
LoopSnapshot ==
    /\ tick.pc = "idle"
    /\ rows # prev
    /\ tick' = [pc |-> "diff", next |-> rows]
    /\ latest' = rows
    /\ UNCHANGED <<rows, prev, ring, rid, pending, window, subs, client, poll, hubLeft>>

LoopPublish ==
    /\ tick.pc = "diff"
    /\ LET d == Diff(prev, tick.next) IN
         Publish([newDelta EXCEPT !.tasks = d.tasks, !.removed = d.removed,
                                  !.stats = Aggregate(tick.next)])
    /\ prev' = tick.next
    /\ tick' = [pc |-> "idle", next |-> Empty]
    /\ UNCHANGED <<rows, latest, client, poll, hubLeft>>

WindowElapses ==
    /\ window.recent
    /\ window' = [window EXCEPT !.recent = FALSE]
    /\ UNCHANGED <<rows, tick, prev, latest, ring, rid, pending, subs, client, poll, hubLeft>>

(* The timer fires once; a hub without subscribers only drops pending.     *)
hubFlush ==
    /\ window.timer
    /\ ~window.recent
    /\ IF \A c \in Clients : ~Open(c)
       THEN pending' = newDelta /\ window' = [window EXCEPT !.timer = FALSE] /\ UNCHANGED subs
       ELSE deliverLocked(pending)
    /\ UNCHANGED <<rows, tick, prev, latest, ring, rid, client, poll, hubLeft>>

--------------------------------------------------------------------------------
(* The clients.                                                            *)

(* applySync: a full update replaces the store, another merges into it.    *)
Apply(cl, d) ==
    [cl EXCEPT !.store = IF d.full THEN d.tasks ELSE Without(MergeAll(@, d.tasks), d.removed),
               !.stats = d.stats, !.rid = d.rid]

(* deliver: payloads order by rid within a connection, but for the first   *)
(* full one, and for a full answer at or below the rid it was asked about. *)
(* req is the rid of the request; a message of the stream has none.        *)
deliver(cl, d, asked, req) ==
    LET rebooted == d.full /\ asked /\ d.rid <= req IN
    IF d.rid <= cl.rid /\ ~rebooted /\ (cl.based \/ ~d.full) THEN cl
    ELSE [Apply(cl, d) EXCEPT !.based = TRUE]

(* connect opens a new EventSource, which sends no Last-Event-ID; it       *)
(* retires the request in flight.  The native client sends its last rid.   *)
Web(c) == client[c].kind = "web"
LastEventID(c) == IF Web(c) THEN 0 ELSE client[c].rid

Subscribe(c) ==
    /\ client[c].mode = "off"
    /\ subs' = [subs EXCEPT ![c] = [open |-> TRUE, queue |-> <<Snapshot(LastEventID(c))>>]]
    /\ client' = [client EXCEPT ![c].mode = "on", ![c].based = FALSE]
    /\ poll' = [poll EXCEPT ![c] = IdlePoll]
    /\ UNCHANGED <<rows, tick, prev, latest, ring, rid, pending, window, hubLeft>>

(* The read loop forwards one delta.  alive: the first message after an    *)
(* outage has the web client fetch everything (refetchAll).                *)
Events(c) ==
    /\ client[c].mode = "on"
    /\ subs[c].queue # <<>>
    /\ LET d == Head(subs[c].queue) IN
         IF Web(c)
         THEN /\ client' = [client EXCEPT ![c] = [deliver(@, d, FALSE, 0) EXCEPT !.recover = FALSE]]
              /\ poll' = IF client[c].recover /\ poll[c].pc = "idle"
                         THEN [poll EXCEPT ![c].pc = "asked"] ELSE poll
         ELSE client' = [client EXCEPT ![c] = [Apply(@, d) EXCEPT !.based = TRUE]] /\ poll' = poll
    /\ subs' = [subs EXCEPT ![c].queue = Tail(@)]
    /\ UNCHANGED <<rows, tick, prev, latest, ring, rid, pending, window, hubLeft>>

(* A closed channel ends the loop once it is drained; the network may cut  *)
(* the connection before that.  The web client then probes /sync with its  *)
(* last rid.                                                               *)
(* Mutant: the loop does not notice that its channel was closed.           *)
StreamEndsCut(c) ==
    /\ client[c].mode = "on"
    /\ hubLeft.mishaps > 0
    /\ hubLeft' = [hubLeft EXCEPT !.mishaps = @ - 1]
    /\ subs' = [subs EXCEPT ![c] = NoSub]
    /\ client' = [client EXCEPT ![c].mode = "off", ![c].recover = TRUE]
    /\ poll' = IF Web(c) /\ poll[c].pc = "idle"
               THEN [poll EXCEPT ![c].pc = "asked", ![c].req = client[c].rid] ELSE poll
    /\ UNCHANGED <<rows, tick, prev, latest, ring, rid, pending, window>>
StreamEnds(c) ==
    /\ client[c].mode = "on"
    /\ \/ ~Open(c) /\ subs[c].queue = <<>> /\ hubLeft' = hubLeft
       \/ hubLeft.mishaps > 0 /\ hubLeft' = [hubLeft EXCEPT !.mishaps = @ - 1]
    /\ subs' = [subs EXCEPT ![c] = NoSub]
    /\ client' = [client EXCEPT ![c].mode = "off", ![c].recover = TRUE]
    /\ poll' = IF Web(c) /\ poll[c].pc = "idle"
               THEN [poll EXCEPT ![c].pc = "asked", ![c].req = client[c].rid] ELSE poll
    /\ UNCHANGED <<rows, tick, prev, latest, ring, rid, pending, window>>

(* GET /sync: a ring hit is one step; a miss reads the counter first and   *)
(* the snapshot after.                                                     *)
Sync(c) ==
    /\ poll[c].pc = "asked"
    /\ poll' = IF Hit(poll[c].req)
               THEN [poll EXCEPT ![c].pc = "answer", ![c].msg = Since(poll[c].req)]
               ELSE [poll EXCEPT ![c].pc = "full", ![c].msg.rid = rid]
    /\ UNCHANGED <<rows, tick, prev, latest, ring, rid, pending, window, subs, client, hubLeft>>

SyncFull(c) ==
    /\ poll[c].pc = "full"
    /\ poll' = [poll EXCEPT ![c].pc = "answer", ![c].msg = seedDelta(poll[c].msg.rid)]
    /\ UNCHANGED <<rows, tick, prev, latest, ring, rid, pending, window, subs, client, hubLeft>>

(* The answer arrives, or the request fails.                               *)
PollAnswer(c) ==
    /\ poll[c].pc = "answer"
    /\ \/ /\ client' = [client EXCEPT ![c] = [deliver(@, poll[c].msg, TRUE, poll[c].req)
                                                EXCEPT !.crossed = @ \/ poll[c].msg.rid = 0]]
          /\ hubLeft' = hubLeft
       \/ hubLeft.mishaps > 0 /\ hubLeft' = [hubLeft EXCEPT !.mishaps = @ - 1] /\ client' = client
    /\ poll' = [poll EXCEPT ![c] = IdlePoll]
    /\ UNCHANGED <<rows, tick, prev, latest, ring, rid, pending, window, subs>>

(* The process restarts: the hub is new, its counter 0; streams break.     *)
HubRestart ==
    /\ hubLeft.mishaps > 0
    /\ hubLeft' = [hubLeft EXCEPT !.mishaps = @ - 1]
    /\ tick' = [pc |-> "idle", next |-> Empty]
    /\ prev' = Empty /\ latest' = Empty /\ rid' = 0
    /\ ring' = [buf |-> [i \in 0 .. RingDepth - 1 |-> newDelta], count |-> 0]
    /\ pending' = newDelta
    /\ window' = [recent |-> FALSE, timer |-> FALSE]
    /\ subs' = [c \in Clients |-> NoSub]
    /\ client' = [c \in Clients |->
         [client[c] EXCEPT !.mode = "off", !.recover = @ \/ client[c].mode = "on",
                           !.crossed = @ \/ (~Web(c) /\ (client[c].mode = "on" \/ client[c].recover))]]
    /\ poll' = [c \in Clients |-> IdlePoll]
    /\ UNCHANGED rows

HubStep == LoopSnapshot \/ LoopPublish \/ WindowElapses \/ hubFlush
ClientStep(c) == \/ Subscribe(c) \/ Events(c) \/ StreamEnds(c)
                 \/ Sync(c) \/ SyncFull(c) \/ PollAnswer(c)

HubNext == \/ HubStep
           \/ \E c \in Clients : ClientStep(c)
           \/ EditRow \/ HubRestart

(* The loop, the timer and the clients go on; edits, cuts and restarts are *)
(* bounded and never obliged.                                              *)
HubFairness ==
    /\ WF_hubVars(LoopSnapshot) /\ WF_hubVars(LoopPublish)
    /\ WF_hubVars(WindowElapses) /\ WF_hubVars(hubFlush)
    /\ \A c \in Clients : WF_hubVars(Subscribe(c)) /\ WF_hubVars(Events(c))
                          /\ WF_hubVars(StreamEnds(c) /\ hubLeft' = hubLeft)

HubSpec == HubInit /\ [][HubNext]_hubVars /\ HubFairness

--------------------------------------------------------------------------------
(* Snapshots are task rows; the ring and the subscribers' buffers never    *)
(* hold more than their capacity.                                          *)
HubTypeOK ==
    /\ rows \in Snapshots /\ prev \in Snapshots /\ latest \in Snapshots
    /\ rid \in Nat
    /\ ring.count \in 0 .. RingDepth
    /\ \A c \in Clients : Len(subs[c].queue) <= subscriberBuffer
    /\ \A c \in Clients : DOMAIN client[c].store \subseteq TaskIds

(* Every stored and every waiting payload is self-consistent: no id is     *)
(* both patched and removed, whatever was coalesced, so the order in which *)
(* a client applies the two does not matter (coalesceInto).                *)
Consistent(d) == DOMAIN d.tasks \intersect d.removed = {}
DeltasConsistent ==
    /\ Consistent(pending)
    /\ \A i \in DOMAIN ring.buf : Consistent(ring.buf[i])
    /\ \A c \in Clients : \A i \in 1 .. Len(subs[c].queue) : Consistent(subs[c].queue[i])

(* A connected client that has read everything sent to it, while no window *)
(* is open and no tick is under way, holds exactly the published snapshot: *)
(* through coalescing, evictions, reconnects from the ring or from a seed, *)
(* and the answer of a slow poll that arrives among the stream's messages. *)
(* Two cases are left out (crossed): the counter of a new process may pass *)
(* the rid a native client resumes from, and refetchAll answered at rid 0  *)
(* counts as the answer of a restarted process whatever arrived since.     *)
Quiet(c) == /\ client[c].mode = "on"
            /\ Open(c)
            /\ subs[c].queue = <<>>
            /\ ~window.timer
            /\ tick.pc = "idle"
            /\ ~client[c].crossed
ClientsConverge ==
    \A c \in Clients : Quiet(c) => client[c].store = prev /\ client[c].stats = Aggregate(prev)

(* Once the table stops changing every client comes to hold its rows.      *)
ClientsCatchUp == []<>(\A c \in Clients : client[c].crossed \/ client[c].store = rows)

(* The hub's safety: payloads that contradict themselves are neither       *)
(* stored nor waiting, and a client that has read everything sent to it    *)
(* holds the published snapshot (Hub, ring, the clients' merges).          *)
HubSafe == HubTypeOK /\ DeltasConsistent /\ ClientsConverge
================================================================================
