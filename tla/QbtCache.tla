-------------------------------- MODULE QbtCache --------------------------------
(***************************************************************************)
(* The qBittorrent adapter's maindata cache (internal/engine/qbittorrent/  *)
(* sync.go): one poll goroutine merges full and partial sync/maindata      *)
(* replies into a cache of the torrents dl-tool owns.  List and Get answer *)
(* from the cache alone.  The ownership source (the store) and the daemon  *)
(* change while a request is in flight, and the cache mutex is released    *)
(* around the request, around both reads of the source and around the      *)
(* write-back of resolved infohashes.                                      *)
(*                                                                         *)
(* A torrent object has two fields, its state and its resolved identity.   *)
(* The ownership epoch is only ever compared with a value captured before: *)
(* moved says that it changed since the capture.                           *)
(***************************************************************************)
EXTENDS Naturals, FiniteSets

CONSTANTS
    QbtHashes,
    Duplicates,      \* hashes whose identity collides with another task's
    MaxFlushAttempts,     \* infohashFlushMaxAttempts (5 in the code)
    MaxChanges,      \* bound: changes of the daemon and of the store
    MaxQbtFailures      \* bound: failed polls, store writes and pause calls

ASSUME QbtAssumption ==
    /\ Duplicates \subseteq QbtHashes
    /\ MaxFlushAttempts \in Nat \ {0} /\ MaxChanges \in Nat /\ MaxQbtFailures \in Nat

VARIABLES
    daemon,      \* the torrents the daemon holds
    answered,    \* the snapshot its last reply was cut from
    store,       \* the hashes tasks own
    cache,       \* fields, rejected, pendingFull, owned, forceFull
    moved,       \* the epoch moved since the poll captured it
    track,       \* infohashPending, Done and Dropped, per hash
    syncPoll,        \* the poll goroutine
    halted,      \* duplicates whose stop the daemon accepted
    projected,   \* cached states written before the daemon's word
    qbtLeft, fails

qbtVars == <<daemon, answered, store, cache, moved, track, syncPoll, halted, projected, qbtLeft, fails>>

TorrentFields == [state : {"run", "stop"}, id : {0, 1}]
NoTorrents == <<>>
DropHashes(f, S) == [h \in DOMAIN f \ S |-> f[h]]
NoTrack == [st |-> "none", tries |-> 0]
IdleSync == [pc |-> "idle", set |-> {}, full |-> FALSE, reply |-> NoTorrents, gone |-> {}, batch |-> {}]

QbtInit ==
    /\ daemon = NoTorrents /\ answered = NoTorrents
    /\ store \in SUBSET QbtHashes
    /\ cache = [fields |-> NoTorrents, rejected |-> {}, pending |-> {}, owned |-> {}, forceFull |-> TRUE]
    /\ moved = FALSE
    /\ track = [h \in QbtHashes |-> NoTrack]
    /\ syncPoll = IdleSync
    /\ halted = {} /\ projected = {}
    /\ qbtLeft = MaxChanges /\ fails = MaxQbtFailures

--------------------------------------------------------------------------------
(* The daemon and the store.                                               *)

Edited == qbtLeft > 0 /\ qbtLeft' = qbtLeft - 1

(* A torrent is added, by dl-tool's Add or by someone else; stopped or     *)
(* started; its metadata resolves; it is removed.                          *)
DaemonChanges ==
    /\ Edited
    /\ \E h \in QbtHashes :
         \/ /\ h \notin DOMAIN daemon
            /\ \E i \in {0, 1} : daemon' = [g \in DOMAIN daemon \union {h} |->
                                  IF g = h THEN [state |-> "run", id |-> i] ELSE daemon[g]]
         \/ /\ h \in DOMAIN daemon
            /\ \E f \in TorrentFields :
                 /\ f # daemon[h] /\ f.id >= daemon[h].id
                 /\ daemon' = [daemon EXCEPT ![h] = f]
         \/ h \in DOMAIN daemon /\ daemon' = DropHashes(daemon, {h})
    /\ UNCHANGED <<answered, store, cache, moved, track, syncPoll, halted, projected, fails>>

StoreChanges ==
    /\ Edited
    /\ \E h \in QbtHashes : store' = IF h \in store THEN store \ {h} ELSE store \union {h}
    /\ UNCHANGED <<daemon, answered, cache, moved, track, syncPoll, halted, projected, fails>>

(* Only the keys that changed since the last reply, the whole object of a  *)
(* new torrent, and the hashes that are gone.                              *)
ChangedKeys(old, new) == [k \in {j \in DOMAIN new : old[j] # new[j]} |-> new[k]]
Delta == [h \in {g \in DOMAIN daemon : g \notin DOMAIN answered \/ daemon[g] # answered[g]} |->
           IF h \in DOMAIN answered THEN ChangedKeys(answered[h], daemon[h]) ELSE daemon[h]]

--------------------------------------------------------------------------------
(* The cache.                                                              *)

(* A visible or pending hash that is no longer owned keeps only its name;  *)
(* a rejected one that is owned now waits for a complete object.           *)
(* ownershipScan: the reset, and only that, raises the force-full flag.    *)
Became(c) == {h \in c.rejected : h \in c.owned}
ownershipScan(c) ==
    LET lost == {h \in DOMAIN c.fields \union c.pending : h \notin c.owned}
    IN  [c EXCEPT !.fields = DropHashes(@, lost), !.pending = (@ \ lost) \union Became(c),
                  !.rejected = (@ \ Became(c)) \union lost,
                  !.forceFull = @ \/ Became(c) # {}]

(* mergeFull: everything from the reply, flag down.                        *)
mergeFull(c, t) ==
    [c EXCEPT !.fields = [h \in DOMAIN t \intersect c.owned |-> t[h]],
              !.rejected = DOMAIN t \ c.owned, !.pending = {}, !.forceFull = FALSE]

(* mergePartial: reclassify the reported hashes; while an owned hash still *)
(* waits for its complete object nothing of the reply is published.        *)
reclassify(c, t) ==
    LET foreign == DOMAIN t \ c.owned
        became == DOMAIN t \intersect c.owned \intersect c.rejected
    IN  [c EXCEPT !.fields = DropHashes(@, foreign), !.pending = (@ \ foreign) \union became,
                  !.rejected = (@ \ became) \union foreign,
                  !.forceFull = @ \/ became # {}]
Overwrite(partial, stored) == [name \in DOMAIN partial \union DOMAIN stored |->
                                 IF name \in DOMAIN partial THEN partial[name] ELSE stored[name]]
Publishable(c) == c.pending \intersect c.owned = {}
publish(c, t, gone) ==
    LET mine == DOMAIN t \intersect c.owned
        merged == [h \in DOMAIN c.fields \union mine |->
                     IF h \notin mine THEN c.fields[h]
                     ELSE IF h \in DOMAIN c.fields THEN Overwrite(t[h], c.fields[h]) ELSE t[h]]
    IN  [c EXCEPT !.fields = DropHashes(merged, gone), !.rejected = @ \ gone, !.pending = @ \ gone]

(* noteInfohash and takeInfohashFlushes: a resolved identity that is       *)
(* neither landed, dropped nor pending becomes pending; the bookkeeping of *)
(* invisible hashes is pruned.                                             *)
Resolved(c, h) == h \in DOMAIN c.fields /\ "id" \in DOMAIN c.fields[h] /\ c.fields[h].id = 1
noteInfohash(c) == [h \in QbtHashes |->
    IF h \notin DOMAIN c.fields THEN NoTrack
    ELSE IF Resolved(c, h) /\ track[h].st = "none" THEN [st |-> "pending", tries |-> 0]
    ELSE track[h]]

--------------------------------------------------------------------------------
(* pollOnce.                                                               *)

(* fetchSourceSnapshot: the epoch is captured, then the source is read.    *)
PrepassFetch ==
    /\ syncPoll.pc = "idle"
    /\ syncPoll' = [IdleSync EXCEPT !.pc = "prepass", !.set = store]
    /\ moved' = FALSE
    /\ UNCHANGED <<daemon, answered, store, cache, track, halted, projected, qbtLeft, fails>>

ownershipPrepass ==
    /\ syncPoll.pc = "prepass"
    /\ IF moved THEN syncPoll' = IdleSync /\ cache' = cache
       ELSE /\ cache' = ownershipScan([cache EXCEPT !.owned = syncPoll.set])
            /\ syncPoll' = [syncPoll EXCEPT !.pc = "plan"]
    /\ UNCHANGED <<daemon, answered, store, moved, track, halted, projected, qbtLeft, fails>>

(* requestPlan: rid 0 while the flag is up; the epoch is captured again.   *)
requestPlan ==
    /\ syncPoll.pc = "plan"
    /\ syncPoll' = [syncPoll EXCEPT !.pc = "request", !.full = cache.forceFull]
    /\ moved' = FALSE
    /\ UNCHANGED <<daemon, answered, store, cache, track, halted, projected, qbtLeft, fails>>

(* The daemon answers rid 0 with everything; another rid with the          *)
(* difference to its last reply or, as it pleases, with everything.        *)
Answer(full) ==
    /\ syncPoll' = [syncPoll EXCEPT !.pc = "reply", !.full = full,
                  !.reply = IF full THEN daemon ELSE Delta,
                  !.gone = IF full THEN {} ELSE DOMAIN answered \ DOMAIN daemon]
    /\ answered' = daemon
PollAnswered ==
    /\ syncPoll.pc = "request"
    /\ Answer(TRUE) \/ (~syncPoll.full /\ Answer(FALSE))
    /\ UNCHANGED <<daemon, store, cache, moved, track, halted, projected, qbtLeft, fails>>

(* Timeout, transport failure, refused session or undecodable body, on the *)
(* way out or after the daemon cut its reply: forceFullFlag.               *)
(* Mutant: the flag stays as it was.                                       *)
forceFullFlagOff(c) == c
forceFullFlag(c) == [c EXCEPT !.forceFull = TRUE]
PollFails ==
    /\ syncPoll.pc = "request" /\ fails > 0
    /\ fails' = fails - 1
    /\ answered' \in {answered, daemon}
    /\ cache' = forceFullFlag(cache)
    /\ syncPoll' = IdleSync
    /\ UNCHANGED <<daemon, store, moved, track, halted, projected, qbtLeft>>

(* applyResponseInner: stale before the source call, stale after it, or    *)
(* merged.                                                                 *)
ApplyFetch ==
    /\ syncPoll.pc = "reply"
    /\ syncPoll' = IF moved THEN IdleSync ELSE [syncPoll EXCEPT !.pc = "merge", !.set = store]
    /\ UNCHANGED <<daemon, answered, store, cache, moved, track, halted, projected, qbtLeft, fails>>

Merged(c) ==
    IF syncPoll.full THEN [ok |-> TRUE, c |-> mergeFull(c, syncPoll.reply)]
    ELSE LET r == reclassify(ownershipScan(c), syncPoll.reply) IN
         IF Publishable(r) THEN [ok |-> TRUE, c |-> publish(r, syncPoll.reply, syncPoll.gone)]
         ELSE [ok |-> FALSE, c |-> r]
applyResponse ==
    /\ syncPoll.pc = "merge"
    /\ IF moved THEN syncPoll' = IdleSync /\ UNCHANGED <<cache, track, projected>>
       ELSE \E m \in {Merged([cache EXCEPT !.owned = syncPoll.set])} :
            /\ cache' = m.c
            /\ track' = IF m.ok THEN noteInfohash(m.c) ELSE track
            /\ projected' = IF m.ok /\ syncPoll.full THEN {} ELSE IF m.ok
                            THEN projected \ ({h \in DOMAIN syncPoll.reply : "state" \in DOMAIN syncPoll.reply[h]} \union syncPoll.gone)
                            ELSE projected
            /\ syncPoll' = IF m.ok THEN [IdleSync EXCEPT !.pc = "flush",
                                       !.batch = {h \in QbtHashes : track'[h].st = "pending"}]
                       ELSE IdleSync
    /\ UNCHANGED <<daemon, answered, store, moved, halted, qbtLeft, fails>>

--------------------------------------------------------------------------------
(* flushInfohashes: the store writes the identity; a collision is stopped  *)
(* in the cache first, then at the daemon.                                 *)

StopLanded(h) == track' = [track EXCEPT ![h] = IF @.st = "pending" THEN [st |-> "done", tries |-> 0] ELSE @]
chargeFlushAttempt(h) == track' = [track EXCEPT ![h] =
    IF @.st # "pending" THEN @
    ELSE IF @.tries + 1 < MaxFlushAttempts THEN [st |-> @.st, tries |-> @.tries + 1]
    ELSE [st |-> "dropped", tries |-> 0]]

FlushResolve(h) ==
    /\ syncPoll.pc = "flush" /\ h \in syncPoll.batch
    /\ \/ /\ fails > 0 /\ fails' = fails - 1
          /\ chargeFlushAttempt(h)
          /\ syncPoll' = [syncPoll EXCEPT !.batch = @ \ {h}]
          /\ UNCHANGED <<cache, projected>>
       \/ /\ h \notin Duplicates /\ StopLanded(h)
          /\ syncPoll' = [syncPoll EXCEPT !.batch = @ \ {h}]
          /\ UNCHANGED <<cache, projected, fails>>
       \/ /\ h \in Duplicates
          /\ syncPoll' = [syncPoll EXCEPT !.pc = "halt", !.set = {h}]
          /\ cache' = IF h \in DOMAIN cache.fields THEN [cache EXCEPT !.fields[h].state = "stop"] ELSE cache
          /\ projected' = projected \union (DOMAIN cache.fields \intersect {h})
          /\ UNCHANGED <<track, fails>>
    /\ UNCHANGED <<daemon, answered, store, moved, halted, qbtLeft>>

(* Client.Pause of the duplicate: requireOwned finds it, or not.           *)
FlushHalt(h) ==
    /\ syncPoll.pc = "halt" /\ h \in syncPoll.set
    /\ \/ /\ h \in DOMAIN daemon /\ daemon' = [daemon EXCEPT ![h].state = "stop"]
          /\ halted' = halted \union {h}
          /\ StopLanded(h) /\ fails' = fails
       \/ h \notin DOMAIN daemon /\ chargeFlushAttempt(h) /\ UNCHANGED <<daemon, halted, fails>>
       \/ fails > 0 /\ fails' = fails - 1 /\ chargeFlushAttempt(h) /\ UNCHANGED <<daemon, halted>>
    /\ syncPoll' = [syncPoll EXCEPT !.pc = "flush", !.set = {}, !.batch = @ \ {h}]
    /\ UNCHANGED <<answered, store, cache, moved, projected, qbtLeft>>

FlushDone ==
    /\ syncPoll.pc = "flush" /\ syncPoll.batch = {}
    /\ syncPoll' = IdleSync
    /\ UNCHANGED <<daemon, answered, store, cache, moved, track, halted, projected, qbtLeft, fails>>

(* Five minutes after the last full reply the flag goes up by itself.      *)
dueFullSync ==
    /\ ~cache.forceFull
    /\ cache' = [cache EXCEPT !.forceFull = TRUE]
    /\ UNCHANGED <<daemon, answered, store, moved, track, syncPoll, halted, projected, qbtLeft, fails>>

(* SetOwnershipFilter: always one reset, at any moment of a poll.          *)
installOwnership ==
    /\ Edited
    /\ cache' = [ownershipScan([cache EXCEPT !.owned = store]) EXCEPT !.forceFull = TRUE]
    /\ moved' = TRUE
    /\ UNCHANGED <<daemon, answered, store, track, syncPoll, halted, projected, fails>>

--------------------------------------------------------------------------------
PollStep == PrepassFetch \/ ownershipPrepass \/ requestPlan \/ PollAnswered \/ ApplyFetch \/ applyResponse
            \/ (\E h \in QbtHashes : FlushResolve(h) \/ FlushHalt(h)) \/ FlushDone

QbtNext == PollStep \/ PollFails \/ DaemonChanges \/ StoreChanges \/ dueFullSync \/ installOwnership

(* The ticker fires every second and the five minutes pass.                *)
QbtFairness == WF_qbtVars(PollStep) /\ SF_qbtVars(dueFullSync)

QbtSpec == QbtInit /\ [][QbtNext]_qbtVars /\ QbtFairness

--------------------------------------------------------------------------------
(* The collections hold hashes; attempts stay under their budget.          *)
QbtTypeOK ==
    /\ DOMAIN cache.fields \union cache.rejected \union cache.pending \subseteq QbtHashes
    /\ \A h \in QbtHashes : track[h].st \in {"none", "pending", "done", "dropped"} /\ track[h].tries < MaxFlushAttempts
    /\ syncPoll.batch \subseteq QbtHashes

(* Nothing the last stored ownership snapshot rejects is visible, and what *)
(* is visible is a complete object: no delta, reset or late reply shows a  *)
(* foreign torrent or half of one (merge, ownershipScan).                  *)
ForeignHidden ==
    /\ DOMAIN cache.fields \intersect (cache.rejected \union cache.pending) = {}
    /\ \A h \in DOMAIN cache.fields : h \in cache.owned /\ DOMAIN cache.fields[h] = {"state", "id"}

(* While the next request is a delta, the cache is the daemon's last       *)
(* reply: no failed poll, stale reply or rejected delta is skipped over    *)
(* (forceFull, ownershipEpoch).  A duplicate's projected stop is ahead of  *)
(* the daemon on purpose.                                                  *)
NoDeltaMissed ==
    syncPoll.pc \in {"idle", "prepass", "plan", "flush", "halt"} /\ ~cache.forceFull
      => /\ DOMAIN answered = DOMAIN cache.fields \union cache.rejected \union cache.pending
         /\ \A h \in DOMAIN cache.fields \ projected : cache.fields[h] = answered[h]

(* A duplicate's write-back counts as done only once the daemon accepted   *)
(* its stop: otherwise the next sweep adopts the running torrent and       *)
(* undoes the pause (flushInfohashes).                                     *)
DuplicateStopped == \A h \in Duplicates : track[h].st = "done" => h \in halted

(* Once daemon and store settle, List and Get show exactly the owned       *)
(* torrents the daemon holds, as it holds them, again and again.           *)
CacheConverges ==
    []<>(cache.fields = [h \in DOMAIN daemon \intersect store |-> daemon[h]])

(* The cache shows owned torrents as the daemon last reported them, with   *)
(* no delta skipped over, and a duplicate counts as settled only when it   *)
(* stopped (poll, merge, flushInfohashes).                                 *)
QbtSafe == QbtTypeOK /\ ForeignHidden /\ NoDeltaMissed /\ DuplicateStopped
================================================================================
