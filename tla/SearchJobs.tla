------------------------------- MODULE SearchJobs -------------------------------
(***************************************************************************)
(* One asynchronous search (internal/api/search.go, internal/store/        *)
(* search.go, internal/jobs/handlers_search.go): POST /search writes the   *)
(* search_jobs row and its queue row in one transaction and then seeds the *)
(* in-memory tracker; a worker fans out over the indexers, stores each     *)
(* page as it arrives and closes the row; polls read row, tracker and      *)
(* results; DELETE, the hourly prune, the removal of an indexer, a stop    *)
(* and a crash may fall between any two of these steps.                    *)
(*                                                                         *)
(* A page is the number of the handler run that stored it.                 *)
(***************************************************************************)
EXTENDS Naturals, FiniteSets

CONSTANTS
    Indexers,
    NoEntry,
    MaxHandlerRuns,  \* bound: claims of the queue row, one more than MaxStops
    MaxStoreFaults,  \* bound: failed statements
    MaxStops         \* bound: stops and crashes of the process

ASSUME SearchAssumption == MaxHandlerRuns \in Nat \ {0}

VARIABLES
    search,      \* the search_jobs row
    queued,      \* state of its jobs row
    page,        \* search_results, by indexer
    indexer,     \* indexers rows that exist
    tracker,     \* Searches.byJob of this search, or None
    api,         \* StartSearch, DeleteSearch: where they are
    handler,     \* the run of the search handler
    process,     \* "up", "stopping" or "down"
    searchLost,  \* history: best-effort writes that failed since the last claim
    storeFaults, stops

searchVars == <<search, queued, page, indexer, tracker, api, handler, process, searchLost, storeFaults, stops>>

NoHandler == [pc |-> "idle", run |-> 0, engine |-> [i \in Indexers |-> "none"]]
EngineEnded == {"none", "done", "empty", "error"}

SearchInit ==
    /\ search = [st |-> "none", finished |-> FALSE]
    /\ queued = "none"
    /\ page = [i \in Indexers |-> {}]
    /\ indexer = Indexers
    /\ tracker = NoEntry
    /\ api = [start |-> "idle", delete |-> "idle"]
    /\ handler = NoHandler
    /\ process = "up" /\ searchLost = {}
    /\ storeFaults = MaxStoreFaults /\ stops = MaxStops

(* A statement on the job's context fails when the pool was cancelled.     *)
SearchStatementFails ==
    \/ process = "stopping" /\ storeFaults' = storeFaults
    \/ storeFaults > 0 /\ storeFaults' = storeFaults - 1
(* One on a detached context fails with the store only.                    *)
DetachedFails == storeFaults > 0 /\ storeFaults' = storeFaults - 1
StatementRuns == process = "up" /\ storeFaults' = storeFaults

(* SearchTracker.Start and Set; Set leaves an unknown search alone.        *)
Seeded(status) == [i \in Indexers |-> status[i]]
TrackerSet(i, status) == tracker' = IF tracker = NoEntry THEN NoEntry ELSE [tracker EXCEPT ![i] = status]

HandlerAt(pc) == process # "down" /\ handler.pc = pc

--------------------------------------------------------------------------------
(* The API.                                                                *)

(* CreateSearchJobAndEnqueue: both rows or neither.                        *)
CreateSearchJobAndEnqueue ==
    /\ process = "up" /\ search.st = "none"
    /\ search' = [st |-> "live", finished |-> FALSE] /\ queued' = "pending"
    /\ api' = [api EXCEPT !.start = "seed"]
    /\ UNCHANGED <<page, indexer, tracker, handler, process, searchLost, storeFaults, stops>>

(* The tracker seeds after the commit.                                     *)
StartSearch ==
    /\ api.start = "seed" /\ api' = [api EXCEPT !.start = "idle"]
    /\ tracker' = Seeded([i \in Indexers |-> "queued"])
    /\ UNCHANGED <<search, queued, page, indexer, handler, process, searchLost, storeFaults, stops>>

(* DeleteSearchJobAndQueue, the results cascade; then Forget.              *)
RowsGo == search' = [st |-> "gone", finished |-> FALSE] /\ page' = [i \in Indexers |-> {}]
DeleteSearchJobAndQueue ==
    /\ process = "up" /\ search.st = "live"
    /\ RowsGo /\ queued' = "none"
    /\ api' = [api EXCEPT !.delete = "forget"]
    /\ UNCHANGED <<indexer, tracker, handler, process, searchLost, storeFaults, stops>>
DeleteSearch ==
    /\ api.delete = "forget" /\ api' = [api EXCEPT !.delete = "idle"]
    /\ tracker' = NoEntry
    /\ UNCHANGED <<search, queued, page, indexer, handler, process, searchLost, storeFaults, stops>>

(* The hourly prune takes the row and its results, nothing else.           *)
PruneSearchJobs ==
    /\ process = "up" /\ search.st = "live"
    /\ RowsGo
    /\ UNCHANGED <<queued, indexer, tracker, api, handler, process, searchLost, storeFaults, stops>>

(* DELETE /indexers/{id}: its results cascade.                             *)
IndexerDeleted(i) ==
    /\ process = "up" /\ i \in indexer
    /\ indexer' = indexer \ {i} /\ page' = [page EXCEPT ![i] = {}]
    /\ UNCHANGED <<search, queued, tracker, api, handler, process, searchLost, storeFaults, stops>>

(* What GET /search/{id} shows of an engine: the tracker's entry, or what  *)
(* reconstructEngines makes of the stored counts.                          *)
GetSearch(i) ==
    IF tracker # NoEntry THEN tracker[i]
    ELSE IF search.finished \/ page[i] # {} THEN "done" ELSE "queued"

--------------------------------------------------------------------------------
(* The handler.                                                            *)

Claimable(st) == st = "pending"
ClaimSearchJob ==
    /\ process = "up" /\ Claimable(queued) /\ handler.pc = "idle" /\ handler.run < MaxHandlerRuns
    /\ queued' = "running"
    /\ handler' = [NoHandler EXCEPT !.pc = "load", !.run = handler.run + 1]
    /\ searchLost' = {}
    /\ UNCHANGED <<search, page, indexer, tracker, api, process, storeFaults, stops>>

(* GetSearchJob: a search that is gone is nothing to do.                   *)
LoadSearch ==
    /\ HandlerAt("load")
    /\ \/ StatementRuns /\ handler' = [handler EXCEPT !.pc = IF search.st = "live" THEN "resolve" ELSE "complete"]
       \/ SearchStatementFails /\ handler' = [handler EXCEPT !.pc = "abort"]
    /\ UNCHANGED <<search, queued, page, indexer, tracker, api, process, searchLost, stops>>

(* The selected indexers are resolved and the tracker seeded before the    *)
(* first goroutine starts.                                                 *)
EngineStart(i) == IF i \in indexer THEN "searching" ELSE "error"
ResolveIndexers ==
    /\ HandlerAt("resolve")
    /\ \/ /\ StatementRuns
          /\ tracker' = Seeded([i \in Indexers |-> EngineStart(i)])
          /\ handler' = [handler EXCEPT !.pc = "fan", !.engine = [i \in Indexers |-> IF i \in indexer THEN "ask" ELSE "none"]]
       \/ SearchStatementFails /\ handler' = [handler EXCEPT !.pc = "abort"] /\ tracker' = tracker
    /\ UNCHANGED <<search, queued, page, indexer, api, process, searchLost, stops>>

(* What a poll shows of an answer: code 300 is an empty result set.        *)
classify(answer) == IF answer = "empty" THEN "done" ELSE answer

(* searchIndexer answers with rows, with an empty set (code 300), or fails *)
(* within its deadline.                                                    *)
searchIndexer(i) ==
    /\ HandlerAt("fan") /\ handler.engine[i] = "ask"
    /\ \/ process = "up" /\ handler' = [handler EXCEPT !.engine[i] = "store"] /\ tracker' = tracker
       \/ process = "up" /\ handler' = [handler EXCEPT !.engine[i] = "empty"] /\ TrackerSet(i, classify("empty"))
       \/ handler' = [handler EXCEPT !.engine[i] = "error"] /\ TrackerSet(i, classify("error"))
    /\ UNCHANGED <<search, queued, page, indexer, api, process, searchLost, storeFaults, stops>>

(* InsertResults replaces the indexer's page in one transaction; the       *)
(* foreign keys refuse a row whose search or indexer is gone.              *)
InsertResults(i) == search.st = "live" /\ i \in indexer /\ page' = [page EXCEPT ![i] = {handler.run}]
StorePage(i) ==
    /\ HandlerAt("fan") /\ handler.engine[i] = "store"
    /\ \/ StatementRuns /\ InsertResults(i) /\ handler' = [handler EXCEPT !.engine[i] = "stored"] /\ tracker' = tracker
       \/ /\ SearchStatementFails \/ (storeFaults' = storeFaults /\ (search.st = "gone" \/ i \notin indexer))
          /\ handler' = [handler EXCEPT !.engine[i] = "error"] /\ TrackerSet(i, "error") /\ page' = page
    /\ UNCHANGED <<search, queued, indexer, api, process, searchLost, stops>>
PageStored(i) ==
    /\ HandlerAt("fan") /\ handler.engine[i] = "stored"
    /\ handler' = [handler EXCEPT !.engine[i] = "done"] /\ TrackerSet(i, "done")
    /\ UNCHANGED <<search, queued, page, indexer, api, process, searchLost, storeFaults, stops>>

(* FinishSearchJob after the last goroutine.                               *)
FinishSearchJob ==
    /\ HandlerAt("fan") /\ \A i \in Indexers : handler.engine[i] \in EngineEnded
    /\ \/ /\ StatementRuns
          /\ search' = [search EXCEPT !.finished = (search.st = "live")]
          /\ handler' = [handler EXCEPT !.pc = "complete"]
       \/ SearchStatementFails /\ search' = search /\ handler' = [handler EXCEPT !.pc = "abort"]
    /\ UNCHANGED <<queued, page, indexer, tracker, api, process, searchLost, stops>>

(* Every other return closes the row on a detached context, best effort: a *)
(* write that fails is logged and the handler ends all the same.           *)
(* Mutant: the close runs on the job's own context.                        *)
closeOnJob(r) == IF process = "stopping" THEN r ELSE [r EXCEPT !.finished = (r.st = "live")]
closeSearch(r) == [r EXCEPT !.finished = (r.st = "live")]
AbortSearch ==
    /\ HandlerAt("abort")
    /\ \/ search' = closeSearch(search) /\ UNCHANGED <<searchLost, storeFaults>>
       \/ DetachedFails /\ search' = search /\ searchLost' = searchLost \union {"close"}
    /\ handler' = [handler EXCEPT !.pc = "fail"]
    /\ UNCHANGED <<queued, page, indexer, tracker, api, process, stops>>

(* CompleteJob and FailJob: max_attempts is 1; a deleted row stays so, and *)
(* a row whose outcome could not be written stays running until a boot.    *)
JobEnds ==
    /\ HandlerAt("complete") \/ HandlerAt("fail")
    /\ \/ /\ queued' = IF queued = "none" THEN "none" ELSE IF handler.pc = "fail" THEN "failed" ELSE "done"
          /\ storeFaults' = storeFaults
       \/ DetachedFails /\ queued' = queued
    /\ handler' = [handler EXCEPT !.pc = "idle"]
    /\ UNCHANGED <<search, page, indexer, tracker, api, process, searchLost, stops>>

--------------------------------------------------------------------------------
(* The process.                                                            *)

StopBegins ==
    /\ process = "up" /\ stops > 0 /\ stops' = stops - 1
    /\ process' = "stopping" /\ api' = [start |-> "idle", delete |-> "idle"]
    /\ UNCHANGED <<search, queued, page, indexer, tracker, handler, searchLost, storeFaults>>

Dies ==
    /\ \/ process = "stopping" /\ handler.pc = "idle" /\ stops' = stops
       \/ process = "up" /\ stops > 0 /\ stops' = stops - 1
    /\ process' = "down" /\ tracker' = NoEntry
    /\ handler' = [handler EXCEPT !.pc = "idle"]
    /\ api' = [start |-> "idle", delete |-> "idle"]
    /\ UNCHANGED <<search, queued, page, indexer, searchLost, storeFaults>>

(* RecoverRunningJobs before the pool starts; its failure is logged and    *)
(* the pool starts all the same.                                           *)
RecoverSearchJob(st) == IF st = "running" THEN "pending" ELSE st
Boots ==
    /\ process = "down" /\ process' = "up"
    /\ \/ queued' = RecoverSearchJob(queued) /\ UNCHANGED <<searchLost, storeFaults>>
       \/ DetachedFails /\ queued' = queued /\ searchLost' = searchLost \union {"recovery"}
    /\ UNCHANGED <<search, page, indexer, tracker, api, handler, stops>>

--------------------------------------------------------------------------------
HandlerStep ==
    \/ LoadSearch \/ ResolveIndexers \/ FinishSearchJob \/ AbortSearch \/ JobEnds
    \/ \E i \in Indexers : searchIndexer(i) \/ StorePage(i) \/ PageStored(i)

SearchNext ==
    \/ CreateSearchJobAndEnqueue \/ StartSearch
    \/ DeleteSearchJobAndQueue \/ DeleteSearch \/ PruneSearchJobs
    \/ \E i \in Indexers : IndexerDeleted(i)
    \/ ClaimSearchJob \/ HandlerStep \/ StopBegins \/ Dies \/ Boots

(* Workers poll the queue, engines answer or time out, a stopped process   *)
(* is started again.                                                       *)
SearchFairness ==
    /\ WF_searchVars(ClaimSearchJob) /\ WF_searchVars(HandlerStep)
    /\ WF_searchVars(Dies /\ process = "stopping") /\ WF_searchVars(Boots)

SearchSpec == SearchInit /\ [][SearchNext]_searchVars /\ SearchFairness

--------------------------------------------------------------------------------
(* Search, job and progress entries have the states of their enums.        *)
SearchTypeOK ==
    /\ search.st \in {"none", "live", "gone"} /\ search.finished \in BOOLEAN
    /\ queued \in {"none", "pending", "running", "done", "failed"}
    /\ handler.run \in 0 .. MaxHandlerRuns
    /\ tracker # NoEntry => \A i \in Indexers : tracker[i] \in {"queued", "searching", "done", "error"}

(* An unfinished search has its driver: a queue row that will be claimed,  *)
(* a handler at work, or a running row the next boot recovers, although    *)
(* max_attempts is 1.  It has none only when the last run's own closing    *)
(* write failed, or the last boot could not recover the row, which then    *)
(* still is there for the next (CreateSearchJobAndEnqueue, the deferred    *)
(* close of NewSearchHandler, RecoverRunningJobs).                         *)
SearchDriven ==
    search.st = "live" /\ ~search.finished =>
      \/ queued = "pending"
      \/ queued = "running" /\ (handler.pc # "idle" \/ process = "down" \/ "recovery" \in searchLost)
      \/ "close" \in searchLost

(* However often the queue re-delivers a search, an indexer's results are  *)
(* one page, and no page outlives its search or its indexer                *)
(* (InsertResults).                                                        *)
OnePage == \A i \in Indexers :
    Cardinality(page[i]) <= 1 /\ (page[i] # {} => search.st = "live" /\ i \in indexer)

(* A poll of a running search never shows an engine as done that has not   *)
(* answered (Searches.Start, reconstructEngines).                          *)
DoneMeansAnswered == \A i \in Indexers :
    search.st = "live" /\ ~search.finished /\ GetSearch(i) = "done" =>
      page[i] # {} \/ handler.engine[i] \in {"done", "empty"}

(* A search that exists ends, after store errors, stops and crashes too;   *)
(* only a failed closing write or a failed recovery can leave it open      *)
(* (NewSearchHandler).                                                     *)
SearchEnds ==
    search.st = "live" ~> search.finished \/ search.st = "gone" \/ searchLost # {}

(* An unfinished search has somebody who will finish it unless the write   *)
(* that should have closed or recovered it failed, its results are one     *)
(* page per indexer, and no poll calls an engine done before it            *)
(* answered (NewSearchHandler, InsertResults, GetSearch).                  *)
SearchSafe == SearchTypeOK /\ SearchDriven /\ OnePage /\ DoneMeansAnswered
================================================================================
