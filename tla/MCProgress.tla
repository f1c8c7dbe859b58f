------------------------------- MODULE MCProgress -------------------------------
(***************************************************************************)
(* What must happen in the end, part by part, on instances smaller than    *)
(* the ones MCServices and MCContent check for safety.  A part's fairness  *)
(* is the one its module states; it binds the behaviours that run the part.*)
(***************************************************************************)
EXTENDS MCServices, MCContent

progressVars == <<part, serviceVars, contentVars>>

SmallDbBudgets == {DbBound(0, 0, 1, 1, 0, 0, 0), DbBound(0, 1, 0, 0, 1, 0, 0)}
SmallIxBudgets == {[requests |-> 0, faults |-> 0, boots |-> 0]}
SmallCatalogs == {[i1 |-> Item(NoValue, {}, "h1", 1, 1), i2 |-> Item("1x5", {"REPACK"}, NoValue, 1, 2)]}
SmallIntakeBudgets == {IntakeBound(0, 1, 1, 1, 0, 0), IntakeBound(0, 1, 0, 0, 1, 1)}
SmallSettingsBudgets == {SettingsBound(0, {}, 1, 1)}
SmallSetups == {[Plain EXCEPT !.finishes = 1], [Archive EXCEPT !.path = "dst"]}

ProgressNext ==
    \/ ServicesNext /\ UNCHANGED contentVars
    \/ ContentNext /\ UNCHANGED serviceVars

(* The fairness every part's own specification states, for the behaviours  *)
(* that run the part.                                                      *)
ProgressFairness ==
    /\ WF_hubVars(part = "hub" /\ LoopSnapshot) /\ WF_hubVars(part = "hub" /\ LoopPublish)
    /\ WF_hubVars(part = "hub" /\ WindowElapses) /\ WF_hubVars(part = "hub" /\ hubFlush)
    /\ \A c \in Clients : WF_hubVars(part = "hub" /\ Subscribe(c)) /\ WF_hubVars(part = "hub" /\ Events(c))
                          /\ WF_hubVars(part = "hub" /\ StreamEnds(c) /\ hubLeft' = hubLeft)
    /\ \A c \in Callers : WF_laneVars(part = "lane" /\ (killProc(c) \/ killReap(c) \/ Settle(c)))
    /\ \A p \in Procs : WF_laneVars(part = "lane" /\ WatchStep(p))
    /\ \A p \in Procs : WF_laneVars(part = "lane" /\ proc[p].kill /\ ProcExits(p))
    /\ WF_searchVars(part = "searches" /\ ClaimSearchJob) /\ WF_searchVars(part = "searches" /\ HandlerStep)
    /\ WF_searchVars(part = "searches" /\ Dies /\ process = "stopping") /\ WF_searchVars(part = "searches" /\ Boots)
    /\ SF_dbVars(part = "database" /\ ServerLocks) /\ WF_dbVars(part = "database" /\ ServerStep)
    /\ WF_dbVars(part = "database" /\ \E w \in WriterNames : WriterStep(w)) /\ WF_dbVars(part = "database" /\ RestoreFrom /\ restore.pc # "idle")
    /\ WF_qbtVars(part = "qbittorrent" /\ PollStep) /\ SF_qbtVars(part = "qbittorrent" /\ dueFullSync)
    /\ WF_feedVars(part = "feed" /\ TimePasses) /\ SF_feedVars(part = "feed" /\ ListFeed("job"))
    /\ \A p \in Pollers : WF_feedVars(part = "feed" /\ PollerStep(p))
    /\ \A r \in Runners : WF_grabVars(part = "rules" /\ RunStep(r))
    /\ WF_allIntakeVars(part = "intake" /\ ScanBegins("loop"))
    /\ \A s \in Scanners : WF_allIntakeVars(part = "intake" /\ ScanStep(s))
    /\ \A r \in Requests : WF_allIntakeVars(part = "intake" /\ (PlanStep(r) \/ validateSelection(r) \/ insertPlanned(r) \/ Answered(r)) /\ UNCHANGED watchVars)
    /\ WF_allIntakeVars(part = "intake" /\ PauseDuplicate /\ UNCHANGED watchVars)
    /\ WF_psVars(part = "settings" /\ (ImportMember \/ ImportEnds))
    /\ \A w \in Workers : WF_vars(part = "jobs" /\ Progress(w))
    /\ WF_vars(part = "jobs" /\ ChainStep("sweep"))
    /\ WF_vars(part = "jobs" /\ PoolRun) /\ WF_vars(part = "jobs" /\ Restart)

ProgressInit == ServicesInit /\ ContentInit

ProgressSpec ==
    /\ ProgressInit
    /\ [][ProgressNext]_progressVars
    /\ ProgressFairness

--------------------------------------------------------------------------------
(* ClientsCatchUp, of the behaviours that run the hub: elsewhere it rests  *)
(* at its start, with a client that has not connected yet.                 *)
ClientsFollow == part = "hub" => ClientsCatchUp

(* What an engine's client holds comes to agree with the engine: an exited *)
(* child is settled, and the maindata cache shows the daemon's torrents.   *)
EnginesFollow == ExitsSettle /\ CacheConverges

(* Work that was accepted ends: a search is closed and the queue drains.   *)
JobsEnd == SearchEnds /\ QueueDrains

(* An enabled feed is fetched again and again, a rule run ends, and        *)
(* without a cooldown each item a rule matches is served if runs recur.    *)
RssGoesOn == (part = "feed" => PollingGoesOn) /\ (part = "rules" => ItemsServed /\ RunsEnd)

(* The database comes back: a whole file is served again after whatever    *)
(* interrupted it, and an import gives the one connection back.            *)
StoreReturns == ServedAgain /\ ConnectionReturns
================================================================================
