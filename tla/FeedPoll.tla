--------------------------------- MODULE FeedPoll ---------------------------------
(***************************************************************************)
(* Feed polling (internal/rss/poll.go, internal/store/feeds.go): the job's *)
(* pass and the refresh endpoint fetch one feed with a conditional GET,    *)
(* store its items, trim them, write the fetch state and let the rules     *)
(* run.  The pass works from the row it listed, which a refresh, a PATCH   *)
(* or a DELETE may have overtaken; each write is a statement of its own    *)
(* and the process may die between two of them.                            *)
(*                                                                         *)
(* A document is the set of items a publisher lists, its number is its     *)
(* entity tag; a PATCH of the url is another document.  Times are abstract:*)
(* next_fetch_at and disabled_till are ahead or past.  An item is a number *)
(* and newer items have larger ones.                                       *)
(***************************************************************************)
EXTENDS Naturals, FiniteSets, Sequences

CONSTANTS
    Docs,            \* the documents, oldest first: a sequence of item sets
    ItemCap,         \* feeds.item_cap
    MaxLevel,        \* len(BackoffPeriods) - 1 (9 in the code)
    MaxFeedFaults,   \* bound: failed fetches, writes and rule passes
    MaxRestarts      \* bound

ASSUME FeedAssumption == ItemCap \in Nat \ {0} /\ MaxLevel \in Nat \ {0} /\ Docs \in Seq(SUBSET Nat) /\ Docs # <<>>

VARIABLES
    doc,         \* number of the document the publisher serves
    feedRow,     \* the feeds row
    stored,      \* its feed_items
    ever,        \* items that were stored at some time
    judged,      \* items a rule pass read
    poller,      \* the job's pass and the refresh endpoint
    inFlight,    \* inFlightPolls
    grace,       \* inside the startup grace
    abandoned,   \* history: stored items whose pass failed, or whose poll ended before it
    faults, restarts

feedVars == <<doc, feedRow, stored, ever, judged, poller, inFlight, grace, abandoned, faults, restarts>>

Pollers == {"job", "refresh"}
IdlePoller == [pc |-> "idle", level |-> 0, etag |-> 0, got |-> 0, added |-> FALSE]
Gone == [st |-> "gone", enabled |-> FALSE, level |-> 0, etag |-> 0, next |-> "past", disabled |-> FALSE]

FeedInit ==
    /\ doc = 1
    /\ feedRow = [Gone EXCEPT !.st = "live", !.enabled = TRUE]
    /\ stored = {} /\ ever = {} /\ judged = {}
    /\ poller = [p \in Pollers |-> IdlePoller]
    /\ inFlight = FALSE /\ grace = TRUE /\ abandoned = [pass |-> {}, poll |-> {}]
    /\ faults = MaxFeedFaults /\ restarts = MaxRestarts

Faulty == faults > 0 /\ faults' = faults - 1
PollerGoes(p, pc) == poller' = [poller EXCEPT ![p].pc = pc]
(* Poll returns: the deferred delete of inFlightPolls.                     *)
Done(p) == poller' = [poller EXCEPT ![p] = IdlePoller] /\ inFlight' = FALSE
PollAt(p, pc) == poller[p].pc = pc

(* A poll that stored new items and ends without its rule pass.            *)
Abandon(P) ==
    abandoned' = IF \E p \in P : poller[p].added
                 THEN [abandoned EXCEPT !.poll = abandoned.poll \union (stored \ judged)] ELSE abandoned
(* A statement failed: Poll returns its error.                             *)
EndsEarly(p) == Faulty /\ Done(p) /\ Abandon({p})

--------------------------------------------------------------------------------
(* The publisher, the clock and the operator.                              *)

FeedPublishes ==
    /\ doc < Len(Docs) /\ doc' = doc + 1
    /\ UNCHANGED <<feedRow, stored, ever, judged, poller, inFlight, grace, abandoned, faults, restarts>>

TimePasses ==
    /\ feedRow.next = "ahead"
    /\ feedRow' = [feedRow EXCEPT !.next = "past", !.disabled = FALSE]
    /\ UNCHANGED <<doc, stored, ever, judged, poller, inFlight, grace, abandoned, faults, restarts>>

GraceEnds ==
    /\ grace /\ grace' = FALSE
    /\ UNCHANGED <<doc, feedRow, stored, ever, judged, poller, inFlight, abandoned, faults, restarts>>

(* PATCH /feeds/{id} writes the operator's columns only.                   *)
UpdateFeed ==
    /\ feedRow.st = "live" /\ restarts > 0 /\ restarts' = restarts - 1
    /\ feedRow' = [feedRow EXCEPT !.enabled = ~@]
    /\ UNCHANGED <<doc, stored, ever, judged, poller, inFlight, grace, abandoned, faults>>

(* DELETE /feeds/{id} takes the items with it.                             *)
DeleteFeed ==
    /\ feedRow.st = "live" /\ restarts > 0 /\ restarts' = restarts - 1
    /\ feedRow' = Gone /\ stored' = {}
    /\ UNCHANGED <<doc, ever, judged, poller, inFlight, grace, abandoned, faults>>

FeedCrash ==
    /\ restarts > 0 /\ restarts' = restarts - 1
    /\ Abandon(Pollers)
    /\ poller' = [p \in Pollers |-> IdlePoller]
    /\ inFlight' = FALSE /\ grace' = TRUE
    /\ UNCHANGED <<doc, feedRow, stored, ever, judged, faults>>

--------------------------------------------------------------------------------
(* DueFeeds, or FeedByID for the endpoint: the poll works from this copy.  *)
DueFeeds(p) == p = "job" => feedRow.enabled /\ feedRow.next = "past" /\ ~feedRow.disabled
ListFeed(p) ==
    /\ PollAt(p, "idle") /\ feedRow.st = "live" /\ DueFeeds(p)
    /\ poller' = [poller EXCEPT ![p] = [IdlePoller EXCEPT !.pc = "listed", !.level = feedRow.level, !.etag = feedRow.etag]]
    /\ UNCHANGED <<doc, feedRow, stored, ever, judged, inFlight, grace, abandoned, faults, restarts>>

(* Poll: one fetch of a feed at a time; the read of the global interval,   *)
(* before the request, may fail.                                           *)
PollBegin(p) ==
    /\ PollAt(p, "listed")
    /\ \/ /\ inFlight /\ poller' = [poller EXCEPT ![p] = IdlePoller]
          /\ inFlight' = inFlight /\ faults' = faults
       \/ ~inFlight /\ inFlight' = TRUE /\ PollerGoes(p, "fetch") /\ faults' = faults
       \/ ~inFlight /\ Faulty /\ Done(p)
    /\ UNCHANGED <<doc, feedRow, stored, ever, judged, grace, abandoned, restarts>>

(* The conditional GET: 304 when the replayed tag is current, otherwise a  *)
(* 200 whose body parses, or a failure: transport, status, size, encoding  *)
(* or parse.                                                               *)
Fetch(p) ==
    /\ PollAt(p, "fetch")
    /\ \/ /\ poller[p].etag = doc /\ faults' = faults
          /\ poller' = [poller EXCEPT ![p].pc = "success", ![p].got = doc]
       \/ /\ poller[p].etag # doc /\ faults' = faults
          /\ poller' = [poller EXCEPT ![p].pc = "items", ![p].got = doc]
       \/ /\ Faulty
          /\ poller' = [poller EXCEPT ![p].pc = "failure", ![p].got = doc]
    /\ UNCHANGED <<doc, feedRow, stored, ever, judged, inFlight, grace, abandoned, restarts>>

(* UpsertFeedItems, one transaction; it counts the new rows.  A feed that  *)
(* is gone, or a failed write, ends the poll and records nothing.          *)
Added(p) == Docs[poller[p].got] \ stored # {}
UpsertFeedItems(p) ==
    /\ PollAt(p, "items")
    /\ \/ /\ feedRow.st = "live" /\ faults' = faults
          /\ stored' = stored \union Docs[poller[p].got]
          /\ ever' = ever \union Docs[poller[p].got]
          /\ poller' = [poller EXCEPT ![p].pc = "trim", ![p].added = Added(p)]
          /\ inFlight' = inFlight
       \/ /\ feedRow.st = "gone" /\ faults' = faults /\ Done(p) /\ UNCHANGED <<stored, ever>>
       \/ /\ Faulty /\ Done(p) /\ UNCHANGED <<stored, ever>>
    /\ UNCHANGED <<doc, feedRow, judged, grace, abandoned, restarts>>

(* TrimFeedItems keeps the newest.  When it fails the items stay, the      *)
(* fetch state is not written and no pass runs.                            *)
Newer(i) == {j \in stored : j > i}
TrimFeedItems(p) ==
    /\ PollAt(p, "trim")
    /\ \/ /\ stored' = {i \in stored : Cardinality(Newer(i)) < ItemCap}
          /\ PollerGoes(p, "success") /\ UNCHANGED <<inFlight, abandoned, faults>>
       \/ EndsEarly(p) /\ stored' = stored
    /\ UNCHANGED <<doc, feedRow, ever, judged, grace, restarts>>

(* UpdateFeedFetchState: only the fetch columns, and only of a row that is *)
(* there.                                                                  *)
WriteState(r) == feedRow' = IF feedRow.st = "live" THEN r ELSE feedRow

(* recordSuccess: one step down the ladder, the new validator; a poll      *)
(* whose write failed or whose row is gone runs no pass.                   *)
recordSuccess(p) ==
    /\ PollAt(p, "success")
    /\ \/ /\ WriteState([feedRow EXCEPT !.level = IF poller[p].level > 0 THEN poller[p].level - 1 ELSE 0,
                                    !.disabled = FALSE, !.next = "ahead", !.etag = poller[p].got])
          /\ IF poller[p].added /\ feedRow.st = "live" THEN PollerGoes(p, "rules") /\ inFlight' = inFlight ELSE Done(p)
          /\ UNCHANGED <<abandoned, faults>>
       \/ EndsEarly(p) /\ feedRow' = feedRow
    /\ UNCHANGED <<doc, stored, ever, judged, grace, restarts>>

(* recordFailure: one step up, disabled for the period of the level unless *)
(* inside the grace; the validator stays as listed.                        *)
recordFailureTagged(p) ==
    [feedRow EXCEPT !.level = IF poller[p].level < MaxLevel THEN poller[p].level + 1 ELSE MaxLevel,
                !.disabled = ~grace, !.next = "ahead", !.etag = poller[p].got]
recordFailure(p) ==
    [feedRow EXCEPT !.level = IF poller[p].level < MaxLevel THEN poller[p].level + 1 ELSE MaxLevel,
                !.disabled = ~grace, !.next = "ahead", !.etag = poller[p].etag]
PollFailed(p) ==
    /\ PollAt(p, "failure")
    /\ \/ WriteState(recordFailure(p)) /\ faults' = faults
       \/ Faulty /\ feedRow' = feedRow
    /\ Done(p)
    /\ UNCHANGED <<doc, stored, ever, judged, grace, abandoned, restarts>>

(* RunAllRules over the stored items of the feed; its failure is logged.   *)
RunAllRules(p) ==
    /\ PollAt(p, "rules")
    /\ \/ judged' = judged \union stored /\ UNCHANGED <<abandoned, faults>>
       \/ /\ Faulty /\ judged' = judged
          /\ abandoned' = [abandoned EXCEPT !.pass = abandoned.pass \union (stored \ judged)]
    /\ Done(p)
    /\ UNCHANGED <<doc, feedRow, stored, ever, grace, restarts>>

--------------------------------------------------------------------------------
PollerStep(p) ==
    \/ PollBegin(p) \/ Fetch(p) \/ UpsertFeedItems(p) \/ TrimFeedItems(p)
    \/ recordSuccess(p) \/ PollFailed(p) \/ RunAllRules(p)

FeedNext ==
    \/ \E p \in Pollers : ListFeed(p) \/ PollerStep(p)
    \/ FeedPublishes \/ TimePasses \/ GraceEnds \/ UpdateFeed \/ DeleteFeed \/ FeedCrash

(* The cron job fires every minute, polls return, time passes.             *)
FeedFairness ==
    /\ WF_feedVars(TimePasses) /\ SF_feedVars(ListFeed("job"))
    /\ \A p \in Pollers : WF_feedVars(PollerStep(p))

FeedSpec == FeedInit /\ [][FeedNext]_feedVars /\ FeedFairness

--------------------------------------------------------------------------------
(* The ladder stays between its ends, the validator names a document the   *)
(* server served, and only fetched items are stored or judged.             *)
FeedTypeOK ==
    /\ feedRow.level \in 0 .. MaxLevel /\ feedRow.etag \in 0 .. Len(Docs)
    /\ stored \subseteq ever /\ judged \subseteq ever
    /\ inFlight \in BOOLEAN

(* One fetch of a feed at a time, the job's pass and a refresh included    *)
(* (inFlightPolls).                                                        *)
OneFetch == Cardinality({p \in Pollers : poller[p].pc \notin {"idle", "listed"}}) <= 1

(* A 304 never hides an item: every item of the document whose tag the row *)
(* carries was stored, however stale the copy a poll wrote back and        *)
(* wherever an earlier poll failed or died (completeFetch).                *)
ValidatorsHonest == feedRow.st = "live" /\ feedRow.etag > 0 => Docs[feedRow.etag] \subseteq ever

(* Every stored item was read by a rule pass, belongs to the poll that is  *)
(* still to run one, or was left by a poll that ended early or whose pass  *)
(* failed: a poll that runs to its end leaves nothing unread, whatever the *)
(* polls before it left (completeFetch, RunAllRules).                      *)
LeftUnread == abandoned.pass \union abandoned.poll
StoredJudged == \A i \in stored :
    \/ i \in judged \union LeftUnread
    \/ \E p \in Pollers : poller[p].added /\ i \in Docs[poller[p].got]

(* An enabled feed is fetched again and again, at the top of the ladder    *)
(* too (recordFailure, DueFeeds).                                          *)
PollingGoesOn ==
    <>[](feedRow.st = "live" /\ feedRow.enabled) => []<>(\E p \in Pollers : poller[p].pc = "fetch")

(* What RunAllRules' comment promises: after a pass that failed, the next  *)
(* poll retries, so an item that pass left is judged in the end.           *)
NextPollRetries ==
    \A i \in UNION {Docs[n] : n \in DOMAIN Docs} : i \in abandoned.pass ~> i \in judged \/ i \notin stored

(* One fetch at a time, no item hidden behind a 304, and no stored item    *)
(* without its rule pass but those an interrupted poll or a failed pass    *)
(* left (inFlightPolls, completeFetch).                                    *)
FeedSafe == FeedTypeOK /\ OneFetch /\ ValidatorsHonest /\ StoredJudged
================================================================================
