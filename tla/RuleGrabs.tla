-------------------------------- MODULE RuleGrabs --------------------------------
(***************************************************************************)
(* The RSS rule runs (internal/rss: Evaluate, Resolve, Commit, RunRule,    *)
(* RunAllRules): a run judges the stored items of its feeds one after the  *)
(* other, groups the accepted ones by content key, records the losers,     *)
(* and hands each winner to the task creation path between two writes of   *)
(* its rule_matches row.  Nothing serialises the post-poll pass and        *)
(* POST /rules/{id}/run, and the process may die between any two writes.   *)
(*                                                                         *)
(* The clauses of a rule on date, title and size (steps 3 to 8) only       *)
(* select items: Items are the ones that pass them.  One rule is modelled; *)
(* its tables are keyed by rule.                                           *)
(***************************************************************************)
EXTENDS Naturals, FiniteSets, Sequences

CONSTANTS
    Items,
    Catalogs,        \* what the items may be, see Catalog
    Cooldowns,       \* throttle.cooldown_days the rule may have
    NoValue,
    Runners,         \* runs that may be under way at once
    MaxPerRun,       \* throttle.max_per_run
    MaxRefusals,     \* bound: hand-offs the creation path refuses
    MaxCrashes,      \* bound
    MaxRemovals,     \* bound: tasks the user removes
    MaxTasks         \* bound: tasks created, the creation path refuses from then on

(* The smart key of an item, REPACK and PROPER in its title, its infohash, *)
(* its score, its feed's priority and its date.                            *)
Catalog == [Items -> [episode : STRING \union {NoValue}, tags : SUBSET {"REPACK", "PROPER"},
                      hash : STRING \union {NoValue}, score : Nat, priority : Nat, published : Nat]]

ASSUME GrabAssumption == Catalogs \subseteq Catalog /\ Cooldowns \subseteq Nat /\ MaxPerRun \in Nat \ {0}

VARIABLES
    listed,      \* the stored items
    cooldown,    \* the rule's cooldown, 0 is none
    match,       \* rule_matches: one row per item
    seen,        \* rule_seen_episodes
    grabTask,        \* tasks this rule had created, by number
    watermark,   \* rules.last_match_at
    runner,      \* the runs under way
    torn,        \* a run overlapped another or died after a hand-off
    refusals, crashes, removals

grabVars == <<listed, cooldown, match, seen, grabTask, watermark, runner, torn, refusals, crashes, removals>>

Tags == {"", "REPACK", "PROPER"}
NoMatch == [status |-> "none", key |-> NoValue, hash |-> NoValue, score |-> 0]
NoRun == [pc |-> "idle", todo |-> {}, cands |-> {}, cur |-> NoValue, sent |-> 0, last |-> NoValue, mark |-> 0]

GrabInit ==
    /\ listed \in Catalogs /\ cooldown \in Cooldowns
    /\ match = [i \in Items |-> NoMatch]
    /\ seen = {}
    /\ grabTask = <<>>
    /\ watermark = 0
    /\ runner = [r \in Runners |-> NoRun]
    /\ torn = FALSE /\ refusals = 0 /\ crashes = 0 /\ removals = 0

GrabTasks == DOMAIN grabTask

--------------------------------------------------------------------------------
(* Evaluate: step 2, then steps 9 to 12.                                   *)

(* The cooldown window, from the watermark the run read with its rule.     *)
Cooling(r, i) == cooldown > 0 /\ runner[r].mark > 0 /\ listed[i].published < runner[r].mark + cooldown

(* The episode keys an item stages: its own when unseen; the unseen        *)
(* REPACK and PROPER variants of a seen one; none rejects it.              *)
Staged(i) ==
    IF <<listed[i].episode, "">> \notin seen THEN {<<listed[i].episode, "">>}
    ELSE {<<listed[i].episode, t>> : t \in listed[i].tags} \ seen

(* REPACK is listed before PROPER.                                         *)
First(keys) == CHOOSE k \in keys : k[2] = "PROPER" => \A j \in keys : j[2] = "PROPER"

contentKeyFor(i, staged) ==
    IF staged # {} THEN First(staged) ELSE IF listed[i].hash # NoValue THEN <<listed[i].hash>> ELSE <<i>>

(* A match row owns the hash while it carries it; a removed task does not. *)
HasInfoHash(h) ==
    \/ \E i \in Items : match[i].hash = h
    \/ \E n \in GrabTasks : listed[grabTask[n].item].hash = h /\ ~grabTask[n].removed

(* Mutant: the queued rows are asked instead of the sent ones.             *)
BestScoreQueued(key) == {match[i].score : i \in {j \in Items : match[j].key = key /\ match[j].status = "queued"}}
BestScoreForContentKey(key) == {match[i].score : i \in {j \in Items : match[j].key = key /\ match[j].status = "sent"}}

RuleAccepts(i, staged) ==
    /\ listed[i].episode # NoValue => staged # {}
    /\ listed[i].hash # NoValue => ~HasInfoHash(listed[i].hash)
    /\ \A s \in BestScoreForContentKey(contentKeyFor(i, staged)) : listed[i].score > s

(* Resolve: (score DESC, feed priority ASC, published_at DESC).            *)
Better(a, b) ==
    \/ listed[a].score > listed[b].score
    \/ listed[a].score = listed[b].score /\ listed[a].priority < listed[b].priority
    \/ listed[a].score = listed[b].score /\ listed[a].priority = listed[b].priority /\ listed[a].published > listed[b].published
(* Of two that tie one is kept: the first of the stable sort.              *)
Losers(cands) == {c \in cands : \E d \in cands \ {c} : d.key = c.key /\ ~Better(c.item, d.item)}
Best(cands) == {c \in cands : ~\E d \in cands : Better(d.item, c.item)}

RunAt(r, pc) == runner[r].pc = pc
Overlap(r) == \E q \in Runners \ {r} : runner[q].pc # "idle"

(* RunRule and RunAllRules read the stored items.                          *)
RunBegin(r) ==
    /\ RunAt(r, "idle")
    /\ runner' = [runner EXCEPT ![r] = [NoRun EXCEPT !.pc = "evaluate", !.todo = Items, !.mark = watermark]]
    /\ torn' = (torn \/ Overlap(r))
    /\ UNCHANGED <<listed, cooldown, match, seen, grabTask, watermark, refusals, crashes, removals>>

(* One item, newest first: its lookups read what is committed now.         *)
Newest(S) == {i \in S : \A j \in S : listed[i].published >= listed[j].published}
evaluateItem(r) ==
    /\ RunAt(r, "evaluate") /\ runner[r].todo # {}
    /\ \E i \in Newest(runner[r].todo) :
       \E staged \in {IF listed[i].episode = NoValue THEN {} ELSE Staged(i)} :
         runner' = [runner EXCEPT ![r].todo = @ \ {i},
                      ![r].cands = IF ~Cooling(r, i) /\ RuleAccepts(i, staged)
                                   THEN @ \union {[item |-> i, key |-> contentKeyFor(i, staged), staged |-> staged]}
                                   ELSE @]
    /\ UNCHANGED <<listed, cooldown, match, seen, grabTask, watermark, torn, refusals, crashes, removals>>

--------------------------------------------------------------------------------
(* Commit.                                                                 *)

(* upsertMatch: the row of the item moves in place, its task and hash go.  *)
upsertMatch(c, status) ==
    match' = [match EXCEPT ![c.item] = [status |-> status, key |-> c.key, hash |-> NoValue, score |-> listed[c.item].score]]

(* Every contested group's runners-up land before the grabs.               *)
recordFallback(r) ==
    /\ RunAt(r, "evaluate") /\ runner[r].todo = {}
    /\ \E c \in Losers(runner[r].cands) :
         /\ upsertMatch(c, "fallback")
         /\ runner' = [runner EXCEPT ![r].cands = @ \ {c}]
    /\ UNCHANGED <<listed, cooldown, seen, grabTask, watermark, torn, refusals, crashes, removals>>

Slot(r) == runner[r].sent < MaxPerRun

(* queueMatch of the best winner left.                                     *)
queueMatch(r) ==
    /\ RunAt(r, "evaluate") /\ runner[r].todo = {} /\ Losers(runner[r].cands) = {}
    /\ Slot(r)
    /\ \E c \in Best(runner[r].cands) :
         /\ upsertMatch(c, "queued")
         /\ runner' = [runner EXCEPT ![r].pc = "grab", ![r].cur = c, ![r].cands = @ \ {c}]
    /\ UNCHANGED <<listed, cooldown, seen, grabTask, watermark, torn, refusals, crashes, removals>>

(* CreateForRule: the creation path refuses a torrent a live task holds.   *)
DuplicateTask(i) == listed[i].hash # NoValue /\ \E n \in GrabTasks : listed[grabTask[n].item].hash = listed[i].hash /\ ~grabTask[n].removed
CreateForRule(r) ==
    /\ RunAt(r, "grab") /\ ~DuplicateTask(runner[r].cur.item)
    /\ Len(grabTask) < MaxTasks
    /\ grabTask' = Append(grabTask, [item |-> runner[r].cur.item, key |-> runner[r].cur.key, removed |-> FALSE])
    /\ runner' = [runner EXCEPT ![r].pc = "send"]
    /\ UNCHANGED <<listed, cooldown, match, seen, watermark, torn, refusals, crashes, removals>>

(* failMatch.                                                              *)
(* Mutant: the refused hand-off is recorded as sent.                       *)
failMatchSent(i) == match' = [match EXCEPT ![i].status = "sent"]
failMatch(i) == match' = [match EXCEPT ![i].status = "failed"]
TaskRefused(r) ==
    /\ RunAt(r, "grab")
    /\ \/ DuplicateTask(runner[r].cur.item) /\ refusals' = refusals
       \/ refusals < MaxRefusals /\ refusals' = refusals + 1
       \/ Len(grabTask) = MaxTasks /\ refusals' = refusals
    /\ failMatch(runner[r].cur.item)
    /\ runner' = [runner EXCEPT ![r].pc = "evaluate", ![r].cur = NoValue]
    /\ UNCHANGED <<listed, cooldown, seen, grabTask, watermark, torn, crashes, removals>>

(* sendMatch: status, hash and the staged keys in one transaction; the     *)
(* unique index on info_hash may refuse it, which ends the run.            *)
HashTaken(i) == listed[i].hash # NoValue /\ \E j \in Items \ {i} : match[j].hash = listed[i].hash
sendMatch(r) ==
    /\ RunAt(r, "send")
    /\ LET c == runner[r].cur IN
       IF HashTaken(c.item)
       THEN runner' = [runner EXCEPT ![r] = NoRun] /\ torn' = TRUE /\ UNCHANGED <<match, seen>>
       ELSE /\ match' = [match EXCEPT ![c.item].status = "sent", ![c.item].hash = listed[c.item].hash]
            /\ seen' = seen \union c.staged
            /\ runner' = [runner EXCEPT ![r].pc = "evaluate", ![r].cur = NoValue,
                            ![r].sent = @ + 1, ![r].last = listed[c.item].published]
            /\ torn' = torn
    /\ UNCHANGED <<listed, cooldown, grabTask, watermark, refusals, crashes, removals>>

(* SetRuleLastMatchAt after a run that grabbed.                            *)
SetRuleLastMatchAt(at) == IF at > watermark THEN at ELSE watermark
RunEnd(r) ==
    /\ RunAt(r, "evaluate") /\ runner[r].todo = {} /\ Losers(runner[r].cands) = {}
    /\ runner[r].cands = {} \/ ~Slot(r)
    /\ watermark' = IF runner[r].last = NoValue THEN watermark ELSE SetRuleLastMatchAt(runner[r].last)
    /\ runner' = [runner EXCEPT ![r] = NoRun]
    /\ UNCHANGED <<listed, cooldown, match, seen, grabTask, torn, refusals, crashes, removals>>

--------------------------------------------------------------------------------
(* The process dies: the tables stay.                                      *)
GrabCrash ==
    /\ crashes < MaxCrashes /\ crashes' = crashes + 1
    /\ torn' = (torn \/ \E r \in Runners : RunAt(r, "send"))
    /\ runner' = [r \in Runners |-> NoRun]
    /\ UNCHANGED <<listed, cooldown, match, seen, grabTask, watermark, refusals, removals>>

(* The user removes a task; its row stays as a tombstone.                  *)
RemoveTask(n) ==
    /\ removals < MaxRemovals /\ removals' = removals + 1
    /\ ~grabTask[n].removed
    /\ grabTask' = [grabTask EXCEPT ![n].removed = TRUE]
    /\ UNCHANGED <<listed, cooldown, match, seen, watermark, runner, torn, refusals, crashes>>

--------------------------------------------------------------------------------
RunStep(r) ==
    \/ evaluateItem(r) \/ recordFallback(r) \/ queueMatch(r)
    \/ CreateForRule(r) \/ TaskRefused(r) \/ sendMatch(r) \/ RunEnd(r)

GrabNext ==
    \/ \E r \in Runners : RunBegin(r) \/ RunStep(r)
    \/ GrabCrash
    \/ \E n \in GrabTasks : RemoveTask(n)

(* A run that was begun goes on.  Nothing has to begin one: a poll does    *)
(* when it added items, and the operator may.                              *)
GrabFairness == \A r \in Runners : WF_grabVars(RunStep(r))

GrabSpec == GrabInit /\ [][GrabNext]_grabVars /\ GrabFairness

--------------------------------------------------------------------------------
(* Match rows have a status the schema knows, and no run sends more than   *)
(* its cap.                                                                *)
GrabTypeOK ==
    /\ \A i \in Items : match[i].status \in {"none", "queued", "sent", "failed", "fallback"}
    /\ \A k \in seen : k[2] \in Tags
    /\ \A r \in Runners : runner[r].sent <= MaxPerRun

(* A refused or interrupted hand-off consumes nothing: an episode counts   *)
(* as seen, and a hash as grabbed, only when a task of that episode or     *)
(* hash was created (sendMatch, failMatch, upsertMatch).                   *)
OnlyGrabsConsume ==
    /\ \A k \in seen : \E n \in GrabTasks : listed[grabTask[n].item].episode = k[1]
    /\ \A i \in Items : match[i].hash # NoValue => \E n \in GrabTasks : grabTask[n].item = i

(* No task without evidence: whatever crashed, overlapped or was refused,  *)
(* the item of every created task has a rule_matches row (Commit: a crash  *)
(* mid-grab leaves the row as evidence).                                   *)
GrabEvidence == \A n \in GrabTasks : match[grabTask[n].item].status # "none"

(* While no two runs overlap and none dies between a hand-off and its      *)
(* record, a content key is grabbed again only at a better score, also     *)
(* after its task was removed (step 10).                                   *)
GrabbedOnce ==
    ~torn => \A m, n \in GrabTasks : m < n /\ grabTask[m].key = grabTask[n].key => listed[grabTask[m].item].score < listed[grabTask[n].item].score

Served(i) == \E n \in GrabTasks :
    \/ grabTask[n].item = i
    \/ listed[i].episode # NoValue /\ listed[grabTask[n].item].episode = listed[i].episode
    \/ listed[i].hash # NoValue /\ listed[grabTask[n].item].hash = listed[i].hash
(* Without a cooldown, and as long as runs are begun again and again,      *)
(* every matching item is served in the end: itself, a rival with its      *)
(* episode, or a holder of its hash becomes a task, although hand-offs     *)
(* were refused, runs died and the cap cut runs short (Commit).            *)
RunsRecur == []<>(\E r \in Runners : ~RunAt(r, "idle"))
ItemsServed ==
    cooldown = 0 /\ RunsRecur => \A i \in Items : <>(Served(i) \/ Len(grabTask) = MaxTasks)

(* A run that was begun ends (RunRule, RunAllRules).                       *)
RunsEnd == \A r \in Runners : ~RunAt(r, "idle") ~> RunAt(r, "idle")

(* Episodes and hashes are consumed by created tasks only, every created   *)
(* task has its row, and a key is grabbed again only at a better score     *)
(* (Commit, sendMatch).                                                    *)
GrabSafe == GrabTypeOK /\ OnlyGrabsConsume /\ GrabEvidence /\ GrabbedOnce
================================================================================
