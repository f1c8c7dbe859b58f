------------------------------- MODULE TaskIntake -------------------------------
(***************************************************************************)
(* How sources become task rows (internal/api: CreateTasks and its plan;   *)
(* internal/store: CreateLogged, FindByInfohash, SetInfohashes,            *)
(* PauseDuplicate).  A submission is planned source by source, each check  *)
(* for a duplicate a read of its own, and inserted row by row; only the    *)
(* partial unique indexes on the two infohash columns serialise it with    *)
(* other submissions, with the watch-folder loader (module WatchFolders)   *)
(* and with the metadata the engine reports later.                         *)
(*                                                                         *)
(* What a URI names is data: a source says which torrent it is, which of   *)
(* its hashes it carries and what its manifest shows.                      *)
(***************************************************************************)
EXTENDS Naturals, FiniteSets, SequencesExt

CONSTANTS
    Torrents, Hybrids,   \* a hybrid torrent has two infohashes
    NoTorrent,
    Submissions,         \* the bodies of POST /tasks
    Requests,            \* calls under way at once
    IntakeBudgets        \* bounds, see IntakeBudget

Hashes(t) == {h \in Torrents \X {"v1", "v2"} : h[1] = t /\ (h[2] = "v1" \/ t \in Hybrids)}

(* upload and metalink are file parts; magnet, remote (a link to a         *)
(* .torrent) and link are URIs; refused is one no engine takes.  multi:    *)
(* the manifest is known and lists several files.                          *)
Source == [kind : {"upload", "metalink", "magnet", "remote", "link", "refused"},
           torrent : Torrents \union {NoTorrent}, hashes : SUBSET (Torrents \X {"v1", "v2"}), multi : BOOLEAN]

(* A source carries hashes of its own torrent only, and what a link leads  *)
(* to is not known while it is planned.                                    *)
HashesOf(t) == IF t = NoTorrent THEN {} ELSE Hashes(t)
WellFormed(s) ==
    /\ s.hashes \subseteq HashesOf(s.torrent)
    /\ s.kind \in {"remote", "link", "refused"} => s.hashes = {} /\ ~s.multi

IntakeBudget == [posts : Nat, drops : Nat, folders : Nat, faults : Nat, crashes : Nat, removals : Nat]

(* results: the URIs were resolved from search_result_ids.                 *)
Submission == [blobs : Seq(Source), uris : Seq(Source), results : BOOLEAN, select : BOOLEAN, paused : BOOLEAN]

ASSUME IntakeAssumption ==
    /\ Hybrids \subseteq Torrents /\ NoTorrent \notin Torrents
    /\ Submissions \subseteq Submission
    /\ \A s \in Submissions :
        /\ \A i \in DOMAIN s.blobs : WellFormed(s.blobs[i]) /\ s.blobs[i].kind \in {"upload", "metalink"}
        /\ \A i \in DOMAIN s.uris : WellFormed(s.uris[i]) /\ s.uris[i].kind \notin {"upload", "metalink"}
    /\ IntakeBudgets \subseteq IntakeBudget

VARIABLES
    task,      \* the tasks table, by number
    req,       \* the POST /tasks calls under way
    flush,     \* the row the metadata write-back found to be a duplicate, 0 for none
    budget     \* what the environment may still do

NoReq == [pc |-> "idle", no |-> 0, sub |-> 0, todo |-> <<>>, uris |-> <<>>, blobs |-> <<>>, seen |-> {}, clash |-> 0]

IntakeInit ==
    /\ task = <<>>
    /\ req = [r \in Requests |-> NoReq]
    /\ flush = 0
    /\ budget \in IntakeBudgets

Spent(what) == budget[what] > 0 /\ budget' = [budget EXCEPT ![what] = @ - 1]

--------------------------------------------------------------------------------
(* The tasks table.                                                        *)

Rows == DOMAIN task
LiveRows == {i \in Rows : task[i].state # "removed"}

(* FindByInfohash: both columns together, a removed row holds nothing.     *)
Holders(hashes) == {i \in LiveRows : task[i].hashes \intersect hashes # {}}

(* The partial unique indexes: the insert of a held hash is refused.       *)
UniqueFreeNever(hashes) == TRUE
UniqueFree(hashes) == Holders(hashes) = {}

(* prepareNewTask and insertTaskRow.  A blocked URI's row is created       *)
(* terminal: queued first, the admission pass could claim it.              *)
NewRow(p, paused, no) ==
    [src |-> p.src, hashes |-> p.src.hashes, sel |-> p.sel, no |-> no, handle |-> FALSE, landed |-> FALSE,
     state |-> IF p.blocked THEN "error" ELSE IF paused THEN "paused" ELSE "queued",
     code |-> IF p.blocked THEN "ssrf_blocked" ELSE "none"]

CreateLogged(row) == task' = Append(task, row)

--------------------------------------------------------------------------------
(* Planning.  Every FindByInfohash is a read of its own.                   *)

Planned(s, blocked) == [src |-> s, blocked |-> blocked, sel |-> FALSE]

(* Mutant: a planned source is not remembered.                             *)
markPlannedNever(seen, s) == seen
markPlanned(seen, s) == seen \union s.hashes
duplicateRejection(r, s) == s.hashes \intersect req[r].seen # {} \/ Holders(s.hashes) # {}

(* POST /tasks: processUploads split the parts; the blobs are planned      *)
(* first, the rows of the URIs are inserted first.                         *)
Submit(r) ==
    /\ req[r].pc = "idle" /\ Spent("posts")
    /\ \E s \in Submissions :
        req' = [req EXCEPT ![r] = [NoReq EXCEPT !.pc = "plan", !.sub = s, !.todo = s.blobs \o s.uris, !.no = budget.posts]]
    /\ UNCHANGED <<task, flush>>

IsBlob(s) == s.kind \in {"upload", "metalink"}

(* One source of the call is decided: planned before or after the others,  *)
(* or refused.                                                             *)
PlanAs(r, rec) == req' = [req EXCEPT ![r] = [rec EXCEPT !.todo = Tail(@)]] /\ UNCHANGED <<task, flush, budget>>
Planning(r, blob) == req[r].pc = "plan" /\ req[r].todo # <<>> /\ IsBlob(Head(req[r].todo)) = blob
Refused(r) == PlanAs(r, req[r])

(* planBlobParts, planTorrentPart: a .torrent by its infohashes, a         *)
(* metalink has none.                                                      *)
PlanBlob(r) ==
    /\ Planning(r, TRUE)
    /\ LET s == Head(req[r].todo) IN
        IF duplicateRejection(r, s) THEN Refused(r)
        ELSE PlanAs(r, [req[r] EXCEPT !.seen = markPlanned(@, s), !.blobs = Append(@, Planned(s, FALSE))])

PlanTransfer(r, s) == PlanAs(r, [req[r] EXCEPT !.seen = markPlanned(@, s), !.uris = Append(@, Planned(s, FALSE))])

(* planURIs: normalise and route, then the preflight, which refuses a URI  *)
(* by what its host resolves to at this moment and plans its terminal row; *)
(* then the duplicate check.                                               *)
PlanURI(r) ==
    /\ Planning(r, FALSE) /\ ~req[r].sub.results
    /\ LET s == Head(req[r].todo) IN
        \/ (s.kind = "refused" \/ duplicateRejection(r, s)) /\ Refused(r)
        \/ s.kind \in {"remote", "link"} /\ PlanAs(r, [req[r] EXCEPT !.uris = Append(@, Planned(s, TRUE))])
        \/ s.kind # "refused" /\ ~duplicateRejection(r, s) /\ PlanTransfer(r, s)

(* planSearchResults: the id's row, which may have expired, names the      *)
(* source.                                                                 *)
PlanResult(r) ==
    /\ Planning(r, FALSE) /\ req[r].sub.results
    /\ LET s == Head(req[r].todo) IN
        \/ Refused(r)
        \/ s.kind # "refused" /\ ~duplicateRejection(r, s) /\ PlanTransfer(r, s)

Unknown(p) == ~p.blocked /\ p.src.kind \in {"magnet", "remote", "metalink"}
selectionTarget(planned) ==
    IF \E i \in DOMAIN planned : planned[i].src.multi
      THEN SelectInSeq(planned, LAMBDA p : p.src.multi)
      ELSE SelectInSeq(planned, Unknown)

(* The rest of CreateTasks before the first insert: validateSelection, the *)
(* all-refused answers, ensureTags.                                        *)
validateSelection(r) ==
    /\ req[r].pc = "plan" /\ req[r].todo = <<>>
    /\ LET planned == req[r].uris \o req[r].blobs
           target == selectionTarget(planned)
           chosen == [i \in DOMAIN planned |-> [planned[i] EXCEPT !.sel = req[r].sub.select /\ i = target]]
       IN req' = [req EXCEPT ![r] =
            IF planned = <<>> \/ (req[r].sub.select /\ target = 0) THEN NoReq
            ELSE [req[r] EXCEPT !.pc = "insert", !.blobs = <<>>, !.uris = chosen]]
    /\ UNCHANGED <<task, flush, budget>>

(* insertPlanned: the row, its event, tags and destination echo.  A        *)
(* refused insert ends the call: what was inserted before it stays.        *)
insertPlanned(r) ==
    /\ req[r].pc = "insert"
    /\ LET p == Head(req[r].uris) IN
        IF UniqueFree(p.src.hashes)
          THEN /\ CreateLogged(NewRow(p, req[r].sub.paused, req[r].no))
               /\ req' = [req EXCEPT ![r] = IF Len(req[r].uris) = 1 THEN NoReq
                                            ELSE [req[r] EXCEPT !.uris = Tail(req[r].uris)]]
          ELSE /\ req' = [req EXCEPT ![r].pc = "failed", ![r].clash = CHOOSE i \in Holders(p.src.hashes) : TRUE]
               /\ UNCHANGED task
    /\ UNCHANGED <<flush, budget>>

(* The store fails under a step of the call: 500, the rest is dropped.     *)
RequestFails(r) ==
    /\ req[r].pc \in {"plan", "insert"} /\ Spent("faults")
    /\ req' = [req EXCEPT ![r] = NoReq]
    /\ UNCHANGED <<task, flush>>

Answered(r) ==
    /\ req[r].pc = "failed"
    /\ req' = [req EXCEPT ![r] = NoReq]
    /\ UNCHANGED <<task, flush, budget>>

--------------------------------------------------------------------------------
(* The life of a row, as far as its identity goes.                         *)

(* The admission pass hands a queued row to its engine (module             *)
(* TaskControl).                                                           *)
Admit(i) ==
    /\ task[i].state = "queued"
    /\ task' = [task EXCEPT ![i].state = "downloading", ![i].handle = TRUE]
    /\ UNCHANGED <<req, flush, budget>>

Accepts(i) == task[i].code # "ssrf_blocked"
Resume(i) ==
    /\ task[i].state \in {"paused", "error"} /\ Accepts(i)
    /\ task' = [task EXCEPT ![i].state = "queued"]
    /\ UNCHANGED <<req, flush, budget>>

RemoveRow(i) ==
    /\ i \in LiveRows /\ Spent("removals")
    /\ task' = [task EXCEPT ![i].state = "removed"]
    /\ UNCHANGED <<req, flush>>

(* SetInfohashes: the pair the engine resolved lands in one transaction    *)
(* unless another live row holds either hash, a paused one included.       *)
SetInfohashes(i) ==
    LET pair == Hashes(task[i].src.torrent)
        others == Holders(task[i].hashes \union pair) \ {i}
    IN IF others = {} THEN flush' = 0 /\ task' = [task EXCEPT ![i].hashes = @ \union pair, ![i].landed = TRUE]
       ELSE flush' = i /\ UNCHANGED task

(* ResolveInfohashes: the delta path reports a resolution once per process *)
(* (module QbtCache); a handle no live row carries is a no-op.             *)
ResolveInfohashes(i) ==
    /\ flush = 0
    /\ i \in LiveRows /\ task[i].handle /\ ~task[i].landed /\ task[i].src.torrent # NoTorrent
    /\ SetInfohashes(i)
    /\ UNCHANGED <<req, budget>>

(* PauseDuplicate: pauses in place; a row paused for another reason or     *)
(* removed meanwhile refuses the transition, and the flush gives it up.    *)
Pausable(i) == task[i].state \in {"queued", "downloading", "error"}
PauseDuplicate ==
    /\ flush # 0
    /\ task' = [task EXCEPT
            ![flush].landed = TRUE,
            ![flush].state = IF Pausable(flush) THEN "paused" ELSE @,
            ![flush].code = IF Pausable(flush) THEN "torrent_duplicate" ELSE @]
    /\ flush' = 0
    /\ UNCHANGED <<req, budget>>

(* The process dies and starts again: calls and what the delta path        *)
(* remembers are gone.                                                     *)
RestartRows == task' = [i \in Rows |-> [task[i] EXCEPT !.landed = FALSE]]

(* One request or row step.                                                *)
PlanStep(r) == PlanBlob(r) \/ PlanURI(r) \/ PlanResult(r)
RequestStep(r) == Submit(r) \/ PlanStep(r) \/ validateSelection(r) \/ insertPlanned(r) \/ RequestFails(r) \/ Answered(r)
RowStep(i) == Admit(i) \/ Resume(i) \/ RemoveRow(i) \/ ResolveInfohashes(i)

--------------------------------------------------------------------------------
(* Two live rows never hold a common infohash, whatever submissions, scans *)
(* and metadata resolutions overlap: the check for duplicates is a read    *)
(* before the insert, and the index is what closes the gap.                *)
HashHeldOnce == \A i, j \in LiveRows : i # j => task[i].hashes \intersect task[j].hashes = {}

(* A row whose URI the preflight refused never reaches an engine, neither  *)
(* by admission nor after any action on it.                                *)
BlockedStaysOut == \A i \in Rows : task[i].code = "ssrf_blocked" => ~task[i].handle

(* The selection of a submission lands on at most one of its rows, and     *)
(* never on one an engine will not open.                                   *)
SelectionPlaced ==
    /\ \A i \in Rows : task[i].sel => task[i].code # "ssrf_blocked"
    /\ \A i, j \in Rows : task[i].sel /\ task[j].sel /\ task[i].no = task[j].no => i = j

(* Two sources of one torrent that planning can tell are one: they share a *)
(* hash, or carry none and then never hold one when they are inserted.     *)
NamedAlike(s, z) ==
    s.torrent = z.torrent /\ s.torrent # NoTorrent =>
        s.hashes \intersect z.hashes # {} \/ s.hashes \union z.hashes = {}
NamedOneWay(sub) ==
    LET sources == Range(sub.blobs) \union Range(sub.uris)
    IN \A s, z \in sources : NamedAlike(s, z)

(* A submission that names no torrent in two ways only fails on a          *)
(* duplicate somebody else put there: its own sources are told apart while *)
(* it is planned, by either hash (markPlanned).  The two hashes of a       *)
(* hybrid, or a link beside the magnet it leads to, are not told apart: of *)
(* those the second insert can fail on the first one's row.                *)
NoSelfCollision ==
    \A r \in Requests : req[r].clash # 0 /\ NamedOneWay(req[r].sub) => task[req[r].clash].no # req[r].no

(* Submissions, scans and resolutions that overlap leave one live row per  *)
(* hash, a refused URI stays out of the engines, and a selection lands on  *)
(* one row (plan, insertPlanned, SetInfohashes).                           *)
IntakeSafe ==
    /\ HashHeldOnce
    /\ BlockedStaysOut
    /\ SelectionPlaced
================================================================================
