------------------------------ MODULE IntakeProofs ------------------------------
(***************************************************************************)
(* Proofs about task creation and the watch folders, for every set of      *)
(* submissions, torrents, files, requests and sweeps and every budget of   *)
(* the environment: IntakeSafe, WatchSafe and NoSelfCollision are          *)
(* invariants of IntakeSpec.                                               *)
(*                                                                         *)
(* The rows are safe by the unique index and by the guards of each write   *)
(* (RowsSafe); that a selection lands on one row needs the life of a       *)
(* submission: its number is its own (NumbersOwn), it has no row before    *)
(* its first insert and one selected entry at most (SelectionAhead).  The  *)
(* sweeps are safe because the folder's lock is held from the listing to   *)
(* the last unlink (SweepsLocked), so what a sweep found missing in the    *)
(* loaded set stays missing until it marks it (NotLoadedYet).  A           *)
(* submission does not collide with itself because what it plans is        *)
(* remembered and so stays apart (PlannedApart), and its rows stay apart   *)
(* from what it has left to insert, whatever metadata lands (RowsApart).   *)
(***************************************************************************)
EXTENDS WatchFolders, SequenceTheorems, WellFoundedInduction, TLAPS

Sources == {s \in Source : WellFormed(s)}
Plan == [src : Sources, blocked : BOOLEAN, sel : BOOLEAN]
TaskRow == [src : Sources, hashes : SUBSET (Torrents \X {"v1", "v2"}), sel : BOOLEAN, no : Nat,
            handle : BOOLEAN, landed : BOOLEAN,
            state : {"queued", "paused", "downloading", "error", "removed"},
            code : {"none", "ssrf_blocked", "torrent_duplicate"}]

(* A row holds hashes of its torrent; a refused URI's row has no handle    *)
(* and is in no state from which it could get one; nor is it selected.     *)
RowSafe(t) ==
    /\ t.hashes \subseteq HashesOf(t.src.torrent)
    /\ t.code = "ssrf_blocked" => t.state \in {"error", "removed"} /\ ~t.handle /\ ~t.sel
    /\ t.no = 0 => ~t.sel
RowsSafe ==
    /\ task \in Seq(TaskRow)
    /\ \A i \in Rows : RowSafe(task[i])
    /\ HashHeldOnce

(* The verdict the flush acts on is about a row that was handed over.      *)
FlushSafe == flush \in 0 .. Len(task) /\ (flush # 0 => task[flush].handle)

(* A call: what it planned, unselected until the last source is planned.   *)
Unselected(list) == \A k \in DOMAIN list : ~list[k].sel
CallShape(q) ==
    /\ DOMAIN q = {"pc", "no", "sub", "todo", "uris", "blobs", "seen", "clash"}
    /\ q.pc \in {"idle", "plan", "insert", "failed"}
    /\ q.no \in Nat
    /\ q.todo \in Seq(Sources) /\ q.uris \in Seq(Plan) /\ q.blobs \in Seq(Plan)
    /\ q.pc \in {"plan", "insert"} => q.sub \in Submissions
    /\ q.pc = "plan" => Unselected(q.uris) /\ Unselected(q.blobs)
    /\ \A k \in DOMAIN q.blobs : ~q.blobs[k].blocked
    /\ \A k \in DOMAIN q.uris : q.uris[k].blocked => q.uris[k].src.kind \in {"remote", "link"} /\ ~q.uris[k].sel
    /\ \A k, l \in DOMAIN q.uris : q.uris[k].sel /\ q.uris[l].sel => k = l
    /\ q.pc = "insert" => q.uris # <<>>
CallsShaped == DOMAIN req = Requests /\ \A r \in Requests : CallShape(req[r])

(* Numbers go down: what is taken lies above what is left.                 *)
Busy(r) == req[r].pc # "idle"
NumbersOwn ==
    /\ budget \in IntakeBudget
    /\ \A i \in Rows : task[i].no # 0 => task[i].no > budget.posts
    /\ \A r \in Requests : Busy(r) => req[r].no > budget.posts
    /\ \A r, q \in Requests : Busy(r) /\ Busy(q) /\ req[r].no = req[q].no => r = q

(* A call under way has no row while it is planned, and no selected row    *)
(* while a selected entry waits.                                           *)
SelectionAhead ==
    \A r \in Requests : \A i \in Rows : task[i].no = req[r].no =>
        /\ req[r].pc # "plan"
        /\ req[r].pc = "insert" /\ task[i].sel => Unselected(req[r].uris)

RowsInv == RowsSafe /\ FlushSafe /\ CallsShaped /\ NumbersOwn /\ SelectionAhead /\ SelectionPlaced

--------------------------------------------------------------------------------
Under == {"list", "file", "find", "insert", "mark", "unlink"}
WithFile == {"find", "insert", "mark", "unlink"}
Lists == Seq(Torrents)

ScanShape(c) ==
    /\ DOMAIN c = {"pc", "row", "todo", "file", "blob"}
    /\ c.pc \in {"idle", "lock"} \union Under
    /\ c.row \in [id : Nat, enabled : BOOLEAN, delete : BOOLEAN]
    /\ c.pc # "idle" => c.row.id \in 1 .. lastId
    /\ c.todo \subseteq Names
    /\ c.pc \in WithFile => c.file \in Names /\ c.blob \in Torrents

FolderShape ==
    /\ lastId \in Nat
    /\ folder \in [id : 0 .. lastId, enabled : BOOLEAN, delete : BOOLEAN]
    /\ watching \in 0 .. lastId
    /\ dir \in [Names -> Torrents \union {NoTorrent}]
    /\ locked \subseteq 1 .. lastId
    /\ loaded \in Seq(Lists) /\ Len(loaded) = lastId
    /\ \A id \in 1 .. lastId : Len(loaded[id]) <= MaxWatchFolderLoaded /\ IsInjective(loaded[id])

ScansShaped == DOMAIN scan = Scanners /\ \A s \in Scanners : ScanShape(scan[s])

(* From the listing to the last unlink a sweep holds its folder's lock,    *)
(* alone.                                                                  *)
SweepsLocked ==
    /\ \A s \in Scanners : scan[s].pc \in Under => scan[s].row.id \in locked
    /\ \A s, z \in Scanners : scan[s].pc \in Under /\ scan[z].pc \in Under /\ scan[s].row.id = scan[z].row.id => s = z

(* What a sweep looks at is not in the loaded set until it marks it.       *)
NotLoadedYet ==
    \A s \in Scanners : scan[s].pc \in {"find", "insert"} => ~Contains(loaded[scan[s].row.id], scan[s].blob)

(* The file of an entry holds the torrent that was read, or another that   *)
(* was dropped over it, or it is gone.                                     *)
FileKnown ==
    \A s \in Scanners : scan[s].pc \in WithFile =>
        /\ dir[scan[s].file] \in {NoTorrent, scan[s].blob} \union swapped
        /\ scan[s].pc \in {"mark", "unlink"} => scan[s].blob \in made

SweepInv ==
    FolderShape /\ ScansShaped /\ SweepsLocked /\ NotLoadedYet /\ FileKnown /\ UnlinkedLoaded /\ NeverReloaded
IntakeInv == RowsInv /\ SweepInv


--------------------------------------------------------------------------------
(* Rows and budgets.                                                       *)

(* The environment's budgets stay counts; only a submission takes a        *)
(* number.                                                                 *)
LEMMA SpentBudget ==
  ASSUME budget \in IntakeBudget, NEW what \in {"posts", "drops", "folders", "faults", "crashes", "removals"},
         Spent(what)
  PROVE  /\ budget' \in IntakeBudget
         /\ what # "posts" => budget'.posts = budget.posts
         /\ what = "posts" => budget.posts > 0 /\ budget'.posts = budget.posts - 1
BY DEF Spent, IntakeBudget

(* Rows, calls and verdict as they were, no number taken.                  *)
LEMMA RowsStay ==
  ASSUME RowsInv, UNCHANGED <<task, req, flush>>, budget' \in IntakeBudget, budget'.posts = budget.posts
  PROVE  RowsInv'
<1>1. (RowsSafe /\ FlushSafe /\ SelectionPlaced)'
  BY DEF RowsInv, RowsSafe, FlushSafe, SelectionPlaced, HashHeldOnce, LiveRows, Rows, RowSafe
<1>2. CallsShaped' /\ SelectionAhead'
  BY DEF RowsInv, CallsShaped, CallShape, SelectionAhead, Unselected, Rows
<1>3. NumbersOwn'
  BY DEF RowsInv, NumbersOwn, Busy, Rows
<1> QED
  BY <1>1, <1>2, <1>3 DEF RowsInv

(* One row is rewritten: its number and selection stay, and if it lives it *)
(* lived before and holds no hash of another live row.                     *)
LEMMA RowWritten ==
  ASSUME RowsInv, NEW i \in Rows, NEW t \in TaskRow, RowSafe(t),
         t.no = task[i].no, t.sel = task[i].sel,
         t.state # "removed" => /\ task[i].state # "removed"
                                /\ \A j \in LiveRows \ {i} : task[j].hashes \intersect t.hashes = {},
         task' = [task EXCEPT ![i] = t], UNCHANGED req,
         flush' \in 0 .. Len(task), flush' # 0 => IF flush' = i THEN t.handle ELSE task[flush'].handle,
         budget' \in IntakeBudget, budget'.posts = budget.posts
  PROVE  RowsInv'
<1>1. task \in Seq(TaskRow) /\ Rows = 1 .. Len(task)
  BY DEF RowsInv, RowsSafe, Rows
<1>2. /\ task' \in Seq(TaskRow) /\ Len(task') = Len(task)
      /\ \A j \in 1 .. Len(task) : task'[j] = IF j = i THEN t ELSE task[j]
  BY <1>1, ExceptSeq
<1>3. Rows' = Rows
  BY <1>1, <1>2 DEF Rows
<1>4. LiveRows' \subseteq LiveRows /\ (i \in LiveRows' => t.state # "removed")
  BY <1>1, <1>2, <1>3 DEF LiveRows
<1>5. HashHeldOnce'
  <2> SUFFICES ASSUME NEW j \in LiveRows', NEW k \in LiveRows', j # k
               PROVE  task'[j].hashes \intersect task'[k].hashes = {}
    BY DEF HashHeldOnce
  <2>1. j \in LiveRows /\ k \in LiveRows /\ j \in 1 .. Len(task) /\ k \in 1 .. Len(task)
    BY <1>1, <1>4 DEF LiveRows
  <2>2. CASE j = i
    BY <1>2, <1>4, <2>1, <2>2
  <2>3. CASE k = i
    BY <1>2, <1>4, <2>1, <2>3
  <2>4. CASE j # i /\ k # i
    BY <1>2, <2>1, <2>4 DEF RowsInv, RowsSafe, HashHeldOnce
  <2> QED
    BY <2>2, <2>3, <2>4
<1>6. \A j \in Rows' : RowSafe(task'[j])
  BY <1>1, <1>2, <1>3 DEF RowsInv, RowsSafe
<1>7. RowsSafe'
  BY <1>2, <1>5, <1>6 DEF RowsSafe, RowSafe
<1>8. FlushSafe'
  BY <1>1, <1>2 DEF FlushSafe
<1>9. \A j \in Rows : task'[j].no = task[j].no /\ task'[j].sel = task[j].sel
  BY <1>1, <1>2
<1>10. SelectionPlaced'
  <2>1. \A j \in Rows' : task'[j].sel => task'[j].code # "ssrf_blocked"
    BY <1>6 DEF RowSafe
  <2>2. \A j, k \in Rows' : task'[j].sel /\ task'[k].sel /\ task'[j].no = task'[k].no => j = k
    BY <1>3, <1>9 DEF RowsInv, SelectionPlaced
  <2> QED
    BY <2>1, <2>2 DEF SelectionPlaced
<1>11. CallsShaped'
  BY DEF RowsInv, CallsShaped, CallShape, Unselected
<1>12. NumbersOwn'
  BY <1>3, <1>9 DEF RowsInv, NumbersOwn, Busy
<1>13. SelectionAhead'
  BY <1>3, <1>9 DEF RowsInv, SelectionAhead, Unselected
<1> QED
  BY <1>7, <1>8, <1>10, <1>11, <1>12, <1>13 DEF RowsInv

(* A row that passes the unique index joins the table.                     *)
LEMMA RowAdded ==
  ASSUME RowsInv, NEW t \in TaskRow, RowSafe(t), UniqueFree(t.hashes), CreateLogged(t), UNCHANGED flush
  PROVE  /\ RowsSafe' /\ FlushSafe'
         /\ Rows' = Rows \union {Len(task) + 1} /\ Len(task) + 1 \notin Rows
         /\ \A j \in Rows : task'[j] = task[j]
         /\ task'[Len(task) + 1] = t
<1>1. task \in Seq(TaskRow) /\ Rows = 1 .. Len(task) /\ Len(task) \in Nat
  BY DEF RowsInv, RowsSafe, Rows
<1>2. /\ task' \in Seq(TaskRow) /\ Len(task') = Len(task) + 1
      /\ \A j \in 1 .. Len(task) : task'[j] = task[j]
      /\ task'[Len(task) + 1] = t
  BY <1>1, AppendProperties DEF CreateLogged
<1>3. Rows' = Rows \union {Len(task) + 1} /\ Len(task) + 1 \notin Rows
  BY <1>1, <1>2 DEF Rows
<1>4. LiveRows' \subseteq LiveRows \union {Len(task) + 1}
  BY <1>1, <1>2, <1>3 DEF LiveRows
<1>5. \A j \in LiveRows : task[j].hashes \intersect t.hashes = {} /\ j \in 1 .. Len(task)
  BY <1>1 DEF UniqueFree, Holders, LiveRows
<1>6. HashHeldOnce'
  <2> SUFFICES ASSUME NEW j \in LiveRows', NEW k \in LiveRows', j # k
               PROVE  task'[j].hashes \intersect task'[k].hashes = {}
    BY DEF HashHeldOnce
  <2>1. CASE j = Len(task) + 1
    BY <1>2, <1>4, <1>5, <2>1
  <2>2. CASE k = Len(task) + 1
    BY <1>2, <1>4, <1>5, <2>2
  <2>3. CASE j # Len(task) + 1 /\ k # Len(task) + 1
    BY <1>2, <1>4, <1>5, <2>3 DEF RowsInv, RowsSafe, HashHeldOnce
  <2> QED
    BY <2>1, <2>2, <2>3
<1>7. \A j \in Rows' : RowSafe(task'[j])
  BY <1>1, <1>2, <1>3 DEF RowsInv, RowsSafe
<1>8. RowsSafe'
  BY <1>2, <1>6, <1>7 DEF RowsSafe, RowSafe
<1>9. FlushSafe'
  BY <1>1, <1>2 DEF RowsInv, FlushSafe
<1> QED
  BY <1>1, <1>2, <1>3, <1>8, <1>9


--------------------------------------------------------------------------------
(* The life of a row.                                                      *)

(* A row's fields.                                                         *)
LEMMA RowFields ==
  ASSUME RowsInv, NEW i \in Rows
  PROVE  /\ task[i] \in TaskRow /\ RowSafe(task[i])
         /\ i \in 1 .. Len(task) /\ Len(task) \in Nat
         /\ flush \in 0 .. Len(task) /\ (flush # 0 => task[flush].handle)
         /\ budget \in IntakeBudget
         /\ i \in LiveRows => \A j \in LiveRows \ {i} : task[j].hashes \intersect task[i].hashes = {}
BY DEF RowsInv, RowsSafe, FlushSafe, NumbersOwn, HashHeldOnce, LiveRows, Rows

LEMMA AdmitSafe ==
  ASSUME RowsInv, NEW i \in Rows, Admit(i)
  PROVE  RowsInv'
<1> DEFINE t == [task[i] EXCEPT !.state = "downloading", !.handle = TRUE]
<1>1. task' = [task EXCEPT ![i] = t]
  BY DEF Admit
<1>2. task[i] \in TaskRow /\ task[i].state = "queued" /\ i \in LiveRows
  BY RowFields DEF Admit, LiveRows
<1>3. /\ t \in TaskRow /\ t.no = task[i].no /\ t.sel = task[i].sel /\ t.hashes = task[i].hashes
      /\ t.handle /\ RowSafe(t)
  BY <1>2, RowFields DEF TaskRow, RowSafe
<1> HIDE DEF t
<1> QED
  BY <1>1, <1>2, <1>3, RowFields, RowWritten DEF Admit

LEMMA ResumeSafe ==
  ASSUME RowsInv, NEW i \in Rows, Resume(i)
  PROVE  RowsInv'
<1> DEFINE t == [task[i] EXCEPT !.state = "queued"]
<1>1. task' = [task EXCEPT ![i] = t]
  BY DEF Resume
<1>2. task[i] \in TaskRow /\ task[i].code # "ssrf_blocked" /\ i \in LiveRows
  BY RowFields DEF Resume, Accepts, LiveRows
<1>3. /\ t \in TaskRow /\ t.no = task[i].no /\ t.sel = task[i].sel /\ t.hashes = task[i].hashes
      /\ t.handle = task[i].handle /\ RowSafe(t)
  BY <1>2, RowFields DEF TaskRow, RowSafe
<1> HIDE DEF t
<1> QED
  BY <1>1, <1>2, <1>3, RowFields, RowWritten DEF Resume, LiveRows

LEMMA RemoveRowSafe ==
  ASSUME RowsInv, NEW i \in Rows, RemoveRow(i)
  PROVE  RowsInv'
<1> DEFINE t == [task[i] EXCEPT !.state = "removed"]
<1>1. task' = [task EXCEPT ![i] = t]
  BY DEF RemoveRow
<1>2. task[i] \in TaskRow
  BY RowFields
<1>3. /\ t \in TaskRow /\ t.no = task[i].no /\ t.sel = task[i].sel /\ t.state = "removed"
      /\ t.handle = task[i].handle /\ RowSafe(t)
  BY <1>2, RowFields DEF TaskRow, RowSafe
<1>4. budget' \in IntakeBudget /\ budget'.posts = budget.posts
  BY RowFields, SpentBudget DEF RemoveRow
<1> HIDE DEF t
<1> QED
  BY <1>1, <1>2, <1>3, <1>4, RowFields, RowWritten DEF RemoveRow

(* The metadata write-back: the pair lands only where no other live row    *)
(* holds either hash.                                                      *)
LEMMA ResolveInfohashesSafe ==
  ASSUME RowsInv, NEW i \in Rows, ResolveInfohashes(i)
  PROVE  RowsInv'
<1> DEFINE pair == Hashes(task[i].src.torrent)
           others == Holders(task[i].hashes \union pair) \ {i}
           t == [task[i] EXCEPT !.hashes = task[i].hashes \union pair, !.landed = TRUE]
<1>1. /\ task[i] \in TaskRow /\ i \in LiveRows /\ task[i].handle /\ task[i].src.torrent # NoTorrent
      /\ UNCHANGED <<req, budget>>
  BY RowFields DEF ResolveInfohashes
<1>2. CASE others = {}
  <2>1. flush' = 0 /\ task' = [task EXCEPT ![i] = t]
    BY <1>2 DEF ResolveInfohashes, SetInfohashes
  <2>2. pair \subseteq HashesOf(task[i].src.torrent) /\ pair \subseteq Torrents \X {"v1", "v2"}
    BY <1>1 DEF HashesOf, Hashes
  <2> HIDE DEF pair
  <2>3. /\ t \in TaskRow /\ t.no = task[i].no /\ t.sel = task[i].sel
        /\ t.handle = task[i].handle /\ t.hashes = task[i].hashes \union pair /\ RowSafe(t)
    BY <1>1, <2>2, RowFields DEF TaskRow, RowSafe
  <2>4. \A j \in LiveRows \ {i} : task[j].hashes \intersect (task[i].hashes \union pair) = {}
    BY <1>2 DEF Holders
  <2>5. t.state # "removed" => task[i].state # "removed" /\ \A j \in LiveRows \ {i} : task[j].hashes \intersect t.hashes = {}
    BY <1>1, <2>3, <2>4 DEF LiveRows
  <2>6. flush' \in 0 .. Len(task) /\ budget' \in IntakeBudget /\ budget'.posts = budget.posts
    BY <1>1, <2>1, RowFields
  <2> HIDE DEF t
  <2> QED
    BY <1>1, <2>1, <2>3, <2>5, <2>6, RowWritten
<1>3. CASE others # {}
  <2>1. flush' = i /\ UNCHANGED task
    BY <1>3 DEF ResolveInfohashes, SetInfohashes
  <2>2. task' = [task EXCEPT ![i] = task[i]]
    BY <2>1, RowFields DEF RowsInv, RowsSafe
  <2> DEFINE u == task[i]
  <2>3. u \in TaskRow /\ RowSafe(u) /\ u.no = task[i].no /\ u.sel = task[i].sel /\ u.handle
    BY <1>1, RowFields
  <2>4. u.state # "removed" => task[i].state # "removed" /\ \A j \in LiveRows \ {i} : task[j].hashes \intersect u.hashes = {}
    BY <1>1, RowFields
  <2> HIDE DEF u
  <2>5. task' = [task EXCEPT ![i] = u]
    BY <2>2 DEF u
  <2>6. flush' \in 0 .. Len(task) /\ budget' \in IntakeBudget /\ budget'.posts = budget.posts
    BY <1>1, <2>1, RowFields
  <2> QED
    BY <1>1, <2>1, <2>3, <2>4, <2>5, <2>6, RowWritten
<1> QED
  BY <1>2, <1>3

LEMMA PauseDuplicateSafe ==
  ASSUME RowsInv, PauseDuplicate
  PROVE  RowsInv'
<1>1. flush \in Rows /\ task[flush].handle
  BY DEF PauseDuplicate, RowsInv, FlushSafe, RowsSafe, Rows
<1> DEFINE i == flush
           b == Pausable(i)
           t == [task[i] EXCEPT !.landed = TRUE,
                                !.state = IF b THEN "paused" ELSE task[i].state,
                                !.code = IF b THEN "torrent_duplicate" ELSE task[i].code]
<1>2. task' = [task EXCEPT ![i] = t]
  BY DEF PauseDuplicate
<1>3. task[i] \in TaskRow /\ RowSafe(task[i])
  BY <1>1, RowFields
<1>4. b => task[i].state # "removed"
  BY DEF Pausable
<1>5. /\ t \in TaskRow /\ t.no = task[i].no /\ t.sel = task[i].sel /\ t.hashes = task[i].hashes
      /\ t.handle = task[i].handle /\ RowSafe(t)
      /\ t.state # "removed" => task[i].state # "removed"
  <2> HIDE DEF b
  <2>1. CASE b
    BY <1>3, <1>4, <2>1 DEF TaskRow, RowSafe
  <2>2. CASE ~b
    BY <1>3, <1>4, <2>2 DEF TaskRow, RowSafe
  <2> QED
    BY <2>1, <2>2
<1> HIDE DEF t
<1>6. t.state # "removed" => /\ task[i].state # "removed"
                             /\ \A j \in LiveRows \ {i} : task[j].hashes \intersect t.hashes = {}
  BY <1>1, <1>5, RowFields DEF LiveRows
<1>7. /\ flush' = 0 /\ flush' \in 0 .. Len(task) /\ budget' \in IntakeBudget /\ budget'.posts = budget.posts
      /\ UNCHANGED req
  BY <1>1, RowFields DEF PauseDuplicate
<1> HIDE DEF i
<1>8. i \in Rows
  BY <1>1 DEF i
<1> QED
  BY <1>2, <1>5, <1>6, <1>7, <1>8, RowWritten


--------------------------------------------------------------------------------
(* The calls of POST /tasks.                                               *)

(* One call moves on, nobody else does: its record keeps its shape, its    *)
(* number is its own, and its rows are behind its selection.               *)
LEMMA CallMoved ==
  ASSUME RowsInv, NEW r \in Requests, NEW q, CallShape(q),
         req' = [req EXCEPT ![r] = q], UNCHANGED <<task, flush>>,
         budget' \in IntakeBudget, budget'.posts <= budget.posts,
         q.pc # "idle" => q.no > budget'.posts /\ \A z \in Requests \ {r} : Busy(z) => req[z].no # q.no,
         \A i \in Rows : task[i].no = q.no =>
            q.pc # "plan" /\ (q.pc = "insert" /\ task[i].sel => Unselected(q.uris))
  PROVE  RowsInv'
<1>1. DOMAIN req' = Requests /\ req'[r] = q /\ \A z \in Requests \ {r} : req'[z] = req[z]
  BY DEF RowsInv, CallsShaped
<1>2. (RowsSafe /\ FlushSafe /\ SelectionPlaced)'
  BY DEF RowsInv, RowsSafe, FlushSafe, SelectionPlaced, HashHeldOnce, LiveRows, Rows, RowSafe
<1>3. \A z \in Requests : CallShape(req'[z])
  BY <1>1 DEF RowsInv, CallsShaped
<1>4. CallsShaped'
  BY <1>1, <1>3 DEF CallsShaped, CallShape, Unselected
<1>5. NumbersOwn'
  <2>1. budget.posts \in Nat /\ budget'.posts \in Nat
    BY DEF RowsInv, NumbersOwn, IntakeBudget
  <2>2. \A i \in Rows' : task'[i].no # 0 => task'[i].no > budget'.posts
    <3>1. \A i \in Rows : task[i].no \in Nat
      BY RowFields DEF TaskRow
    <3> QED
      BY <2>1, <3>1 DEF RowsInv, NumbersOwn, Rows
  <2>3. \A z \in Requests : Busy(z)' => req'[z].no > budget'.posts
    <3> SUFFICES ASSUME NEW z \in Requests, Busy(z)' PROVE req'[z].no > budget'.posts
      OBVIOUS
    <3>1. CASE z = r
      BY <1>1, <3>1 DEF Busy
    <3>2. CASE z # r
      <4>1. req'[z] = req[z] /\ req[z].no \in Nat
        BY <1>1, <3>2 DEF RowsInv, CallsShaped, CallShape
      <4> QED
        BY <2>1, <4>1 DEF RowsInv, NumbersOwn, Busy
    <3> QED
      BY <3>1, <3>2
  <2>4. \A z, y \in Requests : Busy(z)' /\ Busy(y)' /\ req'[z].no = req'[y].no => z = y
    BY <1>1 DEF RowsInv, NumbersOwn, Busy
  <2> QED
    BY <2>2, <2>3, <2>4 DEF NumbersOwn
<1>6. SelectionAhead'
  <2> SUFFICES ASSUME NEW z \in Requests, NEW i \in Rows', task'[i].no = req'[z].no
               PROVE  req'[z].pc # "plan" /\ (req'[z].pc = "insert" /\ task'[i].sel => Unselected(req'[z].uris))
    BY DEF SelectionAhead, Unselected
  <2>1. i \in Rows /\ task'[i] = task[i]
    BY DEF Rows
  <2>2. CASE z = r
    BY <1>1, <2>1, <2>2
  <2>3. CASE z # r
    BY <1>1, <2>1, <2>3 DEF RowsInv, SelectionAhead
  <2> QED
    BY <2>2, <2>3
<1> QED
  BY <1>2, <1>4, <1>5, <1>6 DEF RowsInv

LEMMA IdleShape == CallShape(NoReq) /\ NoReq.pc = "idle"
BY DEF CallShape, NoReq, Unselected

(* A call ends, whatever it had planned.                                   *)
LEMMA CallEnds ==
  ASSUME RowsInv, NEW r \in Requests, req' = [req EXCEPT ![r] = NoReq], UNCHANGED <<task, flush>>,
         budget' \in IntakeBudget, budget'.posts = budget.posts
  PROVE  RowsInv'
<1> DEFINE q == NoReq
<1>1. CallShape(q) /\ q.pc = "idle" /\ req' = [req EXCEPT ![r] = q]
  BY IdleShape
<1>2. budget'.posts <= budget.posts
  BY DEF IntakeBudget, RowsInv, NumbersOwn
<1> HIDE DEF q
<1> QED
  BY <1>1, <1>2, CallMoved

LEMMA RequestFailsSafe ==
  ASSUME RowsInv, NEW r \in Requests, RequestFails(r)
  PROVE  RowsInv'
<1>1. budget \in IntakeBudget
  BY DEF RowsInv, NumbersOwn
<1>2. budget' \in IntakeBudget /\ budget'.posts = budget.posts
  BY <1>1, SpentBudget DEF RequestFails
<1> QED
  BY <1>2, CallEnds DEF RequestFails

LEMMA AnsweredSafe ==
  ASSUME RowsInv, NEW r \in Requests, Answered(r)
  PROVE  RowsInv'
<1>1. budget' \in IntakeBudget /\ budget'.posts = budget.posts
  BY DEF RowsInv, NumbersOwn, Answered
<1> QED
  BY <1>1, CallEnds DEF Answered

(* What a submission names is well formed.                                 *)
LEMMA SubmissionSources ==
  ASSUME NEW s \in Submissions
  PROVE  s.blobs \in Seq(Sources) /\ s.uris \in Seq(Sources) /\ s.blobs \o s.uris \in Seq(Sources)
<1>1. s.blobs \in Seq(Source) /\ s.uris \in Seq(Source)
  BY IntakeAssumption DEF Submission
<1>2. \A i \in DOMAIN s.blobs : s.blobs[i] \in Sources
  BY <1>1, IntakeAssumption DEF Sources
<1>3. \A i \in DOMAIN s.uris : s.uris[i] \in Sources
  BY <1>1, IntakeAssumption DEF Sources
<1>4. s.blobs \in Seq(Sources) /\ s.uris \in Seq(Sources)
  <2> DEFINE a == s.blobs  b == s.uris
  <2>1. a \in Seq(Source) /\ b \in Seq(Source) /\ (\A i \in DOMAIN a : a[i] \in Sources) /\ (\A i \in DOMAIN b : b[i] \in Sources)
    BY <1>1, <1>2, <1>3
  <2> HIDE DEF a, b
  <2>2. a \in Seq(Sources) /\ b \in Seq(Sources)
    BY <2>1, SeqDef
  <2> QED
    BY <2>2 DEF a, b
<1> QED
  BY <1>4, ConcatProperties

(* A submission takes the number above what is left, so no row and no call *)
(* has it.                                                                 *)
LEMMA SubmitSafe ==
  ASSUME RowsInv, NEW r \in Requests, Submit(r)
  PROVE  RowsInv'
<1>1. PICK s \in Submissions :
        req' = [req EXCEPT ![r] = [NoReq EXCEPT !.pc = "plan", !.sub = s, !.todo = s.blobs \o s.uris, !.no = budget.posts]]
  BY DEF Submit
<1> DEFINE l == s.blobs \o s.uris
           q == [NoReq EXCEPT !.pc = "plan", !.sub = s, !.todo = l, !.no = budget.posts]
<1>2. /\ budget \in IntakeBudget /\ budget' \in IntakeBudget
      /\ budget.posts \in Nat /\ budget'.posts \in Nat /\ budget.posts > 0 /\ budget'.posts = budget.posts - 1
  <2>1. budget \in IntakeBudget
    BY DEF RowsInv, NumbersOwn
  <2>2. budget' \in IntakeBudget /\ budget.posts > 0 /\ budget'.posts = budget.posts - 1
    BY <2>1, SpentBudget DEF Submit
  <2> QED
    BY <2>1, <2>2 DEF IntakeBudget
<1>3. CallShape(q) /\ q.pc = "plan" /\ q.no = budget.posts
  <2>1. l \in Seq(Sources)
    BY SubmissionSources
  <2> HIDE DEF l
  <2>2. /\ DOMAIN q = {"pc", "no", "sub", "todo", "uris", "blobs", "seen", "clash"}
        /\ q.pc = "plan" /\ q.no = budget.posts /\ q.sub = s /\ q.todo = l /\ q.uris = <<>> /\ q.blobs = <<>>
    BY DEF NoReq
  <2> HIDE DEF q
  <2> QED
    BY <1>2, <2>1, <2>2 DEF CallShape, Unselected
<1>4. \A z \in Requests \ {r} : Busy(z) => req[z].no # budget.posts
  BY <1>2 DEF RowsInv, NumbersOwn
<1>5. \A i \in Rows : task[i].no # budget.posts
  BY <1>2 DEF RowsInv, NumbersOwn
<1>6. req' = [req EXCEPT ![r] = q] /\ UNCHANGED <<task, flush>>
  BY <1>1 DEF Submit
<1> HIDE DEF q
<1>7. budget'.posts <= budget.posts /\ q.no > budget'.posts
  BY <1>2, <1>3
<1> QED
  BY <1>2, <1>3, <1>4, <1>5, <1>6, <1>7, CallMoved


--------------------------------------------------------------------------------
(* Planning.                                                               *)

(* A planned list: entries of it, none selected yet, only links blocked.   *)
PlannedList(list) ==
    /\ list \in Seq(Plan)
    /\ Unselected(list)
    /\ \A k \in DOMAIN list : list[k].blocked => list[k].src.kind \in {"remote", "link"}
OpenList(list) == \A k \in DOMAIN list : ~list[k].blocked

LEMMA ListGrows ==
  ASSUME NEW list, PlannedList(list), NEW s \in Sources, NEW b \in BOOLEAN, b => s.kind \in {"remote", "link"}
  PROVE  /\ PlannedList(Append(list, Planned(s, b)))
         /\ OpenList(list) /\ ~b => OpenList(Append(list, Planned(s, b)))
<1> DEFINE p == Planned(s, b)
           more == Append(list, p)
<1>1. p \in Plan /\ p.src = s /\ p.blocked = b /\ p.sel = FALSE
  BY DEF Planned, Plan
<1> HIDE DEF p
<1>2. list \in Seq(Plan)
  BY DEF PlannedList
<1>3. /\ more \in Seq(Plan) /\ Len(more) = Len(list) + 1 /\ Len(list) \in Nat
      /\ \A k \in 1 .. Len(list) : more[k] = list[k]
      /\ more[Len(list) + 1] = p
  BY <1>1, <1>2, AppendProperties
<1>4. \A k \in DOMAIN more : more[k] = p \/ (k \in DOMAIN list /\ more[k] = list[k])
  BY <1>2, <1>3
<1> HIDE DEF more
<1>5. PlannedList(more)
  BY <1>1, <1>3, <1>4 DEF PlannedList, Unselected
<1>6. OpenList(list) /\ ~b => OpenList(more)
  BY <1>1, <1>4 DEF OpenList
<1> QED
  BY <1>5, <1>6 DEF more, p

(* The next source of a call that is being planned.                        *)
LEMMA NextSource ==
  ASSUME RowsInv, NEW r \in Requests, req[r].pc = "plan"
  PROVE  /\ CallShape(req[r]) /\ PlannedList(req[r].uris) /\ PlannedList(req[r].blobs) /\ OpenList(req[r].blobs)
         /\ req[r].todo # <<>> => Head(req[r].todo) \in Sources /\ Tail(req[r].todo) \in Seq(Sources)
<1>1. CallShape(req[r])
  BY DEF RowsInv, CallsShaped
<1>2. req[r].todo \in Seq(Sources)
  BY <1>1 DEF CallShape
<1>3. req[r].todo # <<>> => Head(req[r].todo) \in Sources /\ Tail(req[r].todo) \in Seq(Sources)
  BY <1>2, HeadTailProperties
<1>4. PlannedList(req[r].uris) /\ PlannedList(req[r].blobs) /\ OpenList(req[r].blobs)
  BY <1>1 DEF CallShape, PlannedList, OpenList
<1> QED
  BY <1>1, <1>3, <1>4

(* One source is decided.                                                  *)
LEMMA PlanMoved ==
  ASSUME RowsInv, NEW r \in Requests, req[r].pc = "plan", req[r].todo # <<>>,
         NEW rec, DOMAIN rec = DOMAIN req[r],
         rec.pc = req[r].pc, rec.no = req[r].no, rec.sub = req[r].sub, rec.todo = req[r].todo,
         PlannedList(rec.uris), PlannedList(rec.blobs), OpenList(rec.blobs),
         PlanAs(r, rec)
  PROVE  RowsInv'
<1> DEFINE q == [rec EXCEPT !.todo = Tail(req[r].todo)]
<1>1. req' = [req EXCEPT ![r] = q] /\ UNCHANGED <<task, flush, budget>>
  BY DEF PlanAs
<1>2. CallShape(req[r]) /\ Tail(req[r].todo) \in Seq(Sources)
  BY NextSource
<1>3. /\ DOMAIN q = {"pc", "no", "sub", "todo", "uris", "blobs", "seen", "clash"}
      /\ q.pc = "plan" /\ q.no = req[r].no /\ q.sub = req[r].sub /\ q.todo = Tail(req[r].todo)
      /\ q.uris = rec.uris /\ q.blobs = rec.blobs
  BY <1>2 DEF CallShape
<1> HIDE DEF q
<1>4. CallShape(q)
  BY <1>2, <1>3 DEF CallShape, PlannedList, OpenList, Unselected
<1>5. /\ budget' \in IntakeBudget /\ budget'.posts <= budget.posts
      /\ q.no > budget'.posts /\ \A z \in Requests \ {r} : Busy(z) => req[z].no # q.no
  BY <1>1, <1>3 DEF RowsInv, NumbersOwn, Busy, IntakeBudget
<1>6. \A i \in Rows : task[i].no # q.no
  BY <1>3 DEF RowsInv, SelectionAhead
<1> QED
  BY <1>1, <1>4, <1>5, <1>6, CallMoved

LEMMA RefusedSafe ==
  ASSUME RowsInv, NEW r \in Requests, req[r].pc = "plan", req[r].todo # <<>>, Refused(r)
  PROVE  RowsInv'
<1> DEFINE rec == req[r]
<1>1. /\ DOMAIN rec = DOMAIN req[r] /\ rec.pc = req[r].pc /\ rec.no = req[r].no /\ rec.sub = req[r].sub
      /\ rec.todo = req[r].todo /\ PlannedList(rec.uris) /\ PlannedList(rec.blobs) /\ OpenList(rec.blobs)
      /\ PlanAs(r, rec)
  BY NextSource DEF Refused
<1> HIDE DEF rec
<1> QED
  BY <1>1, PlanMoved

LEMMA PlanTransferSafe ==
  ASSUME RowsInv, NEW r \in Requests, req[r].pc = "plan", req[r].todo # <<>>, NEW s \in Sources, PlanTransfer(r, s)
  PROVE  RowsInv'
<1> DEFINE more == Append(req[r].uris, Planned(s, FALSE))
           seen == markPlanned(req[r].seen, s)
           rec == [req[r] EXCEPT !.seen = seen, !.uris = more]
<1>1. PlanAs(r, rec)
  BY DEF PlanTransfer
<1>2. PlannedList(more)
  BY NextSource, ListGrows
<1>3. CallShape(req[r]) /\ PlannedList(req[r].blobs) /\ OpenList(req[r].blobs)
  BY NextSource
<1> HIDE DEF more, seen
<1>4. /\ DOMAIN rec = DOMAIN req[r] /\ rec.pc = req[r].pc /\ rec.no = req[r].no /\ rec.sub = req[r].sub
      /\ rec.todo = req[r].todo /\ rec.uris = more /\ rec.blobs = req[r].blobs
  BY <1>3 DEF CallShape
<1> HIDE DEF rec
<1> QED
  BY <1>1, <1>2, <1>3, <1>4, PlanMoved

LEMMA PlanBlobSafe ==
  ASSUME RowsInv, NEW r \in Requests, PlanBlob(r)
  PROVE  RowsInv'
<1>1. req[r].pc = "plan" /\ req[r].todo # <<>>
  BY DEF PlanBlob, Planning
<1> DEFINE s == Head(req[r].todo)
           more == Append(req[r].blobs, Planned(s, FALSE))
           seen == markPlanned(req[r].seen, s)
           rec == [req[r] EXCEPT !.seen = seen, !.blobs = more]
<1>2. Refused(r) \/ PlanAs(r, rec)
  BY DEF PlanBlob
<1>3. s \in Sources
  BY <1>1, NextSource
<1> HIDE DEF s
<1>4. PlannedList(more) /\ OpenList(more)
  BY <1>1, <1>3, NextSource, ListGrows
<1>5. CallShape(req[r]) /\ PlannedList(req[r].uris)
  BY <1>1, NextSource
<1> HIDE DEF more, seen
<1>6. /\ DOMAIN rec = DOMAIN req[r] /\ rec.pc = req[r].pc /\ rec.no = req[r].no /\ rec.sub = req[r].sub
      /\ rec.todo = req[r].todo /\ rec.blobs = more /\ rec.uris = req[r].uris
  BY <1>5 DEF CallShape
<1> HIDE DEF rec
<1>7. PlanAs(r, rec) => RowsInv'
  BY <1>1, <1>4, <1>5, <1>6, PlanMoved
<1> QED
  BY <1>1, <1>2, <1>7, RefusedSafe

(* A URI the preflight refuses is a link, and keeps its terminal entry.    *)
LEMMA PlanURISafe ==
  ASSUME RowsInv, NEW r \in Requests, PlanURI(r) \/ PlanResult(r)
  PROVE  RowsInv'
<1>1. req[r].pc = "plan" /\ req[r].todo # <<>>
  BY DEF PlanURI, PlanResult, Planning
<1> DEFINE s == Head(req[r].todo)
           more == Append(req[r].uris, Planned(s, TRUE))
           rec == [req[r] EXCEPT !.uris = more]
<1>2. Refused(r) \/ PlanTransfer(r, s) \/ (s.kind \in {"remote", "link"} /\ PlanAs(r, rec))
  BY DEF PlanURI, PlanResult
<1>3. s \in Sources
  BY <1>1, NextSource
<1> HIDE DEF s
<1>4. CASE s.kind \in {"remote", "link"} /\ PlanAs(r, rec)
  <2>1. PlannedList(more)
    BY <1>1, <1>3, <1>4, NextSource, ListGrows
  <2>2. CallShape(req[r]) /\ PlannedList(req[r].blobs) /\ OpenList(req[r].blobs)
    BY <1>1, NextSource
  <2> HIDE DEF more
  <2>3. /\ DOMAIN rec = DOMAIN req[r] /\ rec.pc = req[r].pc /\ rec.no = req[r].no /\ rec.sub = req[r].sub
        /\ rec.todo = req[r].todo /\ rec.uris = more /\ rec.blobs = req[r].blobs
    BY <2>2 DEF CallShape
  <2> HIDE DEF rec
  <2> QED
    BY <1>1, <1>4, <2>1, <2>2, <2>3, PlanMoved
<1> QED
  BY <1>1, <1>2, <1>3, <1>4, RefusedSafe, PlanTransferSafe


--------------------------------------------------------------------------------
(* The selection.                                                          *)

(* A set of counts has a least one.                                        *)
LEMMA LeastOf ==
  ASSUME NEW I, I \subseteq Nat, I # {}
  PROVE  \E x \in I : \A y \in I : x <= y
<1> DEFINE R == OpToRel(<, Nat)
<1>1. \E x \in I : \A y \in I : ~(<<y, x>> \in R)
  BY NatLessThanWellFounded, WFMin
<1>2. PICK x \in I : \A y \in I : ~(<<y, x>> \in R)
  BY <1>1
<1>3. R = {ss \in Nat \X Nat : ss[1] < ss[2]}
  BY DEF OpToRel
<1> HIDE DEF R
<1>4. \A y \in I : ~(y < x)
  <2> SUFFICES ASSUME NEW y \in I, y < x PROVE FALSE
    OBVIOUS
  <2>1. <<y, x>> \in Nat \X Nat
    OBVIOUS
  <2>2. <<y, x>>[1] = y /\ <<y, x>>[2] = x
    OBVIOUS
  <2>3. <<y, x>> \in R
    BY <1>3, <2>1, <2>2
  <2> QED
    BY <1>2, <2>3
<1> QED
  BY <1>4

LEMMA MinIn ==
  ASSUME NEW I, I \subseteq Nat, I # {}
  PROVE  Min(I) \in I
BY LeastOf DEF Min

(* The target of a selection is an entry whose manifest is known or may    *)
(* turn up: no blocked one.                                                *)
LEMMA TargetOpen ==
  ASSUME NEW planned, PlannedList(planned), selectionTarget(planned) \in DOMAIN planned
  PROVE  ~planned[selectionTarget(planned)].blocked
<1>1. planned \in Seq(Plan) /\ DOMAIN planned = 1 .. Len(planned) /\ Len(planned) \in Nat
  BY DEF PlannedList
<1> DEFINE M == {i \in 1 .. Len(planned) : planned[i].src.multi}
           U == {i \in 1 .. Len(planned) : Unknown(planned[i])}
           target == selectionTarget(planned)
<1>2. target = IF \E i \in DOMAIN planned : planned[i].src.multi
                 THEN (IF M # {} THEN Min(M) ELSE 0) ELSE (IF U # {} THEN Min(U) ELSE 0)
  BY DEF selectionTarget, SelectInSeq
<1>3. (M # {} => Min(M) \in M) /\ (U # {} => Min(U) \in U)
  <2>1. M \subseteq Nat /\ U \subseteq Nat
    BY <1>1
  <2> HIDE DEF M, U
  <2> QED
    BY <2>1, MinIn
<1>4. target \in M \/ target \in U
  <2> HIDE DEF M, U, target
  <2>1. target \in 1 .. Len(planned)
    BY <1>1 DEF target
  <2> QED
    BY <1>2, <1>3, <2>1
<1> HIDE DEF target
<1>5. CASE target \in M
  <2>1. planned[target] \in Plan /\ planned[target].src.multi
    BY <1>1, <1>5
  <2>2. planned[target].src.kind \notin {"remote", "link"}
    BY <2>1 DEF Plan, Sources, WellFormed
  <2> QED
    BY <1>1, <1>5, <2>2 DEF PlannedList, target
<1>6. CASE target \in U
  BY <1>6 DEF Unknown, target
<1> QED
  BY <1>4, <1>5, <1>6

LEMMA JoinedList ==
  ASSUME NEW a, NEW b, PlannedList(a), PlannedList(b)
  PROVE  PlannedList(a \o b)
<1> DEFINE c == a \o b
<1>1. a \in Seq(Plan) /\ b \in Seq(Plan)
  BY DEF PlannedList
<1>2. /\ c \in Seq(Plan) /\ Len(c) = Len(a) + Len(b) /\ Len(a) \in Nat /\ Len(b) \in Nat
      /\ \A i \in 1 .. Len(c) : c[i] = IF i <= Len(a) THEN a[i] ELSE b[i - Len(a)]
  BY <1>1, ConcatProperties, LenProperties
<1> HIDE DEF c
<1>3. \A i \in DOMAIN c : (i \in DOMAIN a /\ c[i] = a[i]) \/ (i - Len(a) \in DOMAIN b /\ c[i] = b[i - Len(a)])
  BY <1>1, <1>2
<1>4. PlannedList(c)
  BY <1>2, <1>3 DEF PlannedList, Unselected
<1> QED
  BY <1>4 DEF c

(* The list is fixed with the selection on one open entry, or the call     *)
(* ends.                                                                   *)
LEMMA validateSelectionSafe ==
  ASSUME RowsInv, NEW r \in Requests, validateSelection(r)
  PROVE  RowsInv'
<1> DEFINE planned == req[r].uris \o req[r].blobs
           target == selectionTarget(planned)
           chosen == [i \in DOMAIN planned |-> [planned[i] EXCEPT !.sel = req[r].sub.select /\ i = target]]
           q == [req[r] EXCEPT !.pc = "insert", !.blobs = <<>>, !.uris = chosen]
<1>1. req[r].pc = "plan" /\ UNCHANGED <<task, flush, budget>>
  BY DEF validateSelection
<1>2. \/ req' = [req EXCEPT ![r] = NoReq]
      \/ planned # <<>> /\ req' = [req EXCEPT ![r] = q]
  BY DEF validateSelection
<1>3. budget' \in IntakeBudget /\ budget'.posts = budget.posts /\ budget'.posts <= budget.posts
  BY <1>1 DEF RowsInv, NumbersOwn, IntakeBudget
<1>4. CASE req' = [req EXCEPT ![r] = NoReq]
  BY <1>1, <1>3, <1>4, CallEnds
<1>5. CASE planned # <<>> /\ req' = [req EXCEPT ![r] = q]
  <2>1. CallShape(req[r])
    BY <1>1, NextSource
  <2>2. PlannedList(planned)
    BY <1>1, NextSource, JoinedList
  <2>3. target \in DOMAIN planned => ~planned[target].blocked
    BY <2>2, TargetOpen
  <2> DEFINE sel(i) == req[r].sub.select /\ i = target
  <2>4. req[r].sub.select \in BOOLEAN
    <3>1. req[r].sub \in Submission
      BY <1>1, <2>1, IntakeAssumption DEF CallShape
    <3> QED
      BY <3>1 DEF Submission
  <2>5. \A i \in DOMAIN planned : sel(i) \in BOOLEAN
    BY <2>4
  <2> HIDE DEF planned, target
  <2>6. planned \in Seq(Plan) /\ DOMAIN planned = 1 .. Len(planned) /\ Len(planned) \in Nat
    BY <2>2 DEF PlannedList
  <2>7. \A i \in DOMAIN planned : planned[i] \in Plan
    BY <2>6
  <2>8. \A i \in DOMAIN planned : /\ chosen[i] \in Plan
                                  /\ chosen[i].sel = sel(i)
                                  /\ chosen[i].blocked = planned[i].blocked
                                  /\ chosen[i].src = planned[i].src
    <3> HIDE DEF sel
    <3> SUFFICES ASSUME NEW i \in DOMAIN planned
                 PROVE  /\ chosen[i] \in Plan /\ chosen[i].sel = sel(i)
                        /\ chosen[i].blocked = planned[i].blocked /\ chosen[i].src = planned[i].src
      OBVIOUS
    <3>1. chosen[i] = [planned[i] EXCEPT !.sel = sel(i)]
      BY DEF sel
    <3>2. planned[i] \in Plan /\ sel(i) \in BOOLEAN
      BY <2>5, <2>7
    <3> HIDE DEF chosen
    <3> QED
      BY <3>1, <3>2 DEF Plan
  <2>9. DOMAIN chosen = DOMAIN planned /\ chosen \in Seq(Plan) /\ chosen # <<>>
    <3>1. DOMAIN chosen = DOMAIN planned
      OBVIOUS
    <3>2. chosen \in [1 .. Len(planned) -> Plan]
      BY <2>6, <2>8
    <3> HIDE DEF chosen
    <3>3. chosen \in Seq(Plan)
      BY <2>6, <3>2, SeqDef
    <3>4. Len(planned) # 0
      BY <1>5, <2>6, EmptySeq
    <3> QED
      BY <2>6, <3>1, <3>3, <3>4
  <2> HIDE DEF chosen
  <2>10. /\ DOMAIN q = {"pc", "no", "sub", "todo", "uris", "blobs", "seen", "clash"}
         /\ q.pc = "insert" /\ q.no = req[r].no /\ q.sub = req[r].sub /\ q.todo = req[r].todo
         /\ q.uris = chosen /\ q.blobs = <<>>
    BY <2>1 DEF CallShape
  <2>11. \A k \in DOMAIN chosen : chosen[k].blocked => chosen[k].src.kind \in {"remote", "link"} /\ ~chosen[k].sel
    BY <2>2, <2>3, <2>8, <2>9 DEF PlannedList
  <2>12. \A k, l \in DOMAIN chosen : chosen[k].sel /\ chosen[l].sel => k = l
    BY <2>8, <2>9
  <2> HIDE DEF q
  <2>13. CallShape(q)
    BY <1>1, <2>1, <2>9, <2>10, <2>11, <2>12 DEF CallShape, Unselected
  <2>14. q.no > budget'.posts /\ \A z \in Requests \ {r} : Busy(z) => req[z].no # q.no
    BY <1>1, <1>3, <2>10 DEF RowsInv, NumbersOwn, Busy
  <2>15. \A i \in Rows : task[i].no # q.no
    BY <1>1, <2>10 DEF RowsInv, SelectionAhead
  <2> QED
    BY <1>1, <1>3, <1>5, <2>13, <2>14, <2>15, CallMoved
<1> QED
  BY <1>2, <1>4, <1>5


--------------------------------------------------------------------------------
(* The inserts.                                                            *)

(* The call moves to its next entry.                                       *)
LEMMA NextEntry ==
  ASSUME NEW q, CallShape(q), q.pc = "insert", NEW n, n = [q EXCEPT !.uris = Tail(q.uris)], Len(q.uris) # 1
  PROVE  /\ CallShape(n) /\ n.pc = "insert" /\ n.no = q.no
         /\ q.uris[1].sel \/ Unselected(q.uris) => Unselected(n.uris)
<1>1. q.uris \in Seq(Plan) /\ q.uris # <<>> /\ Len(q.uris) \in Nat /\ DOMAIN q.uris = 1 .. Len(q.uris)
  BY DEF CallShape
<1> DEFINE l == q.uris
           m == Tail(l)
<1>2. /\ m \in Seq(Plan) /\ Len(m) = Len(l) - 1 /\ DOMAIN m = 1 .. Len(m)
      /\ \A k \in 1 .. Len(m) : m[k] = l[k + 1]
  BY <1>1, HeadTailProperties, LenProperties
<1>3. /\ DOMAIN n = {"pc", "no", "sub", "todo", "uris", "blobs", "seen", "clash"}
      /\ n.pc = "insert" /\ n.no = q.no /\ n.sub = q.sub /\ n.todo = q.todo /\ n.uris = m /\ n.blobs = q.blobs
  BY DEF CallShape
<1> HIDE DEF m
<1>4. \A k \in DOMAIN m : k + 1 \in DOMAIN l /\ m[k] = l[k + 1]
  BY <1>1, <1>2
<1>5. m # <<>>
  <2>1. Len(q.uris) # 0
    BY <1>1, EmptySeq
  <2>2. Len(m) # 0
    BY <1>1, <1>2, <2>1
  <2> QED
    BY <2>2
<1>6. \A k \in DOMAIN m : m[k].blocked => m[k].src.kind \in {"remote", "link"} /\ ~m[k].sel
  BY <1>4 DEF CallShape
<1>7. \A j, k \in DOMAIN m : m[j].sel /\ m[k].sel => j = k
  <2> SUFFICES ASSUME NEW j \in DOMAIN m, NEW k \in DOMAIN m, m[j].sel, m[k].sel PROVE j = k
    OBVIOUS
  <2>1. j + 1 = k + 1
    BY <1>4 DEF CallShape
  <2> QED
    BY <1>2, <2>1
<1>8. l[1].sel \/ Unselected(l) => Unselected(m)
  <2>1. CASE l[1].sel
    <3> SUFFICES ASSUME NEW k \in DOMAIN m, m[k].sel PROVE FALSE
      BY DEF Unselected
    <3>1. 1 \in DOMAIN l /\ k + 1 \in DOMAIN l /\ l[k + 1].sel
      BY <1>1, <1>4
    <3>2. k + 1 = 1
      BY <2>1, <3>1 DEF CallShape
    <3> QED
      BY <1>2, <3>2
  <2>2. CASE Unselected(l)
    BY <1>4, <2>2 DEF Unselected
  <2> QED
    BY <2>1, <2>2
<1>9. CallShape(n)
  BY <1>2, <1>3, <1>5, <1>6, <1>7 DEF CallShape, Unselected
<1> QED
  BY <1>3, <1>8, <1>9

(* The row a call inserts next.                                            *)
LEMMA EntryRow ==
  ASSUME NEW p \in Plan, NEW paused \in BOOLEAN, NEW no \in Nat, no # 0, p.blocked => ~p.sel
  PROVE  /\ NewRow(p, paused, no) \in TaskRow /\ RowSafe(NewRow(p, paused, no))
         /\ NewRow(p, paused, no).hashes = p.src.hashes
         /\ NewRow(p, paused, no).no = no /\ NewRow(p, paused, no).sel = p.sel
<1> DEFINE t == NewRow(p, paused, no)
<1>1. /\ t.src = p.src /\ t.hashes = p.src.hashes /\ t.sel = p.sel /\ t.no = no
      /\ t.handle = FALSE /\ t.landed = FALSE
      /\ t.state = IF p.blocked THEN "error" ELSE IF paused THEN "paused" ELSE "queued"
      /\ t.code = IF p.blocked THEN "ssrf_blocked" ELSE "none"
  BY DEF NewRow
<1>2. p.src \in Sources /\ p.blocked \in BOOLEAN /\ p.sel \in BOOLEAN
  BY DEF Plan
<1>3. p.src.hashes \subseteq Torrents \X {"v1", "v2"} /\ p.src.hashes \subseteq HashesOf(p.src.torrent)
  BY <1>2 DEF Sources, Source, WellFormed
<1>4. t \in TaskRow
  BY <1>2, <1>3 DEF NewRow, TaskRow
<1> HIDE DEF t
<1>5. RowSafe(t)
  BY <1>1, <1>2, <1>3 DEF RowSafe
<1> QED
  BY <1>1, <1>4, <1>5 DEF t

LEMMA insertPlannedSafe ==
  ASSUME RowsInv, NEW r \in Requests, insertPlanned(r)
  PROVE  RowsInv'
<1> DEFINE c == req[r]
           p == Head(c.uris)
           t == NewRow(p, c.sub.paused, c.no)
           n == [c EXCEPT !.uris = Tail(c.uris)]
           q == IF Len(c.uris) = 1 THEN NoReq ELSE n
           x == CHOOSE i \in Holders(p.src.hashes) : TRUE
           f == [c EXCEPT !.pc = "failed", !.clash = x]
<1>1. c.pc = "insert" /\ CallShape(c) /\ UNCHANGED <<flush, budget>> /\ Busy(r)
  BY DEF insertPlanned, RowsInv, CallsShaped, Busy
<1>2. c.uris \in Seq(Plan) /\ c.uris # <<>> /\ c.no \in Nat
  BY <1>1 DEF CallShape
<1>3. p \in Plan /\ p = c.uris[1] /\ 1 \in DOMAIN c.uris /\ (p.blocked => ~p.sel)
  <2>1. p \in Plan /\ p = c.uris[1] /\ 1 \in DOMAIN c.uris
    BY <1>2, HeadTailProperties, LenProperties, EmptySeq
  <2> QED
    BY <1>1, <2>1 DEF CallShape
<1>4. /\ budget' \in IntakeBudget /\ budget.posts \in Nat /\ budget'.posts <= budget.posts
      /\ c.no > budget.posts /\ budget' = budget
      /\ \A z \in Requests \ {r} : Busy(z) => req[z].no # c.no
  BY <1>1 DEF RowsInv, NumbersOwn, IntakeBudget
<1>5. CASE UniqueFree(p.src.hashes)
  <2>1. CreateLogged(t) /\ req' = [req EXCEPT ![r] = q]
    BY <1>5 DEF insertPlanned
  <2>2. t \in TaskRow /\ RowSafe(t) /\ t.hashes = p.src.hashes /\ t.no = c.no /\ t.sel = p.sel
    <3>1. c.sub.paused \in BOOLEAN
      <4>1. c.sub \in Submissions
        BY <1>1 DEF CallShape
      <4> QED
        BY <4>1, IntakeAssumption DEF Submission
    <3>2. c.no # 0
      BY <1>2, <1>4
    <3> HIDE DEF p, c
    <3> QED
      BY <1>2, <1>3, <3>1, <3>2, EntryRow
  <2>3. UniqueFree(t.hashes)
    BY <1>5, <2>2
  <2> HIDE DEF t, p
  <2> DEFINE new == Len(task) + 1
  <2>4. /\ RowsSafe' /\ FlushSafe'
        /\ Rows' = Rows \union {new} /\ new \notin Rows
        /\ \A j \in Rows : task'[j] = task[j]
        /\ task'[new] = t
    BY <1>1, <2>1, <2>2, <2>3, RowAdded
  <2> HIDE DEF new
  <2>5. /\ CallShape(q)
        /\ q.pc = "idle" \/ (q.pc = "insert" /\ q.no = c.no /\ (p.sel \/ Unselected(c.uris) => Unselected(q.uris)))
    <3>1. CASE Len(c.uris) = 1
      BY <3>1, IdleShape
    <3>2. CASE Len(c.uris) # 1
      <4>1. q = n
        BY <3>2
      <4> HIDE DEF q
      <4> QED
        BY <1>1, <1>3, <3>2, <4>1, NextEntry
    <3> QED
      BY <3>1, <3>2
  <2> HIDE DEF q
  <2>6. DOMAIN req' = Requests /\ req'[r] = q /\ \A z \in Requests \ {r} : req'[z] = req[z]
    BY <2>1 DEF RowsInv, CallsShaped
  <2>7. CallsShaped'
    <3>1. \A z \in Requests : CallShape(req'[z])
      BY <2>5, <2>6 DEF RowsInv, CallsShaped
    <3> QED
      BY <2>6, <3>1 DEF CallsShaped, CallShape, Unselected
  <2>8. NumbersOwn'
    <3>1. \A i \in Rows' : task'[i].no # 0 => task'[i].no > budget'.posts
      BY <1>4, <2>2, <2>4 DEF RowsInv, NumbersOwn
    <3>2. \A z \in Requests : Busy(z)' => req'[z].no > budget'.posts
      BY <1>4, <2>5, <2>6 DEF RowsInv, NumbersOwn, Busy
    <3>3. \A z, y \in Requests : Busy(z)' /\ Busy(y)' /\ req'[z].no = req'[y].no => z = y
      BY <1>4, <2>5, <2>6 DEF RowsInv, NumbersOwn, Busy
    <3> QED
      BY <1>4, <3>1, <3>2, <3>3 DEF NumbersOwn
  <2>9. \A i \in Rows : task[i].no = c.no /\ task[i].sel => Unselected(c.uris)
    BY <1>1 DEF RowsInv, SelectionAhead
  <2>10. SelectionPlaced'
    <3>1. \A i \in Rows' : task'[i].sel => task'[i].code # "ssrf_blocked"
      BY <2>4 DEF RowsSafe, RowSafe
    <3>2. \A i, j \in Rows' : task'[i].sel /\ task'[j].sel /\ task'[i].no = task'[j].no => i = j
      <4>1. p.sel => ~Unselected(c.uris)
        BY <1>3 DEF Unselected
      <4> QED
        BY <2>2, <2>4, <2>9, <4>1 DEF RowsInv, SelectionPlaced
    <3> QED
      BY <3>1, <3>2 DEF SelectionPlaced
  <2>11. SelectionAhead'
    <3> SUFFICES ASSUME NEW z \in Requests, NEW i \in Rows', task'[i].no = req'[z].no
                 PROVE  req'[z].pc # "plan" /\ (req'[z].pc = "insert" /\ task'[i].sel => Unselected(req'[z].uris))
      BY DEF SelectionAhead, Unselected
    <3>1. CASE z = r
      <4>1. CASE i = new
        BY <2>2, <2>4, <2>5, <2>6, <3>1, <4>1
      <4>2. CASE i # new
        BY <2>4, <2>5, <2>6, <2>9, <3>1, <4>2
      <4> QED
        BY <4>1, <4>2
    <3>2. CASE z # r
      <4>1. CASE i = new
        BY <1>4, <2>2, <2>4, <2>6, <3>2, <4>1 DEF Busy
      <4>2. CASE i # new
        BY <2>4, <2>6, <3>2, <4>2 DEF RowsInv, SelectionAhead
      <4> QED
        BY <4>1, <4>2
    <3> QED
      BY <3>1, <3>2
  <2> QED
    BY <2>4, <2>7, <2>8, <2>10, <2>11 DEF RowsInv
<1>6. CASE ~UniqueFree(p.src.hashes)
  <2>1. req' = [req EXCEPT ![r] = f] /\ UNCHANGED task
    BY <1>6 DEF insertPlanned
  <2> HIDE DEF x
  <2>2. /\ DOMAIN f = {"pc", "no", "sub", "todo", "uris", "blobs", "seen", "clash"}
        /\ f.pc = "failed" /\ f.no = c.no /\ f.sub = c.sub /\ f.todo = c.todo /\ f.uris = c.uris /\ f.blobs = c.blobs
    BY <1>1 DEF CallShape
  <2> HIDE DEF f
  <2>3. CallShape(f)
    BY <1>1, <2>2 DEF CallShape, Unselected
  <2> QED
    BY <1>1, <1>4, <2>1, <2>2, <2>3, CallMoved
<1> QED
  BY <1>5, <1>6


--------------------------------------------------------------------------------
(* The sweeps.                                                             *)

LEMMA SweepsStay ==
  ASSUME SweepInv, UNCHANGED watchVars
  PROVE  SweepInv'
<1>1. (FolderShape /\ ScansShaped)'
  BY DEF SweepInv, FolderShape, ScansShaped, ScanShape, watchVars
<1>2. (SweepsLocked /\ NotLoadedYet)'
  BY DEF SweepInv, SweepsLocked, NotLoadedYet, watchVars
<1>3. (FileKnown /\ UnlinkedLoaded /\ NeverReloaded)'
  BY DEF SweepInv, FileKnown, UnlinkedLoaded, NeverReloaded, watchVars
<1> QED
  BY <1>1, <1>2, <1>3 DEF SweepInv

(* Rows a step of the folder side leaves alone.                            *)
LEMMA RowsAside ==
  ASSUME RowsInv, UNCHANGED <<task, req, flush>>,
         \/ UNCHANGED budget
         \/ \E what \in {"drops", "folders", "faults", "crashes", "removals"} : Spent(what)
  PROVE  RowsInv'
<1>1. budget \in IntakeBudget
  BY DEF RowsInv, NumbersOwn
<1>2. budget' \in IntakeBudget /\ budget'.posts = budget.posts
  BY <1>1, SpentBudget
<1> QED
  BY <1>2, RowsStay

(* One sweep moves on.  The others keep their lock, their files and the    *)
(* loaded sets of their folders.                                           *)
LEMMA SweepMoves ==
  ASSUME SweepInv, NEW s \in Scanners, NEW c, ScanShape(c), scan' = [scan EXCEPT ![s] = c],
         UNCHANGED <<folder, lastId, watching, swapped>>, made \subseteq made', NeverReloaded', UnlinkedLoaded',
         FolderShape',
         c.pc \in Under => c.row.id \in locked',
         \A z \in Scanners \ {s} : scan[z].pc \in Under =>
            /\ scan[z].row.id \in locked'
            /\ c.pc \in Under => c.row.id # scan[z].row.id
            /\ loaded'[scan[z].row.id] = loaded[scan[z].row.id]
            /\ scan[z].pc \in WithFile => dir'[scan[z].file] \in {dir[scan[z].file], NoTorrent},
         c.pc \in {"find", "insert"} => ~Contains(loaded'[c.row.id], c.blob),
         c.pc \in WithFile => dir'[c.file] \in {NoTorrent, c.blob} \union swapped,
         c.pc \in {"mark", "unlink"} => c.blob \in made'
  PROVE  SweepInv'
<1>1. DOMAIN scan' = Scanners /\ scan'[s] = c /\ \A z \in Scanners \ {s} : scan'[z] = scan[z]
  BY DEF SweepInv, ScansShaped
<1>2. ScansShaped'
  <2>1. \A z \in Scanners : ScanShape(scan'[z])
    BY <1>1 DEF SweepInv, ScansShaped
  <2> QED
    BY <1>1, <2>1 DEF ScansShaped, ScanShape
<1>3. SweepsLocked'
  BY <1>1 DEF SweepInv, SweepsLocked
<1>4. NotLoadedYet'
  <2> SUFFICES ASSUME NEW z \in Scanners, scan'[z].pc \in {"find", "insert"}
               PROVE  ~Contains(loaded'[scan'[z].row.id], scan'[z].blob)
    BY DEF NotLoadedYet, Contains
  <2>1. CASE z = s
    BY <1>1, <2>1
  <2>2. CASE z # s
    <3>1. scan'[z] = scan[z] /\ scan[z].pc \in Under
      BY <1>1, <2>2 DEF Under
    <3>2. ~Contains(loaded[scan[z].row.id], scan[z].blob)
      BY <3>1 DEF SweepInv, NotLoadedYet
    <3>3. loaded'[scan[z].row.id] = loaded[scan[z].row.id]
      BY <2>2, <3>1
    <3> QED
      BY <3>1, <3>2, <3>3
  <2> QED
    BY <2>1, <2>2
<1>5. FileKnown'
  <2> SUFFICES ASSUME NEW z \in Scanners, scan'[z].pc \in WithFile
               PROVE  /\ dir'[scan'[z].file] \in {NoTorrent, scan'[z].blob} \union swapped'
                      /\ scan'[z].pc \in {"mark", "unlink"} => scan'[z].blob \in made'
    BY DEF FileKnown, WithFile
  <2>1. CASE z = s
    BY <1>1, <2>1
  <2>2. CASE z # s
    <3>1. scan'[z] = scan[z] /\ scan[z].pc \in Under
      BY <1>1, <2>2 DEF Under, WithFile
    <3>2. dir[scan[z].file] \in {NoTorrent, scan[z].blob} \union swapped
      BY <3>1 DEF SweepInv, FileKnown
    <3>3. dir'[scan[z].file] \in {dir[scan[z].file], NoTorrent}
      BY <2>2, <3>1
    <3>4. scan[z].pc \in {"mark", "unlink"} => scan[z].blob \in made
      BY <3>1 DEF SweepInv, FileKnown, WithFile
    <3> QED
      BY <3>1, <3>2, <3>3, <3>4
  <2> QED
    BY <2>1, <2>2
<1> QED
  BY <1>2, <1>3, <1>4, <1>5 DEF SweepInv

(* A step that only moves the sweep and its lock.                          *)
LEMMA ScanMoved ==
  ASSUME SweepInv, NEW s \in Scanners, NEW c, ScanShape(c), scan' = [scan EXCEPT ![s] = c],
         UNCHANGED <<dir, folder, lastId, loaded, watching>>, UNCHANGED ghostVars,
         locked' \subseteq 1 .. lastId,
         c.pc \in Under => c.row.id \in locked',
         \A z \in Scanners \ {s} : scan[z].pc \in Under =>
            scan[z].row.id \in locked' /\ (c.pc \in Under => c.row.id # scan[z].row.id),
         c.pc \in {"find", "insert"} => ~Contains(loaded[c.row.id], c.blob),
         c.pc \in WithFile => dir[c.file] \in {NoTorrent, c.blob} \union swapped,
         c.pc \in {"mark", "unlink"} => c.blob \in made
  PROVE  SweepInv'
<1>1. /\ UNCHANGED <<folder, lastId, watching, swapped>> /\ made \subseteq made' /\ loaded' = loaded /\ dir' = dir
      /\ NeverReloaded' /\ UnlinkedLoaded' /\ made' = made
  BY DEF ghostVars, SweepInv, NeverReloaded, UnlinkedLoaded
<1>2. FolderShape'
  BY DEF SweepInv, FolderShape
<1>3. c.pc \in {"find", "insert"} => ~Contains(loaded'[c.row.id], c.blob)
  BY <1>1
<1>4. /\ c.pc \in WithFile => dir'[c.file] \in {NoTorrent, c.blob} \union swapped
      /\ c.pc \in {"mark", "unlink"} => c.blob \in made'
  BY <1>1
<1>5. \A z \in Scanners \ {s} : scan[z].pc \in Under =>
            /\ scan[z].row.id \in locked'
            /\ c.pc \in Under => c.row.id # scan[z].row.id
            /\ loaded'[scan[z].row.id] = loaded[scan[z].row.id]
            /\ scan[z].pc \in WithFile => dir'[scan[z].file] \in {dir[scan[z].file], NoTorrent}
  BY <1>1
<1> QED
  BY <1>1, <1>2, <1>3, <1>4, <1>5, SweepMoves

(* What holds of one sweep.                                                *)
LEMMA OneSweep ==
  ASSUME SweepInv, NEW s \in Scanners
  PROVE  /\ ScanShape(scan[s])
         /\ locked \subseteq 1 .. lastId /\ lastId \in Nat
         /\ scan[s].pc \in Under => scan[s].row.id \in locked
         /\ \A z \in Scanners \ {s} : scan[z].pc \in Under => scan[z].row.id \in locked
         /\ scan[s].pc \in Under => \A z \in Scanners \ {s} : scan[z].pc \in Under => scan[z].row.id # scan[s].row.id
         /\ scan[s].pc \in {"find", "insert"} => ~Contains(loaded[scan[s].row.id], scan[s].blob)
         /\ scan[s].pc \in WithFile => dir[scan[s].file] \in {NoTorrent, scan[s].blob} \union swapped
         /\ scan[s].pc \in {"mark", "unlink"} => scan[s].blob \in made
<1>1. ScanShape(scan[s]) /\ locked \subseteq 1 .. lastId /\ lastId \in Nat
  BY DEF SweepInv, ScansShaped, FolderShape
<1>2. /\ scan[s].pc \in Under => scan[s].row.id \in locked
      /\ \A z \in Scanners \ {s} : scan[z].pc \in Under => scan[z].row.id \in locked
      /\ scan[s].pc \in Under => \A z \in Scanners \ {s} : scan[z].pc \in Under => scan[z].row.id # scan[s].row.id
  BY DEF SweepInv, SweepsLocked
<1>3. scan[s].pc \in {"find", "insert"} => ~Contains(loaded[scan[s].row.id], scan[s].blob)
  BY DEF SweepInv, NotLoadedYet
<1>4. /\ scan[s].pc \in WithFile => dir[scan[s].file] \in {NoTorrent, scan[s].blob} \union swapped
      /\ scan[s].pc \in {"mark", "unlink"} => scan[s].blob \in made
  BY DEF SweepInv, FileKnown, WithFile
<1> QED
  BY <1>1, <1>2, <1>3, <1>4


LEMMA IdleScan == ScanShape(NoScan) /\ NoScan.pc = "idle"
BY DEF ScanShape, NoScan, NoFolder, Under, WithFile

LEMMA ScanBeginsSafe ==
  ASSUME IntakeInv, NEW s \in Scanners, ScanBegins(s)
  PROVE  IntakeInv'
<1> DEFINE c == [NoScan EXCEPT !.pc = "lock", !.row = folder]
<1>1. SweepInv /\ RowsInv
  BY DEF IntakeInv
<1>2. RowsInv'
  BY <1>1, RowsAside DEF ScanBegins
<1>3. /\ scan' = [scan EXCEPT ![s] = c] /\ UNCHANGED <<dir, folder, lastId, loaded, watching, locked>> /\ UNCHANGED ghostVars
      /\ folder.id # 0
  BY DEF ScanBegins, SetScan, folderVars
<1>4. /\ DOMAIN c = {"pc", "row", "todo", "file", "blob"} /\ c.pc = "lock" /\ c.row = folder /\ c.todo = {}
  BY DEF NoScan
<1> HIDE DEF c
<1>5. ScanShape(c)
  <2>1. folder \in [id : 0 .. lastId, enabled : BOOLEAN, delete : BOOLEAN] /\ lastId \in Nat
    BY <1>1 DEF SweepInv, FolderShape
  <2>2. folder \in [id : Nat, enabled : BOOLEAN, delete : BOOLEAN] /\ folder.id \in 1 .. lastId
    BY <1>3, <2>1
  <2> QED
    BY <1>4, <2>2 DEF ScanShape, Under, WithFile
<1>6. c.pc \notin Under /\ c.pc \notin WithFile
  BY <1>4 DEF Under, WithFile
<1>7. SweepInv'
  BY <1>1, <1>3, <1>4, <1>5, <1>6, OneSweep, ScanMoved
<1> QED
  BY <1>2, <1>7 DEF IntakeInv

LEMMA folderLockSafe ==
  ASSUME IntakeInv, NEW s \in Scanners, folderLock(s)
  PROVE  IntakeInv'
<1> DEFINE c == [scan[s] EXCEPT !.pc = "list"]
<1>1. SweepInv /\ RowsInv
  BY DEF IntakeInv
<1>2. RowsInv'
  BY <1>1, RowsAside DEF folderLock
<1>3. /\ scan[s].pc = "lock" /\ scan[s].row.id \notin locked
      /\ locked' = locked \union {scan[s].row.id}
      /\ scan' = [scan EXCEPT ![s] = c] /\ UNCHANGED <<dir, folder, lastId, loaded, watching>> /\ UNCHANGED ghostVars
  BY DEF folderLock, LockFree, SetScan, folderVars
<1>4. ScanShape(scan[s])
  BY <1>1, OneSweep
<1>5. DOMAIN c = {"pc", "row", "todo", "file", "blob"} /\ c.pc = "list" /\ c.row = scan[s].row /\ c.todo = scan[s].todo
  BY <1>4 DEF ScanShape
<1> HIDE DEF c
<1>6. ScanShape(c) /\ c.row.id \in 1 .. lastId
  BY <1>3, <1>4, <1>5 DEF ScanShape, Under, WithFile
<1>7. c.pc \notin WithFile /\ c.pc \notin {"find", "insert"} /\ c.pc \notin {"mark", "unlink"}
  BY <1>5 DEF WithFile
<1>8. /\ locked' \subseteq 1 .. lastId /\ c.row.id \in locked'
      /\ \A z \in Scanners \ {s} : scan[z].pc \in Under => scan[z].row.id \in locked' /\ c.row.id # scan[z].row.id
  BY <1>1, <1>3, <1>5, <1>6, OneSweep
<1>9. SweepInv'
  BY <1>1, <1>3, <1>6, <1>7, <1>8, ScanMoved
<1> QED
  BY <1>2, <1>9 DEF IntakeInv

(* A sweep returns: its lock, and only its lock, is released.              *)
LEMMA ReturnsSafe ==
  ASSUME SweepInv, NEW s \in Scanners, scan[s].pc \in Under, ScanReturns(s),
         UNCHANGED <<dir, folder, lastId, loaded, watching>>, UNCHANGED ghostVars
  PROVE  SweepInv'
<1> DEFINE c == NoScan
<1>1. ScanShape(c) /\ c.pc \notin Under /\ c.pc \notin WithFile /\ c.pc \notin {"find", "insert"} /\ c.pc \notin {"mark", "unlink"}
  BY IdleScan DEF Under, WithFile
<1>2. scan' = [scan EXCEPT ![s] = c] /\ locked' = locked \ {scan[s].row.id}
  BY DEF ScanReturns, SetScan, Unlocked
<1> HIDE DEF c
<1>3. /\ locked' \subseteq 1 .. lastId
      /\ \A z \in Scanners \ {s} : scan[z].pc \in Under => scan[z].row.id \in locked'
  BY <1>2, OneSweep
<1> QED
  BY <1>1, <1>2, <1>3, ScanMoved

(* A sweep moves between two entries of its list, or to the next check of  *)
(* one.                                                                    *)
LEMMA UnderMoved ==
  ASSUME SweepInv, NEW s \in Scanners, scan[s].pc \in Under, NEW c, c.pc \in Under,
         DOMAIN c = DOMAIN scan[s], c.row = scan[s].row, c.todo \subseteq Names,
         c.pc \in WithFile => c.file \in Names /\ c.blob \in Torrents,
         scan' = [scan EXCEPT ![s] = c],
         UNCHANGED <<dir, folder, lastId, loaded, watching, locked>>, UNCHANGED ghostVars,
         c.pc \in {"find", "insert"} => ~Contains(loaded[c.row.id], c.blob),
         c.pc \in WithFile => dir[c.file] \in {NoTorrent, c.blob} \union swapped,
         c.pc \in {"mark", "unlink"} => c.blob \in made
  PROVE  SweepInv'
<1>1. ScanShape(scan[s])
  BY OneSweep
<1>2. ScanShape(c)
  BY <1>1 DEF ScanShape, Under
<1>3. /\ locked' \subseteq 1 .. lastId /\ c.row.id \in locked'
      /\ \A z \in Scanners \ {s} : scan[z].pc \in Under => scan[z].row.id \in locked' /\ c.row.id # scan[z].row.id
  BY OneSweep
<1> QED
  BY <1>2, <1>3, ScanMoved

LEMMA SkipSafe ==
  ASSUME SweepInv, NEW s \in Scanners, scan[s].pc \in Under, Skip(s),
         UNCHANGED <<dir, folder, lastId, loaded, watching, locked>>, UNCHANGED ghostVars
  PROVE  SweepInv'
<1> DEFINE c == [scan[s] EXCEPT !.pc = "file", !.file = 0, !.blob = NoTorrent]
<1>1. scan' = [scan EXCEPT ![s] = c] /\ ScanShape(scan[s])
  BY OneSweep DEF Skip, SetScan
<1>2. DOMAIN c = DOMAIN scan[s] /\ c.pc = "file" /\ c.row = scan[s].row /\ c.todo = scan[s].todo
  BY <1>1 DEF ScanShape
<1> HIDE DEF c
<1>3. c.pc \in Under /\ c.pc \notin WithFile /\ c.pc \notin {"find", "insert"} /\ c.pc \notin {"mark", "unlink"} /\ c.todo \subseteq Names
  BY <1>1, <1>2 DEF Under, WithFile, ScanShape
<1> QED
  BY <1>1, <1>2, <1>3, UnderMoved

LEMMA ReadDirSafe ==
  ASSUME IntakeInv, NEW s \in Scanners, ReadDir(s)
  PROVE  IntakeInv'
<1> DEFINE c == [scan[s] EXCEPT !.pc = "file", !.todo = {n \in Names : dir[n] # NoTorrent}]
<1>1. SweepInv /\ RowsInv
  BY DEF IntakeInv
<1>2. RowsInv'
  BY <1>1, RowsAside DEF ReadDir
<1>3. scan[s].pc \in Under /\ UNCHANGED <<dir, folder, lastId, loaded, watching>> /\ UNCHANGED ghostVars
  BY DEF ReadDir, folderVars, Under
<1>4. CASE SetScan(s, c) /\ UNCHANGED locked
  <2>1. scan' = [scan EXCEPT ![s] = c] /\ ScanShape(scan[s])
    BY <1>1, <1>4, OneSweep DEF SetScan
  <2>2. DOMAIN c = DOMAIN scan[s] /\ c.pc = "file" /\ c.row = scan[s].row /\ c.todo \subseteq Names
    BY <2>1 DEF ScanShape
  <2> HIDE DEF c
  <2>3. c.pc \in Under /\ c.pc \notin WithFile /\ c.pc \notin {"find", "insert"} /\ c.pc \notin {"mark", "unlink"}
    BY <2>2 DEF Under, WithFile
  <2>4. SweepInv'
    BY <1>1, <1>3, <1>4, <2>1, <2>2, <2>3, UnderMoved
  <2> QED
    BY <1>2, <2>4 DEF IntakeInv
<1>5. CASE ScanReturns(s)
  BY <1>1, <1>2, <1>3, <1>5, ReturnsSafe DEF IntakeInv
<1> QED
  BY <1>4, <1>5 DEF ReadDir

(* An entry is taken up only when the loaded set does not hold it.         *)
LEMMA ScanFileSafe ==
  ASSUME IntakeInv, NEW s \in Scanners, ScanFile(s)
  PROVE  IntakeInv'
<1> DEFINE n == CHOOSE n \in scan[s].todo : \A k \in scan[s].todo : n <= k
           less == scan[s].todo \ {n}
           rest == [scan[s] EXCEPT !.todo = less]
           c == [rest EXCEPT !.pc = "find", !.file = n, !.blob = dir[n]]
<1>1. SweepInv /\ RowsInv
  BY DEF IntakeInv
<1>2. RowsInv'
  BY <1>1, RowsAside DEF ScanFile
<1>3. scan[s].pc = "file" /\ scan[s].pc \in Under /\ UNCHANGED <<dir, folder, lastId, loaded, watching>> /\ UNCHANGED ghostVars
  BY DEF ScanFile, folderVars, Under
<1>4. ScanShape(scan[s])
  BY <1>1, OneSweep
<1>5. CASE ScanReturns(s)
  BY <1>1, <1>2, <1>3, <1>5, ReturnsSafe DEF IntakeInv
<1>6. CASE scan[s].todo # {} /\ SetScan(s, rest) /\ UNCHANGED locked
  <2>1. scan' = [scan EXCEPT ![s] = rest] /\ less \subseteq Names
    BY <1>4, <1>6 DEF SetScan, ScanShape
  <2> HIDE DEF less
  <2>2. DOMAIN rest = DOMAIN scan[s] /\ rest.pc = "file" /\ rest.row = scan[s].row /\ rest.todo = less
    BY <1>3, <1>4 DEF ScanShape
  <2> HIDE DEF rest
  <2>3. rest.pc \in Under /\ rest.pc \notin WithFile /\ rest.pc \notin {"find", "insert"} /\ rest.pc \notin {"mark", "unlink"}
    BY <2>2 DEF Under, WithFile
  <2>4. SweepInv'
    BY <1>1, <1>3, <1>6, <2>1, <2>2, <2>3, UnderMoved
  <2> QED
    BY <1>2, <2>4 DEF IntakeInv
<1>7. CASE /\ scan[s].todo # {} /\ ~(dir[n] = NoTorrent \/ Contains(loaded[scan[s].row.id], dir[n]))
           /\ SetScan(s, c) /\ UNCHANGED locked
  <2>1. n \in Names
    <3>1. scan[s].todo \subseteq Nat /\ scan[s].todo \subseteq Names
      BY <1>4, WatchAssumption DEF ScanShape
    <3> DEFINE I == scan[s].todo
    <3>2. \E x \in I : \A k \in I : x <= k
      <4> HIDE DEF I
      <4> QED
        BY <1>7, <3>1, LeastOf DEF I
    <3> QED
      BY <3>1, <3>2
  <2> HIDE DEF n
  <2>2. dir[n] \in Torrents
    BY <1>1, <1>7, <2>1 DEF SweepInv, FolderShape
  <2>3. scan' = [scan EXCEPT ![s] = c] /\ less \subseteq Names
    BY <1>4, <1>7 DEF SetScan, ScanShape
  <2> HIDE DEF less
  <2>4. DOMAIN c = DOMAIN scan[s] /\ c.pc = "find" /\ c.row = scan[s].row /\ c.todo = less /\ c.file = n /\ c.blob = dir[n]
    BY <1>4 DEF ScanShape
  <2> HIDE DEF c
  <2>5. c.pc \in Under /\ c.pc \notin {"mark", "unlink"}
    BY <2>4 DEF Under
  <2>6. ~Contains(loaded[c.row.id], c.blob) /\ dir[c.file] \in {NoTorrent, c.blob} \union swapped
    BY <1>7, <2>4
  <2>7. SweepInv'
    BY <1>1, <1>3, <1>7, <2>1, <2>2, <2>3, <2>4, <2>5, <2>6, UnderMoved
  <2> QED
    BY <1>2, <2>7 DEF IntakeInv
<1> QED
  BY <1>5, <1>6, <1>7 DEF ScanFile


LEMMA CreateFromTorrentSafe ==
  ASSUME IntakeInv, NEW s \in Scanners, CreateFromTorrent(s)
  PROVE  IntakeInv'
<1> DEFINE c == [scan[s] EXCEPT !.pc = "insert"]
<1>1. SweepInv /\ RowsInv
  BY DEF IntakeInv
<1>2. RowsInv'
  BY <1>1, RowsAside DEF CreateFromTorrent
<1>3. /\ scan[s].pc = "find" /\ scan[s].pc \in Under /\ scan[s].pc \in WithFile
      /\ UNCHANGED <<dir, folder, lastId, loaded, watching, locked>> /\ UNCHANGED ghostVars
  BY DEF CreateFromTorrent, folderVars, Under, WithFile
<1>4. CASE Skip(s)
  BY <1>1, <1>2, <1>3, <1>4, SkipSafe DEF IntakeInv
<1>5. CASE SetScan(s, c)
  <2>1. scan' = [scan EXCEPT ![s] = c] /\ ScanShape(scan[s])
    BY <1>1, <1>5, OneSweep DEF SetScan
  <2>2. /\ DOMAIN c = DOMAIN scan[s] /\ c.pc = "insert" /\ c.row = scan[s].row /\ c.todo = scan[s].todo
        /\ c.file = scan[s].file /\ c.blob = scan[s].blob
    BY <2>1 DEF ScanShape
  <2> HIDE DEF c
  <2>3. c.pc \in Under /\ c.pc \notin {"mark", "unlink"} /\ c.todo \subseteq Names /\ c.file \in Names /\ c.blob \in Torrents
    BY <1>3, <2>1, <2>2 DEF Under, WithFile, ScanShape
  <2>4. ~Contains(loaded[c.row.id], c.blob) /\ dir[c.file] \in {NoTorrent, c.blob} \union swapped
    BY <1>1, <1>3, <2>2, OneSweep
  <2>5. SweepInv'
    BY <1>1, <1>3, <2>1, <2>2, <2>3, <2>4, UnderMoved
  <2> QED
    BY <1>2, <2>5 DEF IntakeInv
<1> QED
  BY <1>4, <1>5 DEF CreateFromTorrent, SkipDuplicate

(* The row of a watched file: no submission's, nothing selected in it.     *)
LEMMA WatchedRow ==
  ASSUME NEW b \in Torrents
  PROVE  LET t == NewRow(Planned(Blob(b), FALSE), FALSE, 0)
         IN  t \in TaskRow /\ RowSafe(t) /\ t.hashes = Hashes(b) /\ t.no = 0 /\ ~t.sel
<1> DEFINE t == NewRow(Planned(Blob(b), FALSE), FALSE, 0)
           h == Hashes(b)
<1>1. b # NoTorrent /\ h \subseteq Torrents \X {"v1", "v2"}
  BY IntakeAssumption DEF Hashes
<1>2. HashesOf(b) = h
  BY <1>1 DEF HashesOf
<1> HIDE DEF h
<1>3. Blob(b) = [kind |-> "upload", torrent |-> b, hashes |-> h, multi |-> FALSE]
  BY DEF Blob, h
<1>4. Blob(b) \in Sources
  BY <1>1, <1>2, <1>3 DEF Sources, Source, WellFormed
<1>5. t = [src |-> Blob(b), hashes |-> h, sel |-> FALSE, no |-> 0, handle |-> FALSE, landed |-> FALSE,
           state |-> "queued", code |-> "none"]
  <2> DEFINE p == Planned(Blob(b), FALSE)
  <2>1. p.src = Blob(b) /\ p.blocked = FALSE /\ p.sel = FALSE /\ p.src.hashes = h
    BY <1>3 DEF Planned
  <2> HIDE DEF p
  <2>2. NewRow(p, FALSE, 0) = [src |-> Blob(b), hashes |-> h, sel |-> FALSE, no |-> 0, handle |-> FALSE, landed |-> FALSE,
                               state |-> "queued", code |-> "none"]
    BY <2>1 DEF NewRow
  <2> QED
    BY <2>2 DEF p
<1>6. h = Hashes(b)
  BY DEF h
<1> HIDE DEF t
<1>7. t \in TaskRow
  BY <1>1, <1>4, <1>5 DEF TaskRow
<1>8. RowSafe(t)
  BY <1>2, <1>3, <1>5 DEF RowSafe
<1>9. t.hashes = Hashes(b) /\ t.no = 0 /\ ~t.sel
  BY <1>5, <1>6
<1> QED
  BY <1>7, <1>8, <1>9 DEF t

LEMMA ScanInsertSafe ==
  ASSUME IntakeInv, NEW s \in Scanners, ScanInsert(s)
  PROVE  IntakeInv'
<1> DEFINE b == scan[s].blob
           t == NewRow(Planned(Blob(b), FALSE), FALSE, 0)
           c == [scan[s] EXCEPT !.pc = "mark"]
           new == Len(task) + 1
<1>1. SweepInv /\ RowsInv
  BY DEF IntakeInv
<1>2. /\ scan[s].pc = "insert" /\ scan[s].pc \in Under /\ scan[s].pc \in WithFile /\ scan[s].pc \in {"find", "insert"}
      /\ UNCHANGED <<dir, folder, lastId, loaded, watching, locked>> /\ UNCHANGED <<req, flush, budget, unlinked, swapped>>
  BY DEF ScanInsert, folderVars, Under, WithFile
<1>3. ScanShape(scan[s]) /\ b \in Torrents /\ scan[s].file \in Names
  <2>1. ScanShape(scan[s])
    BY <1>1, OneSweep
  <2> QED
    BY <1>2, <2>1 DEF ScanShape
<1>4. CASE ~UniqueFree(Hashes(b))
  <2>1. Skip(s) /\ UNCHANGED <<task, made, reloaded>>
    BY <1>4 DEF ScanInsert
  <2>2. SweepInv'
    BY <1>1, <1>2, <2>1, SkipSafe DEF ghostVars
  <2>3. RowsInv'
    BY <1>1, <1>2, <2>1, RowsAside
  <2> QED
    BY <2>2, <2>3 DEF IntakeInv
<1>5. CASE UniqueFree(Hashes(b))
  <2>1. /\ CreateLogged(t) /\ scan' = [scan EXCEPT ![s] = c] /\ made' = made \union {b}
        /\ reloaded' = (reloaded \/ Contains(loaded[scan[s].row.id], b))
    BY <1>5 DEF ScanInsert, SetScan
  <2>2. t \in TaskRow /\ RowSafe(t) /\ UniqueFree(t.hashes) /\ t.no = 0 /\ ~t.sel
    BY <1>3, <1>5, WatchedRow
  <2>3. RowsInv'
    <3> HIDE DEF t
    <3>1. /\ RowsSafe' /\ FlushSafe'
          /\ Rows' = Rows \union {new} /\ new \notin Rows
          /\ \A j \in Rows : task'[j] = task[j]
          /\ task'[new] = t
      BY <1>1, <1>2, <2>1, <2>2, RowAdded
    <3> HIDE DEF new
    <3>2. CallsShaped'
      BY <1>1, <1>2 DEF RowsInv, CallsShaped, CallShape, Unselected
    <3>3. NumbersOwn'
      BY <1>1, <1>2, <2>2, <3>1 DEF RowsInv, NumbersOwn, Busy
    <3>4. SelectionAhead'
      <4> SUFFICES ASSUME NEW z \in Requests, NEW i \in Rows', task'[i].no = req[z].no
                   PROVE  req[z].pc # "plan" /\ (req[z].pc = "insert" /\ task'[i].sel => Unselected(req[z].uris))
        BY <1>2 DEF SelectionAhead, Unselected
      <4>1. CASE i = new
        BY <1>1, <2>2, <3>1, <4>1 DEF RowsInv, NumbersOwn, Busy, IntakeBudget
      <4>2. CASE i # new
        BY <1>1, <3>1, <4>2 DEF RowsInv, SelectionAhead
      <4> QED
        BY <4>1, <4>2
    <3>5. SelectionPlaced'
      <4>1. \A i \in Rows' : task'[i].sel => task'[i].code # "ssrf_blocked"
        BY <3>1 DEF RowsSafe, RowSafe
      <4>2. \A i, j \in Rows' : task'[i].sel /\ task'[j].sel /\ task'[i].no = task'[j].no => i = j
        BY <1>1, <2>2, <3>1 DEF RowsInv, SelectionPlaced
      <4> QED
        BY <4>1, <4>2 DEF SelectionPlaced
    <3> QED
      BY <3>1, <3>2, <3>3, <3>4, <3>5 DEF RowsInv
  <2>4. /\ DOMAIN c = {"pc", "row", "todo", "file", "blob"} /\ c.pc = "mark" /\ c.row = scan[s].row /\ c.todo = scan[s].todo
        /\ c.file = scan[s].file /\ c.blob = b
    BY <1>3 DEF ScanShape
  <2> HIDE DEF c
  <2>5. ScanShape(c)
    BY <1>2, <1>3, <2>4 DEF ScanShape, Under
  <2>6. NeverReloaded' /\ UnlinkedLoaded' /\ made \subseteq made' /\ b \in made'
    BY <1>1, <1>2, <2>1, OneSweep DEF SweepInv, NeverReloaded, UnlinkedLoaded
  <2>7. FolderShape'
    BY <1>1, <1>2 DEF SweepInv, FolderShape
  <2>8. c.row.id \in locked' /\ c.pc \notin {"find", "insert"} /\ dir'[c.file] \in {NoTorrent, c.blob} \union swapped
    BY <1>1, <1>2, <2>4, OneSweep
  <2>9. \A z \in Scanners \ {s} : scan[z].pc \in Under =>
            /\ scan[z].row.id \in locked'
            /\ c.row.id # scan[z].row.id
            /\ loaded'[scan[z].row.id] = loaded[scan[z].row.id]
            /\ scan[z].pc \in WithFile => dir'[scan[z].file] \in {dir[scan[z].file], NoTorrent}
    BY <1>1, <1>2, <2>4, OneSweep
  <2>10. SweepInv'
    <3>1. SweepInv /\ scan' = [scan EXCEPT ![s] = c] /\ UNCHANGED <<folder, lastId, watching, swapped>>
      BY <1>1, <1>2, <2>1
    <3>2. c.pc = "mark" /\ c.pc \notin {"find", "insert"} /\ c.blob \in made'
      BY <2>4, <2>6
    <3> HIDE DEF b, t, new
    <3> QED
      BY <2>5, <2>6, <2>7, <2>8, <2>9, <3>1, <3>2, SweepMoves
  <2> QED
    BY <2>3, <2>10 DEF IntakeInv
<1> QED
  BY <1>4, <1>5

(* The unlink removes what was loaded, or what was dropped over it.        *)
LEMMA ScanUnlinkSafe ==
  ASSUME IntakeInv, NEW s \in Scanners, ScanUnlink(s)
  PROVE  IntakeInv'
<1> DEFINE c == [scan[s] EXCEPT !.pc = "file", !.file = 0, !.blob = NoTorrent]
<1>1. SweepInv /\ RowsInv
  BY DEF IntakeInv
<1>2. RowsInv'
  BY <1>1, RowsAside DEF ScanUnlink
<1>3. /\ scan[s].pc \in Under /\ scan[s].pc \in WithFile /\ scan[s].pc \in {"mark", "unlink"}
      /\ unlinked' = unlinked \union ({dir[scan[s].file]} \ {NoTorrent})
      /\ dir' = [dir EXCEPT ![scan[s].file] = NoTorrent]
      /\ scan' = [scan EXCEPT ![s] = c]
      /\ UNCHANGED <<loaded, locked, made, swapped, reloaded, folder, lastId, watching>>
  BY DEF ScanUnlink, Under, WithFile, folderVars, Skip, SetScan
<1>4. /\ ScanShape(scan[s]) /\ scan[s].blob \in made /\ dir[scan[s].file] \in {NoTorrent, scan[s].blob} \union swapped
  BY <1>1, <1>3, OneSweep
<1>5. NeverReloaded' /\ UnlinkedLoaded'
  BY <1>1, <1>3, <1>4 DEF SweepInv, NeverReloaded, UnlinkedLoaded
<1>6. FolderShape' /\ \A n \in Names : dir'[n] \in {dir[n], NoTorrent}
  BY <1>1, <1>3 DEF SweepInv, FolderShape
<1>7. DOMAIN c = {"pc", "row", "todo", "file", "blob"} /\ c.pc = "file" /\ c.row = scan[s].row /\ c.todo = scan[s].todo
  BY <1>4 DEF ScanShape
<1> HIDE DEF c
<1>8. ScanShape(c) /\ c.pc \notin WithFile /\ c.pc \notin {"find", "insert"} /\ c.pc \notin {"mark", "unlink"}
  BY <1>3, <1>4, <1>7 DEF ScanShape, Under, WithFile
<1>9. \A z \in Scanners \ {s} : scan[z].pc \in Under =>
            /\ scan[z].row.id \in locked'
            /\ c.row.id # scan[z].row.id
            /\ loaded'[scan[z].row.id] = loaded[scan[z].row.id]
  BY <1>1, <1>3, <1>7, OneSweep
<1>10. \A z \in Scanners : scan[z].pc \in WithFile => dir'[scan[z].file] \in {dir[scan[z].file], NoTorrent}
  BY <1>1, <1>6 DEF SweepInv, ScansShaped, ScanShape
<1>11. c.pc \in Under => c.row.id \in locked'
  BY <1>1, <1>3, <1>7, OneSweep
<1>12. SweepInv'
  BY <1>1, <1>3, <1>5, <1>6, <1>8, <1>9, <1>10, <1>11, SweepMoves
<1> QED
  BY <1>2, <1>12 DEF IntakeInv


--------------------------------------------------------------------------------
(* The loaded set.                                                         *)

(* Marking keeps the set within its cap and without repetitions.           *)
LEMMA MarkKeeps ==
  ASSUME NEW list \in Lists, Len(list) <= MaxWatchFolderLoaded, IsInjective(list), NEW t \in Torrents
  PROVE  LET m == MarkWatchFolderLoaded(list, t)
         IN  m \in Lists /\ Len(m) <= MaxWatchFolderLoaded /\ IsInjective(m)
<1>1. CASE Contains(list, t)
  BY <1>1 DEF MarkWatchFolderLoaded
<1>2. CASE ~Contains(list, t)
  <2> DEFINE cap == MaxWatchFolderLoaded
             more == Append(list, t)
             from == IF Len(more) > cap THEN Len(more) - cap + 1 ELSE 1
             m == SubSeq(more, from, Len(more))
  <2>1. cap \in Nat \ {0} /\ list \in Seq(Torrents) /\ Len(list) \in Nat
    BY WatchAssumption DEF Lists
  <2>2. /\ more \in Seq(Torrents) /\ Len(more) = Len(list) + 1
        /\ \A k \in 1 .. Len(list) : more[k] = list[k]
        /\ more[Len(list) + 1] = t
    BY <2>1, AppendProperties
  <2>3. MarkWatchFolderLoaded(list, t) = m
    BY <1>2 DEF MarkWatchFolderLoaded, LastOf
  <2>4. \A j, k \in 1 .. Len(more) : more[j] = more[k] => j = k
    <3>1. \A k \in 1 .. Len(list) : list[k] # t
      BY <1>2 DEF Contains
    <3>2. \A j, k \in 1 .. Len(list) : list[j] = list[k] => j = k
      BY <2>1 DEF IsInjective
    <3> HIDE DEF more
    <3> QED
      BY <2>1, <2>2, <3>1, <3>2
  <2> HIDE DEF more, cap
  <2>5. /\ from \in 1 .. Len(more) /\ Len(more) \in Nat /\ Len(more) - from + 1 <= cap
        /\ \A k \in from .. Len(more) : more[k] \in Torrents
    BY <2>1, <2>2
  <2> HIDE DEF from
  <2>6. /\ m \in Seq(Torrents) /\ Len(m) = Len(more) - from + 1
        /\ \A k \in 1 .. Len(more) - from + 1 : m[k] = more[from + k - 1]
    BY <2>5, SubSeqProperties
  <2> HIDE DEF m
  <2>7. IsInjective(m)
    <3> SUFFICES ASSUME NEW j \in 1 .. Len(m), NEW k \in 1 .. Len(m), m[j] = m[k] PROVE j = k
      BY <2>6 DEF IsInjective
    <3>1. /\ from + j - 1 \in 1 .. Len(more) /\ m[j] = more[from + j - 1]
          /\ from + k - 1 \in 1 .. Len(more) /\ m[k] = more[from + k - 1]
      BY <2>5, <2>6
    <3>2. from + j - 1 = from + k - 1
      BY <2>4, <3>1
    <3> QED
      BY <2>5, <3>2
  <2>8. m \in Lists /\ Len(m) <= MaxWatchFolderLoaded
    BY <2>5, <2>6 DEF Lists, cap
  <2> QED
    BY <2>3, <2>7, <2>8
<1> QED
  BY <1>1, <1>2

(* The lists of the folders a mark leaves alone are the same.              *)
LEMMA ScanMarkSafe ==
  ASSUME IntakeInv, NEW s \in Scanners, ScanMark(s)
  PROVE  IntakeInv'
<1> DEFINE id == scan[s].row.id
           b == scan[s].blob
           list == MarkWatchFolderLoaded(loaded[id], b)
           u == [scan[s] EXCEPT !.pc = "unlink"]
           k == [scan[s] EXCEPT !.pc = "file", !.file = 0, !.blob = NoTorrent]
<1>1. SweepInv /\ RowsInv
  BY DEF IntakeInv
<1>2. RowsInv'
  BY <1>1, RowsAside DEF ScanMark
<1>3. /\ scan[s].pc = "mark" /\ scan[s].pc \in Under /\ scan[s].pc \in WithFile /\ scan[s].pc \in {"mark", "unlink"}
      /\ UNCHANGED <<dir, locked, folder, lastId, watching, made, unlinked, swapped, reloaded>>
  BY DEF ScanMark, folderVars, ghostVars, Under, WithFile
<1>4. ScanShape(scan[s]) /\ id \in 1 .. lastId /\ b \in Torrents /\ scan[s].file \in Names
  <2>1. ScanShape(scan[s])
    BY <1>1, OneSweep
  <2> QED
    BY <1>3, <2>1 DEF ScanShape
<1>5. /\ loaded' \in Seq(Lists) /\ Len(loaded') = lastId
      /\ \A x \in 1 .. lastId : Len(loaded'[x]) <= MaxWatchFolderLoaded /\ IsInjective(loaded'[x])
      /\ \A x \in 1 .. lastId : x # id => loaded'[x] = loaded[x]
  <2>1. /\ loaded \in Seq(Lists) /\ Len(loaded) = lastId
        /\ \A x \in 1 .. lastId : Len(loaded[x]) <= MaxWatchFolderLoaded /\ IsInjective(loaded[x])
    BY <1>1 DEF SweepInv, FolderShape
  <2>2. CASE UNCHANGED loaded
    BY <2>1, <2>2
  <2>3. CASE loaded' = [loaded EXCEPT ![id] = list]
    <3>1. loaded[id] \in Lists
      BY <1>4, <2>1
    <3>2. list \in Lists /\ Len(list) <= MaxWatchFolderLoaded /\ IsInjective(list)
      BY <1>4, <2>1, <3>1, MarkKeeps
    <3> HIDE DEF list
    <3>3. /\ loaded' \in Seq(Lists) /\ Len(loaded') = Len(loaded)
          /\ \A x \in 1 .. Len(loaded) : loaded'[x] = IF x = id THEN list ELSE loaded[x]
      BY <1>4, <2>1, <2>3, <3>2, ExceptSeq
    <3> QED
      BY <2>1, <3>2, <3>3
  <2> QED
    BY <2>2, <2>3 DEF ScanMark
<1>6. FolderShape'
  BY <1>1, <1>3, <1>5 DEF SweepInv, FolderShape
<1>7. NeverReloaded' /\ UnlinkedLoaded'
  BY <1>1, <1>3 DEF SweepInv, NeverReloaded, UnlinkedLoaded
<1>8. PICK c : /\ scan' = [scan EXCEPT ![s] = c] /\ DOMAIN c = {"pc", "row", "todo", "file", "blob"}
               /\ c.row = scan[s].row /\ c.todo = scan[s].todo
               /\ c.pc = "file" \/ (c.pc = "unlink" /\ c.file = scan[s].file /\ c.blob = b)
  <2>1. CASE SetScan(s, u)
    <3>1. scan' = [scan EXCEPT ![s] = u]
      BY <2>1 DEF SetScan
    <3>2. DOMAIN u = {"pc", "row", "todo", "file", "blob"} /\ u.row = scan[s].row /\ u.todo = scan[s].todo
          /\ u.pc = "unlink" /\ u.file = scan[s].file /\ u.blob = b
      BY <1>4 DEF ScanShape
    <3> HIDE DEF u
    <3> QED
      BY <3>1, <3>2
  <2>2. CASE Skip(s)
    <3>1. scan' = [scan EXCEPT ![s] = k]
      BY <2>2 DEF Skip, SetScan
    <3>2. DOMAIN k = {"pc", "row", "todo", "file", "blob"} /\ k.row = scan[s].row /\ k.todo = scan[s].todo /\ k.pc = "file"
      BY <1>4 DEF ScanShape
    <3> HIDE DEF k
    <3> QED
      BY <3>1, <3>2
  <2> QED
    BY <2>1, <2>2 DEF ScanMark
<1>9. ScanShape(c) /\ c.pc \in Under /\ c.pc \notin {"find", "insert"}
  BY <1>3, <1>4, <1>8 DEF ScanShape, Under, WithFile
<1>10. /\ c.pc \in WithFile => dir'[c.file] \in {NoTorrent, c.blob} \union swapped
       /\ c.pc \in {"mark", "unlink"} => c.blob \in made'
  BY <1>1, <1>3, <1>8, OneSweep DEF WithFile
<1>11. \A z \in Scanners \ {s} : scan[z].pc \in Under =>
            /\ scan[z].row.id \in locked'
            /\ c.row.id # scan[z].row.id
            /\ loaded'[scan[z].row.id] = loaded[scan[z].row.id]
            /\ scan[z].pc \in WithFile => dir'[scan[z].file] \in {dir[scan[z].file], NoTorrent}
  <2> SUFFICES ASSUME NEW z \in Scanners \ {s}, scan[z].pc \in Under
               PROVE  scan[z].row.id \in locked /\ scan[z].row.id # id /\ loaded'[scan[z].row.id] = loaded[scan[z].row.id]
    BY <1>3, <1>8
  <2>1. scan[z].row.id \in locked /\ scan[z].row.id # id /\ locked \subseteq 1 .. lastId
    BY <1>1, <1>3, OneSweep
  <2> QED
    BY <1>5, <2>1
<1>12. c.row.id \in locked'
  BY <1>1, <1>3, <1>8, OneSweep
<1>13. SweepInv'
  BY <1>1, <1>3, <1>6, <1>7, <1>8, <1>9, <1>10, <1>11, <1>12, SweepMoves
<1> QED
  BY <1>2, <1>13 DEF IntakeInv

LEMMA ScanStepSafe ==
  ASSUME IntakeInv, NEW s \in Scanners, ScanStep(s)
  PROVE  IntakeInv'
BY folderLockSafe, ReadDirSafe, ScanFileSafe, CreateFromTorrentSafe, ScanInsertSafe, ScanMarkSafe, ScanUnlinkSafe
   DEF ScanStep


--------------------------------------------------------------------------------
(* Users and operators.                                                    *)

(* A file dropped over one that is being loaded counts as swapped.         *)
LEMMA DropSafe ==
  ASSUME IntakeInv, NEW n \in Names, NEW t \in Torrents, Drop(n, t)
  PROVE  IntakeInv'
<1>1. SweepInv /\ RowsInv
  BY DEF IntakeInv
<1>2. RowsInv'
  BY <1>1, RowsAside DEF Drop
<1>3. /\ dir' = [dir EXCEPT ![n] = t] /\ swapped \subseteq swapped'
      /\ \A s \in Scanners : scan[s].file = n => t \in swapped'
      /\ UNCHANGED <<loaded, scan, locked, made, unlinked, reloaded, folder, lastId, watching>>
  BY DEF Drop, folderVars
<1>4. FolderShape'
  BY <1>1, <1>3 DEF SweepInv, FolderShape
<1>5. ScansShaped' /\ SweepsLocked' /\ NotLoadedYet'
  BY <1>1, <1>3 DEF SweepInv, ScansShaped, ScanShape, SweepsLocked, NotLoadedYet
<1>6. FileKnown'
  <2> SUFFICES ASSUME NEW s \in Scanners, scan[s].pc \in WithFile
               PROVE  /\ dir'[scan[s].file] \in {NoTorrent, scan[s].blob} \union swapped'
                      /\ scan[s].pc \in {"mark", "unlink"} => scan[s].blob \in made
    BY <1>3 DEF FileKnown, WithFile
  <2>1. /\ dir[scan[s].file] \in {NoTorrent, scan[s].blob} \union swapped /\ scan[s].file \in Names
        /\ scan[s].pc \in {"mark", "unlink"} => scan[s].blob \in made
    BY <1>1, OneSweep DEF ScanShape
  <2>2. dir'[scan[s].file] = IF scan[s].file = n THEN t ELSE dir[scan[s].file]
    BY <1>1, <1>3, <2>1 DEF SweepInv, FolderShape
  <2> QED
    BY <1>3, <2>1, <2>2
<1>7. UnlinkedLoaded' /\ NeverReloaded'
  BY <1>1, <1>3 DEF SweepInv, UnlinkedLoaded, NeverReloaded
<1> QED
  BY <1>2, <1>4, <1>5, <1>6, <1>7 DEF IntakeInv, SweepInv

(* The folder's row changes; ids and loaded sets given out stay.           *)
LEMMA FolderEdited ==
  ASSUME SweepInv, FolderShape', lastId' \in Nat, lastId <= lastId',
         \A x \in 1 .. lastId : loaded'[x] = loaded[x],
         UNCHANGED <<dir, scan, locked>>, UNCHANGED ghostVars
  PROVE  SweepInv'
<1>1. ScansShaped'
  <2>1. lastId \in Nat
    BY DEF SweepInv, FolderShape
  <2>2. \A x : x \in 1 .. lastId => x \in 1 .. lastId'
    BY <2>1
  <2> QED
    BY <2>2 DEF SweepInv, ScansShaped, ScanShape
<1>2. SweepsLocked' /\ FileKnown' /\ UnlinkedLoaded' /\ NeverReloaded'
  BY DEF SweepInv, SweepsLocked, FileKnown, UnlinkedLoaded, NeverReloaded, ghostVars
<1>3. NotLoadedYet'
  <2> SUFFICES ASSUME NEW s \in Scanners, scan[s].pc \in {"find", "insert"}
               PROVE  ~Contains(loaded'[scan[s].row.id], scan[s].blob)
    BY DEF NotLoadedYet, Contains
  <2>1. scan[s].row.id \in 1 .. lastId /\ ~Contains(loaded[scan[s].row.id], scan[s].blob)
    BY OneSweep DEF ScanShape
  <2> QED
    BY <2>1
<1> QED
  BY <1>1, <1>2, <1>3 DEF SweepInv

(* A new folder starts with an empty loaded set.                           *)
LEMMA FolderAdded ==
  ASSUME FolderShape, loaded' = Append(loaded, <<>>), lastId' = lastId + 1
  PROVE  /\ loaded' \in Seq(Lists) /\ Len(loaded') = lastId' /\ lastId' \in Nat /\ lastId <= lastId'
         /\ \A x \in 1 .. lastId' : Len(loaded'[x]) <= MaxWatchFolderLoaded /\ IsInjective(loaded'[x])
         /\ \A x \in 1 .. lastId : loaded'[x] = loaded[x]
<1> DEFINE e == <<>>
<1>1. e \in Lists /\ Len(e) <= MaxWatchFolderLoaded /\ IsInjective(e)
  BY WatchAssumption DEF Lists, IsInjective
<1>2. /\ loaded \in Seq(Lists) /\ Len(loaded) = lastId /\ lastId \in Nat
      /\ \A x \in 1 .. lastId : Len(loaded[x]) <= MaxWatchFolderLoaded /\ IsInjective(loaded[x])
  BY DEF FolderShape
<1>3. loaded' = Append(loaded, e)
  OBVIOUS
<1> HIDE DEF e
<1>4. /\ loaded' \in Seq(Lists) /\ Len(loaded') = lastId + 1
      /\ \A x \in 1 .. lastId : loaded'[x] = loaded[x]
      /\ loaded'[lastId + 1] = e
  BY <1>1, <1>2, <1>3, AppendProperties
<1> QED
  BY <1>1, <1>2, <1>4

LEMMA RecordWidens ==
  ASSUME NEW I, NEW J, I \subseteq J, NEW B, B \subseteq BOOLEAN,
         NEW f \in [id : I, enabled : B, delete : BOOLEAN]
  PROVE  f \in [id : J, enabled : BOOLEAN, delete : BOOLEAN]
OBVIOUS

LEMMA FolderStepsSafe ==
  ASSUME IntakeInv, PatchWatchFolder \/ DeleteWatchFolder \/ CreateWatchFolder
  PROVE  IntakeInv'
<1>1. SweepInv /\ RowsInv /\ FolderShape
  BY DEF IntakeInv, SweepInv
<1>2. RowsInv'
  BY <1>1, RowsAside DEF PatchWatchFolder, DeleteWatchFolder, CreateWatchFolder
<1>3. lastId \in Nat /\ folder \in [id : 0 .. lastId, enabled : BOOLEAN, delete : BOOLEAN]
  BY <1>1 DEF FolderShape
<1>4. CASE PatchWatchFolder \/ DeleteWatchFolder
  <2>1. folder' \in [id : 0 .. lastId, enabled : BOOLEAN, delete : BOOLEAN]
    <3>1. CASE PatchWatchFolder
      <4>1. folder' \in [id : {folder.id}, enabled : BOOLEAN, delete : BOOLEAN] /\ folder.id \in 0 .. lastId
        BY <1>3, <3>1 DEF PatchWatchFolder, UpdateWatchFolder
      <4>2. {folder.id} \subseteq 0 .. lastId
        BY <4>1
      <4> QED
        BY <4>1, <4>2, RecordWidens
    <3>2. CASE DeleteWatchFolder
      BY <1>3, <3>2 DEF DeleteWatchFolder, NoFolder
    <3> QED
      BY <1>4, <3>1, <3>2
  <2>2. UNCHANGED <<dir, lastId, loaded, watching, scan, locked>> /\ UNCHANGED ghostVars
    BY <1>4 DEF PatchWatchFolder, DeleteWatchFolder
  <2>3. FolderShape'
    BY <1>1, <2>1, <2>2 DEF FolderShape
  <2>4. SweepInv'
    BY <1>1, <1>3, <2>2, <2>3, FolderEdited
  <2> QED
    BY <1>2, <2>4 DEF IntakeInv
<1>5. CASE CreateWatchFolder
  <2>1. /\ lastId' = lastId + 1 /\ loaded' = Append(loaded, <<>>)
        /\ UNCHANGED <<dir, watching, scan, locked>> /\ UNCHANGED ghostVars
        /\ folder' \in [id : {lastId + 1}, enabled : {TRUE}, delete : BOOLEAN]
    BY <1>5 DEF CreateWatchFolder, InsertWatchFolder
  <2>2. folder' \in [id : 0 .. lastId', enabled : BOOLEAN, delete : BOOLEAN]
    <3>1. {lastId + 1} \subseteq 0 .. lastId' /\ {TRUE} \subseteq BOOLEAN
      BY <1>3, <2>1
    <3> QED
      BY <2>1, <3>1, RecordWidens
  <2>3. /\ loaded' \in Seq(Lists) /\ Len(loaded') = lastId' /\ lastId' \in Nat /\ lastId <= lastId'
        /\ \A x \in 1 .. lastId' : Len(loaded'[x]) <= MaxWatchFolderLoaded /\ IsInjective(loaded'[x])
        /\ \A x \in 1 .. lastId : loaded'[x] = loaded[x]
    BY <1>1, <2>1, FolderAdded
  <2>4. watching' \in 0 .. lastId' /\ locked' \subseteq 1 .. lastId'
    BY <1>1, <1>3, <2>1 DEF FolderShape
  <2>5. FolderShape'
    BY <1>1, <2>1, <2>2, <2>3, <2>4 DEF FolderShape
  <2>6. SweepInv'
    BY <1>1, <2>1, <2>3, <2>5, FolderEdited
  <2> QED
    BY <1>2, <2>6 DEF IntakeInv
<1> QED
  BY <1>4, <1>5

--------------------------------------------------------------------------------
(* The restart.                                                            *)

LEMMA IdleCalls ==
  ASSUME RowsSafe, FlushSafe, SelectionPlaced, budget \in IntakeBudget,
         \A i \in Rows : task[i].no # 0 => task[i].no > budget.posts,
         req = [r \in Requests |-> NoReq]
  PROVE  RowsInv
<1>1. \A r \in Requests : req[r] = NoReq /\ CallShape(req[r]) /\ req[r].pc = "idle"
  BY IdleShape
<1>2. CallsShaped /\ NumbersOwn /\ SelectionAhead
  BY <1>1 DEF CallsShaped, NumbersOwn, Busy, SelectionAhead
<1> QED
  BY <1>2 DEF RowsInv

LEMMA RestartRowsSafe ==
  ASSUME RowsInv, IntakeRestart
  PROVE  RowsInv'
<1>1. budget \in IntakeBudget
  BY DEF RowsInv, NumbersOwn
<1>2. budget' \in IntakeBudget /\ budget'.posts = budget.posts
  BY <1>1, SpentBudget DEF IntakeRestart
<1>3. task \in Seq(TaskRow) /\ Rows = 1 .. Len(task) /\ Len(task) \in Nat
  BY DEF RowsInv, RowsSafe, Rows
<1>4. \A i \in Rows : /\ task'[i] \in TaskRow /\ RowSafe(task'[i])
                      /\ task'[i].hashes = task[i].hashes /\ task'[i].state = task[i].state
                      /\ task'[i].no = task[i].no /\ task'[i].sel = task[i].sel
                      /\ task'[i].code = task[i].code
  <2> SUFFICES ASSUME NEW i \in Rows
               PROVE  /\ task'[i] \in TaskRow /\ RowSafe(task'[i])
                      /\ task'[i].hashes = task[i].hashes /\ task'[i].state = task[i].state
                      /\ task'[i].no = task[i].no /\ task'[i].sel = task[i].sel
                      /\ task'[i].code = task[i].code
    OBVIOUS
  <2>1. task'[i] = [task[i] EXCEPT !.landed = FALSE] /\ task[i] \in TaskRow /\ RowSafe(task[i])
    BY RowFields DEF IntakeRestart, RestartRows
  <2> QED
    BY <2>1 DEF TaskRow, RowSafe
<1>5. task' \in Seq(TaskRow) /\ Rows' = Rows /\ Len(task') = Len(task)
  <2>1. task' \in [1 .. Len(task) -> TaskRow]
    BY <1>3, <1>4 DEF IntakeRestart, RestartRows
  <2> QED
    BY <1>3, <2>1, SeqDef DEF Rows
<1>6. HashHeldOnce'
  BY <1>4, <1>5 DEF RowsInv, RowsSafe, HashHeldOnce, LiveRows
<1>7. RowsSafe'
  BY <1>4, <1>5, <1>6 DEF RowsSafe, RowSafe
<1>8. FlushSafe'
  BY <1>3, <1>5 DEF IntakeRestart, FlushSafe
<1>9. SelectionPlaced'
  BY <1>4, <1>5 DEF RowsInv, SelectionPlaced
<1>10. \A i \in Rows' : task'[i].no # 0 => task'[i].no > budget'.posts
  BY <1>2, <1>4, <1>5 DEF RowsInv, NumbersOwn
<1>11. req' = [r \in Requests |-> NoReq]
  BY DEF IntakeRestart
<1>12. \A r \in Requests : req'[r] = NoReq /\ CallShape(req'[r]) /\ req'[r].pc = "idle"
  BY <1>11, IdleShape
<1>13. (CallsShaped /\ NumbersOwn /\ SelectionAhead)'
  BY <1>2, <1>10, <1>11, <1>12 DEF CallsShaped, CallShape, Unselected, NumbersOwn, Busy, SelectionAhead
<1> QED
  BY <1>7, <1>8, <1>9, <1>13 DEF RowsInv

LEMMA RestartSweepsSafe ==
  ASSUME SweepInv, IntakeRestart
  PROVE  SweepInv'
<1>1. \A s \in Scanners : scan'[s] = NoScan /\ scan'[s].pc = "idle"
  BY IdleScan DEF IntakeRestart
<1>2. DOMAIN scan' = Scanners /\ locked' = {} /\ UNCHANGED <<dir, made, unlinked, swapped, reloaded>>
  BY DEF IntakeRestart
<1>3. ScansShaped'
  <2>1. /\ DOMAIN NoScan = {"pc", "row", "todo", "file", "blob"} /\ NoScan.pc = "idle"
        /\ NoScan.row \in [id : Nat, enabled : BOOLEAN, delete : BOOLEAN] /\ NoScan.todo = {}
    BY DEF NoScan, NoFolder
  <2> QED
    BY <1>1, <1>2, <2>1 DEF ScansShaped, ScanShape, WithFile
<1>4. SweepsLocked' /\ NotLoadedYet' /\ FileKnown'
  BY <1>1 DEF SweepsLocked, NotLoadedYet, FileKnown, Under, WithFile
<1>5. UnlinkedLoaded' /\ NeverReloaded'
  BY <1>2 DEF SweepInv, UnlinkedLoaded, NeverReloaded
<1>6. FolderShape'
  <2>1. FolderShape /\ lastId \in Nat /\ folder \in [id : 0 .. lastId, enabled : BOOLEAN, delete : BOOLEAN]
    BY DEF SweepInv, FolderShape
  <2>2. watching' = Watched(folder') /\ folder' = SeedWatchFolder
    BY DEF IntakeRestart
  <2>3. CASE folder'.id > lastId
    <3>1. lastId' = folder'.id /\ loaded' = Append(loaded, <<>>)
      BY <2>3 DEF IntakeRestart
    <3>2. folder' = [id |-> lastId + 1, enabled |-> TRUE, delete |-> FALSE]
      BY <2>1, <2>2, <2>3 DEF SeedWatchFolder
    <3>3. lastId' = lastId + 1 /\ watching' = lastId + 1
      BY <2>2, <3>1, <3>2 DEF Watched
    <3>4. /\ loaded' \in Seq(Lists) /\ Len(loaded') = lastId' /\ lastId' \in Nat
          /\ \A x \in 1 .. lastId' : Len(loaded'[x]) <= MaxWatchFolderLoaded /\ IsInjective(loaded'[x])
      BY <2>1, <3>1, <3>3, FolderAdded
    <3>5. folder' \in [id : 0 .. lastId', enabled : BOOLEAN, delete : BOOLEAN] /\ watching' \in 0 .. lastId'
      BY <2>1, <3>2, <3>3
    <3> QED
      BY <1>2, <2>1, <3>4, <3>5 DEF FolderShape
  <2>4. CASE ~(folder'.id > lastId)
    <3>1. UNCHANGED <<lastId, loaded>>
      BY <2>4 DEF IntakeRestart
    <3>2. folder' = folder
      BY <2>1, <2>2, <2>4 DEF SeedWatchFolder
    <3>3. watching' \in 0 .. lastId
      BY <2>1, <2>2, <3>2 DEF Watched
    <3> QED
      BY <1>2, <2>1, <3>1, <3>2, <3>3 DEF FolderShape
  <2> QED
    BY <2>3, <2>4
<1> QED
  BY <1>3, <1>4, <1>5, <1>6 DEF SweepInv


--------------------------------------------------------------------------------
LEMMA InitSafe ==
  ASSUME WatchInit
  PROVE  IntakeInv
<1>1. task = <<>> /\ req = [r \in Requests |-> NoReq] /\ flush = 0 /\ budget \in IntakeBudget
  BY IntakeAssumption DEF WatchInit, IntakeInit
<1>2. Rows = {} /\ LiveRows = {} /\ Len(task) = 0
  BY <1>1 DEF Rows, LiveRows
<1>3. RowsSafe /\ FlushSafe /\ SelectionPlaced
  BY <1>1, <1>2 DEF RowsSafe, HashHeldOnce, FlushSafe, SelectionPlaced
<1>4. RowsInv
  BY <1>1, <1>2, <1>3, IdleCalls
<1>5. \A s \in Scanners : scan[s] = NoScan /\ ScanShape(scan[s]) /\ scan[s].pc = "idle"
  BY IdleScan DEF WatchInit
<1>6. ScansShaped /\ SweepsLocked /\ NotLoadedYet /\ FileKnown
  BY <1>5 DEF WatchInit, ScansShaped, SweepsLocked, NotLoadedYet, FileKnown, Under, WithFile
<1>7. FolderShape
  <2> DEFINE e == <<>>
  <2>1. e \in Lists /\ Len(e) <= MaxWatchFolderLoaded /\ IsInjective(e)
    BY WatchAssumption DEF Lists, IsInjective
  <2>2. loaded = <<e>> /\ lastId = 1 /\ watching = 1 /\ locked = {} /\ dir \in [Names -> Torrents \union {NoTorrent}]
    BY DEF WatchInit
  <2>3. folder \in [id : 0 .. lastId, enabled : BOOLEAN, delete : BOOLEAN]
    <3>1. folder \in [id : {1}, enabled : {TRUE}, delete : BOOLEAN]
      BY Zenon DEF WatchInit
    <3>2. {1} \subseteq 0 .. lastId /\ {TRUE} \subseteq BOOLEAN
      BY <2>2
    <3> QED
      BY <3>1, <3>2, RecordWidens
  <2> HIDE DEF e
  <2>4. loaded \in Seq(Lists) /\ Len(loaded) = 1 /\ loaded[1] = e
    BY <2>1, <2>2
  <2> QED
    BY <2>1, <2>2, <2>3, <2>4 DEF FolderShape
<1>8. UnlinkedLoaded /\ NeverReloaded
  BY DEF WatchInit, UnlinkedLoaded, NeverReloaded
<1> QED
  BY <1>4, <1>6, <1>7, <1>8 DEF IntakeInv, SweepInv

(* Every step of a request, a row, a sweep, a user or a restart.           *)
LEMMA StepSafe ==
  ASSUME IntakeInv, [IntakeNext]_allIntakeVars
  PROVE  IntakeInv'
<1>1. RowsInv /\ SweepInv
  BY DEF IntakeInv
<1>2. CASE UNCHANGED allIntakeVars
  <2>1. UNCHANGED watchVars /\ UNCHANGED <<task, req, flush, budget>>
    BY <1>2 DEF allIntakeVars, watchVars
  <2> QED
    BY <1>1, <2>1, SweepsStay, RowsAside DEF IntakeInv
<1>3. ASSUME NEW r \in Requests, RequestStep(r), UNCHANGED watchVars PROVE IntakeInv'
  <2>1. RowsInv'
    BY <1>1, <1>3, SubmitSafe, PlanBlobSafe, PlanURISafe, validateSelectionSafe, insertPlannedSafe, RequestFailsSafe, AnsweredSafe
       DEF RequestStep, PlanStep
  <2> QED
    BY <1>1, <1>3, <2>1, SweepsStay DEF IntakeInv
<1>4. ASSUME NEW i \in Rows, RowStep(i), UNCHANGED watchVars PROVE IntakeInv'
  <2>1. RowsInv'
    BY <1>1, <1>4, AdmitSafe, ResumeSafe, RemoveRowSafe, ResolveInfohashesSafe DEF RowStep
  <2> QED
    BY <1>1, <1>4, <2>1, SweepsStay DEF IntakeInv
<1>5. CASE PauseDuplicate /\ UNCHANGED watchVars
  BY <1>1, <1>5, PauseDuplicateSafe, SweepsStay DEF IntakeInv
<1>6. ASSUME NEW s \in Scanners, ScanBegins(s) \/ ScanStep(s) PROVE IntakeInv'
  BY <1>6, ScanBeginsSafe, ScanStepSafe
<1>7. ASSUME NEW n \in Names, NEW t \in Torrents, Drop(n, t) PROVE IntakeInv'
  BY <1>7, DropSafe
<1>8. CASE PatchWatchFolder \/ DeleteWatchFolder \/ CreateWatchFolder
  BY <1>8, FolderStepsSafe
<1>9. CASE IntakeRestart
  BY <1>1, <1>9, RestartRowsSafe, RestartSweepsSafe DEF IntakeInv
<1> QED
  BY <1>2, <1>3, <1>4, <1>5, <1>6, <1>7, <1>8, <1>9 DEF IntakeNext

LEMMA IntakeInductive == IntakeSpec => []IntakeInv
<1>1. WatchInit => IntakeInv
  BY InitSafe
<1>2. IntakeInv /\ [IntakeNext]_allIntakeVars => IntakeInv'
  BY StepSafe
<1> QED
  BY <1>1, <1>2, PTL DEF IntakeSpec

(* Two live rows never share an infohash, a URI the preflight refused      *)
(* never reaches an engine and a selection lands on one openable row,      *)
(* whatever requests, sweeps, metadata write-backs, removals, failures and *)
(* restarts overlap (CreateTasks, SetInfohashes, PauseDuplicate).          *)
THEOREM IntakeIsSafe == IntakeSpec => []IntakeSafe
<1>1. IntakeInv => IntakeSafe
  <2> SUFFICES ASSUME IntakeInv PROVE IntakeSafe
    OBVIOUS
  <2>1. HashHeldOnce /\ SelectionPlaced
    BY DEF IntakeInv, RowsInv, RowsSafe
  <2>2. BlockedStaysOut
    BY DEF IntakeInv, RowsInv, RowsSafe, RowSafe, BlockedStaysOut
  <2> QED
    BY <2>1, <2>2 DEF IntakeSafe
<1> QED
  BY <1>1, IntakeInductive, PTL

(* A sweep unlinks a file only for the task it made of it, or for one      *)
(* dropped over it; no torrent of the loaded set gets a second task; and   *)
(* the loaded sets keep within their cap (scanFolder,                      *)
(* MarkWatchFolderLoaded).                                                 *)
THEOREM SweepsAreSafe == IntakeSpec => []WatchSafe
<1>1. IntakeInv => WatchSafe
  <2> SUFFICES ASSUME IntakeInv PROVE WatchSafe
    OBVIOUS
  <2>1. UnlinkedLoaded /\ NeverReloaded
    BY DEF IntakeInv, SweepInv
  <2>2. flush \in 0 .. Len(task) /\ budget \in IntakeBudget
    BY DEF IntakeInv, RowsInv, FlushSafe, NumbersOwn
  <2>3. \A i \in Rows : task[i] \in TaskRow /\ RowSafe(task[i])
    BY RowFields DEF IntakeInv
  <2>4. \A i \in Rows : /\ task[i].state \in {"queued", "paused", "downloading", "error", "removed"}
                        /\ task[i].code \in {"none", "ssrf_blocked", "torrent_duplicate"}
                        /\ task[i].hashes \subseteq HashesOf(task[i].src.torrent)
    BY <2>3 DEF TaskRow, RowSafe
  <2>5. /\ dir \in [Names -> Torrents \union {NoTorrent}]
        /\ folder.id \in 0 .. lastId /\ watching \in 0 .. lastId
        /\ \A id \in 1 .. lastId : Len(loaded[id]) <= MaxWatchFolderLoaded /\ IsInjective(loaded[id])
        /\ locked \subseteq 1 .. lastId
    BY DEF IntakeInv, SweepInv, FolderShape
  <2> QED
    BY <2>1, <2>2, <2>4, <2>5 DEF WatchSafe, IntakeTypeOK
<1> QED
  BY <1>1, IntakeInductive, PTL

--------------------------------------------------------------------------------
(* A submission's own sources.                                             *)

(* No hash of one can be a hash of the other, now or once the metadata of  *)
(* the row that is made of one has landed.                                 *)
Apart(s, z) == s.torrent = z.torrent /\ s.torrent # NoTorrent => s.hashes = {} /\ z.hashes = {}
ListApart(list) == \A k, l \in DOMAIN list : k # l => Apart(list[k].src, list[l].src)
ListsApart(a, b) == \A k \in DOMAIN a, l \in DOMAIN b : Apart(a[k].src, b[l].src)
SourcesOf(sub) == Range(sub.blobs) \union Range(sub.uris)

(* An entry is made of a source of the submission, and its hashes are      *)
(* remembered.                                                             *)
ListOf(list, q) == \A k \in DOMAIN list : list[k].src \in SourcesOf(q.sub) /\ list[k].src.hashes \subseteq q.seen

(* What a call has planned is apart, and so is what it still has to        *)
(* insert.                                                                 *)
PlannedApart(q) ==
    /\ \A k \in DOMAIN q.todo : q.todo[k] \in SourcesOf(q.sub)
    /\ ListOf(q.uris, q) /\ ListOf(q.blobs, q)
    /\ NamedOneWay(q.sub) => ListApart(q.uris) /\ ListApart(q.blobs) /\ ListsApart(q.uris, q.blobs)
CallApart(q) ==
    /\ q.pc = "plan" => PlannedApart(q)
    /\ q.pc = "insert" /\ NamedOneWay(q.sub) => ListApart(q.uris)
    /\ q.pc = "failed" \/ q.clash = 0

(* The rows a call has inserted are apart from what it still has to        *)
(* insert, and are not what it failed on.                                  *)
RowsApart(q) ==
    /\ q.pc = "failed" => q.clash \in Rows
    /\ \A i \in Rows : q.pc # "idle" /\ task[i].no = q.no /\ NamedOneWay(q.sub) =>
        /\ q.pc = "insert" => \A k \in DOMAIN q.uris : Apart(task[i].src, q.uris[k].src)
        /\ q.pc = "failed" => i # q.clash
CollisionInv == \A r \in Requests : CallApart(req[r]) /\ RowsApart(req[r])

--------------------------------------------------------------------------------
(* The rows under the calls.                                               *)

(* Rows keep their source and their number, and only a watched file adds   *)
(* one: the calls stay apart from them.                                    *)
LEMMA CallsUnderRows ==
  ASSUME RowsInv, CollisionInv, UNCHANGED req, Rows \subseteq Rows',
         \A i \in Rows : task'[i].src = task[i].src /\ task'[i].no = task[i].no,
         \A i \in Rows' \ Rows : task'[i].no = 0
  PROVE  CollisionInv'
<1> SUFFICES ASSUME NEW r \in Requests PROVE (CallApart(req[r]) /\ RowsApart(req[r]))'
  BY DEF CollisionInv
<1> DEFINE q == req[r]
<1>1. CallApart(q) /\ RowsApart(q) /\ q' = q
  BY DEF CollisionInv
<1>2. CallApart(q)'
  BY <1>1
<1>3. q.pc # "idle" => q.no # 0
  BY DEF RowsInv, NumbersOwn, Busy, IntakeBudget
<1>4. RowsApart(q)'
  BY <1>1, <1>3 DEF RowsApart
<1> QED
  BY <1>2, <1>4

(* One row is rewritten under the same source and number.                  *)
LEMMA CallsUnderRow ==
  ASSUME RowsInv, CollisionInv, UNCHANGED req, NEW i \in Rows, NEW t,
         task' = [task EXCEPT ![i] = t], t.src = task[i].src, t.no = task[i].no
  PROVE  CollisionInv'
<1>1. task \in Seq(TaskRow) /\ DOMAIN task' = DOMAIN task
  BY DEF RowsInv, RowsSafe
<1>2. Rows' = Rows
  BY <1>1 DEF Rows
<1>3. \A j \in Rows : task'[j] = IF j = i THEN t ELSE task[j]
  BY DEF Rows
<1> QED
  BY <1>2, <1>3, CallsUnderRows

(* The life of a row keeps its source and its number.                      *)
LEMMA RowStepApart ==
  ASSUME RowsInv, CollisionInv, NEW i \in Rows, RowStep(i)
  PROVE  CollisionInv'
<1>1. task[i] \in TaskRow /\ task \in Seq(TaskRow) /\ UNCHANGED req
  BY RowFields DEF RowStep, Admit, Resume, RemoveRow, ResolveInfohashes, RowsInv, RowsSafe
<1>2. CASE Admit(i)
  <2> DEFINE t == [task[i] EXCEPT !.state = "downloading", !.handle = TRUE]
  <2>1. task' = [task EXCEPT ![i] = t] /\ t.src = task[i].src /\ t.no = task[i].no
    BY <1>1, <1>2 DEF Admit, TaskRow
  <2> HIDE DEF t
  <2> QED
    BY <1>1, <2>1, CallsUnderRow
<1>3. CASE Resume(i) \/ RemoveRow(i)
  <2> DEFINE t(st) == [task[i] EXCEPT !.state = st]
  <2>1. PICK st \in {"queued", "removed"} : task' = [task EXCEPT ![i] = t(st)]
    BY <1>3 DEF Resume, RemoveRow
  <2>2. t(st).src = task[i].src /\ t(st).no = task[i].no
    BY <1>1 DEF TaskRow
  <2> HIDE DEF t
  <2> QED
    BY <1>1, <2>1, <2>2, CallsUnderRow
<1>4. CASE ResolveInfohashes(i)
  <2> DEFINE pair == Hashes(task[i].src.torrent)
             t == [task[i] EXCEPT !.hashes = task[i].hashes \union pair, !.landed = TRUE]
  <2>1. UNCHANGED task \/ task' = [task EXCEPT ![i] = t]
    BY <1>4 DEF ResolveInfohashes, SetInfohashes
  <2> HIDE DEF pair
  <2>2. t.src = task[i].src /\ t.no = task[i].no
    BY <1>1 DEF TaskRow
  <2> HIDE DEF t
  <2>3. CASE UNCHANGED task
    BY <1>1, <2>3, CallsUnderRows DEF Rows
  <2> QED
    BY <1>1, <2>1, <2>2, <2>3, CallsUnderRow
<1> QED
  BY <1>2, <1>3, <1>4 DEF RowStep

LEMMA PauseDuplicateApart ==
  ASSUME RowsInv, CollisionInv, PauseDuplicate
  PROVE  CollisionInv'
<1> DEFINE i == flush
           b == Pausable(i)
           t == [task[i] EXCEPT !.landed = TRUE,
                                !.state = IF b THEN "paused" ELSE task[i].state,
                                !.code = IF b THEN "torrent_duplicate" ELSE task[i].code]
<1>1. i \in Rows /\ UNCHANGED req
  BY DEF PauseDuplicate, RowsInv, FlushSafe, RowsSafe, Rows
<1>2. task' = [task EXCEPT ![i] = t]
  BY DEF PauseDuplicate
<1>3. task[i] \in TaskRow
  BY <1>1, RowFields
<1> HIDE DEF i, b
<1>4. t.src = task[i].src /\ t.no = task[i].no
  BY <1>3 DEF TaskRow
<1> HIDE DEF t
<1> QED
  BY <1>1, <1>2, <1>4, CallsUnderRow

(* A sweep adds rows without a submission's number, the folder's other     *)
(* steps none.                                                             *)
LEMMA FolderSideApart ==
  ASSUME IntakeInv, CollisionInv,
         \/ \E s \in Scanners : ScanBegins(s) \/ ScanStep(s)
         \/ \E n \in Names, t \in Torrents : Drop(n, t)
         \/ PatchWatchFolder \/ DeleteWatchFolder \/ CreateWatchFolder
  PROVE  CollisionInv'
<1>1. RowsInv /\ SweepInv /\ UNCHANGED req
  BY DEF IntakeInv, ScanBegins, ScanStep, folderLock, ReadDir, ScanFile, CreateFromTorrent, ScanInsert, ScanMark, ScanUnlink,
         Drop, PatchWatchFolder, DeleteWatchFolder, CreateWatchFolder
<1>2. CASE UNCHANGED task
  BY <1>1, <1>2, CallsUnderRows DEF Rows
<1>3. ASSUME task' # task PROVE CollisionInv'
  <2>1. PICK s \in Scanners : ScanInsert(s)
    BY <1>3 DEF ScanBegins, ScanStep, folderLock, ReadDir, ScanFile, CreateFromTorrent, ScanMark, ScanUnlink,
                Drop, PatchWatchFolder, DeleteWatchFolder, CreateWatchFolder
  <2> DEFINE b == scan[s].blob
             t == NewRow(Planned(Blob(b), FALSE), FALSE, 0)
             new == Len(task) + 1
  <2>2. UniqueFree(Hashes(b)) /\ CreateLogged(t) /\ UNCHANGED flush /\ scan[s].pc = "insert"
    BY <1>3, <2>1 DEF ScanInsert
  <2>3. b \in Torrents
    BY <1>1, <2>2, OneSweep DEF ScanShape, WithFile
  <2>4. t \in TaskRow /\ RowSafe(t) /\ UniqueFree(t.hashes) /\ t.no = 0
    BY <2>2, <2>3, WatchedRow
  <2> HIDE DEF t
  <2>5. Rows' = Rows \union {new} /\ (\A j \in Rows : task'[j] = task[j]) /\ task'[new] = t
    BY <1>1, <2>2, <2>4, RowAdded
  <2> HIDE DEF new
  <2> QED
    BY <1>1, <2>4, <2>5, CallsUnderRows
<1> QED
  BY <1>2, <1>3

LEMMA IdleApart == CallApart(NoReq) /\ RowsApart(NoReq)
BY DEF CallApart, RowsApart, NoReq

LEMMA RestartApart ==
  ASSUME IntakeRestart
  PROVE  CollisionInv'
<1>1. \A r \in Requests : req'[r] = NoReq
  BY DEF IntakeRestart
<1> SUFFICES ASSUME NEW r \in Requests PROVE (CallApart(req[r]) /\ RowsApart(req[r]))'
  BY DEF CollisionInv
<1>2. req'[r].pc = "idle" /\ req'[r].clash = 0
  BY <1>1 DEF NoReq
<1> QED
  BY <1>2 DEF CallApart, RowsApart

--------------------------------------------------------------------------------
(* A call plans apart.                                                     *)

(* One call moves on over the rows as they are.                            *)
LEMMA CallTurns ==
  ASSUME RowsInv, CollisionInv, NEW r \in Requests, NEW q,
         req' = [req EXCEPT ![r] = q], UNCHANGED task, CallApart(q), RowsApart(q)
  PROVE  CollisionInv'
<1>1. req'[r] = q /\ \A z \in Requests \ {r} : req'[z] = req[z]
  BY DEF RowsInv, CallsShaped
<1>2. \A z \in Requests : CallApart(req'[z]) /\ RowsApart(req'[z])
  BY <1>1 DEF CollisionInv
<1> SUFFICES ASSUME NEW z \in Requests PROVE (CallApart(req[z]) /\ RowsApart(req[z]))'
  BY DEF CollisionInv
<1>3. CallApart(req'[z]) /\ RowsApart(req'[z])
  BY <1>2
<1>4. CallApart(req[z])'
  BY <1>3
<1>5. RowsApart(req[z])'
  BY <1>3 DEF RowsApart, Rows
<1> QED
  BY <1>4, <1>5

(* A source that shares no hash with what is remembered is apart from what *)
(* is remembered.                                                          *)
LEMMA SourceApart ==
  ASSUME NEW sub, NamedOneWay(sub), NEW s \in SourcesOf(sub), NEW z \in SourcesOf(sub),
         NEW seen, z.hashes \subseteq seen, s.hashes \intersect seen = {}
  PROVE  Apart(s, z) /\ Apart(z, s)
<1>1. NamedAlike(s, z)
  BY DEF NamedOneWay, SourcesOf
<1> QED
  BY <1>1 DEF NamedAlike, Apart

(* The entries of a list that grew.                                        *)
LEMMA GrownList ==
  ASSUME NEW list \in Seq(Plan), NEW p \in Plan
  PROVE  LET more == Append(list, p)
         IN  /\ \A k \in DOMAIN more : IF k \in DOMAIN list THEN more[k] = list[k] ELSE more[k] = p
             /\ \A k, l \in DOMAIN more : k \notin DOMAIN list /\ l \notin DOMAIN list => k = l
<1> DEFINE more == Append(list, p)
<1>1. /\ more \in Seq(Plan) /\ Len(more) = Len(list) + 1 /\ Len(list) \in Nat
      /\ \A k \in 1 .. Len(list) : more[k] = list[k]
      /\ more[Len(list) + 1] = p
  BY AppendProperties
<1>2. DOMAIN more = 1 .. Len(list) + 1 /\ DOMAIN list = 1 .. Len(list)
  BY <1>1
<1> HIDE DEF more
<1>3. \A k \in DOMAIN more : IF k \in DOMAIN list THEN more[k] = list[k] ELSE k = Len(list) + 1 /\ more[k] = p
  BY <1>1, <1>2
<1> QED
  BY <1>3 DEF more

(* A list grows by a source that is apart from its entries and from those  *)
(* of the other list.                                                      *)
LEMMA ApartGrows ==
  ASSUME NEW list \in Seq(Plan), NEW other, NEW p \in Plan, ListApart(list), ListsApart(list, other),
         \A k \in DOMAIN list : Apart(list[k].src, p.src) /\ Apart(p.src, list[k].src),
         \A k \in DOMAIN other : Apart(p.src, other[k].src)
  PROVE  ListApart(Append(list, p)) /\ ListsApart(Append(list, p), other)
<1> DEFINE more == Append(list, p)
<1>1. /\ \A k \in DOMAIN more : IF k \in DOMAIN list THEN more[k] = list[k] ELSE more[k] = p
      /\ \A k, l \in DOMAIN more : k \notin DOMAIN list /\ l \notin DOMAIN list => k = l
  BY GrownList
<1> HIDE DEF more
<1>2. ListApart(more)
  <2> SUFFICES ASSUME NEW k \in DOMAIN more, NEW l \in DOMAIN more, k # l PROVE Apart(more[k].src, more[l].src)
    BY DEF ListApart
  <2>1. CASE k \in DOMAIN list /\ l \in DOMAIN list
    BY <1>1, <2>1 DEF ListApart
  <2>2. CASE k \in DOMAIN list /\ l \notin DOMAIN list
    BY <1>1, <2>2
  <2>3. CASE k \notin DOMAIN list
    BY <1>1, <2>3
  <2> QED
    BY <2>1, <2>2, <2>3
<1>3. ListsApart(more, other)
  BY <1>1 DEF ListsApart
<1> QED
  BY <1>2, <1>3 DEF more

LEMMA ListsTurn ==
  ASSUME NEW a, NEW b, ListsApart(a, b)
  PROVE  ListsApart(b, a)
BY DEF ListsApart, Apart

(* The next source of a call.                                              *)
LEMMA NextApart ==
  ASSUME RowsInv, CollisionInv, NEW r \in Requests, req[r].pc = "plan", req[r].todo # <<>>
  PROVE  /\ PlannedApart(req[r]) /\ req[r].clash = 0
         /\ Head(req[r].todo) \in SourcesOf(req[r].sub)
         /\ \A k \in DOMAIN Tail(req[r].todo) : Tail(req[r].todo)[k] \in SourcesOf(req[r].sub)
<1> DEFINE l == req[r].todo
           m == Tail(l)
<1>1. PlannedApart(req[r]) /\ req[r].clash = 0
  BY DEF CollisionInv, CallApart
<1>2. l \in Seq(Sources)
  BY DEF RowsInv, CallsShaped, CallShape
<1>3. /\ Len(m) = Len(l) - 1 /\ DOMAIN m = 1 .. Len(m) /\ Len(l) \in Nat /\ Len(l) # 0 /\ DOMAIN l = 1 .. Len(l)
      /\ (\A k \in 1 .. Len(m) : m[k] = l[k + 1]) /\ Head(l) = l[1]
  BY <1>2, HeadTailProperties, LenProperties, EmptySeq
<1>4. \A k \in DOMAIN l : l[k] \in SourcesOf(req[r].sub)
  BY <1>1 DEF PlannedApart
<1> HIDE DEF m, l
<1>5. 1 \in DOMAIN l /\ \A k \in DOMAIN m : k + 1 \in DOMAIN l /\ m[k] = l[k + 1]
  BY <1>3
<1> QED
  BY <1>1, <1>3, <1>4, <1>5 DEF l, m

(* One source is decided, and what is planned then is apart.               *)
LEMMA PlanTurns ==
  ASSUME RowsInv, CollisionInv, NEW r \in Requests, req[r].pc = "plan", req[r].todo # <<>>,
         NEW rec, DOMAIN rec = DOMAIN req[r],
         rec.pc = req[r].pc, rec.no = req[r].no, rec.sub = req[r].sub, rec.todo = req[r].todo,
         rec.clash = req[r].clash, PlannedApart(rec), PlanAs(r, rec)
  PROVE  CollisionInv'
<1> DEFINE q == [rec EXCEPT !.todo = Tail(req[r].todo)]
<1>1. req' = [req EXCEPT ![r] = q] /\ UNCHANGED task
  BY DEF PlanAs
<1>2. CallShape(req[r])
  BY NextSource
<1>3. /\ q.pc = "plan" /\ q.no = req[r].no /\ q.sub = rec.sub /\ q.todo = Tail(req[r].todo)
      /\ q.uris = rec.uris /\ q.blobs = rec.blobs /\ q.seen = rec.seen /\ q.clash = 0
  BY <1>2, NextApart DEF CallShape
<1> HIDE DEF q
<1>4. \A k \in DOMAIN q.todo : q.todo[k] \in SourcesOf(q.sub)
  BY <1>3, NextApart
<1>5. CallApart(q)
  BY <1>3, <1>4 DEF CallApart, PlannedApart, ListOf
<1>6. RowsApart(q)
  BY <1>3 DEF RowsInv, SelectionAhead, RowsApart
<1> QED
  BY <1>1, <1>5, <1>6, CallTurns

LEMMA RefusedApart ==
  ASSUME RowsInv, CollisionInv, NEW r \in Requests, req[r].pc = "plan", req[r].todo # <<>>, Refused(r)
  PROVE  CollisionInv'
<1> DEFINE rec == req[r]
<1>1. /\ DOMAIN rec = DOMAIN req[r] /\ rec.pc = req[r].pc /\ rec.no = req[r].no /\ rec.sub = req[r].sub
      /\ rec.todo = req[r].todo /\ rec.clash = req[r].clash /\ PlannedApart(rec) /\ PlanAs(r, rec)
  BY NextApart DEF Refused
<1> HIDE DEF rec
<1> QED
  BY <1>1, PlanTurns

(* The next source joins one of the two lists, its hashes are remembered.  *)
LEMMA PlanGrows ==
  ASSUME NEW c, PlannedApart(c), c.uris \in Seq(Plan), c.blobs \in Seq(Plan),
         NEW s \in Sources, s \in SourcesOf(c.sub), s.hashes \intersect c.seen = {},
         NEW b \in BOOLEAN, NEW q, q.sub = c.sub, q.todo = c.todo, q.seen = c.seen \union s.hashes,
         \/ q.uris = Append(c.uris, Planned(s, b)) /\ q.blobs = c.blobs
         \/ q.blobs = Append(c.blobs, Planned(s, b)) /\ q.uris = c.uris
  PROVE  PlannedApart(q)
<1> DEFINE p == Planned(s, b)
<1>1. p \in Plan /\ p.src = s
  BY DEF Planned, Plan
<1> HIDE DEF p
<1>2. ListOf(c.uris, q) /\ ListOf(c.blobs, q)
  BY DEF PlannedApart, ListOf
<1>3. \A list : list \in Seq(Plan) /\ ListOf(list, q) => ListOf(Append(list, p), q)
  <2> SUFFICES ASSUME NEW list, list \in Seq(Plan), ListOf(list, q) PROVE ListOf(Append(list, p), q)
    OBVIOUS
  <2> DEFINE more == Append(list, p)
  <2>1. \A k \in DOMAIN more : IF k \in DOMAIN list THEN more[k] = list[k] ELSE more[k] = p
    BY <1>1, GrownList
  <2> HIDE DEF more
  <2>2. ListOf(more, q)
    BY <1>1, <2>1 DEF ListOf
  <2> QED
    BY <2>2 DEF more
<1>4. ListOf(q.uris, q) /\ ListOf(q.blobs, q)
  BY <1>2, <1>3 DEF p
<1>5. ASSUME NamedOneWay(q.sub) PROVE ListApart(q.uris) /\ ListApart(q.blobs) /\ ListsApart(q.uris, q.blobs)
  <2>1. /\ ListApart(c.uris) /\ ListApart(c.blobs)
        /\ ListsApart(c.uris, c.blobs) /\ ListsApart(c.blobs, c.uris)
    BY <1>5, ListsTurn DEF PlannedApart
  <2>2. /\ \A k \in DOMAIN c.uris : Apart(c.uris[k].src, p.src) /\ Apart(p.src, c.uris[k].src)
        /\ \A k \in DOMAIN c.blobs : Apart(c.blobs[k].src, p.src) /\ Apart(p.src, c.blobs[k].src)
    BY <1>1, <1>5, SourceApart DEF PlannedApart, ListOf
  <2>3. CASE q.uris = Append(c.uris, p) /\ q.blobs = c.blobs
    BY <1>1, <2>1, <2>2, <2>3, ApartGrows
  <2>4. CASE q.blobs = Append(c.blobs, p) /\ q.uris = c.uris
    <3>1. ListApart(q.blobs) /\ ListsApart(q.blobs, q.uris)
      BY <1>1, <2>1, <2>2, <2>4, ApartGrows
    <3> QED
      BY <2>1, <2>4, <3>1, ListsTurn
  <2> QED
    BY <2>3, <2>4 DEF p
<1> QED
  BY <1>4, <1>5 DEF PlannedApart

(* A call that ends takes nothing with it.                                 *)
LEMMA CallEndsApart ==
  ASSUME RowsInv, CollisionInv, NEW r \in Requests, req' = [req EXCEPT ![r] = NoReq], UNCHANGED task
  PROVE  CollisionInv'
<1> DEFINE q == NoReq
<1>1. CallApart(q) /\ RowsApart(q) /\ req' = [req EXCEPT ![r] = q]
  BY IdleApart
<1> HIDE DEF q
<1> QED
  BY <1>1, CallTurns

LEMMA SubmitApart ==
  ASSUME RowsInv, CollisionInv, NEW r \in Requests, Submit(r)
  PROVE  CollisionInv'
<1>1. PICK s \in Submissions :
        req' = [req EXCEPT ![r] = [NoReq EXCEPT !.pc = "plan", !.sub = s, !.todo = s.blobs \o s.uris, !.no = budget.posts]]
  BY DEF Submit
<1> DEFINE l == s.blobs \o s.uris
           q == [NoReq EXCEPT !.pc = "plan", !.sub = s, !.todo = l, !.no = budget.posts]
<1>2. \A k \in DOMAIN l : l[k] \in SourcesOf(s)
  <2> DEFINE a == s.blobs
             b == s.uris
  <2>1. a \in Seq(Sources) /\ b \in Seq(Sources)
    BY SubmissionSources
  <2> HIDE DEF a, b
  <2>2. /\ a \o b \in Seq(Sources) /\ Len(a \o b) = Len(a) + Len(b) /\ Len(a) \in Nat /\ Len(b) \in Nat
        /\ \A i \in 1 .. Len(a \o b) : (a \o b)[i] = IF i <= Len(a) THEN a[i] ELSE b[i - Len(a)]
    BY <2>1, ConcatProperties, LenProperties
  <2>3. \A i \in DOMAIN (a \o b) : \/ i \in DOMAIN a /\ (a \o b)[i] = a[i]
                                   \/ i - Len(a) \in DOMAIN b /\ (a \o b)[i] = b[i - Len(a)]
    BY <2>1, <2>2
  <2>4. \A i \in DOMAIN (a \o b) : (a \o b)[i] \in Range(a) \union Range(b)
    BY <2>3 DEF Range
  <2> QED
    BY <2>4 DEF a, b, SourcesOf
<1> HIDE DEF l
<1>3. /\ q.pc = "plan" /\ q.no = budget.posts /\ q.sub = s /\ q.todo = l /\ q.uris = <<>> /\ q.blobs = <<>>
      /\ q.clash = 0
  BY DEF NoReq
<1>4. req' = [req EXCEPT ![r] = q] /\ UNCHANGED task
  BY <1>1 DEF Submit, l
<1> HIDE DEF q
<1>5. CallApart(q)
  BY <1>2, <1>3 DEF CallApart, PlannedApart, ListOf, ListApart, ListsApart
<1>6. \A i \in Rows : task[i].no # budget.posts
  BY DEF RowsInv, NumbersOwn, Submit, Spent, IntakeBudget
<1>7. RowsApart(q)
  BY <1>3, <1>6 DEF RowsApart
<1> QED
  BY <1>4, <1>5, <1>7, CallTurns

(* A source is planned that shares no hash with one planned before.        *)
LEMMA PlanTransferApart ==
  ASSUME RowsInv, CollisionInv, NEW r \in Requests, req[r].pc = "plan", req[r].todo # <<>>,
         NEW s, s = Head(req[r].todo), ~duplicateRejection(r, s), PlanTransfer(r, s)
  PROVE  CollisionInv'
<1> DEFINE more == Append(req[r].uris, Planned(s, FALSE))
           seen == markPlanned(req[r].seen, s)
           rec == [req[r] EXCEPT !.seen = seen, !.uris = more]
<1>1. PlanAs(r, rec)
  BY DEF PlanTransfer
<1>2. /\ CallShape(req[r]) /\ PlannedApart(req[r]) /\ s \in Sources /\ s \in SourcesOf(req[r].sub)
      /\ req[r].uris \in Seq(Plan) /\ req[r].blobs \in Seq(Plan)
  BY NextSource, NextApart DEF CallShape
<1>3. s.hashes \intersect req[r].seen = {} /\ seen = req[r].seen \union s.hashes
  BY DEF duplicateRejection, markPlanned
<1> HIDE DEF more, seen
<1>4. /\ DOMAIN rec = DOMAIN req[r] /\ rec.pc = req[r].pc /\ rec.no = req[r].no /\ rec.sub = req[r].sub
      /\ rec.todo = req[r].todo /\ rec.uris = more /\ rec.blobs = req[r].blobs /\ rec.seen = seen
      /\ rec.clash = req[r].clash
  BY <1>2 DEF CallShape
<1> HIDE DEF rec
<1>5. PlannedApart(rec)
  <2> DEFINE c == req[r]
  <2>1. /\ PlannedApart(c) /\ c.uris \in Seq(Plan) /\ c.blobs \in Seq(Plan) /\ s \in Sources /\ s \in SourcesOf(c.sub)
        /\ s.hashes \intersect c.seen = {} /\ rec.sub = c.sub /\ rec.todo = c.todo /\ rec.seen = c.seen \union s.hashes
        /\ rec.uris = Append(c.uris, Planned(s, FALSE)) /\ rec.blobs = c.blobs
    BY <1>2, <1>3, <1>4 DEF more
  <2> HIDE DEF c
  <2> QED
    BY <2>1, PlanGrows
<1> QED
  BY <1>1, <1>4, <1>5, PlanTurns

LEMMA PlanBlobApart ==
  ASSUME RowsInv, CollisionInv, NEW r \in Requests, PlanBlob(r)
  PROVE  CollisionInv'
<1>1. req[r].pc = "plan" /\ req[r].todo # <<>>
  BY DEF PlanBlob, Planning
<1> DEFINE s == Head(req[r].todo)
           more == Append(req[r].blobs, Planned(s, FALSE))
           seen == markPlanned(req[r].seen, s)
           rec == [req[r] EXCEPT !.seen = seen, !.blobs = more]
<1>2. CASE duplicateRejection(r, s)
  BY <1>1, <1>2, RefusedApart DEF PlanBlob
<1>3. CASE ~duplicateRejection(r, s)
  <2>1. PlanAs(r, rec)
    BY <1>3 DEF PlanBlob
  <2>2. /\ CallShape(req[r]) /\ PlannedApart(req[r]) /\ s \in Sources /\ s \in SourcesOf(req[r].sub)
        /\ req[r].uris \in Seq(Plan) /\ req[r].blobs \in Seq(Plan)
    BY <1>1, NextSource, NextApart DEF CallShape
  <2>3. s.hashes \intersect req[r].seen = {} /\ seen = req[r].seen \union s.hashes
    BY <1>3 DEF duplicateRejection, markPlanned
  <2> HIDE DEF more, seen, s
  <2>4. /\ DOMAIN rec = DOMAIN req[r] /\ rec.pc = req[r].pc /\ rec.no = req[r].no /\ rec.sub = req[r].sub
        /\ rec.todo = req[r].todo /\ rec.blobs = more /\ rec.uris = req[r].uris /\ rec.seen = seen
        /\ rec.clash = req[r].clash
    BY <2>2 DEF CallShape
  <2> HIDE DEF rec
  <2>5. PlannedApart(rec)
    <3> DEFINE c == req[r]
    <3>1. /\ PlannedApart(c) /\ c.uris \in Seq(Plan) /\ c.blobs \in Seq(Plan) /\ s \in Sources /\ s \in SourcesOf(c.sub)
          /\ s.hashes \intersect c.seen = {} /\ rec.sub = c.sub /\ rec.todo = c.todo /\ rec.seen = c.seen \union s.hashes
          /\ rec.blobs = Append(c.blobs, Planned(s, FALSE)) /\ rec.uris = c.uris
      BY <2>2, <2>3, <2>4 DEF more
    <3> HIDE DEF c
    <3> QED
      BY <3>1, PlanGrows
  <2> QED
    BY <1>1, <2>1, <2>4, <2>5, PlanTurns
<1> QED
  BY <1>2, <1>3

(* A URI the preflight refuses is planned unchecked: it carries no hash.   *)
LEMMA PlanURIApart ==
  ASSUME RowsInv, CollisionInv, NEW r \in Requests, PlanURI(r) \/ PlanResult(r)
  PROVE  CollisionInv'
<1>1. req[r].pc = "plan" /\ req[r].todo # <<>>
  BY DEF PlanURI, PlanResult, Planning
<1> DEFINE s == Head(req[r].todo)
           more == Append(req[r].uris, Planned(s, TRUE))
           rec == [req[r] EXCEPT !.uris = more]
<1>2. \/ Refused(r)
      \/ ~duplicateRejection(r, s) /\ PlanTransfer(r, s)
      \/ s.kind \in {"remote", "link"} /\ PlanAs(r, rec)
  BY DEF PlanURI, PlanResult
<1>3. CASE ~duplicateRejection(r, s) /\ PlanTransfer(r, s)
  BY <1>1, <1>3, PlanTransferApart
<1>4. CASE s.kind \in {"remote", "link"} /\ PlanAs(r, rec)
  <2>1. /\ CallShape(req[r]) /\ PlannedApart(req[r]) /\ s \in Sources /\ s \in SourcesOf(req[r].sub)
        /\ req[r].uris \in Seq(Plan) /\ req[r].blobs \in Seq(Plan)
    BY <1>1, NextSource, NextApart DEF CallShape
  <2> HIDE DEF more, s
  <2>2. s.hashes = {}
    BY <1>4, <2>1 DEF Sources, WellFormed
  <2>3. /\ DOMAIN rec = DOMAIN req[r] /\ rec.pc = req[r].pc /\ rec.no = req[r].no /\ rec.sub = req[r].sub
        /\ rec.todo = req[r].todo /\ rec.uris = more /\ rec.blobs = req[r].blobs /\ rec.seen = req[r].seen
        /\ rec.clash = req[r].clash
    BY <2>1 DEF CallShape
  <2> HIDE DEF rec
  <2>4. PlannedApart(rec)
    <3> DEFINE c == req[r]
    <3>1. /\ PlannedApart(c) /\ c.uris \in Seq(Plan) /\ c.blobs \in Seq(Plan) /\ s \in Sources /\ s \in SourcesOf(c.sub)
          /\ s.hashes \intersect c.seen = {} /\ rec.sub = c.sub /\ rec.todo = c.todo /\ rec.seen = c.seen \union s.hashes
          /\ rec.uris = Append(c.uris, Planned(s, TRUE)) /\ rec.blobs = c.blobs
      BY <2>1, <2>2, <2>3 DEF more
    <3> HIDE DEF c
    <3> QED
      BY <3>1, PlanGrows
  <2> QED
    BY <1>1, <1>4, <2>3, <2>4, PlanTurns
<1> QED
  BY <1>1, <1>2, <1>3, <1>4, RefusedApart

--------------------------------------------------------------------------------
(* What is inserted is apart.                                              *)

(* A row of one call joins the table: the others stay apart from theirs.   *)
LEMMA OthersApart ==
  ASSUME RowsInv, CollisionInv, NEW r \in Requests, Busy(r), NEW q, req' = [req EXCEPT ![r] = q],
         NEW new, NEW t, Rows' = Rows \union {new}, \A j \in Rows : task'[j] = task[j],
         task'[new] = t, t.no = req[r].no
  PROVE  \A z \in Requests \ {r} : (CallApart(req[z]) /\ RowsApart(req[z]))'
<1> TAKE z \in Requests \ {r}
<1>1. CallApart(req[z]) /\ RowsApart(req[z]) /\ req'[z] = req[z]
  BY DEF CollisionInv, RowsInv, CallsShaped
<1>2. CallApart(req[z])'
  BY <1>1
<1>3. Busy(z) => req[z].no # t.no
  BY DEF RowsInv, NumbersOwn
<1>4. RowsApart(req[z])'
  BY <1>1, <1>3 DEF RowsApart, Busy
<1> QED
  BY <1>2, <1>4

(* The URIs come first, the blobs behind them, the selection aside.        *)
LEMMA JoinedApart ==
  ASSUME NEW a \in Seq(Plan), NEW b \in Seq(Plan), ListApart(a), ListApart(b), ListsApart(a, b),
         NEW list, DOMAIN list = DOMAIN (a \o b), \A i \in DOMAIN list : list[i].src = (a \o b)[i].src
  PROVE  ListApart(list)
<1> DEFINE c == a \o b
<1>1. /\ c \in Seq(Plan) /\ Len(c) = Len(a) + Len(b) /\ Len(a) \in Nat /\ Len(b) \in Nat
      /\ DOMAIN a = 1 .. Len(a) /\ DOMAIN b = 1 .. Len(b) /\ DOMAIN c = 1 .. Len(c)
      /\ \A i \in 1 .. Len(c) : c[i] = IF i <= Len(a) THEN a[i] ELSE b[i - Len(a)]
  BY ConcatProperties, LenProperties
<1> HIDE DEF c
<1>2. \A i \in DOMAIN c : IF i <= Len(a) THEN i \in DOMAIN a /\ c[i] = a[i]
                          ELSE i - Len(a) \in DOMAIN b /\ c[i] = b[i - Len(a)]
  BY <1>1
<1>3. \A i \in DOMAIN list : i \in DOMAIN c /\ list[i].src = c[i].src
  BY DEF c
<1>4. \A i \in DOMAIN c : i \in Nat
  BY <1>1
<1> SUFFICES ASSUME NEW k \in DOMAIN list, NEW l \in DOMAIN list, k # l PROVE Apart(list[k].src, list[l].src)
  BY DEF ListApart
<1>5. Apart(c[k].src, c[l].src)
  <2>1. CASE k <= Len(a) /\ l <= Len(a)
    BY <1>2, <1>3, <2>1 DEF ListApart
  <2>2. CASE k <= Len(a) /\ ~(l <= Len(a))
    BY <1>2, <1>3, <2>2 DEF ListsApart
  <2>3. CASE ~(k <= Len(a)) /\ l <= Len(a)
    BY <1>2, <1>3, <2>3, ListsTurn DEF ListsApart
  <2>4. CASE ~(k <= Len(a)) /\ ~(l <= Len(a))
    <3>1. k - Len(a) # l - Len(a)
      BY <1>1, <1>3, <1>4
    <3> QED
      BY <1>2, <1>3, <2>4, <3>1 DEF ListApart
  <2> QED
    BY <2>1, <2>2, <2>3, <2>4
<1> QED
  BY <1>3, <1>5

LEMMA validateSelectionApart ==
  ASSUME RowsInv, CollisionInv, NEW r \in Requests, validateSelection(r)
  PROVE  CollisionInv'
<1> DEFINE planned == req[r].uris \o req[r].blobs
           target == selectionTarget(planned)
           chosen == [i \in DOMAIN planned |-> [planned[i] EXCEPT !.sel = req[r].sub.select /\ i = target]]
           q == [req[r] EXCEPT !.pc = "insert", !.blobs = <<>>, !.uris = chosen]
<1>1. req[r].pc = "plan" /\ UNCHANGED task
  BY DEF validateSelection
<1>2. req' = [req EXCEPT ![r] = NoReq] \/ req' = [req EXCEPT ![r] = q]
  BY DEF validateSelection
<1>3. CASE req' = [req EXCEPT ![r] = NoReq]
  BY <1>1, <1>3, CallEndsApart
<1>4. CASE req' = [req EXCEPT ![r] = q]
  <2>1. CallShape(req[r]) /\ PlannedApart(req[r]) /\ req[r].clash = 0
    BY <1>1, NextSource DEF CollisionInv, CallApart
  <2>2. req[r].uris \in Seq(Plan) /\ req[r].blobs \in Seq(Plan) /\ planned \in Seq(Plan)
    BY <2>1, ConcatProperties DEF CallShape
  <2>3. \A i \in DOMAIN planned : planned[i] \in Plan
    <3> HIDE DEF planned
    <3> QED
      BY <2>2
  <2>4. DOMAIN chosen = DOMAIN planned /\ \A i \in DOMAIN planned : chosen[i].src = planned[i].src
    <3> DEFINE sel(i) == req[r].sub.select /\ i = target
    <3> HIDE DEF planned, target, sel
    <3>1. DOMAIN chosen = DOMAIN planned /\ \A i \in DOMAIN planned : chosen[i] = [planned[i] EXCEPT !.sel = sel(i)]
      BY DEF sel
    <3> HIDE DEF chosen
    <3> QED
      BY <2>3, <3>1 DEF Plan
  <2> HIDE DEF chosen
  <2>5. ASSUME NamedOneWay(req[r].sub) PROVE ListApart(chosen)
    <3> DEFINE a == req[r].uris
               b == req[r].blobs
    <3>1. /\ a \in Seq(Plan) /\ b \in Seq(Plan)
          /\ DOMAIN chosen = DOMAIN (a \o b) /\ \A i \in DOMAIN chosen : chosen[i].src = (a \o b)[i].src
      BY <2>2, <2>4
    <3>2. ListApart(a) /\ ListApart(b) /\ ListsApart(a, b)
      BY <2>1, <2>5 DEF PlannedApart
    <3> HIDE DEF a, b
    <3> QED
      BY <3>1, <3>2, JoinedApart
  <2>6. q.pc = "insert" /\ q.no = req[r].no /\ q.sub = req[r].sub /\ q.uris = chosen /\ q.clash = 0
    BY <2>1 DEF CallShape
  <2> HIDE DEF q
  <2>7. CallApart(q)
    BY <2>5, <2>6 DEF CallApart
  <2>8. RowsApart(q)
    BY <1>1, <2>6 DEF RowsInv, SelectionAhead, RowsApart
  <2> QED
    BY <1>1, <1>4, <2>7, <2>8, CallTurns
<1> QED
  BY <1>2, <1>3, <1>4

(* The row that holds a hash of an entry is of the entry's torrent: were   *)
(* the entry apart from the row's source, it would carry no hash.          *)
LEMMA HolderNotApart ==
  ASSUME RowsInv, NEW p \in Plan, NEW i \in Holders(p.src.hashes)
  PROVE  i \in Rows /\ ~Apart(task[i].src, p.src)
<1>1. i \in Rows /\ task[i].hashes \intersect p.src.hashes # {}
  BY DEF Holders, LiveRows
<1>2. task[i].hashes \subseteq HashesOf(task[i].src.torrent) /\ p.src.hashes \subseteq HashesOf(p.src.torrent)
  BY <1>1, RowFields DEF RowSafe, Plan, Sources, WellFormed
<1>3. PICK h : h \in HashesOf(task[i].src.torrent) /\ h \in HashesOf(p.src.torrent) /\ h \in p.src.hashes
  BY <1>1, <1>2
<1>4. task[i].src.torrent # NoTorrent /\ p.src.torrent = task[i].src.torrent
  BY <1>3 DEF HashesOf, Hashes
<1> QED
  BY <1>1, <1>3, <1>4 DEF Apart

LEMMA insertPlannedApart ==
  ASSUME RowsInv, CollisionInv, NEW r \in Requests, insertPlanned(r)
  PROVE  CollisionInv'
<1> DEFINE c == req[r]
           p == Head(c.uris)
           m == Tail(c.uris)
           t == NewRow(p, c.sub.paused, c.no)
           n == [c EXCEPT !.uris = m]
           q == IF Len(c.uris) = 1 THEN NoReq ELSE n
           x == CHOOSE i \in Holders(p.src.hashes) : TRUE
           f == [c EXCEPT !.pc = "failed", !.clash = x]
<1>1. c.pc = "insert" /\ CallShape(c) /\ CallApart(c) /\ RowsApart(c) /\ Busy(r)
  BY DEF insertPlanned, RowsInv, CallsShaped, Busy, CollisionInv
<1>2. c.uris \in Seq(Plan) /\ c.uris # <<>> /\ c.no \in Nat /\ c.clash = 0
  BY <1>1 DEF CallShape, CallApart
<1>3. /\ p \in Plan /\ p = c.uris[1] /\ 1 \in DOMAIN c.uris
      /\ \A k \in DOMAIN m : k + 1 \in DOMAIN c.uris /\ k \in Nat /\ k # 0 /\ m[k] = c.uris[k + 1]
  <2> DEFINE l == c.uris
  <2>1. l \in Seq(Plan) /\ l # <<>>
    BY <1>2
  <2> HIDE DEF l
  <2>2. /\ Len(Tail(l)) = Len(l) - 1 /\ DOMAIN Tail(l) = 1 .. Len(Tail(l)) /\ Len(l) \in Nat /\ Len(l) # 0
        /\ DOMAIN l = 1 .. Len(l) /\ (\A k \in 1 .. Len(Tail(l)) : Tail(l)[k] = l[k + 1]) /\ Head(l) = l[1]
    BY <2>1, HeadTailProperties, LenProperties, EmptySeq
  <2>3. Head(l) \in Plan /\ 1 \in DOMAIN l /\ \A k \in DOMAIN Tail(l) : k + 1 \in DOMAIN l /\ k \in Nat /\ k # 0 /\ Tail(l)[k] = l[k + 1]
    BY <2>1, <2>2
  <2> QED
    BY <2>2, <2>3 DEF l
<1>4. CASE UniqueFree(p.src.hashes)
  <2>1. CreateLogged(t) /\ req' = [req EXCEPT ![r] = q] /\ UNCHANGED flush
    BY <1>4 DEF insertPlanned
  <2>2. t \in TaskRow /\ RowSafe(t) /\ t.hashes = p.src.hashes /\ t.no = c.no /\ t.src = p.src
    <3>1. c.sub.paused \in BOOLEAN
      <4>1. c.sub \in Submissions
        BY <1>1 DEF CallShape
      <4> QED
        BY <4>1, IntakeAssumption DEF Submission
    <3>2. c.no # 0
      BY <1>1 DEF RowsInv, NumbersOwn, IntakeBudget
    <3>3. p.blocked => ~p.sel
      BY <1>1, <1>3 DEF CallShape
    <3>4. t.src = p.src
      BY DEF NewRow
    <3> HIDE DEF p, c
    <3> QED
      BY <1>2, <1>3, <3>1, <3>2, <3>3, <3>4, EntryRow
  <2>3. UniqueFree(t.hashes)
    BY <1>4, <2>2
  <2> HIDE DEF t
  <2> DEFINE new == Len(task) + 1
  <2>4. /\ Rows' = Rows \union {new} /\ new \notin Rows
        /\ \A j \in Rows : task'[j] = task[j]
        /\ task'[new] = t
    BY <2>1, <2>2, <2>3, RowAdded
  <2> HIDE DEF new, p
  <2>5. CASE Len(c.uris) # 1
    <3>1. n.pc = "insert" /\ n.no = c.no /\ n.sub = c.sub /\ n.uris = m /\ n.clash = 0 /\ q = n
      BY <1>1, <1>2, <2>5 DEF CallShape
    <3> HIDE DEF q, n, m
    <3>2. ASSUME NamedOneWay(c.sub)
          PROVE  /\ ListApart(m)
                 /\ \A k \in DOMAIN m : Apart(p.src, m[k].src)
                 /\ \A i \in Rows : task[i].no = c.no => \A k \in DOMAIN m : Apart(task[i].src, m[k].src)
      <4>1. ListApart(c.uris)
        BY <1>1, <3>2 DEF CallApart
      <4>2. ListApart(m)
        BY <1>3, <4>1 DEF ListApart
      <4>3. \A k \in DOMAIN m : Apart(p.src, m[k].src)
        BY <1>3, <4>1 DEF ListApart
      <4>4. \A i \in Rows : task[i].no = c.no => \A k \in DOMAIN m : Apart(task[i].src, m[k].src)
        BY <1>1, <1>3, <3>2 DEF RowsApart
      <4> QED
        BY <4>2, <4>3, <4>4
    <3>3. CallApart(n)
      BY <3>1, <3>2 DEF CallApart
    <3>4. /\ n.pc = "insert"
          /\ \A i \in Rows' : task'[i].no = n.no /\ NamedOneWay(n.sub) =>
                \A k \in DOMAIN n.uris : Apart(task'[i].src, n.uris[k].src)
      BY <2>2, <2>4, <3>1, <3>2
    <3>5. req'[r] = n
      BY <2>1, <3>1 DEF RowsInv, CallsShaped
    <3>6. CallApart(req[r])'
      BY <3>3, <3>5
    <3>7. RowsApart(req[r])'
      BY <3>4, <3>5 DEF RowsApart
    <3>8. \A z \in Requests \ {r} : (CallApart(req[z]) /\ RowsApart(req[z]))'
      BY <1>1, <2>1, <2>2, <2>4, OthersApart
    <3> QED
      BY <3>6, <3>7, <3>8 DEF CollisionInv
  <2>6. CASE Len(c.uris) = 1
    <3>1. req'[r] = NoReq
      BY <2>1, <2>6 DEF RowsInv, CallsShaped
    <3>2. req'[r].pc = "idle" /\ req'[r].clash = 0
      BY <3>1 DEF NoReq
    <3>3. (CallApart(req[r]) /\ RowsApart(req[r]))'
      BY <3>2 DEF CallApart, RowsApart
    <3>4. \A z \in Requests \ {r} : (CallApart(req[z]) /\ RowsApart(req[z]))'
      BY <1>1, <2>1, <2>2, <2>4, OthersApart
    <3> QED
      BY <3>3, <3>4 DEF CollisionInv
  <2> QED
    BY <2>5, <2>6
<1>5. CASE ~UniqueFree(p.src.hashes)
  <2>1. req' = [req EXCEPT ![r] = f] /\ UNCHANGED task
    BY <1>5 DEF insertPlanned
  <2>2. x \in Holders(p.src.hashes)
    BY <1>5 DEF UniqueFree
  <2>3. x \in Rows /\ ~Apart(task[x].src, p.src)
    BY <1>3, <2>2, HolderNotApart
  <2> HIDE DEF x, p
  <2>4. f.pc = "failed" /\ f.no = c.no /\ f.sub = c.sub /\ f.clash = x
    BY <1>1 DEF CallShape
  <2> HIDE DEF f
  <2>5. CallApart(f)
    BY <2>4 DEF CallApart
  <2>6. RowsApart(f)
    BY <1>1, <1>3, <2>3, <2>4 DEF RowsApart
  <2> QED
    BY <2>1, <2>5, <2>6, CallTurns
<1> QED
  BY <1>4, <1>5

--------------------------------------------------------------------------------
LEMMA CollisionInductive == IntakeSpec => [](IntakeInv /\ CollisionInv)
<1>1. WatchInit => CollisionInv
  <2> SUFFICES ASSUME WatchInit, NEW r \in Requests PROVE CallApart(req[r]) /\ RowsApart(req[r])
    BY DEF CollisionInv
  <2>1. req[r] = NoReq
    BY DEF WatchInit, IntakeInit
  <2> QED
    BY <2>1, IdleApart
<1>2. IntakeInv /\ CollisionInv /\ [IntakeNext]_allIntakeVars => CollisionInv'
  <2> SUFFICES ASSUME IntakeInv, CollisionInv, [IntakeNext]_allIntakeVars PROVE CollisionInv'
    OBVIOUS
  <2>1. RowsInv
    BY DEF IntakeInv
  <2>2. CASE UNCHANGED allIntakeVars
    BY <2>1, <2>2, CallsUnderRows DEF allIntakeVars, Rows
  <2>3. ASSUME NEW r \in Requests, RequestStep(r) PROVE CollisionInv'
    <3>1. RequestFails(r) \/ Answered(r) => CollisionInv'
      BY <2>1, CallEndsApart DEF RequestFails, Answered
    <3> QED
      BY <2>1, <2>3, <3>1, SubmitApart, PlanBlobApart, PlanURIApart, validateSelectionApart, insertPlannedApart
         DEF RequestStep, PlanStep
  <2>4. ASSUME NEW i \in Rows, RowStep(i) PROVE CollisionInv'
    BY <2>1, <2>4, RowStepApart
  <2> QED
    BY <2>1, <2>2, <2>3, <2>4, PauseDuplicateApart, FolderSideApart, RestartApart DEF IntakeNext
<1> QED
  BY <1>1, <1>2, IntakeInductive, PTL DEF IntakeSpec

(* A submission that names no torrent in two ways never fails on a row of  *)
(* its own, however its planning and its inserts interleave with other     *)
(* submissions, sweeps and metadata that lands (markPlanned,               *)
(* duplicateRejection, insertPlanned).                                     *)
THEOREM SubmissionsKeepApart == IntakeSpec => []NoSelfCollision
<1>1. IntakeInv /\ CollisionInv => NoSelfCollision
  <2> SUFFICES ASSUME IntakeInv, CollisionInv, NEW r \in Requests, req[r].clash # 0, NamedOneWay(req[r].sub)
               PROVE  task[req[r].clash].no # req[r].no
    BY DEF NoSelfCollision
  <2>1. req[r].pc = "failed" /\ req[r].clash \in Rows
    BY DEF CollisionInv, CallApart, RowsApart
  <2> QED
    BY <2>1 DEF CollisionInv, RowsApart
<1> QED
  BY <1>1, CollisionInductive, PTL
================================================================================
