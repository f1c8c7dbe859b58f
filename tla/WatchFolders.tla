------------------------------ MODULE WatchFolders ------------------------------
(***************************************************************************)
(* The watch-folder loader (internal/jobs/watch.go) and the operations on  *)
(* its row: the sweep of the poll loop and the one POST .../scan asks for  *)
(* read the row, queue on the folder's lock and load the directory's files *)
(* one by one through the creation path of module TaskIntake, while users  *)
(* drop files, edit the folder and submit the same torrents by hand.       *)
(*                                                                         *)
(* One directory is modelled; deleting its row and creating another gives  *)
(* it a new id and with it an empty loaded set.                            *)
(***************************************************************************)
EXTENDS TaskIntake

CONSTANTS
    Names,                  \* file names in the directory, in order: numbers
    Scanners,               \* the poll loop "loop" and on-demand scans
    MaxWatchFolderLoaded,   \* entries the loaded set keeps
    WatchDir                \* DLTOOL_WATCH_DIR seeds the row at boot

ASSUME WatchAssumption == Names \subseteq Nat /\ "loop" \in Scanners /\ MaxWatchFolderLoaded \in Nat \ {0} /\ WatchDir \in BOOLEAN

VARIABLES
    dir,        \* the torrent a file holds; NoTorrent when there is none
    folder,     \* the watch_folders row, id 0 when there is none
    lastId,     \* ids given out
    loaded,     \* watch_folder_loaded_<id> by id, oldest first
    watching,   \* the folder the loader read at its start
    scan,       \* the sweeps
    locked,     \* the folder ids whose lock is held
    made,       \* torrents a sweep created a task for
    unlinked,   \* torrents whose file a sweep removed
    swapped,    \* torrents dropped over a file a sweep had already read
    reloaded    \* a task was created for a torrent the loaded set held

watchVars == <<dir, folder, lastId, loaded, watching, scan, locked, made, unlinked, swapped, reloaded>>
folderVars == <<folder, lastId, watching>>
ghostVars == <<made, unlinked, swapped, reloaded>>

NoFolder == [id |-> 0, enabled |-> FALSE, delete |-> FALSE]
NoScan == [pc |-> "idle", row |-> NoFolder, todo |-> {}, file |-> 0, blob |-> NoTorrent]

(* Boot: SeedWatchFolder, then Run reads the enabled rows once.            *)
SeedWatchFolder == IF WatchDir /\ folder.id = 0 THEN [id |-> lastId + 1, enabled |-> TRUE, delete |-> FALSE] ELSE folder
Watched(row) == IF row.enabled THEN row.id ELSE 0

WatchInit ==
    /\ IntakeInit
    /\ dir = [n \in Names |-> NoTorrent]
    /\ folder \in [id : {1}, enabled : {TRUE}, delete : BOOLEAN]
    /\ lastId = 1 /\ loaded = <<<<>>>> /\ watching = 1
    /\ scan = [s \in Scanners |-> NoScan] /\ locked = {}
    /\ made = {} /\ unlinked = {} /\ swapped = {} /\ reloaded = FALSE

--------------------------------------------------------------------------------
(* The sweep.                                                              *)

SetScan(s, rec) == scan' = [scan EXCEPT ![s] = rec]

(* ScanOnce reads the row before it waits for the lock; a deleted id is    *)
(* ErrNotFound.  The loop only asks for the folder it read at its start,   *)
(* and never looks at enabled again.                                       *)
ScanBegins(s) ==
    /\ scan[s].pc = "idle" /\ folder.id # 0
    /\ \/ s = "loop" /\ watching = folder.id /\ UNCHANGED budget
       \/ s # "loop" /\ Spent("folders")
    /\ SetScan(s, [NoScan EXCEPT !.pc = "lock", !.row = folder])
    /\ UNCHANGED <<task, req, flush, dir, loaded, locked>> /\ UNCHANGED folderVars /\ UNCHANGED ghostVars

LockFreeAlways(s) == TRUE
LockFree(s) == scan[s].row.id \notin locked
folderLock(s) ==
    /\ scan[s].pc = "lock" /\ LockFree(s)
    /\ locked' = locked \union {scan[s].row.id}
    /\ SetScan(s, [scan[s] EXCEPT !.pc = "list"])
    /\ UNCHANGED <<task, req, flush, budget, dir, loaded>> /\ UNCHANGED folderVars /\ UNCHANGED ghostVars

(* The deferred unlock of every return.                                    *)
UnlockedDone(s) == IF scan[s].pc = "file" THEN locked \ {scan[s].row.id} ELSE locked
Unlocked(s) == locked \ {scan[s].row.id}
ScanReturns(s) == SetScan(s, NoScan) /\ locked' = Unlocked(s)

ReadDir(s) ==
    /\ scan[s].pc = "list"
    /\ \/ /\ SetScan(s, [scan[s] EXCEPT !.pc = "file", !.todo = {n \in Names : dir[n] # NoTorrent}])
          /\ UNCHANGED <<budget, locked>>
       \/ Spent("faults") /\ ScanReturns(s)
    /\ UNCHANGED <<task, req, flush, dir, loaded>> /\ UNCHANGED folderVars /\ UNCHANGED ghostVars

Skip(s) == SetScan(s, [scan[s] EXCEPT !.pc = "file", !.file = 0, !.blob = NoTorrent])

(* One entry: read it, know its torrent, look it up in the loaded set.     *)
(* A file that is gone is unreadable; touch ends the sweep.                *)
ScanFile(s) ==
    /\ scan[s].pc = "file"
    /\ IF scan[s].todo = {} THEN ScanReturns(s)
       ELSE LET n == CHOOSE n \in scan[s].todo : \A k \in scan[s].todo : n <= k
                rest == [scan[s] EXCEPT !.todo = @ \ {n}]
            IN /\ IF dir[n] = NoTorrent \/ Contains(loaded[scan[s].row.id], dir[n]) THEN SetScan(s, rest)
                  ELSE SetScan(s, [rest EXCEPT !.pc = "find", !.file = n, !.blob = dir[n]])
               /\ UNCHANGED locked
    /\ UNCHANGED <<task, req, flush, budget, dir, loaded>> /\ UNCHANGED folderVars /\ UNCHANGED ghostVars

Blob(t) == [kind |-> "upload", torrent |-> t, hashes |-> Hashes(t), multi |-> FALSE]

Removes(s) == scan[s].row.delete
SkipDuplicate(s) == Skip(s)

(* CreateFromTorrent looks for a live holder, a destination outside the    *)
(* roots is refused; either leaves the file.                               *)
CreateFromTorrent(s) ==
    /\ scan[s].pc = "find"
    /\ \/ Holders(Hashes(scan[s].blob)) # {} /\ SkipDuplicate(s) /\ UNCHANGED budget
       \/ /\ Holders(Hashes(scan[s].blob)) = {} /\ UNCHANGED budget
          /\ SetScan(s, [scan[s] EXCEPT !.pc = "insert"])
       \/ Spent("faults") /\ Skip(s)
    /\ UNCHANGED <<task, req, flush, dir, loaded, locked>> /\ UNCHANGED folderVars /\ UNCHANGED ghostVars

(* The insert; one that lost the race is a hand-off failure, and the file  *)
(* stays for the next sweep.                                               *)
ScanInsert(s) ==
    /\ scan[s].pc = "insert"
    /\ LET t == scan[s].blob IN
        IF UniqueFree(Hashes(t))
          THEN /\ CreateLogged(NewRow(Planned(Blob(t), FALSE), FALSE, 0))
               /\ SetScan(s, [scan[s] EXCEPT !.pc = "mark"])
               /\ made' = made \union {t}
               /\ reloaded' = (reloaded \/ Contains(loaded[scan[s].row.id], t))
          ELSE Skip(s) /\ UNCHANGED <<task, made, reloaded>>
    /\ UNCHANGED <<req, flush, budget, dir, loaded, locked, unlinked, swapped>> /\ UNCHANGED folderVars

(* MarkWatchFolderLoaded: the oldest entries drop first.  The key of a     *)
(* deleted folder is written all the same.                                 *)
LastOf(list, n) == SubSeq(list, IF Len(list) > n THEN Len(list) - n + 1 ELSE 1, Len(list))
MarkWatchFolderLoaded(list, t) ==
    IF Contains(list, t) THEN list ELSE LastOf(Append(list, t), MaxWatchFolderLoaded)

ScanMark(s) ==
    /\ scan[s].pc = "mark"
    /\ \/ /\ loaded' = [loaded EXCEPT ![scan[s].row.id] = MarkWatchFolderLoaded(@, scan[s].blob)]
          /\ UNCHANGED budget
       \/ Spent("faults") /\ UNCHANGED loaded
    /\ IF Removes(s) THEN SetScan(s, [scan[s] EXCEPT !.pc = "unlink"]) ELSE Skip(s)
    /\ UNCHANGED <<task, req, flush, dir, locked>> /\ UNCHANGED folderVars /\ UNCHANGED ghostVars

(* os.Remove of the name, whatever the file holds by now.                  *)
ScanUnlink(s) ==
    /\ scan[s].pc = "unlink"
    /\ unlinked' = unlinked \union ({dir[scan[s].file]} \ {NoTorrent})
    /\ dir' = [dir EXCEPT ![scan[s].file] = NoTorrent]
    /\ Skip(s)
    /\ UNCHANGED <<task, req, flush, budget, loaded, locked, made, swapped, reloaded>> /\ UNCHANGED folderVars

ScanStep(s) == folderLock(s) \/ ReadDir(s) \/ ScanFile(s) \/ CreateFromTorrent(s) \/ ScanInsert(s) \/ ScanMark(s) \/ ScanUnlink(s)

--------------------------------------------------------------------------------
(* Users and operators.                                                    *)

Drop(n, t) ==
    /\ Spent("drops")
    /\ dir' = [dir EXCEPT ![n] = t]
    /\ swapped' = IF \E s \in Scanners : scan[s].file = n THEN swapped \union {t} ELSE swapped
    /\ UNCHANGED <<task, req, flush, loaded, scan, locked, made, unlinked, reloaded>> /\ UNCHANGED folderVars

(* The UPDATE merges the patch, a nil member leaves its column; the insert *)
(* of a new row gets a new id.                                             *)
UpdateWatchFolder(row) == [id : {row.id}, enabled : BOOLEAN, delete : BOOLEAN] \ {row}
InsertWatchFolder == [id : {lastId + 1}, enabled : {TRUE}, delete : BOOLEAN]

(* PATCH, DELETE, and POST on the freed path.                              *)
PatchWatchFolder ==
    /\ folder.id # 0 /\ Spent("folders")
    /\ folder' \in UpdateWatchFolder(folder)
    /\ UNCHANGED <<task, req, flush, dir, lastId, loaded, watching, scan, locked>> /\ UNCHANGED ghostVars

DeleteWatchFolder ==
    /\ folder.id # 0 /\ Spent("folders")
    /\ folder' = NoFolder
    /\ UNCHANGED <<task, req, flush, dir, lastId, loaded, watching, scan, locked>> /\ UNCHANGED ghostVars

CreateWatchFolder ==
    /\ folder.id = 0 /\ Spent("folders")
    /\ folder' \in InsertWatchFolder
    /\ lastId' = lastId + 1 /\ loaded' = Append(loaded, <<>>)
    /\ UNCHANGED <<task, req, flush, dir, watching, scan, locked>> /\ UNCHANGED ghostVars

(* The process dies and starts again.                                      *)
IntakeRestart ==
    /\ Spent("crashes")
    /\ RestartRows
    /\ req' = [r \in Requests |-> NoReq] /\ flush' = 0
    /\ scan' = [s \in Scanners |-> NoScan] /\ locked' = {}
    /\ folder' = SeedWatchFolder
    /\ IF folder'.id > lastId THEN lastId' = folder'.id /\ loaded' = Append(loaded, <<>>)
       ELSE UNCHANGED <<lastId, loaded>>
    /\ watching' = Watched(folder')
    /\ UNCHANGED <<dir, made, unlinked, swapped, reloaded>>

IntakeNext ==
    \/ \E r \in Requests : RequestStep(r) /\ UNCHANGED watchVars
    \/ \E i \in Rows : RowStep(i) /\ UNCHANGED watchVars
    \/ PauseDuplicate /\ UNCHANGED watchVars
    \/ \E s \in Scanners : ScanBegins(s)
    \/ \E s \in Scanners : ScanStep(s)
    \/ \E n \in Names, t \in Torrents : Drop(n, t)
    \/ PatchWatchFolder
    \/ DeleteWatchFolder
    \/ CreateWatchFolder
    \/ IntakeRestart

allIntakeVars == <<task, req, flush, budget, dir, folder, lastId, loaded, watching, scan, locked, made, unlinked, swapped, reloaded>>

(* The loop ticks and its sweep runs on; a request under way is served;    *)
(* the flush of a verdict follows it.                                      *)
IntakeFairness ==
    /\ WF_allIntakeVars(ScanBegins("loop"))
    /\ \A s \in Scanners : WF_allIntakeVars(ScanStep(s))
    /\ \A r \in Requests : WF_allIntakeVars((PlanStep(r) \/ validateSelection(r) \/ insertPlanned(r) \/ Answered(r)) /\ UNCHANGED watchVars)
    /\ WF_allIntakeVars(PauseDuplicate /\ UNCHANGED watchVars)

IntakeSpec == WatchInit /\ [][IntakeNext]_allIntakeVars /\ IntakeFairness

--------------------------------------------------------------------------------
(* Rows and requests keep their types; the loaded set of a folder stays    *)
(* within its cap.                                                         *)
IntakeTypeOK ==
    /\ flush \in 0 .. Len(task) /\ budget \in IntakeBudget
    /\ \A i \in Rows : /\ task[i].state \in {"queued", "paused", "downloading", "error", "removed"}
                       /\ task[i].code \in {"none", "ssrf_blocked", "torrent_duplicate"}
                       /\ task[i].hashes \subseteq HashesOf(task[i].src.torrent)
    /\ dir \in [Names -> Torrents \union {NoTorrent}]
    /\ folder.id \in 0 .. lastId /\ watching \in 0 .. lastId
    /\ \A id \in 1 .. lastId : Len(loaded[id]) <= MaxWatchFolderLoaded /\ IsInjective(loaded[id])
    /\ locked \subseteq 1 .. lastId

(* A sweep unlinks a file only after a sweep created the task of the very  *)
(* torrent in it, never for a duplicate or a failed hand-off; only a file  *)
(* dropped over the one being loaded can go with it.                       *)
UnlinkedLoaded == unlinked \subseteq made \union swapped

(* "a file already loaded is skipped, never loaded twice": while the       *)
(* loaded set holds a torrent no sweep creates another task for it, even   *)
(* when its task was removed and two sweeps overlap.                       *)
NeverReloaded == ~reloaded

(* A file that stays in a watched folder becomes a task (or turns out to   *)
(* be one already) whatever fails once.                                    *)
DropsLoaded ==
    \A t \in Torrents :
        (\E n \in Names : dir[n] = t) ~>
            \/ ~\E n \in Names : dir[n] = t
            \/ \E i \in Rows : task[i].src.torrent = t
            \/ folder.id # 0 /\ Contains(loaded[folder.id], t)
            \/ folder.id = 0 \/ watching # folder.id

(* A dropped file is neither lost nor loaded twice: it is unlinked only    *)
(* for its own task, and a torrent in the loaded set gets no second task   *)
(* (scanFolder, MarkWatchFolderLoaded).                                    *)
WatchSafe == IntakeTypeOK /\ UnlinkedLoaded /\ NeverReloaded
================================================================================
