------------------------------ MODULE DatabaseFile ------------------------------
(***************************************************************************)
(* The database file, its backups and its restore (internal/store/db.go,   *)
(* internal/store/maintenance.go, internal/jobs/cron.go): the server takes *)
(* the process lock, migrates after a backup and then writes; the nightly  *)
(* entry and POST /system/backup take snapshots and prune them; `dl-tool   *)
(* restore` replaces the file.  A statement fails, a process dies or the   *)
(* power goes between any two steps.                                       *)
(*                                                                         *)
(* A database image is a line of descent, a commit count and a schema      *)
(* version; `st` says whether its bytes are synced, only cached, torn by a *)
(* power loss or by a foreign WAL, or bad on the medium.  The filesystem   *)
(* writes directory changes to disk in order, some of them late.           *)
(***************************************************************************)
EXTENDS Naturals, FiniteSets, FiniteSetsExt

CONSTANTS
    Embedded,     \* highestEmbeddedVersion
    Keep,         \* BackupKeepCount
    DbBudgets     \* bounds: commits, snapshots, restores, faults, crashes, swaps, decays

ASSUME DatabaseAssumption == Embedded \in Nat \ {0} /\ Keep \in Nat \ {0}

VARIABLES
    dbDir,       \* the files as processes see them: main, wal, baks, temps
    dbDisk,      \* the files a power loss would leave
    source,    \* the file `restore --from` names
    dbLock,    \* holder of the flock on <db>.lock
    server,    \* where the server process is
    restore,   \* where the restore command is
    writer,    \* the snapshot writers
    past,      \* ghost: images found, migrated, replaced, reported
    dbLeft       \* what remains of the budget

dbVars == <<dbDir, dbDisk, source, dbLock, server, restore, writer, past, dbLeft>>

Image(line, n, v, st) == [line |-> line, n |-> n, v |-> v, st |-> st]
NoFile == Image("none", 0, 0, "none")
NoWal == [onto |-> NoFile, img |-> NoFile]

(* What SQLite reads: the main file with the frames of its WAL; a WAL of   *)
(* another file is applied all the same.                                   *)
Content(f) ==
    IF f.wal = NoWal \/ f.main = NoFile THEN f.main
    ELSE IF f.wal.onto = f.main THEN f.wal.img ELSE [f.main EXCEPT !.st = "torn"]
Live == Content(dbDir)

WriterNames == {"pre", "night", "post", "replaced"}
Sources == {Image("source", 9, Embedded - 1, "ok"), Image("source", 9, Embedded + 1, "ok"), Image("source", 9, Embedded, "bad")}

DbInit ==
    /\ \E v \in 0 .. Embedded, there \in BOOLEAN :
         dbDir = [main |-> IF there THEN Image("live", 0, v, "ok") ELSE NoFile, wal |-> NoWal, baks |-> {}, temps |-> {}]
    /\ dbDisk = dbDir
    /\ source = Image("source", 9, Embedded - 1, "ok")
    /\ dbLock = "none"
    /\ server = "down" /\ restore = [pc |-> "idle", staged |-> NoFile, vacuumed |-> FALSE, before |-> NoFile]
    /\ writer = [w \in WriterNames |-> "idle"]
    /\ past = [found |-> NoFile, migrated |-> {}, replaced |-> {}, reported |-> {}]
    /\ dbLeft \in DbBudgets

Spend(k) == dbLeft[k] > 0 /\ dbLeft' = [dbLeft EXCEPT ![k] = @ - 1]
StepFails == Spend("faults")
Restore(pc) == restore' = [restore EXCEPT !.pc = pc]
Writer(w, pc) == writer' = [writer EXCEPT ![w] = pc]

--------------------------------------------------------------------------------
(* A snapshot: reserve a temporary, VACUUM INTO it, check and sync it,     *)
(* rename it into place, sync the directory.                               *)

(* A temporary is in flight, left by a crash, or at least an hour old.     *)
Temp(w, img, age) == [w |-> w, img |-> img, age |-> age]
InFlight(w) == {t \in dbDir.temps : t.w = w /\ t.age = "fresh"}
SetTemp(w, img) == dbDir' = [dbDir EXCEPT !.temps = (@ \ InFlight(w)) \union {Temp(w, img, "fresh")}]
DropTemp(w) == dbDir' = [dbDir EXCEPT !.temps = @ \ InFlight(w)]
Family(w) == IF w \in {"night", "post"} THEN "nightly" ELSE w

WriterFails(w) ==
    /\ writer[w] \in {"temp", "written", "synced"} /\ StepFails
    /\ DropTemp(w) /\ Writer(w, "failed")
    /\ UNCHANGED <<dbDisk, source, dbLock, server, restore, past>>

(* VACUUM INTO reads the main file and its WAL.                            *)
Vacuum(w) ==
    /\ writer[w] = "temp"
    /\ IF Live.st = "ok" THEN SetTemp(w, [Live EXCEPT !.st = "cached"]) /\ Writer(w, "written")
       ELSE DropTemp(w) /\ Writer(w, "failed")
    /\ UNCHANGED <<dbDisk, source, dbLock, server, restore, past, dbLeft>>

(* checkDatabaseFileIntegrity and syncPath.                                *)
Synced(img) == [img EXCEPT !.st = "ok"]
SyncTemp(w) ==
    /\ writer[w] = "written"
    /\ \E t \in InFlight(w) : SetTemp(w, Synced(t.img))
    /\ Writer(w, "synced")
    /\ UNCHANGED <<dbDisk, source, dbLock, server, restore, past, dbLeft>>

Bak(family, no, img, wal) == [family |-> family, no |-> no, img |-> img, wal |-> wal]
NextNo(baks) == Max({0} \union {b.no : b \in baks}) + 1
renameNoReplace(w) ==
    /\ writer[w] = "synced"
    /\ \E t \in InFlight(w) :
         dbDir' = [dbDir EXCEPT !.temps = @ \ {t}, !.baks = @ \union {Bak(Family(w), NextNo(dbDir.baks), t.img, NoWal)}]
    /\ Writer(w, "renamed")
    /\ UNCHANGED <<dbDisk, source, dbLock, server, restore, past, dbLeft>>

(* The directory sync; its failure is reported, the file stays.            *)
NewestBak(family) == {b \in dbDir.baks : b.family = family /\ \A c \in dbDir.baks : c.family = family => c.no <= b.no}
syncPath == dbDir
SyncDir(w) ==
    /\ writer[w] = "renamed"
    /\ \/ /\ dbDisk' = syncPath /\ Writer(w, "done") /\ dbLeft' = dbLeft
          /\ past' = [past EXCEPT !.reported = IF Family(w) = "nightly" THEN @ \union NewestBak("nightly") ELSE @]
       \/ StepFails /\ Writer(w, "failed") /\ UNCHANGED <<dbDisk, past>>
    /\ UNCHANGED <<dbDir, source, dbLock, server, restore>>

WriterStep(w) == WriterFails(w) \/ Vacuum(w) \/ SyncTemp(w) \/ renameNoReplace(w) \/ SyncDir(w)

--------------------------------------------------------------------------------
(* The server.                                                             *)

(* acquireDatabaseLock: LOCK_EX|LOCK_NB.                                   *)
acquireDatabaseLock(p) == dbLock = "none"
ServerLocks ==
    /\ server = "down" /\ acquireDatabaseLock("server")
    /\ dbLock' = "server" /\ server' = "open"
    /\ UNCHANGED <<dbDir, dbDisk, source, restore, writer, past, dbLeft>>
(* The flock goes with the descriptor, also of a process that was killed.  *)
(* Mutant: the lock is a file that only a clean end removes.               *)
releaseClean == IF server \in {"down", "up"} THEN "none" ELSE dbLock
release == "none"
ServerExits == server' = "down" /\ dbLock' = release

(* open: a missing file is created, a newer or unreadable one refused.     *)
createDatabaseFileIfMissing(f) == IF f.main = NoFile THEN [f EXCEPT !.main = Image("live", 0, 0, "ok")] ELSE f
OpenDatabase ==
    /\ server = "open"
    /\ \/ /\ Live.st \in {"bad", "torn"} \/ Live.v > Embedded
          /\ ServerExits /\ UNCHANGED <<dbDir, past>>
       \/ /\ Live.st \in {"ok", "none"} /\ Live.v <= Embedded
          /\ dbDir' = createDatabaseFileIfMissing(dbDir)
          /\ server' = "migrate" /\ dbLock' = dbLock /\ past' = [past EXCEPT !.found = Live]
    /\ UNCHANGED <<dbDisk, source, restore, writer, dbLeft>>

(* A commit goes to the WAL.                                               *)
Commit(img) == dbDir' = [dbDir EXCEPT !.wal = [onto |-> dbDir.main, img |-> img]]

(* migrate: the backup first, unless the database is new; each migration   *)
(* is a transaction of its own.                                            *)
NeedsBackup(v) == v > 0
preMigrationBackup ==
    /\ server = "migrate" /\ Live.v < Embedded /\ NeedsBackup(Live.v)
    /\ SetTemp("pre", NoFile) /\ Writer("pre", "temp") /\ server' = "backup"
    /\ UNCHANGED <<dbDisk, source, dbLock, restore, past, dbLeft>>
BackupDecides ==
    /\ server = "backup" /\ writer["pre"] \in {"done", "failed"}
    /\ IF writer["pre"] = "done" THEN server' = "apply" /\ UNCHANGED dbLock ELSE ServerExits
    /\ Writer("pre", "idle")
    /\ UNCHANGED <<dbDir, dbDisk, source, restore, past, dbLeft>>
ApplyBegins ==
    /\ server = "migrate" /\ (Live.v = Embedded \/ ~NeedsBackup(Live.v))
    /\ server' = "apply"
    /\ UNCHANGED <<dbDir, dbDisk, source, dbLock, restore, writer, past, dbLeft>>
migrate ==
    /\ server = "apply" /\ Live.v < Embedded
    /\ \/ /\ Commit([Live EXCEPT !.v = @ + 1])
          /\ past' = [past EXCEPT !.migrated = IF past.found.v > 0 THEN @ \union {past.found} ELSE @]
          /\ UNCHANGED <<server, dbLock, dbLeft>>
       \/ StepFails /\ ServerExits /\ UNCHANGED <<dbDir, past>>
    /\ UNCHANGED <<dbDisk, source, restore, writer>>
checkIntegrity ==
    /\ server = "apply" /\ Live.v = Embedded /\ server' = "up"
    /\ UNCHANGED <<dbDir, dbDisk, source, dbLock, restore, writer, past, dbLeft>>

ServerCommits ==
    /\ server = "up" /\ Live.st = "ok" /\ Spend("commits")
    /\ Commit([Live EXCEPT !.n = @ + 1])
    /\ UNCHANGED <<dbDisk, source, dbLock, server, restore, writer, past>>
Checkpoint(f) == [f EXCEPT !.main = Content(f), !.wal = NoWal]
ServerStops ==
    /\ server = "up" /\ \A w \in WriterNames : writer[w] = "idle"
    /\ dbDir' = Checkpoint(dbDir) /\ ServerExits
    /\ UNCHANGED <<dbDisk, source, restore, writer, past, dbLeft>>

(* BackupInto: TryLock on backupMu, shared by both callers.                *)
BackupInto(w) ==
    /\ server = "up" /\ writer[w] = "idle"
    /\ \A o \in {"night", "post"} \ {w} : writer[o] \in {"idle", "done", "failed"}
    /\ Spend("snapshots")
    /\ SetTemp(w, NoFile) /\ Writer(w, "temp")
    /\ UNCHANGED <<dbDisk, source, dbLock, server, restore, past>>

(* PruneBackups after a snapshot that succeeded, outside the lock: the     *)
(* newest Keep files of the nightly family stay, and every temporary of it *)
(* that is younger than an hour.                                           *)
Pruned(f) == {b \in f.baks : b.family = "nightly" /\ Cardinality({c \in f.baks : c.family = "nightly" /\ c.no > b.no}) >= Keep}
StaleTemps(f) == {t \in f.temps : Family(t.w) = "nightly" /\ t.age = "old"}
PruneBackups(w) ==
    /\ writer[w] \in {"done", "failed"} /\ w \in {"night", "post"} /\ server = "up"
    /\ Writer(w, "idle")
    /\ dbDir' = IF writer[w] = "done" THEN [dbDir EXCEPT !.baks = @ \ Pruned(dbDir), !.temps = @ \ StaleTemps(dbDir)] ELSE dbDir
    /\ UNCHANGED <<dbDisk, source, dbLock, server, restore, past, dbLeft>>

--------------------------------------------------------------------------------
(* dl-tool restore --from.                                                 *)

RestoreLocks ==
    /\ restore.pc = "idle" /\ acquireDatabaseLock("restore") /\ Spend("restores")
    /\ dbLock' = "restore"
    /\ restore' = [pc |-> "gate", staged |-> NoFile, vacuumed |-> FALSE, before |-> Live]
    /\ UNCHANGED <<dbDir, dbDisk, source, server, writer, past>>
RestoreEnds == restore' = [restore EXCEPT !.pc = "idle", !.staged = NoFile] /\ dbLock' = release

(* The gates; the staged copy passes them again.                           *)
Passes(img, staged) == img.st = "ok" /\ img.v <= Embedded
checkRestoreSource ==
    /\ restore.pc = "gate"
    /\ IF Passes(source, FALSE) THEN Restore("stage") /\ UNCHANGED dbLock ELSE RestoreEnds
    /\ UNCHANGED <<dbDir, dbDisk, source, server, writer, past, dbLeft>>
stageRestoreSource ==
    /\ restore.pc = "stage"
    /\ \/ restore' = [restore EXCEPT !.pc = "staged", !.staged = source] /\ UNCHANGED <<dbLock, dbLeft>>
       \/ StepFails /\ RestoreEnds
    /\ UNCHANGED <<dbDir, dbDisk, source, server, writer, past>>
checkStagedSchema ==
    /\ restore.pc = "staged"
    /\ IF Passes(restore.staged, TRUE)
       THEN IF dbDir.main = NoFile THEN Restore("sidecars") /\ UNCHANGED <<dbLock, dbDir, writer>>
            ELSE Restore("preserve") /\ SetTemp("replaced", NoFile) /\ Writer("replaced", "temp") /\ UNCHANGED dbLock
       ELSE RestoreEnds /\ UNCHANGED <<dbDir, writer>>
    /\ UNCHANGED <<dbDisk, source, server, past, dbLeft>>

(* preserveLiveDatabase: a file copy where VACUUM INTO fails.              *)
backupReplacedDatabase ==
    /\ restore.pc = "preserve" /\ writer["replaced"] \in {"done", "failed"}
    /\ restore' = [restore EXCEPT !.vacuumed = (writer["replaced"] = "done"),
                                  !.pc = IF writer["replaced"] = "done" THEN "checkpoint" ELSE "copy"]
    /\ Writer("replaced", "idle")
    /\ UNCHANGED <<dbDir, dbDisk, source, dbLock, server, past, dbLeft>>
copyReplacedDatabase ==
    /\ restore.pc = "copy"
    /\ \/ /\ dbDir' = [dbDir EXCEPT !.baks = @ \union {Bak("replaced", NextNo(dbDir.baks), dbDir.main, NoWal)}]
          /\ Restore("copywal") /\ UNCHANGED <<dbLock, dbLeft>>
       \/ StepFails /\ RestoreEnds /\ dbDir' = dbDir
    /\ UNCHANGED <<dbDisk, source, server, writer, past>>
(* Mutant: the WAL is not kept beside the copy.                            *)
preserveWALSkipped(b) == b
preserveWALBeside(b) == [b EXCEPT !.wal = dbDir.wal]
CopyWAL ==
    /\ restore.pc = "copywal"
    /\ \/ /\ \E b \in NewestBak("replaced") : dbDir' = [dbDir EXCEPT !.baks = (@ \ {b}) \union {preserveWALBeside(b)}]
          /\ Restore("copysync") /\ UNCHANGED <<dbLock, dbLeft>>
       \/ StepFails /\ RestoreEnds /\ dbDir' = dbDir
    /\ UNCHANGED <<dbDisk, source, server, writer, past>>
CopySync ==
    /\ restore.pc = "copysync"
    /\ \/ dbDisk' = dbDir /\ Restore("checkpoint") /\ UNCHANGED <<dbLock, dbLeft>>
       \/ StepFails /\ RestoreEnds /\ dbDisk' = dbDisk
    /\ UNCHANGED <<dbDir, source, server, writer, past>>

(* A failed checkpoint aborts the restore only if VACUUM INTO succeeded.   *)
preserveLiveDatabase ==
    /\ restore.pc = "checkpoint"
    /\ \/ dbDir' = Checkpoint(dbDir) /\ Restore("sidecars") /\ UNCHANGED <<dbLock, dbLeft>>
       \/ StepFails /\ dbDir' = dbDir /\ IF restore.vacuumed THEN RestoreEnds ELSE Restore("sidecars") /\ UNCHANGED dbLock
    /\ UNCHANGED <<dbDisk, source, server, writer, past>>

(* Mutant: the sidecars stay.                                              *)
SidecarsStay(f) == f
SidecarsGone(f) == [f EXCEPT !.wal = NoWal]
RemoveSidecars ==
    /\ restore.pc = "sidecars"
    /\ \/ dbDir' = SidecarsGone(dbDir) /\ Restore("install") /\ UNCHANGED <<dbLock, dbLeft>>
       \/ StepFails /\ RestoreEnds /\ dbDir' = dbDir
    /\ UNCHANGED <<dbDisk, source, server, writer, past>>
InstallStaged ==
    /\ restore.pc = "install"
    /\ \/ /\ dbDir' = [dbDir EXCEPT !.main = restore.staged] /\ Restore("sync") /\ UNCHANGED <<dbLock, dbLeft>>
          /\ past' = [past EXCEPT !.replaced = IF restore.before = NoFile THEN @ ELSE @ \union {restore.before}]
       \/ StepFails /\ RestoreEnds /\ UNCHANGED <<dbDir, past>>
    /\ UNCHANGED <<dbDisk, source, server, writer>>
RestoredTaskCount ==
    /\ restore.pc = "sync"
    /\ dbDisk' = dbDir /\ RestoreEnds
    /\ UNCHANGED <<dbDir, source, server, writer, past, dbLeft>>

RestoreFrom ==
    \/ RestoreLocks \/ checkRestoreSource \/ stageRestoreSource \/ checkStagedSchema
    \/ backupReplacedDatabase \/ copyReplacedDatabase \/ CopyWAL \/ CopySync
    \/ preserveLiveDatabase \/ RemoveSidecars \/ InstallStaged \/ RestoredTaskCount

--------------------------------------------------------------------------------
(* The surroundings.                                                       *)

(* Directory changes reach the disk by themselves, too.                    *)
Writeback ==
    /\ dbDisk # dbDir /\ dbDisk' = dbDir
    /\ UNCHANGED <<dbDir, source, dbLock, server, restore, writer, past, dbLeft>>

Orphan(f) == [f EXCEPT !.temps = {[t EXCEPT !.age = IF @ = "fresh" THEN "left" ELSE @] : t \in f.temps}]
TornImage(img) == IF img.st = "cached" THEN [img EXCEPT !.st = "torn"] ELSE img
Torn(f) == [f EXCEPT !.main = TornImage(@), !.baks = {[b EXCEPT !.img = TornImage(@)] : b \in @}]
ProcessesEnd ==
    /\ server' = "down" /\ dbLock' = release
    /\ restore' = [restore EXCEPT !.pc = "idle", !.staged = NoFile]
    /\ writer' = [w \in WriterNames |-> "idle"]
Killed ==
    /\ dbLock # "none" /\ Spend("crashes") /\ ProcessesEnd
    /\ dbDir' = Orphan(dbDir)
    /\ UNCHANGED <<dbDisk, source, past>>
PowerLoss ==
    /\ dbLock # "none" /\ Spend("crashes") /\ ProcessesEnd
    /\ dbDir' = Torn(Orphan(dbDisk)) /\ dbDisk' = dbDir'
    /\ UNCHANGED <<source, past>>
HourPasses ==
    /\ \E t \in dbDir.temps : t.age = "left"
    /\ dbDir' = [dbDir EXCEPT !.temps = {[t EXCEPT !.age = IF @ = "left" THEN "old" ELSE @] : t \in @}]
    /\ UNCHANGED <<dbDisk, source, dbLock, server, restore, writer, past, dbLeft>>
SwapSource ==
    /\ restore.pc # "idle" /\ Spend("swaps") /\ source' \in Sources \ {source}
    /\ UNCHANGED <<dbDir, dbDisk, dbLock, server, restore, writer, past>>
(* The medium decays while no process runs.                                *)
Bad(f) == LET m == [f.main EXCEPT !.st = "bad"]
          IN  [f EXCEPT !.main = m, !.wal = IF f.wal = NoWal THEN NoWal ELSE [onto |-> m, img |-> [f.wal.img EXCEPT !.st = "bad"]]]
Decays ==
    /\ dbLock = "none" /\ dbDir.main.st = "ok" /\ Spend("decays")
    /\ dbDir' = Bad(dbDir) /\ dbDisk' = dbDir'
    /\ UNCHANGED <<source, dbLock, server, restore, writer, past>>

--------------------------------------------------------------------------------
ServerStep == OpenDatabase \/ preMigrationBackup \/ BackupDecides \/ ApplyBegins \/ migrate \/ checkIntegrity

DbNext ==
    \/ ServerLocks \/ ServerStep \/ ServerCommits \/ ServerStops
    \/ \E w \in {"night", "post"} : BackupInto(w) \/ PruneBackups(w)
    \/ \E w \in WriterNames : WriterStep(w)
    \/ RestoreFrom
    \/ Writeback \/ Killed \/ PowerLoss \/ HourPasses \/ SwapSource \/ Decays

(* A process that runs goes on, and a stopped server is started again.     *)
DbFairness ==
    /\ SF_dbVars(ServerLocks) /\ WF_dbVars(ServerStep)
    /\ WF_dbVars(\E w \in WriterNames : WriterStep(w)) /\ WF_dbVars(RestoreFrom /\ restore.pc # "idle")

DbSpec == DbInit /\ [][DbNext]_dbVars /\ DbFairness

--------------------------------------------------------------------------------
(* Lock and program counters keep their types; a snapshot under way, and   *)
(* only one, has a temporary file of its own.                              *)
DbTypeOK ==
    /\ dbLock \in {"none", "server", "restore"}
    /\ server \in {"down", "open", "migrate", "backup", "apply", "up"}
    /\ writer \in [WriterNames -> {"idle", "temp", "written", "synced", "renamed", "done", "failed"}]
    /\ \A w \in WriterNames : writer[w] \in {"temp", "written", "synced"} <=> InFlight(w) # {}

(* The server and a restore never have the database at the same time       *)
(* (acquireDatabaseLock).                                                  *)
OneProcess == (server # "down" => dbLock = "server") /\ (restore.pc # "idle" => dbLock = "restore")

(* Whatever is interrupted, the live database is a whole file: never half  *)
(* a copy, nor a restored file under the WAL of the one it replaced        *)
(* (RestoreFrom).                                                          *)
LiveWhole == Live.st # "torn" /\ Content(dbDisk).st \notin {"torn", "cached"}

(* A file with a backup's name is a whole, synced copy, after a power loss *)
(* too (BackupInto, createMigrationBackup, backupReplacedDatabase).        *)
BackupsWhole == \A b \in dbDir.baks \union dbDisk.baks : b.img.st \notin {"torn", "cached"}

(* A restore only installs bytes that passed both gates, although the      *)
(* source may be swapped after its check (checkStagedSchema).              *)
InstalledChecked == dbDir.main.line = "source" => dbDir.main.v <= Embedded /\ dbDir.main.st # "cached"

(* The data a migration or a restore replaced stays readable from a backup *)
(* of its own, which no prune takes (preMigrationBackup,                   *)
(* preserveLiveDatabase, PruneBackups).                                    *)
ReplacedKept ==
    /\ \A i \in past.migrated : \E b \in dbDir.baks : b.family = "pre" /\ b.img = i
    /\ \A i \in past.replaced : \E b \in dbDir.baks : b.family = "replaced" /\ Content([main |-> b.img, wal |-> b.wal]) = i

(* A reported backup is on disk until Keep newer ones are (BackupInto,     *)
(* PruneBackups).                                                          *)
ReportedKept == \A r \in past.reported \ dbDisk.baks :
    Cardinality({b \in dbDisk.baks : b.family = "nightly" /\ b.no > r.no}) >= Keep

(* A whole database of a known schema is served again, after failed or     *)
(* killed migrations, backups and restores (open, acquireDatabaseLock).    *)
ServedAgain == (Live.st = "ok" /\ Live.v <= Embedded) ~> (server = "up" \/ Live.st = "bad")

(* The live database is whole, has one user and never holds unchecked      *)
(* bytes, at any moment of a migration or a restore and after any kill or  *)
(* power loss (Open, RestoreFrom).                                         *)
DbSafe == DbTypeOK /\ OneProcess /\ LiveWhole /\ InstalledChecked

(* What the backups promise: every one is whole, replaced data stays       *)
(* readable from its own, and a reported one goes only for newer ones      *)
(* (BackupInto, preserveLiveDatabase, PruneBackups).                       *)
BackupsKept == BackupsWhole /\ ReplacedKept /\ ReportedKept
================================================================================
