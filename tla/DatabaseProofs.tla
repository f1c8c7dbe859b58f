----------------------------- MODULE DatabaseProofs -----------------------------
(***************************************************************************)
(* Proofs about the database file, for every schema version, every number  *)
(* of backups to keep and every number of commits, snapshots, restores,    *)
(* failures and crashes: DbSafe and BackupsKept are invariants of DbSpec.  *)
(*                                                                         *)
(* Neither is inductive.  A power loss puts the directory back to what was *)
(* on disk, so whatever is promised of the directory is promised of the    *)
(* disk as well (DirShape, Kept, ReportedIn of both).  And what a backup   *)
(* holds is settled long before it is needed: its temporary file is a copy *)
(* of the live content, which does not change while the owner of the lock  *)
(* waits for the writer (CopyOfLive), so the data a migration or a restore *)
(* is about to replace is in a backup, on disk, before it is replaced      *)
(* (MigrationCovered, RestoreCovered).                                     *)
(***************************************************************************)
EXTENDS DatabaseFile, FiniteSetTheorems, TLAPS

(* The images that may be under a name that is read: none is half written. *)
Images == [line : {"none", "live", "source"}, n : Nat, v : 0 .. Embedded, st : {"none", "ok", "bad"}]
Whole(i) == i \in Images /\ (i.st = "none" => i = NoFile)

BakShape(b) ==
    /\ b = [family |-> b.family, no |-> b.no, img |-> b.img, wal |-> b.wal]
    /\ b.family \in {"nightly", "pre", "replaced"} /\ b.no \in Nat /\ Whole(b.img)
TempShape(t) == t = Temp(t.w, t.img, t.age) /\ t.w \in WriterNames
(* A directory: main file and WAL belong together, every backup is whole.  *)
DirShape(f) ==
    /\ DOMAIN f = {"main", "wal", "baks", "temps"}
    /\ Whole(f.main)
    /\ f.wal = NoWal \/ (f.main # NoFile /\ f.wal = [onto |-> f.main, img |-> f.wal.img]
                         /\ f.wal.img \in Images /\ f.wal.img.st # "none")
    /\ IsFiniteSet(f.baks) /\ \A b \in f.baks : BakShape(b)
    /\ \A t \in f.temps : TempShape(t)

RestoreSteps == {"idle", "gate", "stage", "staged", "preserve", "copy", "copywal", "copysync",
                 "checkpoint", "sidecars", "install", "sync"}
DbTypes ==
    /\ dbLock \in {"none", "server", "restore"}
    /\ server \in {"down", "open", "migrate", "backup", "apply", "up"}
    /\ writer \in [WriterNames -> {"idle", "temp", "written", "synced", "renamed", "done", "failed"}]
    /\ DOMAIN restore = {"pc", "staged", "vacuumed", "before"} /\ restore.pc \in RestoreSteps
    /\ DOMAIN past = {"found", "migrated", "replaced", "reported"} /\ past.found.v \in Nat
    /\ source \in Sources

(* Who may have a snapshot under way, and its one temporary file.          *)
WriterOwned ==
    /\ writer["pre"] # "idle" => server = "backup"
    /\ writer["replaced"] # "idle" => restore.pc = "preserve"
    /\ \A w \in {"night", "post"} : writer[w] # "idle" => server = "up"
OneTemp ==
    \A w \in WriterNames :
        /\ writer[w] \in {"temp", "written", "synced"} <=> InFlight(w) # {}
        /\ \A t, u \in InFlight(w) : t = u

(* A backup of this family, whose content is this image, is in the set.    *)
Holds(baks, family, i) ==
    \E b \in baks : b.family = family /\ Content([main |-> b.img, wal |-> b.wal]) = i

(* What a writer has in hand: a synced temporary is whole, and the copy    *)
(* made for a migration or a restore is one of the live database.          *)
TempsWhole ==
    \A w \in WriterNames : \A t \in InFlight(w) :
        /\ writer[w] = "written" => Whole(Synced(t.img))
        /\ writer[w] = "synced" => Whole(t.img)
CopyOfLive ==
    \A w \in {"pre", "replaced"} :
        /\ \A t \in InFlight(w) : /\ writer[w] = "written" => Synced(t.img) = Live
                                  /\ writer[w] = "synced" => t.img = Live
        /\ writer[w] \in {"renamed", "done"} => Holds(dbDir.baks, w, Live)
        /\ writer[w] = "done" => Holds(dbDisk.baks, w, Live)

(* Until the first migration commits, the live database is the one that    *)
(* was found, and by then it is in a backup, unless it was new.            *)
InBoth(family, i) == Holds(dbDir.baks, family, i) /\ Holds(dbDisk.baks, family, i)
MigrationCovered ==
    /\ server \in {"migrate", "backup", "apply", "up"} => Live.st = "ok"
    /\ server \in {"migrate", "backup"} => Live = past.found \/ past.found.v = 0
    /\ server = "apply" /\ past.found.v > 0 => Live.v = Embedded \/ InBoth("pre", past.found)

(* The copy that still lacks its WAL is the newest backup of all.          *)
CopyInHand(b) ==
    /\ b.family = "replaced" /\ b.img = dbDir.main /\ b.wal = NoWal
    /\ \A c \in dbDir.baks \ {b} : c.no < b.no
    /\ \A i \in past.replaced : Holds(dbDir.baks \ {b}, "replaced", i)
(* A restore leaves the live database as it found it until the copy is on  *)
(* disk; what it installs passed the gates; the WAL is gone by then.       *)
RestoreCovered ==
    /\ restore.pc \notin {"idle", "install", "sync"} => Live = restore.before
    /\ restore.pc \in {"preserve", "copy", "copywal", "copysync", "checkpoint", "sidecars", "install"}
         => Passes(restore.staged, TRUE) /\ restore.staged \in Sources
    /\ restore.pc = "staged" => restore.staged \in Sources
    /\ restore.pc = "copywal" => \E b \in dbDir.baks : CopyInHand(b)
    /\ restore.pc = "copysync" => Holds(dbDir.baks, "replaced", restore.before)
    /\ restore.pc \in {"checkpoint", "sidecars", "install"} =>
         restore.before = NoFile \/ InBoth("replaced", restore.before)
    /\ restore.pc = "install" => dbDir.wal = NoWal

(* What was replaced, and what was reported, in the directory and on disk. *)
Kept ==
    /\ \A i \in past.migrated : InBoth("pre", i)
    /\ \A i \in past.replaced : InBoth("replaced", i)
ReportedIn(rs, baks) ==
    \A r \in rs \ baks :
        Cardinality({b \in baks : b.family = "nightly" /\ b.no > r.no}) >= Keep
Reported ==
    /\ \A r \in past.reported : r.family = "nightly" /\ r.no \in Nat
    /\ ReportedIn(past.reported, dbDir.baks) /\ ReportedIn(past.reported, dbDisk.baks)
(* A backup made for a migration is a plain file.                          *)
PlainPre == \A b \in dbDir.baks \union dbDisk.baks : b.family = "pre" => b.wal = NoWal

ControlInv == DbTypes /\ OneProcess /\ WriterOwned
TempsInv == OneTemp /\ TempsWhole /\ CopyOfLive
FilesInv == DirShape(dbDir) /\ DirShape(dbDisk) /\ Kept /\ PlainPre /\ Reported
DbInv == ControlInv /\ TempsInv /\ FilesInv /\ MigrationCovered /\ RestoreCovered

--------------------------------------------------------------------------------
(* The order of the backups.                                               *)

(* A finite set of numbered things has a newest one: among the sets of     *)
(* what is at least as new as some element, inclusion has a least.         *)
LEMMA NewestExists ==
    ASSUME NEW T, IsFiniteSet(T), T # {}, \A b \in T : b.no \in Nat
    PROVE  \E b \in T : \A c \in T : c.no <= b.no
<1> DEFINE Up(b) == {c \in T : c.no >= b.no}
           ups == {Up(b) : b \in T}
<1>1. ups \subseteq FiniteSubsetsOf(T) /\ ups # {}
    <2>1. \A b \in T : Up(b) \in SUBSET T /\ IsFiniteSet(Up(b))
        BY FS_Subset
    <2> HIDE DEF Up
    <2> QED
        BY <2>1 DEF FiniteSubsetsOf
<1>2. IsWellFoundedOn(StrictSubsetOrdering(T), FiniteSubsetsOf(T))
    BY FS_StrictSubsetOrderingWellFounded
<1>3. PICK u \in ups : \A o \in ups : ~ (<<o, u>> \in StrictSubsetOrdering(T))
    <2> HIDE DEF ups
    <2> QED
        BY <1>1, <1>2, WFMin
<1>4. PICK b \in T : u = Up(b)
    BY <1>3
<1>5. ASSUME NEW c \in T, ~(c.no <= b.no)
      PROVE  FALSE
    <2>1. c.no > b.no /\ c.no \in Nat /\ b.no \in Nat
        BY <1>4, <1>5
    <2>2. Up(c) \subseteq Up(b) /\ b \in Up(b) /\ b \notin Up(c) /\ Up(b) \in SUBSET T /\ Up(c) \in SUBSET T
        BY <1>4, <2>1
    <2>3. <<Up(c), u>> \in StrictSubsetOrdering(T)
        <3> HIDE DEF Up
        <3> QED
            BY <1>4, <2>2 DEF StrictSubsetOrdering
    <2>4. Up(c) \in ups
        OBVIOUS
    <2> QED
        BY <1>3, <2>3, <2>4
<1> QED
    BY <1>4, <1>5

(* The number of the next backup is larger than that of any other.         *)
LEMMA NextNoNewest ==
    ASSUME NEW baks, IsFiniteSet(baks), \A b \in baks : b.no \in Nat
    PROVE  NextNo(baks) \in Nat /\ \A b \in baks : b.no < NextNo(baks)
<1> DEFINE nos == {0} \union {b.no : b \in baks}
<1>1. \E x \in nos : \A y \in nos : x >= y
    <2>1. CASE baks = {}
        BY <2>1
    <2>2. CASE baks # {}
        <3>1. PICK b \in baks : \A c \in baks : c.no <= b.no
            BY <2>2, NewestExists
        <3> QED
            BY <3>1
    <2> QED
        BY <2>1, <2>2
<1>2. Max(nos) \in nos /\ \A y \in nos : Max(nos) >= y
    BY <1>1 DEF Max
<1>3. nos \subseteq Nat /\ NextNo(baks) = Max(nos) + 1
    BY DEF NextNo
<1>4. \A b \in baks : b.no \in nos
    OBVIOUS
<1> DEFINE m == Max(nos)
<1>5. m \in Nat /\ NextNo(baks) = m + 1 /\ \A b \in baks : b.no \in Nat /\ m >= b.no
    <2> HIDE DEF nos
    <2> QED
        BY <1>2, <1>3, <1>4
<1> HIDE DEF m
<1> QED
    BY <1>5

(* Dropping what has Keep newer ones leaves Keep newer ones than each of   *)
(* the dropped: the newest of the others could not have been dropped.      *)
LEMMA DropKeepsNewest ==
    ASSUME NEW T, IsFiniteSet(T), \A b \in T : b.no \in Nat, NEW x \in Nat,
           Cardinality({c \in T : c.no > x}) >= Keep
    PROVE  Cardinality({c \in T : c.no > x /\ Cardinality({d \in T : d.no > c.no}) < Keep}) >= Keep
<1> DEFINE Newer(n) == {c \in T : c.no > n}
           stay == {c \in T : c.no > x /\ Cardinality({d \in T : d.no > c.no}) < Keep}
           go == Newer(x) \ stay
<1>1. Keep \in Nat
    BY DatabaseAssumption
<1>2. \A n : Newer(n) \subseteq T /\ IsFiniteSet(Newer(n)) /\ Cardinality(Newer(n)) \in Nat
    BY FS_Subset, FS_CardinalityType
<1>3. IsFiniteSet(stay) /\ Cardinality(stay) \in Nat /\ stay \subseteq Newer(x)
    BY FS_Subset, FS_CardinalityType
<1>4. CASE go = {}
    <2>1. stay = Newer(x)
        BY <1>3, <1>4
    <2> QED
        BY <2>1
<1>5. CASE go # {}
    <2>1. IsFiniteSet(go) /\ \A b \in go : b.no \in Nat
        BY FS_Subset
    <2>2. PICK b \in go : \A c \in go : c.no <= b.no
        <3> HIDE DEF go
        <3> QED
            BY <1>5, <2>1, NewestExists
    <2>3. Newer(b.no) \subseteq stay
        <3> SUFFICES ASSUME NEW c \in T, c.no > b.no PROVE c \in stay
            OBVIOUS
        <3>1. c \in Newer(x) /\ c \notin go
            BY <2>2
        <3> QED
            BY <3>1
    <2>4. ~ (Cardinality(Newer(b.no)) < Keep)
        BY <2>2
    <2>5. Cardinality(Newer(b.no)) <= Cardinality(stay)
        <3> HIDE DEF stay, Newer
        <3> QED
            BY <1>3, <2>3, FS_Subset
    <2> HIDE DEF stay, Newer
    <2> QED
        BY <1>1, <1>2, <1>3, <2>4, <2>5 DEF stay
<1> QED
    BY <1>4, <1>5

--------------------------------------------------------------------------------
(* What the operators on a directory do.                                   *)

LEMMA NoFileWhole == Whole(NoFile) /\ NoWal = [onto |-> NoFile, img |-> NoFile] /\ NoFile.v = 0
BY DatabaseAssumption DEF Whole, Images, NoFile, NoWal, Image

LEMMA ContentIs ==
    ASSUME NEW f, DirShape(f)
    PROVE  /\ Content(f) = IF f.wal = NoWal THEN f.main ELSE f.wal.img
           /\ Whole(Content(f))
           /\ Content(f) = NoFile <=> f.main = NoFile
           /\ Content(f).st = "none" <=> f.main = NoFile
<1>1. NoFile.st = "none"
    BY DEF NoFile, Image
<1>2. Content(f) = IF f.wal = NoWal THEN f.main ELSE f.wal.img
    BY DEF Content, DirShape
<1> QED
    BY <1>1, <1>2 DEF DirShape, Whole

(* The same files but for the temporary ones.                              *)
SameFiles(f, g) == DOMAIN g = {"main", "wal", "baks", "temps"} /\ g.main = f.main /\ g.wal = f.wal /\ g.baks = f.baks
TempsShaped(f) == \A t \in f.temps : TempShape(t)

LEMMA SameFilesSame ==
    ASSUME NEW f, NEW g, DirShape(f), SameFiles(f, g), TempsShaped(g)
    PROVE  DirShape(g) /\ Content(g) = Content(f)
BY DEF DirShape, SameFiles, TempsShaped, Content

LEMMA SetTempDoes ==
    ASSUME DirShape(dbDir), NEW w \in WriterNames, NEW img, SetTemp(w, img)
    PROVE  /\ SameFiles(dbDir, dbDir') /\ TempsShaped(dbDir')
           /\ InFlight(w)' = {Temp(w, img, "fresh")}
           /\ \A o \in WriterNames \ {w} : InFlight(o)' = InFlight(o)
<1> DEFINE t == Temp(w, img, "fresh")
<1>1. TempShape(t) /\ t.w = w /\ t.age = "fresh"
    BY DEF Temp, TempShape
<1>2. dbDir' = [dbDir EXCEPT !.temps = (dbDir.temps \ InFlight(w)) \union {t}]
    BY DEF SetTemp
<1> HIDE DEF t
<1>3. SameFiles(dbDir, dbDir') /\ dbDir'.temps = (dbDir.temps \ InFlight(w)) \union {t}
    BY <1>2 DEF SameFiles, DirShape
<1>4. TempsShaped(dbDir')
    BY <1>1, <1>3 DEF TempsShaped, DirShape
<1>5. InFlight(w)' = {t} /\ \A o \in WriterNames \ {w} : InFlight(o)' = InFlight(o)
    BY <1>1, <1>3 DEF InFlight
<1> QED
    BY <1>3, <1>4, <1>5 DEF t

LEMMA DropTempDoes ==
    ASSUME DirShape(dbDir), NEW w \in WriterNames, DropTemp(w)
    PROVE  /\ SameFiles(dbDir, dbDir') /\ TempsShaped(dbDir')
           /\ InFlight(w)' = {}
           /\ \A o \in WriterNames \ {w} : InFlight(o)' = InFlight(o)
<1>1. SameFiles(dbDir, dbDir') /\ dbDir'.temps = dbDir.temps \ InFlight(w)
    BY DEF SameFiles, DirShape, DropTemp
<1> QED
    BY <1>1 DEF TempsShaped, DirShape, InFlight

(* A directory whose processes died has no temporary in flight; a power    *)
(* loss tears nothing that is under a name.                                *)
LEMMA OrphanDoes ==
    ASSUME NEW f, DirShape(f)
    PROVE  /\ SameFiles(f, Orphan(f)) /\ TempsShaped(Orphan(f))
           /\ \A t \in Orphan(f).temps : t.age # "fresh"
<1> DEFINE Old(t) == [t EXCEPT !.age = IF t.age = "fresh" THEN "left" ELSE t.age]
           ts == {Old(t) : t \in f.temps}
<1>1. Orphan(f) = [f EXCEPT !.temps = ts]
    BY DEF Orphan
<1>2. \A t \in f.temps : TempShape(Old(t)) /\ Old(t).age # "fresh"
    BY DEF DirShape, TempShape, Temp
<1>3. \A t \in ts : TempShape(t) /\ t.age # "fresh"
    <2> HIDE DEF Old
    <2> QED
        BY <1>2
<1> HIDE DEF ts
<1>4. SameFiles(f, Orphan(f)) /\ Orphan(f).temps = ts
    BY <1>1 DEF SameFiles, DirShape
<1> QED
    BY <1>3, <1>4 DEF TempsShaped

LEMMA TornSame == ASSUME NEW f, DirShape(f) PROVE SameFiles(f, Torn(f)) /\ Torn(f).temps = f.temps
<1> DEFINE Tear(b) == [b EXCEPT !.img = TornImage(b.img)]
           bs == {Tear(b) : b \in f.baks}
<1>1. TornImage(f.main) = f.main
    BY DEF TornImage, DirShape, Whole, Images
<1>2. \A b \in f.baks : Tear(b) = b
    <2> SUFFICES ASSUME NEW b \in f.baks PROVE Tear(b) = b
        OBVIOUS
    <2>1. b = [family |-> b.family, no |-> b.no, img |-> b.img, wal |-> b.wal] /\ TornImage(b.img) = b.img
        BY DEF DirShape, BakShape, TornImage, Whole, Images
    <2>2. Tear(b) = [b EXCEPT !.img = b.img]
        BY <2>1
    <2> HIDE DEF Tear
    <2> QED
        BY <2>1, <2>2
<1>3. bs = f.baks
    <2> HIDE DEF Tear
    <2> QED
        BY <1>2
<1>4. Torn(f) = [f EXCEPT !.main = TornImage(f.main), !.baks = bs]
    BY DEF Torn
<1> HIDE DEF bs
<1> QED
    BY <1>1, <1>3, <1>4 DEF SameFiles, DirShape

(* Checkpointing changes the files and not what is read from them.         *)
LEMMA CheckpointSame ==
    ASSUME NEW f, DirShape(f)
    PROVE  /\ DirShape(Checkpoint(f)) /\ Content(Checkpoint(f)) = Content(f)
           /\ Checkpoint(f).baks = f.baks /\ Checkpoint(f).temps = f.temps
<1> DEFINE g == Checkpoint(f)
<1>1. DOMAIN g = {"main", "wal", "baks", "temps"} /\ g.main = Content(f) /\ g.wal = NoWal /\ g.baks = f.baks /\ g.temps = f.temps
    BY DEF Checkpoint, DirShape
<1>2. Whole(Content(f))
    BY ContentIs
<1> HIDE DEF g
<1>3. DirShape(g)
    BY <1>1, <1>2 DEF DirShape
<1>4. Content(g) = Content(f)
    BY <1>1, <1>3, ContentIs
<1> QED
    BY <1>1, <1>3, <1>4 DEF g

(* A commit goes to the WAL of a database that is there.                   *)
LEMMA CommitDoes ==
    ASSUME DirShape(dbDir), dbDir.main # NoFile, NEW img \in Images, img.st = "ok", Commit(img)
    PROVE  /\ DirShape(dbDir') /\ Live' = img /\ dbDir'.baks = dbDir.baks /\ dbDir'.temps = dbDir.temps
<1>1. /\ DOMAIN dbDir' = {"main", "wal", "baks", "temps"} /\ dbDir'.main = dbDir.main
      /\ dbDir'.wal = [onto |-> dbDir.main, img |-> img] /\ dbDir'.baks = dbDir.baks /\ dbDir'.temps = dbDir.temps
    BY DEF Commit, DirShape
<1>2. dbDir'.wal # NoWal
    BY <1>1, NoFileWhole
<1>3. DirShape(dbDir')
    BY <1>1 DEF DirShape
<1> QED
    BY <1>1, <1>2, <1>3, ContentIs DEF Live

(* A copy of the live database, once synced, is the live database.         *)
LEMMA CopySynced ==
    ASSUME NEW i \in Images, i.st = "ok"
    PROVE  Synced([i EXCEPT !.st = "cached"]) = i
BY DEF Synced, Images

--------------------------------------------------------------------------------
(* What carries the invariant over a step.                                 *)

(* No backup of a migration or of a restore is lost from one to the other. *)
Carries(old, new) == \A b \in old : b.family \in {"pre", "replaced"} => b \in new

LEMMA HoldsCarried ==
    ASSUME NEW old, NEW new, Carries(old, new), NEW family \in {"pre", "replaced"}, NEW i, Holds(old, family, i)
    PROVE  Holds(new, family, i)
BY DEF Carries, Holds

LEMMA KeptCarried ==
    ASSUME Kept, past'.migrated = past.migrated, past'.replaced = past.replaced,
           Carries(dbDir.baks, dbDir'.baks) \/ Carries(dbDisk.baks, dbDir'.baks),
           Carries(dbDir.baks, dbDisk'.baks) \/ Carries(dbDisk.baks, dbDisk'.baks)
    PROVE  Kept'
<1>1. \A family \in {"pre", "replaced"} : \A i : InBoth(family, i) => InBoth(family, i)'
    BY HoldsCarried DEF InBoth
<1> QED
    BY <1>1 DEF Kept

LEMMA ReportedGrows ==
    ASSUME NEW rs, NEW old, NEW new, IsFiniteSet(new), old \subseteq new, ReportedIn(rs, old)
    PROVE  ReportedIn(rs, new)
<1> SUFFICES ASSUME NEW r \in rs \ new
             PROVE  Cardinality({b \in new : b.family = "nightly" /\ b.no > r.no}) >= Keep
    BY DEF ReportedIn
<1> DEFINE was == {b \in old : b.family = "nightly" /\ b.no > r.no}
           is == {b \in new : b.family = "nightly" /\ b.no > r.no}
<1>1. Cardinality(was) >= Keep
    BY DEF ReportedIn
<1>2. was \subseteq is /\ IsFiniteSet(is)
    BY FS_Subset
<1> HIDE DEF was, is
<1>3. Cardinality(was) <= Cardinality(is) /\ Cardinality(was) \in Nat /\ Cardinality(is) \in Nat
    BY <1>2, FS_Subset, FS_CardinalityType
<1>4. Keep \in Nat
    BY DatabaseAssumption
<1>5. Cardinality(is) >= Keep
    BY <1>1, <1>3, <1>4
<1> QED
    BY <1>5 DEF is

(* A step that neither makes nor drops a backup keeps what they promise.   *)
LEMMA FilesKept ==
    ASSUME FilesInv, DirShape(dbDir)', DirShape(dbDisk)',
           dbDir'.baks \in {dbDir.baks, dbDisk.baks}, dbDisk'.baks \in {dbDir.baks, dbDisk.baks},
           past'.migrated = past.migrated, past'.replaced = past.replaced, past'.reported = past.reported
    PROVE  FilesInv'
<1>1. Kept'
    <2>1. /\ Carries(dbDir.baks, dbDir'.baks) \/ Carries(dbDisk.baks, dbDir'.baks)
          /\ Carries(dbDir.baks, dbDisk'.baks) \/ Carries(dbDisk.baks, dbDisk'.baks)
        BY DEF Carries
    <2> QED
        BY <2>1, KeptCarried DEF FilesInv
<1>2. PlainPre'
    BY DEF FilesInv, PlainPre
<1>3. Reported'
    BY DEF FilesInv, Reported
<1> QED
    BY <1>1, <1>2, <1>3 DEF FilesInv

LEMMA FilesStill ==
    ASSUME FilesInv, SameFiles(dbDir, dbDir'), TempsShaped(dbDir'), dbDisk' = dbDisk, UNCHANGED past
    PROVE  FilesInv' /\ Live' = Live
<1>1. DirShape(dbDir') /\ Content(dbDir') = Content(dbDir)
    BY SameFilesSame DEF FilesInv
<1>2. dbDir'.baks = dbDir.baks /\ DirShape(dbDisk')
    BY DEF SameFiles, FilesInv
<1>3. FilesInv'
    BY <1>1, <1>2, FilesKept
<1> QED
    BY <1>1, <1>3 DEF Live

(* Nothing about the writers changes, or the live database changes while   *)
(* no migration and no restore waits for its copy.                         *)
LEMMA TempsKept ==
    ASSUME TempsInv, writer' = writer, \A w \in WriterNames : InFlight(w)' = InFlight(w),
           \/ writer["pre"] = "idle" /\ writer["replaced"] = "idle"
           \/ /\ Live' = Live /\ Carries(dbDir.baks, dbDir'.baks)
              /\ Carries(dbDisk.baks, dbDisk'.baks) \/ Carries(dbDir.baks, dbDisk'.baks)
    PROVE  TempsInv'
<1>1. OneTemp' /\ TempsWhole'
    BY DEF TempsInv, OneTemp, TempsWhole
<1>2. CopyOfLive'
    <2>1. CASE writer["pre"] = "idle" /\ writer["replaced"] = "idle"
        BY <2>1 DEF CopyOfLive
    <2>2. CASE /\ Live' = Live /\ Carries(dbDir.baks, dbDir'.baks)
               /\ Carries(dbDisk.baks, dbDisk'.baks) \/ Carries(dbDir.baks, dbDisk'.baks)
        <3> SUFFICES ASSUME NEW w \in {"pre", "replaced"}
                     PROVE  /\ \A t \in InFlight(w) : /\ writer[w] = "written" => Synced(t.img) = Live
                                                      /\ writer[w] = "synced" => t.img = Live
                            /\ writer[w] \in {"renamed", "done"} => Holds(dbDir'.baks, w, Live)
                            /\ writer[w] = "done" => Holds(dbDisk'.baks, w, Live)
            BY <2>2 DEF CopyOfLive, WriterNames
        <3>1. /\ \A t \in InFlight(w) : /\ writer[w] = "written" => Synced(t.img) = Live
                                        /\ writer[w] = "synced" => t.img = Live
              /\ writer[w] \in {"renamed", "done"} => Holds(dbDir.baks, w, Live)
              /\ writer[w] = "done" => Holds(dbDisk.baks, w, Live)
            BY DEF TempsInv, CopyOfLive
        <3> QED
            BY <2>2, <3>1, HoldsCarried
    <2> QED
        BY <2>1, <2>2
<1> QED
    BY <1>1, <1>2 DEF TempsInv

(* One writer steps; what it has to show for it is the hypothesis.         *)
LEMMA WriterMoves ==
    ASSUME TempsInv, NEW w \in WriterNames, NEW pc, DOMAIN writer = WriterNames, writer' = [writer EXCEPT ![w] = pc],
           \A o \in WriterNames \ {w} : InFlight(o)' = InFlight(o),
           Live' = Live, Carries(dbDir.baks, dbDir'.baks),
           Carries(dbDisk.baks, dbDisk'.baks) \/ Carries(dbDir.baks, dbDisk'.baks),
           pc \in {"temp", "written", "synced"} <=> InFlight(w)' # {},
           \A t, u \in InFlight(w)' : t = u,
           \A t \in InFlight(w)' : /\ pc = "written" => Whole(Synced(t.img)) /\ (w \in {"pre", "replaced"} => Synced(t.img) = Live)
                                   /\ pc = "synced" => Whole(t.img) /\ (w \in {"pre", "replaced"} => t.img = Live),
           pc \in {"renamed", "done"} /\ w \in {"pre", "replaced"} => Holds(dbDir'.baks, w, Live),
           pc = "done" /\ w \in {"pre", "replaced"} => Holds(dbDisk'.baks, w, Live)
    PROVE  TempsInv'
<1>1. writer'[w] = pc /\ \A o \in WriterNames \ {w} : writer'[o] = writer[o]
    OBVIOUS
<1>2. OneTemp'
    BY <1>1 DEF TempsInv, OneTemp
<1>3. TempsWhole'
    BY <1>1 DEF TempsInv, TempsWhole
<1>4. CopyOfLive'
    <2> SUFFICES ASSUME NEW o \in {"pre", "replaced"}
                 PROVE  /\ \A t \in InFlight(o)' : /\ writer'[o] = "written" => Synced(t.img) = Live
                                                   /\ writer'[o] = "synced" => t.img = Live
                        /\ writer'[o] \in {"renamed", "done"} => Holds(dbDir'.baks, o, Live)
                        /\ writer'[o] = "done" => Holds(dbDisk'.baks, o, Live)
        BY DEF CopyOfLive
    <2>1. CASE o = w
        BY <1>1, <2>1
    <2>2. CASE o # w
        <3>1. o \in WriterNames /\ writer'[o] = writer[o] /\ InFlight(o)' = InFlight(o)
            BY <1>1, <2>2 DEF WriterNames
        <3>2. /\ \A t \in InFlight(o) : /\ writer[o] = "written" => Synced(t.img) = Live
                                        /\ writer[o] = "synced" => t.img = Live
              /\ writer[o] \in {"renamed", "done"} => Holds(dbDir.baks, o, Live)
              /\ writer[o] = "done" => Holds(dbDisk.baks, o, Live)
            BY DEF TempsInv, CopyOfLive
        <3> QED
            BY <3>1, <3>2, HoldsCarried
    <2> QED
        BY <2>1, <2>2
<1> QED
    BY <1>2, <1>3, <1>4 DEF TempsInv

(* Nothing is written or replaced under a name.                            *)
LEMMA AllStill ==
    ASSUME TempsInv, FilesInv, UNCHANGED <<dbDir, dbDisk, past>>
    PROVE  /\ FilesInv' /\ Live' = Live
           /\ UNCHANGED writer => TempsInv'
           /\ \A w \in WriterNames : InFlight(w)' = InFlight(w)
<1>1. FilesInv' /\ Live' = Live /\ \A w \in WriterNames : InFlight(w)' = InFlight(w)
    BY DEF FilesInv, Kept, InBoth, PlainPre, Reported, Live, InFlight
<1>2. UNCHANGED writer => TempsInv'
    BY <1>1, TempsKept DEF Carries
<1> QED
    BY <1>1, <1>2

(* Server and restore wait, and what they rely on stays.                   *)
LEMMA CoversStill ==
    ASSUME MigrationCovered, RestoreCovered, Live' = Live, UNCHANGED <<server, restore>>,
           past'.found = past.found, past'.replaced = past.replaced,
           dbDir'.main = dbDir.main, dbDir'.wal = dbDir.wal,
           dbDir'.baks = dbDir.baks \/ restore.pc # "copywal",
           Carries(dbDir.baks, dbDir'.baks),
           Carries(dbDisk.baks, dbDisk'.baks) \/ Carries(dbDir.baks, dbDisk'.baks)
    PROVE  MigrationCovered' /\ RestoreCovered'
<1>1. \A family \in {"pre", "replaced"} : \A i : /\ Holds(dbDir.baks, family, i) => Holds(dbDir'.baks, family, i)
                                                 /\ InBoth(family, i) => InBoth(family, i)'
    BY HoldsCarried DEF InBoth
<1>2. MigrationCovered'
    BY <1>1 DEF MigrationCovered
<1>3. restore.pc = "copywal" => \E b \in dbDir'.baks : CopyInHand(b)'
    BY DEF RestoreCovered, CopyInHand
<1>4. RestoreCovered'
    BY <1>1, <1>3 DEF RestoreCovered
<1> QED
    BY <1>2, <1>4

--------------------------------------------------------------------------------
(* The steps of a snapshot.                                                *)

LEMMA WriterControl ==
    ASSUME ControlInv, NEW w \in WriterNames, writer[w] # "idle",
           NEW pc \in {"idle", "temp", "written", "synced", "renamed", "done", "failed"},
           Writer(w, pc), UNCHANGED <<source, dbLock, server, restore>>,
           DOMAIN past' = DOMAIN past, past'.found = past.found
    PROVE  /\ ControlInv' /\ DOMAIN writer = WriterNames /\ writer' = [writer EXCEPT ![w] = pc]
           /\ restore.pc # "copywal"
<1>1. DOMAIN writer = WriterNames /\ writer' = [writer EXCEPT ![w] = pc] /\ writer'[w] = pc
      /\ \A o \in WriterNames \ {w} : writer'[o] = writer[o]
    BY DEF Writer, ControlInv, DbTypes
<1>2. DbTypes'
    BY DEF ControlInv, DbTypes, Writer
<1>3. WriterOwned' /\ restore.pc # "copywal"
    BY <1>1 DEF ControlInv, WriterOwned, OneProcess, WriterNames
<1> QED
    BY <1>1, <1>2, <1>3 DEF ControlInv, OneProcess

(* A step on the temporary only.                                           *)
LEMMA TempStepSafe ==
    ASSUME DbInv, NEW w \in WriterNames, writer[w] # "idle",
           NEW pc \in {"temp", "written", "synced", "failed"},
           Writer(w, pc), UNCHANGED <<dbDisk, source, dbLock, server, restore, past>>,
           SameFiles(dbDir, dbDir'), TempsShaped(dbDir'),
           \A o \in WriterNames \ {w} : InFlight(o)' = InFlight(o),
           pc = "failed" <=> InFlight(w)' = {},
           \A t, u \in InFlight(w)' : t = u,
           \A t \in InFlight(w)' : /\ pc = "written" => Whole(Synced(t.img)) /\ (w \in {"pre", "replaced"} => Synced(t.img) = Live)
                                   /\ pc = "synced" => Whole(t.img) /\ (w \in {"pre", "replaced"} => t.img = Live)
    PROVE  DbInv'
<1>1. FilesInv' /\ Live' = Live /\ dbDir'.baks = dbDir.baks /\ dbDir'.main = dbDir.main /\ dbDir'.wal = dbDir.wal
    BY FilesStill DEF DbInv, SameFiles
<1>2. ControlInv' /\ DOMAIN writer = WriterNames /\ writer' = [writer EXCEPT ![w] = pc]
    BY WriterControl DEF DbInv
<1>3. Carries(dbDir.baks, dbDir'.baks) /\ Carries(dbDisk.baks, dbDisk'.baks)
    BY <1>1 DEF Carries
<1>4. TempsInv'
    BY <1>1, <1>2, <1>3, WriterMoves DEF DbInv
<1>5. MigrationCovered' /\ RestoreCovered'
    BY <1>1, <1>3, CoversStill DEF DbInv
<1> QED
    BY <1>1, <1>2, <1>4, <1>5 DEF DbInv

LEMMA WriterFailsSafe == ASSUME DbInv, NEW w \in WriterNames, WriterFails(w) PROVE DbInv'
<1>1. /\ writer[w] # "idle" /\ Writer(w, "failed") /\ DropTemp(w)
      /\ UNCHANGED <<dbDisk, source, dbLock, server, restore, past>>
    BY DEF WriterFails
<1>2. /\ SameFiles(dbDir, dbDir') /\ TempsShaped(dbDir') /\ InFlight(w)' = {}
      /\ \A o \in WriterNames \ {w} : InFlight(o)' = InFlight(o)
    BY <1>1, DropTempDoes DEF DbInv, FilesInv
<1> QED
    BY <1>1, <1>2, TempStepSafe

LEMMA VacuumSafe == ASSUME DbInv, NEW w \in WriterNames, Vacuum(w) PROVE DbInv'
<1>1. writer[w] # "idle" /\ UNCHANGED <<dbDisk, source, dbLock, server, restore, past>> /\ DirShape(dbDir)
    BY DEF Vacuum, DbInv, FilesInv
<1>2. CASE Live.st = "ok"
    <2> DEFINE img == [Live EXCEPT !.st = "cached"]
    <2>1. Whole(Live) /\ Live \in Images
        BY <1>1, ContentIs DEF Live, Whole
    <2>2. Synced(img) = Live
        BY <1>2, <2>1, CopySynced
    <2>3. SetTemp(w, img) /\ Writer(w, "written")
        BY <1>2 DEF Vacuum
    <2> HIDE DEF img
    <2>4. /\ SameFiles(dbDir, dbDir') /\ TempsShaped(dbDir') /\ InFlight(w)' = {Temp(w, img, "fresh")}
          /\ \A o \in WriterNames \ {w} : InFlight(o)' = InFlight(o)
        BY <1>1, <2>3, SetTempDoes
    <2>5. Temp(w, img, "fresh").img = img
        BY DEF Temp
    <2> QED
        BY <1>1, <2>1, <2>2, <2>3, <2>4, <2>5, TempStepSafe
<1>3. CASE Live.st # "ok"
    <2>1. DropTemp(w) /\ Writer(w, "failed")
        BY <1>3 DEF Vacuum
    <2>2. /\ SameFiles(dbDir, dbDir') /\ TempsShaped(dbDir') /\ InFlight(w)' = {}
          /\ \A o \in WriterNames \ {w} : InFlight(o)' = InFlight(o)
        BY <1>1, <2>1, DropTempDoes
    <2> QED
        BY <1>1, <2>1, <2>2, TempStepSafe
<1> QED
    BY <1>2, <1>3

LEMMA SyncTempSafe == ASSUME DbInv, NEW w \in WriterNames, SyncTemp(w) PROVE DbInv'
<1>1. /\ writer[w] = "written" /\ UNCHANGED <<dbDisk, source, dbLock, server, restore, past>> /\ DirShape(dbDir)
      /\ Writer(w, "synced")
    BY DEF SyncTemp, DbInv, FilesInv
<1>2. PICK t \in InFlight(w) : SetTemp(w, Synced(t.img))
    BY DEF SyncTemp
<1> DEFINE img == Synced(t.img)
<1>3. Whole(img) /\ (w \in {"pre", "replaced"} => img = Live)
    BY <1>1, <1>2 DEF DbInv, TempsInv, TempsWhole, CopyOfLive
<1>4. SetTemp(w, img)
    BY <1>2
<1> HIDE DEF img
<1>5. /\ SameFiles(dbDir, dbDir') /\ TempsShaped(dbDir') /\ InFlight(w)' = {Temp(w, img, "fresh")}
      /\ \A o \in WriterNames \ {w} : InFlight(o)' = InFlight(o)
    BY <1>1, <1>4, SetTempDoes
<1>6. Temp(w, img, "fresh").img = img
    BY DEF Temp
<1> QED
    BY <1>1, <1>3, <1>5, <1>6, TempStepSafe

(* The rename gives a synced file its name.                                *)
LEMMA BakAdded ==
    ASSUME FilesInv, NEW family \in {"nightly", "pre", "replaced"}, NEW img, Whole(img),
           UNCHANGED <<dbDisk, past>>, TempsShaped(dbDir'),
           DOMAIN dbDir' = {"main", "wal", "baks", "temps"}, dbDir'.main = dbDir.main, dbDir'.wal = dbDir.wal,
           dbDir'.baks = dbDir.baks \union {Bak(family, NextNo(dbDir.baks), img, NoWal)}
    PROVE  /\ FilesInv' /\ Live' = Live /\ Carries(dbDir.baks, dbDir'.baks)
           /\ Carries(dbDisk.baks, dbDisk'.baks) /\ Holds(dbDir'.baks, family, img)
<1> DEFINE b == Bak(family, NextNo(dbDir.baks), img, NoWal)
<1>1. IsFiniteSet(dbDir.baks) /\ \A c \in dbDir.baks : c.no \in Nat
    BY DEF FilesInv, DirShape, BakShape
<1>2. BakShape(b) /\ b.family = family /\ b.img = img /\ b.wal = NoWal
    BY <1>1, NextNoNewest DEF Bak, BakShape
<1>3. dbDir'.baks = dbDir.baks \union {b}
    OBVIOUS
<1> HIDE DEF b
<1>4. DirShape(dbDir')
    BY <1>1, <1>2, <1>3, FS_AddElement DEF FilesInv, DirShape, TempsShaped
<1>5. Live' = Live
    BY DEF Live, Content
<1>6. Carries(dbDir.baks, dbDir'.baks) /\ Carries(dbDisk.baks, dbDisk'.baks)
    BY DEF Carries
<1>7. Kept'
    BY <1>6, KeptCarried DEF FilesInv
<1>8. PlainPre'
    BY <1>2, <1>3 DEF FilesInv, PlainPre
<1>9. Reported'
    BY <1>3, <1>4, ReportedGrows DEF FilesInv, Reported, DirShape
<1>10. Holds(dbDir'.baks, family, img)
    BY <1>2, <1>3 DEF Holds, Content
<1> QED
    BY <1>4, <1>5, <1>6, <1>7, <1>8, <1>9, <1>10 DEF FilesInv

LEMMA RenameSafe == ASSUME DbInv, NEW w \in WriterNames, renameNoReplace(w) PROVE DbInv'
<1>1. /\ writer[w] = "synced" /\ UNCHANGED <<dbDisk, source, dbLock, server, restore, past>>
      /\ Writer(w, "renamed") /\ DirShape(dbDir)
    BY DEF renameNoReplace, DbInv, FilesInv
<1>2. PICK t \in InFlight(w) :
        dbDir' = [dbDir EXCEPT !.temps = dbDir.temps \ {t},
                               !.baks = dbDir.baks \union {Bak(Family(w), NextNo(dbDir.baks), t.img, NoWal)}]
    BY DEF renameNoReplace
<1>3. Whole(t.img) /\ (w \in {"pre", "replaced"} => t.img = Live)
    BY <1>1, <1>2 DEF DbInv, TempsInv, TempsWhole, CopyOfLive
<1>4. /\ DOMAIN dbDir' = {"main", "wal", "baks", "temps"} /\ dbDir'.main = dbDir.main /\ dbDir'.wal = dbDir.wal
      /\ dbDir'.temps = dbDir.temps \ {t}
      /\ dbDir'.baks = dbDir.baks \union {Bak(Family(w), NextNo(dbDir.baks), t.img, NoWal)}
    BY <1>1, <1>2 DEF DirShape
<1>5. TempsShaped(dbDir')
    BY <1>1, <1>4 DEF DirShape, TempsShaped
<1>6. Family(w) \in {"nightly", "pre", "replaced"} /\ (w \in {"pre", "replaced"} => Family(w) = w)
    BY DEF Family, WriterNames
<1>7. /\ FilesInv' /\ Live' = Live /\ Carries(dbDir.baks, dbDir'.baks) /\ Carries(dbDisk.baks, dbDisk'.baks)
      /\ Holds(dbDir'.baks, Family(w), t.img)
    BY <1>1, <1>3, <1>4, <1>5, <1>6, BakAdded DEF DbInv
<1>8. InFlight(w)' = {} /\ \A o \in WriterNames \ {w} : InFlight(o)' = InFlight(o)
    <2>1. \A u \in InFlight(w) : u = t
        BY <1>2 DEF DbInv, TempsInv, OneTemp
    <2> QED
        BY <1>2, <1>4, <2>1 DEF InFlight
<1>9. ControlInv' /\ DOMAIN writer = WriterNames /\ writer' = [writer EXCEPT ![w] = "renamed"] /\ restore.pc # "copywal"
    BY <1>1, WriterControl DEF DbInv
<1>10. TempsInv'
    BY <1>3, <1>6, <1>7, <1>8, <1>9, WriterMoves DEF DbInv
<1>11. MigrationCovered' /\ RestoreCovered'
    BY <1>1, <1>4, <1>7, <1>9, CoversStill DEF DbInv
<1> QED
    BY <1>7, <1>9, <1>10, <1>11 DEF DbInv

(* The directory reaches the disk; the snapshot is reported.               *)
LEMMA SyncDirSafe == ASSUME DbInv, NEW w \in WriterNames, SyncDir(w) PROVE DbInv'
<1>1. writer[w] = "renamed" /\ UNCHANGED <<dbDir, source, dbLock, server, restore>>
    BY DEF SyncDir
<1>2. PICK pc \in {"done", "failed"} :
        /\ Writer(w, pc)
        /\ dbDisk' = dbDir \/ (dbDisk' = dbDisk /\ pc = "failed")
        /\ DOMAIN past' = DOMAIN past /\ past'.found = past.found /\ past'.migrated = past.migrated /\ past'.replaced = past.replaced
        /\ \/ past'.reported = past.reported
           \/ dbDisk' = dbDir /\ past'.reported = past.reported \union NewestBak("nightly")
    BY DEF SyncDir, syncPath, DbInv, ControlInv, DbTypes
<1>3. ControlInv' /\ DOMAIN writer = WriterNames /\ writer' = [writer EXCEPT ![w] = pc] /\ restore.pc # "copywal"
    BY <1>1, <1>2, WriterControl DEF DbInv
<1>4. Live' = Live /\ \A o \in WriterNames : InFlight(o)' = InFlight(o)
    BY <1>1 DEF Live, InFlight
<1>5. Carries(dbDir.baks, dbDir'.baks) /\ (Carries(dbDisk.baks, dbDisk'.baks) \/ Carries(dbDir.baks, dbDisk'.baks))
    BY <1>1, <1>2 DEF Carries
<1>6. FilesInv'
    <2>1. Kept'
        BY <1>2, <1>5, KeptCarried DEF DbInv, FilesInv
    <2>2. PlainPre' /\ DirShape(dbDir)' /\ DirShape(dbDisk)'
        BY <1>1, <1>2 DEF DbInv, FilesInv, PlainPre
    <2>3. Reported'
        <3>1. CASE past'.reported = past.reported
            BY <1>1, <1>2, <3>1 DEF DbInv, FilesInv, Reported
        <3>2. CASE dbDisk' = dbDir /\ past'.reported = past.reported \union NewestBak("nightly")
            <4>1. NewestBak("nightly") \subseteq dbDir.baks /\ \A r \in NewestBak("nightly") : r.family = "nightly" /\ r.no \in Nat
                BY DEF NewestBak, DbInv, FilesInv, DirShape, BakShape
            <4>2. ReportedIn(past'.reported, dbDir.baks)
                BY <3>2, <4>1 DEF DbInv, FilesInv, Reported, ReportedIn
            <4> QED
                BY <1>1, <3>2, <4>1, <4>2 DEF DbInv, FilesInv, Reported
        <3> QED
            BY <1>2, <3>1, <3>2
    <2> QED
        BY <2>1, <2>2, <2>3 DEF FilesInv
<1>7. TempsInv'
    <2>1. InFlight(w)' = {}
        BY <1>1, <1>4 DEF DbInv, TempsInv, OneTemp
    <2>2. w \in {"pre", "replaced"} => Holds(dbDir'.baks, w, Live) /\ (pc = "done" => Holds(dbDisk'.baks, w, Live))
        BY <1>1, <1>2 DEF DbInv, TempsInv, CopyOfLive
    <2> QED
        BY <1>3, <1>4, <1>5, <2>1, <2>2, WriterMoves DEF DbInv
<1>8. MigrationCovered' /\ RestoreCovered'
    BY <1>1, <1>2, <1>3, <1>4, <1>5, CoversStill DEF DbInv
<1> QED
    BY <1>3, <1>6, <1>7, <1>8 DEF DbInv

--------------------------------------------------------------------------------
(* The steps of the server.                                                *)

LEMMA CoverIdle ==
    /\ restore'.pc = "idle" => RestoreCovered'
    /\ server' \in {"down", "open"} => MigrationCovered'
BY DEF RestoreCovered, MigrationCovered

(* The server has the lock: no restore runs.                               *)
LEMMA ServerAlone ==
    ASSUME ControlInv, server # "down"
    PROVE  /\ dbLock = "server" /\ restore.pc = "idle" /\ writer["replaced"] = "idle"
           /\ server # "backup" => writer["pre"] = "idle"
           /\ server # "up" => writer["night"] = "idle" /\ writer["post"] = "idle"
BY DEF ControlInv, OneProcess, WriterOwned

LEMMA LiveIs ==
    ASSUME DirShape(dbDir)
    PROVE  /\ Whole(Live) /\ Live \in Images /\ Live.v \in 0 .. Embedded /\ Embedded \in Nat
           /\ Live.st = "none" <=> dbDir.main = NoFile
           /\ Live = NoFile <=> dbDir.main = NoFile
           /\ Live.st \in {"none", "ok", "bad"}
<1>1. Whole(Live) /\ (Live.st = "none" <=> dbDir.main = NoFile) /\ (Live = NoFile <=> dbDir.main = NoFile)
    BY ContentIs DEF Live
<1> QED
    BY <1>1, DatabaseAssumption DEF Whole, Images

LEMMA ServerLocksSafe == ASSUME DbInv, ServerLocks PROVE DbInv'
<1>1. ControlInv' /\ restore'.pc = "idle"
    BY DEF DbInv, ControlInv, DbTypes, OneProcess, WriterOwned, ServerLocks, acquireDatabaseLock
<1>2. FilesInv' /\ TempsInv'
    BY AllStill DEF DbInv, ServerLocks
<1> QED
    BY <1>1, <1>2, CoverIdle DEF DbInv, ServerLocks

LEMMA OpenSafe == ASSUME DbInv, OpenDatabase PROVE DbInv'
<1>1. /\ server = "open" /\ UNCHANGED <<dbDisk, source, restore, writer, dbLeft>> /\ DirShape(dbDir) /\ DirShape(dbDisk)
      /\ restore.pc = "idle" /\ \A w \in WriterNames : writer[w] = "idle"
    BY ServerAlone DEF OpenDatabase, DbInv, FilesInv, WriterNames
<1>2. CASE ServerExits /\ UNCHANGED <<dbDir, past>>
    <2>1. ControlInv'
        BY <1>1, <1>2 DEF DbInv, ControlInv, DbTypes, OneProcess, WriterOwned, ServerExits, release, WriterNames
    <2>2. FilesInv' /\ TempsInv'
        BY <1>1, <1>2, AllStill DEF DbInv
    <2> QED
        BY <1>1, <1>2, <2>1, <2>2, CoverIdle DEF DbInv, ServerExits
<1>3. CASE /\ Live.st \in {"ok", "none"} /\ Live.v <= Embedded
           /\ dbDir' = createDatabaseFileIfMissing(dbDir)
           /\ server' = "migrate" /\ dbLock' = dbLock /\ past' = [past EXCEPT !.found = Live]
    <2>1. /\ DOMAIN past' = DOMAIN past /\ past'.found = Live /\ Live.v \in Nat
          /\ past'.migrated = past.migrated /\ past'.replaced = past.replaced /\ past'.reported = past.reported
        BY <1>1, <1>3, LiveIs DEF DbInv, ControlInv, DbTypes
    <2>2. DirShape(dbDir') /\ dbDir'.baks = dbDir.baks /\ dbDir'.temps = dbDir.temps
          /\ Live'.st = "ok" /\ (Live' = Live \/ Live.v = 0)
        <3>1. CASE dbDir.main = NoFile
            <4> DEFINE new == Image("live", 0, 0, "ok")
            <4>1. new \in Images /\ new.st = "ok" /\ Whole(new)
                BY DatabaseAssumption DEF Image, Images, Whole
            <4>2. dbDir' = [dbDir EXCEPT !.main = new]
                BY <1>3, <3>1 DEF createDatabaseFileIfMissing
            <4> HIDE DEF new
            <4>3. /\ DOMAIN dbDir' = {"main", "wal", "baks", "temps"} /\ dbDir'.main = new /\ dbDir'.wal = NoWal
                  /\ dbDir'.baks = dbDir.baks /\ dbDir'.temps = dbDir.temps
                BY <1>1, <3>1, <4>2 DEF DirShape
            <4>4. DirShape(dbDir')
                BY <1>1, <4>1, <4>3 DEF DirShape
            <4>5. Live' = new
                BY <4>3, <4>4, ContentIs DEF Live
            <4>6. Live.v = 0
                BY <1>1, <3>1, LiveIs, NoFileWhole
            <4> QED
                BY <4>1, <4>3, <4>4, <4>5, <4>6
        <3>2. CASE dbDir.main # NoFile
            BY <1>1, <1>3, <3>2, LiveIs DEF createDatabaseFileIfMissing, Live
        <3> QED
            BY <3>1, <3>2
    <2>3. FilesInv'
        BY <1>1, <2>1, <2>2, FilesKept DEF DbInv
    <2>4. TempsInv'
        <3>1. \A w \in WriterNames : InFlight(w)' = InFlight(w)
            BY <2>2 DEF InFlight
        <3> QED
            BY <1>1, <3>1, TempsKept DEF DbInv, WriterNames
    <2>5. ControlInv'
        BY <1>1, <1>3, <2>1 DEF DbInv, ControlInv, DbTypes, OneProcess, WriterOwned, WriterNames
    <2>6. MigrationCovered'
        BY <1>3, <2>1, <2>2 DEF MigrationCovered
    <2> QED
        BY <1>1, <2>3, <2>4, <2>5, <2>6, CoverIdle DEF DbInv
<1> QED
    BY <1>2, <1>3 DEF OpenDatabase

(* A snapshot begins with an empty temporary.                              *)
LEMMA TempBegins ==
    ASSUME DbInv, NEW w \in WriterNames, SetTemp(w, NoFile), Writer(w, "temp"), UNCHANGED <<dbDisk, past>>
    PROVE  /\ TempsInv' /\ FilesInv' /\ Live' = Live
           /\ dbDir'.baks = dbDir.baks /\ dbDir'.main = dbDir.main /\ dbDir'.wal = dbDir.wal
           /\ writer'[w] = "temp" /\ \A o \in WriterNames \ {w} : writer'[o] = writer[o]
           /\ writer' \in [WriterNames -> {"idle", "temp", "written", "synced", "renamed", "done", "failed"}]
<1>1. /\ SameFiles(dbDir, dbDir') /\ TempsShaped(dbDir') /\ InFlight(w)' = {Temp(w, NoFile, "fresh")}
      /\ \A o \in WriterNames \ {w} : InFlight(o)' = InFlight(o)
    BY SetTempDoes DEF DbInv, FilesInv
<1>2. FilesInv' /\ Live' = Live
    BY <1>1, FilesStill DEF DbInv
<1>3. /\ DOMAIN writer = WriterNames /\ writer' = [writer EXCEPT ![w] = "temp"]
      /\ writer' \in [WriterNames -> {"idle", "temp", "written", "synced", "renamed", "done", "failed"}]
    BY DEF Writer, DbInv, ControlInv, DbTypes
<1>4. dbDir'.baks = dbDir.baks /\ Carries(dbDir.baks, dbDir'.baks) /\ Carries(dbDisk.baks, dbDisk'.baks)
    BY <1>1 DEF Carries, SameFiles
<1>5. TempsInv'
    BY <1>1, <1>2, <1>3, <1>4, WriterMoves DEF DbInv
<1> QED
    BY <1>1, <1>2, <1>3, <1>4, <1>5 DEF SameFiles

LEMMA PreBackupSafe == ASSUME DbInv, preMigrationBackup PROVE DbInv'
<1>1. /\ server = "migrate" /\ server' = "backup" /\ "pre" \in WriterNames
      /\ SetTemp("pre", NoFile) /\ Writer("pre", "temp") /\ UNCHANGED <<dbDisk, source, dbLock, restore, past>>
      /\ restore.pc = "idle" /\ writer["replaced"] = "idle" /\ writer["night"] = "idle" /\ writer["post"] = "idle"
    BY ServerAlone DEF preMigrationBackup, WriterNames, DbInv
<1>2. /\ TempsInv' /\ FilesInv' /\ Live' = Live
      /\ writer'["pre"] = "temp" /\ \A o \in WriterNames \ {"pre"} : writer'[o] = writer[o]
      /\ writer' \in [WriterNames -> {"idle", "temp", "written", "synced", "renamed", "done", "failed"}]
    BY <1>1, TempBegins
<1>3. ControlInv'
    BY <1>1, <1>2 DEF DbInv, ControlInv, DbTypes, OneProcess, WriterOwned, WriterNames
<1>4. MigrationCovered'
    BY <1>1, <1>2 DEF DbInv, MigrationCovered
<1> QED
    BY <1>1, <1>2, <1>3, <1>4, CoverIdle DEF DbInv

(* The owner takes note of how its snapshot ended.                         *)
LEMMA SnapshotRead ==
    ASSUME DbInv, NEW w \in WriterNames, writer[w] \in {"done", "failed"}, Writer(w, "idle"),
           UNCHANGED <<dbDir, dbDisk, past>>
    PROVE  /\ TempsInv' /\ FilesInv' /\ Live' = Live
           /\ writer'[w] = "idle" /\ \A o \in WriterNames \ {w} : writer'[o] = writer[o]
           /\ writer' \in [WriterNames -> {"idle", "temp", "written", "synced", "renamed", "done", "failed"}]
<1>1. FilesInv' /\ Live' = Live /\ \A o \in WriterNames : InFlight(o)' = InFlight(o)
    BY AllStill DEF DbInv
<1>2. /\ DOMAIN writer = WriterNames /\ writer' = [writer EXCEPT ![w] = "idle"]
      /\ writer' \in [WriterNames -> {"idle", "temp", "written", "synced", "renamed", "done", "failed"}]
    BY DEF Writer, DbInv, ControlInv, DbTypes
<1>3. InFlight(w)' = {}
    BY <1>1 DEF DbInv, TempsInv, OneTemp
<1>4. Carries(dbDir.baks, dbDir'.baks) /\ Carries(dbDisk.baks, dbDisk'.baks)
    BY DEF Carries
<1>5. TempsInv'
    BY <1>1, <1>2, <1>3, <1>4, WriterMoves DEF DbInv
<1> QED
    BY <1>1, <1>2, <1>5

LEMMA BackupDecidesSafe == ASSUME DbInv, BackupDecides PROVE DbInv'
<1>1. /\ server = "backup" /\ writer["pre"] \in {"done", "failed"} /\ "pre" \in WriterNames /\ Writer("pre", "idle")
      /\ UNCHANGED <<dbDir, dbDisk, source, restore, past>>
      /\ restore.pc = "idle" /\ writer["replaced"] = "idle" /\ writer["night"] = "idle" /\ writer["post"] = "idle"
    BY ServerAlone DEF BackupDecides, WriterNames, DbInv
<1>2. /\ TempsInv' /\ FilesInv' /\ Live' = Live
      /\ writer'["pre"] = "idle" /\ \A o \in WriterNames \ {"pre"} : writer'[o] = writer[o]
      /\ writer' \in [WriterNames -> {"idle", "temp", "written", "synced", "renamed", "done", "failed"}]
    BY <1>1, SnapshotRead
<1>3. \/ writer["pre"] = "done" /\ server' = "apply" /\ dbLock' = dbLock
      \/ server' = "down" /\ dbLock' = "none"
    BY DEF BackupDecides, ServerExits, release
<1>4. ControlInv'
    BY <1>1, <1>2, <1>3 DEF DbInv, ControlInv, DbTypes, OneProcess, WriterOwned, WriterNames
<1>5. MigrationCovered'
    <2>1. CASE writer["pre"] = "done" /\ server' = "apply"
        <3>1. past.found.v > 0 => InBoth("pre", past.found)
            BY <1>1, <2>1 DEF DbInv, ControlInv, DbTypes, MigrationCovered, TempsInv, CopyOfLive, InBoth
        <3> QED
            BY <1>1, <1>2, <2>1, <3>1 DEF DbInv, MigrationCovered, InBoth
    <2>2. CASE server' = "down"
        BY <2>2, CoverIdle
    <2> QED
        BY <1>3, <2>1, <2>2
<1> QED
    BY <1>1, <1>2, <1>4, <1>5, CoverIdle DEF DbInv

LEMMA ApplyBeginsSafe == ASSUME DbInv, ApplyBegins PROVE DbInv'
<1>1. FilesInv' /\ TempsInv' /\ Live' = Live
    BY AllStill DEF DbInv, ApplyBegins
<1>2. ControlInv' /\ restore'.pc = "idle"
    BY ServerAlone DEF DbInv, ControlInv, DbTypes, OneProcess, WriterOwned, ApplyBegins
<1>3. MigrationCovered'
    BY <1>1 DEF DbInv, ControlInv, DbTypes, MigrationCovered, ApplyBegins, NeedsBackup
<1> QED
    BY <1>1, <1>2, <1>3, CoverIdle DEF DbInv

(* The live database changes; no snapshot of it is waited for.             *)
LEMMA LiveWritten ==
    ASSUME DbInv, server \in {"apply", "up"}, NEW img \in Images, img.st = "ok", Commit(img),
           UNCHANGED <<dbDisk, writer>>
    PROVE  DirShape(dbDir)' /\ DirShape(dbDisk)' /\ Live' = img /\ dbDir'.baks = dbDir.baks /\ TempsInv'
<1>1. DirShape(dbDir) /\ dbDir.main # NoFile /\ DirShape(dbDisk')
    BY LiveIs DEF DbInv, FilesInv, MigrationCovered
<1>2. DirShape(dbDir)' /\ Live' = img /\ dbDir'.baks = dbDir.baks /\ dbDir'.temps = dbDir.temps
    BY <1>1, CommitDoes
<1>3. \A w \in WriterNames : InFlight(w)' = InFlight(w)
    BY <1>2 DEF InFlight
<1>4. writer["pre"] = "idle" /\ writer["replaced"] = "idle"
    BY ServerAlone DEF DbInv
<1>5. TempsInv'
    BY <1>3, <1>4, TempsKept DEF DbInv
<1> QED
    BY <1>1, <1>2, <1>5

LEMMA MigrateSafe == ASSUME DbInv, migrate PROVE DbInv'
<1>1. /\ server = "apply" /\ Live.v < Embedded /\ UNCHANGED <<dbDisk, source, restore, writer>>
      /\ restore.pc = "idle" /\ Live \in Images /\ Live.st = "ok"
    BY ServerAlone, LiveIs DEF migrate, DbInv, FilesInv, MigrationCovered
<1>2. CASE /\ Commit([Live EXCEPT !.v = @ + 1])
           /\ past' = [past EXCEPT !.migrated = IF past.found.v > 0 THEN past.migrated \union {past.found} ELSE past.migrated]
           /\ UNCHANGED <<server, dbLock, dbLeft>>
    <2> DEFINE img == [Live EXCEPT !.v = Live.v + 1]
    <2>1. img \in Images /\ img.st = "ok" /\ Commit(img)
        BY <1>1, <1>2, DatabaseAssumption DEF Images
    <2> HIDE DEF img
    <2>2. DirShape(dbDir)' /\ DirShape(dbDisk)' /\ Live' = img /\ dbDir'.baks = dbDir.baks /\ TempsInv'
        BY <1>1, <2>1, LiveWritten
    <2>3. /\ DOMAIN past' = DOMAIN past /\ past'.found = past.found /\ past'.replaced = past.replaced
          /\ past'.reported = past.reported
          /\ \/ past'.migrated = past.migrated
             \/ past.found.v > 0 /\ past'.migrated = past.migrated \union {past.found}
        BY <1>2 DEF DbInv, ControlInv, DbTypes
    <2>4. past.found.v > 0 => InBoth("pre", past.found)
        BY <1>1, LiveIs DEF DbInv, MigrationCovered, FilesInv
    <2>5. \A family, i : InBoth(family, i) => InBoth(family, i)'
        BY <1>1, <2>2 DEF InBoth
    <2>6. FilesInv'
        <3>1. Kept'
            BY <2>3, <2>4, <2>5 DEF DbInv, FilesInv, Kept
        <3>2. PlainPre' /\ Reported'
            BY <1>1, <2>2, <2>3 DEF DbInv, FilesInv, PlainPre, Reported
        <3> QED
            BY <2>2, <3>1, <3>2 DEF FilesInv
    <2>7. ControlInv'
        BY <1>1, <1>2, <2>3 DEF DbInv, ControlInv, DbTypes, OneProcess, WriterOwned
    <2>8. MigrationCovered'
        BY <1>1, <1>2, <2>1, <2>2, <2>3, <2>4, <2>5 DEF MigrationCovered
    <2> QED
        BY <1>1, <2>2, <2>6, <2>7, <2>8, CoverIdle DEF DbInv
<1>3. CASE ServerExits /\ UNCHANGED <<dbDir, past>>
    <2>1. FilesInv' /\ TempsInv'
        BY <1>1, <1>3, AllStill DEF DbInv
    <2>2. ControlInv'
        BY <1>1, <1>3, ServerAlone DEF DbInv, ControlInv, DbTypes, OneProcess, WriterOwned, ServerExits, release
    <2> QED
        BY <1>1, <1>3, <2>1, <2>2, CoverIdle DEF DbInv, ServerExits
<1> QED
    BY <1>2, <1>3 DEF migrate

LEMMA IntegritySafe == ASSUME DbInv, checkIntegrity PROVE DbInv'
<1>1. FilesInv' /\ TempsInv' /\ Live' = Live
    BY AllStill DEF DbInv, checkIntegrity
<1>2. ControlInv' /\ restore'.pc = "idle"
    BY ServerAlone DEF DbInv, ControlInv, DbTypes, OneProcess, WriterOwned, checkIntegrity
<1>3. MigrationCovered'
    BY <1>1 DEF DbInv, MigrationCovered, checkIntegrity
<1> QED
    BY <1>1, <1>2, <1>3, CoverIdle DEF DbInv

LEMMA CommitsSafe == ASSUME DbInv, ServerCommits PROVE DbInv'
<1>1. /\ server = "up" /\ Live.st = "ok" /\ UNCHANGED <<dbDisk, source, dbLock, server, restore, writer, past>>
      /\ restore.pc = "idle" /\ Live \in Images
    BY ServerAlone, LiveIs DEF ServerCommits, DbInv, FilesInv
<1> DEFINE img == [Live EXCEPT !.n = Live.n + 1]
<1>2. img \in Images /\ img.st = "ok" /\ Commit(img)
    BY <1>1 DEF Images, ServerCommits
<1> HIDE DEF img
<1>3. DirShape(dbDir)' /\ DirShape(dbDisk)' /\ Live' = img /\ dbDir'.baks = dbDir.baks /\ TempsInv'
    BY <1>1, <1>2, LiveWritten
<1>4. FilesInv'
    BY <1>1, <1>3, FilesKept DEF DbInv
<1>5. ControlInv'
    BY <1>1 DEF DbInv, ControlInv, DbTypes, OneProcess, WriterOwned
<1>6. MigrationCovered'
    BY <1>1, <1>2, <1>3 DEF MigrationCovered
<1> QED
    BY <1>1, <1>3, <1>4, <1>5, <1>6, CoverIdle DEF DbInv

LEMMA StopsSafe == ASSUME DbInv, ServerStops PROVE DbInv'
<1>1. /\ server = "up" /\ (\A w \in WriterNames : writer[w] = "idle") /\ dbDir' = Checkpoint(dbDir) /\ ServerExits
      /\ UNCHANGED <<dbDisk, source, restore, writer, past>> /\ DirShape(dbDir) /\ DirShape(dbDisk)
      /\ restore.pc = "idle"
    BY ServerAlone DEF ServerStops, DbInv, FilesInv
<1>2. DirShape(dbDir)' /\ dbDir'.baks = dbDir.baks /\ dbDir'.temps = dbDir.temps
    BY <1>1, CheckpointSame
<1>3. FilesInv'
    BY <1>1, <1>2, FilesKept DEF DbInv
<1>4. \A w \in WriterNames : InFlight(w)' = InFlight(w)
    BY <1>2 DEF InFlight
<1>5. TempsInv'
    BY <1>1, <1>4, TempsKept DEF DbInv, WriterNames
<1>6. ControlInv'
    BY <1>1 DEF DbInv, ControlInv, DbTypes, OneProcess, WriterOwned, WriterNames, ServerExits, release
<1> QED
    BY <1>1, <1>3, <1>5, <1>6, CoverIdle DEF DbInv, ServerExits

LEMMA BackupIntoSafe == ASSUME DbInv, NEW w \in {"night", "post"}, BackupInto(w) PROVE DbInv'
<1>1. /\ server = "up" /\ SetTemp(w, NoFile) /\ Writer(w, "temp") /\ w \in WriterNames
      /\ UNCHANGED <<dbDisk, source, dbLock, server, restore, past>> /\ restore.pc = "idle"
    BY ServerAlone DEF BackupInto, WriterNames, DbInv
<1>2. /\ TempsInv' /\ FilesInv' /\ Live' = Live
      /\ writer'[w] = "temp" /\ \A o \in WriterNames \ {w} : writer'[o] = writer[o]
      /\ writer' \in [WriterNames -> {"idle", "temp", "written", "synced", "renamed", "done", "failed"}]
    BY <1>1, TempBegins
<1>3. ControlInv'
    BY <1>1, <1>2 DEF DbInv, ControlInv, DbTypes, OneProcess, WriterOwned, WriterNames
<1>4. MigrationCovered'
    BY <1>1, <1>2 DEF DbInv, MigrationCovered
<1> QED
    BY <1>1, <1>2, <1>3, <1>4, CoverIdle DEF DbInv

(* Pruning drops nightly backups that have Keep newer ones, and leaves     *)
(* Keep newer ones than each that it dropped.                              *)
LEMMA PruneReported ==
    ASSUME NEW rs, NEW f, DirShape(f), \A r \in rs : r.family = "nightly" /\ r.no \in Nat, ReportedIn(rs, f.baks)
    PROVE  ReportedIn(rs, f.baks \ Pruned(f))
<1> SUFFICES ASSUME NEW r \in rs, r \notin f.baks \ Pruned(f)
             PROVE  Cardinality({b \in f.baks \ Pruned(f) : b.family = "nightly" /\ b.no > r.no}) >= Keep
    BY DEF ReportedIn
<1> DEFINE T == {b \in f.baks : b.family = "nightly"}
           Newer(n) == {c \in T : c.no > n}
<1>1. IsFiniteSet(T) /\ (\A b \in T : b.no \in Nat) /\ r.no \in Nat /\ Keep \in Nat
    BY FS_Subset, DatabaseAssumption DEF DirShape, BakShape
<1>2. \A n : Newer(n) = {c \in f.baks : c.family = "nightly" /\ c.no > n}
    OBVIOUS
<1>3. \A n : Cardinality(Newer(n)) \in Nat
    BY <1>1, FS_Subset, FS_CardinalityType
<1>4. Cardinality({c \in T : c.no > r.no}) >= Keep
    BY <1>2 DEF ReportedIn, Pruned
<1>5. Cardinality({c \in T : c.no > r.no /\ Cardinality({d \in T : d.no > c.no}) < Keep}) >= Keep
    <2> HIDE DEF T
    <2> QED
        BY <1>1, <1>4, DropKeepsNewest
<1>6. \A c \in T : c \in Pruned(f) <=> ~(Cardinality({d \in T : d.no > c.no}) < Keep)
    <2> SUFFICES ASSUME NEW c \in T PROVE c \in Pruned(f) <=> ~(Cardinality(Newer(c.no)) < Keep)
        OBVIOUS
    <2>1. c \in Pruned(f) <=> Cardinality(Newer(c.no)) >= Keep
        BY <1>2 DEF Pruned
    <2>2. Cardinality(Newer(c.no)) \in Nat
        BY <1>3
    <2> HIDE DEF Newer
    <2> QED
        BY <1>1, <2>1, <2>2
<1>7. {b \in f.baks \ Pruned(f) : b.family = "nightly" /\ b.no > r.no}
         = {c \in T : c.no > r.no /\ Cardinality({d \in T : d.no > c.no}) < Keep}
    BY <1>6
<1> QED
    BY <1>5, <1>7

LEMMA PruneSafe == ASSUME DbInv, NEW w \in {"night", "post"}, PruneBackups(w) PROVE DbInv'
<1>1. /\ server = "up" /\ writer[w] \in {"done", "failed"} /\ Writer(w, "idle") /\ w \in WriterNames
      /\ UNCHANGED <<dbDisk, source, dbLock, server, restore, past>> /\ restore.pc = "idle"
      /\ DirShape(dbDir) /\ DirShape(dbDisk)
    BY ServerAlone DEF PruneBackups, WriterNames, DbInv, FilesInv
<1>2. PICK gone, old :
        /\ gone = {} \/ gone = Pruned(dbDir)
        /\ old \subseteq StaleTemps(dbDir)
        /\ DOMAIN dbDir' = {"main", "wal", "baks", "temps"} /\ dbDir'.main = dbDir.main /\ dbDir'.wal = dbDir.wal
        /\ dbDir'.baks = dbDir.baks \ gone /\ dbDir'.temps = dbDir.temps \ old
    <2>1. CASE writer[w] = "done"
        <3>1. dbDir' = [dbDir EXCEPT !.baks = dbDir.baks \ Pruned(dbDir), !.temps = dbDir.temps \ StaleTemps(dbDir)]
            BY <2>1 DEF PruneBackups
        <3> QED
            BY <1>1, <3>1 DEF DirShape
    <2>2. CASE writer[w] # "done"
        <3>1. dbDir' = dbDir /\ dbDir.baks = dbDir.baks \ {} /\ dbDir.temps = dbDir.temps \ {} /\ {} \subseteq StaleTemps(dbDir)
            BY <2>2 DEF PruneBackups
        <3> QED
            BY <1>1, <3>1 DEF DirShape
    <2> QED
        BY <2>1, <2>2
<1>3. /\ DOMAIN dbDir' = {"main", "wal", "baks", "temps"} /\ dbDir'.main = dbDir.main /\ dbDir'.wal = dbDir.wal
      /\ dbDir'.baks = dbDir.baks \ gone /\ dbDir'.temps = dbDir.temps \ old
    BY <1>2
<1>4. DirShape(dbDir)'
    BY <1>1, <1>3, FS_Subset DEF DirShape
<1>5. Live' = Live
    BY <1>3 DEF Live, Content
<1>6. Carries(dbDir.baks, dbDir'.baks) /\ Carries(dbDisk.baks, dbDisk'.baks)
    BY <1>1, <1>2, <1>3 DEF Carries, Pruned
<1>7. FilesInv'
    <2>1. Kept'
        BY <1>1, <1>6, KeptCarried DEF DbInv, FilesInv
    <2>2. PlainPre'
        BY <1>1, <1>3 DEF DbInv, FilesInv, PlainPre
    <2>3. ReportedIn(past.reported, dbDir'.baks)
        <3>1. CASE gone = {}
            BY <1>3, <3>1 DEF DbInv, FilesInv, Reported, ReportedIn
        <3>2. CASE gone = Pruned(dbDir)
            BY <1>1, <1>3, <3>2, PruneReported DEF DbInv, FilesInv, Reported
        <3> QED
            BY <1>2, <3>1, <3>2
    <2> QED
        BY <1>1, <1>4, <2>1, <2>2, <2>3 DEF DbInv, FilesInv, Reported
<1>8. \A o \in WriterNames : InFlight(o)' = InFlight(o)
    BY <1>2, <1>3 DEF InFlight, StaleTemps
<1>9. /\ DOMAIN writer = WriterNames /\ writer' = [writer EXCEPT ![w] = "idle"]
      /\ writer' \in [WriterNames -> {"idle", "temp", "written", "synced", "renamed", "done", "failed"}]
      /\ writer'[w] = "idle" /\ \A o \in WriterNames \ {w} : writer'[o] = writer[o]
    BY <1>1 DEF Writer, DbInv, ControlInv, DbTypes
<1>10. TempsInv'
    <2>1. InFlight(w)' = {}
        BY <1>1, <1>8 DEF DbInv, TempsInv, OneTemp
    <2> QED
        BY <1>1, <1>5, <1>6, <1>8, <1>9, <2>1, WriterMoves DEF DbInv
<1>11. ControlInv'
    BY <1>1, <1>9 DEF DbInv, ControlInv, DbTypes, OneProcess, WriterOwned, WriterNames
<1>12. MigrationCovered' /\ RestoreCovered'
    BY <1>1, <1>3, <1>5, <1>6, CoversStill DEF DbInv
<1> QED
    BY <1>7, <1>10, <1>11, <1>12 DEF DbInv

--------------------------------------------------------------------------------
(* The steps of a restore.                                                 *)

LEMMA RestoreAlone ==
    ASSUME ControlInv, restore.pc # "idle"
    PROVE  /\ dbLock = "restore" /\ server = "down"
           /\ writer["pre"] = "idle" /\ writer["night"] = "idle" /\ writer["post"] = "idle"
           /\ restore.pc # "preserve" => writer["replaced"] = "idle"
BY DEF ControlInv, OneProcess, WriterOwned

(* A restore that ends, for whatever reason, gives the lock back.          *)
LEMMA RestoreEndsDoes ==
    ASSUME ControlInv, restore.pc \notin {"idle", "preserve"}, RestoreEnds, UNCHANGED <<source, server, writer>>,
           DOMAIN past' = DOMAIN past, past'.found = past.found
    PROVE  ControlInv' /\ RestoreCovered' /\ MigrationCovered'
<1>1. server = "down" /\ \A w \in WriterNames : writer[w] = "idle"
    BY RestoreAlone DEF WriterNames
<1>2. restore'.pc = "idle" /\ dbLock' = "none" /\ DOMAIN restore' = {"pc", "staged", "vacuumed", "before"}
    BY DEF RestoreEnds, release, ControlInv, DbTypes
<1>3. ControlInv'
    BY <1>1, <1>2 DEF ControlInv, DbTypes, OneProcess, WriterOwned, RestoreSteps, WriterNames
<1> QED
    BY <1>1, <1>2, <1>3, CoverIdle

(* A restore that goes on keeps the lock.                                  *)
LEMMA RestoreGoes ==
    ASSUME ControlInv, restore.pc \notin {"idle", "preserve"}, NEW pc \in RestoreSteps \ {"idle"},
           DOMAIN restore' = DOMAIN restore, restore'.pc = pc, UNCHANGED <<source, server, writer, dbLock>>,
           DOMAIN past' = DOMAIN past, past'.found = past.found
    PROVE  ControlInv' /\ MigrationCovered' /\ writer["pre"] = "idle" /\ writer["replaced"] = "idle"
<1>1. server = "down" /\ dbLock = "restore" /\ \A w \in WriterNames : writer[w] = "idle"
    BY RestoreAlone DEF WriterNames
<1>2. ControlInv'
    BY <1>1 DEF ControlInv, DbTypes, OneProcess, WriterOwned, RestoreSteps, WriterNames
<1> QED
    BY <1>1, <1>2, CoverIdle DEF WriterNames

LEMMA RestoreSets ==
    ASSUME ControlInv, NEW pc, Restore(pc)
    PROVE  /\ DOMAIN restore' = DOMAIN restore /\ restore'.pc = pc /\ restore'.before = restore.before
           /\ restore'.staged = restore.staged /\ restore'.vacuumed = restore.vacuumed
BY DEF ControlInv, DbTypes, Restore

(* A failed step changes no file.                                          *)
LEMMA RestoreGivesUp ==
    ASSUME DbInv, restore.pc \notin {"idle", "preserve"}, RestoreEnds, UNCHANGED <<dbDir, dbDisk, source, server, writer, past>>
    PROVE  DbInv'
<1>1. FilesInv' /\ TempsInv'
    BY AllStill DEF DbInv
<1>2. ControlInv' /\ RestoreCovered' /\ MigrationCovered'
    BY RestoreEndsDoes DEF DbInv
<1> QED
    BY <1>1, <1>2 DEF DbInv

LEMMA RestoreLocksSafe == ASSUME DbInv, RestoreLocks PROVE DbInv'
<1>1. FilesInv' /\ TempsInv' /\ Live' = Live
    BY AllStill DEF DbInv, RestoreLocks
<1>2. DOMAIN restore' = {"pc", "staged", "vacuumed", "before"} /\ restore'.pc = "gate" /\ restore'.before = Live
    BY DEF RestoreLocks
<1>3. ControlInv' /\ server' = "down"
    BY <1>2 DEF DbInv, ControlInv, DbTypes, OneProcess, WriterOwned, RestoreLocks, acquireDatabaseLock, RestoreSteps
<1>4. RestoreCovered'
    BY <1>1, <1>2 DEF RestoreCovered
<1> QED
    BY <1>1, <1>3, <1>4, CoverIdle DEF DbInv

LEMMA GateSafe == ASSUME DbInv, checkRestoreSource PROVE DbInv'
<1>1. restore.pc = "gate" /\ UNCHANGED <<dbDir, dbDisk, source, server, writer, past>>
    BY DEF checkRestoreSource
<1>2. CASE Restore("stage") /\ UNCHANGED dbLock
    <2>1. FilesInv' /\ TempsInv' /\ Live' = Live
        BY <1>1, AllStill DEF DbInv
    <2>2. DOMAIN restore' = DOMAIN restore /\ restore'.pc = "stage" /\ restore'.before = restore.before
        BY <1>2, RestoreSets DEF DbInv
    <2>3. ControlInv' /\ MigrationCovered'
        BY <1>1, <1>2, <2>2, RestoreGoes DEF DbInv, RestoreSteps
    <2>4. RestoreCovered'
        BY <1>1, <2>1, <2>2 DEF DbInv, RestoreCovered
    <2> QED
        BY <2>1, <2>3, <2>4 DEF DbInv
<1>3. CASE RestoreEnds
    BY <1>1, <1>3, RestoreGivesUp
<1> QED
    BY <1>2, <1>3 DEF checkRestoreSource

LEMMA StageSafe == ASSUME DbInv, stageRestoreSource PROVE DbInv'
<1>1. restore.pc = "stage" /\ UNCHANGED <<dbDir, dbDisk, source, server, writer, past>>
    BY DEF stageRestoreSource
<1>2. CASE restore' = [restore EXCEPT !.pc = "staged", !.staged = source] /\ UNCHANGED dbLock
    <2>1. FilesInv' /\ TempsInv' /\ Live' = Live
        BY <1>1, AllStill DEF DbInv
    <2>2. DOMAIN restore' = DOMAIN restore /\ restore'.pc = "staged" /\ restore'.before = restore.before /\ restore'.staged = source
        BY <1>2 DEF DbInv, ControlInv, DbTypes
    <2>3. ControlInv' /\ MigrationCovered'
        BY <1>1, <1>2, <2>2, RestoreGoes DEF DbInv, RestoreSteps
    <2>4. RestoreCovered'
        BY <1>1, <2>1, <2>2 DEF DbInv, ControlInv, DbTypes, RestoreCovered
    <2> QED
        BY <2>1, <2>3, <2>4 DEF DbInv
<1>3. CASE RestoreEnds
    BY <1>1, <1>3, RestoreGivesUp
<1> QED
    BY <1>2, <1>3 DEF stageRestoreSource

LEMMA StagedSafe == ASSUME DbInv, checkStagedSchema PROVE DbInv'
<1>1. restore.pc = "staged" /\ UNCHANGED <<dbDisk, source, server, past>> /\ DirShape(dbDir) /\ restore.staged \in Sources
    BY DEF checkStagedSchema, DbInv, FilesInv, RestoreCovered
<1>2. CASE Passes(restore.staged, TRUE) /\ dbDir.main = NoFile
    <2>1. Restore("sidecars") /\ UNCHANGED <<dbLock, dbDir, writer>>
        BY <1>2 DEF checkStagedSchema
    <2>2. FilesInv' /\ TempsInv' /\ Live' = Live
        BY <1>1, <2>1, AllStill DEF DbInv
    <2>3. DOMAIN restore' = DOMAIN restore /\ restore'.pc = "sidecars" /\ restore'.before = restore.before /\ restore'.staged = restore.staged
        BY <2>1, RestoreSets DEF DbInv
    <2>4. ControlInv' /\ MigrationCovered'
        BY <1>1, <2>1, <2>3, RestoreGoes DEF DbInv, RestoreSteps
    <2>5. restore.before = NoFile /\ Live = restore.before
        BY <1>1, <1>2, LiveIs DEF DbInv, RestoreCovered
    <2>6. RestoreCovered'
        BY <1>1, <1>2, <2>2, <2>3, <2>5 DEF RestoreCovered
    <2> QED
        BY <2>2, <2>4, <2>6 DEF DbInv
<1>3. CASE Passes(restore.staged, TRUE) /\ dbDir.main # NoFile
    <2>1. Restore("preserve") /\ SetTemp("replaced", NoFile) /\ Writer("replaced", "temp") /\ UNCHANGED dbLock /\ "replaced" \in WriterNames
        BY <1>3 DEF checkStagedSchema, WriterNames
    <2>2. /\ TempsInv' /\ FilesInv' /\ Live' = Live
          /\ writer'["replaced"] = "temp" /\ \A o \in WriterNames \ {"replaced"} : writer'[o] = writer[o]
          /\ writer' \in [WriterNames -> {"idle", "temp", "written", "synced", "renamed", "done", "failed"}]
        BY <1>1, <2>1, TempBegins
    <2>3. DOMAIN restore' = DOMAIN restore /\ restore'.pc = "preserve" /\ restore'.before = restore.before /\ restore'.staged = restore.staged
        BY <2>1, RestoreSets DEF DbInv
    <2>4. ControlInv' /\ server' = "down"
        BY <1>1, <2>1, <2>2, <2>3, RestoreAlone DEF DbInv, ControlInv, DbTypes, OneProcess, WriterOwned, WriterNames, RestoreSteps
    <2>5. RestoreCovered'
        BY <1>1, <1>3, <2>2, <2>3 DEF DbInv, RestoreCovered
    <2> QED
        BY <2>2, <2>4, <2>5, CoverIdle DEF DbInv
<1>4. CASE ~Passes(restore.staged, TRUE)
    BY <1>1, <1>4, RestoreGivesUp DEF checkStagedSchema
<1> QED
    BY <1>2, <1>3, <1>4

LEMMA ReplacedReadSafe == ASSUME DbInv, backupReplacedDatabase PROVE DbInv'
<1>1. /\ restore.pc = "preserve" /\ writer["replaced"] \in {"done", "failed"} /\ Writer("replaced", "idle")
      /\ UNCHANGED <<dbDir, dbDisk, source, dbLock, server, past>> /\ "replaced" \in WriterNames
    BY DEF backupReplacedDatabase, WriterNames
<1>2. /\ TempsInv' /\ FilesInv' /\ Live' = Live
      /\ writer'["replaced"] = "idle" /\ \A o \in WriterNames \ {"replaced"} : writer'[o] = writer[o]
      /\ writer' \in [WriterNames -> {"idle", "temp", "written", "synced", "renamed", "done", "failed"}]
    BY <1>1, SnapshotRead
<1>3. /\ DOMAIN restore' = DOMAIN restore /\ restore'.before = restore.before /\ restore'.staged = restore.staged
      /\ restore'.pc = IF writer["replaced"] = "done" THEN "checkpoint" ELSE "copy"
    BY DEF backupReplacedDatabase, DbInv, ControlInv, DbTypes
<1>4. ControlInv' /\ server' = "down"
    BY <1>1, <1>2, <1>3, RestoreAlone DEF DbInv, ControlInv, DbTypes, OneProcess, WriterOwned, WriterNames, RestoreSteps
<1>5. writer["replaced"] = "done" => InBoth("replaced", restore.before)'
    BY <1>1, <1>3 DEF DbInv, TempsInv, CopyOfLive, RestoreCovered, InBoth
<1>6. RestoreCovered'
    BY <1>1, <1>2, <1>3, <1>5 DEF DbInv, RestoreCovered
<1> QED
    BY <1>2, <1>4, <1>6, CoverIdle DEF DbInv

LEMMA CopySafe == ASSUME DbInv, copyReplacedDatabase PROVE DbInv'
<1>1. restore.pc = "copy" /\ UNCHANGED <<dbDisk, source, server, writer, past>> /\ DirShape(dbDir)
    BY DEF copyReplacedDatabase, DbInv, FilesInv
<1>2. CASE /\ dbDir' = [dbDir EXCEPT !.baks = @ \union {Bak("replaced", NextNo(dbDir.baks), dbDir.main, NoWal)}]
           /\ Restore("copywal") /\ UNCHANGED dbLock
    <2>0. PICK b : b = Bak("replaced", NextNo(dbDir.baks), dbDir.main, NoWal)
        OBVIOUS
    <2>1. /\ DOMAIN dbDir' = {"main", "wal", "baks", "temps"} /\ dbDir'.main = dbDir.main /\ dbDir'.wal = dbDir.wal
          /\ dbDir'.temps = dbDir.temps /\ dbDir'.baks = dbDir.baks \union {b}
        BY <1>1, <1>2, <2>0 DEF DirShape
    <2>2. FilesInv' /\ Live' = Live /\ Carries(dbDir.baks, dbDir'.baks)
        BY <1>1, <2>0, <2>1, BakAdded DEF DbInv, DirShape, TempsShaped
    <2>3. DOMAIN restore' = DOMAIN restore /\ restore'.pc = "copywal" /\ restore'.before = restore.before /\ restore'.staged = restore.staged
        BY <1>2, RestoreSets DEF DbInv
    <2>4. ControlInv' /\ MigrationCovered' /\ writer["pre"] = "idle" /\ writer["replaced"] = "idle"
        BY <1>1, <1>2, <2>3, RestoreGoes DEF DbInv, RestoreSteps
    <2>5. TempsInv'
        <3>1. \A w \in WriterNames : InFlight(w)' = InFlight(w)
            BY <2>1 DEF InFlight
        <3> QED
            BY <1>1, <2>4, <3>1, TempsKept DEF DbInv
    <2>6. \E d \in dbDir'.baks : CopyInHand(d)'
        <3>1. b.family = "replaced" /\ b.img = dbDir.main /\ b.wal = NoWal /\ b.no = NextNo(dbDir.baks)
            BY <2>0 DEF Bak
        <3>2. b.no \in Nat /\ \A c \in dbDir.baks : c.no \in Nat /\ c.no < b.no
            BY <1>1, <3>1, NextNoNewest DEF DirShape, BakShape
        <3>3. b \notin dbDir.baks
            BY <3>2
        <3>4. dbDir'.baks \ {b} = dbDir.baks
            BY <2>1, <3>3
        <3>5. \A i \in past.replaced : Holds(dbDir.baks, "replaced", i)
            BY DEF DbInv, FilesInv, Kept, InBoth
        <3>6. CopyInHand(b)'
            BY <1>1, <2>1, <3>1, <3>2, <3>4, <3>5 DEF CopyInHand
        <3> QED
            BY <2>1, <3>6
    <2>7. RestoreCovered'
        BY <1>1, <2>2, <2>3, <2>6 DEF DbInv, RestoreCovered
    <2> QED
        BY <2>2, <2>4, <2>5, <2>7 DEF DbInv
<1>3. CASE RestoreEnds /\ dbDir' = dbDir
    BY <1>1, <1>3, RestoreGivesUp
<1> QED
    BY <1>2, <1>3 DEF copyReplacedDatabase

(* The copy and the WAL beside it hold what the database held.             *)
LEMMA CopyWALSafe == ASSUME DbInv, CopyWAL PROVE DbInv'
<1>1. restore.pc = "copywal" /\ UNCHANGED <<dbDisk, source, server, writer, past>> /\ DirShape(dbDir) /\ DirShape(dbDisk)
    BY DEF CopyWAL, DbInv, FilesInv
<1>2. ASSUME NEW b \in NewestBak("replaced"), dbDir' = [dbDir EXCEPT !.baks = (@ \ {b}) \union {preserveWALBeside(b)}],
             Restore("copysync"), UNCHANGED dbLock
      PROVE  DbInv'
    <2> DEFINE c == preserveWALBeside(b)
    <2>1. b \in dbDir.baks /\ CopyInHand(b)
        <3>1. PICK d \in dbDir.baks : CopyInHand(d)
            BY <1>1 DEF DbInv, RestoreCovered
        <3>2. b \in dbDir.baks /\ b.no \in Nat /\ d.no \in Nat /\ d.no <= b.no
            BY <1>1, <1>2, <3>1 DEF NewestBak, CopyInHand, DirShape, BakShape
        <3>3. b = d
            BY <3>1, <3>2 DEF CopyInHand
        <3> QED
            BY <3>1, <3>3
    <2>2. b = [family |-> "replaced", no |-> b.no, img |-> dbDir.main, wal |-> NoWal] /\ b.no \in Nat
        BY <1>1, <2>1 DEF CopyInHand, DirShape, BakShape
    <2>3. c = [family |-> "replaced", no |-> b.no, img |-> dbDir.main, wal |-> dbDir.wal]
        BY <2>2 DEF preserveWALBeside
    <2>4. BakShape(c) /\ c.family = "replaced" /\ Content([main |-> c.img, wal |-> c.wal]) = Live
        BY <1>1, <2>2, <2>3 DEF BakShape, DirShape, Live, Content
    <2>5. /\ DOMAIN dbDir' = {"main", "wal", "baks", "temps"} /\ dbDir'.main = dbDir.main /\ dbDir'.wal = dbDir.wal
          /\ dbDir'.temps = dbDir.temps /\ dbDir'.baks = (dbDir.baks \ {b}) \union {c}
        BY <1>1, <1>2 DEF DirShape
    <2> HIDE DEF c
    <2>6. DirShape(dbDir')
        <3>1. IsFiniteSet(dbDir.baks)
            BY <1>1 DEF DirShape
        <3>2. IsFiniteSet(dbDir.baks \ {b})
            BY <3>1, FS_RemoveElement
        <3>3. IsFiniteSet((dbDir.baks \ {b}) \union {c})
            BY <3>2, FS_AddElement
        <3>4. \A d \in dbDir'.baks : BakShape(d)
            BY <1>1, <2>4, <2>5 DEF DirShape
        <3> QED
            BY <1>1, <2>5, <3>3, <3>4 DEF DirShape
    <2>7. Live' = Live
        BY <2>5 DEF Live, Content
    <2>8. Kept'
        <3>1. \A i \in past.migrated : InBoth("pre", i)'
            BY <1>1, <2>1, <2>5 DEF DbInv, FilesInv, Kept, InBoth, Holds, CopyInHand
        <3>2. \A i \in past.replaced : InBoth("replaced", i)'
            BY <1>1, <2>1, <2>5 DEF DbInv, FilesInv, Kept, InBoth, Holds, CopyInHand
        <3> QED
            BY <1>1, <3>1, <3>2 DEF Kept
    <2>9. PlainPre'
        BY <1>1, <2>4, <2>5 DEF DbInv, FilesInv, PlainPre
    <2>10. ReportedIn(past.reported, dbDir'.baks)
        <3> SUFFICES ASSUME NEW r \in past.reported \ dbDir'.baks
                     PROVE  Cardinality({d \in dbDir'.baks : d.family = "nightly" /\ d.no > r.no}) >= Keep
            BY DEF ReportedIn
        <3>1. r \notin dbDir.baks
            BY <2>1, <2>5 DEF DbInv, FilesInv, Reported, CopyInHand
        <3>2. {d \in dbDir'.baks : d.family = "nightly" /\ d.no > r.no} = {d \in dbDir.baks : d.family = "nightly" /\ d.no > r.no}
            BY <2>1, <2>4, <2>5 DEF CopyInHand
        <3> QED
            BY <3>1, <3>2 DEF DbInv, FilesInv, Reported, ReportedIn
    <2>11. FilesInv'
        BY <1>1, <2>6, <2>8, <2>9, <2>10 DEF DbInv, FilesInv, Reported
    <2>12. DOMAIN restore' = DOMAIN restore /\ restore'.pc = "copysync" /\ restore'.before = restore.before /\ restore'.staged = restore.staged
        BY <1>2, RestoreSets DEF DbInv
    <2>13. ControlInv' /\ MigrationCovered' /\ writer["pre"] = "idle" /\ writer["replaced"] = "idle"
        BY <1>1, <1>2, <2>12, RestoreGoes DEF DbInv, RestoreSteps
    <2>14. TempsInv'
        <3>1. \A w \in WriterNames : InFlight(w)' = InFlight(w)
            BY <2>5 DEF InFlight
        <3> QED
            BY <1>1, <2>13, <3>1, TempsKept DEF DbInv
    <2>15. Live = restore.before
        BY <1>1 DEF DbInv, RestoreCovered
    <2>16. Holds(dbDir'.baks, "replaced", Live)
        BY <2>4, <2>5 DEF Holds
    <2>17. RestoreCovered'
        BY <1>1, <2>7, <2>12, <2>15, <2>16 DEF DbInv, RestoreCovered
    <2> QED
        BY <2>11, <2>13, <2>14, <2>17 DEF DbInv
<1>3. CASE RestoreEnds /\ dbDir' = dbDir
    BY <1>1, <1>3, RestoreGivesUp
<1> QED
    BY <1>2, <1>3 DEF CopyWAL

LEMMA CopySyncSafe == ASSUME DbInv, CopySync PROVE DbInv'
<1>1. restore.pc = "copysync" /\ UNCHANGED <<dbDir, source, server, writer, past>> /\ DirShape(dbDir)
    BY DEF CopySync, DbInv, FilesInv
<1>2. CASE dbDisk' = dbDir /\ Restore("checkpoint") /\ UNCHANGED dbLock
    <2>1. FilesInv' /\ Live' = Live
        BY <1>1, <1>2, FilesKept DEF DbInv, Live
    <2>2. DOMAIN restore' = DOMAIN restore /\ restore'.pc = "checkpoint" /\ restore'.before = restore.before /\ restore'.staged = restore.staged
        BY <1>2, RestoreSets DEF DbInv
    <2>3. ControlInv' /\ MigrationCovered' /\ writer["pre"] = "idle" /\ writer["replaced"] = "idle"
        BY <1>1, <1>2, <2>2, RestoreGoes DEF DbInv, RestoreSteps
    <2>4. TempsInv'
        BY <1>1, <2>3, TempsKept DEF DbInv, InFlight
    <2>5. InBoth("replaced", restore.before)'
        BY <1>1, <1>2, <2>2 DEF DbInv, RestoreCovered, InBoth
    <2>6. RestoreCovered'
        BY <1>1, <2>1, <2>2, <2>5 DEF DbInv, RestoreCovered
    <2> QED
        BY <2>1, <2>3, <2>4, <2>6 DEF DbInv
<1>3. CASE RestoreEnds /\ dbDisk' = dbDisk
    BY <1>1, <1>3, RestoreGivesUp
<1> QED
    BY <1>2, <1>3 DEF CopySync

LEMMA PreserveSafe == ASSUME DbInv, preserveLiveDatabase PROVE DbInv'
<1>1. restore.pc = "checkpoint" /\ UNCHANGED <<dbDisk, source, server, writer, past>> /\ DirShape(dbDir) /\ DirShape(dbDisk)
    BY DEF preserveLiveDatabase, DbInv, FilesInv
<1>2. CASE dbDir' \in {Checkpoint(dbDir), dbDir} /\ Restore("sidecars") /\ UNCHANGED dbLock
    <2>1. DirShape(dbDir') /\ Live' = Live /\ dbDir'.baks = dbDir.baks /\ dbDir'.temps = dbDir.temps
        BY <1>1, <1>2, CheckpointSame DEF Live
    <2>2. FilesInv'
        BY <1>1, <2>1, FilesKept DEF DbInv
    <2>3. DOMAIN restore' = DOMAIN restore /\ restore'.pc = "sidecars" /\ restore'.before = restore.before /\ restore'.staged = restore.staged
        BY <1>2, RestoreSets DEF DbInv
    <2>4. ControlInv' /\ MigrationCovered' /\ writer["pre"] = "idle" /\ writer["replaced"] = "idle"
        BY <1>1, <1>2, <2>3, RestoreGoes DEF DbInv, RestoreSteps
    <2>5. TempsInv'
        BY <1>1, <2>1, <2>4, TempsKept DEF DbInv, InFlight
    <2>6. RestoreCovered'
        BY <1>1, <2>1, <2>3 DEF DbInv, RestoreCovered, InBoth
    <2> QED
        BY <2>2, <2>4, <2>5, <2>6 DEF DbInv
<1>3. CASE RestoreEnds /\ dbDir' = dbDir
    BY <1>1, <1>3, RestoreGivesUp
<1> QED
    BY <1>2, <1>3 DEF preserveLiveDatabase

LEMMA SidecarsSafe == ASSUME DbInv, RemoveSidecars PROVE DbInv'
<1>1. restore.pc = "sidecars" /\ UNCHANGED <<dbDisk, source, server, writer, past>> /\ DirShape(dbDir) /\ DirShape(dbDisk)
    BY DEF RemoveSidecars, DbInv, FilesInv
<1>2. CASE dbDir' = SidecarsGone(dbDir) /\ Restore("install") /\ UNCHANGED dbLock
    <2>1. /\ DOMAIN dbDir' = {"main", "wal", "baks", "temps"} /\ dbDir'.main = dbDir.main /\ dbDir'.wal = NoWal
          /\ dbDir'.temps = dbDir.temps /\ dbDir'.baks = dbDir.baks
        BY <1>1, <1>2 DEF DirShape, SidecarsGone
    <2>2. DirShape(dbDir')
        BY <1>1, <2>1 DEF DirShape
    <2>3. FilesInv'
        BY <1>1, <2>1, <2>2, FilesKept DEF DbInv
    <2>4. DOMAIN restore' = DOMAIN restore /\ restore'.pc = "install" /\ restore'.before = restore.before /\ restore'.staged = restore.staged
        BY <1>2, RestoreSets DEF DbInv
    <2>5. ControlInv' /\ MigrationCovered' /\ writer["pre"] = "idle" /\ writer["replaced"] = "idle"
        BY <1>1, <1>2, <2>4, RestoreGoes DEF DbInv, RestoreSteps
    <2>6. TempsInv'
        BY <1>1, <2>1, <2>5, TempsKept DEF DbInv, InFlight
    <2>7. RestoreCovered'
        BY <1>1, <2>1, <2>4 DEF DbInv, RestoreCovered, InBoth
    <2> QED
        BY <2>3, <2>5, <2>6, <2>7 DEF DbInv
<1>3. CASE RestoreEnds /\ dbDir' = dbDir
    BY <1>1, <1>3, RestoreGivesUp
<1> QED
    BY <1>2, <1>3 DEF RemoveSidecars

LEMMA InstallSafe == ASSUME DbInv, InstallStaged PROVE DbInv'
<1>1. restore.pc = "install" /\ UNCHANGED <<dbDisk, source, server, writer>> /\ DirShape(dbDir) /\ DirShape(dbDisk)
    BY DEF InstallStaged, DbInv, FilesInv
<1>2. CASE /\ dbDir' = [dbDir EXCEPT !.main = restore.staged] /\ Restore("sync") /\ UNCHANGED dbLock
           /\ past' = [past EXCEPT !.replaced = IF restore.before = NoFile THEN @ ELSE @ \union {restore.before}]
    <2>1. Whole(restore.staged) /\ dbDir.wal = NoWal
        <3>1. Passes(restore.staged, TRUE) /\ restore.staged \in Sources /\ dbDir.wal = NoWal
            BY <1>1 DEF DbInv, RestoreCovered
        <3>2. Embedded \in Nat /\ Embedded # 0
            BY DatabaseAssumption
        <3> QED
            BY <3>1, <3>2 DEF Passes, Sources, Image, Whole, Images
    <2>2. /\ DOMAIN dbDir' = {"main", "wal", "baks", "temps"} /\ dbDir'.main = restore.staged /\ dbDir'.wal = NoWal
          /\ dbDir'.temps = dbDir.temps /\ dbDir'.baks = dbDir.baks
        BY <1>1, <1>2, <2>1 DEF DirShape
    <2>3. DirShape(dbDir')
        BY <1>1, <2>1, <2>2 DEF DirShape
    <2>4. /\ DOMAIN past' = DOMAIN past /\ past'.found = past.found /\ past'.migrated = past.migrated /\ past'.reported = past.reported
          /\ \/ past'.replaced = past.replaced
             \/ restore.before # NoFile /\ past'.replaced = past.replaced \union {restore.before}
        BY <1>2 DEF DbInv, ControlInv, DbTypes
    <2>5. \A family, i : InBoth(family, i) => InBoth(family, i)'
        BY <1>1, <2>2 DEF InBoth
    <2>6. Kept'
        <3>1. restore.before = NoFile \/ InBoth("replaced", restore.before)
            BY <1>1 DEF DbInv, RestoreCovered
        <3> QED
            BY <2>4, <2>5, <3>1 DEF DbInv, FilesInv, Kept
    <2>7. PlainPre' /\ Reported'
        BY <1>1, <2>2, <2>4 DEF DbInv, FilesInv, PlainPre, Reported
    <2>8. FilesInv'
        BY <1>1, <2>3, <2>6, <2>7 DEF FilesInv
    <2>9. DOMAIN restore' = DOMAIN restore /\ restore'.pc = "sync"
        BY <1>2, RestoreSets DEF DbInv
    <2>10. ControlInv' /\ MigrationCovered' /\ writer["pre"] = "idle" /\ writer["replaced"] = "idle"
        BY <1>1, <1>2, <2>4, <2>9, RestoreGoes DEF DbInv, RestoreSteps
    <2>11. TempsInv'
        BY <1>1, <2>2, <2>10, TempsKept DEF DbInv, InFlight
    <2>12. RestoreCovered'
        BY <2>9 DEF RestoreCovered
    <2> QED
        BY <2>8, <2>10, <2>11, <2>12 DEF DbInv
<1>3. CASE RestoreEnds /\ UNCHANGED <<dbDir, past>>
    BY <1>1, <1>3, RestoreGivesUp
<1> QED
    BY <1>2, <1>3 DEF InstallStaged

LEMMA RestoredSafe == ASSUME DbInv, RestoredTaskCount PROVE DbInv'
<1>1. /\ restore.pc = "sync" /\ dbDisk' = dbDir /\ RestoreEnds /\ UNCHANGED <<dbDir, source, server, writer, past>>
      /\ DirShape(dbDir)
    BY DEF RestoredTaskCount, DbInv, FilesInv
<1>2. FilesInv'
    BY <1>1, FilesKept DEF DbInv
<1>3. ControlInv' /\ RestoreCovered' /\ MigrationCovered'
    BY <1>1, RestoreEndsDoes DEF DbInv
<1>4. TempsInv'
    BY <1>1, RestoreAlone, TempsKept DEF DbInv, InFlight
<1> QED
    BY <1>2, <1>3, <1>4 DEF DbInv

--------------------------------------------------------------------------------
(* The surroundings.                                                       *)

LEMMA WritebackSafe == ASSUME DbInv, Writeback PROVE DbInv'
<1>1. dbDisk' = dbDir /\ UNCHANGED <<dbDir, source, dbLock, server, restore, writer, past>> /\ DirShape(dbDir)
    BY DEF Writeback, DbInv, FilesInv
<1>2. FilesInv' /\ Live' = Live /\ Carries(dbDir.baks, dbDir'.baks) /\ Carries(dbDir.baks, dbDisk'.baks)
    BY <1>1, FilesKept DEF DbInv, Live, Carries
<1>3. TempsInv'
    BY <1>1, <1>2, TempsKept DEF DbInv, InFlight
<1>4. MigrationCovered' /\ RestoreCovered'
    BY <1>1, <1>2, CoversStill DEF DbInv
<1> QED
    BY <1>1, <1>2, <1>3, <1>4 DEF DbInv, ControlInv, DbTypes, OneProcess, WriterOwned

(* All processes are gone, and with them what was in flight.               *)
LEMMA AllDown ==
    ASSUME ControlInv, ProcessesEnd, UNCHANGED <<source, past>>, \A t \in dbDir'.temps : t.age # "fresh"
    PROVE  ControlInv' /\ TempsInv' /\ MigrationCovered' /\ RestoreCovered'
<1>1. /\ server' = "down" /\ dbLock' = "none" /\ restore'.pc = "idle" /\ DOMAIN restore' = {"pc", "staged", "vacuumed", "before"}
      /\ writer' = [w \in WriterNames |-> "idle"]
    BY DEF ProcessesEnd, release, ControlInv, DbTypes
<1>2. ControlInv'
    BY <1>1 DEF ControlInv, DbTypes, OneProcess, WriterOwned, RestoreSteps, WriterNames
<1>3. \A w \in WriterNames : InFlight(w)' = {}
    BY DEF InFlight
<1>4. TempsInv'
    BY <1>1, <1>3 DEF TempsInv, OneTemp, TempsWhole, CopyOfLive, WriterNames
<1> QED
    BY <1>1, <1>2, <1>4, CoverIdle

LEMMA KilledSafe == ASSUME DbInv, Killed PROVE DbInv'
<1>1. ProcessesEnd /\ dbDir' = Orphan(dbDir) /\ UNCHANGED <<dbDisk, source, past>> /\ DirShape(dbDir)
    BY DEF Killed, DbInv, FilesInv
<1>2. SameFiles(dbDir, dbDir') /\ TempsShaped(dbDir') /\ \A t \in dbDir'.temps : t.age # "fresh"
    BY <1>1, OrphanDoes
<1>3. FilesInv'
    BY <1>1, <1>2, FilesStill DEF DbInv
<1> QED
    BY <1>1, <1>2, <1>3, AllDown DEF DbInv

LEMMA PowerLossSafe == ASSUME DbInv, PowerLoss PROVE DbInv'
<1>1. /\ ProcessesEnd /\ dbDir' = Torn(Orphan(dbDisk)) /\ dbDisk' = dbDir' /\ UNCHANGED <<source, past>>
      /\ DirShape(dbDisk)
    BY DEF PowerLoss, DbInv, FilesInv
<1> DEFINE f == Orphan(dbDisk)
<1>2. SameFiles(dbDisk, f) /\ TempsShaped(f) /\ (\A t \in f.temps : t.age # "fresh")
    BY <1>1, OrphanDoes
<1>3. dbDir' = Torn(f)
    BY <1>1
<1> HIDE DEF f
<1>4. DirShape(f)
    BY <1>1, <1>2, SameFilesSame
<1>5. SameFiles(f, dbDir') /\ dbDir'.temps = f.temps
    BY <1>3, <1>4, TornSame
<1>6. DirShape(dbDir') /\ dbDir'.baks = dbDisk.baks /\ (\A t \in dbDir'.temps : t.age # "fresh")
    BY <1>2, <1>4, <1>5, SameFilesSame DEF SameFiles, TempsShaped
<1>7. FilesInv'
    BY <1>1, <1>6, FilesKept DEF DbInv
<1> QED
    BY <1>1, <1>6, <1>7, AllDown DEF DbInv

LEMMA HourSafe == ASSUME DbInv, HourPasses PROVE DbInv'
<1>1. UNCHANGED <<dbDisk, source, dbLock, server, restore, writer, past>> /\ DirShape(dbDir)
    BY DEF HourPasses, DbInv, FilesInv
<1> DEFINE Old(t) == [t EXCEPT !.age = IF t.age = "left" THEN "old" ELSE t.age]
           ts == {Old(t) : t \in dbDir.temps}
<1>2. dbDir' = [dbDir EXCEPT !.temps = ts]
    BY DEF HourPasses
<1>3. \A t \in dbDir.temps : /\ TempShape(Old(t)) /\ Old(t).w = t.w
                             /\ t.age = "fresh" => Old(t) = t
                             /\ Old(t).age = "fresh" => t.age = "fresh"
    BY <1>1 DEF DirShape, TempShape, Temp
<1>4. /\ \A t \in ts : TempShape(t)
      /\ \A w \in WriterNames : {t \in ts : t.w = w /\ t.age = "fresh"} = InFlight(w)
    <2> HIDE DEF Old
    <2> QED
        BY <1>3 DEF InFlight
<1> HIDE DEF ts
<1>5. SameFiles(dbDir, dbDir') /\ dbDir'.temps = ts
    BY <1>1, <1>2 DEF SameFiles, DirShape
<1>6. TempsShaped(dbDir') /\ \A w \in WriterNames : InFlight(w)' = InFlight(w)
    BY <1>4, <1>5 DEF TempsShaped, InFlight
<1>7. FilesInv' /\ Live' = Live
    BY <1>1, <1>5, <1>6, FilesStill DEF DbInv
<1>8. Carries(dbDir.baks, dbDir'.baks) /\ Carries(dbDisk.baks, dbDisk'.baks) /\ dbDir'.baks = dbDir.baks
      /\ dbDir'.main = dbDir.main /\ dbDir'.wal = dbDir.wal
    BY <1>1, <1>5 DEF Carries, SameFiles
<1>9. TempsInv'
    BY <1>1, <1>6, <1>7, <1>8, TempsKept DEF DbInv
<1>10. MigrationCovered' /\ RestoreCovered'
    BY <1>1, <1>7, <1>8, CoversStill DEF DbInv
<1> QED
    BY <1>1, <1>7, <1>9, <1>10 DEF DbInv, ControlInv, DbTypes, OneProcess, WriterOwned

LEMMA SwapSafe == ASSUME DbInv, SwapSource PROVE DbInv'
<1>1. UNCHANGED <<dbDir, dbDisk, dbLock, server, restore, writer, past>> /\ source' \in Sources
    BY DEF SwapSource
<1>2. FilesInv' /\ TempsInv' /\ Live' = Live
    BY <1>1, AllStill DEF DbInv
<1>3. MigrationCovered' /\ RestoreCovered'
    BY <1>1, <1>2, CoversStill DEF DbInv, Carries
<1> QED
    BY <1>1, <1>2, <1>3 DEF DbInv, ControlInv, DbTypes, OneProcess, WriterOwned

(* The medium decays with no process running.                              *)
LEMMA DecaysSafe == ASSUME DbInv, Decays PROVE DbInv'
<1>1. /\ dbLock = "none" /\ dbDir.main.st = "ok" /\ dbDir' = Bad(dbDir) /\ dbDisk' = dbDir'
      /\ UNCHANGED <<source, dbLock, server, restore, writer, past>> /\ DirShape(dbDir)
    BY DEF Decays, DbInv, FilesInv
<1>2. server = "down" /\ restore.pc = "idle" /\ \A w \in WriterNames : writer[w] = "idle"
    BY <1>1 DEF DbInv, ControlInv, OneProcess, WriterOwned, WriterNames
<1> DEFINE m == [dbDir.main EXCEPT !.st = "bad"]
           wal == IF dbDir.wal = NoWal THEN NoWal ELSE [onto |-> m, img |-> [dbDir.wal.img EXCEPT !.st = "bad"]]
<1>3. m \in Images /\ m.st = "bad" /\ Whole(m) /\ m # NoFile
    BY <1>1 DEF DirShape, Whole, Images, NoFile, Image
<1>4. dbDir' = [dbDir EXCEPT !.main = m, !.wal = wal]
    BY <1>1 DEF Bad
<1>5. wal = NoWal \/ (wal = [onto |-> m, img |-> wal.img] /\ wal.img \in Images /\ wal.img.st # "none")
    BY <1>1 DEF DirShape, Images
<1> HIDE DEF m, wal
<1>6. /\ DOMAIN dbDir' = {"main", "wal", "baks", "temps"} /\ dbDir'.main = m /\ dbDir'.wal = wal
      /\ dbDir'.baks = dbDir.baks /\ dbDir'.temps = dbDir.temps
    BY <1>1, <1>4 DEF DirShape
<1>7. DirShape(dbDir')
    BY <1>1, <1>3, <1>5, <1>6 DEF DirShape
<1>8. FilesInv'
    BY <1>1, <1>6, <1>7, FilesKept DEF DbInv
<1>9. TempsInv'
    BY <1>1, <1>2, <1>6, TempsKept DEF DbInv, InFlight, WriterNames
<1>10. MigrationCovered' /\ RestoreCovered'
    BY <1>1, <1>2, CoverIdle
<1> QED
    BY <1>1, <1>8, <1>9, <1>10 DEF DbInv, ControlInv, DbTypes, OneProcess, WriterOwned

--------------------------------------------------------------------------------
LEMMA DbInitInv == DbInit => DbInv
<1> SUFFICES ASSUME DbInit PROVE DbInv
    OBVIOUS
<1>1. /\ dbDisk = dbDir /\ dbDir.wal = NoWal /\ dbDir.baks = {} /\ dbDir.temps = {}
      /\ DOMAIN dbDir = {"main", "wal", "baks", "temps"} /\ Whole(dbDir.main)
    <2>1. PICK v \in 0 .. Embedded, there \in BOOLEAN :
            dbDir = [main |-> IF there THEN Image("live", 0, v, "ok") ELSE NoFile, wal |-> NoWal, baks |-> {}, temps |-> {}]
        BY DEF DbInit
    <2>2. Whole(Image("live", 0, v, "ok")) /\ Whole(NoFile)
        BY NoFileWhole DEF Whole, Images, Image
    <2> QED
        BY <2>1, <2>2 DEF DbInit
<1>2. DirShape(dbDir)
    BY <1>1, FS_EmptySet DEF DirShape
<1>3. FilesInv
    BY <1>1, <1>2 DEF DbInit, FilesInv, Kept, PlainPre, Reported, ReportedIn
<1>4. ControlInv
    BY NoFileWhole DEF DbInit, ControlInv, DbTypes, OneProcess, WriterOwned, RestoreSteps, Sources, WriterNames
<1>5. TempsInv
    BY <1>1 DEF DbInit, TempsInv, OneTemp, TempsWhole, CopyOfLive, InFlight, WriterNames
<1>6. MigrationCovered /\ RestoreCovered
    BY DEF DbInit, MigrationCovered, RestoreCovered
<1> QED
    BY <1>3, <1>4, <1>5, <1>6 DEF DbInv

LEMMA DbStepInv == DbInv /\ [DbNext]_dbVars => DbInv'
<1> SUFFICES ASSUME DbInv, [DbNext]_dbVars PROVE DbInv'
    OBVIOUS
<1>1. CASE ServerLocks
    BY <1>1, ServerLocksSafe
<1>2. CASE ServerStep
    BY <1>2, OpenSafe, PreBackupSafe, BackupDecidesSafe, ApplyBeginsSafe, MigrateSafe, IntegritySafe DEF ServerStep
<1>3. CASE ServerCommits \/ ServerStops
    BY <1>3, CommitsSafe, StopsSafe
<1>4. CASE \E w \in {"night", "post"} : BackupInto(w) \/ PruneBackups(w)
    BY <1>4, BackupIntoSafe, PruneSafe
<1>5. CASE \E w \in WriterNames : WriterStep(w)
    BY <1>5, WriterFailsSafe, VacuumSafe, SyncTempSafe, RenameSafe, SyncDirSafe DEF WriterStep
<1>6. CASE RestoreFrom
    BY <1>6, RestoreLocksSafe, GateSafe, StageSafe, StagedSafe, ReplacedReadSafe, CopySafe, CopyWALSafe, CopySyncSafe,
       PreserveSafe, SidecarsSafe, InstallSafe, RestoredSafe DEF RestoreFrom
<1>7. CASE Writeback \/ Killed \/ PowerLoss \/ HourPasses \/ SwapSource \/ Decays
    BY <1>7, WritebackSafe, KilledSafe, PowerLossSafe, HourSafe, SwapSafe, DecaysSafe
<1>8. CASE UNCHANGED dbVars
    <2>1. UNCHANGED <<dbDir, dbDisk, source, dbLock, server, restore, writer, past>>
        BY <1>8 DEF dbVars
    <2>2. FilesInv' /\ TempsInv' /\ Live' = Live
        BY <2>1, AllStill DEF DbInv
    <2>3. MigrationCovered' /\ RestoreCovered'
        BY <2>1, <2>2, CoversStill DEF DbInv, Carries
    <2> QED
        BY <2>1, <2>2, <2>3 DEF DbInv, ControlInv, DbTypes, OneProcess, WriterOwned
<1> QED
    BY <1>1, <1>2, <1>3, <1>4, <1>5, <1>6, <1>7, <1>8 DEF DbNext

LEMMA DbInvSafe == DbInv => DbSafe /\ BackupsKept
<1> SUFFICES ASSUME DbInv PROVE DbSafe /\ BackupsKept
    OBVIOUS
<1>1. DirShape(dbDir) /\ DirShape(dbDisk) /\ Whole(Content(dbDir)) /\ Whole(Content(dbDisk))
    BY ContentIs DEF DbInv, FilesInv
<1>2. DbTypeOK /\ OneProcess
    BY DEF DbInv, ControlInv, DbTypes, DbTypeOK, TempsInv, OneTemp
<1>3. LiveWhole
    BY <1>1 DEF LiveWhole, Live, Whole, Images
<1>4. InstalledChecked
    BY <1>1, DatabaseAssumption DEF InstalledChecked, DirShape, Whole, Images
<1>5. BackupsWhole
    BY <1>1 DEF BackupsWhole, DirShape, BakShape, Whole, Images
<1>6. ReplacedKept
    <2>1. \A i \in past.migrated : \E b \in dbDir.baks : b.family = "pre" /\ b.img = i
        BY DEF DbInv, FilesInv, Kept, InBoth, Holds, PlainPre, Content
    <2>2. \A i \in past.replaced : \E b \in dbDir.baks : b.family = "replaced" /\ Content([main |-> b.img, wal |-> b.wal]) = i
        BY DEF DbInv, FilesInv, Kept, InBoth, Holds
    <2> QED
        BY <2>1, <2>2 DEF ReplacedKept
<1>7. ReportedKept
    BY DEF DbInv, FilesInv, Reported, ReportedIn, ReportedKept
<1> QED
    BY <1>2, <1>3, <1>4, <1>5, <1>6, <1>7 DEF DbSafe, BackupsKept

LEMMA DbInvariant == DbSpec => []DbInv
BY DbInitInv, DbStepInv, PTL DEF DbSpec

(* The live database is whole, has one user at a time and never holds      *)
(* bytes that did not pass the gates, at every step of a migration or a    *)
(* restore and after any kill or power loss (Open, RestoreFrom).           *)
THEOREM DatabaseStaysWhole == DbSpec => []DbSafe
BY DbInvariant, DbInvSafe, PTL

(* Every backup is whole; what a migration or a restore replaced stays     *)
(* readable from one of its own; a reported one goes only when Keep newer  *)
(* ones are on disk (BackupInto, preserveLiveDatabase, PruneBackups).      *)
THEOREM BackupsAreKept == DbSpec => []BackupsKept
BY DbInvariant, DbInvSafe, PTL
================================================================================
