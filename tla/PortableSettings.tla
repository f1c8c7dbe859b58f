---------------------------- MODULE PortableSettings ----------------------------
(***************************************************************************)
(* The operator's configuration: the settings rows, the shared extraction  *)
(* passwords, the bandwidth grid, categories, and the portable document of *)
(* GET /settings/export and POST /settings/import                          *)
(* (internal/api/settings*.go and categories.go over                       *)
(* internal/store/settings.go).                                            *)
(*                                                                         *)
(* The database has one connection (databaseConnectionLimit): a statement  *)
(* outside a transaction, or a whole transaction, excludes every other     *)
(* one.  An export is seven reads with anything in between; an import is   *)
(* one transaction whose members are steps.                                *)
(*                                                                         *)
(* The host's file system is a constant: which spellings lie in a          *)
(* configured data root, and what each path resolves to.  An int64 is      *)
(* "small", "odd" (too wide for a float64, which rounds it to "even") or   *)
(* "largest" (which a float64 rounds to 2^63).  A grid of 168 cells is one *)
(* value; the schema of a request refuses any other length before a        *)
(* handler runs.  An indexer's definition_id is NoDef (null), "" or a      *)
(* name.                                                                   *)
(***************************************************************************)
EXTENDS Naturals, Sequences, FiniteSets, TLC
LOCAL INSTANCE SequencesExt

CONSTANTS
    CategoryNames, Passwords,
    FolderPaths, SavePaths,  \* the paths requests carry
    SpelledInside,         \* the paths a configured root is a prefix of
    Resolves,              \* what following the links of a path leads to, or
                           \* PathRejected when that is in no resolved root
    Grids,                 \* the grids PUT /settings/schedule may carry
    MaxExtractPasswords,   \* 16 in the code
    ForeignDocs,           \* documents of other hosts, or edited by hand, by name
    SettingsBudgets        \* bounds of a behaviour: writes of the operator and
                           \* the extractor and their kinds, imports begun,
                           \* failed statements and process deaths

ASSUME SettingsAssumption ==
    /\ MaxExtractPasswords \in Nat \ {0}
    /\ FolderPaths \cup SavePaths \cup SpelledInside \subseteq DOMAIN Resolves
    /\ "" \in DOMAIN Resolves \ (FolderPaths \cup SavePaths \cup SpelledInside)
    /\ \A b \in SettingsBudgets : b.edits \in Nat /\ b.imports \in Nat /\ b.faults \in Nat

NoDef == "no definition"
NoName == "no category"
NoPath == "no path"
NoDoc == [version |-> 0]
PathRejected == "path rejected"
exportDocumentVersion == 1
Keys == {"schedule_enabled", "default_destination", "download_rate_limit"}
Collections ==
    <<"settings", "categories", "indexers", "feeds", "rules", "watch_folders", "schedule">>

VARIABLES
    tables,      \* the committed rows
    export,      \* the export handler: its next read and the document so far
    saved,       \* the document the operator keeps, and whether it was taken
                 \* with no write in between
    txn,         \* the import that holds the connection
    landed,      \* the import that answered last, until the next write
    pairs,       \* every (enabled, cells) pair ever committed
    remembered,  \* passwords remembered since the list was last replaced
    psLeft         \* bounds

psVars == <<tables, export, saved, txn, landed, pairs, remembered, psLeft>>

EmptyTable == [x \in {} |-> 0]
NoCount == [created |-> 0, updated |-> 0, skipped |-> 0, rejected |-> 0]
NoTxn == [todo |-> <<>>, doc |-> "", dry |-> TRUE, mode |-> "skip", work |-> EmptyTable, report |-> EmptyTable]
NoExport == [at |-> 0, doc |-> NoDoc, quiet |-> TRUE]

Enabled(t) == "schedule_enabled" \in DOMAIN t.settings /\ t.settings["schedule_enabled"]
Pair(t) == <<Enabled(t), t.cells>>

(* The rows after the first migration: no settings row of these keys and   *)
(* the grid all "default".                                                 *)
EmptyTables ==
    [settings |-> EmptyTable, passwords |-> <<>>, categories |-> EmptyTable, indexers |-> <<>>,
     feeds |-> EmptyTable, rules |-> EmptyTable, folders |-> EmptyTable, cells |-> "default"]

SettingsInit ==
    /\ tables = EmptyTables
    /\ export = NoExport
    /\ saved = NoExport
    /\ txn = NoTxn
    /\ landed = NoTxn
    /\ pairs = {Pair(EmptyTables)}
    /\ remembered = <<>>
    /\ psLeft \in SettingsBudgets

Free == txn.doc = ""
Document(d) == IF d = "saved" THEN saved.doc ELSE ForeignDocs[d]

(* One committed write outside an import.                                  *)
Write(kind, t) ==
    /\ Free
    /\ psLeft.edits > 0 /\ kind \in psLeft.kinds
    /\ psLeft' = [psLeft EXCEPT !.edits = @ - 1]
    /\ tables' = t
    /\ export' = [export EXCEPT !.quiet = @ /\ t = tables]
    /\ pairs' = pairs \cup {Pair(t)}
    /\ landed' = NoTxn
    /\ UNCHANGED <<saved, txn>>

--------------------------------------------------------------------------------
(* Settings, passwords and the grid.                                       *)

(* destinationInRoots compares spellings.                                  *)
destinationInRoots(p) == p \in SpelledInside

(* ResolveDestination follows the links of a path and jails the result; no *)
(* path at all stands for the first root, as it is configured.             *)
ResolveDestination(p) == Resolves[p]

(* canonicalSetting: a member of a PATCH is refused or stored as it is.    *)
canonicalSetting(k, v) ==
    \/ k = "schedule_enabled" /\ v \in BOOLEAN
    \/ k = "default_destination" /\ destinationInRoots(v)
    \/ k = "download_rate_limit" /\ v \in {"small", "odd", "largest"}

(* PutSettings writes every member in one transaction or refuses the whole *)
(* patch.                                                                  *)
PatchSettings(patch) ==
    /\ \A k \in DOMAIN patch : canonicalSetting(k, patch[k])
    /\ Write("settings", [tables EXCEPT !.settings = patch @@ @])
    /\ UNCHANGED remembered

(* The extract_passwords member of a PATCH: a list of any length replaces  *)
(* the stored one, the rendered placeholder is skipped.                    *)
Redacted(list) == list
PatchPasswords(new) ==
    /\ Write("passwords", [tables EXCEPT !.passwords = IF new = "__redacted__" THEN Redacted(@) ELSE new])
    /\ remembered' = IF new = "__redacted__" THEN remembered ELSE <<>>

(* AppendExtractPassword: absent only, the oldest dropped at the cap.      *)
Capped(list) ==
    IF Len(list) > MaxExtractPasswords
    THEN SubSeq(list, Len(list) - MaxExtractPasswords + 1, Len(list))
    ELSE list
AppendExtractPassword(pw) ==
    /\ pw \notin {tables.passwords[i] : i \in 1 .. Len(tables.passwords)}
    /\ Write("passwords", [tables EXCEPT !.passwords = Capped(Append(@, pw))])
    /\ remembered' = Append(remembered, pw)

(* ReplaceSchedule: the flag and the cells in one transaction.             *)
PutSchedule(enabled, cells) ==
    /\ Write("schedule", [tables EXCEPT !.settings = ("schedule_enabled" :> enabled) @@ @,
                            !.cells = cells])
    /\ UNCHANGED remembered

--------------------------------------------------------------------------------
(* Categories and the watch folders that name them.  A folder row holds    *)
(* the category's id: a rename follows it, ON DELETE SET NULL clears it.   *)

Refer(folders, old, new) ==
    [p \in DOMAIN folders |-> IF folders[p] = old THEN new ELSE folders[p]]
WithoutRow(f, k) == [x \in DOMAIN f \ {k} |-> f[x]]

CreateCategory(name, path) ==
    /\ name \notin DOMAIN tables.categories
    /\ ResolveDestination(path) # PathRejected
    /\ Write("categories", [tables EXCEPT !.categories = (name :> ResolveDestination(path)) @@ @])
    /\ UNCHANGED remembered

UpdateCategory(name, new, path) ==
    /\ name \in DOMAIN tables.categories
    /\ new = name \/ new \notin DOMAIN tables.categories
    /\ path # NoPath => ResolveDestination(path) # PathRejected
    /\ LET stored == IF path = NoPath THEN tables.categories[name] ELSE ResolveDestination(path)
       IN  Write("categories", [tables EXCEPT
             !.categories = (new :> stored) @@ WithoutRow(@, name),
             !.folders = Refer(@, name, new)])
    /\ UNCHANGED remembered

DeleteCategory(name) ==
    /\ name \in DOMAIN tables.categories
    /\ Write("categories", [tables EXCEPT !.categories = WithoutRow(@, name),
                            !.folders = Refer(@, name, NoName)])
    /\ UNCHANGED remembered

SaveFolder(path, category) ==
    /\ category \in DOMAIN tables.categories \cup {NoName}
    /\ ResolveDestination(path) # PathRejected
    /\ Write("categories", [tables EXCEPT !.folders = (ResolveDestination(path) :> category) @@ @])
    /\ UNCHANGED remembered

OperatorWrites ==
    \/ \E p \in DOMAIN Resolves : PatchSettings("default_destination" :> p)
    \/ \E n \in {"small", "odd", "largest"} : PatchSettings("download_rate_limit" :> n)
    \/ \E b \in BOOLEAN, p \in DOMAIN Resolves :
         PatchSettings(("schedule_enabled" :> b) @@ ("default_destination" :> p))
    \/ PatchPasswords("__redacted__") \/ PatchPasswords(<<>>)
    \/ \E pw, last \in Passwords : PatchPasswords(<<pw, last>>)
    \/ \E pw \in Passwords : AppendExtractPassword(pw)
    \/ \E b \in BOOLEAN, g \in Grids : PutSchedule(b, g)
    \/ \E n \in CategoryNames : DeleteCategory(n) \/ \E p \in SavePaths : CreateCategory(n, p)
    \/ \E n, m \in CategoryNames, p \in SavePaths \cup {NoPath} : UpdateCategory(n, m, p)
    \/ \E p \in FolderPaths, c \in CategoryNames \cup {NoName} : SaveFolder(p, c)

--------------------------------------------------------------------------------
(* Export: one query per collection.  Secrets are never selected.          *)

Pairs(f) == SetToSeq({<<k, f[k]>> : k \in DOMAIN f})

(* ScheduleSnapshot reads the cells and the flag in one transaction.       *)
(* Mutant: the flag is the one the settings read saw.                      *)
ScheduleTorn(t, doc) ==
    <<"schedule_enabled" \in DOMAIN doc.settings /\ doc.settings["schedule_enabled"], t.cells>>
ScheduleSnapshot(t, doc) == Pair(t)

(* A stored number passes through any, as a float64.                       *)
Float64(n) == IF n = "odd" THEN "even" ELSE IF n = "largest" THEN "2^63" ELSE n
ReadSettings(settings) ==
    [k \in DOMAIN settings |->
        IF k = "download_rate_limit" THEN Float64(settings[k]) ELSE settings[k]]

ReadCollection(name, t, doc) ==
    IF name = "settings" THEN ReadSettings(t.settings)
    ELSE IF name = "indexers"
         THEN [i \in 1 .. Len(t.indexers) |-> [ok |-> TRUE] @@ t.indexers[i]]
    ELSE IF name = "schedule" THEN ScheduleSnapshot(t, doc)
    ELSE IF name = "watch_folders" THEN Pairs(t.folders)
    ELSE Pairs(t[name])

ExportBegins ==
    /\ Free
    /\ export.at = 0 /\ saved.doc = NoDoc
    /\ landed' = NoTxn
    /\ export' = [at |-> 1, doc |-> [version |-> exportDocumentVersion], quiet |-> TRUE]
    /\ UNCHANGED <<tables, saved, txn, pairs, remembered, psLeft>>

buildExport ==
    /\ Free
    /\ export.at > 0
    /\ LET name == Collections[export.at]
           doc == (name :> ReadCollection(name, tables, export.doc)) @@ export.doc
       IN  IF export.at < Len(Collections)
           THEN /\ export' = [export EXCEPT !.at = @ + 1, !.doc = doc]
                /\ saved' = saved
           ELSE /\ export' = NoExport
                /\ saved' = [at |-> 0, doc |-> doc, quiet |-> export.quiet]
    /\ UNCHANGED <<tables, txn, landed, pairs, remembered, psLeft>>

--------------------------------------------------------------------------------
(* Import.  One member is one step; its accumulator is the transaction's   *)
(* rows and the counts of the member's collection.                         *)

Count(acc, field) == [acc EXCEPT !.n[field] = @ + 1]
reject(acc) == Count(acc, "rejected")

(* countRow with the write of the caller's branch; a write the schema      *)
(* refuses (rejectRowError) moves the tentative count to rejected.         *)
rejectRowError(acc, exists) == reject(acc)
(* Mutant: a matched row is counted and left as it is.                     *)
countRowKeeps(acc, exists, mode, violates, written) ==
    IF exists THEN Count(acc, IF mode = "skip" THEN "skipped" ELSE "updated")
    ELSE IF violates THEN rejectRowError(acc, exists)
    ELSE [Count(acc, "created") EXCEPT !.t = written]
countRow(acc, exists, mode, violates, written) ==
    IF exists /\ mode = "skip" THEN Count(acc, "skipped")
    ELSE IF violates THEN rejectRowError(acc, exists)
    ELSE [Count(acc, IF exists THEN "updated" ELSE "created") EXCEPT !.t = written]

(* Settings and the schedule are scalar state: they always write.  The     *)
(* bound of importJSONInt refuses 2^63.                                    *)
importJSONInt(n) == n # "2^63"
canonicalSettingValue(k, v) ==
    \/ k = "schedule_enabled" /\ v \in BOOLEAN
    \/ k = "default_destination" /\ ResolveDestination(v) # PathRejected
    \/ k = "download_rate_limit" /\ importJSONInt(v)
encodedSetting(k, v) == IF k = "default_destination" THEN ResolveDestination(v) ELSE v
importSettings(a, row, mode) ==
    IF ~ canonicalSettingValue(row[1], row[2]) THEN reject(a)
    ELSE countRow(a, row[1] \in DOMAIN a.t.settings, "overwrite", FALSE,
                  [a.t EXCEPT !.settings = (row[1] :> encodedSetting(row[1], row[2])) @@ @])

importCategories(a, row, mode) ==
    IF row[1] = "" \/ ResolveDestination(row[2]) = PathRejected THEN reject(a)
    ELSE countRow(a, row[1] \in DOMAIN a.t.categories, mode, FALSE,
                  [a.t EXCEPT !.categories = (row[1] :> ResolveDestination(row[2])) @@ @])

(* An indexer is matched by definition_id when it carries one, else by     *)
(* name; the partial unique index also covers the empty definition_id.     *)
Matches(t, row) ==
    {i \in 1 .. Len(t.indexers) :
        IF row.def \notin {NoDef, ""} THEN t.indexers[i].def = row.def
        ELSE t.indexers[i].name = row.name}
importIndexers(a, row, mode) ==
    LET hit == Matches(a.t, row)
        at == IF hit = {} THEN Len(a.t.indexers) + 1
              ELSE CHOOSE i \in hit : \A j \in hit : i <= j
        taken == \E i \in 1 .. Len(a.t.indexers) :
                     i # at /\ row.def # NoDef /\ a.t.indexers[i].def = row.def
        new == [name |-> row.name, def |-> row.def]
    IN  IF ~ row.ok THEN reject(a)
        ELSE countRow(a, hit # {}, mode, taken,
                      [a.t EXCEPT !.indexers = IF hit = {} THEN Append(@, new)
                                               ELSE [@ EXCEPT ![at] = new]])

(* Feeds by url, rules by name; "bad" stands for a member a check refuses. *)
importFeeds(a, row, mode) ==
    IF row[2] = "bad" THEN reject(a)
    ELSE countRow(a, row[1] \in DOMAIN a.t.feeds, mode, FALSE,
                  [a.t EXCEPT !.feeds = (row[1] :> row[2]) @@ @])
importRules(a, row, mode) ==
    IF row[2] = "bad" THEN reject(a)
    ELSE countRow(a, row[1] \in DOMAIN a.t.rules, mode, FALSE,
                  [a.t EXCEPT !.rules = (row[1] :> row[2]) @@ @])

(* A folder's category is looked up among the rows of this transaction.    *)
CategoryKnown(t, name) == name \in DOMAIN t.categories
importWatchFolders(a, row, mode) ==
    LET path == ResolveDestination(row[1]) IN
    IF path = PathRejected \/ (row[2] # NoName /\ ~ CategoryKnown(a.t, row[2])) THEN reject(a)
    ELSE countRow(a, path \in DOMAIN a.t.folders, mode, FALSE,
                  [a.t EXCEPT !.folders = (path :> row[2]) @@ @])

importSchedule(a, row, mode) ==
    [Count(a, "updated") EXCEPT
        !.t.settings = ("schedule_enabled" :> row[1]) @@ @,
        !.t.cells = row[2]]

MembersOf(doc, name) ==
    CASE name = "settings" -> Pairs(doc.settings)
      [] name = "schedule" -> <<doc.schedule>>
      [] OTHER -> doc[name]
Tagged(doc, name) == LET rows == MembersOf(doc, name) IN [i \in 1 .. Len(rows) |-> <<name, rows[i]>>]

(* applyImport walks the collections in dependency order.                  *)
applyImport(doc) ==
    Tagged(doc, "settings") \o Tagged(doc, "categories") \o Tagged(doc, "indexers")
    \o Tagged(doc, "feeds") \o Tagged(doc, "rules") \o Tagged(doc, "watch_folders")
    \o Tagged(doc, "schedule")

importRow(name, a, row, mode) ==
    CASE name = "settings" -> importSettings(a, row, mode)
      [] name = "categories" -> importCategories(a, row, mode)
      [] name = "indexers" -> importIndexers(a, row, mode)
      [] name = "feeds" -> importFeeds(a, row, mode)
      [] name = "rules" -> importRules(a, row, mode)
      [] name = "watch_folders" -> importWatchFolders(a, row, mode)
      [] name = "schedule" -> importSchedule(a, row, mode)

(* Import: a newer document is refused before the transaction begins.      *)
ImportBegins(doc, dry, mode) ==
    /\ Free
    /\ Document(doc).version \in 1 .. exportDocumentVersion
    /\ psLeft.imports > 0
    /\ psLeft' = [psLeft EXCEPT !.imports = @ - 1]
    /\ txn' = [todo |-> applyImport(Document(doc)), doc |-> doc, dry |-> dry, mode |-> mode,
               work |-> tables,
               report |-> [c \in ToSet(Collections) |-> NoCount]]
    /\ landed' = NoTxn
    /\ UNCHANGED <<tables, export, saved, pairs, remembered>>

Importing == ~ Free /\ txn.todo # <<>>
Member == Head(txn.todo)

(* The statements of a member run on the transaction's own handle.         *)
Connection == ~ Free
ImportMember ==
    /\ Connection
    /\ Importing
    /\ \E m \in {Member} :
       \E a \in {importRow(m[1], [t |-> txn.work, n |-> txn.report[m[1]]], m[2], txn.mode)} :
         txn' = [txn EXCEPT !.todo = Tail(@), !.work = a.t, !.report[m[1]] = a.n]
    /\ UNCHANGED <<tables, export, saved, landed, pairs, remembered, psLeft>>

(* A failed statement or commit: the deferred Rollback.                    *)
ImportAborts ==
    /\ ~ Free
    /\ psLeft.faults > 0
    /\ psLeft' = [psLeft EXCEPT !.faults = @ - 1]
    /\ txn' = NoTxn
    /\ UNCHANGED <<tables, export, saved, landed, pairs, remembered>>

(* The end of Import: commit, or the rollback of a dry run.                *)
Commits(t) == IF t.dry THEN tables ELSE t.work
ImportEnds ==
    /\ ~ Free /\ ~ Importing
    /\ tables' = Commits(txn)
    /\ landed' = [txn EXCEPT !.work = tables]
    /\ export' = [export EXCEPT !.quiet = @ /\ Commits(txn) = tables]
    /\ pairs' = pairs \cup {Pair(Commits(txn))}
    /\ txn' = NoTxn
    /\ UNCHANGED <<saved, remembered, psLeft>>

(* The process dies: the write-ahead log forgets the open transaction and  *)
(* the client its export.                                                  *)
SettingsCrash ==
    /\ psLeft.faults > 0
    /\ psLeft' = [psLeft EXCEPT !.faults = @ - 1]
    /\ txn' = NoTxn
    /\ export' = NoExport
    /\ UNCHANGED <<tables, saved, landed, pairs, remembered>>

SettingsNext ==
    \/ OperatorWrites
    \/ ExportBegins \/ buildExport
    \/ \E dry \in BOOLEAN, mode \in {"skip", "overwrite"} :
         \E doc \in DOMAIN ForeignDocs \cup {"saved"} : ImportBegins(doc, dry, mode)
    \/ ImportMember \/ ImportAborts \/ ImportEnds
    \/ SettingsCrash

(* The handler goroutine of an import runs on.                             *)
SettingsFairness == WF_psVars(ImportMember \/ ImportEnds)

SettingsSpec == SettingsInit /\ [][SettingsNext]_psVars /\ SettingsFairness

--------------------------------------------------------------------------------
ImportLanded == landed.doc # ""
LandedQuiet == ImportLanded /\ landed.doc = "saved" /\ saved.quiet
RowCounts(t) == [settings |-> Cardinality(DOMAIN t.settings),
            categories |-> Cardinality(DOMAIN t.categories),
            indexers |-> Len(t.indexers),
            feeds |-> Cardinality(DOMAIN t.feeds), rules |-> Cardinality(DOMAIN t.rules),
            watch_folders |-> Cardinality(DOMAIN t.folders)]

(* The tables keep their shape: the paths of categories and folders are    *)
(* resolved ones inside the roots, a default_destination lies inside them  *)
(* by its spelling or once resolved, no folder names a category that is    *)
(* gone, and no two indexers have one definition.                          *)
SettingsTypeOK ==
    /\ DOMAIN tables.settings \subseteq Keys
    /\ "default_destination" \in DOMAIN tables.settings =>
         \/ destinationInRoots(tables.settings["default_destination"])
         \/ Resolves[tables.settings["default_destination"]] = tables.settings["default_destination"]
    /\ \A n \in DOMAIN tables.categories : Resolves[tables.categories[n]] = tables.categories[n]
    /\ \A p \in DOMAIN tables.folders :
         Resolves[p] = p /\ tables.folders[p] \in DOMAIN tables.categories \cup {NoName}
    /\ \A i, j \in 1 .. Len(tables.indexers) :
         i # j /\ tables.indexers[i].def # NoDef => tables.indexers[i].def # tables.indexers[j].def
    /\ ToSet(tables.passwords) \subseteq Passwords
    /\ tables.cells \in Grids \cup {"default"}
    /\ export.at \in 0 .. Len(Collections)

(* What an import reports is what it did: every member of the document is  *)
(* counted once, a committed import adds exactly the rows it reports       *)
(* created (schedule_enabled may be the schedule's), and a dry run leaves  *)
(* the tables alone.                                                       *)
ReportHonest ==
    ImportLanded =>
        /\ \A name \in DOMAIN landed.report : LET n == landed.report[name] IN
             n.created + n.updated + n.skipped + n.rejected = Len(MembersOf(Document(landed.doc), name))
        /\ landed.dry => tables = landed.work
        /\ ~ landed.dry => \A name \in DOMAIN RowCounts(tables) \ {"settings"} :
             RowCounts(tables)[name]
                 = RowCounts(landed.work)[name] + landed.report[name].created

(* A document exported while nobody wrote imports into any later state of  *)
(* the host without a rejected member, apart from a default_destination    *)
(* that only its spelling keeps inside the roots, a rate limit that a      *)
(* float64 rounds past int64, and a hand-made empty definition_id that     *)
(* meanwhile belongs to another indexer.                                   *)
Unimportable(settings) ==
    {k \in DOMAIN settings :
        \/ k = "default_destination" /\ Resolves[settings[k]] = PathRejected
        \/ k = "download_rate_limit" /\ settings[k] = "2^63"}
ExportImports ==
    LandedQuiet =>
        \A name \in DOMAIN landed.report \ {"indexers"} :
            landed.report[name].rejected =
                IF name = "settings" THEN Cardinality(Unimportable(saved.doc.settings)) ELSE 0

(* Importing such a document with overwrite restores what it recorded: its *)
(* categories, its folders with their categories, its settings but the     *)
(* refused ones, with the place its default_destination leads to in the    *)
(* place of its spelling, its grid and flag, and its indexers when their   *)
(* names differ.                                                           *)
Restored(k, recorded, now) ==
    now = IF k = "default_destination" THEN Resolves[recorded] ELSE recorded
ImportRestores ==
    LandedQuiet /\ ~ landed.dry /\ landed.mode = "overwrite" =>
        LET t == tables   d == saved.doc IN
        /\ \A row \in ToSet(d.categories) :
             row[1] \in DOMAIN t.categories /\ t.categories[row[1]] = row[2]
        /\ \A row \in ToSet(d.watch_folders) :
             row[1] \in DOMAIN t.folders /\ t.folders[row[1]] = row[2]
        /\ \A k \in DOMAIN d.settings \ ({"schedule_enabled"} \cup Unimportable(d.settings)) :
             k \in DOMAIN t.settings /\ Restored(k, d.settings[k], t.settings[k])
        /\ Pair(t) = d.schedule
        /\ (\A i, j \in 1 .. Len(d.indexers) :
               i # j => d.indexers[i].name # d.indexers[j].name) /\ landed.report["indexers"].rejected = 0
             => \A i \in 1 .. Len(d.indexers) : \E k \in 1 .. Len(t.indexers) :
                    t.indexers[k] = [name |-> d.indexers[i].name, def |-> d.indexers[i].def]

(* An exported grid and its flag were committed together, whatever was     *)
(* written while the export ran: ScheduleSnapshot is one transaction.      *)
SchedulePairWhole ==
    saved.doc # NoDoc => saved.doc.schedule \in pairs

(* A password that opened an archive stays in the shared list until the    *)
(* operator replaces the list or MaxExtractPasswords later ones push it    *)
(* out: neither a GET/PATCH round trip nor an import erases it.            *)
RememberedKept ==
    ToSet(Capped(remembered)) \subseteq ToSet(tables.passwords)

(* An import gives the one connection back: no statement of it waits for   *)
(* the connection it holds.                                                *)
ConnectionReturns == (~ Free) ~> Free

(* An import's report is what it did, a quiet export imports without       *)
(* rejections, an exported schedule was committed as a pair, and           *)
(* remembered passwords survive round trips (exportSettings, applyImport,  *)
(* ScheduleSnapshot).                                                      *)
SettingsSafe ==
    /\ SettingsTypeOK
    /\ ReportHonest
    /\ ExportImports
    /\ SchedulePairWhole
    /\ RememberedKept
================================================================================
