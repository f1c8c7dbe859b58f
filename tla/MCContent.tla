-------------------------------- MODULE MCContent --------------------------------
(***************************************************************************)
(* The TLC instances of the ways work enters and moves through the         *)
(* program: feeds and rules, submissions and watch folders, the            *)
(* qBittorrent cache, the job queue with the post-processing chain, and    *)
(* the portable settings.                                                  *)
(***************************************************************************)
EXTENDS MCPart, QbtCache, FeedPoll, RuleGrabs, WatchFolders, PortableSettings, WorkerPool

(* The feed's document is republished once, with one item dropped and one  *)
(* added.                                                                  *)
MCDocs == <<{1, 2}, {2, 3}>>

(* Two releases of one episode, one of them a repack; one info hash twice, *)
(* a tie; an item that names neither.                                      *)
Item(e, t, h, s, d) == [episode |-> e, tags |-> t, hash |-> h, score |-> s, priority |-> 0, published |-> d]
MCCatalogs == {
    [i1 |-> Item("1x5", {}, NoValue, 1, 1), i2 |-> Item("1x5", {"REPACK", "PROPER"}, NoValue, 2, 2)],
    [i1 |-> Item(NoValue, {}, "h1", 1, 1), i2 |-> Item(NoValue, {}, "h1", 1, 1)],
    [i1 |-> Item(NoValue, {}, NoValue, 2, 1), i2 |-> Item("1x5", {"REPACK"}, "h1", 1, 2)]}

(* "h" is a hybrid torrent, with a v1 and a v2 hash.                       *)
Magnet(t, f) == [kind |-> "magnet", torrent |-> t, hashes |-> {<<t, f>>}, multi |-> FALSE]
Upload(t) == [kind |-> "upload", torrent |-> t, hashes |-> Hashes(t), multi |-> TRUE]
Link(k) == [kind |-> k, torrent |-> NoTorrent, hashes |-> {}, multi |-> FALSE]
Post(blobs, uris, select) ==
    [blobs |-> blobs, uris |-> uris, results |-> FALSE, select |-> select, paused |-> FALSE]
MCSubmissions == {
    Post(<<Upload("h")>>, <<Magnet("h", "v1"), Magnet("p", "v1")>>, TRUE),
    Post(<<>>, <<Link("remote"), Magnet("h", "v2")>>, TRUE),
    Post(<<>>, <<Magnet("h", "v1"), Magnet("h", "v2")>>, FALSE),
    [Post(<<>>, <<Link("refused"), Magnet("h", "v1")>>, FALSE) EXCEPT !.results = TRUE],
    [Post(<<Link("metalink")>>, <<>>, FALSE) EXCEPT !.paused = TRUE]}
IntakeBound(p, d, f, x, c, v) ==
    [posts |-> p, drops |-> d, folders |-> f, faults |-> x, crashes |-> c, removals |-> v]
MCIntakeBudgets ==
    {IntakeBound(2, 0, 0, 0, 0, 0), IntakeBound(1, 1, 0, 1, 0, 0), IntakeBound(0, 2, 1, 0, 0, 1),
     IntakeBound(0, 1, 2, 0, 1, 0), IntakeBound(0, 2, 0, 1, 1, 0)}

(* A host whose first root is a link to /disk: /data/a is a directory      *)
(* there, /vol/in one of the second root, with a link to it and one out.   *)
MCSpelledInside == {"/data", "/data/a", "/vol/in", "/vol/alias", "/vol/escape", "/vol/w1"}
MCResolves ==
    ("" :> "/data") @@ ("/data" :> "/disk") @@ ("/disk" :> "/disk")
    @@ ("/data/a" :> "/disk/a") @@ ("/disk/a" :> "/disk/a")
    @@ ("/vol/in" :> "/vol/in") @@ ("/vol/alias" :> "/vol/in")
    @@ ("/vol/escape" :> PathRejected) @@ ("/etc" :> PathRejected)
    @@ ("/vol/w1" :> "/vol/w1") @@ ("/drop" :> "/vol/w1")

(* A document of another host, with members this one refuses, and one      *)
(* edited by hand.                                                         *)
MCIndexer(n, d, ok) == [name |-> n, def |-> d, ok |-> ok]
MCForeignDocs == [
    other |-> [version |-> 1,
        settings |-> ("default_destination" :> "/etc") @@ ("schedule_enabled" :> TRUE),
        categories |-> <<<<"k1", "/vol/alias">>, <<"k2", "/vol/escape">>>>,
        indexers |-> <<MCIndexer("n1", "d", TRUE), MCIndexer("n2", "", TRUE), MCIndexer("n3", "", TRUE)>>,
        feeds |-> <<<<"u1", "a">>, <<"u2", "bad">>>>, rules |-> <<<<"r1", "a">>, <<"r1", "b">>>>,
        watch_folders |-> <<<<"/vol/w1", "k2">>, <<"/etc", "k1">>, <<"/drop", "k1">>>>, schedule |-> <<FALSE, "g1">>],
    edited |-> [version |-> 1, categories |-> <<>>,
        settings |-> ("default_destination" :> "") @@ ("download_rate_limit" :> "small"),
        indexers |-> <<MCIndexer("n1", NoDef, TRUE), MCIndexer("n4", "d", TRUE), MCIndexer("n5", "x", FALSE)>>,
        feeds |-> <<<<"u1", "b">>>>, rules |-> <<<<"r2", "bad">>>>,
        watch_folders |-> <<>>, schedule |-> <<TRUE, "g1">>]]
SettingsBound(e, k, i, f) == [edits |-> e, kinds |-> k, imports |-> i, faults |-> f]
MCSettingsBudgets ==
    {SettingsBound(3, {"categories"}, 1, 0), SettingsBound(1, {"schedule", "settings"}, 1, 0),
     SettingsBound(3, {"passwords"}, 0, 0), SettingsBound(1, {"categories"}, 2, 0),
     SettingsBound(0, {}, 1, 1)}

(* No path; a move by copy, onto a name taken by something else and by     *)
(* something alike, and with the row removed at the end; an archive that   *)
(* is extracted in place, beside a directory of its own name (else and     *)
(* alike), and extracted and then moved, with and without the row removed  *)
(* at the end; a move under an engine that reports the transfer.           *)
(* finishes bounds how often the download may complete.                    *)
Plain == [path |-> "none", archive |-> FALSE, autoExtract |-> TRUE, autoRemove |-> FALSE,
          sameFs |-> TRUE, taken |-> "free", sibling |-> "free", hook |-> TRUE,
          reported |-> FALSE, finishes |-> 2]
Outside == [Plain EXCEPT !.path = "src", !.sameFs = FALSE]
Archive == [Outside EXCEPT !.archive = TRUE, !.sameFs = TRUE, !.finishes = 1]
MCSetups ==
    {Plain, Outside, [Outside EXCEPT !.taken = "other", !.sameFs = TRUE],
     [Outside EXCEPT !.taken = "alike", !.finishes = 1],
     [Outside EXCEPT !.autoRemove = TRUE, !.hook = FALSE, !.finishes = 1],
     [Archive EXCEPT !.path = "dst"], [Archive EXCEPT !.sibling = "other"],
     [Archive EXCEPT !.sibling = "alike"],
     Archive, [Archive EXCEPT !.autoRemove = TRUE],
     [Outside EXCEPT !.reported = TRUE, !.finishes = 1]}

jobVars == <<shared, hand>>
contentVars == <<qbtVars, feedVars, grabVars, allIntakeVars, psVars, jobVars>>

ContentInit ==
    /\ part \in Parts
    /\ QbtInit /\ (part # "qbittorrent" => store = {})
    /\ FeedInit
    /\ GrabInit /\ (part # "rules" => listed = CHOOSE c \in Catalogs : TRUE)
    /\ part # "rules" => cooldown = CHOOSE c \in Cooldowns : TRUE
    /\ WatchInit /\ (part # "intake" => budget = (CHOOSE b \in IntakeBudgets : TRUE) /\ folder.delete)
    /\ SettingsInit /\ (part # "settings" => psLeft = CHOOSE b \in SettingsBudgets : TRUE)
    /\ Init /\ (part # "jobs" => \A t \in Tasks : setup[t] = CHOOSE s \in Setups : TRUE)

ContentNext ==
    \/ part = "qbittorrent" /\ QbtNext /\ UNCHANGED <<part, feedVars, grabVars, allIntakeVars, psVars, jobVars>>
    \/ part = "feed" /\ FeedNext /\ UNCHANGED <<part, qbtVars, grabVars, allIntakeVars, psVars, jobVars>>
    \/ part = "rules" /\ GrabNext /\ UNCHANGED <<part, qbtVars, feedVars, allIntakeVars, psVars, jobVars>>
    \/ part = "intake" /\ IntakeNext /\ UNCHANGED <<part, qbtVars, feedVars, grabVars, psVars, jobVars>>
    \/ part = "settings" /\ SettingsNext /\ UNCHANGED <<part, qbtVars, feedVars, grabVars, allIntakeVars, jobVars>>
    \/ part = "jobs" /\ Next /\ UNCHANGED <<part, qbtVars, feedVars, grabVars, allIntakeVars, psVars>>

ContentSpec == ContentInit /\ [][ContentNext]_<<part, contentVars>>
================================================================================
