------------------------------- MODULE MCServices -------------------------------
(***************************************************************************)
(* The TLC instances of the update hub, the accounts, the yt-dlp lane, the *)
(* searches, the indexer list and the database file.                       *)
(***************************************************************************)
EXTENDS MCPart, LiveUpdates, Accounts, YtdlpLane, SearchJobs, IndexerRows, DatabaseFile

(* The provider of the wizard reports one base URL twice and one that is   *)
(* unusable; user files claim a bundled id, fail validation and repeat an  *)
(* id of their own.                                                        *)
MCBundledIDs == <<"b1", "b0", "b2">>
MCUserDirs == {<<>>, <<"b0", NoIx, "x", "x">>}
MCProvider == <<"u1", "bad", "u1", "u2">>
MCPatch(kind, url, def, enabled, private, settings) ==
    [op |-> "patch", kind |-> kind, url |-> url, def |-> def, enabled |-> enabled, private |-> private, settings |-> settings]
MCCreate(kind, url, def, enabled, private) ==
    [op |-> "create", kind |-> kind, url |-> url, def |-> def, enabled |-> enabled, private |-> private]
MCIxRequests ==
    {MCCreate("torznab", "u9", NoIx, TRUE, FALSE), MCCreate("dlsearch", NoIx, "b1", FALSE, TRUE),
     MCPatch(Omitted, Omitted, Omitted, "true", Omitted, "reserved"), MCPatch(Omitted, Omitted, "b2", Omitted, "false", Omitted),
     MCPatch("torznab", "u9", Omitted, Omitted, "true", Omitted),
     [op |-> "file", def |-> "b2"], [op |-> "file", def |-> NoIx],
     [op |-> "delete"], [op |-> "test"], [op |-> "wizard"]}
MCIxBudgets == {[requests |-> 2, faults |-> 0, boots |-> 2], [requests |-> 2, faults |-> 1, boots |-> 1]}

DbBound(commits, snapshots, restores, faults, crashes, swaps, decays) ==
    [commits |-> commits, snapshots |-> snapshots, restores |-> restores, faults |-> faults,
     crashes |-> crashes, swaps |-> swaps, decays |-> decays]
MCDbBudgets == {DbBound(1, 2, 0, 0, 1, 0, 0), DbBound(0, 2, 0, 1, 0, 0, 0),
                DbBound(0, 0, 1, 0, 1, 1, 0), DbBound(1, 0, 1, 1, 1, 0, 1)}

serviceVars == <<hubVars, acctVars, laneVars, searchVars, ixVars, dbVars>>

ServicesInit ==
    /\ part \in Parts
    /\ HubInit /\ (part # "hub" => client = [c \in Clients |-> NewClient("web")])
    /\ AcctInit /\ LaneInit /\ SearchInit
    /\ IxInit /\ (part # "indexers" => ixLeft = CHOOSE b \in IxBudgets : TRUE)
    /\ DbInit /\ (part # "database" => dbDir.main = NoFile /\ dbLeft = CHOOSE b \in DbBudgets : TRUE)

ServicesNext ==
    \/ part = "hub" /\ HubNext /\ UNCHANGED <<part, acctVars, laneVars, searchVars, ixVars, dbVars>>
    \/ part = "accounts" /\ AcctNext /\ UNCHANGED <<part, hubVars, laneVars, searchVars, ixVars, dbVars>>
    \/ part = "lane" /\ LaneNext /\ UNCHANGED <<part, hubVars, acctVars, searchVars, ixVars, dbVars>>
    \/ part = "searches" /\ SearchNext /\ UNCHANGED <<part, hubVars, acctVars, laneVars, ixVars, dbVars>>
    \/ part = "indexers" /\ IxNext /\ UNCHANGED <<part, hubVars, acctVars, laneVars, searchVars, dbVars>>
    \/ part = "database" /\ DbNext /\ UNCHANGED <<part, hubVars, acctVars, laneVars, searchVars, ixVars>>

ServicesSpec == ServicesInit /\ [][ServicesNext]_<<part, serviceVars>>
================================================================================
