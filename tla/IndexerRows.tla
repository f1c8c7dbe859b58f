------------------------------ MODULE IndexerRows ------------------------------
(***************************************************************************)
(* The indexer list: its rows, the definition registry and the boot that   *)
(* seeds it (internal/store/indexers.go, internal/search/bundled.go), and  *)
(* the handlers of /indexers (internal/api/search.go).                     *)
(*                                                                         *)
(* Every statement of the store is one step; a handler does several with   *)
(* network requests in between and holds no lock.  settings_json is        *)
(* abstracted to its reserved key allow_private_network: "absent" in a     *)
(* document that lacks the key.  What a caller's settings map contributes  *)
(* is whether it carries that reserved key.  A caps document is the URL or *)
(* the definition it was probed from.                                      *)
(***************************************************************************)
EXTENDS Naturals, Sequences, FiniteSets, Functions

CONSTANTS
    IxHandlers,      \* requests in flight at a time
    IxRequests,      \* the requests the operator may send
    BundledIDs,      \* the sequence of bundled definition ids
    BundledValid,    \* the ids whose embedded document validates
    UserDirs,        \* contents of /config/engines: the id each file declares, in name order
    Provider,        \* the base URLs the provider enumerates, in order
    BadURLs,         \* the URLs ValidBaseURL refuses
    IxBudgets        \* bounds of a behaviour: requests, failed statements, boots

NoIx == "none"             \* a NULL url or definition_id, a file that fails validation
Omitted == "keep"             \* a PATCH field the body omits

(* An id and a base URL are never empty; a request carries the fields of   *)
(* its operation.                                                          *)
ASSUME IxAssumption ==
    /\ BundledIDs \in Seq(Range(BundledIDs))
    /\ BundledValid \subseteq Range(BundledIDs) \ {NoIx}
    /\ Provider \in Seq(Range(Provider) \ {NoIx})
    /\ \A q \in IxRequests : /\ q.op = "create" => q.private \in BOOLEAN
                             /\ q.op = "patch" => q.private \in {Omitted, "false", "true"}
    /\ \A b \in IxBudgets : b.requests \in Nat /\ b.faults \in Nat /\ b.boots \in Nat


VARIABLES
    ixRows,       \* the indexers table by id
    ixRegistry,   \* the published definitions: id |-> "bundled" or the file that declares it
    ixBoot,       \* "down", "seed" or "up"
    ixSeeds,      \* the bundled ids the seed loop has left
    ixReq,        \* handler |-> the request it serves
    ixTold,       \* what the operator decided and what overlapped (history)
    ixLeft        \* bounds

ixVars == <<ixRows, ixRegistry, ixBoot, ixSeeds, ixReq, ixTold, ixLeft>>

NoRow == [kind |-> "torznab", url |-> NoIx, def |-> NoIx, source |-> "api", enabled |-> FALSE,
          private |-> "absent", caps |-> NoIx, tested |-> "never", run |-> 0]
NoIxRequest == [op |-> "none", at |-> "idle", id |-> 0, row |-> NoRow, probe |-> "none", todo |-> <<>>,
          known |-> {}, first |-> 0, gone |-> {}, run |-> 0, patch |-> NoIx]

IxInit ==
    /\ ixRows = [i \in {} |-> NoRow]
    /\ ixRegistry = [d \in {} |-> ""]
    /\ ixBoot = "down"
    /\ ixSeeds = <<>>
    /\ ixReq = [h \in IxHandlers |-> NoIxRequest]
    /\ ixTold = [decided |-> [i \in {} |-> ""], overlapped |-> {}, rivals |-> {}, runs |-> 0,
                 touched |-> FALSE, lastId |-> 0]
    /\ ixLeft \in IxBudgets

Serving(h, op, at) == ixBoot = "up" /\ ixReq[h].op = op /\ ixReq[h].at = at
Reached(h, place) == ixBoot = "up" /\ ixReq[h].at = place
Moved(h, r) == ixReq' = [ixReq EXCEPT ![h] = r]
Ended(h) == Moved(h, NoIxRequest)
StatementFails == ixLeft.faults > 0 /\ ixLeft' = [ixLeft EXCEPT !.faults = @ - 1]

(***************************************************************************)
(* The store.                                                              *)
(***************************************************************************)
(* The unique index on definition_id; NULLs never collide.                 *)
Conflicts(id, def) == def # NoIx /\ \E i \in DOMAIN ixRows \ {id} : ixRows[i].def = def

(* A function with the value v at one more place.                          *)
Extended(f, k, v) == [i \in DOMAIN f \union {k} |-> IF i \in DOMAIN f THEN f[i] ELSE v]

Create(row) ==
    /\ ~Conflicts(0, row.def)
    /\ ixRows' = Extended(ixRows, ixTold.lastId + 1, row)

(* The history of a created row: its id, and the decision its request made *)
(* about private addresses.                                                *)
Recorded(row) ==
    ixTold' = [ixTold EXCEPT !.lastId = @ + 1,
                             !.decided = Extended(@, ixTold.lastId + 1, row.private)]

(***************************************************************************)
(* Boot: NewRegistry reads the embedded documents and the user directory   *)
(* (whatever it holds by then), then SeedIndexers creates the missing rows *)
(* one at a time, before the server listens.                               *)
(***************************************************************************)
bundledIDSet == Range(BundledIDs)
loadBundled == [d \in BundledValid |-> "bundled"]

(* readUserFile and LoadDefinition: a file that is no regular file, too    *)
(* large or invalid declares nothing.                                      *)
Declared(dir) == Range(dir) \ {NoIx}

(* readUserDir: the first file, in name order, that declares a free id     *)
(* wins; a bundled id is reserved even when its document did not validate. *)
readUserDir(dir) ==
    [d \in Declared(dir) \ bundledIDSet |->
        CHOOSE k \in DOMAIN dir : dir[k] = d /\ \A j \in 1..(k - 1) : dir[j] # d]

publishDefinitions(user) ==
    [d \in BundledValid \union DOMAIN user |-> IF d \in BundledValid THEN loadBundled[d] ELSE user[d]]

NewRegistry ==
    /\ ixBoot = "down"
    /\ ixLeft.boots > 0
    /\ ixLeft' = [ixLeft EXCEPT !.boots = @ - 1]
    /\ \E dir \in UserDirs : ixRegistry' = publishDefinitions(readUserDir(dir))
    /\ ixBoot' = "seed"
    /\ ixSeeds' = BundledIDs
    /\ ixTold' = [ixTold EXCEPT !.touched = FALSE]
    /\ UNCHANGED <<ixRows, ixReq>>

SeedRow(id) ==
    [NoRow EXCEPT !.kind = "dlsearch", !.def = id, !.source = "bundled", !.enabled = TRUE]
(* A row that is there already: the loop goes on.                          *)
AfterConflict(ids) == Tail(ids)

SeedIndexers ==
    /\ ixBoot = "seed"
    /\ ixSeeds # <<>>
    /\ LET id == Head(ixSeeds) IN
       \/ /\ id \notin DOMAIN ixRegistry
          /\ ixSeeds' = Tail(ixSeeds)
          /\ UNCHANGED <<ixRows, ixTold>>
       \/ /\ id \in DOMAIN ixRegistry
          /\ Conflicts(0, id)
          /\ ixSeeds' = AfterConflict(ixSeeds)
          /\ UNCHANGED <<ixRows, ixTold>>
       \/ /\ id \in DOMAIN ixRegistry
          /\ Create(SeedRow(id))
          /\ Recorded(SeedRow(id))
          /\ ixSeeds' = Tail(ixSeeds)
    /\ UNCHANGED <<ixRegistry, ixBoot, ixReq, ixLeft>>

BootDone ==
    /\ ixBoot = "seed"
    /\ ixSeeds = <<>>
    /\ ixBoot' = "up"
    /\ UNCHANGED <<ixRows, ixRegistry, ixSeeds, ixReq, ixTold, ixLeft>>

(* The process dies, or SeedIndexers returns an error and main exits.      *)
ProcessEnds ==
    /\ ixBoot # "down"
    /\ ixLeft.boots > 0
    /\ ixBoot' = "down"
    /\ ixRegistry' = [d \in {} |-> ""]
    /\ ixSeeds' = <<>>
    /\ ixReq' = [h \in IxHandlers |-> NoIxRequest]
    /\ UNCHANGED <<ixRows, ixTold, ixLeft>>

(***************************************************************************)
(* The handlers.                                                           *)
(***************************************************************************)
ValidBaseURL(url) == url \notin BadURLs

(* POST and PATCH: a torznab row needs a url, a dlsearch row a definition, *)
(* and a url must be absolute http or https.                               *)
Accepted(row) ==
    /\ row.kind = "torznab" => row.url # NoIx
    /\ row.kind = "dlsearch" => row.def # NoIx
    /\ ValidBaseURL(row.url)

(* indexerSettingsJSON writes the reserved key last.                       *)
indexerSettingsJSON(allow) == IF allow THEN "true" ELSE "false"

(* mergeIndexerSettings: a settings map replaces the caller's keys and     *)
(* never the reserved ones; the flag moves only if the body carries it.    *)
mergeIndexerSettings(stored, p) == IF p.private = Omitted THEN stored ELSE p.private

Begins(h, op) ==
    /\ ixBoot = "up"
    /\ ixReq[h].at \in {"idle", "answered"}
    /\ ixLeft.requests > 0
    /\ ixLeft' = [ixLeft EXCEPT !.requests = @ - 1]

CreateIndexer(h, q) ==
    /\ q.op = "create"
    /\ Begins(h, q.op)
    /\ LET row == [NoRow EXCEPT !.kind = q.kind, !.url = q.url, !.def = q.def, !.enabled = q.enabled,
                                !.private = indexerSettingsJSON(q.private)] IN
       /\ Accepted(row)
       /\ Moved(h, [NoIxRequest EXCEPT !.op = q.op, !.row = row,
                                 !.at = IF q.kind = "torznab" THEN "probe" ELSE "insert"])
    /\ UNCHANGED <<ixRows, ixRegistry, ixBoot, ixSeeds, ixTold>>

Overlay(row, p) ==
    [row EXCEPT !.kind = IF p.kind = Omitted THEN @ ELSE p.kind,
                !.url = IF p.url = Omitted THEN @ ELSE p.url,
                !.def = IF p.def = Omitted THEN @ ELSE p.def,
                !.enabled = IF p.enabled = Omitted THEN @ ELSE p.enabled = "true"]

PatchIndexer(h, q, id) ==
    /\ q.op = "patch"
    /\ Begins(h, q.op)
    /\ Accepted(Overlay(ixRows[id], q))
    /\ Moved(h, [NoIxRequest EXCEPT !.op = q.op, !.at = "update", !.id = id, !.row = ixRows[id], !.patch = q])
    /\ UNCHANGED <<ixRows, ixRegistry, ixBoot, ixSeeds, ixTold>>

DeleteIndexer(h, q, id) ==
    /\ q.op = "delete"
    /\ Begins(h, q.op)
    /\ ixRows' = [i \in DOMAIN ixRows \ {id} |-> ixRows[i]]
    /\ ixReq' = [g \in IxHandlers |->
                    IF g = h THEN NoIxRequest ELSE [ixReq[g] EXCEPT !.gone = @ \cup {ixRows[id].url}]]
    /\ ixTold' = [ixTold EXCEPT !.touched = TRUE]
    /\ UNCHANGED <<ixRegistry, ixBoot, ixSeeds>>

(* A torznab row without a url, or a dlsearch row whose definition is not  *)
(* loaded, is 503: nothing is probed and nothing recorded.                 *)
Probeable(row) ==
    IF row.kind = "torznab" THEN row.url # NoIx ELSE row.def \in DOMAIN ixRegistry
TestIndexer(h, q, id) ==
    /\ q.op = "test"
    /\ Begins(h, q.op)
    /\ Probeable(ixRows[id])
    /\ Moved(h, [NoIxRequest EXCEPT !.op = q.op, !.at = "probe", !.id = id, !.row = ixRows[id]])
    /\ UNCHANGED <<ixRows, ixRegistry, ixBoot, ixSeeds, ixTold>>

(* A .dlm, .dlsearch.yaml or .py upload: one disabled row, in one statement. *)
importIndexerFile(h, q) ==
    /\ q.op = "file"
    /\ Begins(h, q.op)
    /\ LET row == [NoRow EXCEPT !.kind = "dlsearch", !.def = q.def, !.source = "imported",
                                !.private = "false"] IN
       \/ Create(row) /\ Recorded(row)
       \/ Conflicts(0, q.def) /\ UNCHANGED <<ixRows, ixTold>>
    /\ Ended(h)
    /\ UNCHANGED <<ixRegistry, ixBoot, ixSeeds>>

(* The provider wizard enumerates, then lists the rows it knows already.   *)
ImportIndexer(h, q) ==
    /\ q.op = "wizard"
    /\ Begins(h, q.op)
    /\ Moved(h, [NoIxRequest EXCEPT !.op = q.op, !.at = "list", !.todo = Provider])
    /\ UNCHANGED <<ixRows, ixRegistry, ixBoot, ixSeeds, ixTold>>

WizardLists(h) ==
    /\ Serving(h, "wizard", "list")
    /\ Moved(h, [ixReq[h] EXCEPT !.at = "entry", !.run = ixTold.runs + 1,
                                 !.known = {ixRows[i].url : i \in DOMAIN ixRows}])
    /\ ixTold' = [ixTold EXCEPT
                    !.runs = @ + 1,
                    !.rivals = @ \cup {{ixTold.runs + 1, ixReq[g].run} :
                        g \in {k \in IxHandlers \ {h} : ixReq[k].op = "wizard" /\ ixReq[k].run > 0
                                                      /\ ixReq[k].at # "answered"}}]
    /\ UNCHANGED <<ixRows, ixRegistry, ixBoot, ixSeeds, ixLeft>>

Later(h) == [ixReq[h] EXCEPT !.todo = Tail(@)]
WizardRow(h) ==
    [NoRow EXCEPT !.url = Head(ixReq[h].todo), !.source = "imported", !.private = "true",
                  !.run = ixReq[h].run]
Skips(h) == Head(ixReq[h].todo) \in ixReq[h].known \/ ~ValidBaseURL(Head(ixReq[h].todo))
(* Mutant: break where the code continues.                                 *)
SkippedStops(h) == [ixReq[h] EXCEPT !.todo = <<>>]
Skipped(h) == Later(h)
(* The base URL of a created row joins the known ones.                     *)
Learnt(h) == ixReq[h].known \cup {Head(ixReq[h].todo)}

WizardEntry(h) ==
    /\ Serving(h, "wizard", "entry")
    /\ ixReq[h].todo # <<>>
    /\ \/ /\ Skips(h)
          /\ Moved(h, Skipped(h))
          /\ UNCHANGED <<ixRows, ixTold>>
       \/ /\ ~Skips(h)
          /\ Create(WizardRow(h))
          /\ Recorded(WizardRow(h))
          /\ Moved(h, [Later(h) EXCEPT !.at = "probe", !.first = IF @ = 0 THEN ixTold.lastId + 1 ELSE @, !.known = Learnt(h),
                                      !.id = ixTold.lastId + 1, !.row = WizardRow(h)])
    /\ UNCHANGED <<ixRegistry, ixBoot, ixSeeds, ixLeft>>

(* Nothing created is a 409 or a 422; otherwise the wizard reads its first *)
(* row back (500 if that is gone) and answers 200.                         *)
WizardAnswers(h) ==
    /\ Serving(h, "wizard", "entry")
    /\ ixReq[h].todo = <<>>
    /\ IF ixReq[h].first \in DOMAIN ixRows THEN Moved(h, [ixReq[h] EXCEPT !.at = "answered"]) ELSE Ended(h)
    /\ UNCHANGED <<ixRows, ixRegistry, ixBoot, ixSeeds, ixTold, ixLeft>>

(* A good probe's caps are stored before its stamp.                        *)
Outcome(probe) == IF probe = "ok" THEN "caps" ELSE "stamp"

ProbeOutcomes == {"ok", "error", "denied"}

(* The caps probe.  A guard denial ends a create or a test with nothing    *)
(* written; to the wizard it is a failed fetch like any other.             *)
Probe(h) ==
    /\ Reached(h, "probe")
    /\ \E outcome \in ProbeOutcomes :
        IF outcome = "denied" /\ ixReq[h].op # "wizard" THEN Ended(h)
        ELSE Moved(h, [ixReq[h] EXCEPT
                !.probe = IF outcome = "ok" THEN "ok" ELSE "error",
                !.at = IF ixReq[h].op = "create" THEN "insert" ELSE Outcome(outcome)])
    /\ UNCHANGED <<ixRows, ixRegistry, ixBoot, ixSeeds, ixTold, ixLeft>>

InsertRow(h) ==
    /\ Serving(h, "create", "insert")
    /\ \/ /\ Create(ixReq[h].row)
          /\ Recorded(ixReq[h].row)
          /\ IF ixReq[h].probe = "none" THEN Ended(h)
             ELSE Moved(h, [ixReq[h] EXCEPT !.id = ixTold.lastId + 1,
                                            !.at = Outcome(ixReq[h].probe)])
       \/ /\ Conflicts(0, ixReq[h].row.def)
          /\ Ended(h)
          /\ UNCHANGED <<ixRows, ixTold>>
    /\ UNCHANGED <<ixRegistry, ixBoot, ixSeeds, ixLeft>>

CapsOf(row) == IF row.kind = "torznab" THEN row.url ELSE row.def

(* recordProbe and recordDlsearchProbe: the caps first, then the stamp; a  *)
(* row deleted meanwhile fails the request, and with it the rest of a      *)
(* wizard's entries.                                                       *)
SetCaps(h) ==
    /\ Reached(h, "caps")
    /\ IF ixReq[h].id \in DOMAIN ixRows
       THEN /\ ixRows' = [ixRows EXCEPT ![ixReq[h].id].caps = CapsOf(ixReq[h].row)]
            /\ Moved(h, [ixReq[h] EXCEPT !.at = "stamp"])
       ELSE Ended(h) /\ UNCHANGED ixRows
    /\ UNCHANGED <<ixRegistry, ixBoot, ixSeeds, ixTold, ixLeft>>

RecordTest(h) ==
    /\ Reached(h, "stamp")
    /\ IF ixReq[h].id \in DOMAIN ixRows
       THEN /\ ixRows' = [ixRows EXCEPT ![ixReq[h].id].tested = ixReq[h].probe]
            /\ IF ixReq[h].op = "wizard" THEN Moved(h, [ixReq[h] EXCEPT !.at = "entry"]) ELSE Ended(h)
       ELSE Ended(h) /\ UNCHANGED ixRows
    /\ UNCHANGED <<ixRegistry, ixBoot, ixSeeds, ixTold, ixLeft>>

(* The PATCH's UPDATE: the columns its body named, and a settings document *)
(* merged onto the one the handler read.                                   *)
(* The row it leaves.                                                      *)
Writes(p) == p.private # Omitted \/ p.settings # Omitted
Updated(row, p, merged) ==
    LET kept == Overlay(row, p) IN
    [kept EXCEPT !.private = IF Writes(p) THEN merged ELSE kept.private,
                 !.run = IF p.url = Omitted THEN kept.run ELSE 0]

UpdateRow(h) ==
    LET r == ixReq[h]  p == r.patch  id == r.id IN
    /\ Serving(h, "patch", "update")
    /\ IF id \in DOMAIN ixRows /\ ~(p.def # Omitted /\ Conflicts(id, p.def))
       THEN /\ ixRows' = [ixRows EXCEPT ![id] = Updated(@, p, mergeIndexerSettings(r.row.private, p))]
            /\ ixTold' = [ixTold EXCEPT
                 !.touched = TRUE,
                 !.decided[id] = IF p.private = Omitted THEN @ ELSE p.private,
                 !.overlapped = IF Writes(p) /\ p.private = Omitted /\ r.row.private # ixRows[id].private
                                THEN @ \cup {id} ELSE @]
            /\ ixReq' = [g \in IxHandlers |->
                 IF g = h THEN NoIxRequest ELSE [ixReq[g] EXCEPT !.gone = @ \cup {ixRows[id].url}]]
       ELSE Ended(h) /\ UNCHANGED <<ixRows, ixTold>>
    /\ UNCHANGED <<ixRegistry, ixBoot, ixSeeds, ixLeft>>

(* A statement fails: 500, with what earlier statements wrote in place.    *)
HandlerFails(h) ==
    /\ ixBoot = "up"
    /\ ixReq[h].at \in {"list", "entry", "insert", "caps", "stamp", "update"}
    /\ StatementFails
    /\ Ended(h)
    /\ UNCHANGED <<ixRows, ixRegistry, ixBoot, ixSeeds, ixTold>>

IxNext ==
    \/ NewRegistry
    \/ SeedIndexers
    \/ BootDone
    \/ ProcessEnds
    \/ \E h \in IxHandlers, q \in IxRequests :
        \/ CreateIndexer(h, q)
        \/ importIndexerFile(h, q)
        \/ ImportIndexer(h, q)
        \/ \E id \in DOMAIN ixRows : PatchIndexer(h, q, id) \/ DeleteIndexer(h, q, id) \/ TestIndexer(h, q, id)
    \/ \E h \in IxHandlers :
        \/ WizardLists(h) \/ WizardEntry(h) \/ WizardAnswers(h)
        \/ Probe(h) \/ InsertRow(h) \/ SetCaps(h) \/ RecordTest(h)
        \/ UpdateRow(h) \/ HandlerFails(h)

IxSpec == IxInit /\ [][IxNext]_ixVars
--------------------------------------------------------------------------------
(* Types, and the unique index: one definition belongs to one row.         *)
IxTypeOK ==
    /\ ixBoot \in {"down", "seed", "up"}
    /\ \A i \in DOMAIN ixRows :
        /\ i \in 1..ixTold.lastId
        /\ ixRows[i].private \in {"absent", "false", "true"}
        /\ ixRows[i].tested \in {"never", "ok", "error"}
    /\ \A i, j \in DOMAIN ixRows : ixRows[i].def = ixRows[j].def /\ ixRows[i].def # NoIx => i = j

(* A row lifts the guard's private-range denial exactly when the last      *)
(* request that decided it said so: no settings map of a caller, no        *)
(* re-import and no boot moves the flag.  The one exception the code       *)
(* leaves is two PATCHes of one row that overlap (PatchIndexer merges onto *)
(* a document it read before).                                             *)
PrivateDecided ==
    \A i \in DOMAIN ixRows \ ixTold.overlapped : ixRows[i].private = ixTold.decided[i]

(* When the server listens, and until the operator deletes or patches a    *)
(* row, every bundled definition that loaded has its row, whatever rows    *)
(* the operator had made of bundled ids before; and a bundled id resolves  *)
(* to the embedded document or to nothing, never to a user file.           *)
BundledServed ==
    /\ ixBoot = "up" /\ ~ixTold.touched =>
        \A d \in BundledValid : \E i \in DOMAIN ixRows : ixRows[i].def = d
    /\ \A d \in DOMAIN ixRegistry \cap bundledIDSet : ixRegistry[d] = "bundled"

(* "A second import skips known rows instead of doubling the list": two    *)
(* rows the wizard made of one base URL come from two runs that were in    *)
(* progress together.                                                      *)
WizardOnce ==
    \A i, j \in DOMAIN ixRows :
        i # j /\ ixRows[i].run > 0 /\ ixRows[j].run > 0 /\ ixRows[i].url = ixRows[j].url =>
            {ixRows[i].run, ixRows[j].run} \in ixTold.rivals

(* A wizard that answers 200 leaves a row for every usable base URL the    *)
(* provider reported, broken upstreams and known ones included, unless     *)
(* somebody removed or re-addressed it since the run began.                *)
WizardComplete ==
    \A h \in IxHandlers : ixReq[h].op = "wizard" /\ ixReq[h].at = "answered" =>
        \A u \in Range(Provider) \ BadURLs :
            u \in ixReq[h].gone \/ \E i \in DOMAIN ixRows : ixRows[i].url = u

(* A row whose last test shows no error has a caps document, however two   *)
(* tests of it interleave and whatever statement fails between the two     *)
(* writes of an outcome.                                                   *)
TestedHasCaps ==
    \A i \in DOMAIN ixRows : ixRows[i].tested = "ok" => ixRows[i].caps # NoIx

(* The indexer list's safety: the bundled rows are there, a wizard brings  *)
(* every usable row once, and flags and test results are those of the      *)
(* request that decided them (PatchIndexer, the wizard, seeding, Test).    *)
IxSafe ==
    /\ IxTypeOK
    /\ PrivateDecided
    /\ BundledServed
    /\ WizardOnce
    /\ WizardComplete
    /\ TestedHasCaps
================================================================================
