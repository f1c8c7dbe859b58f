---------------------------- MODULE DiscoveryProofs ----------------------------
(***************************************************************************)
(* Proofs about what finds downloads: feeds, items and rules (FeedPoll,    *)
(* RuleGrabs), search jobs (SearchJobs) and indexers (IndexerRows).        *)
(***************************************************************************)
EXTENDS FeedPoll, RuleGrabs, SearchJobs, IndexerRows, FiniteSetTheorems, TLAPS

--------------------------------------------------------------------------------
(***************************************************************************)
(* Theorems about the RSS automation, for every sequence of documents,     *)
(* every catalogue of items, every cap, every bound on runs and faults.    *)
(***************************************************************************)

AtRest == {"idle", "listed"}
Answered == {"items", "trim", "success", "failure", "rules"}
Stored == {"trim", "success", "rules"}
DocNumbers == 0 .. Len(Docs)
FeedRows == [st : {"live", "gone"}, enabled : BOOLEAN, level : 0 .. MaxLevel,
             etag : DocNumbers, next : {"past", "ahead"}, disabled : BOOLEAN]
PollCopies == [pc : AtRest \union {"fetch"} \union Answered, level : 0 .. MaxLevel,
               etag : DocNumbers, got : DocNumbers, added : BOOLEAN]

AbandonedShape == abandoned = [pass |-> abandoned.pass, poll |-> abandoned.poll]

(* The shapes of a feed's state.                                           *)
FeedShapes ==
    /\ doc \in 1 .. Len(Docs)
    /\ feedRow \in FeedRows
    /\ poller \in [Pollers -> PollCopies]
    /\ inFlight \in BOOLEAN /\ grace \in BOOLEAN
    /\ AbandonedShape

(* inFlightPolls: whoever is past PollBegin holds the entry, alone.        *)
FetchAlone ==
    \A p \in Pollers : poller[p].pc \notin AtRest =>
        inFlight /\ \A q \in Pollers : poller[q].pc \notin AtRest => q = p

(* What a poll may write back: the tag of its copy was honest when it was  *)
(* listed, and a document it is about to record was stored.                *)
CopiesHonest ==
    \A p \in Pollers :
        /\ poller[p].etag > 0 => Docs[poller[p].etag] \subseteq ever
        /\ poller[p].pc \in Answered => poller[p].got \in 1 .. Len(Docs)
        /\ poller[p].pc \in Stored => Docs[poller[p].got] \subseteq ever
        /\ poller[p].added => poller[p].pc \in Stored

(* The item table: a deleted feed has none.                                *)
ItemsKept ==
    /\ stored \subseteq ever /\ judged \subseteq ever
    /\ feedRow.st = "gone" => stored = {}

FeedInv == FeedShapes /\ FetchAlone /\ CopiesHonest /\ ItemsKept /\ ValidatorsHonest /\ StoredJudged

--------------------------------------------------------------------------------
LEMMA DocsCounted == Len(Docs) \in Nat \ {0}
BY FeedAssumption

LEMMA IdleCopy == IdlePoller \in PollCopies /\ IdlePoller.pc = "idle" /\ IdlePoller.etag = 0 /\ ~IdlePoller.added
BY DocsCounted, FeedAssumption DEF IdlePoller, PollCopies, DocNumbers, AtRest

LEMMA FeedInitInv == FeedInit => FeedInv
<1> SUFFICES ASSUME FeedInit PROVE FeedInv
    OBVIOUS
<1> USE DEF FeedInit
<1>1. feedRow \in FeedRows /\ feedRow.st = "live" /\ feedRow.etag = 0
  <2>1. 0 \in DocNumbers /\ 0 \in 0 .. MaxLevel
      BY DocsCounted, FeedAssumption DEF DocNumbers
  <2> QED
      BY <2>1 DEF FeedRows, Gone
<1>2. poller \in [Pollers -> PollCopies] /\ \A p \in Pollers : poller[p] = IdlePoller
    BY IdleCopy
<1>3. FeedShapes
  <2>1. doc \in 1 .. Len(Docs)
      BY DocsCounted
  <2> QED
      BY <1>1, <1>2, <2>1 DEF FeedShapes, AbandonedShape
<1>4. FetchAlone /\ CopiesHonest
    BY <1>2, IdleCopy DEF FetchAlone, CopiesHonest, AtRest, Answered, Stored
<1>5. ItemsKept /\ ValidatorsHonest /\ StoredJudged
    BY <1>1 DEF ItemsKept, ValidatorsHonest, StoredJudged
<1> QED
    BY <1>3, <1>4, <1>5 DEF FeedInv

--------------------------------------------------------------------------------
(* The poller that moves, and the others, which keep their copies.         *)
PollMoves(p, v) ==
    /\ v \in PollCopies
    /\ poller' \in [Pollers -> PollCopies]
    /\ poller'[p] = v
    /\ \A q \in Pollers \ {p} : poller'[q] = poller[q]

LEMMA DoneMoves ==
    ASSUME FeedShapes, NEW p \in Pollers, Done(p)
    PROVE  PollMoves(p, IdlePoller) /\ inFlight' = FALSE
BY IdleCopy DEF FeedShapes, Done, PollMoves

LEMMA GoesMoves ==
    ASSUME FeedShapes, NEW p \in Pollers, NEW pc \in {"fetch"} \union Answered, PollerGoes(p, pc)
    PROVE  /\ PollMoves(p, poller'[p]) /\ poller'[p].pc = pc
           /\ poller'[p].etag = poller[p].etag /\ poller'[p].got = poller[p].got
           /\ poller'[p].added = poller[p].added
BY DEF FeedShapes, PollerGoes, PollMoves, PollCopies

(* A poll that ends before its pass leaves what it stored to the record.   *)
LEMMA AbandonRecords ==
    ASSUME AbandonedShape, NEW P, Abandon(P)
    PROVE  /\ AbandonedShape' /\ LeftUnread \subseteq LeftUnread'
           /\ (\E p \in P : poller[p].added) => stored \subseteq judged \union LeftUnread'
<1>1. CASE \E p \in P : poller[p].added
  <2>1. abandoned' = [abandoned EXCEPT !.poll = abandoned.poll \union (stored \ judged)]
      BY <1>1 DEF Abandon
  <2>2. abandoned' = [pass |-> abandoned.pass, poll |-> abandoned.poll \union (stored \ judged)]
      BY <2>1 DEF AbandonedShape
  <2> QED
      BY <2>2 DEF AbandonedShape, LeftUnread
<1>2. CASE ~\E p \in P : poller[p].added
    BY <1>2 DEF Abandon, AbandonedShape, LeftUnread
<1> QED
    BY <1>1, <1>2

(* Leaving the row, the items and the fetch entry alone: the operator, the *)
(* clock and the publisher.                                                *)
LEMMA WorldKeeps ==
    ASSUME FeedInv, FeedPublishes \/ TimePasses \/ GraceEnds \/ UpdateFeed \/ DeleteFeed
    PROVE  FeedInv'
<1> USE DEF FeedInv
<1>1. UNCHANGED <<poller, inFlight, ever, judged, abandoned>>
    BY DEF FeedPublishes, TimePasses, GraceEnds, UpdateFeed, DeleteFeed
<1>2. FetchAlone' /\ CopiesHonest'
    BY <1>1 DEF FetchAlone, CopiesHonest
<1>3. doc' \in 1 .. Len(Docs) /\ grace' \in BOOLEAN
  <2>1. (doc' = doc + 1 /\ doc < Len(Docs)) \/ doc' = doc
      BY DEF FeedPublishes, TimePasses, GraceEnds, UpdateFeed, DeleteFeed
  <2>2. doc' \in 1 .. Len(Docs)
      BY <2>1, DocsCounted DEF FeedShapes
  <2>3. grace' \in BOOLEAN
      BY DEF FeedShapes, FeedPublishes, TimePasses, GraceEnds, UpdateFeed, DeleteFeed
  <2> QED
      BY <2>2, <2>3
<1>4. /\ feedRow' \in FeedRows
      /\ \/ feedRow'.st = feedRow.st /\ feedRow'.etag = feedRow.etag /\ stored' = stored
         \/ feedRow'.st = "gone" /\ stored' = {}
  <2>1. CASE FeedPublishes \/ GraceEnds
      BY <2>1 DEF FeedShapes, FeedPublishes, GraceEnds
  <2>2. CASE TimePasses
      BY <2>2 DEF FeedShapes, TimePasses, FeedRows
  <2>3. CASE UpdateFeed
      BY <2>3 DEF FeedShapes, UpdateFeed, FeedRows
  <2>4. CASE DeleteFeed
      BY <2>4, DocsCounted, FeedAssumption DEF FeedShapes, DeleteFeed, FeedRows, Gone, DocNumbers
  <2> QED
      BY <2>1, <2>2, <2>3, <2>4
<1>5. FeedShapes'
    BY <1>1, <1>3, <1>4 DEF FeedShapes, AbandonedShape
<1>6. ItemsKept' /\ ValidatorsHonest' /\ StoredJudged'
    BY <1>1, <1>4 DEF ItemsKept, ValidatorsHonest, StoredJudged, LeftUnread
<1> QED
    BY <1>2, <1>5, <1>6

LEMMA CrashKeeps == FeedInv /\ FeedCrash => FeedInv'
<1> SUFFICES ASSUME FeedInv, FeedCrash PROVE FeedInv'
    OBVIOUS
<1> USE IdleCopy DEF FeedInv, FeedCrash
<1>1. poller' \in [Pollers -> PollCopies] /\ \A p \in Pollers : poller'[p] = IdlePoller
    OBVIOUS
<1>0. /\ AbandonedShape' /\ LeftUnread \subseteq LeftUnread'
      /\ (\E p \in Pollers : poller[p].added) => stored \subseteq judged \union LeftUnread'
    BY AbandonRecords DEF FeedShapes
<1>2. FeedShapes'
    BY <1>0, <1>1 DEF FeedShapes
<1>3. FetchAlone' /\ CopiesHonest'
    BY <1>1 DEF FetchAlone, CopiesHonest, AtRest, Answered, Stored
<1>4. ItemsKept' /\ ValidatorsHonest' /\ StoredJudged'
    BY <1>0 DEF ItemsKept, ValidatorsHonest, StoredJudged
<1> QED
    BY <1>2, <1>3, <1>4


--------------------------------------------------------------------------------
(* The steps of a poll.                                                    *)

LEMMA ListKeeps == ASSUME FeedInv, NEW p \in Pollers, ListFeed(p) PROVE FeedInv'
<1> USE DEF FeedInv
<1>1. UNCHANGED <<doc, feedRow, stored, ever, judged, inFlight, grace, abandoned>> /\ feedRow.st = "live"
    BY DEF ListFeed
<1>2. /\ PollMoves(p, poller'[p]) /\ poller'[p].pc = "listed"
      /\ poller'[p].etag = feedRow.etag /\ ~poller'[p].added
  <2> DEFINE v == [IdlePoller EXCEPT !.pc = "listed", !.level = feedRow.level, !.etag = feedRow.etag]
  <2>1. v \in PollCopies /\ v.pc = "listed" /\ v.etag = feedRow.etag /\ ~v.added
      BY IdleCopy DEF FeedShapes, FeedRows, PollCopies, AtRest
  <2>2. poller' = [poller EXCEPT ![p] = v]
      BY DEF ListFeed
  <2> QED
      BY <2>1, <2>2 DEF PollMoves, FeedShapes
<1>3. poller[p].pc = "idle" /\ ~poller[p].added
    BY DEF ListFeed, PollAt, CopiesHonest, Stored, FeedShapes, PollCopies
<1>4. FeedShapes'
    BY <1>1, <1>2 DEF FeedShapes, PollMoves, AbandonedShape
<1>5. FetchAlone'
    BY <1>1, <1>2 DEF FetchAlone, PollMoves, AtRest
<1>6. CopiesHonest'
    BY <1>1, <1>2 DEF CopiesHonest, ValidatorsHonest, PollMoves, Answered, Stored
<1>7. ItemsKept' /\ ValidatorsHonest' /\ StoredJudged'
    BY <1>1, <1>2, <1>3 DEF ItemsKept, ValidatorsHonest, StoredJudged, LeftUnread, PollMoves
<1> QED
    BY <1>4, <1>5, <1>6, <1>7

LEMMA BeginKeeps == ASSUME FeedInv, NEW p \in Pollers, PollBegin(p) PROVE FeedInv'
<1> USE DEF FeedInv
<1>1. UNCHANGED <<doc, feedRow, stored, ever, judged, grace, abandoned>>
    BY DEF PollBegin
<1>2. poller[p].pc = "listed" /\ ~poller[p].added
    BY DEF PollBegin, PollAt, CopiesHonest, Stored, FeedShapes, PollCopies
<1>3. PollMoves(p, poller'[p]) /\ ~poller'[p].added
      /\ poller'[p].etag \in {0, poller[p].etag}
      /\ \/ poller'[p].pc = "idle" /\ inFlight' = inFlight
         \/ poller'[p].pc = "fetch" /\ ~inFlight /\ inFlight' = TRUE
  <2>1. CASE inFlight
      BY <2>1, IdleCopy DEF PollBegin, FeedShapes, PollMoves
  <2>2. CASE ~inFlight /\ PollerGoes(p, "fetch") /\ inFlight' = TRUE
      BY <2>2, <1>2, GoesMoves
  <2>3. CASE ~inFlight /\ Done(p)
    <3>1. PollMoves(p, IdlePoller) /\ inFlight' = FALSE
        BY <2>3, DoneMoves
    <3>2. poller'[p] = IdlePoller
        BY <3>1 DEF PollMoves
    <3>3. inFlight' = inFlight
        BY <2>3, <3>1 DEF FeedShapes
    <3> QED
        BY <3>1, <3>2, <3>3, IdleCopy
  <2> QED
      BY <2>1, <2>2, <2>3 DEF PollBegin
<1>4. FeedShapes'
    BY <1>1, <1>3 DEF FeedShapes, PollMoves, AbandonedShape
<1>5. FetchAlone'
    BY <1>3 DEF FetchAlone, PollMoves, AtRest
<1>6. CopiesHonest'
    BY <1>1, <1>3 DEF CopiesHonest, PollMoves, Answered, Stored
<1>7. ItemsKept' /\ ValidatorsHonest' /\ StoredJudged'
    BY <1>1, <1>2, <1>3 DEF ItemsKept, ValidatorsHonest, StoredJudged, LeftUnread, PollMoves
<1> QED
    BY <1>4, <1>5, <1>6, <1>7

LEMMA FetchKeeps == ASSUME FeedInv, NEW p \in Pollers, Fetch(p) PROVE FeedInv'
<1> USE DEF FeedInv
<1>1. UNCHANGED <<doc, feedRow, stored, ever, judged, grace, abandoned, inFlight>>
    BY DEF Fetch
<1>2. poller[p].pc = "fetch" /\ ~poller[p].added
    BY DEF Fetch, PollAt, CopiesHonest, Stored, FeedShapes, PollCopies
<1>3. /\ PollMoves(p, poller'[p]) /\ poller'[p].added = poller[p].added
      /\ poller'[p].etag = poller[p].etag /\ poller'[p].got = doc
      /\ \/ poller'[p].pc = "success" /\ poller[p].etag = doc
         \/ poller'[p].pc \in {"items", "failure"}
  <2> PICK pc \in {"success", "items", "failure"} :
        /\ poller' = [poller EXCEPT ![p].pc = pc, ![p].got = doc]
        /\ pc = "success" => poller[p].etag = doc
      BY DEF Fetch
  <2>1. doc \in DocNumbers
      BY DocsCounted DEF FeedShapes, DocNumbers
  <2> QED
      BY <2>1 DEF FeedShapes, PollMoves, PollCopies, Answered
<1>4. FeedShapes'
    BY <1>1, <1>3 DEF FeedShapes, PollMoves, AbandonedShape
<1>5. FetchAlone'
    BY <1>1, <1>2, <1>3 DEF FetchAlone, PollMoves, AtRest
<1>6. CopiesHonest'
    BY <1>1, <1>2, <1>3, DocsCounted DEF CopiesHonest, PollMoves, FeedShapes, Answered, Stored
<1>7. ItemsKept' /\ ValidatorsHonest' /\ StoredJudged'
    BY <1>1, <1>2, <1>3 DEF ItemsKept, ValidatorsHonest, StoredJudged, LeftUnread, PollMoves
<1> QED
    BY <1>4, <1>5, <1>6, <1>7

(* A poll that ends: what it stored was judged or is recorded as left.     *)
LEMMA EndKeeps ==
    ASSUME FeedInv, NEW p \in Pollers, Done(p),
           UNCHANGED <<doc, stored, ever, grace>>,
           feedRow' \in FeedRows, ValidatorsHonest', feedRow'.st = feedRow.st,
           poller[p].pc \notin AtRest, judged \subseteq judged', judged' \subseteq ever,
           AbandonedShape', LeftUnread \subseteq LeftUnread',
           poller[p].added => stored \subseteq judged' \union LeftUnread'
    PROVE  FeedInv'
<1> USE DEF FeedInv
<1>1. PollMoves(p, IdlePoller) /\ inFlight' = FALSE
    BY DoneMoves
<1>2. FeedShapes'
    BY <1>1 DEF FeedShapes, PollMoves
<1>3. FetchAlone'
    BY <1>1, IdleCopy DEF FetchAlone, PollMoves, AtRest
<1>4. CopiesHonest'
    BY <1>1, IdleCopy DEF CopiesHonest, PollMoves, Answered, Stored
<1>5. ItemsKept' /\ StoredJudged'
    BY <1>1 DEF ItemsKept, StoredJudged, PollMoves
<1> QED
    BY <1>2, <1>3, <1>4, <1>5

LEMMA UpsertKeeps == ASSUME FeedInv, NEW p \in Pollers, UpsertFeedItems(p) PROVE FeedInv'
<1> USE DEF FeedInv
<1>1. UNCHANGED <<doc, feedRow, judged, grace, abandoned>>
    BY DEF UpsertFeedItems
<1>2. poller[p].pc = "items" /\ ~poller[p].added /\ poller[p].got \in 1 .. Len(Docs)
    BY DEF UpsertFeedItems, PollAt, CopiesHonest, Stored, Answered, FeedShapes, PollCopies
<1>3. CASE Done(p) /\ UNCHANGED <<stored, ever>>
  <2>1. feedRow' \in FeedRows /\ ValidatorsHonest' /\ AbandonedShape' /\ LeftUnread' = LeftUnread
      BY <1>1, <1>3 DEF FeedShapes, ValidatorsHonest, AbandonedShape, LeftUnread
  <2> QED
      BY <2>1, <1>1, <1>2, <1>3, EndKeeps DEF AtRest, ItemsKept
<1>4. CASE /\ feedRow.st = "live" /\ inFlight' = inFlight
           /\ stored' = stored \union Docs[poller[p].got]
           /\ ever' = ever \union Docs[poller[p].got]
           /\ poller' = [poller EXCEPT ![p].pc = "trim", ![p].added = Added(p)]
  <2>0. Added(p) \in BOOLEAN
      BY DEF Added
  <2>1. /\ PollMoves(p, poller'[p]) /\ poller'[p].pc = "trim" /\ poller'[p].added = Added(p)
        /\ poller'[p].etag = poller[p].etag /\ poller'[p].got = poller[p].got
      BY <1>4, <2>0 DEF PollMoves, FeedShapes, PollCopies, Answered
  <2>2. FeedShapes'
      BY <1>1, <1>4, <2>1 DEF FeedShapes, PollMoves, AbandonedShape
  <2>3. FetchAlone'
      BY <1>2, <1>4, <2>1 DEF FetchAlone, PollMoves, AtRest
  <2>4. CopiesHonest'
      BY <1>1, <1>2, <1>4, <2>1 DEF CopiesHonest, PollMoves, Answered, Stored
  <2>5. ItemsKept' /\ ValidatorsHonest'
      BY <1>1, <1>4 DEF ItemsKept, ValidatorsHonest
  <2>6. StoredJudged'
    <3>1. CASE Added(p)
        BY <1>1, <1>4, <2>1, <3>1 DEF StoredJudged, LeftUnread, PollMoves
    <3>2. CASE ~Added(p)
        BY <1>1, <1>2, <1>4, <2>1, <3>2 DEF StoredJudged, LeftUnread, Added, PollMoves
    <3> QED
        BY <3>1, <3>2
  <2> QED
      BY <2>2, <2>3, <2>4, <2>5, <2>6
<1> QED
    BY <1>3, <1>4 DEF UpsertFeedItems

(* A statement failed after the items were stored.                         *)
LEMMA EarlyKeeps ==
    ASSUME FeedInv, NEW p \in Pollers, EndsEarly(p), poller[p].pc \notin AtRest,
           UNCHANGED <<doc, feedRow, stored, ever, judged, grace>>
    PROVE  FeedInv'
<1>1. /\ AbandonedShape' /\ LeftUnread \subseteq LeftUnread'
      /\ poller[p].added => stored \subseteq judged \union LeftUnread'
    BY AbandonRecords DEF EndsEarly, FeedInv, FeedShapes
<1>2. feedRow' \in FeedRows /\ ValidatorsHonest' /\ judged' \subseteq ever
    BY DEF FeedInv, FeedShapes, ValidatorsHonest, ItemsKept
<1>3. Done(p)
    BY DEF EndsEarly
<1> QED
    BY <1>1, <1>2, <1>3, EndKeeps

LEMMA TrimKeeps == ASSUME FeedInv, NEW p \in Pollers, TrimFeedItems(p) PROVE FeedInv'
<1>1. poller[p].pc = "trim"
    BY DEF TrimFeedItems, PollAt
<1>2. CASE EndsEarly(p) /\ stored' = stored
  <2>1. UNCHANGED <<doc, feedRow, stored, ever, judged, grace>>
      BY <1>2 DEF TrimFeedItems
  <2> QED
      BY <1>1, <1>2, <2>1, EarlyKeeps DEF AtRest
<1>3. CASE /\ stored' = {i \in stored : Cardinality(Newer(i)) < ItemCap}
           /\ PollerGoes(p, "success") /\ UNCHANGED <<inFlight, abandoned, faults>>
  <2> USE DEF FeedInv
  <2>1. UNCHANGED <<doc, feedRow, ever, judged, grace, abandoned, inFlight>> /\ stored' \subseteq stored
      BY <1>3 DEF TrimFeedItems
  <2>2. /\ PollMoves(p, poller'[p]) /\ poller'[p].pc = "success" /\ poller'[p].added = poller[p].added
        /\ poller'[p].etag = poller[p].etag /\ poller'[p].got = poller[p].got
      BY <1>3, GoesMoves DEF Answered
  <2>3. FeedShapes'
      BY <2>1, <2>2 DEF FeedShapes, PollMoves, AbandonedShape
  <2>4. FetchAlone'
      BY <2>1, <1>1, <2>2 DEF FetchAlone, PollMoves, AtRest
  <2>5. CopiesHonest'
      BY <2>1, <1>1, <2>2 DEF CopiesHonest, PollMoves, Answered, Stored
  <2>6. ItemsKept' /\ ValidatorsHonest' /\ StoredJudged'
      BY <2>1, <1>1, <2>2 DEF ItemsKept, ValidatorsHonest, StoredJudged, LeftUnread, PollMoves
  <2> QED
      BY <2>3, <2>4, <2>5, <2>6
<1> QED
    BY <1>2, <1>3 DEF TrimFeedItems

(* recordSuccess with its write done.                                      *)
SuccessWritten(p) ==
    /\ WriteState([feedRow EXCEPT !.level = IF poller[p].level > 0 THEN poller[p].level - 1 ELSE 0,
                                  !.disabled = FALSE, !.next = "ahead", !.etag = poller[p].got])
    /\ IF poller[p].added /\ feedRow.st = "live" THEN PollerGoes(p, "rules") /\ inFlight' = inFlight ELSE Done(p)
    /\ UNCHANGED <<abandoned, faults>>

LEMMA WrittenKeeps ==
    ASSUME FeedInv, NEW p \in Pollers, recordSuccess(p), SuccessWritten(p) PROVE FeedInv'
<1> USE DEF FeedInv
<1>1. UNCHANGED <<doc, stored, ever, judged, grace, abandoned>>
    BY DEF recordSuccess, SuccessWritten
<1>2. poller[p].pc = "success" /\ poller[p].got \in 1 .. Len(Docs) /\ Docs[poller[p].got] \subseteq ever
    BY DEF recordSuccess, PollAt, CopiesHonest, Answered, Stored
<1>3. feedRow' \in FeedRows /\ feedRow'.st = feedRow.st
      /\ (feedRow.st = "live" => feedRow'.etag = poller[p].got)
  <2> DEFINE n == IF poller[p].level > 0 THEN poller[p].level - 1 ELSE 0
  <2>1. n \in 0 .. MaxLevel /\ poller[p].got \in DocNumbers
      BY FeedAssumption, DocsCounted, <1>2 DEF FeedShapes, PollCopies, DocNumbers
  <2>2. feedRow' = IF feedRow.st = "live"
                   THEN [feedRow EXCEPT !.level = n, !.disabled = FALSE, !.next = "ahead", !.etag = poller[p].got]
                   ELSE feedRow
      BY DEF SuccessWritten, WriteState
  <2> HIDE DEF n
  <2> QED
      BY <2>1, <2>2 DEF FeedShapes, FeedRows
<1>4. ValidatorsHonest'
    BY <1>1, <1>2, <1>3 DEF ValidatorsHonest
<1>5. CASE poller[p].added /\ feedRow.st = "live"
  <2>1. /\ PollMoves(p, poller'[p]) /\ poller'[p].pc = "rules" /\ poller'[p].added = poller[p].added
        /\ poller'[p].etag = poller[p].etag /\ poller'[p].got = poller[p].got /\ inFlight' = inFlight
      BY <1>5, GoesMoves DEF SuccessWritten, Answered
  <2>2. FeedShapes'
      BY <1>1, <1>3, <2>1 DEF FeedShapes, PollMoves, AbandonedShape
  <2>3. FetchAlone'
      BY <1>2, <2>1 DEF FetchAlone, PollMoves, AtRest
  <2>4. CopiesHonest'
      BY <1>1, <1>2, <2>1 DEF CopiesHonest, PollMoves, Answered, Stored
  <2>5. ItemsKept' /\ StoredJudged'
      BY <1>1, <1>3, <1>5, <2>1 DEF ItemsKept, StoredJudged, LeftUnread, PollMoves
  <2> QED
      BY <1>4, <2>2, <2>3, <2>4, <2>5
<1>6. CASE ~(poller[p].added /\ feedRow.st = "live")
  <2>1. poller[p].added => stored = {}
      BY <1>6 DEF ItemsKept, FeedShapes, FeedRows
  <2>2. Done(p) /\ AbandonedShape' /\ LeftUnread' = LeftUnread
      BY <1>6, <1>1 DEF SuccessWritten, FeedShapes, AbandonedShape, LeftUnread
  <2> QED
      BY <1>1, <1>2, <1>3, <1>4, <2>1, <2>2, EndKeeps DEF AtRest, ItemsKept
<1> QED
    BY <1>5, <1>6

LEMMA SuccessKeeps == ASSUME FeedInv, NEW p \in Pollers, recordSuccess(p) PROVE FeedInv'
<1>1. CASE EndsEarly(p) /\ feedRow' = feedRow
  <2>1. UNCHANGED <<doc, feedRow, stored, ever, judged, grace>> /\ poller[p].pc = "success"
      BY <1>1 DEF recordSuccess, PollAt
  <2> QED
      BY <1>1, <2>1, EarlyKeeps DEF AtRest
<1>2. CASE SuccessWritten(p)
    BY <1>2, WrittenKeeps
<1> QED
    BY <1>1, <1>2 DEF recordSuccess, SuccessWritten

LEMMA FailureKeeps == ASSUME FeedInv, NEW p \in Pollers, PollFailed(p) PROVE FeedInv'
<1> USE DEF FeedInv
<1>1. UNCHANGED <<doc, stored, ever, judged, grace, abandoned>> /\ Done(p)
    BY DEF PollFailed
<1>2. poller[p].pc = "failure" /\ ~poller[p].added
    BY DEF PollFailed, PollAt, CopiesHonest, Stored, FeedShapes, PollCopies
<1>3. feedRow' \in FeedRows /\ feedRow'.st = feedRow.st
      /\ (feedRow.st = "live" => feedRow'.etag \in {feedRow.etag, poller[p].etag})
  <2> DEFINE n == IF poller[p].level < MaxLevel THEN poller[p].level + 1 ELSE MaxLevel
  <2>1. n \in 0 .. MaxLevel /\ poller[p].etag \in DocNumbers /\ (~grace) \in BOOLEAN
      BY FeedAssumption DEF FeedShapes, PollCopies
  <2>2. \/ feedRow' = feedRow
        \/ feedRow' = [feedRow EXCEPT !.level = n, !.disabled = ~grace, !.next = "ahead", !.etag = poller[p].etag]
      BY DEF PollFailed, WriteState, recordFailure
  <2> HIDE DEF n
  <2> QED
      BY <2>1, <2>2 DEF FeedShapes, FeedRows
<1>4. ValidatorsHonest' /\ AbandonedShape' /\ LeftUnread' = LeftUnread
    BY <1>1, <1>3 DEF ValidatorsHonest, CopiesHonest, FeedShapes, AbandonedShape, LeftUnread
<1> QED
    BY <1>1, <1>2, <1>3, <1>4, EndKeeps DEF AtRest, ItemsKept

LEMMA RulesKeep == ASSUME FeedInv, NEW p \in Pollers, RunAllRules(p) PROVE FeedInv'
<1> USE DEF FeedInv
<1>1. UNCHANGED <<doc, feedRow, stored, ever, grace>> /\ Done(p) /\ poller[p].pc = "rules"
    BY DEF RunAllRules, PollAt
<1>2. \/ judged' = judged \union stored /\ abandoned' = abandoned
      \/ judged' = judged /\ abandoned' = [pass |-> abandoned.pass \union (stored \ judged), poll |-> abandoned.poll]
    BY DEF RunAllRules, FeedShapes, AbandonedShape
<1>3. judged \subseteq judged' /\ judged' \subseteq ever /\ AbandonedShape' /\ LeftUnread \subseteq LeftUnread'
      /\ stored \subseteq judged' \union LeftUnread'
    BY <1>2 DEF ItemsKept, FeedShapes, AbandonedShape, LeftUnread
<1>4. feedRow' \in FeedRows /\ ValidatorsHonest'
    BY <1>1 DEF FeedShapes, ValidatorsHonest
<1> QED
    BY <1>1, <1>3, <1>4, EndKeeps DEF AtRest

LEMMA FeedInvStep == FeedInv /\ [FeedNext]_feedVars => FeedInv'
<1> SUFFICES ASSUME FeedInv, [FeedNext]_feedVars PROVE FeedInv'
    OBVIOUS
<1>1. CASE UNCHANGED feedVars
    BY <1>1 DEF feedVars, FeedInv, FeedShapes, AbandonedShape, FetchAlone, CopiesHonest, ItemsKept, ValidatorsHonest,
                StoredJudged, LeftUnread
<1>2. ASSUME NEW p \in Pollers, ListFeed(p) \/ PollerStep(p) PROVE FeedInv'
    BY <1>2, ListKeeps, BeginKeeps, FetchKeeps, UpsertKeeps, TrimKeeps, SuccessKeeps, FailureKeeps, RulesKeep
       DEF PollerStep
<1> QED
    BY <1>1, <1>2, WorldKeeps, CrashKeeps DEF FeedNext

LEMMA FetchesCounted == FeedInv => OneFetch
<1> SUFFICES ASSUME FeedInv PROVE OneFetch
    OBVIOUS
<1> DEFINE S == {p \in Pollers : poller[p].pc \notin {"idle", "listed"}}
<1>1. CASE S = {}
    BY <1>1, FS_EmptySet DEF OneFetch
<1>2. CASE S # {}
  <2> PICK p \in S : TRUE
      BY <1>2
  <2>1. S = {p}
      BY DEF FeedInv, FetchAlone, AtRest
  <2>2. Cardinality(S) = 1
      BY <2>1, FS_Singleton
  <2> QED
      BY <2>2 DEF OneFetch
<1> QED
    BY <1>1, <1>2

(* Feed polling is safe for every sequence of documents: one fetch of a    *)
(* feed at a time, a 304 never hides an item that was not stored, and a    *)
(* stored item was judged, has its rule pass still to come, or was left by *)
(* a poll a fault or a restart cut after the items were stored, or by a    *)
(* pass that failed, whatever stale copy a poll writes back                *)
(* (inFlightPolls, completeFetch, recordFailure).                          *)
THEOREM PollingIsSafe == FeedSpec => []FeedSafe
<1>1. FeedInv => FeedSafe
    BY FetchesCounted DEF FeedInv, FeedSafe, FeedTypeOK, FeedShapes, FeedRows, ItemsKept, DocNumbers
<1> QED
    BY <1>1, FeedInitInv, FeedInvStep, PTL DEF FeedSpec


--------------------------------------------------------------------------------
(* The rule runs.                                                          *)

Episodes == STRING \union {NoValue}
InfoHashes == STRING \union {NoValue}
EpisodeKeys == Episodes \X Tags
ContentKeys == EpisodeKeys \union {<<h>> : h \in STRING} \union {<<i>> : i \in Items} \union {NoValue}
MatchRows == [status : {"none", "queued", "sent", "failed", "fallback"}, key : ContentKeys,
              hash : InfoHashes, score : Nat]
TaskRows == [item : Items, key : ContentKeys, removed : BOOLEAN]
Candidates == [item : Items, key : ContentKeys, staged : SUBSET EpisodeKeys]
GrabRuns == [pc : {"idle", "evaluate", "grab", "send"}, todo : SUBSET Items, cands : SUBSET Candidates,
             cur : Candidates \union {NoValue}, sent : 0 .. MaxPerRun, last : Nat \union {NoValue}, mark : Nat]
Grabbing == {"grab", "send"}

(* The shapes of a rule's tables and runs.                                 *)
GrabShapes ==
    /\ listed \in Catalog
    /\ match \in [Items -> MatchRows]
    /\ seen \subseteq EpisodeKeys
    /\ grabTask \in Seq(TaskRows)
    /\ watermark \in Nat
    /\ runner \in [Runners -> GrabRuns]
    /\ torn \in BOOLEAN

(* What Evaluate makes of an item: an episode is known by a key it stages, *)
(* any other item by its hash or itself.                                   *)
Judged(c) ==
    /\ \A k \in c.staged : k[1] = listed[c.item].episode
    /\ IF listed[c.item].episode = NoValue
       THEN c.staged = {} /\ c.key = contentKeyFor(c.item, {})
       ELSE c.key \in c.staged

(* A run at its hand-off has a judged candidate, a row for it and a slot;  *)
(* once handed off, the task is there.                                     *)
HonestRun(r) ==
    /\ \A c \in runner[r].cands : Judged(c)
    /\ runner[r].pc = "idle" => runner[r].cands = {}
    /\ runner[r].pc \in Grabbing =>
         /\ runner[r].cur \in Candidates /\ Judged(runner[r].cur)
         /\ match[runner[r].cur.item].status # "none"
         /\ runner[r].sent < MaxPerRun
    /\ runner[r].pc = "send" => \E n \in GrabTasks : grabTask[n].item = runner[r].cur.item
RunsHonest == \A r \in Runners : HonestRun(r)

(* Until runs overlap there is one.                                        *)
RunAlone ==
    ~torn => \A q, r \in Runners : runner[q].pc # "idle" /\ runner[r].pc # "idle" => q = r

(* A candidate beats every task its content key has had.                   *)
Improves(c) ==
    \A n \in GrabTasks : grabTask[n].key = c.key => listed[grabTask[n].item].score < listed[c.item].score

(* What an undisturbed run still holds when it comes to grab: its          *)
(* candidates improve, their keys differ from the one in hand, and the row *)
(* of that one is as queueMatch wrote it.                                  *)
ImprovingRun(r) ==
    /\ \A d \in runner[r].cands : Improves(d)
    /\ runner[r].pc \in Grabbing =>
         /\ \A d \in runner[r].cands : d.key # runner[r].cur.key
         /\ match[runner[r].cur.item].key = runner[r].cur.key
         /\ match[runner[r].cur.item].score = listed[runner[r].cur.item].score
    /\ runner[r].pc = "grab" => Improves(runner[r].cur)
    /\ runner[r].pc = "send" =>
         /\ Len(grabTask) > 0
         /\ grabTask[Len(grabTask)].item = runner[r].cur.item
         /\ grabTask[Len(grabTask)].key = runner[r].cur.key
RunImproves == ~torn => \A r \in Runners : ImprovingRun(r)

(* How a created task is remembered: its key as a seen episode, or its row *)
(* as sent with the score it had.  The task in hand is to follow.          *)
RowRemembers(n) ==
    /\ listed[grabTask[n].item].episode = NoValue
    /\ grabTask[n].key = contentKeyFor(grabTask[n].item, {})
    /\ match[grabTask[n].item].status = "sent"
    /\ match[grabTask[n].item].key = grabTask[n].key
    /\ match[grabTask[n].item].score = listed[grabTask[n].item].score
Remembered(n) == grabTask[n].key \in seen \/ RowRemembers(n)
TasksRemembered ==
    ~torn => \A n \in GrabTasks :
        Remembered(n) \/ (n = Len(grabTask) /\ \E r \in Runners : runner[r].pc = "send")

GrabInv ==
    /\ GrabShapes /\ RunsHonest /\ RunAlone /\ RunImproves /\ TasksRemembered
    /\ OnlyGrabsConsume /\ GrabEvidence /\ GrabbedOnce

--------------------------------------------------------------------------------
LEMMA EmptyRun == NoRun \in GrabRuns /\ NoRun.pc = "idle" /\ NoRun.cands = {}
<1>1. 0 \in 0 .. MaxPerRun
    BY GrabAssumption
<1> QED
    BY <1>1 DEF NoRun, GrabRuns

LEMMA GrabInitInv == GrabInit => GrabInv
<1> SUFFICES ASSUME GrabInit PROVE GrabInv
    OBVIOUS
<1> USE DEF GrabInit
<1>1. runner \in [Runners -> GrabRuns] /\ \A r \in Runners : runner[r] = NoRun
    BY EmptyRun
<1>2. GrabTasks = {} /\ grabTask \in Seq(TaskRows)
    BY DEF GrabTasks
<1>3. NoMatch \in MatchRows
    BY DEF NoMatch, MatchRows, ContentKeys, InfoHashes
<1>4. GrabShapes
    BY <1>1, <1>2, <1>3, GrabAssumption DEF GrabShapes
<1>5. RunsHonest /\ RunAlone /\ RunImproves
    BY <1>1, EmptyRun DEF RunsHonest, HonestRun, RunAlone, RunImproves, ImprovingRun, Grabbing
<1>6. OnlyGrabsConsume
    BY DEF OnlyGrabsConsume, NoMatch
<1>7. TasksRemembered /\ GrabEvidence /\ GrabbedOnce
    BY <1>2 DEF TasksRemembered, GrabEvidence, GrabbedOnce
<1> QED
    BY <1>4, <1>5, <1>6, <1>7 DEF GrabInv

--------------------------------------------------------------------------------
(* Evaluate.                                                               *)

LEMMA CatalogRow ==
    ASSUME GrabShapes, NEW i \in Items
    PROVE  /\ listed[i].episode \in Episodes /\ listed[i].tags \in SUBSET {"REPACK", "PROPER"}
           /\ listed[i].hash \in InfoHashes /\ listed[i].score \in Nat /\ listed[i].published \in Nat
BY DEF GrabShapes, Catalog, Episodes, InfoHashes

LEMMA TaskRow ==
    ASSUME GrabShapes, NEW n \in GrabTasks
    PROVE  /\ n \in 1 .. Len(grabTask) /\ grabTask[n] \in TaskRows
           /\ grabTask[n].item \in Items /\ grabTask[n].key \in ContentKeys
<1>1. n \in 1 .. Len(grabTask) /\ grabTask[n] \in TaskRows
    BY DEF GrabShapes, GrabTasks
<1> QED
    BY <1>1 DEF TaskRows

(* The keys an item stages are unseen keys of its episode.                 *)
LEMMA StagedUnseen ==
    ASSUME GrabShapes, NEW i \in Items
    PROVE  /\ Staged(i) \in SUBSET EpisodeKeys
           /\ Staged(i) \intersect seen = {}
           /\ \A k \in Staged(i) : k[1] = listed[i].episode
<1>1. CASE <<listed[i].episode, "">> \notin seen
  <2>1. Staged(i) = {<<listed[i].episode, "">>}
      BY <1>1 DEF Staged
  <2>2. <<listed[i].episode, "">> \in EpisodeKeys
      BY CatalogRow DEF EpisodeKeys, Tags
  <2>3. \A k \in Staged(i) : k[1] = listed[i].episode
    <3>1. <<listed[i].episode, "">>[1] = listed[i].episode
        OBVIOUS
    <3> QED
        BY <2>1, <3>1
  <2> QED
      BY <1>1, <2>1, <2>2, <2>3
<1>2. CASE <<listed[i].episode, "">> \in seen
  <2>1. Staged(i) = {<<listed[i].episode, t>> : t \in listed[i].tags} \ seen
      BY <1>2 DEF Staged
  <2>2. listed[i].tags \subseteq Tags
      BY CatalogRow DEF Tags
  <2> QED
      BY <2>1, <2>2, CatalogRow DEF EpisodeKeys
<1> QED
    BY <1>1, <1>2

LEMMA FirstStaged == ASSUME NEW S, S # {} PROVE First(S) \in S
<1>1. \E k \in S : k[2] = "PROPER" => \A j \in S : j[2] = "PROPER"
    OBVIOUS
<1> QED
    BY <1>1 DEF First

LEMMA PlainKey ==
    ASSUME GrabShapes, NEW i \in Items
    PROVE  contentKeyFor(i, {}) \in ContentKeys /\ contentKeyFor(i, {}) \notin EpisodeKeys
<1>1. \/ contentKeyFor(i, {}) = <<listed[i].hash>> /\ listed[i].hash \in STRING
      \/ contentKeyFor(i, {}) = <<i>>
    BY CatalogRow DEF contentKeyFor, InfoHashes
<1>2. contentKeyFor(i, {}) \in ContentKeys
    BY <1>1 DEF ContentKeys
<1>3. contentKeyFor(i, {}) \notin EpisodeKeys
    BY <1>1 DEF EpisodeKeys
<1> QED
    BY <1>2, <1>3

LEMMA AcceptedJudged ==
    ASSUME GrabShapes, NEW i \in Items, NEW staged,
           staged = IF listed[i].episode = NoValue THEN {} ELSE Staged(i), RuleAccepts(i, staged)
    PROVE  LET c == [item |-> i, key |-> contentKeyFor(i, staged), staged |-> staged]
           IN c \in Candidates /\ Judged(c) /\ c.staged \intersect seen = {}
<1> DEFINE c == [item |-> i, key |-> contentKeyFor(i, staged), staged |-> staged]
<1>1. CASE listed[i].episode = NoValue
  <2>1. staged = {}
      BY <1>1
  <2> QED
      BY <1>1, <2>1, PlainKey DEF Candidates, Judged
<1>2. CASE listed[i].episode # NoValue
  <2>1. staged = Staged(i) /\ staged # {}
      BY <1>2 DEF RuleAccepts
  <2>2. contentKeyFor(i, staged) \in staged
      BY <2>1, FirstStaged DEF contentKeyFor
  <2>3. staged \in SUBSET EpisodeKeys /\ staged \intersect seen = {} /\ \A k \in staged : k[1] = listed[i].episode
      BY <2>1, StagedUnseen
  <2>4. contentKeyFor(i, staged) \in ContentKeys
      BY <2>2, <2>3 DEF ContentKeys
  <2>5. c \in Candidates /\ c.item = i /\ c.key = contentKeyFor(i, staged) /\ c.staged = staged
      BY <2>3, <2>4 DEF Candidates
  <2> QED
      BY <1>2, <2>2, <2>3, <2>5 DEF Judged
<1> QED
    BY <1>1, <1>2

(* An accepted item beats the tasks that are remembered.                   *)
LEMMA AcceptedImproves ==
    ASSUME GrabShapes, \A n \in GrabTasks : Remembered(n), NEW c \in Candidates, Judged(c),
           c.staged \intersect seen = {}, c.key = contentKeyFor(c.item, c.staged), RuleAccepts(c.item, c.staged)
    PROVE  Improves(c)
<1> SUFFICES ASSUME NEW n \in GrabTasks, grabTask[n].key = c.key
             PROVE  listed[grabTask[n].item].score < listed[c.item].score
    BY DEF Improves
<1>0. grabTask[n].item \in Items /\ c.item \in Items
    BY TaskRow DEF Candidates
<1>1. c.key \notin seen
  <2>1. CASE listed[c.item].episode = NoValue
      BY <2>1, <1>0, PlainKey DEF Judged, GrabShapes
  <2>2. CASE listed[c.item].episode # NoValue
      BY <2>2 DEF Judged
  <2> QED
      BY <2>1, <2>2
<1>2. RowRemembers(n)
    BY <1>1 DEF Remembered
<1>3. match[grabTask[n].item].score \in BestScoreForContentKey(c.key)
    BY <1>0, <1>2 DEF BestScoreForContentKey, RowRemembers
<1>4. listed[c.item].score > match[grabTask[n].item].score
    BY <1>3 DEF RuleAccepts
<1> QED
    BY <1>2, <1>4, <1>0, CatalogRow DEF RowRemembers


--------------------------------------------------------------------------------
(* The steps of a run.                                                     *)

RunMoves(r) ==
    /\ runner' \in [Runners -> GrabRuns]
    /\ \A q \in Runners \ {r} : runner'[q] = runner[q]

LEMMA RunWritten ==
    ASSUME GrabShapes, NEW r \in Runners, NEW rec \in GrabRuns, runner' = [runner EXCEPT ![r] = rec]
    PROVE  RunMoves(r) /\ runner'[r] = rec
BY DEF RunMoves, GrabShapes

(* The tables stay: what was said of tasks and rows still holds.           *)
LEMMA TablesStay ==
    ASSUME GrabInv, UNCHANGED <<listed, match, seen, grabTask>>, torn' \in BOOLEAN, torn => torn'
    PROVE  /\ OnlyGrabsConsume' /\ GrabEvidence' /\ GrabbedOnce'
           /\ \A n \in GrabTasks : n \in GrabTasks' /\ (Remembered(n) <=> Remembered(n)')
           /\ \A c \in Candidates : (Judged(c) <=> Judged(c)') /\ (Improves(c) <=> Improves(c)')
<1>1. OnlyGrabsConsume' /\ GrabEvidence' /\ GrabbedOnce'
    BY DEF GrabInv, OnlyGrabsConsume, GrabEvidence, GrabbedOnce, GrabTasks
<1>2. \A n \in GrabTasks : n \in GrabTasks' /\ (Remembered(n) <=> Remembered(n)')
    BY DEF GrabTasks, Remembered, RowRemembers, contentKeyFor
<1>3. \A c \in Candidates : (Judged(c) <=> Judged(c)') /\ (Improves(c) <=> Improves(c)')
    BY DEF GrabTasks, Judged, Improves, contentKeyFor
<1> QED
    BY <1>1, <1>2, <1>3

LEMMA HonestStays ==
    ASSUME GrabInv, UNCHANGED <<listed, match, seen, grabTask>>, torn' \in BOOLEAN, torn => torn',
           NEW q \in Runners, runner'[q] = runner[q]
    PROVE  HonestRun(q)' /\ (~torn' => ImprovingRun(q)')
<1>1. HonestRun(q) /\ (~torn => ImprovingRun(q)) /\ runner[q].cands \subseteq Candidates
    BY DEF GrabInv, RunsHonest, RunImproves, GrabShapes, GrabRuns
<1>2. \A c \in Candidates : (Judged(c) => Judged(c)') /\ (Improves(c) => Improves(c)')
    BY TablesStay
<1>3. HonestRun(q)'
    BY <1>1, <1>2 DEF HonestRun, GrabTasks
<1>4. ~torn' => ImprovingRun(q)'
    BY <1>1, <1>2 DEF HonestRun, ImprovingRun, Grabbing
<1> QED
    BY <1>3, <1>4

(* The runs that end or begin leave no hand-off behind.                    *)
LEMMA RunResets ==
    ASSUME GrabInv, NEW r \in Runners, UNCHANGED <<listed, match, seen, grabTask>>,
           torn' \in BOOLEAN, torn => torn', watermark' \in Nat, RunMoves(r),
           runner'[r].pc \in {"idle", "evaluate"}, runner'[r].cands = {},
           runner[r].pc = "send" => torn',
           ~torn' => runner'[r].pc = "idle" \/ \A q \in Runners \ {r} : runner[q].pc = "idle"
    PROVE  GrabInv'
<1> USE DEF GrabInv, RunMoves
<1>1. GrabShapes'
    BY DEF GrabShapes
<1>2. RunsHonest'
  <2>1. ASSUME NEW q \in Runners, runner'[q] = runner[q] PROVE HonestRun(q)'
      BY <2>1, HonestStays
  <2>2. runner'[r] # runner[r] => HonestRun(r)'
      BY DEF HonestRun, Grabbing
  <2> QED
      BY <2>1, <2>2 DEF RunsHonest
<1>3. RunAlone'
    BY DEF RunAlone
<1>4. RunImproves'
  <2>1. ASSUME ~torn', NEW q \in Runners, runner'[q] = runner[q] PROVE ImprovingRun(q)'
      BY <2>1, HonestStays
  <2>2. ASSUME ~torn' PROVE ImprovingRun(r)'
      BY <2>2 DEF ImprovingRun, Grabbing
  <2> QED
      BY <2>1, <2>2 DEF RunImproves
<1>5. TasksRemembered'
    BY TablesStay DEF TasksRemembered, GrabTasks
<1> QED
    BY <1>1, <1>2, <1>3, <1>4, <1>5, TablesStay

LEMMA BeginRun == ASSUME GrabInv, NEW r \in Runners, RunBegin(r) PROVE GrabInv'
<1> USE DEF GrabInv
<1>1. UNCHANGED <<listed, match, seen, grabTask, watermark>> /\ runner[r].pc = "idle"
      /\ torn' \in BOOLEAN /\ (torn => torn') /\ (~torn' => ~Overlap(r))
    BY DEF RunBegin, RunAt, GrabShapes
<1>2. RunMoves(r) /\ runner'[r].pc = "evaluate" /\ runner'[r].cands = {}
  <2> DEFINE v == [NoRun EXCEPT !.pc = "evaluate", !.todo = Items, !.mark = watermark]
  <2>1. v \in GrabRuns /\ v.pc = "evaluate" /\ v.cands = {}
      BY EmptyRun DEF GrabShapes, GrabRuns
  <2>2. runner' = [runner EXCEPT ![r] = v]
      BY DEF RunBegin
  <2> QED
      BY <2>1, <2>2 DEF RunMoves, GrabShapes
<1>3. watermark' \in Nat
    BY <1>1 DEF GrabShapes
<1>4. ~torn' => \A q \in Runners \ {r} : runner[q].pc = "idle"
    BY <1>1 DEF Overlap
<1> QED
    BY <1>1, <1>2, <1>3, <1>4, RunResets

LEMMA EndRun == ASSUME GrabInv, NEW r \in Runners, RunEnd(r) PROVE GrabInv'
<1> USE DEF GrabInv
<1>1. UNCHANGED <<listed, match, seen, grabTask, torn>> /\ runner[r].pc = "evaluate"
    BY DEF RunEnd, RunAt
<1>2. watermark' \in Nat
    BY DEF RunEnd, SetRuleLastMatchAt, GrabShapes, GrabRuns
<1>3. RunMoves(r) /\ runner'[r].pc = "idle" /\ runner'[r].cands = {}
    BY EmptyRun DEF RunEnd, RunMoves, GrabShapes
<1>4. torn' \in BOOLEAN
    BY <1>1 DEF GrabShapes
<1> QED
    BY <1>1, <1>2, <1>3, <1>4, RunResets

LEMMA CrashRuns == ASSUME GrabInv, GrabCrash PROVE GrabInv'
<1> USE DEF GrabInv
<1>1. UNCHANGED <<listed, match, seen, grabTask, watermark>> /\ torn' \in BOOLEAN /\ (torn => torn')
      /\ (~torn' => \A r \in Runners : runner[r].pc # "send")
    BY DEF GrabCrash, RunAt, GrabShapes
<1>2. runner' \in [Runners -> GrabRuns] /\ \A r \in Runners : runner'[r].pc = "idle" /\ runner'[r].cands = {}
    BY EmptyRun DEF GrabCrash
<1>3. GrabShapes'
    BY <1>1, <1>2 DEF GrabShapes
<1>4. RunsHonest' /\ RunAlone' /\ RunImproves'
    BY <1>2 DEF RunsHonest, HonestRun, RunAlone, RunImproves, ImprovingRun, Grabbing
<1>5. TasksRemembered'
    BY <1>1, TablesStay DEF TasksRemembered, GrabTasks
<1> QED
    BY <1>1, <1>3, <1>4, <1>5, TablesStay

(* A run that evaluates has the rules to itself, if any has.               *)
LEMMA NobodySends ==
    ASSUME GrabInv, ~torn, NEW r \in Runners, runner[r].pc \in {"evaluate", "grab"}
    PROVE  \A n \in GrabTasks : Remembered(n)
BY DEF GrabInv, RunAlone, TasksRemembered

LEMMA EvaluateKeeps == ASSUME GrabInv, NEW r \in Runners, evaluateItem(r) PROVE GrabInv'
<1> USE DEF GrabInv
<1>1. UNCHANGED <<listed, match, seen, grabTask, watermark, torn>> /\ runner[r].pc = "evaluate"
      /\ runner[r].todo # {}
    BY DEF evaluateItem, RunAt
<1>2. PICK i, cands :
        /\ i \in runner[r].todo
        /\ runner' = [runner EXCEPT ![r].todo = runner[r].todo \ {i}, ![r].cands = cands]
        /\ \/ cands = runner[r].cands
           \/ LET staged == IF listed[i].episode = NoValue THEN {} ELSE Staged(i)
              IN  /\ RuleAccepts(i, staged)
                  /\ cands = runner[r].cands \union {[item |-> i, key |-> contentKeyFor(i, staged), staged |-> staged]}
    BY DEF evaluateItem, Newest
<1> DEFINE staged == IF listed[i].episode = NoValue THEN {} ELSE Staged(i)
           c == [item |-> i, key |-> contentKeyFor(i, staged), staged |-> staged]
<1>3. i \in Items /\ runner[r].todo \subseteq Items /\ runner[r].cands \subseteq Candidates
    BY <1>2 DEF GrabShapes, GrabRuns
<1>4. RuleAccepts(i, staged) => c \in Candidates /\ Judged(c) /\ c.staged \intersect seen = {}
    BY <1>3, AcceptedJudged
<1>5. RuleAccepts(i, staged) /\ ~torn => Improves(c)
    BY <1>1, <1>4, NobodySends, AcceptedImproves
<1> HIDE DEF c, staged
<1>6. /\ cands \subseteq Candidates
      /\ \A d \in cands : Judged(d) /\ (~torn => Improves(d))
    BY <1>2, <1>3, <1>4, <1>5 DEF RunsHonest, HonestRun, RunImproves, ImprovingRun, c, staged
<1>7. RunMoves(r) /\ runner'[r].pc = "evaluate" /\ runner'[r].cands = cands
  <2> DEFINE rec == [runner[r] EXCEPT !.todo = runner[r].todo \ {i}, !.cands = cands]
  <2>1. runner' = [runner EXCEPT ![r] = rec] /\ runner[r] \in GrabRuns
      BY <1>2 DEF GrabShapes
  <2>2. rec \in GrabRuns /\ rec.pc = "evaluate" /\ rec.cands = cands
      BY <1>1, <1>3, <1>6, <2>1 DEF GrabRuns
  <2> HIDE DEF rec
  <2> QED
      BY <2>1, <2>2, RunWritten
<1>8. GrabShapes'
    BY <1>1, <1>7 DEF GrabShapes, RunMoves
<1>9. torn' \in BOOLEAN /\ (torn => torn')
    BY <1>1 DEF GrabShapes
<1>10. RunsHonest'
  <2>1. \A d \in cands : Judged(d)'
      BY <1>1, <1>6, <1>9, TablesStay
  <2>2. \A q \in Runners \ {r} : HonestRun(q)'
      BY <1>1, <1>7, <1>9, HonestStays DEF RunMoves
  <2>3. HonestRun(r)'
      BY <1>7, <2>1 DEF HonestRun, Grabbing
  <2> QED
      BY <2>2, <2>3 DEF RunsHonest
<1>11. RunAlone'
    BY <1>1, <1>7 DEF RunAlone, RunMoves
<1>12. RunImproves'
  <2> SUFFICES ASSUME ~torn PROVE RunImproves'
      BY <1>1 DEF RunImproves
  <2>1. \A d \in cands : Improves(d)'
      BY <1>1, <1>6, <1>9, TablesStay
  <2>2. \A q \in Runners \ {r} : runner'[q].pc = "idle" /\ runner'[q].cands = {}
      BY <1>1, <1>7 DEF RunMoves, RunAlone, RunsHonest, HonestRun
  <2> QED
      BY <1>7, <2>1, <2>2 DEF RunImproves, ImprovingRun, Grabbing
<1>13. TasksRemembered'
    BY <1>1, <1>9, TablesStay, NobodySends DEF TasksRemembered, GrabTasks
<1> QED
    BY <1>1, <1>8, <1>9, <1>10, <1>11, <1>12, <1>13, TablesStay


(* A row that remembers a task is out of the reach of a candidate that     *)
(* improves on it: they are different items.                               *)
LEMMA RowsApart ==
    ASSUME GrabShapes, NEW c \in Candidates, Judged(c), Improves(c), NEW n \in GrabTasks, RowRemembers(n)
    PROVE  grabTask[n].item # c.item
<1> SUFFICES ASSUME grabTask[n].item = c.item PROVE FALSE
    OBVIOUS
<1>1. c.key = grabTask[n].key
    BY DEF RowRemembers, Judged
<1>2. listed[c.item].score < listed[c.item].score
    BY <1>1 DEF Improves
<1>3. listed[c.item].score \in Nat
    BY CatalogRow DEF Candidates
<1> QED
    BY <1>2, <1>3

(* Writing the row of such a candidate, its hash kept or cleared.          *)
LEMMA RowWritten ==
    ASSUME GrabInv, NEW r \in Runners, NEW c \in Candidates, Judged(c), ~torn => Improves(c),
           UNCHANGED <<listed, seen, grabTask, torn>>, runner[r].pc \in {"evaluate", "grab"},
           match' \in [Items -> MatchRows], \A i \in Items \ {c.item} : match'[i] = match[i],
           match'[c.item].status # "none", match'[c.item].hash \in {NoValue, match[c.item].hash}
    PROVE  /\ OnlyGrabsConsume' /\ GrabEvidence' /\ GrabbedOnce' /\ TasksRemembered'
           /\ \A d \in Candidates : (Judged(d) => Judged(d)') /\ (Improves(d) => Improves(d)')
<1> USE DEF GrabInv
<1>0. c.item \in Items /\ \A n \in GrabTasks : grabTask[n].item \in Items
    BY TaskRow DEF Candidates
<1>1. OnlyGrabsConsume' /\ GrabbedOnce'
    BY <1>0 DEF OnlyGrabsConsume, GrabbedOnce, GrabTasks
<1>2. GrabEvidence'
    BY <1>0 DEF GrabEvidence, GrabTasks
<1>3. TasksRemembered'
  <2> SUFFICES ASSUME ~torn, NEW n \in GrabTasks PROVE Remembered(n)'
      BY DEF TasksRemembered, GrabTasks
  <2>1. Remembered(n)
      BY NobodySends
  <2>2. CASE grabTask[n].key \in seen
      BY <2>2 DEF Remembered
  <2>3. CASE RowRemembers(n)
    <3>1. match'[grabTask[n].item] = match[grabTask[n].item]
        BY <2>3, <1>0, RowsApart
    <3> QED
        BY <2>3, <3>1 DEF Remembered, RowRemembers, contentKeyFor
  <2> QED
      BY <2>1, <2>2, <2>3 DEF Remembered
<1>4. \A d \in Candidates : (Judged(d) => Judged(d)') /\ (Improves(d) => Improves(d)')
    BY DEF Judged, Improves, GrabTasks, contentKeyFor
<1> QED
    BY <1>1, <1>2, <1>3, <1>4

(* The other runs of a step that writes one row.                           *)
LEMMA OthersHonest ==
    ASSUME GrabInv, NEW r \in Runners, RunMoves(r), UNCHANGED listed,
           \A i \in Items : match[i].status # "none" => match'[i].status # "none",
           \A n \in GrabTasks : n \in GrabTasks' /\ grabTask'[n].item = grabTask[n].item,
           NEW q \in Runners \ {r}
    PROVE  HonestRun(q)' /\ (~torn /\ runner[r].pc # "idle" => runner'[q].pc = "idle" /\ runner'[q].cands = {})
<1> USE DEF GrabInv
<1>1. HonestRun(q) /\ runner[q] \in GrabRuns /\ runner'[q] = runner[q]
    BY DEF RunsHonest, GrabShapes, RunMoves
<1>2. \A c \in Candidates : Judged(c) => Judged(c)'
    BY DEF Judged, contentKeyFor
<1>3. HonestRun(q)'
  <2>1. \A c \in runner[q].cands : Judged(c)'
      BY <1>1, <1>2 DEF HonestRun, GrabRuns
  <2>2. runner[q].pc \in Grabbing => runner[q].cur.item \in Items
      BY <1>1 DEF HonestRun, Candidates
  <2> QED
      BY <1>1, <1>2, <2>1, <2>2 DEF HonestRun, Grabbing
<1>4. ~torn /\ runner[r].pc # "idle" => runner'[q].pc = "idle" /\ runner'[q].cands = {}
    BY <1>1 DEF RunAlone, HonestRun
<1> QED
    BY <1>3, <1>4

LEMMA UpsertRow ==
    ASSUME GrabInv, NEW c \in Candidates, NEW status \in {"queued", "fallback"}, upsertMatch(c, status)
    PROVE  /\ match' \in [Items -> MatchRows]
           /\ \A i \in Items \ {c.item} : match'[i] = match[i]
           /\ match'[c.item].status = status /\ match'[c.item].hash = NoValue
           /\ match'[c.item].key = c.key /\ match'[c.item].score = listed[c.item].score
<1> DEFINE v == [status |-> status, key |-> c.key, hash |-> NoValue, score |-> listed[c.item].score]
<1>1. c.item \in Items /\ v \in MatchRows
    BY CatalogRow DEF GrabInv, Candidates, MatchRows, InfoHashes
<1>2. match' = [match EXCEPT ![c.item] = v]
    BY DEF upsertMatch
<1> HIDE DEF v
<1>3. match' \in [Items -> MatchRows] /\ (\A i \in Items \ {c.item} : match'[i] = match[i]) /\ match'[c.item] = v
    BY <1>1, <1>2 DEF GrabInv, GrabShapes
<1> QED
    BY <1>3 DEF v

LEMMA FallbackKeeps == ASSUME GrabInv, NEW r \in Runners, recordFallback(r) PROVE GrabInv'
<1> USE DEF GrabInv
<1>1. UNCHANGED <<listed, seen, grabTask, watermark, torn>> /\ runner[r].pc = "evaluate"
    BY DEF recordFallback, RunAt
<1>2. PICK c \in runner[r].cands : upsertMatch(c, "fallback")
                                  /\ runner' = [runner EXCEPT ![r].cands = runner[r].cands \ {c}]
    BY DEF recordFallback, Losers
<1>3. runner[r].cands \subseteq Candidates /\ c \in Candidates /\ HonestRun(r) /\ (~torn => ImprovingRun(r))
    BY DEF GrabShapes, GrabRuns, RunsHonest, RunImproves
<1>4. Judged(c) /\ (~torn => Improves(c))
    BY <1>3 DEF HonestRun, ImprovingRun
<1>5. RunMoves(r) /\ runner'[r].pc = "evaluate" /\ runner'[r].cands = runner[r].cands \ {c}
  <2> DEFINE rec == [runner[r] EXCEPT !.cands = runner[r].cands \ {c}]
  <2>1. runner' = [runner EXCEPT ![r] = rec] /\ runner[r] \in GrabRuns
      BY <1>2 DEF GrabShapes
  <2>2. rec \in GrabRuns /\ rec.pc = "evaluate" /\ rec.cands = runner[r].cands \ {c}
      BY <1>1, <1>3, <2>1 DEF GrabRuns
  <2> HIDE DEF rec
  <2> QED
      BY <2>1, <2>2, RunWritten
<1>6. /\ match' \in [Items -> MatchRows] /\ \A i \in Items \ {c.item} : match'[i] = match[i]
      /\ match'[c.item].status # "none" /\ match'[c.item].hash = NoValue
    BY <1>2, <1>3, UpsertRow
<1>7. /\ OnlyGrabsConsume' /\ GrabEvidence' /\ GrabbedOnce' /\ TasksRemembered'
      /\ \A d \in Candidates : (Judged(d) => Judged(d)') /\ (Improves(d) => Improves(d)')
    BY <1>1, <1>3, <1>4, <1>6, RowWritten
<1>8. GrabShapes'
    BY <1>1, <1>5, <1>6 DEF GrabShapes, RunMoves
<1>9. \A q \in Runners \ {r} : HonestRun(q)' /\ (~torn => runner'[q].pc = "idle" /\ runner'[q].cands = {})
  <2>1. \A i \in Items : match[i].status # "none" => match'[i].status # "none"
      BY <1>6
  <2>2. \A n \in GrabTasks : n \in GrabTasks' /\ grabTask'[n].item = grabTask[n].item
      BY <1>1 DEF GrabTasks
  <2> QED
      BY <1>1, <1>5, <2>1, <2>2, OthersHonest
<1>10. RunsHonest'
  <2>1. HonestRun(r)'
      BY <1>3, <1>5, <1>7 DEF HonestRun, Grabbing
  <2> QED
      BY <1>9, <2>1 DEF RunsHonest
<1>11. RunAlone'
    BY <1>1, <1>9 DEF RunAlone
<1>12. RunImproves'
  <2> SUFFICES ASSUME ~torn PROVE \A q \in Runners : ImprovingRun(q)'
      BY <1>1 DEF RunImproves
  <2>1. ImprovingRun(r)'
      BY <1>3, <1>5, <1>7 DEF ImprovingRun, Grabbing
  <2>2. \A q \in Runners \ {r} : ImprovingRun(q)'
      BY <1>9 DEF ImprovingRun, Grabbing
  <2> QED
      BY <2>1, <2>2
<1> QED
    BY <1>7, <1>8, <1>10, <1>11, <1>12

LEMMA QueueKeeps == ASSUME GrabInv, NEW r \in Runners, queueMatch(r) PROVE GrabInv'
<1> USE DEF GrabInv
<1>1. /\ UNCHANGED <<listed, seen, grabTask, watermark, torn>> /\ runner[r].pc = "evaluate"
      /\ Losers(runner[r].cands) = {} /\ runner[r].sent < MaxPerRun
    BY DEF queueMatch, RunAt, Slot
<1>2. PICK c \in runner[r].cands :
        /\ upsertMatch(c, "queued")
        /\ runner' = [runner EXCEPT ![r].pc = "grab", ![r].cur = c, ![r].cands = runner[r].cands \ {c}]
    BY DEF queueMatch, Best
<1>3. runner[r].cands \subseteq Candidates /\ c \in Candidates /\ HonestRun(r) /\ (~torn => ImprovingRun(r))
    BY DEF GrabShapes, GrabRuns, RunsHonest, RunImproves
<1>4. Judged(c) /\ (~torn => Improves(c))
    BY <1>3 DEF HonestRun, ImprovingRun
<1>5. /\ RunMoves(r) /\ runner'[r].pc = "grab" /\ runner'[r].cands = runner[r].cands \ {c}
      /\ runner'[r].cur = c /\ runner'[r].sent = runner[r].sent
  <2> DEFINE rec == [runner[r] EXCEPT !.pc = "grab", !.cur = c, !.cands = runner[r].cands \ {c}]
  <2>1. runner' = [runner EXCEPT ![r] = rec] /\ runner[r] \in GrabRuns
      BY <1>2 DEF GrabShapes
  <2>2. /\ rec \in GrabRuns /\ rec.pc = "grab" /\ rec.cands = runner[r].cands \ {c}
        /\ rec.cur = c /\ rec.sent = runner[r].sent
      BY <1>1, <1>3, <2>1 DEF GrabRuns
  <2> HIDE DEF rec
  <2> QED
      BY <2>1, <2>2, RunWritten
<1>6. /\ match' \in [Items -> MatchRows] /\ \A i \in Items \ {c.item} : match'[i] = match[i]
      /\ match'[c.item].status # "none" /\ match'[c.item].hash = NoValue
      /\ match'[c.item].key = c.key /\ match'[c.item].score = listed[c.item].score
    BY <1>2, <1>3, UpsertRow
<1>7. /\ OnlyGrabsConsume' /\ GrabEvidence' /\ GrabbedOnce' /\ TasksRemembered'
      /\ \A d \in Candidates : (Judged(d) => Judged(d)') /\ (Improves(d) => Improves(d)')
    BY <1>1, <1>3, <1>4, <1>6, RowWritten
<1>8. GrabShapes'
    BY <1>1, <1>5, <1>6 DEF GrabShapes, RunMoves
<1>9. \A q \in Runners \ {r} : HonestRun(q)' /\ (~torn => runner'[q].pc = "idle" /\ runner'[q].cands = {})
  <2>1. \A i \in Items : match[i].status # "none" => match'[i].status # "none"
      BY <1>6
  <2>2. \A n \in GrabTasks : n \in GrabTasks' /\ grabTask'[n].item = grabTask[n].item
      BY <1>1 DEF GrabTasks
  <2> QED
      BY <1>1, <1>5, <2>1, <2>2, OthersHonest
<1>10. RunsHonest'
  <2>1. HonestRun(r)'
      BY <1>1, <1>3, <1>4, <1>5, <1>6, <1>7 DEF HonestRun, Grabbing
  <2> QED
      BY <1>9, <2>1 DEF RunsHonest
<1>11. RunAlone'
    BY <1>1, <1>9 DEF RunAlone
(* Resolve left one candidate per key.                                     *)
<1>12. \A d \in runner[r].cands \ {c} : d.key # c.key
  <2> SUFFICES ASSUME NEW d \in runner[r].cands \ {c}, d.key = c.key PROVE FALSE
      OBVIOUS
  <2>1. Better(c.item, d.item) /\ Better(d.item, c.item)
      BY <1>1 DEF Losers
  <2>2. listed[c.item] \in [episode : Episodes, tags : SUBSET {"REPACK", "PROPER"},
                            hash : InfoHashes, score : Nat, priority : Nat, published : Nat]
        /\ listed[d.item] \in [episode : Episodes, tags : SUBSET {"REPACK", "PROPER"},
                            hash : InfoHashes, score : Nat, priority : Nat, published : Nat]
      BY <1>3 DEF GrabShapes, Catalog, Candidates, Episodes, InfoHashes
  <2> QED
      BY <2>1, <2>2 DEF Better
<1>13. RunImproves'
  <2> SUFFICES ASSUME ~torn PROVE \A q \in Runners : ImprovingRun(q)'
      BY <1>1 DEF RunImproves
  <2>1. ImprovingRun(r)'
      BY <1>1, <1>3, <1>4, <1>5, <1>6, <1>7, <1>12 DEF ImprovingRun, Grabbing
  <2>2. \A q \in Runners \ {r} : ImprovingRun(q)'
      BY <1>9 DEF ImprovingRun, Grabbing
  <2> QED
      BY <2>1, <2>2
<1> QED
    BY <1>7, <1>8, <1>10, <1>11, <1>13


LEMMA RefusedKeeps == ASSUME GrabInv, NEW r \in Runners, TaskRefused(r) PROVE GrabInv'
<1> USE DEF GrabInv
<1> DEFINE c == runner[r].cur
<1>1. UNCHANGED <<listed, seen, grabTask, watermark, torn>> /\ runner[r].pc = "grab"
    BY DEF TaskRefused, RunAt
<1>2. match' = [match EXCEPT ![c.item].status = "failed"]
      /\ runner' = [runner EXCEPT ![r].pc = "evaluate", ![r].cur = NoValue]
    BY DEF TaskRefused, failMatch
<1>3. /\ HonestRun(r) /\ (~torn => ImprovingRun(r)) /\ runner[r].cands \subseteq Candidates
      /\ c \in Candidates /\ c.item \in Items
    BY <1>1 DEF GrabShapes, GrabRuns, RunsHonest, HonestRun, RunImproves, Candidates, Grabbing
<1>4. Judged(c) /\ (~torn => Improves(c))
    BY <1>1, <1>3 DEF HonestRun, ImprovingRun, Grabbing
<1>5. RunMoves(r) /\ runner'[r].pc = "evaluate" /\ runner'[r].cands = runner[r].cands
  <2> DEFINE rec == [runner[r] EXCEPT !.pc = "evaluate", !.cur = NoValue]
  <2>1. runner' = [runner EXCEPT ![r] = rec] /\ runner[r] \in GrabRuns
      BY <1>2 DEF GrabShapes
  <2>2. rec \in GrabRuns /\ rec.pc = "evaluate" /\ rec.cands = runner[r].cands
      BY <2>1 DEF GrabRuns
  <2> HIDE DEF rec
  <2> QED
      BY <2>1, <2>2, RunWritten
<1>6. /\ match' \in [Items -> MatchRows] /\ \A i \in Items \ {c.item} : match'[i] = match[i]
      /\ match'[c.item].status # "none" /\ match'[c.item].hash = match[c.item].hash
    BY <1>2, <1>3 DEF GrabShapes, MatchRows
<1>7. /\ OnlyGrabsConsume' /\ GrabEvidence' /\ GrabbedOnce' /\ TasksRemembered'
      /\ \A d \in Candidates : (Judged(d) => Judged(d)') /\ (Improves(d) => Improves(d)')
    BY <1>1, <1>3, <1>4, <1>6, RowWritten
<1>8. GrabShapes'
    BY <1>1, <1>5, <1>6 DEF GrabShapes, RunMoves
<1>9. \A q \in Runners \ {r} : HonestRun(q)' /\ (~torn => runner'[q].pc = "idle" /\ runner'[q].cands = {})
  <2>1. \A i \in Items : match[i].status # "none" => match'[i].status # "none"
      BY <1>6
  <2>2. \A n \in GrabTasks : n \in GrabTasks' /\ grabTask'[n].item = grabTask[n].item
      BY <1>1 DEF GrabTasks
  <2> QED
      BY <1>1, <1>5, <2>1, <2>2, OthersHonest
<1>10. RunsHonest'
  <2>1. HonestRun(r)'
      BY <1>3, <1>5, <1>7 DEF HonestRun, Grabbing
  <2> QED
      BY <1>9, <2>1 DEF RunsHonest
<1>11. RunAlone'
    BY <1>1, <1>9 DEF RunAlone
<1>12. RunImproves'
  <2> SUFFICES ASSUME ~torn PROVE \A q \in Runners : ImprovingRun(q)'
      BY <1>1 DEF RunImproves
  <2>1. ImprovingRun(r)'
      BY <1>3, <1>5, <1>7 DEF ImprovingRun, Grabbing
  <2>2. \A q \in Runners \ {r} : ImprovingRun(q)'
      BY <1>9 DEF ImprovingRun, Grabbing
  <2> QED
      BY <2>1, <2>2
<1> QED
    BY <1>7, <1>8, <1>10, <1>11, <1>12

(* The hand-off: the new task is the last of the sequence.                 *)
LEMMA TaskAppended ==
    ASSUME GrabShapes, NEW t \in TaskRows, grabTask' = Append(grabTask, t)
    PROVE  /\ grabTask' \in Seq(TaskRows) /\ Len(grabTask') = Len(grabTask) + 1 /\ Len(grabTask) \in Nat
           /\ GrabTasks = 1 .. Len(grabTask) /\ GrabTasks' = 1 .. Len(grabTask')
           /\ grabTask'[Len(grabTask')] = t
           /\ \A n \in GrabTasks : n \in GrabTasks' /\ n < Len(grabTask') /\ grabTask'[n] = grabTask[n]
           /\ \A n \in GrabTasks' : n \in GrabTasks \/ n = Len(grabTask')
<1>1. /\ grabTask' \in Seq(TaskRows) /\ Len(grabTask') = Len(grabTask) + 1 /\ Len(grabTask) \in Nat
      /\ GrabTasks = 1 .. Len(grabTask) /\ GrabTasks' = 1 .. Len(grabTask')
    BY DEF GrabShapes, GrabTasks
<1>2. grabTask'[Len(grabTask')] = t /\ \A n \in 1 .. Len(grabTask) : grabTask'[n] = grabTask[n]
    BY DEF GrabShapes
<1> QED
    BY <1>1, <1>2

LEMMA CreateKeeps == ASSUME GrabInv, NEW r \in Runners, CreateForRule(r) PROVE GrabInv'
<1> USE DEF GrabInv
<1> DEFINE c == runner[r].cur
           t == [item |-> c.item, key |-> c.key, removed |-> FALSE]
<1>1. UNCHANGED <<listed, match, seen, watermark, torn>> /\ runner[r].pc = "grab"
    BY DEF CreateForRule, RunAt
<1>2. grabTask' = Append(grabTask, t) /\ runner' = [runner EXCEPT ![r].pc = "send"]
    BY DEF CreateForRule
<1>3. /\ HonestRun(r) /\ (~torn => ImprovingRun(r)) /\ runner[r].cands \subseteq Candidates
      /\ c \in Candidates /\ c.item \in Items /\ c.key \in ContentKeys
    BY <1>1 DEF GrabShapes, GrabRuns, RunsHonest, HonestRun, RunImproves, Candidates, Grabbing
<1>4. Judged(c) /\ (~torn => Improves(c)) /\ match[c.item].status # "none"
    BY <1>1, <1>3 DEF HonestRun, ImprovingRun, Grabbing
<1>5. t \in TaskRows /\ t.item = c.item /\ t.key = c.key
    BY <1>3 DEF TaskRows
<1>6. /\ RunMoves(r) /\ runner'[r].pc = "send" /\ runner'[r].cands = runner[r].cands
      /\ runner'[r].cur = c /\ runner'[r].sent = runner[r].sent
  <2>1. DOMAIN runner = Runners /\ runner[r] \in GrabRuns
      BY DEF GrabShapes
  <2>2. /\ runner'[r] = [runner[r] EXCEPT !.pc = "send"] /\ DOMAIN runner' = Runners
        /\ \A q \in Runners \ {r} : runner'[q] = runner[q]
      BY <1>2, <2>1
  <2>3. /\ runner'[r].pc = "send" /\ runner'[r].cands = runner[r].cands
        /\ runner'[r].cur = c /\ runner'[r].sent = runner[r].sent
      BY <2>1, <2>2 DEF GrabRuns
  <2>4. runner' \in [Runners -> GrabRuns]
      BY <1>2, <2>1 DEF GrabRuns, GrabShapes
  <2> QED
      BY <2>2, <2>3, <2>4 DEF RunMoves
<1> HIDE DEF t
<1>7. /\ grabTask' \in Seq(TaskRows) /\ Len(grabTask') = Len(grabTask) + 1 /\ Len(grabTask) \in Nat
      /\ GrabTasks = 1 .. Len(grabTask) /\ GrabTasks' = 1 .. Len(grabTask')
      /\ grabTask'[Len(grabTask')] = t
      /\ \A n \in GrabTasks : n \in GrabTasks' /\ n < Len(grabTask') /\ grabTask'[n] = grabTask[n]
      /\ \A n \in GrabTasks' : n \in GrabTasks \/ n = Len(grabTask')
    BY <1>2, <1>5, TaskAppended
<1>8. GrabShapes'
    BY <1>1, <1>6, <1>7 DEF GrabShapes, RunMoves
<1>9. \A q \in Runners \ {r} : HonestRun(q)' /\ (~torn => runner'[q].pc = "idle" /\ runner'[q].cands = {})
  <2>1. \A i \in Items : match[i].status # "none" => match'[i].status # "none"
      BY <1>1
  <2>2. \A n \in GrabTasks : n \in GrabTasks' /\ grabTask'[n].item = grabTask[n].item
      BY <1>7
  <2> QED
      BY <1>1, <1>6, <2>1, <2>2, OthersHonest
<1>10. Len(grabTask') \in GrabTasks' /\ Len(grabTask') > 0
    BY <1>7
<1>11. RunsHonest'
  <2>1. \A d \in Candidates : Judged(d) => Judged(d)'
      BY <1>1 DEF Judged, contentKeyFor
  <2>2. HonestRun(r)'
      BY <1>1, <1>3, <1>4, <1>5, <1>6, <1>7, <1>10, <2>1 DEF HonestRun, Grabbing
  <2> QED
      BY <1>9, <2>2 DEF RunsHonest
<1>12. RunAlone'
    BY <1>1, <1>9 DEF RunAlone
<1>13. RunImproves'
  <2> SUFFICES ASSUME ~torn PROVE \A q \in Runners : ImprovingRun(q)'
      BY <1>1 DEF RunImproves
  <2>1. ASSUME NEW d \in runner[r].cands PROVE Improves(d)'
    <3>1. Improves(d) /\ d.key # c.key
        BY <1>1, <1>3 DEF ImprovingRun, Grabbing
    <3> QED
        BY <1>1, <1>5, <1>7, <3>1 DEF Improves
  <2>2. ImprovingRun(r)'
      BY <1>1, <1>3, <1>5, <1>6, <1>7, <1>10, <2>1 DEF ImprovingRun, Grabbing
  <2>3. \A q \in Runners \ {r} : ImprovingRun(q)'
      BY <1>9 DEF ImprovingRun, Grabbing
  <2> QED
      BY <2>2, <2>3
<1>14. TasksRemembered'
  <2> SUFFICES ASSUME ~torn, NEW n \in GrabTasks' PROVE Remembered(n)' \/ n = Len(grabTask')
      BY <1>1, <1>6 DEF TasksRemembered
  <2>1. CASE n \in GrabTasks
    <3>1. Remembered(n) /\ grabTask'[n] = grabTask[n]
        BY <2>1, <1>1, <1>7, NobodySends
    <3> QED
        BY <1>1, <3>1 DEF Remembered, RowRemembers, contentKeyFor
  <2> QED
      BY <2>1, <1>7
<1>15. OnlyGrabsConsume'
  <2>1. \A k \in seen : \E n \in GrabTasks' : listed[grabTask'[n].item].episode = k[1]
      BY <1>7 DEF OnlyGrabsConsume
  <2>2. \A i \in Items : match[i].hash # NoValue => \E n \in GrabTasks' : grabTask'[n].item = i
      BY <1>7 DEF OnlyGrabsConsume
  <2> QED
      BY <1>1, <2>1, <2>2 DEF OnlyGrabsConsume
<1>16. GrabEvidence'
    BY <1>1, <1>4, <1>5, <1>7 DEF GrabEvidence
<1>17. GrabbedOnce'
  <2> SUFFICES ASSUME ~torn, NEW m \in GrabTasks', NEW n \in GrabTasks', m < n, grabTask'[m].key = grabTask'[n].key
               PROVE  listed[grabTask'[m].item].score < listed[grabTask'[n].item].score
      BY <1>1 DEF GrabbedOnce
  <2>1. m \in GrabTasks
      BY <1>7
  <2>2. CASE n \in GrabTasks
      BY <2>1, <2>2, <1>7 DEF GrabbedOnce
  <2>3. CASE n = Len(grabTask')
      BY <2>1, <2>3, <1>4, <1>5, <1>7 DEF Improves
  <2> QED
      BY <2>2, <2>3, <1>7
<1> QED
    BY <1>8, <1>11, <1>12, <1>13, <1>14, <1>15, <1>16, <1>17


LEMMA SendKeeps == ASSUME GrabInv, NEW r \in Runners, sendMatch(r) PROVE GrabInv'
<1> USE DEF GrabInv
<1> DEFINE c == runner[r].cur
<1>1. UNCHANGED <<listed, grabTask, watermark>> /\ runner[r].pc = "send"
    BY DEF sendMatch, RunAt
<1>2. CASE HashTaken(c.item)
  <2>1. runner' = [runner EXCEPT ![r] = NoRun] /\ torn' = TRUE /\ UNCHANGED <<match, seen>>
      BY <1>2 DEF sendMatch
  <2>2. RunMoves(r) /\ runner'[r].pc = "idle" /\ runner'[r].cands = {}
      BY <2>1, EmptyRun DEF RunMoves, GrabShapes
  <2>3. watermark' \in Nat
      BY <1>1 DEF GrabShapes
  <2> QED
      BY <1>1, <2>1, <2>2, <2>3, RunResets
<1>3. CASE ~HashTaken(c.item)
  <2>1. /\ match' = [match EXCEPT ![c.item].status = "sent", ![c.item].hash = listed[c.item].hash]
        /\ seen' = seen \union c.staged /\ torn' = torn
        /\ runner' = [runner EXCEPT ![r].pc = "evaluate", ![r].cur = NoValue,
                        ![r].sent = runner[r].sent + 1, ![r].last = listed[c.item].published]
      BY <1>3 DEF sendMatch
  <2>2. /\ HonestRun(r) /\ (~torn => ImprovingRun(r)) /\ runner[r].cands \subseteq Candidates
        /\ c \in Candidates /\ c.item \in Items /\ c.staged \in SUBSET EpisodeKeys
      BY <1>1 DEF GrabShapes, GrabRuns, RunsHonest, HonestRun, RunImproves, Candidates, Grabbing
  <2>3. /\ Judged(c) /\ runner[r].sent < MaxPerRun /\ match[c.item].status # "none"
        /\ \E n \in GrabTasks : grabTask[n].item = c.item
        /\ ~torn => match[c.item].key = c.key /\ match[c.item].score = listed[c.item].score
      BY <1>1, <2>2 DEF HonestRun, ImprovingRun, Grabbing
  <2>4. runner[r].sent + 1 \in 0 .. MaxPerRun /\ listed[c.item].published \in Nat /\ listed[c.item].hash \in InfoHashes
    <3>1. runner[r].sent \in 0 .. MaxPerRun
        BY DEF GrabShapes, GrabRuns
    <3> QED
        BY <3>1, <2>2, <2>3, GrabAssumption, CatalogRow
  <2>5. RunMoves(r) /\ runner'[r].pc = "evaluate" /\ runner'[r].cands = runner[r].cands
    <3> DEFINE rec == [runner[r] EXCEPT !.pc = "evaluate", !.cur = NoValue,
                                        !.sent = runner[r].sent + 1, !.last = listed[c.item].published]
    <3>1. runner' = [runner EXCEPT ![r] = rec] /\ runner[r] \in GrabRuns
        BY <2>1 DEF GrabShapes
    <3>2. rec \in GrabRuns /\ rec.pc = "evaluate" /\ rec.cands = runner[r].cands
        BY <2>4, <3>1 DEF GrabRuns
    <3> HIDE DEF rec
    <3> QED
        BY <3>1, <3>2, RunWritten
  <2>6. /\ match' \in [Items -> MatchRows] /\ \A i \in Items \ {c.item} : match'[i] = match[i]
        /\ match'[c.item].status = "sent" /\ match'[c.item].hash = listed[c.item].hash
        /\ match'[c.item].key = match[c.item].key /\ match'[c.item].score = match[c.item].score
    <3> DEFINE row == [match[c.item] EXCEPT !.status = "sent", !.hash = listed[c.item].hash]
    <3>1. match' = [match EXCEPT ![c.item] = row] /\ match \in [Items -> MatchRows]
        BY <2>1 DEF GrabShapes
    <3>2. match[c.item] \in MatchRows
        BY <2>2, <3>1
    <3>3. /\ row \in MatchRows /\ row.status = "sent" /\ row.hash = listed[c.item].hash
          /\ row.key = match[c.item].key /\ row.score = match[c.item].score
        BY <2>4, <3>2 DEF MatchRows
    <3> HIDE DEF row
    <3> QED
        BY <2>2, <3>1, <3>3
  <2>7. GrabShapes'
      BY <1>1, <2>1, <2>2, <2>5, <2>6 DEF GrabShapes, RunMoves
  <2>8. \A q \in Runners \ {r} : HonestRun(q)' /\ (~torn => runner'[q].pc = "idle" /\ runner'[q].cands = {})
    <3>1. \A i \in Items : match[i].status # "none" => match'[i].status # "none"
        BY <2>6
    <3>2. \A n \in GrabTasks : n \in GrabTasks' /\ grabTask'[n].item = grabTask[n].item
        BY <1>1 DEF GrabTasks
    <3> QED
        BY <1>1, <2>5, <3>1, <3>2, OthersHonest
  <2>9. \A d \in Candidates : (Judged(d) => Judged(d)') /\ (Improves(d) => Improves(d)')
      BY <1>1 DEF Judged, Improves, GrabTasks, contentKeyFor
  <2>10. RunsHonest'
    <3>1. HonestRun(r)'
        BY <2>2, <2>5, <2>9 DEF HonestRun, Grabbing
    <3> QED
        BY <2>8, <3>1 DEF RunsHonest
  <2>11. RunAlone'
      BY <1>1, <2>1, <2>8 DEF RunAlone
  <2>12. RunImproves'
    <3> SUFFICES ASSUME ~torn PROVE \A q \in Runners : ImprovingRun(q)'
        BY <2>1 DEF RunImproves
    <3>1. ImprovingRun(r)'
        BY <2>2, <2>5, <2>9 DEF ImprovingRun, Grabbing
    <3>2. \A q \in Runners \ {r} : ImprovingRun(q)'
        BY <2>8 DEF ImprovingRun, Grabbing
    <3> QED
        BY <3>1, <3>2
  <2>13. TasksRemembered'
    <3> SUFFICES ASSUME ~torn, NEW n \in GrabTasks PROVE Remembered(n)'
        BY <1>1, <2>1 DEF TasksRemembered, GrabTasks
    <3>1. CASE grabTask[n].key \in seen
        BY <3>1, <1>1, <2>1 DEF Remembered
    <3>2. CASE RowRemembers(n)
      <4>1. grabTask[n].item \in Items
          BY TaskRow
      <4>2. match'[grabTask[n].item].status = "sent"
            /\ match'[grabTask[n].item].key = match[grabTask[n].item].key
            /\ match'[grabTask[n].item].score = match[grabTask[n].item].score
          BY <3>2, <4>1, <2>6 DEF RowRemembers
      <4> QED
          BY <3>2, <4>2, <1>1 DEF Remembered, RowRemembers, contentKeyFor
    <3>3. CASE n = Len(grabTask)
      <4>1. grabTask[n].item = c.item /\ grabTask[n].key = c.key
          BY <3>3, <1>1, <2>2 DEF ImprovingRun
      <4>2. CASE listed[c.item].episode = NoValue
        <5>1. c.key = contentKeyFor(c.item, {})
            BY <4>2, <2>3 DEF Judged
        <5> QED
            BY <4>1, <4>2, <5>1, <2>3, <2>6, <1>1 DEF Remembered, RowRemembers, contentKeyFor
      <4>3. CASE listed[c.item].episode # NoValue
        <5>1. c.key \in c.staged
            BY <4>3, <2>3 DEF Judged
        <5> QED
            BY <4>1, <5>1, <1>1, <2>1 DEF Remembered
      <4> QED
          BY <4>2, <4>3
    <3> QED
        BY <3>1, <3>2, <3>3 DEF TasksRemembered, Remembered
  <2>14. OnlyGrabsConsume'
    <3>1. \A k \in seen' : \E n \in GrabTasks : listed[grabTask[n].item].episode = k[1]
        BY <2>1, <2>3 DEF OnlyGrabsConsume, Judged
    <3>2. \A i \in Items : match'[i].hash # NoValue => \E n \in GrabTasks : grabTask[n].item = i
        BY <2>3, <2>6 DEF OnlyGrabsConsume
    <3> QED
        BY <1>1, <3>1, <3>2 DEF OnlyGrabsConsume, GrabTasks
  <2>15. GrabEvidence' /\ GrabbedOnce'
    <3>1. \A n \in GrabTasks : match'[grabTask[n].item].status # "none"
        BY <2>6, TaskRow DEF GrabEvidence
    <3> QED
        BY <1>1, <2>1, <3>1 DEF GrabEvidence, GrabbedOnce, GrabTasks
  <2> QED
      BY <2>7, <2>10, <2>11, <2>12, <2>13, <2>14, <2>15
<1> QED
    BY <1>2, <1>3

(* A removed task stays as a tombstone: its item and key with it.          *)
LEMMA RemoveKeeps == ASSUME GrabInv, NEW n \in GrabTasks, RemoveTask(n) PROVE GrabInv'
<1> USE DEF GrabInv
<1>1. UNCHANGED <<listed, match, seen, watermark, runner, torn>>
      /\ grabTask' = [grabTask EXCEPT ![n].removed = TRUE]
    BY DEF RemoveTask
<1>2. /\ grabTask' \in Seq(TaskRows) /\ Len(grabTask') = Len(grabTask) /\ GrabTasks' = GrabTasks
      /\ Len(grabTask) \in Nat /\ GrabTasks = 1 .. Len(grabTask)
    <2>1. Len(grabTask) \in Nat /\ GrabTasks = 1 .. Len(grabTask) /\ DOMAIN grabTask' = 1 .. Len(grabTask)
        BY <1>1 DEF GrabShapes, GrabTasks
    <2>2. [grabTask[n] EXCEPT !.removed = TRUE] \in TaskRows
        BY TaskRow DEF TaskRows
    <2>3. grabTask' = [grabTask EXCEPT ![n] = [grabTask[n] EXCEPT !.removed = TRUE]]
        BY <1>1
    <2>4. grabTask' \in [1 .. Len(grabTask) -> TaskRows]
        BY <2>1, <2>2, <2>3, TaskRow DEF GrabShapes
    <2>5. grabTask' \in Seq(TaskRows) /\ Len(grabTask') = Len(grabTask)
        BY <2>1, <2>4
    <2> QED
        BY <2>1, <2>5 DEF GrabTasks
<1>3. \A m \in GrabTasks : grabTask'[m].item = grabTask[m].item /\ grabTask'[m].key = grabTask[m].key
    BY <1>1, TaskRow DEF GrabTasks, TaskRows
<1>4. GrabShapes'
    BY <1>1, <1>2 DEF GrabShapes
<1>5. RunsHonest' /\ RunAlone'
  <2>1. \A d : Judged(d) <=> Judged(d)'
      BY <1>1 DEF Judged, contentKeyFor
  <2>2. ASSUME NEW r \in Runners PROVE HonestRun(r)'
      BY <1>1, <1>2, <1>3, <2>1 DEF RunsHonest, HonestRun
  <2> QED
      BY <1>1, <2>2 DEF RunsHonest, RunAlone
<1>6. RunImproves'
  <2> SUFFICES ASSUME ~torn, NEW r \in Runners PROVE ImprovingRun(r)'
      BY <1>1 DEF RunImproves
  <2>1. \A d : Improves(d) => Improves(d)'
      BY <1>1, <1>2, <1>3 DEF Improves
  <2>2. Len(grabTask) > 0 => Len(grabTask) \in GrabTasks
      BY <1>2
  <2> QED
      BY <1>1, <1>2, <1>3, <2>1, <2>2 DEF RunImproves, ImprovingRun
<1>7. TasksRemembered'
  <2>1. \A m \in GrabTasks : Remembered(m) => Remembered(m)'
      BY <1>1, <1>3 DEF Remembered, RowRemembers, contentKeyFor
  <2> QED
      BY <1>1, <1>2, <2>1 DEF TasksRemembered
<1>8. OnlyGrabsConsume'
    BY <1>1, <1>2, <1>3 DEF OnlyGrabsConsume
<1>9. GrabEvidence' /\ GrabbedOnce'
    BY <1>1, <1>2, <1>3 DEF GrabEvidence, GrabbedOnce
<1> QED
    BY <1>4, <1>5, <1>6, <1>7, <1>8, <1>9

LEMMA GrabInvStep == GrabInv /\ [GrabNext]_grabVars => GrabInv'
<1> SUFFICES ASSUME GrabInv, [GrabNext]_grabVars PROVE GrabInv'
    OBVIOUS
<1>1. CASE UNCHANGED grabVars
  <2>1. UNCHANGED <<listed, match, seen, grabTask, torn, runner, watermark>> /\ torn' \in BOOLEAN
      BY <1>1 DEF grabVars, GrabInv, GrabShapes
  <2>2. GrabShapes' /\ RunAlone'
      BY <2>1 DEF GrabInv, GrabShapes, RunAlone
  <2>3. RunsHonest' /\ RunImproves'
      BY <2>1, HonestStays DEF RunsHonest, RunImproves
  <2>4. TasksRemembered'
      BY <2>1, TablesStay DEF GrabInv, TasksRemembered, GrabTasks
  <2> QED
      BY <2>1, <2>2, <2>3, <2>4, TablesStay DEF GrabInv
<1>2. ASSUME NEW r \in Runners, RunStep(r) PROVE GrabInv'
    BY <1>2, EvaluateKeeps, FallbackKeeps, QueueKeeps, CreateKeeps, RefusedKeeps, SendKeeps, EndRun DEF RunStep
<1> QED
    BY <1>1, <1>2, BeginRun, CrashRuns, RemoveKeeps DEF GrabNext

(* The rule runs are safe for every catalogue of items and any number of   *)
(* overlapping runs: episodes and hashes are consumed by created tasks     *)
(* only, every created task has its rule_matches row, and as long as no    *)
(* run overlapped another or died with a hand-off in the air a content key *)
(* is grabbed again only at a better score (Evaluate, Resolve, Commit).    *)
THEOREM GrabsAreSafe == GrabSpec => []GrabSafe
<1>1. GrabInv => GrabSafe
  <2> SUFFICES ASSUME GrabInv PROVE GrabTypeOK
      BY DEF GrabInv, GrabSafe
  <2>1. \A i \in Items : match[i].status \in {"none", "queued", "sent", "failed", "fallback"}
      BY DEF GrabInv, GrabShapes, MatchRows
  <2>2. \A k \in seen : k[2] \in Tags
      BY DEF GrabInv, GrabShapes, EpisodeKeys
  <2>3. \A r \in Runners : runner[r].sent <= MaxPerRun
    <3>1. \A r \in Runners : runner[r].sent \in 0 .. MaxPerRun
        BY DEF GrabInv, GrabShapes, GrabRuns
    <3> QED
        BY <3>1, GrabAssumption
  <2> QED
      BY <2>1, <2>2, <2>3 DEF GrabTypeOK
<1> QED
    BY <1>1, GrabInitInv, GrabInvStep, PTL DEF GrabSpec

--------------------------------------------------------------------------------
(***************************************************************************)
(* Theorems about searches, for every set of indexers and every bound on   *)
(* handler runs, store faults and stops.                                   *)
(***************************************************************************)

EngineStates == {"none", "ask", "store", "stored", "done", "empty", "error"}
Progress == {"queued", "searching", "done", "error"}
HandlerRuns == [pc : {"idle", "load", "resolve", "fan", "abort", "complete", "fail"},
                run : 0 .. MaxHandlerRuns, engine : [Indexers -> EngineStates]]

(* The shapes of a search's state.                                         *)
SearchShapes ==
    /\ search \in [st : {"none", "live", "gone"}, finished : BOOLEAN]
    /\ queued \in {"none", "pending", "running", "done", "failed"}
    /\ page \in [Indexers -> SUBSET Nat]
    /\ tracker # NoEntry => tracker \in [Indexers -> Progress]
    /\ api \in [start : {"idle", "seed"}, delete : {"idle", "forget"}]
    /\ handler \in HandlerRuns
    /\ process \in {"up", "stopping", "down"}

(* Before POST /search there is nothing, and a process that is down holds  *)
(* nothing in memory.                                                      *)
NothingYet ==
    search.st = "none" =>
      queued = "none" /\ handler.pc = "idle" /\ tracker = NoEntry /\ api.start = "idle"
NothingKept ==
    process = "down" => handler.pc = "idle" /\ tracker = NoEntry /\ api = [start |-> "idle", delete |-> "idle"]

(* A handler runs only on a claimed row, and returns only after it closed  *)
(* the search or failed to.                                                *)
ClaimedRuns ==
    /\ queued = "pending" => handler.pc = "idle"
    /\ handler.pc \in {"complete", "fail"} => search.st # "live" \/ search.finished \/ "close" \in searchLost

(* An indexer's results are the page of one run, of a search and an        *)
(* indexer that exist.                                                     *)
PageOfRun ==
    \A i \in Indexers : page[i] # {} =>
        (\E n \in Nat : page[i] = {n}) /\ search.st = "live" /\ i \in indexer

(* The tracker calls an engine done after its answer, and a search that    *)
(* waits for its claim has no such engine.                                 *)
TrackerHonest ==
    tracker # NoEntry => \A i \in Indexers : tracker[i] = "done" =>
        handler.engine[i] \in {"done", "empty"} /\ queued # "pending"

SearchInv ==
    /\ SearchShapes /\ NothingYet /\ NothingKept /\ ClaimedRuns /\ PageOfRun /\ TrackerHonest
    /\ SearchDriven

--------------------------------------------------------------------------------
LEMMA IdleHandler ==
    /\ NoHandler \in HandlerRuns /\ NoHandler.pc = "idle"
    /\ \A i \in Indexers : NoHandler.engine[i] = "none"
<1>1. 0 \in 0 .. MaxHandlerRuns
    BY SearchAssumption
<1>2. [i \in Indexers |-> "none"] \in [Indexers -> EngineStates]
    BY DEF EngineStates
<1> QED
    BY <1>1, <1>2 DEF NoHandler, HandlerRuns

LEMMA SearchInitInv == SearchInit => SearchInv
<1> SUFFICES ASSUME SearchInit PROVE SearchInv
    OBVIOUS
<1> USE DEF SearchInit
<1>1. SearchShapes
    BY IdleHandler DEF SearchShapes
<1>2. NothingYet /\ NothingKept /\ ClaimedRuns
    BY IdleHandler DEF NothingYet, NothingKept, ClaimedRuns
<1>3. PageOfRun /\ TrackerHonest /\ SearchDriven
    BY DEF PageOfRun, TrackerHonest, SearchDriven
<1> QED
    BY <1>1, <1>2, <1>3 DEF SearchInv

--------------------------------------------------------------------------------
(* The API.                                                                *)

LEMMA CreateSearch == SearchInv /\ CreateSearchJobAndEnqueue => SearchInv'
<1> SUFFICES ASSUME SearchInv, CreateSearchJobAndEnqueue PROVE SearchInv'
    OBVIOUS
<1> USE DEF SearchInv, CreateSearchJobAndEnqueue
<1>1. SearchShapes'
    BY DEF SearchShapes
<1>2. NothingYet' /\ NothingKept' /\ ClaimedRuns' /\ SearchDriven'
    BY DEF NothingYet, NothingKept, ClaimedRuns, SearchDriven
<1>3. PageOfRun' /\ TrackerHonest'
    BY DEF PageOfRun, TrackerHonest, NothingYet
<1> QED
    BY <1>1, <1>2, <1>3

LEMMA SeedTracker == SearchInv /\ StartSearch => SearchInv'
<1> SUFFICES ASSUME SearchInv, StartSearch PROVE SearchInv'
    OBVIOUS
<1> USE DEF SearchInv, StartSearch
<1>0. tracker' = [i \in Indexers |-> "queued"]
    BY DEF Seeded
<1>1. SearchShapes'
    BY <1>0 DEF SearchShapes, Progress
<1>2. NothingYet' /\ NothingKept' /\ ClaimedRuns' /\ SearchDriven'
    BY DEF NothingYet, NothingKept, ClaimedRuns, SearchDriven, SearchShapes
<1>3. PageOfRun' /\ TrackerHonest'
    BY <1>0 DEF PageOfRun, TrackerHonest
<1> QED
    BY <1>1, <1>2, <1>3

(* Rows that go take their results along.                                  *)
LEMMA SearchGoes ==
    ASSUME SearchInv, process = "up", search.st = "live", RowsGo, queued' \in {"none", queued},
           UNCHANGED <<indexer, tracker, handler, process, searchLost>>, api' \in [start : {"idle", "seed"}, delete : {"idle", "forget"}]
    PROVE  SearchInv'
<1> USE DEF SearchInv, RowsGo
<1>1. SearchShapes'
    BY DEF SearchShapes
<1>2. NothingYet' /\ NothingKept' /\ ClaimedRuns' /\ SearchDriven'
    BY DEF NothingYet, NothingKept, ClaimedRuns, SearchDriven
<1>3. PageOfRun' /\ TrackerHonest'
    BY DEF PageOfRun, TrackerHonest
<1> QED
    BY <1>1, <1>2, <1>3

LEMMA DeleteRows ==
    ASSUME SearchInv, DeleteSearchJobAndQueue \/ PruneSearchJobs
    PROVE  SearchInv'
<1>1. /\ process = "up" /\ search.st = "live" /\ RowsGo /\ queued' \in {"none", queued}
      /\ UNCHANGED <<indexer, tracker, handler, process, searchLost>>
    BY DEF DeleteSearchJobAndQueue, PruneSearchJobs
<1>2. api' \in [start : {"idle", "seed"}, delete : {"idle", "forget"}]
    BY DEF SearchInv, SearchShapes, DeleteSearchJobAndQueue, PruneSearchJobs
<1> QED
    BY <1>1, <1>2, SearchGoes

LEMMA ForgetSearch == SearchInv /\ DeleteSearch => SearchInv'
<1> SUFFICES ASSUME SearchInv, DeleteSearch PROVE SearchInv'
    OBVIOUS
<1> USE DEF SearchInv, DeleteSearch
<1>1. SearchShapes'
    BY DEF SearchShapes
<1>2. NothingYet' /\ NothingKept' /\ ClaimedRuns' /\ SearchDriven'
    BY DEF NothingYet, NothingKept, ClaimedRuns, SearchDriven, SearchShapes
<1>3. PageOfRun' /\ TrackerHonest'
    BY DEF PageOfRun, TrackerHonest
<1> QED
    BY <1>1, <1>2, <1>3

LEMMA IndexerGoes == ASSUME SearchInv, NEW i \in Indexers, IndexerDeleted(i) PROVE SearchInv'
<1> USE DEF SearchInv, IndexerDeleted
<1>1. SearchShapes'
    BY DEF SearchShapes
<1>2. NothingYet' /\ NothingKept' /\ ClaimedRuns' /\ SearchDriven' /\ TrackerHonest'
    BY DEF NothingYet, NothingKept, ClaimedRuns, SearchDriven, TrackerHonest
<1>3. PageOfRun'
    BY DEF PageOfRun, SearchShapes
<1> QED
    BY <1>1, <1>2, <1>3

--------------------------------------------------------------------------------
(* The process.                                                            *)

LEMMA StopKeeps == SearchInv /\ StopBegins => SearchInv'
<1> SUFFICES ASSUME SearchInv, StopBegins PROVE SearchInv'
    OBVIOUS
<1> USE DEF SearchInv, StopBegins
<1>1. SearchShapes'
    BY DEF SearchShapes
<1>2. NothingYet' /\ NothingKept' /\ ClaimedRuns' /\ SearchDriven'
    BY DEF NothingYet, NothingKept, ClaimedRuns, SearchDriven
<1>3. PageOfRun' /\ TrackerHonest'
    BY DEF PageOfRun, TrackerHonest
<1> QED
    BY <1>1, <1>2, <1>3

LEMMA DeathKeeps == SearchInv /\ Dies => SearchInv'
<1> SUFFICES ASSUME SearchInv, Dies PROVE SearchInv'
    OBVIOUS
<1> USE DEF SearchInv, Dies
<1>0. handler' \in HandlerRuns /\ handler'.pc = "idle" /\ handler'.engine = handler.engine
    BY DEF SearchShapes, HandlerRuns
<1>1. SearchShapes'
    BY <1>0 DEF SearchShapes
<1>2. NothingYet' /\ NothingKept' /\ ClaimedRuns' /\ SearchDriven'
    BY <1>0 DEF NothingYet, NothingKept, ClaimedRuns, SearchDriven
<1>3. PageOfRun' /\ TrackerHonest'
    BY DEF PageOfRun, TrackerHonest
<1> QED
    BY <1>1, <1>2, <1>3

LEMMA BootKeeps == SearchInv /\ Boots => SearchInv'
<1> SUFFICES ASSUME SearchInv, Boots PROVE SearchInv'
    OBVIOUS
<1> USE DEF SearchInv, Boots, RecoverSearchJob
<1>1. SearchShapes'
    BY DEF SearchShapes
<1>2. NothingYet' /\ NothingKept' /\ ClaimedRuns' /\ SearchDriven'
    BY DEF NothingYet, NothingKept, ClaimedRuns, SearchDriven
<1>3. PageOfRun' /\ TrackerHonest'
    BY DEF PageOfRun, TrackerHonest, NothingKept
<1> QED
    BY <1>1, <1>2, <1>3


--------------------------------------------------------------------------------
(* The handler.                                                            *)

LEMMA ClaimKeeps == SearchInv /\ ClaimSearchJob => SearchInv'
<1> SUFFICES ASSUME SearchInv, ClaimSearchJob PROVE SearchInv'
    OBVIOUS
<1> USE DEF SearchInv, ClaimSearchJob, Claimable
<1>0. handler' \in HandlerRuns /\ handler'.pc = "load"
  <2>1. handler.run + 1 \in 0 .. MaxHandlerRuns
      BY SearchAssumption DEF SearchShapes, HandlerRuns
  <2> QED
      BY <2>1, IdleHandler DEF HandlerRuns
<1>1. SearchShapes'
    BY <1>0 DEF SearchShapes
<1>2. NothingYet' /\ NothingKept' /\ ClaimedRuns' /\ SearchDriven'
    BY <1>0 DEF NothingYet, NothingKept, ClaimedRuns, SearchDriven
<1>3. PageOfRun' /\ TrackerHonest'
    BY DEF PageOfRun, TrackerHonest
<1> QED
    BY <1>1, <1>2, <1>3

(* A step of a handler at work that leaves the rows of the search alone    *)
(* and goes on, or has closed the search.                                  *)
LEMMA WorkKeeps ==
    ASSUME SearchInv, process # "down", handler.pc # "idle",
           UNCHANGED <<queued, indexer, api, process>>,
           search' \in [st : {"none", "live", "gone"}, finished : BOOLEAN],
           search'.st = search.st, search'.st = "live" /\ search.finished => search'.finished,
           handler' \in HandlerRuns, handler'.pc # "idle",
           searchLost \subseteq searchLost',
           handler'.pc \in {"complete", "fail"} =>
             search'.st # "live" \/ search'.finished \/ "close" \in searchLost',
           page' \in [Indexers -> SUBSET Nat], PageOfRun',
           tracker' # NoEntry => tracker' \in [Indexers -> Progress], TrackerHonest'
    PROVE  SearchInv'
<1> USE DEF SearchInv
<1>1. SearchShapes'
    BY DEF SearchShapes
<1>2. NothingYet' /\ NothingKept' /\ ClaimedRuns'
    BY DEF NothingYet, NothingKept, ClaimedRuns
<1>3. SearchDriven'
    BY DEF SearchDriven, ClaimedRuns
<1> QED
    BY <1>1, <1>2, <1>3

(* The handler's place changes and nothing else of it.                     *)
LEMMA PlaceMoves ==
    ASSUME SearchShapes, NEW pc \in {"idle", "load", "resolve", "fan", "abort", "complete", "fail"},
           handler' = [handler EXCEPT !.pc = pc]
    PROVE  handler' \in HandlerRuns /\ handler'.pc = pc /\ handler'.engine = handler.engine
BY DEF SearchShapes, HandlerRuns

LEMMA LoadKeeps == SearchInv /\ LoadSearch => SearchInv'
<1> SUFFICES ASSUME SearchInv, LoadSearch PROVE SearchInv'
    OBVIOUS
<1> USE DEF SearchInv
<1>1. UNCHANGED <<search, queued, page, indexer, tracker, api, process, searchLost>> /\ process # "down" /\ handler.pc = "load"
    BY DEF LoadSearch, HandlerAt
<1>2. PICK pc \in {"resolve", "complete", "abort"} :
        handler' = [handler EXCEPT !.pc = pc] /\ (pc = "complete" => search.st # "live")
    BY DEF LoadSearch
<1>3. handler' \in HandlerRuns /\ handler'.pc = pc /\ handler'.engine = handler.engine
    BY <1>2, PlaceMoves
<1>4. PageOfRun' /\ TrackerHonest'
    BY <1>1, <1>3 DEF PageOfRun, TrackerHonest
<1>5. search' \in [st : {"none", "live", "gone"}, finished : BOOLEAN] /\ page' \in [Indexers -> SUBSET Nat]
      /\ (tracker' # NoEntry => tracker' \in [Indexers -> Progress])
    BY <1>1 DEF SearchShapes
<1> QED
    BY <1>1, <1>2, <1>3, <1>4, <1>5, WorkKeeps

LEMMA ResolveKeeps == SearchInv /\ ResolveIndexers => SearchInv'
<1> SUFFICES ASSUME SearchInv, ResolveIndexers PROVE SearchInv'
    OBVIOUS
<1> USE DEF SearchInv
<1>1. UNCHANGED <<search, queued, page, indexer, api, process, searchLost>> /\ process # "down" /\ handler.pc = "resolve"
    BY DEF ResolveIndexers, HandlerAt
<1>2. search' \in [st : {"none", "live", "gone"}, finished : BOOLEAN] /\ page' \in [Indexers -> SUBSET Nat] /\ PageOfRun'
    BY <1>1 DEF SearchShapes, PageOfRun
<1>3. CASE handler' = [handler EXCEPT !.pc = "abort"] /\ tracker' = tracker
  <2>1. handler' \in HandlerRuns /\ handler'.pc = "abort" /\ handler'.engine = handler.engine
      BY <1>3, PlaceMoves
  <2>2. TrackerHonest' /\ (tracker' # NoEntry => tracker' \in [Indexers -> Progress])
      BY <1>1, <1>3, <2>1 DEF TrackerHonest, SearchShapes
  <2> QED
      BY <1>1, <1>2, <2>1, <2>2, WorkKeeps
<1>4. CASE /\ tracker' = Seeded([i \in Indexers |-> EngineStart(i)])
           /\ handler' = [handler EXCEPT !.pc = "fan",
                            !.engine = [i \in Indexers |-> IF i \in indexer THEN "ask" ELSE "none"]]
  <2>1. [i \in Indexers |-> IF i \in indexer THEN "ask" ELSE "none"] \in [Indexers -> EngineStates]
      BY DEF EngineStates
  <2>2. handler' \in HandlerRuns /\ handler'.pc = "fan"
      BY <1>4, <2>1 DEF SearchShapes, HandlerRuns
  <2>3. tracker' \in [Indexers -> {"searching", "error"}]
      BY <1>4 DEF Seeded, EngineStart
  <2>4. TrackerHonest' /\ (tracker' # NoEntry => tracker' \in [Indexers -> Progress])
      BY <2>3 DEF TrackerHonest, Progress
  <2> QED
      BY <1>1, <1>2, <2>2, <2>4, WorkKeeps
<1> QED
    BY <1>3, <1>4 DEF ResolveIndexers

(* One goroutine of the fan-out reports.                                   *)
LEMMA EngineMoves ==
    ASSUME SearchInv, NEW i \in Indexers, process # "down", handler.pc = "fan", queued # "pending",
           NEW e \in EngineStates, handler' = [handler EXCEPT !.engine[i] = e],
           handler.engine[i] \notin {"done", "empty"}, queued' = queued,
           tracker' = tracker \/ \E s \in Progress : TrackerSet(i, s) /\ (s = "done" => e \in {"done", "empty"})
    PROVE  /\ handler' \in HandlerRuns /\ handler'.pc = "fan"
           /\ tracker' # NoEntry => tracker' \in [Indexers -> Progress]
           /\ TrackerHonest'
<1> USE DEF SearchInv
<1>1. handler' \in HandlerRuns /\ handler'.pc = "fan"
    BY DEF SearchShapes, HandlerRuns
<1>2. handler'.engine[i] = e /\ \A j \in Indexers \ {i} : handler'.engine[j] = handler.engine[j]
    BY DEF SearchShapes, HandlerRuns
<1>3. CASE tracker = NoEntry
  <2>1. tracker' = NoEntry
      BY <1>3 DEF TrackerSet
  <2> QED
      BY <1>1, <2>1 DEF TrackerHonest
<1>4. CASE tracker # NoEntry /\ tracker' = tracker
    BY <1>1, <1>2, <1>4 DEF TrackerHonest, SearchShapes
<1>5. CASE tracker # NoEntry /\ tracker' # tracker
  <2>1. PICK s \in Progress : TrackerSet(i, s) /\ (s = "done" => e \in {"done", "empty"})
      BY <1>5
  <2>2. tracker \in [Indexers -> Progress] /\ tracker' = [tracker EXCEPT ![i] = s]
      BY <1>5, <2>1 DEF TrackerSet, SearchShapes
  <2>3. tracker' \in [Indexers -> Progress] /\ tracker'[i] = s /\ \A j \in Indexers \ {i} : tracker'[j] = tracker[j]
      BY <2>2
  <2> QED
      BY <1>1, <1>2, <1>5, <2>1, <2>3 DEF TrackerHonest
<1> QED
    BY <1>1, <1>3, <1>4, <1>5

LEMMA AskKeeps == ASSUME SearchInv, NEW i \in Indexers, searchIndexer(i) PROVE SearchInv'
<1> USE DEF SearchInv
<1>1. /\ UNCHANGED <<search, queued, page, indexer, api, process, searchLost>> /\ process # "down"
      /\ handler.pc = "fan" /\ handler.engine[i] = "ask" /\ queued # "pending"
    BY DEF searchIndexer, HandlerAt, ClaimedRuns
<1>2. PICK e \in EngineStates :
        /\ handler' = [handler EXCEPT !.engine[i] = e]
        /\ tracker' = tracker \/ \E s \in Progress : TrackerSet(i, s) /\ (s = "done" => e \in {"done", "empty"})
    BY DEF searchIndexer, classify, EngineStates, Progress
<1>3. /\ handler' \in HandlerRuns /\ handler'.pc = "fan" /\ TrackerHonest'
      /\ tracker' # NoEntry => tracker' \in [Indexers -> Progress]
    BY <1>1, <1>2, EngineMoves
<1>4. search' \in [st : {"none", "live", "gone"}, finished : BOOLEAN] /\ page' \in [Indexers -> SUBSET Nat] /\ PageOfRun'
    BY <1>1 DEF SearchShapes, PageOfRun
<1> QED
    BY <1>1, <1>3, <1>4, WorkKeeps

LEMMA StoreKeeps == ASSUME SearchInv, NEW i \in Indexers, StorePage(i) PROVE SearchInv'
<1> USE DEF SearchInv
<1>1. /\ UNCHANGED <<search, queued, indexer, api, process, searchLost>> /\ process # "down"
      /\ handler.pc = "fan" /\ handler.engine[i] = "store" /\ queued # "pending"
    BY DEF StorePage, HandlerAt, ClaimedRuns
<1>2. PICK e \in EngineStates :
        /\ handler' = [handler EXCEPT !.engine[i] = e]
        /\ tracker' = tracker \/ \E s \in Progress : TrackerSet(i, s) /\ (s = "done" => e \in {"done", "empty"})
    BY DEF StorePage, EngineStates, Progress
<1>3. /\ handler' \in HandlerRuns /\ handler'.pc = "fan" /\ TrackerHonest'
      /\ tracker' # NoEntry => tracker' \in [Indexers -> Progress]
    BY <1>1, <1>2, EngineMoves
<1>4. page' = page \/ InsertResults(i)
    BY DEF StorePage
<1>5. page' \in [Indexers -> SUBSET Nat] /\ PageOfRun'
  <2>1. CASE page' = page
      BY <2>1, <1>1 DEF SearchShapes, PageOfRun
  <2>2. CASE InsertResults(i)
    <3>1. handler.run \in Nat
        BY DEF SearchShapes, HandlerRuns
    <3> QED
        BY <2>2, <3>1, <1>1 DEF InsertResults, SearchShapes, PageOfRun
  <2> QED
      BY <2>1, <2>2, <1>4
<1>6. search' \in [st : {"none", "live", "gone"}, finished : BOOLEAN]
    BY <1>1 DEF SearchShapes
<1> QED
    BY <1>1, <1>3, <1>5, <1>6, WorkKeeps

LEMMA StoredKeeps == ASSUME SearchInv, NEW i \in Indexers, PageStored(i) PROVE SearchInv'
<1> USE DEF SearchInv
<1>1. /\ UNCHANGED <<search, queued, page, indexer, api, process, searchLost>> /\ process # "down"
      /\ handler.pc = "fan" /\ handler.engine[i] = "stored" /\ queued # "pending"
    BY DEF PageStored, HandlerAt, ClaimedRuns
<1>2. handler' = [handler EXCEPT !.engine[i] = "done"] /\ TrackerSet(i, "done")
      /\ "done" \in EngineStates /\ "done" \in Progress
    BY DEF PageStored, EngineStates, Progress
<1>3. /\ handler' \in HandlerRuns /\ handler'.pc = "fan" /\ TrackerHonest'
      /\ tracker' # NoEntry => tracker' \in [Indexers -> Progress]
    BY <1>1, <1>2, EngineMoves
<1>4. search' \in [st : {"none", "live", "gone"}, finished : BOOLEAN] /\ page' \in [Indexers -> SUBSET Nat] /\ PageOfRun'
    BY <1>1 DEF SearchShapes, PageOfRun
<1> QED
    BY <1>1, <1>3, <1>4, WorkKeeps

LEMMA FinishKeeps == SearchInv /\ (FinishSearchJob \/ AbortSearch) => SearchInv'
<1> SUFFICES ASSUME SearchInv, FinishSearchJob \/ AbortSearch PROVE SearchInv'
    OBVIOUS
<1> USE DEF SearchInv
<1>1. /\ UNCHANGED <<queued, page, indexer, tracker, api, process>> /\ process # "down" /\ handler.pc # "idle"
      /\ searchLost \subseteq searchLost'
    BY DEF FinishSearchJob, AbortSearch, HandlerAt
<1>2. PICK pc \in {"complete", "fail", "abort"} :
        /\ handler' = [handler EXCEPT !.pc = pc]
        /\ \/ search' = [search EXCEPT !.finished = (search.st = "live")]
           \/ search' = search /\ pc = "abort"
           \/ search' = search /\ "close" \in searchLost'
    BY DEF FinishSearchJob, AbortSearch, closeSearch
<1>3. handler' \in HandlerRuns /\ handler'.pc = pc /\ handler'.engine = handler.engine
    BY <1>2, PlaceMoves
<1>4. /\ search' \in [st : {"none", "live", "gone"}, finished : BOOLEAN] /\ search'.st = search.st
      /\ pc \in {"complete", "fail"} => search'.st # "live" \/ search'.finished \/ "close" \in searchLost'
      /\ search'.st = "live" /\ search.finished => search'.finished
    BY <1>2 DEF SearchShapes
<1>5. PageOfRun' /\ TrackerHonest' /\ page' \in [Indexers -> SUBSET Nat]
      /\ (tracker' # NoEntry => tracker' \in [Indexers -> Progress])
    BY <1>1, <1>3, <1>4 DEF PageOfRun, TrackerHonest, SearchShapes
<1> QED
    BY <1>1, <1>3, <1>4, <1>5, WorkKeeps

LEMMA EndsKeeps == SearchInv /\ JobEnds => SearchInv'
<1> SUFFICES ASSUME SearchInv, JobEnds PROVE SearchInv'
    OBVIOUS
<1> USE DEF SearchInv
<1>1. /\ UNCHANGED <<search, page, indexer, tracker, api, process, searchLost>> /\ process # "down"
      /\ handler.pc \in {"complete", "fail"} /\ queued' \in {"none", "failed", "done", queued}
      /\ (queued = "none" => queued' = "none") /\ handler' = [handler EXCEPT !.pc = "idle"]
    BY DEF JobEnds, HandlerAt
<1>2. handler' \in HandlerRuns /\ handler'.pc = "idle" /\ handler'.engine = handler.engine
    BY <1>1, PlaceMoves
<1>3. SearchShapes'
    BY <1>1, <1>2 DEF SearchShapes
<1>4. NothingYet' /\ NothingKept' /\ ClaimedRuns' /\ SearchDriven'
    BY <1>1, <1>2 DEF NothingYet, NothingKept, ClaimedRuns, SearchDriven
<1>5. PageOfRun' /\ TrackerHonest'
    BY <1>1, <1>2 DEF PageOfRun, TrackerHonest, ClaimedRuns
<1> QED
    BY <1>3, <1>4, <1>5

LEMMA SearchInvStep == SearchInv /\ [SearchNext]_searchVars => SearchInv'
<1> SUFFICES ASSUME SearchInv, [SearchNext]_searchVars PROVE SearchInv'
    OBVIOUS
<1>1. CASE UNCHANGED searchVars
    BY <1>1 DEF searchVars, SearchInv, SearchShapes, NothingYet, NothingKept, ClaimedRuns, PageOfRun,
                TrackerHonest, SearchDriven
<1>2. CASE HandlerStep
    BY <1>2, LoadKeeps, ResolveKeeps, FinishKeeps, EndsKeeps, AskKeeps, StoreKeeps, StoredKeeps DEF HandlerStep
<1> QED
    BY <1>1, <1>2, CreateSearch, SeedTracker, DeleteRows, ForgetSearch, IndexerGoes, ClaimKeeps,
       StopKeeps, DeathKeeps, BootKeeps DEF SearchNext

(* Searches are safe for every set of indexers: an unfinished search has   *)
(* somebody who will finish it, however stops, crashes, failed statements, *)
(* deletes and prunes fall, unless the best-effort write that closes it or *)
(* the boot's recovery itself failed; its results are one page per         *)
(* indexer; and no poll calls an engine done before it answered            *)
(* (NewSearchHandler, InsertResults, GetSearch, RecoverRunningJobs).       *)
THEOREM SearchesAreSafe == SearchSpec => []SearchSafe
<1>1. SearchInv => SearchSafe
  <2> SUFFICES ASSUME SearchInv PROVE SearchTypeOK /\ OnePage /\ DoneMeansAnswered
      BY DEF SearchInv, SearchSafe
  <2>1. SearchTypeOK
    <3>1. tracker # NoEntry => \A i \in Indexers : tracker[i] \in {"queued", "searching", "done", "error"}
        BY DEF SearchInv, SearchShapes, Progress
    <3> QED
        BY <3>1 DEF SearchInv, SearchShapes, HandlerRuns, SearchTypeOK
  <2>2. ASSUME NEW i \in Indexers
        PROVE  Cardinality(page[i]) <= 1 /\ (page[i] # {} => search.st = "live" /\ i \in indexer)
    <3>1. CASE page[i] = {}
        BY <3>1, FS_EmptySet
    <3>2. CASE page[i] # {}
      <4>1. PICK n \in Nat : page[i] = {n}
          BY <3>2 DEF SearchInv, PageOfRun
      <4>2. Cardinality(page[i]) = 1
          BY <4>1, FS_Singleton
      <4> QED
          BY <3>2, <4>2 DEF SearchInv, PageOfRun
    <3> QED
        BY <3>1, <3>2
  <2>3. DoneMeansAnswered
      BY DEF SearchInv, TrackerHonest, DoneMeansAnswered, GetSearch
  <2> QED
      BY <2>1, <2>2, <2>3 DEF OnePage
<1> QED
    BY <1>1, SearchInitInv, SearchInvStep, PTL DEF SearchSpec
--------------------------------------------------------------------------------
(***************************************************************************)
(* Theorem about the indexer list, for every operator's request, provider, *)
(* set of bundled documents and user directory, and any number of requests *)
(* in flight.                                                              *)
(***************************************************************************)

RowFields == {"kind", "url", "def", "source", "enabled", "private", "caps", "tested", "run"}
RequestFields == {"op", "at", "id", "row", "probe", "todo", "known", "first", "gone", "run", "patch"}
HistoryFields == {"decided", "overlapped", "rivals", "runs", "touched", "lastId"}
Flags == {"absent", "false", "true"}
ProbeResults == {"ok", "error"}

RowShape(row) ==
    /\ DOMAIN row = RowFields
    /\ row.private \in Flags
    /\ row.tested \in {"never", "ok", "error"}
    /\ row.run \in Nat

HistoryShape(told) ==
    /\ DOMAIN told = HistoryFields
    /\ told.lastId \in Nat /\ told.runs \in Nat /\ told.touched \in BOOLEAN
    /\ DOMAIN told.decided = 1 .. told.lastId

(* The table: ids were issued, a good test has its caps, flags are the     *)
(* decided ones, one row per definition, one per URL of runs apart.        *)
RowsSound(rows, told) ==
    /\ \A i \in DOMAIN rows :
        /\ i \in 1 .. told.lastId
        /\ RowShape(rows[i])
        /\ rows[i].tested = "ok" => rows[i].caps # NoIx
        /\ i \notin told.overlapped => rows[i].private = told.decided[i]
    /\ \A i, j \in DOMAIN rows : rows[i].def = rows[j].def /\ rows[i].def # NoIx => i = j
    /\ \A i, j \in DOMAIN rows :
        i # j /\ rows[i].run > 0 /\ rows[j].run > 0 /\ rows[i].url = rows[j].url =>
            {rows[i].run, rows[j].run} \in told.rivals

(* A new row of a request: never tested, made by no wizard.                *)
Untried(row) == row.tested = "never" /\ row.run = 0

RequestShape(r, told) ==
    /\ DOMAIN r = RequestFields
    /\ r.id \in 0 .. told.lastId
    /\ r.run \in 0 .. told.runs
    /\ RowShape(r.row)

(* What a request knows of the row it probes: there is something to probe, *)
(* and a good outcome is stamped on a row that has its caps.               *)
ProbeSound(r, rows) ==
    /\ r.at = "insert" => /\ Untried(r.row)
                          /\ r.probe \in ProbeResults \union {"none"}
                          /\ r.probe # "none" => CapsOf(r.row) # NoIx
    /\ r.at = "probe" => /\ CapsOf(r.row) # NoIx
                         /\ r.op = "create" => Untried(r.row)
    /\ r.at = "caps" => CapsOf(r.row) # NoIx /\ r.probe \in ProbeResults
    /\ r.at = "stamp" => /\ r.probe \in ProbeResults
                         /\ r.probe = "ok" /\ r.id \in DOMAIN rows => rows[r.id].caps # NoIx
    /\ r.at = "update" => r.patch \in IxRequests /\ r.patch.op = "patch"

(* A wizard past its listing, which may still make rows.                   *)
RunInProgress(r) == r.op = "wizard" /\ r.run > 0 /\ r.at # "answered"

(* A wizard's account of the provider's URLs.                              *)
WizardSound(r, rows) ==
    r.op = "wizard" =>
        /\ r.todo \in Seq(Range(Provider) \ {NoIx})
        /\ r.at = "answered" => r.todo = <<>>
        /\ r.at = "list" => r.known = {}
        /\ \A u \in Range(Provider) \ BadURLs : u \in Range(r.todo) \union r.known
        /\ \A u \in r.known : u \in r.gone \/ \E i \in DOMAIN rows : rows[i].url = u

(* Every row of a wizard is known to a run in progress, or of its rival.   *)
RunsSeen(r, rows, told) ==
    RunInProgress(r) =>
        \A i \in DOMAIN rows :
            rows[i].run > 0 => rows[i].url \in r.known \/ {rows[i].run, r.run} \in told.rivals

(* What a request in flight may rely on.                                   *)
RequestSound(r, rows, told) ==
    /\ RequestShape(r, told)
    /\ ProbeSound(r, rows)
    /\ WizardSound(r, rows)
    /\ RunsSeen(r, rows, told)

(* All of them; two runs in progress are rivals.                           *)
RequestsSound(req, rows, told) ==
    /\ DOMAIN req = IxHandlers
    /\ \A h \in IxHandlers : RequestSound(req[h], rows, told)
    /\ \A g, h \in IxHandlers :
        g # h /\ RunInProgress(req[g]) /\ RunInProgress(req[h]) =>
            {req[g].run, req[h].run} \in told.rivals

(* The published definitions: a bundled id is the embedded document's.     *)
RegistrySound ==
    /\ NoIx \notin DOMAIN ixRegistry
    /\ ixBoot # "down" => BundledValid \subseteq DOMAIN ixRegistry
    /\ \A d \in DOMAIN ixRegistry \cap bundledIDSet : ixRegistry[d] = "bundled"

HasRow(d) == \E i \in DOMAIN ixRows : ixRows[i].def = d

(* A loaded bundled id is still to be seeded or has its row.               *)
SeedsSound ==
    /\ ixBoot = "seed" =>
        /\ ixSeeds \in Seq(Range(BundledIDs))
        /\ \A d \in BundledValid : d \in Range(ixSeeds) \/ HasRow(d)
    /\ ixBoot = "up" /\ ~ixTold.touched => \A d \in BundledValid : HasRow(d)

(* The inductive invariant of the indexer list.                            *)
IxInv ==
    /\ ixBoot \in {"down", "seed", "up"}
    /\ HistoryShape(ixTold)
    /\ RowsSound(ixRows, ixTold)
    /\ RequestsSound(ixReq, ixRows, ixTold)
    /\ RegistrySound
    /\ SeedsSound

LEMMA RestOfSeq ==
    ASSUME NEW S, NEW s \in Seq(S), s # <<>>
    PROVE  /\ Head(s) \in S
           /\ Tail(s) \in Seq(S)
           /\ Range(s) \subseteq {Head(s)} \union Range(Tail(s))
<1>1. /\ Len(s) \in Nat /\ Len(s) > 0
      /\ DOMAIN s = 1 .. Len(s)
      /\ Tail(s) \in Seq(S)
      /\ Len(Tail(s)) = Len(s) - 1
      /\ DOMAIN Tail(s) = 1 .. Len(s) - 1
      /\ \A k \in 1 .. Len(s) - 1 : Tail(s)[k] = s[k + 1]
      /\ Head(s) = s[1] /\ s[1] \in S
  OBVIOUS
<1>2. ASSUME NEW u \in Range(s), u # Head(s)
      PROVE  u \in Range(Tail(s))
  <2>1. PICK k \in 1 .. Len(s) : s[k] = u
    BY <1>1, <1>2 DEF Range
  <2>2. k - 1 \in 1 .. Len(s) - 1 /\ (k - 1) + 1 = k
    BY <1>1, <1>2, <2>1
  <2>3. Tail(s)[k - 1] = u
    BY <1>1, <2>1, <2>2
  <2> QED
    BY <1>1, <2>2, <2>3 DEF Range
<1> QED
  BY <1>1, <1>2

LEMMA FreshRow == RowShape(NoRow) /\ Untried(NoRow)
  BY DEF NoRow, RowShape, RowFields, Untried, Flags

(* A request that has just begun, and an idle handler.                     *)
LEMMA IdleSound ==
    ASSUME NEW rows, NEW told, HistoryShape(told)
    PROVE  RequestSound(NoIxRequest, rows, told) /\ ~RunInProgress(NoIxRequest)
<1>1. RequestShape(NoIxRequest, told)
  BY FreshRow DEF RequestShape, NoIxRequest, HistoryShape, RequestFields
<1> QED
  BY <1>1 DEF RequestSound, ProbeSound, WizardSound, RunsSeen, RunInProgress, NoIxRequest

(* What a change of the rows does to the requests in flight: ids only      *)
(* grow, a caps document is never taken away, a URL that goes is in "went",*)
(* and only a new row may belong to a run the row did not belong to.       *)
RowsMove(rows, told, rows2, told2, went) ==
    /\ told.lastId <= told2.lastId /\ told.runs <= told2.runs
    /\ told.rivals \subseteq told2.rivals
    /\ \A i \in DOMAIN rows2 : i <= told.lastId =>
        i \in DOMAIN rows /\ (rows[i].caps # NoIx => rows2[i].caps # NoIx)
    /\ \A i \in DOMAIN rows :
        rows[i].url \in went \/ (i \in DOMAIN rows2 /\ rows2[i].url = rows[i].url)
    /\ \A i \in DOMAIN rows2 : i <= told.lastId /\ rows2[i].run > 0 =>
        rows2[i].run = rows[i].run /\ rows2[i].url = rows[i].url

NewRunSeen(r, rows2, told, told2) ==
    RunInProgress(r) =>
        \A i \in DOMAIN rows2 : ~(i <= told.lastId) /\ rows2[i].run > 0 =>
            rows2[i].url \in r.known \/ {rows2[i].run, r.run} \in told2.rivals

LEMMA RequestSurvives ==
    ASSUME NEW r, NEW rows, NEW told, NEW rows2, NEW told2, NEW went,
           HistoryShape(told), HistoryShape(told2),
           RequestSound(r, rows, told),
           RowsMove(rows, told, rows2, told2, went),
           NewRunSeen(r, rows2, told, told2),
           \/ went = {}
           \/ \A u \in went : u \in r.gone
    PROVE  RequestSound(r, rows2, told2)
<1>1. RequestShape(r, told2)
  BY DEF RequestSound, RequestShape, HistoryShape, RowsMove
<1>2. ProbeSound(r, rows2)
  <2>1. ASSUME r.id \in DOMAIN rows2 
        PROVE  r.id \in DOMAIN rows /\ (rows[r.id].caps # NoIx => rows2[r.id].caps # NoIx)
    BY <2>1 DEF RequestSound, RequestShape, HistoryShape, RowsMove
  <2> QED
    BY <2>1 DEF RequestSound, ProbeSound
<1>3. WizardSound(r, rows2)
  <2>1. ASSUME NEW u \in r.known, r.op = "wizard"
        PROVE  u \in r.gone \/ \E i \in DOMAIN rows2 : rows2[i].url = u
    <3>1. u \in r.gone \/ \E i \in DOMAIN rows : rows[i].url = u
      BY <2>1 DEF RequestSound, WizardSound
    <3> QED
      BY <3>1 DEF RowsMove
  <2> QED
    BY <2>1 DEF RequestSound, WizardSound
<1>4. RunsSeen(r, rows2, told2)
  <2>1. ASSUME NEW i \in DOMAIN rows2, rows2[i].run > 0, RunInProgress(r)
        PROVE  rows2[i].url \in r.known \/ {rows2[i].run, r.run} \in told2.rivals
    <3>1. CASE i <= told.lastId
      <4>1. i \in DOMAIN rows /\ rows2[i].run = rows[i].run /\ rows2[i].url = rows[i].url
        BY <2>1, <3>1 DEF RowsMove
      <4>2. rows[i].url \in r.known \/ {rows[i].run, r.run} \in told.rivals
        BY <2>1, <4>1 DEF RequestSound, RunsSeen
      <4> QED
        BY <4>1, <4>2 DEF RowsMove
    <3>2. CASE ~(i <= told.lastId)
      BY <2>1, <3>2 DEF NewRunSeen
    <3> QED
      BY <3>1, <3>2
  <2> QED
    BY <2>1 DEF RunsSeen
<1> QED
  BY <1>1, <1>2, <1>3, <1>4 DEF RequestSound

(* The URLs that go are told to every request.                             *)
LEMMA GoneTold ==
    ASSUME NEW r, NEW rows, NEW told, NEW went,
           RequestSound(r, rows, told),
           NEW r2, r2 = [r EXCEPT !.gone = @ \union went]
    PROVE  /\ RequestSound(r2, rows, told)
           /\ \A u \in went : u \in r2.gone
           /\ RunInProgress(r2) = RunInProgress(r)
           /\ r2.run = r.run /\ r2.known = r.known
<1>1. /\ DOMAIN r2 = RequestFields
      /\ r2.gone = r.gone \union went
      /\ r2.op = r.op /\ r2.at = r.at /\ r2.id = r.id /\ r2.row = r.row /\ r2.probe = r.probe
      /\ r2.todo = r.todo /\ r2.known = r.known /\ r2.run = r.run /\ r2.patch = r.patch
  BY DEF RequestSound, RequestShape, RequestFields
<1>2. RunInProgress(r2) = RunInProgress(r)
  BY <1>1 DEF RunInProgress
<1>3. RequestShape(r2, told)
  BY <1>1 DEF RequestSound, RequestShape
<1>4. ProbeSound(r2, rows)
  BY <1>1 DEF RequestSound, ProbeSound
<1>5. WizardSound(r2, rows)
  BY <1>1 DEF RequestSound, WizardSound
<1>6. RunsSeen(r2, rows, told)
  BY <1>1 DEF RequestSound, RunsSeen, RunInProgress
<1>7. RequestSound(r2, rows, told)
  BY <1>3, <1>4, <1>5, <1>6 DEF RequestSound
<1> QED
  BY <1>1, <1>2, <1>7

LEMMA MovedSound ==
    ASSUME IxInv, NEW h \in IxHandlers, NEW r,
           ixReq' = [ixReq EXCEPT ![h] = r],
           HistoryShape(ixTold'),
           RowsMove(ixRows, ixTold, ixRows', ixTold', {}),
           RequestSound(r, ixRows', ixTold'),
           \A g \in IxHandlers \ {h} : NewRunSeen(ixReq[g], ixRows', ixTold, ixTold'),
           RunInProgress(r) =>
               \A g \in IxHandlers \ {h} :
                   RunInProgress(ixReq[g]) => {ixReq[g].run, r.run} \in ixTold'.rivals
    PROVE  RequestsSound(ixReq, ixRows, ixTold)'
<1>1. /\ DOMAIN ixReq = IxHandlers
      /\ \A g \in IxHandlers : RequestSound(ixReq[g], ixRows, ixTold)
      /\ HistoryShape(ixTold)
  BY DEF IxInv, RequestsSound
<1>2. /\ DOMAIN ixReq' = IxHandlers /\ ixReq'[h] = r
      /\ \A g \in IxHandlers \ {h} : ixReq'[g] = ixReq[g]
  BY <1>1
<1>3. ASSUME NEW g \in IxHandlers
      PROVE  RequestSound(ixReq'[g], ixRows', ixTold')
  <2>1. CASE g = h
    BY <1>2, <2>1
  <2>2. CASE g # h
    <3>1. RequestSound(ixReq[g], ixRows, ixTold) /\ NewRunSeen(ixReq[g], ixRows', ixTold, ixTold')
      BY <1>1, <1>3, <2>2
    <3>2. RequestSound(ixReq[g], ixRows', ixTold')
      BY <1>1, <3>1, RequestSurvives
    <3> QED
      BY <1>2, <2>2, <3>2
  <2> QED
    BY <2>1, <2>2
<1>4. ASSUME NEW g \in IxHandlers, NEW k \in IxHandlers, g # k,
             RunInProgress(ixReq'[g]), RunInProgress(ixReq'[k])
      PROVE  {ixReq'[g].run, ixReq'[k].run} \in ixTold'.rivals
  <2>1. CASE g # h /\ k # h
    <3>1. {ixReq[g].run, ixReq[k].run} \in ixTold.rivals
      BY <1>2, <1>4, <2>1 DEF IxInv, RequestsSound
    <3> QED
      BY <1>2, <1>4, <2>1, <3>1 DEF RowsMove
  <2>2. CASE g = h
    <3>1. {ixReq[k].run, r.run} \in ixTold'.rivals
      BY <1>2, <1>4, <2>2
    <3>2. {ixReq'[g].run, ixReq'[k].run} = {ixReq[k].run, r.run}
      BY <1>2, <1>4, <2>2
    <3> QED
      BY <3>1, <3>2
  <2>3. CASE k = h
    BY <1>2, <1>4, <2>3
  <2> QED
    BY <2>1, <2>2, <2>3
<1> QED
  BY <1>2, <1>3, <1>4 DEF RequestsSound

(* A request that goes on with the run it has, or ends.                    *)
SameRun(h, r) == RunInProgress(r) => RunInProgress(ixReq[h]) /\ r.run = ixReq[h].run

LEMMA GoesOnSound ==
    ASSUME IxInv, NEW h \in IxHandlers, NEW r,
           ixReq' = [ixReq EXCEPT ![h] = r],
           HistoryShape(ixTold'),
           RowsMove(ixRows, ixTold, ixRows', ixTold', {}),
           RequestSound(r, ixRows', ixTold'),
           \A g \in IxHandlers \ {h} : NewRunSeen(ixReq[g], ixRows', ixTold, ixTold'),
           SameRun(h, r)
    PROVE  RequestsSound(ixReq, ixRows, ixTold)'
<1>1. ASSUME RunInProgress(r), NEW g \in IxHandlers \ {h}, RunInProgress(ixReq[g])
      PROVE  {ixReq[g].run, r.run} \in ixTold'.rivals
  <2>1. {ixReq[g].run, ixReq[h].run} \in ixTold.rivals
    BY <1>1 DEF SameRun, IxInv, RequestsSound
  <2> QED
    BY <1>1, <2>1 DEF SameRun, RowsMove
<1> QED
  BY <1>1, MovedSound

LEMMA RowsAtRest ==
    ASSUME HistoryShape(ixTold), RowsSound(ixRows, ixTold), UNCHANGED <<ixRows, ixTold>>
    PROVE  /\ HistoryShape(ixTold') /\ RowsSound(ixRows', ixTold')
           /\ RowsMove(ixRows, ixTold, ixRows', ixTold', {})
           /\ \A r : NewRunSeen(r, ixRows', ixTold, ixTold')
<1>1. HistoryShape(ixTold') /\ RowsSound(ixRows', ixTold')
  OBVIOUS
<1>2. RowsMove(ixRows, ixTold, ixRows', ixTold', {})
  BY DEF RowsMove, HistoryShape
<1>3. \A r : NewRunSeen(r, ixRows', ixTold, ixTold')
  BY DEF NewRunSeen, RowsSound, HistoryShape
<1> QED
  BY <1>1, <1>2, <1>3

(* A handler goes on, or ends, and no row changes.                         *)
LEMMA OnlyMoves ==
    ASSUME IxInv, NEW h \in IxHandlers, NEW r,
           Moved(h, r), UNCHANGED <<ixRows, ixTold>>,
           RequestSound(r, ixRows, ixTold), SameRun(h, r)
    PROVE  RequestsSound(ixReq, ixRows, ixTold)'
<1>1. HistoryShape(ixTold) /\ RowsSound(ixRows, ixTold)
  BY DEF IxInv
<1>2. /\ HistoryShape(ixTold')
      /\ RowsMove(ixRows, ixTold, ixRows', ixTold', {})
      /\ \A g : NewRunSeen(g, ixRows', ixTold, ixTold')
  BY <1>1, RowsAtRest
<1>3. RequestSound(r, ixRows', ixTold')
  OBVIOUS
<1>4. ixReq' = [ixReq EXCEPT ![h] = r]
  BY DEF Moved
<1> QED
  BY <1>2, <1>3, <1>4, GoesOnSound

LEMMA OnlyEnds ==
    ASSUME IxInv, NEW h \in IxHandlers, Ended(h), UNCHANGED <<ixRows, ixTold>>
    PROVE  RequestsSound(ixReq, ixRows, ixTold)'
<1>1. RequestSound(NoIxRequest, ixRows, ixTold) /\ SameRun(h, NoIxRequest)
  BY IdleSound DEF IxInv, SameRun
<1> QED
  BY <1>1, OnlyMoves DEF Ended

(* The seeds and the registry while nothing of theirs moves.               *)
LEMMA ServedStill ==
    ASSUME IxInv, UNCHANGED <<ixRegistry, ixBoot, ixSeeds>>, ixBoot = "up",
           ~ixTold'.touched => ~ixTold.touched /\ \A d : HasRow(d) => HasRow(d)'
    PROVE  ixBoot' \in {"down", "seed", "up"} /\ RegistrySound' /\ SeedsSound'
<1>1. RegistrySound'
  BY DEF IxInv, RegistrySound
<1>2. SeedsSound'
  BY DEF IxInv, SeedsSound
<1> QED
  BY <1>1, <1>2 DEF IxInv

(* A row is inserted.                                                      *)
LEMMA RowAdded ==
    ASSUME IxInv, NEW row, Create(row), Recorded(row), RowShape(row), row.tested = "never",
           \A i \in DOMAIN ixRows :
               row.run > 0 /\ ixRows[i].run > 0 /\ ixRows[i].url = row.url =>
                   {ixRows[i].run, row.run} \in ixTold.rivals
    PROVE  /\ HistoryShape(ixTold') /\ RowsSound(ixRows', ixTold')
           /\ RowsMove(ixRows, ixTold, ixRows', ixTold', {})
           /\ DOMAIN ixRows' = DOMAIN ixRows \union {ixTold.lastId + 1}
           /\ ixRows'[ixTold.lastId + 1] = row
           /\ \A i \in DOMAIN ixRows : ixRows'[i] = ixRows[i]
           /\ \A d : HasRow(d) => HasRow(d)'
           /\ HasRow(row.def)'
           /\ ixTold'.touched = ixTold.touched /\ ixTold'.runs = ixTold.runs
           /\ ixTold'.rivals = ixTold.rivals /\ ixTold'.lastId = ixTold.lastId + 1
<1> DEFINE n == ixTold.lastId + 1
<1>1. /\ DOMAIN ixTold = HistoryFields
      /\ ixTold.lastId \in Nat /\ ixTold.runs \in Nat /\ ixTold.touched \in BOOLEAN
      /\ DOMAIN ixTold.decided = 1 .. ixTold.lastId
  BY DEF IxInv, HistoryShape
<1>2. /\ DOMAIN ixTold' = HistoryFields
      /\ ixTold'.lastId = n
      /\ ixTold'.decided = Extended(ixTold.decided, n, row.private)
      /\ ixTold'.overlapped = ixTold.overlapped /\ ixTold'.rivals = ixTold.rivals
      /\ ixTold'.runs = ixTold.runs /\ ixTold'.touched = ixTold.touched
  BY <1>1 DEF Recorded, HistoryFields
<1>3. \A i \in DOMAIN ixRows : i \in 1 .. ixTold.lastId /\ i # n
  BY <1>1 DEF IxInv, RowsSound
<1>4. /\ DOMAIN ixRows' = DOMAIN ixRows \union {n}
      /\ ixRows'[n] = row
      /\ \A i \in DOMAIN ixRows : ixRows'[i] = ixRows[i]
  BY <1>3 DEF Create, Extended
<1>5. /\ DOMAIN ixTold'.decided = 1 .. n
      /\ ixTold'.decided[n] = row.private
      /\ \A i \in 1 .. ixTold.lastId : ixTold'.decided[i] = ixTold.decided[i]
  <2>1. n \notin 1 .. ixTold.lastId /\ (1 .. ixTold.lastId) \union {n} = 1 .. n
    BY <1>1
  <2> QED
    BY <1>1, <1>2, <2>1 DEF Extended
<1> HIDE DEF n
<1>6. n \in Nat /\ n > ixTold.lastId /\ n \in 1 .. n /\ \A i \in 1 .. ixTold.lastId : i \in 1 .. n
  BY <1>1 DEF n
<1>7. HistoryShape(ixTold')
  BY <1>1, <1>2, <1>5, <1>6 DEF HistoryShape
<1>8. RowsSound(ixRows', ixTold')
  <2>1. ASSUME NEW i \in DOMAIN ixRows'
        PROVE  /\ i \in 1 .. ixTold'.lastId
               /\ RowShape(ixRows'[i])
               /\ ixRows'[i].tested = "ok" => ixRows'[i].caps # NoIx
               /\ i \notin ixTold'.overlapped => ixRows'[i].private = ixTold'.decided[i]
    <3>1. CASE i = n
      BY <1>2, <1>4, <1>5, <1>6, <3>1
    <3>2. CASE i \in DOMAIN ixRows
      <4>1. /\ i \in 1 .. ixTold.lastId /\ RowShape(ixRows[i])
            /\ ixRows[i].tested = "ok" => ixRows[i].caps # NoIx
            /\ i \notin ixTold.overlapped => ixRows[i].private = ixTold.decided[i]
        BY <3>2 DEF IxInv, RowsSound
      <4> QED
        BY <1>2, <1>4, <1>5, <1>6, <3>2, <4>1
    <3> QED
      BY <1>4, <2>1, <3>1, <3>2
  <2>2. \A i \in DOMAIN ixRows : row.def # NoIx => ixRows[i].def # row.def
    BY <1>1, <1>3 DEF Create, Conflicts
  <2>3. \A i, j \in DOMAIN ixRows' : ixRows'[i].def = ixRows'[j].def /\ ixRows'[i].def # NoIx => i = j
    BY <1>4, <2>2 DEF IxInv, RowsSound
  <2>4. ASSUME NEW i \in DOMAIN ixRows', NEW j \in DOMAIN ixRows', i # j,
               ixRows'[i].run > 0, ixRows'[j].run > 0, ixRows'[i].url = ixRows'[j].url
        PROVE  {ixRows'[i].run, ixRows'[j].run} \in ixTold'.rivals
    <3>1. CASE i \in DOMAIN ixRows /\ j \in DOMAIN ixRows
      BY <1>2, <1>4, <2>4, <3>1 DEF IxInv, RowsSound
    <3>2. CASE j = n
      BY <1>2, <1>4, <2>4, <3>2
    <3>3. CASE i = n
      <4>1. {ixRows[j].run, row.run} \in ixTold.rivals
        BY <1>4, <2>4, <3>3
      <4>2. {ixRows[j].run, row.run} = {ixRows'[i].run, ixRows'[j].run}
        BY <1>4, <2>4, <3>3
      <4> QED
        BY <1>2, <4>1, <4>2
    <3> QED
      BY <1>4, <2>4, <3>1, <3>2, <3>3
  <2> QED
    BY <2>1, <2>3, <2>4 DEF RowsSound
<1>9. RowsMove(ixRows, ixTold, ixRows', ixTold', {})
  BY <1>1, <1>2, <1>3, <1>4, <1>6 DEF RowsMove
<1>10. /\ \A d : HasRow(d) => HasRow(d)'
       /\ HasRow(row.def)'
  BY <1>4 DEF HasRow
<1> QED
  BY <1>2, <1>4, <1>7, <1>8, <1>9, <1>10 DEF n

LEMMA UntriedAdded ==
    ASSUME IxInv, NEW row, Create(row), Recorded(row), RowShape(row), Untried(row)
    PROVE  /\ HistoryShape(ixTold') /\ RowsSound(ixRows', ixTold')
           /\ RowsMove(ixRows, ixTold, ixRows', ixTold', {})
           /\ \A r : NewRunSeen(r, ixRows', ixTold, ixTold')
           /\ \A d : HasRow(d) => HasRow(d)'
           /\ HasRow(row.def)'
           /\ ixTold'.touched = ixTold.touched /\ ixTold'.lastId = ixTold.lastId + 1
           /\ ixTold.lastId + 1 \in DOMAIN ixRows'
<1>1. row.tested = "never" /\ row.run = 0 /\ ~(row.run > 0)
  BY DEF Untried
<1>2. \A i \in DOMAIN ixRows :
        row.run > 0 /\ ixRows[i].run > 0 /\ ixRows[i].url = row.url =>
            {ixRows[i].run, row.run} \in ixTold.rivals
  BY <1>1
<1>3. /\ HistoryShape(ixTold') /\ RowsSound(ixRows', ixTold')
      /\ RowsMove(ixRows, ixTold, ixRows', ixTold', {})
      /\ DOMAIN ixRows' = DOMAIN ixRows \union {ixTold.lastId + 1}
      /\ ixRows'[ixTold.lastId + 1] = row
      /\ \A d : HasRow(d) => HasRow(d)'
      /\ HasRow(row.def)'
      /\ ixTold'.touched = ixTold.touched /\ ixTold'.lastId = ixTold.lastId + 1
  BY <1>1, <1>2, RowAdded
<1>4. \A i \in DOMAIN ixRows : i \in 1 .. ixTold.lastId
  BY DEF IxInv, RowsSound
<1>5. \A i \in DOMAIN ixRows' : ~(i <= ixTold.lastId) => ixRows'[i] = row
  BY <1>3, <1>4 DEF IxInv, HistoryShape
<1>6. \A r : NewRunSeen(r, ixRows', ixTold, ixTold')
  BY <1>1, <1>5 DEF NewRunSeen
<1> QED
  BY <1>3, <1>6

(* A row changes its caps document or its last test.                       *)
LEMMA RowTested ==
    ASSUME IxInv, NEW id \in DOMAIN ixRows, NEW row, UNCHANGED ixTold,
           ixRows' = [ixRows EXCEPT ![id] = row],
           RowShape(row),
           row.tested = "ok" => row.caps # NoIx,
           ixRows[id].caps # NoIx => row.caps # NoIx,
           row.private = ixRows[id].private, row.def = ixRows[id].def,
           row.url = ixRows[id].url, row.run = ixRows[id].run
    PROVE  /\ HistoryShape(ixTold') /\ RowsSound(ixRows', ixTold')
           /\ RowsMove(ixRows, ixTold, ixRows', ixTold', {})
           /\ \A r : NewRunSeen(r, ixRows', ixTold, ixTold')
           /\ DOMAIN ixRows' = DOMAIN ixRows /\ ixRows'[id] = row
           /\ \A d : HasRow(d) => HasRow(d)'
<1>1. HistoryShape(ixTold) /\ RowsSound(ixRows, ixTold)
  BY DEF IxInv
<1>2. /\ DOMAIN ixRows' = DOMAIN ixRows /\ ixRows'[id] = row
      /\ \A i \in DOMAIN ixRows : i # id => ixRows'[i] = ixRows[i]
  OBVIOUS
<1>3. \A i \in DOMAIN ixRows :
        /\ ixRows'[i].private = ixRows[i].private /\ ixRows'[i].def = ixRows[i].def
        /\ ixRows'[i].url = ixRows[i].url /\ ixRows'[i].run = ixRows[i].run
        /\ RowShape(ixRows'[i])
        /\ ixRows'[i].tested = "ok" => ixRows'[i].caps # NoIx
        /\ ixRows[i].caps # NoIx => ixRows'[i].caps # NoIx
  BY <1>1, <1>2 DEF RowsSound
<1>4. RowsSound(ixRows', ixTold')
  <2>1. \A i \in DOMAIN ixRows' :
          /\ i \in 1 .. ixTold'.lastId
          /\ RowShape(ixRows'[i])
          /\ ixRows'[i].tested = "ok" => ixRows'[i].caps # NoIx
          /\ i \notin ixTold'.overlapped => ixRows'[i].private = ixTold'.decided[i]
    BY <1>1, <1>2, <1>3 DEF RowsSound
  <2>2. \A i, j \in DOMAIN ixRows' : ixRows'[i].def = ixRows'[j].def /\ ixRows'[i].def # NoIx => i = j
    BY <1>1, <1>2, <1>3 DEF RowsSound
  <2>3. ASSUME NEW i \in DOMAIN ixRows', NEW j \in DOMAIN ixRows', i # j,
               ixRows'[i].run > 0, ixRows'[j].run > 0, ixRows'[i].url = ixRows'[j].url
        PROVE  {ixRows'[i].run, ixRows'[j].run} \in ixTold'.rivals
    <3>1. /\ ixRows'[i].run = ixRows[i].run /\ ixRows'[i].url = ixRows[i].url
          /\ ixRows'[j].run = ixRows[j].run /\ ixRows'[j].url = ixRows[j].url
          /\ i \in DOMAIN ixRows /\ j \in DOMAIN ixRows
      BY <1>2, <1>3, <2>3
    <3> QED
      BY <1>1, <2>3, <3>1 DEF RowsSound
  <2> QED
    BY <2>1, <2>2, <2>3 DEF RowsSound
<1>5. RowsMove(ixRows, ixTold, ixRows', ixTold', {})
  BY <1>1, <1>2, <1>3 DEF RowsMove, HistoryShape
<1>6. \A r : NewRunSeen(r, ixRows', ixTold, ixTold')
  BY <1>1, <1>2 DEF NewRunSeen, RowsSound, HistoryShape
<1>7. \A d : HasRow(d) => HasRow(d)'
  BY <1>2, <1>3 DEF HasRow
<1> QED
  BY <1>1, <1>2, <1>4, <1>5, <1>6, <1>7

LEMMA RowsUntouched ==
    ASSUME IxInv, UNCHANGED <<ixRows, ixTold>>
    PROVE  HistoryShape(ixTold') /\ RowsSound(ixRows', ixTold') /\ \A d : HasRow(d)' = HasRow(d)
  BY DEF IxInv, HasRow

LEMMA InitSound == IxInit => IxInv
<1> SUFFICES ASSUME IxInit PROVE IxInv
  OBVIOUS
<1>1. HistoryShape(ixTold)
  BY DEF IxInit, HistoryShape, HistoryFields
<1>2. RowsSound(ixRows, ixTold)
  BY DEF IxInit, RowsSound
<1>3. RequestsSound(ixReq, ixRows, ixTold)
  <2>1. \A h \in IxHandlers : ixReq[h] = NoIxRequest
    BY DEF IxInit
  <2> QED
    BY <1>1, <2>1, IdleSound DEF IxInit, RequestsSound
<1>4. RegistrySound /\ SeedsSound
  BY DEF IxInit, RegistrySound, SeedsSound
<1> QED
  BY <1>1, <1>2, <1>3, <1>4 DEF IxInit, IxInv

LEMMA NewRegistrySound == ASSUME IxInv, NewRegistry PROVE IxInv'
<1>1. /\ DOMAIN ixTold = HistoryFields
      /\ ixTold' = [ixTold EXCEPT !.touched = FALSE]
      /\ ixTold.lastId \in Nat /\ ixTold.runs \in Nat
      /\ DOMAIN ixTold.decided = 1 .. ixTold.lastId
  BY DEF IxInv, HistoryShape, NewRegistry
<1>2. /\ DOMAIN ixTold' = HistoryFields
      /\ ixTold'.lastId = ixTold.lastId /\ ixTold'.runs = ixTold.runs
      /\ ixTold'.decided = ixTold.decided /\ ixTold'.overlapped = ixTold.overlapped
      /\ ixTold'.rivals = ixTold.rivals /\ ixTold'.touched = FALSE
  BY <1>1 DEF HistoryFields
<1>3. HistoryShape(ixTold')
  BY <1>1, <1>2 DEF HistoryShape
<1>4. RowsSound(ixRows', ixTold')
  <2>1. ixRows' = ixRows
    BY DEF NewRegistry
  <2> QED
    BY <1>2, <2>1 DEF IxInv, RowsSound
<1>5. RequestsSound(ixReq', ixRows', ixTold')
  <2>1. ixReq' = ixReq /\ ixRows' = ixRows
    BY DEF NewRegistry
  <2>2. ASSUME NEW h \in IxHandlers
        PROVE  RequestSound(ixReq[h], ixRows, ixTold')
    <3>1. RequestSound(ixReq[h], ixRows, ixTold)
      BY DEF IxInv, RequestsSound
    <3> QED
      BY <1>2, <3>1 DEF RequestSound, RequestShape, RunsSeen
  <2> QED
    BY <1>2, <2>1, <2>2 DEF IxInv, RequestsSound
<1>6. RegistrySound'
  <2>1. PICK dir \in UserDirs : ixRegistry' = publishDefinitions(readUserDir(dir))
    BY DEF NewRegistry
  <2>2. /\ DOMAIN ixRegistry' = BundledValid \union (Declared(dir) \ bundledIDSet)
        /\ \A d \in BundledValid : ixRegistry'[d] = "bundled"
    BY <2>1 DEF publishDefinitions, readUserDir, loadBundled
  <2> QED
    BY <2>2, IxAssumption DEF RegistrySound, Declared, NewRegistry, bundledIDSet
<1>7. SeedsSound'
  BY IxAssumption DEF NewRegistry, SeedsSound
<1> QED
  BY <1>3, <1>4, <1>5, <1>6, <1>7 DEF IxInv, NewRegistry

(* A row nobody's wizard made concerns no run in progress.                 *)
LEMMA RequestsSeeCreated ==
    ASSUME IxInv, NEW row, Create(row), Recorded(row), RowShape(row), Untried(row), UNCHANGED ixReq
    PROVE  RequestsSound(ixReq, ixRows, ixTold)'
<1>1. /\ HistoryShape(ixTold) /\ HistoryShape(ixTold')
      /\ RowsMove(ixRows, ixTold, ixRows', ixTold', {})
      /\ \A r : NewRunSeen(r, ixRows', ixTold, ixTold')
  BY UntriedAdded DEF IxInv
<1>3. ASSUME NEW h \in IxHandlers
      PROVE  RequestSound(ixReq[h], ixRows', ixTold')
  <2>1. RequestSound(ixReq[h], ixRows, ixTold)
    BY DEF IxInv, RequestsSound
  <2> QED
    BY <1>1, <2>1, RequestSurvives
<1> QED
  BY <1>1, <1>3 DEF IxInv, RequestsSound, RowsMove

LEMMA SeedRowShape ==
    ASSUME NEW id
    PROVE  RowShape(SeedRow(id)) /\ Untried(SeedRow(id)) /\ SeedRow(id).def = id
  BY DEF SeedRow, NoRow, RowShape, RowFields, Untried, Flags

LEMMA SeedIndexersSound == ASSUME IxInv, SeedIndexers PROVE IxInv'
<1>0. PICK id : id = Head(ixSeeds)
  OBVIOUS
<1>1. /\ ixSeeds \in Seq(Range(BundledIDs)) /\ ixSeeds # <<>> /\ ixBoot = "seed"
      /\ BundledValid \subseteq DOMAIN ixRegistry
      /\ \A d \in BundledValid : d \in Range(ixSeeds) \/ HasRow(d)
      /\ UNCHANGED <<ixRegistry, ixBoot, ixReq>>
      /\ ixSeeds' = Tail(ixSeeds)
  BY DEF IxInv, SeedIndexers, SeedsSound, RegistrySound, AfterConflict
<1>2. ixSeeds' \in Seq(Range(BundledIDs)) /\ Range(ixSeeds) \subseteq {id} \union Range(ixSeeds')
  BY <1>0, <1>1, RestOfSeq
<1>3. RegistrySound'
  BY <1>1 DEF IxInv, RegistrySound
<1>4. CASE /\ UNCHANGED <<ixRows, ixTold>>
           /\ id \in DOMAIN ixRegistry => Conflicts(0, id)
  <2>1. HistoryShape(ixTold') /\ RowsSound(ixRows', ixTold') /\ \A d : HasRow(d)' = HasRow(d)
    BY <1>4, RowsUntouched
  <2>2. id \in BundledValid => HasRow(id)
    BY <1>1, <1>4 DEF Conflicts, HasRow
  <2>3. SeedsSound'
    BY <1>1, <1>2, <2>1, <2>2 DEF SeedsSound
  <2>4. RequestsSound(ixReq, ixRows, ixTold)'
    BY <1>1, <1>4 DEF IxInv
  <2> QED
    BY <1>1, <1>3, <2>1, <2>3, <2>4 DEF IxInv
<1>5. CASE Create(SeedRow(id)) /\ Recorded(SeedRow(id))
  <2>1. RowShape(SeedRow(id)) /\ Untried(SeedRow(id)) /\ SeedRow(id).def = id
    BY SeedRowShape
  <2>2. RequestsSound(ixReq, ixRows, ixTold)'
    BY <1>1, <1>5, <2>1, RequestsSeeCreated
  <2>4. /\ HistoryShape(ixTold') /\ RowsSound(ixRows', ixTold')
        /\ \A d : HasRow(d) => HasRow(d)'
        /\ HasRow(SeedRow(id).def)'
    BY <1>5, <2>1, UntriedAdded
  <2>5. SeedsSound'
    BY <1>1, <1>2, <2>1, <2>4 DEF SeedsSound
  <2> QED
    BY <1>1, <1>3, <2>2, <2>4, <2>5 DEF IxInv
<1> QED
  BY <1>0, <1>4, <1>5 DEF SeedIndexers

LEMMA BootEndsSound == ASSUME IxInv, BootDone PROVE IxInv'
<1>1. /\ ixBoot = "seed" /\ ixSeeds = <<>> /\ ixBoot' = "up"
      /\ UNCHANGED <<ixRows, ixRegistry, ixSeeds, ixReq, ixTold>>
  BY DEF BootDone
<1>2. /\ HistoryShape(ixTold') /\ RowsSound(ixRows', ixTold') /\ \A d : HasRow(d)' = HasRow(d)
  BY <1>1, RowsUntouched
<1>3. RegistrySound'
  BY <1>1 DEF IxInv, RegistrySound
<1>4. SeedsSound'
  BY <1>1, <1>2 DEF IxInv, SeedsSound, Range
<1>5. RequestsSound(ixReq, ixRows, ixTold)'
  BY <1>1 DEF IxInv
<1> QED
  BY <1>1, <1>2, <1>3, <1>4, <1>5 DEF IxInv

LEMMA ProcessEndsSound == ASSUME IxInv, ProcessEnds PROVE IxInv'
<1>1. /\ ixBoot' = "down" /\ DOMAIN ixRegistry' = {}
      /\ ixReq' = [h \in IxHandlers |-> NoIxRequest]
      /\ UNCHANGED <<ixRows, ixTold>>
  BY DEF ProcessEnds
<1>2. /\ HistoryShape(ixTold') /\ RowsSound(ixRows', ixTold')
  BY <1>1, RowsUntouched
<1>3. RegistrySound' /\ SeedsSound'
  BY <1>1 DEF RegistrySound, SeedsSound
<1>4. RequestsSound(ixReq, ixRows, ixTold)'
  <2>1. \A h \in IxHandlers : ixReq'[h] = NoIxRequest
    BY <1>1
  <2> QED
    BY <1>1, <1>2, <2>1, IdleSound DEF RequestsSound
<1> QED
  BY <1>1, <1>2, <1>3, <1>4 DEF IxInv

(* A step of a handler that moves no row.                                  *)
LEMMA HandlerMoves ==
    ASSUME IxInv, ixBoot = "up", NEW h \in IxHandlers, NEW r, Moved(h, r),
           UNCHANGED <<ixRows, ixRegistry, ixBoot, ixSeeds, ixTold>>,
           RequestSound(r, ixRows, ixTold), SameRun(h, r)
    PROVE  IxInv'
<1>1. RequestsSound(ixReq, ixRows, ixTold)'
  BY OnlyMoves
<1>2. HistoryShape(ixTold') /\ RowsSound(ixRows', ixTold') /\ \A d : HasRow(d)' = HasRow(d)
  BY RowsUntouched
<1>3. ixBoot' \in {"down", "seed", "up"} /\ RegistrySound' /\ SeedsSound'
  BY <1>2, ServedStill
<1> QED
  BY <1>1, <1>2, <1>3 DEF IxInv

LEMMA HandlerEnds ==
    ASSUME IxInv, ixBoot = "up", NEW h \in IxHandlers, Ended(h),
           UNCHANGED <<ixRows, ixRegistry, ixBoot, ixSeeds, ixTold>>
    PROVE  IxInv'
<1>1. RequestSound(NoIxRequest, ixRows, ixTold) /\ SameRun(h, NoIxRequest)
  BY IdleSound DEF IxInv, SameRun
<1> QED
  BY <1>1, HandlerMoves DEF Ended

LEMMA CreateBegins ==
    ASSUME IxInv, NEW h \in IxHandlers, NEW q \in IxRequests, CreateIndexer(h, q)
    PROVE  IxInv'
<1> DEFINE row == [NoRow EXCEPT !.kind = q.kind, !.url = q.url, !.def = q.def, !.enabled = q.enabled,
                                !.private = indexerSettingsJSON(q.private)]
           r == [NoIxRequest EXCEPT !.op = q.op, !.row = row,
                                    !.at = IF q.kind = "torznab" THEN "probe" ELSE "insert"]
<1>1. /\ ixBoot = "up" /\ q.op = "create" /\ Accepted(row) /\ Moved(h, r)
      /\ UNCHANGED <<ixRows, ixRegistry, ixBoot, ixSeeds, ixTold>>
  BY DEF CreateIndexer, Begins
<1>2. /\ RowShape(row) /\ Untried(row) /\ row.kind = q.kind /\ row.url = q.url
  BY DEF NoRow, RowShape, RowFields, Untried, Flags, indexerSettingsJSON
<1>3. q.kind = "torznab" => CapsOf(row) # NoIx
  BY <1>1, <1>2 DEF Accepted, CapsOf
<1> HIDE DEF row
<1>4. /\ DOMAIN r = RequestFields /\ r.op = "create" /\ r.id = 0 /\ r.run = 0 /\ r.row = row
      /\ r.probe = "none"
      /\ r.at = IF q.kind = "torznab" THEN "probe" ELSE "insert"
  BY <1>1 DEF NoIxRequest, RequestFields
<1> HIDE DEF r
<1>5. RequestSound(r, ixRows, ixTold)
  BY <1>2, <1>3, <1>4
     DEF RequestSound, RequestShape, ProbeSound, WizardSound, RunsSeen, RunInProgress, IxInv, HistoryShape
<1>6. SameRun(h, r)
  BY <1>4 DEF SameRun, RunInProgress
<1> QED
  BY <1>1, <1>5, <1>6, HandlerMoves

LEMMA PatchBegins ==
    ASSUME IxInv, NEW h \in IxHandlers, NEW q \in IxRequests, NEW id \in DOMAIN ixRows,
           PatchIndexer(h, q, id)
    PROVE  IxInv'
<1> DEFINE r == [NoIxRequest EXCEPT !.op = q.op, !.at = "update", !.id = id, !.row = ixRows[id], !.patch = q]
<1>1. /\ ixBoot = "up" /\ q.op = "patch" /\ Moved(h, r)
      /\ UNCHANGED <<ixRows, ixRegistry, ixBoot, ixSeeds, ixTold>>
  BY DEF PatchIndexer, Begins
<1>2. RowShape(ixRows[id]) /\ id \in 0 .. ixTold.lastId
  BY DEF IxInv, RowsSound, HistoryShape
<1>3. /\ DOMAIN r = RequestFields /\ r.op = "patch" /\ r.id = id /\ r.run = 0 /\ r.row = ixRows[id]
      /\ r.at = "update" /\ r.patch = q
  BY <1>1 DEF NoIxRequest, RequestFields
<1> HIDE DEF r
<1>4. RequestSound(r, ixRows, ixTold)
  BY <1>1, <1>2, <1>3
     DEF RequestSound, RequestShape, ProbeSound, WizardSound, RunsSeen, RunInProgress, IxInv, HistoryShape
<1>5. SameRun(h, r)
  BY <1>3 DEF SameRun, RunInProgress
<1> QED
  BY <1>1, <1>4, <1>5, HandlerMoves

LEMMA TestBegins ==
    ASSUME IxInv, NEW h \in IxHandlers, NEW q \in IxRequests, NEW id \in DOMAIN ixRows,
           TestIndexer(h, q, id)
    PROVE  IxInv'
<1> DEFINE r == [NoIxRequest EXCEPT !.op = q.op, !.at = "probe", !.id = id, !.row = ixRows[id]]
<1>1. /\ ixBoot = "up" /\ q.op = "test" /\ Moved(h, r) /\ Probeable(ixRows[id])
      /\ UNCHANGED <<ixRows, ixRegistry, ixBoot, ixSeeds, ixTold>>
  BY DEF TestIndexer, Begins
<1>2. RowShape(ixRows[id]) /\ id \in 0 .. ixTold.lastId
  BY DEF IxInv, RowsSound, HistoryShape
<1>3. CapsOf(ixRows[id]) # NoIx
  BY <1>1 DEF Probeable, CapsOf, IxInv, RegistrySound
<1>4. /\ DOMAIN r = RequestFields /\ r.op = "test" /\ r.id = id /\ r.run = 0 /\ r.row = ixRows[id]
      /\ r.at = "probe"
  BY <1>1 DEF NoIxRequest, RequestFields
<1> HIDE DEF r
<1>5. RequestSound(r, ixRows, ixTold)
  BY <1>1, <1>2, <1>3, <1>4
     DEF RequestSound, RequestShape, ProbeSound, WizardSound, RunsSeen, RunInProgress, IxInv, HistoryShape
<1>6. SameRun(h, r)
  BY <1>4 DEF SameRun, RunInProgress
<1> QED
  BY <1>1, <1>5, <1>6, HandlerMoves

LEMMA WizardBegins ==
    ASSUME IxInv, NEW h \in IxHandlers, NEW q \in IxRequests, ImportIndexer(h, q)
    PROVE  IxInv'
<1> DEFINE r == [NoIxRequest EXCEPT !.op = q.op, !.at = "list", !.todo = Provider]
<1>1. /\ ixBoot = "up" /\ q.op = "wizard" /\ Moved(h, r)
      /\ UNCHANGED <<ixRows, ixRegistry, ixBoot, ixSeeds, ixTold>>
  BY DEF ImportIndexer, Begins
<1>2. RowShape(NoRow)
  BY FreshRow
<1>3. /\ DOMAIN r = RequestFields /\ r.op = "wizard" /\ r.id = 0 /\ r.run = 0 /\ r.row = NoRow
      /\ r.at = "list" /\ r.todo = Provider /\ r.known = {}
  BY <1>1 DEF NoIxRequest, RequestFields
<1> HIDE DEF r
<1>4. RequestSound(r, ixRows, ixTold)
  BY <1>2, <1>3, IxAssumption
     DEF RequestSound, RequestShape, ProbeSound, WizardSound, RunsSeen, RunInProgress, IxInv, HistoryShape
<1>5. SameRun(h, r)
  BY <1>3 DEF SameRun, RunInProgress
<1> QED
  BY <1>1, <1>4, <1>5, HandlerMoves

LEMMA ProbeAnswers ==
    ASSUME IxInv, NEW h \in IxHandlers, Probe(h)
    PROVE  IxInv'
<1>1. PICK outcome \in ProbeOutcomes :
        IF outcome = "denied" /\ ixReq[h].op # "wizard" THEN Ended(h)
        ELSE Moved(h, [ixReq[h] EXCEPT
                !.probe = IF outcome = "ok" THEN "ok" ELSE "error",
                !.at = IF ixReq[h].op = "create" THEN "insert" ELSE Outcome(outcome)])
  BY DEF Probe
<1>2. /\ ixBoot = "up" /\ ixReq[h].at = "probe"
      /\ UNCHANGED <<ixRows, ixRegistry, ixBoot, ixSeeds, ixTold>>
  BY DEF Probe, Reached
<1>3. CASE outcome = "denied" /\ ixReq[h].op # "wizard"
  BY <1>1, <1>2, <1>3, HandlerEnds
<1>4. CASE ~(outcome = "denied" /\ ixReq[h].op # "wizard")
  <2> DEFINE old == ixReq[h]
             r == [old EXCEPT !.probe = IF outcome = "ok" THEN "ok" ELSE "error",
                              !.at = IF old.op = "create" THEN "insert" ELSE Outcome(outcome)]
  <2>1. Moved(h, r)
    BY <1>1, <1>4
  <2>2. RequestSound(old, ixRows, ixTold)
    BY DEF IxInv, RequestsSound
  <2>3. old.at = "probe"
    BY <1>2
  <2>9. SameRun(h, r) <=> (RunInProgress(r) => RunInProgress(old) /\ r.run = old.run)
    BY DEF SameRun
  <2> HIDE DEF old
  <2>4. /\ DOMAIN r = RequestFields /\ r.op = old.op /\ r.id = old.id /\ r.run = old.run
        /\ r.row = old.row /\ r.todo = old.todo /\ r.known = old.known /\ r.gone = old.gone
        /\ r.probe = (IF outcome = "ok" THEN "ok" ELSE "error")
        /\ r.at = (IF old.op = "create" THEN "insert" ELSE Outcome(outcome))
    BY <2>2 DEF RequestSound, RequestShape, RequestFields
  <2> HIDE DEF r
  <2>5. r.at \in {"insert", "caps", "stamp"} /\ r.probe \in ProbeResults
    BY <2>4 DEF Outcome, ProbeResults
  <2>6. ProbeSound(r, ixRows)
    BY <2>2, <2>3, <2>4, <2>5 DEF RequestSound, ProbeSound, Outcome
  <2>7. RequestShape(r, ixTold) /\ WizardSound(r, ixRows)
    BY <2>2, <2>4, <2>5 DEF RequestSound, RequestShape, WizardSound
  <2>8. RunInProgress(r) = RunInProgress(old) /\ RunsSeen(r, ixRows, ixTold)
    BY <2>2, <2>3, <2>4, <2>5 DEF RequestSound, RunsSeen, RunInProgress
  <2> QED
    BY <1>2, <2>1, <2>4, <2>6, <2>7, <2>8, <2>9, HandlerMoves DEF RequestSound
<1> QED
  BY <1>3, <1>4

LEMMA WizardAnswersSound ==
    ASSUME IxInv, NEW h \in IxHandlers, WizardAnswers(h)
    PROVE  IxInv'
<1>1. /\ ixBoot = "up" /\ ixReq[h].op = "wizard" /\ ixReq[h].todo = <<>>
      /\ UNCHANGED <<ixRows, ixRegistry, ixBoot, ixSeeds, ixTold>>
  BY DEF WizardAnswers, Serving
<1>2. CASE ixReq[h].first \notin DOMAIN ixRows
  BY <1>1, <1>2, HandlerEnds DEF WizardAnswers
<1>3. CASE ixReq[h].first \in DOMAIN ixRows
  <2> DEFINE r == [ixReq[h] EXCEPT !.at = "answered"]
  <2>1. Moved(h, r)
    BY <1>3 DEF WizardAnswers
  <2>2. RequestSound(ixReq[h], ixRows, ixTold)
    BY DEF IxInv, RequestsSound
  <2>3. /\ DOMAIN r = RequestFields /\ r.op = ixReq[h].op /\ r.id = ixReq[h].id /\ r.run = ixReq[h].run
        /\ r.row = ixReq[h].row /\ r.todo = ixReq[h].todo /\ r.known = ixReq[h].known
        /\ r.gone = ixReq[h].gone /\ r.at = "answered"
    BY <2>2 DEF RequestSound, RequestShape, RequestFields
  <2> HIDE DEF r
  <2>4. RequestSound(r, ixRows, ixTold)
    BY <1>1, <2>2, <2>3
       DEF RequestSound, RequestShape, ProbeSound, WizardSound, RunsSeen, RunInProgress
  <2>5. SameRun(h, r)
    BY <2>3 DEF SameRun, RunInProgress
  <2> QED
    BY <1>1, <2>1, <2>4, <2>5, HandlerMoves
<1> QED
  BY <1>2, <1>3

LEMMA HandlerFailsSound ==
    ASSUME IxInv, NEW h \in IxHandlers, HandlerFails(h)
    PROVE  IxInv'
  BY HandlerEnds DEF HandlerFails

LEMMA FileImported ==
    ASSUME IxInv, NEW h \in IxHandlers, NEW q \in IxRequests, importIndexerFile(h, q)
    PROVE  IxInv'
<1> DEFINE row == [NoRow EXCEPT !.kind = "dlsearch", !.def = q.def, !.source = "imported",
                                !.private = "false"]
<1>1. /\ ixBoot = "up" /\ Ended(h)
      /\ UNCHANGED <<ixRegistry, ixBoot, ixSeeds>>
      /\ (Create(row) /\ Recorded(row)) \/ UNCHANGED <<ixRows, ixTold>>
  BY DEF importIndexerFile, Begins
<1>2. RowShape(row) /\ Untried(row)
  BY DEF NoRow, RowShape, RowFields, Untried, Flags
<1> HIDE DEF row
<1>3. CASE UNCHANGED <<ixRows, ixTold>>
  BY <1>1, <1>3, HandlerEnds
<1>4. CASE Create(row) /\ Recorded(row)
  <2>1. /\ HistoryShape(ixTold') /\ RowsSound(ixRows', ixTold')
        /\ RowsMove(ixRows, ixTold, ixRows', ixTold', {})
        /\ \A r : NewRunSeen(r, ixRows', ixTold, ixTold')
        /\ \A d : HasRow(d) => HasRow(d)'
        /\ ixTold'.touched = ixTold.touched
    BY <1>2, <1>4, UntriedAdded
  <2>2. RequestSound(NoIxRequest, ixRows', ixTold') /\ SameRun(h, NoIxRequest)
    BY <2>1, IdleSound DEF SameRun
  <2>3. RequestsSound(ixReq, ixRows, ixTold)'
    BY <1>1, <2>1, <2>2, GoesOnSound DEF Ended, Moved
  <2>4. ixBoot' \in {"down", "seed", "up"} /\ RegistrySound' /\ SeedsSound'
    BY <1>1, <2>1, ServedStill
  <2> QED
    BY <2>1, <2>3, <2>4 DEF IxInv
<1> QED
  BY <1>1, <1>3, <1>4

LEMMA RowInserted ==
    ASSUME IxInv, NEW h \in IxHandlers, InsertRow(h)
    PROVE  IxInv'
<1>0. PICK old : old = ixReq[h]
  OBVIOUS
<1>1. /\ ixBoot = "up" /\ old.op = "create" /\ old.at = "insert"
      /\ UNCHANGED <<ixRegistry, ixBoot, ixSeeds>>
  BY <1>0 DEF InsertRow, Serving
<1>2. RequestSound(old, ixRows, ixTold)
  BY <1>0 DEF IxInv, RequestsSound
<1>3. RowShape(old.row) /\ Untried(old.row)
  BY <1>1, <1>2 DEF RequestSound, RequestShape, ProbeSound
<1>4. CASE UNCHANGED <<ixRows, ixTold>> /\ Ended(h)
  BY <1>1, <1>4, HandlerEnds
<1>5. CASE /\ Create(old.row) /\ Recorded(old.row)
           /\ IF old.probe = "none" THEN Ended(h)
              ELSE Moved(h, [old EXCEPT !.id = ixTold.lastId + 1, !.at = Outcome(old.probe)])
  <2>1. /\ HistoryShape(ixTold') /\ RowsSound(ixRows', ixTold')
        /\ RowsMove(ixRows, ixTold, ixRows', ixTold', {})
        /\ \A r : NewRunSeen(r, ixRows', ixTold, ixTold')
        /\ \A d : HasRow(d) => HasRow(d)'
        /\ ixTold'.touched = ixTold.touched /\ ixTold'.lastId = ixTold.lastId + 1
    BY <1>3, <1>5, UntriedAdded
  <2>2. RequestsSound(ixReq, ixRows, ixTold)'
    <3>1. CASE old.probe = "none"
      <4>1. RequestSound(NoIxRequest, ixRows', ixTold') /\ SameRun(h, NoIxRequest)
        BY <2>1, IdleSound DEF SameRun
      <4> QED
        BY <1>5, <2>1, <3>1, <4>1, GoesOnSound DEF Ended, Moved
    <3>2. CASE old.probe # "none"
      <4>1. PICK n : n = ixTold.lastId + 1
        OBVIOUS
      <4> DEFINE r == [old EXCEPT !.id = n, !.at = Outcome(old.probe)]
      <4>2. ixReq' = [ixReq EXCEPT ![h] = r]
        BY <1>5, <3>2, <4>1 DEF Moved
      <4>3. /\ DOMAIN r = RequestFields /\ r.op = old.op /\ r.id = n /\ r.run = old.run
            /\ r.row = old.row /\ r.probe = old.probe /\ r.at = Outcome(old.probe)
        BY <1>2 DEF RequestSound, RequestShape, RequestFields
      <4> HIDE DEF r
      <4>4. old.probe \in ProbeResults /\ CapsOf(old.row) # NoIx
        BY <1>1, <1>2, <3>2 DEF RequestSound, ProbeSound
      <4>5. ProbeSound(r, ixRows')
        BY <4>3, <4>4 DEF ProbeSound, Outcome
      <4>6. RequestShape(r, ixTold')
        BY <1>2, <2>1, <4>1, <4>3 DEF RequestSound, RequestShape, RowsMove, HistoryShape, IxInv
      <4>7. /\ WizardSound(r, ixRows') /\ RunsSeen(r, ixRows', ixTold')
            /\ SameRun(h, r)
        BY <1>1, <4>3 DEF WizardSound, RunsSeen, RunInProgress, SameRun
      <4>8. RequestSound(r, ixRows', ixTold')
        BY <4>5, <4>6, <4>7 DEF RequestSound
      <4> QED
        BY <2>1, <4>2, <4>7, <4>8, GoesOnSound
    <3> QED
      BY <3>1, <3>2
  <2>3. ixBoot' \in {"down", "seed", "up"} /\ RegistrySound' /\ SeedsSound'
    BY <1>1, <2>1, ServedStill
  <2> QED
    BY <2>1, <2>2, <2>3 DEF IxInv
<1> QED
  BY <1>0, <1>4, <1>5 DEF InsertRow

LEMMA CapsStored ==
    ASSUME IxInv, NEW h \in IxHandlers, SetCaps(h)
    PROVE  IxInv'
<1>0. PICK old, id : old = ixReq[h] /\ id = old.id
  OBVIOUS
<1>1. /\ ixBoot = "up" /\ old.at = "caps"
      /\ UNCHANGED <<ixRegistry, ixBoot, ixSeeds, ixTold>>
  BY <1>0 DEF SetCaps, Reached
<1>2. RequestSound(old, ixRows, ixTold)
  BY <1>0 DEF IxInv, RequestsSound
<1>3. CASE id \notin DOMAIN ixRows
  <2>1. Ended(h) /\ UNCHANGED ixRows
    BY <1>0, <1>3 DEF SetCaps
  <2> QED
    BY <1>1, <2>1, HandlerEnds
<1>4. CASE id \in DOMAIN ixRows
  <2>1. PICK row0, c : row0 = ixRows[id] /\ c = CapsOf(old.row)
    OBVIOUS
  <2> DEFINE row == [row0 EXCEPT !.caps = c]
             r == [old EXCEPT !.at = "stamp"]
  <2>2. ixRows' = [ixRows EXCEPT ![id] = row] /\ ixReq' = [ixReq EXCEPT ![h] = r]
    BY <1>0, <1>4, <2>1 DEF SetCaps, Moved
  <2>3. /\ RowShape(row0)
        /\ c # NoIx
    BY <1>1, <1>2, <1>4, <2>1 DEF IxInv, RowsSound, RequestSound, ProbeSound
  <2>4. /\ DOMAIN row = RowFields /\ row.caps = c /\ row.tested = row0.tested
        /\ row.private = row0.private /\ row.def = row0.def /\ row.url = row0.url /\ row.run = row0.run
    BY <2>3 DEF RowShape, RowFields
  <2>5. /\ DOMAIN r = RequestFields /\ r.op = old.op /\ r.id = old.id /\ r.run = old.run
        /\ r.row = old.row /\ r.todo = old.todo /\ r.known = old.known /\ r.gone = old.gone
        /\ r.probe = old.probe /\ r.at = "stamp"
    BY <1>2 DEF RequestSound, RequestShape, RequestFields
  <2> HIDE DEF row, r
  <2>6. RowShape(row)
    BY <2>3, <2>4 DEF RowShape
  <2>7. /\ HistoryShape(ixTold') /\ RowsSound(ixRows', ixTold')
        /\ RowsMove(ixRows, ixTold, ixRows', ixTold', {})
        /\ \A g : NewRunSeen(g, ixRows', ixTold, ixTold')
        /\ DOMAIN ixRows' = DOMAIN ixRows /\ ixRows'[id] = row
        /\ \A d : HasRow(d) => HasRow(d)'
    BY <1>1, <1>4, <2>1, <2>2, <2>3, <2>4, <2>6, RowTested
  <2>8. RequestSound(old, ixRows', ixTold')
    BY <1>2, <2>7, RequestSurvives DEF IxInv
  <2>9. RequestSound(r, ixRows', ixTold')
    <3>1. ProbeSound(r, ixRows')
      BY <1>0, <1>1, <1>2, <2>3, <2>4, <2>5, <2>7 DEF RequestSound, ProbeSound
    <3>2. RequestShape(r, ixTold') /\ WizardSound(r, ixRows') /\ RunsSeen(r, ixRows', ixTold')
      BY <1>1, <2>5, <2>8 DEF RequestSound, RequestShape, WizardSound, RunsSeen, RunInProgress
    <3> QED
      BY <3>1, <3>2 DEF RequestSound
  <2>10. SameRun(h, r)
    BY <1>0, <1>1, <2>5 DEF SameRun, RunInProgress
  <2>11. RequestsSound(ixReq, ixRows, ixTold)'
    BY <2>2, <2>7, <2>9, <2>10, GoesOnSound
  <2>12. ixBoot' \in {"down", "seed", "up"} /\ RegistrySound' /\ SeedsSound'
    BY <1>1, <2>7, ServedStill
  <2> QED
    BY <2>7, <2>11, <2>12 DEF IxInv
<1> QED
  BY <1>3, <1>4

LEMMA TestRecorded ==
    ASSUME IxInv, NEW h \in IxHandlers, RecordTest(h)
    PROVE  IxInv'
<1>0. PICK old, id : old = ixReq[h] /\ id = old.id
  OBVIOUS
<1>1. /\ ixBoot = "up" /\ old.at = "stamp"
      /\ UNCHANGED <<ixRegistry, ixBoot, ixSeeds, ixTold>>
  BY <1>0 DEF RecordTest, Reached
<1>2. RequestSound(old, ixRows, ixTold)
  BY <1>0 DEF IxInv, RequestsSound
<1>3. CASE id \notin DOMAIN ixRows
  <2>1. Ended(h) /\ UNCHANGED ixRows
    BY <1>0, <1>3 DEF RecordTest
  <2> QED
    BY <1>1, <2>1, HandlerEnds
<1>4. CASE id \in DOMAIN ixRows
  <2>1. PICK row0 : row0 = ixRows[id]
    OBVIOUS
  <2> DEFINE row == [row0 EXCEPT !.tested = old.probe]
  <2>2. /\ ixRows' = [ixRows EXCEPT ![id] = row]
        /\ IF old.op = "wizard" THEN Moved(h, [old EXCEPT !.at = "entry"]) ELSE Ended(h)
    BY <1>0, <1>4, <2>1 DEF RecordTest
  <2>3. /\ RowShape(row0)
        /\ old.probe \in ProbeResults
        /\ old.probe = "ok" => row0.caps # NoIx
    BY <1>0, <1>1, <1>2, <1>4, <2>1 DEF IxInv, RowsSound, RequestSound, ProbeSound
  <2>4. /\ DOMAIN row = RowFields /\ row.caps = row0.caps /\ row.tested = old.probe
        /\ row.private = row0.private /\ row.def = row0.def /\ row.url = row0.url /\ row.run = row0.run
    BY <2>3 DEF RowShape, RowFields
  <2> HIDE DEF row
  <2>5. RowShape(row) /\ (row.tested = "ok" => row.caps # NoIx)
    BY <2>3, <2>4 DEF RowShape, ProbeResults
  <2>6. /\ HistoryShape(ixTold') /\ RowsSound(ixRows', ixTold')
        /\ RowsMove(ixRows, ixTold, ixRows', ixTold', {})
        /\ \A g : NewRunSeen(g, ixRows', ixTold, ixTold')
        /\ \A d : HasRow(d) => HasRow(d)'
    BY <1>1, <1>4, <2>1, <2>2, <2>4, <2>5, RowTested
  <2>7. RequestsSound(ixReq, ixRows, ixTold)'
    <3>1. CASE old.op = "wizard"
      <4> DEFINE r == [old EXCEPT !.at = "entry"]
      <4>1. ixReq' = [ixReq EXCEPT ![h] = r]
        BY <2>2, <3>1 DEF Moved
      <4>2. RequestSound(old, ixRows', ixTold')
        BY <1>2, <2>6, RequestSurvives DEF IxInv
      <4>3. /\ DOMAIN r = RequestFields /\ r.op = old.op /\ r.id = old.id /\ r.run = old.run
            /\ r.row = old.row /\ r.todo = old.todo /\ r.known = old.known /\ r.gone = old.gone
            /\ r.at = "entry"
        BY <1>2 DEF RequestSound, RequestShape, RequestFields
      <4> HIDE DEF r
      <4>4. RequestSound(r, ixRows', ixTold')
        BY <1>1, <4>2, <4>3
           DEF RequestSound, RequestShape, ProbeSound, WizardSound, RunsSeen, RunInProgress
      <4>5. SameRun(h, r)
        BY <1>0, <1>1, <4>3 DEF SameRun, RunInProgress
      <4> QED
        BY <2>6, <4>1, <4>4, <4>5, GoesOnSound
    <3>2. CASE old.op # "wizard"
      <4>1. RequestSound(NoIxRequest, ixRows', ixTold') /\ SameRun(h, NoIxRequest)
        BY <2>6, IdleSound DEF SameRun
      <4>2. ixReq' = [ixReq EXCEPT ![h] = NoIxRequest]
        BY <2>2, <3>2 DEF Ended, Moved
      <4> QED
        BY <2>6, <4>1, <4>2, GoesOnSound
    <3> QED
      BY <3>1, <3>2
  <2>8. ixBoot' \in {"down", "seed", "up"} /\ RegistrySound' /\ SeedsSound'
    BY <1>1, <2>6, ServedStill
  <2> QED
    BY <2>6, <2>7, <2>8 DEF IxInv
<1> QED
  BY <1>3, <1>4

(* A row of the URL u goes or moves, and every other request is told.      *)
LEMMA AllTold ==
    ASSUME IxInv, NEW h \in IxHandlers, NEW u,
           ixReq' = [g \in IxHandlers |->
                       IF g = h THEN NoIxRequest ELSE [ixReq[g] EXCEPT !.gone = @ \union {u}]],
           HistoryShape(ixTold'),
           RowsMove(ixRows, ixTold, ixRows', ixTold', {u}),
           \A r : NewRunSeen(r, ixRows', ixTold, ixTold')
    PROVE  RequestsSound(ixReq, ixRows, ixTold)'
<1>1. DOMAIN ixReq' = IxHandlers /\ ixReq'[h] = NoIxRequest
  OBVIOUS
<1>2. RequestSound(NoIxRequest, ixRows', ixTold') /\ ~RunInProgress(NoIxRequest)
  BY IdleSound
<1>3. ASSUME NEW g \in IxHandlers, g # h
      PROVE  /\ RequestSound(ixReq'[g], ixRows', ixTold')
             /\ RunInProgress(ixReq'[g]) = RunInProgress(ixReq[g])
             /\ ixReq'[g].run = ixReq[g].run
  <2>1. PICK old, r2 : old = ixReq[g] /\ r2 = [old EXCEPT !.gone = @ \union {u}]
    OBVIOUS
  <2>2. RequestSound(old, ixRows, ixTold) /\ HistoryShape(ixTold)
    BY <2>1 DEF IxInv, RequestsSound
  <2>3. /\ RequestSound(r2, ixRows, ixTold)
        /\ \A v \in {u} : v \in r2.gone
        /\ RunInProgress(r2) = RunInProgress(old)
        /\ r2.run = old.run
    BY <2>1, <2>2, GoneTold
  <2>4. RequestSound(r2, ixRows', ixTold')
    BY <2>2, <2>3, RequestSurvives
  <2>5. ixReq'[g] = r2
    BY <1>3, <2>1
  <2> QED
    BY <2>1, <2>3, <2>4, <2>5
<1>4. ASSUME NEW g \in IxHandlers, NEW k \in IxHandlers, g # k,
             RunInProgress(ixReq'[g]), RunInProgress(ixReq'[k])
      PROVE  {ixReq'[g].run, ixReq'[k].run} \in ixTold'.rivals
  <2>1. g # h /\ k # h
    BY <1>1, <1>2, <1>4
  <2>2. /\ RunInProgress(ixReq[g]) /\ RunInProgress(ixReq[k])
        /\ ixReq'[g].run = ixReq[g].run /\ ixReq'[k].run = ixReq[k].run
    BY <1>3, <1>4, <2>1
  <2>3. {ixReq[g].run, ixReq[k].run} \in ixTold.rivals
    BY <1>4, <2>2 DEF IxInv, RequestsSound
  <2> QED
    BY <2>2, <2>3 DEF RowsMove
<1>5. \A g \in IxHandlers : RequestSound(ixReq'[g], ixRows', ixTold')
  BY <1>1, <1>2, <1>3
<1> QED
  BY <1>1, <1>4, <1>5 DEF RequestsSound

LEMMA RowDeleted ==
    ASSUME IxInv, NEW h \in IxHandlers, NEW q \in IxRequests, NEW id \in DOMAIN ixRows,
           DeleteIndexer(h, q, id)
    PROVE  IxInv'
<1>1. PICK u : u = ixRows[id].url
  OBVIOUS
<1>2. /\ ixBoot = "up"
      /\ UNCHANGED <<ixRegistry, ixBoot, ixSeeds>>
      /\ ixTold' = [ixTold EXCEPT !.touched = TRUE]
      /\ ixRows' = [i \in DOMAIN ixRows \ {id} |-> ixRows[i]]
      /\ ixReq' = [g \in IxHandlers |->
                     IF g = h THEN NoIxRequest ELSE [ixReq[g] EXCEPT !.gone = @ \union {u}]]
  BY <1>1 DEF DeleteIndexer, Begins
<1>3. /\ HistoryShape(ixTold) /\ RowsSound(ixRows, ixTold)
      /\ DOMAIN ixTold = HistoryFields
  BY DEF IxInv, HistoryShape
<1>4. /\ DOMAIN ixTold' = HistoryFields
      /\ ixTold'.lastId = ixTold.lastId /\ ixTold'.runs = ixTold.runs
      /\ ixTold'.decided = ixTold.decided /\ ixTold'.overlapped = ixTold.overlapped
      /\ ixTold'.rivals = ixTold.rivals /\ ixTold'.touched = TRUE
  BY <1>2, <1>3 DEF HistoryFields
<1>5. HistoryShape(ixTold')
  BY <1>3, <1>4 DEF HistoryShape
<1>6. RowsSound(ixRows', ixTold')
  <2>1. /\ DOMAIN ixRows' \subseteq DOMAIN ixRows
        /\ \A i \in DOMAIN ixRows' : ixRows'[i] = ixRows[i]
    BY <1>2
  <2>2. \A i \in DOMAIN ixRows' :
          /\ i \in 1 .. ixTold'.lastId
          /\ RowShape(ixRows'[i])
          /\ ixRows'[i].tested = "ok" => ixRows'[i].caps # NoIx
          /\ i \notin ixTold'.overlapped => ixRows'[i].private = ixTold'.decided[i]
    BY <1>3, <1>4, <2>1 DEF RowsSound
  <2>3. \A i, j \in DOMAIN ixRows' : ixRows'[i].def = ixRows'[j].def /\ ixRows'[i].def # NoIx => i = j
    BY <1>3, <2>1 DEF RowsSound
  <2>4. \A i, j \in DOMAIN ixRows' :
          i # j /\ ixRows'[i].run > 0 /\ ixRows'[j].run > 0 /\ ixRows'[i].url = ixRows'[j].url =>
              {ixRows'[i].run, ixRows'[j].run} \in ixTold'.rivals
    BY <1>3, <1>4, <2>1 DEF RowsSound
  <2> QED
    BY <2>2, <2>3, <2>4 DEF RowsSound
<1>7. RowsMove(ixRows, ixTold, ixRows', ixTold', {u})
  BY <1>1, <1>2, <1>3, <1>4 DEF RowsMove, HistoryShape
<1>8. \A r : NewRunSeen(r, ixRows', ixTold, ixTold')
  BY <1>2, <1>3 DEF NewRunSeen, RowsSound, HistoryShape
<1>9. RequestsSound(ixReq, ixRows, ixTold)'
  BY <1>2, <1>5, <1>7, <1>8, AllTold
<1>10. ixBoot' \in {"down", "seed", "up"} /\ RegistrySound' /\ SeedsSound'
  BY <1>2, <1>4, ServedStill
<1> QED
  BY <1>5, <1>6, <1>9, <1>10 DEF IxInv

(* The row an UPDATE leaves: the flag is the one this request decided, or  *)
(* the stored one unless two PATCHes overlapped.                           *)
LEMMA RowUpdated ==
    ASSUME IxInv, NEW h \in IxHandlers, UpdateRow(h)
    PROVE  IxInv'
<1>0. PICK old, id, p : old = ixReq[h] /\ id = old.id /\ p = old.patch
  OBVIOUS
<1>1. /\ ixBoot = "up" /\ old.at = "update"
      /\ UNCHANGED <<ixRegistry, ixBoot, ixSeeds>>
  BY <1>0 DEF UpdateRow, Serving
<1>2. RequestSound(old, ixRows, ixTold)
  BY <1>0 DEF IxInv, RequestsSound
<1>3. p \in IxRequests /\ p.op = "patch" /\ RowShape(old.row)
  BY <1>0, <1>1, <1>2 DEF RequestSound, RequestShape, ProbeSound
<1>4. p.private \in {Omitted, "false", "true"}
  BY <1>3, IxAssumption
<1>5. CASE ~(id \in DOMAIN ixRows /\ ~(p.def # Omitted /\ Conflicts(id, p.def)))
  <2>1. Ended(h) /\ UNCHANGED <<ixRows, ixTold>>
    BY <1>0, <1>5 DEF UpdateRow
  <2> QED
    BY <1>1, <2>1, HandlerEnds
<1>6. CASE id \in DOMAIN ixRows /\ ~(p.def # Omitted /\ Conflicts(id, p.def))
  <2>1. PICK row0, u, merged :
          /\ row0 = ixRows[id] /\ u = row0.url
          /\ merged = mergeIndexerSettings(old.row.private, p)
    OBVIOUS
  <2> DEFINE row == Updated(row0, p, merged)
             decision == IF p.private = Omitted THEN ixTold.decided[id] ELSE p.private
             crossed == IF Writes(p) /\ p.private = Omitted /\ old.row.private # row0.private
                        THEN ixTold.overlapped \union {id} ELSE ixTold.overlapped
  <2>2. /\ ixRows' = [ixRows EXCEPT ![id] = row]
        /\ ixTold' = [ixTold EXCEPT
             !.touched = TRUE,
             !.decided[id] = IF p.private = Omitted THEN @ ELSE p.private,
             !.overlapped = IF Writes(p) /\ p.private = Omitted /\ old.row.private # row0.private
                            THEN @ \union {id} ELSE @]
        /\ ixReq' = [g \in IxHandlers |->
             IF g = h THEN NoIxRequest ELSE [ixReq[g] EXCEPT !.gone = @ \union {u}]]
    BY <1>0, <1>6, <2>1 DEF UpdateRow
  <2>3. /\ HistoryShape(ixTold) /\ RowsSound(ixRows, ixTold) /\ RowShape(row0)
        /\ DOMAIN ixTold = HistoryFields /\ DOMAIN row0 = RowFields
        /\ id \in 1 .. ixTold.lastId /\ DOMAIN ixTold.decided = 1 .. ixTold.lastId
        /\ row0.tested = "ok" => row0.caps # NoIx
    BY <1>6, <2>1 DEF IxInv, HistoryShape, RowsSound, RowShape
  <2>4. /\ DOMAIN row = RowFields
        /\ row.tested = row0.tested /\ row.caps = row0.caps
        /\ row.def = (IF p.def = Omitted THEN row0.def ELSE p.def)
        /\ row.url = (IF p.url = Omitted THEN row0.url ELSE p.url)
        /\ row.run = (IF p.url = Omitted THEN row0.run ELSE 0)
        /\ row.private = (IF Writes(p) THEN merged ELSE row0.private)
    BY <2>3 DEF Updated, Overlay, RowFields
  <2>5. /\ DOMAIN ixTold' = HistoryFields
        /\ ixTold'.lastId = ixTold.lastId /\ ixTold'.runs = ixTold.runs
        /\ ixTold'.rivals = ixTold.rivals /\ ixTold'.touched = TRUE
        /\ ixTold'.overlapped = crossed
        /\ DOMAIN ixTold'.decided = 1 .. ixTold.lastId
        /\ ixTold'.decided[id] = decision
        /\ \A i \in 1 .. ixTold.lastId : i # id => ixTold'.decided[i] = ixTold.decided[i]
    BY <2>2, <2>3 DEF HistoryFields
  <2> HIDE DEF row
  <2>6. RowShape(row)
    BY <1>3, <1>4, <2>1, <2>3, <2>4 DEF RowShape, Flags, mergeIndexerSettings
  <2>7. id \notin ixTold'.overlapped => row.private = ixTold'.decided[id]
    <3>1. id \notin ixTold.overlapped => row0.private = ixTold.decided[id]
      BY <1>6, <2>1, <2>3 DEF RowsSound
    <3>2. p.private # Omitted => Writes(p) /\ merged = p.private
      BY <2>1 DEF mergeIndexerSettings, Writes
    <3>3. p.private = Omitted => merged = old.row.private
      BY <2>1 DEF mergeIndexerSettings
    <3> QED
      BY <2>4, <2>5, <3>1, <3>2, <3>3
  <2>8. HistoryShape(ixTold')
    BY <2>3, <2>5 DEF HistoryShape
  <2>9. /\ DOMAIN ixRows' = DOMAIN ixRows /\ ixRows'[id] = row
        /\ \A i \in DOMAIN ixRows : i # id => ixRows'[i] = ixRows[i]
    BY <1>6, <2>2
  <2>10. ixTold.overlapped \subseteq ixTold'.overlapped
    BY <2>5
  <2> HIDE DEF decision, crossed
  <2>11. RowsSound(ixRows', ixTold')
    <3>1. ASSUME NEW i \in DOMAIN ixRows'
          PROVE  /\ i \in 1 .. ixTold'.lastId
                 /\ RowShape(ixRows'[i])
                 /\ ixRows'[i].tested = "ok" => ixRows'[i].caps # NoIx
                 /\ i \notin ixTold'.overlapped => ixRows'[i].private = ixTold'.decided[i]
      <4>1. CASE i = id
        BY <2>3, <2>4, <2>5, <2>6, <2>7, <2>9, <4>1
      <4>2. CASE i # id
        BY <2>3, <2>5, <2>9, <2>10, <3>1, <4>2 DEF RowsSound
      <4> QED
        BY <4>1, <4>2
    <3>2. \A i \in DOMAIN ixRows : i # id /\ row.def # NoIx => ixRows[i].def # row.def
      BY <1>6, <2>1, <2>3, <2>4 DEF RowsSound, Conflicts
    <3>3. \A i, j \in DOMAIN ixRows' : ixRows'[i].def = ixRows'[j].def /\ ixRows'[i].def # NoIx => i = j
      BY <2>3, <2>9, <3>2 DEF RowsSound
    <3>4. ASSUME NEW i \in DOMAIN ixRows', ixRows'[i].run > 0
          PROVE  ixRows'[i].run = ixRows[i].run /\ ixRows'[i].url = ixRows[i].url
      BY <2>1, <2>4, <2>9, <3>4
    <3>5. ASSUME NEW i \in DOMAIN ixRows', NEW j \in DOMAIN ixRows', i # j,
                 ixRows'[i].run > 0, ixRows'[j].run > 0, ixRows'[i].url = ixRows'[j].url
          PROVE  {ixRows'[i].run, ixRows'[j].run} \in ixTold'.rivals
      <4>1. /\ ixRows'[i].run = ixRows[i].run /\ ixRows'[i].url = ixRows[i].url
            /\ ixRows'[j].run = ixRows[j].run /\ ixRows'[j].url = ixRows[j].url
            /\ i \in DOMAIN ixRows /\ j \in DOMAIN ixRows
        BY <2>9, <3>4, <3>5
      <4>2. {ixRows[i].run, ixRows[j].run} \in ixTold.rivals
        BY <2>3, <3>5, <4>1 DEF RowsSound
      <4> QED
        BY <2>5, <4>1, <4>2
    <3> QED
      BY <3>1, <3>3, <3>5 DEF RowsSound
  <2>12. RowsMove(ixRows, ixTold, ixRows', ixTold', {u})
    <3>1. \A i \in DOMAIN ixRows' : ixRows'[i].run > 0 =>
            ixRows'[i].run = ixRows[i].run /\ ixRows'[i].url = ixRows[i].url
      BY <2>1, <2>4, <2>9
    <3>2. ixTold.lastId <= ixTold'.lastId /\ ixTold.runs <= ixTold'.runs
      BY <2>3, <2>5 DEF HistoryShape
    <3>3. \A i \in DOMAIN ixRows : ixRows[i].caps # NoIx => ixRows'[i].caps # NoIx
      BY <2>1, <2>4, <2>9
    <3>4. \A i \in DOMAIN ixRows : ixRows[i].url \in {u} \/ ixRows'[i].url = ixRows[i].url
      BY <2>1, <2>9
    <3> QED
      BY <2>5, <2>9, <3>1, <3>2, <3>3, <3>4 DEF RowsMove
  <2>13. \A r : NewRunSeen(r, ixRows', ixTold, ixTold')
    BY <2>3, <2>9 DEF NewRunSeen, RowsSound, HistoryShape
  <2>14. RequestsSound(ixReq, ixRows, ixTold)'
    BY <2>2, <2>8, <2>12, <2>13, AllTold
  <2>15. ixBoot' \in {"down", "seed", "up"} /\ RegistrySound' /\ SeedsSound'
    BY <1>1, <2>5, ServedStill
  <2> QED
    BY <2>8, <2>11, <2>14, <2>15 DEF IxInv
<1> QED
  BY <1>5, <1>6

(* The run's number is new, so it is in the way of every run in progress;  *)
(* it knows every URL there is a row of.                                   *)
LEMMA WizardListsSound ==
    ASSUME IxInv, NEW h \in IxHandlers, WizardLists(h)
    PROVE  IxInv'
<1>0. PICK old, n, urls : /\ old = ixReq[h] /\ n = ixTold.runs + 1
                          /\ urls = {ixRows[i].url : i \in DOMAIN ixRows}
  OBVIOUS
<1> DEFINE r == [old EXCEPT !.at = "entry", !.run = n, !.known = urls]
           pairs == {{n, ixReq[g].run} :
                       g \in {k \in IxHandlers \ {h} : ixReq[k].op = "wizard" /\ ixReq[k].run > 0
                                                     /\ ixReq[k].at # "answered"}}
<1>1. /\ ixBoot = "up" /\ old.op = "wizard" /\ old.at = "list"
      /\ UNCHANGED <<ixRows, ixRegistry, ixBoot, ixSeeds>>
      /\ ixReq' = [ixReq EXCEPT ![h] = r]
      /\ ixTold' = [ixTold EXCEPT !.runs = @ + 1, !.rivals = @ \union pairs]
  BY <1>0 DEF WizardLists, Serving, Moved
<1>2. /\ HistoryShape(ixTold) /\ RowsSound(ixRows, ixTold)
      /\ DOMAIN ixTold = HistoryFields
  BY DEF IxInv, HistoryShape
<1>3. /\ DOMAIN ixTold' = HistoryFields
      /\ ixTold'.lastId = ixTold.lastId /\ ixTold'.runs = n
      /\ ixTold'.decided = ixTold.decided /\ ixTold'.overlapped = ixTold.overlapped
      /\ ixTold'.rivals = ixTold.rivals \union pairs /\ ixTold'.touched = ixTold.touched
  BY <1>0, <1>1, <1>2 DEF HistoryFields
<1>4. n \in Nat /\ n > 0 /\ ixTold.runs <= n
  BY <1>0, <1>2 DEF HistoryShape
<1>5. RequestSound(old, ixRows, ixTold)
  BY <1>0 DEF IxInv, RequestsSound
<1>6. /\ DOMAIN r = RequestFields /\ r.op = "wizard" /\ r.id = old.id /\ r.run = n
      /\ r.row = old.row /\ r.todo = old.todo /\ r.known = urls /\ r.gone = old.gone /\ r.at = "entry"
  BY <1>1, <1>5 DEF RequestSound, RequestShape, RequestFields
<1>7. \A g \in IxHandlers \ {h} : RunInProgress(ixReq[g]) => {ixReq[g].run, n} \in pairs
  <2>1. ASSUME NEW g \in IxHandlers \ {h}, RunInProgress(ixReq[g])
        PROVE  {ixReq[g].run, n} \in pairs
    <3>1. {n, ixReq[g].run} \in pairs
      BY <2>1 DEF RunInProgress
    <3>2. {n, ixReq[g].run} = {ixReq[g].run, n}
      OBVIOUS
    <3> QED
      BY <3>1, <3>2
  <2> QED
    BY <2>1
<1> HIDE DEF r, pairs
<1>8. HistoryShape(ixTold')
  BY <1>2, <1>3, <1>4 DEF HistoryShape
<1>9. RowsSound(ixRows', ixTold')
  BY <1>1, <1>2, <1>3 DEF RowsSound
<1>10. RowsMove(ixRows, ixTold, ixRows', ixTold', {})
  BY <1>1, <1>2, <1>3, <1>4 DEF RowsMove, HistoryShape
<1>11. \A g : NewRunSeen(g, ixRows', ixTold, ixTold')
  BY <1>1, <1>2 DEF NewRunSeen, RowsSound, HistoryShape
<1>12. RequestSound(r, ixRows', ixTold')
  <2>1. RequestShape(r, ixTold')
    BY <1>3, <1>4, <1>5, <1>6 DEF RequestSound, RequestShape
  <2>2. ProbeSound(r, ixRows')
    BY <1>6 DEF ProbeSound
  <2>3. old.known = {}
    BY <1>0, <1>1, <1>5 DEF RequestSound, WizardSound
  <2>4. \A u \in Range(Provider) \ BadURLs : u \in Range(old.todo) \union old.known
    BY <1>1, <1>5 DEF RequestSound, WizardSound
  <2>5. WizardSound(r, ixRows')
    BY <1>0, <1>1, <1>5, <1>6, <2>3, <2>4 DEF RequestSound, WizardSound
  <2>6. RunsSeen(r, ixRows', ixTold')
    BY <1>0, <1>1, <1>6 DEF RunsSeen
  <2> QED
    BY <2>1, <2>2, <2>5, <2>6 DEF RequestSound
<1>13. RequestsSound(ixReq, ixRows, ixTold)'
  <2>1. RunInProgress(r) =>
          \A g \in IxHandlers \ {h} :
              RunInProgress(ixReq[g]) => {ixReq[g].run, r.run} \in ixTold'.rivals
    BY <1>3, <1>6, <1>7
  <2> QED
    BY <1>1, <1>8, <1>10, <1>11, <1>12, <2>1, MovedSound
<1>14. \A d : HasRow(d) => HasRow(d)'
  BY <1>1 DEF HasRow
<1>15. ixBoot' \in {"down", "seed", "up"} /\ RegistrySound' /\ SeedsSound'
  BY <1>1, <1>2, <1>3, <1>14, ServedStill DEF HistoryShape
<1> QED
  BY <1>8, <1>9, <1>13, <1>15 DEF IxInv

(* An entry that is skipped is known already or unusable; one that is not  *)
(* becomes a row, and the run knows it from then on.                       *)
LEMMA WizardEntrySound ==
    ASSUME IxInv, NEW h \in IxHandlers, WizardEntry(h)
    PROVE  IxInv'
<1>0. PICK old, u : old = ixReq[h] /\ u = Head(old.todo)
  OBVIOUS
<1>1. /\ ixBoot = "up" /\ old.op = "wizard" /\ old.at = "entry" /\ old.todo # <<>>
      /\ UNCHANGED <<ixRegistry, ixBoot, ixSeeds>>
  BY <1>0 DEF WizardEntry, Serving
<1>2. RequestSound(old, ixRows, ixTold)
  BY <1>0 DEF IxInv, RequestsSound
<1>3. /\ old.todo \in Seq(Range(Provider) \ {NoIx})
      /\ \A v \in Range(Provider) \ BadURLs : v \in Range(old.todo) \union old.known
      /\ \A v \in old.known : v \in old.gone \/ \E i \in DOMAIN ixRows : ixRows[i].url = v
  BY <1>1, <1>2 DEF RequestSound, WizardSound
<1>4. PICK rest : rest = Tail(old.todo)
  OBVIOUS
<1>5. /\ rest \in Seq(Range(Provider) \ {NoIx}) /\ u # NoIx
      /\ Range(old.todo) \subseteq {u} \union Range(rest)
  BY <1>0, <1>1, <1>3, <1>4, RestOfSeq
<1>6. CASE Skips(h)
  <2> DEFINE r == [old EXCEPT !.todo = rest]
  <2>1. Moved(h, r) /\ UNCHANGED <<ixRows, ixTold>>
    BY <1>0, <1>4, <1>6 DEF WizardEntry, Skipped, Later
  <2>2. u \in old.known \/ u \in BadURLs
    BY <1>0, <1>6 DEF Skips, ValidBaseURL
  <2>3. /\ DOMAIN r = RequestFields /\ r.op = old.op /\ r.id = old.id /\ r.run = old.run
        /\ r.row = old.row /\ r.todo = rest /\ r.known = old.known /\ r.gone = old.gone
        /\ r.at = "entry"
    BY <1>1, <1>2 DEF RequestSound, RequestShape, RequestFields
  <2> HIDE DEF r
  <2>4. WizardSound(r, ixRows)
    BY <1>3, <1>5, <2>2, <2>3 DEF WizardSound
  <2>5. RequestSound(r, ixRows, ixTold)
    BY <1>1, <1>2, <2>3, <2>4 DEF RequestSound, RequestShape, ProbeSound, RunsSeen, RunInProgress
  <2>6. SameRun(h, r)
    BY <1>0, <1>1, <2>3 DEF SameRun, RunInProgress
  <2> QED
    BY <1>1, <2>1, <2>5, <2>6, HandlerMoves
<1>7. CASE ~Skips(h)
  <2>1. PICK row, n, f, known :
          /\ row = WizardRow(h) /\ n = ixTold.lastId + 1
          /\ f = (IF old.first = 0 THEN n ELSE old.first)
          /\ known = old.known \union {u}
    OBVIOUS
  <2> DEFINE r == [old EXCEPT !.todo = rest, !.at = "probe", !.first = f, !.known = known,
                              !.id = n, !.row = row]
  <2>2. /\ Create(row) /\ Recorded(row)
        /\ Moved(h, [Later(h) EXCEPT !.at = "probe", !.first = IF @ = 0 THEN ixTold.lastId + 1 ELSE @,
                                     !.known = Learnt(h), !.id = ixTold.lastId + 1, !.row = WizardRow(h)])
    BY <1>7, <2>1 DEF WizardEntry
  <2>3. u \notin old.known
    BY <1>0, <1>7 DEF Skips
  <2>4. /\ RowShape(row) /\ row.tested = "never" /\ row.url = u /\ row.run = old.run
        /\ row.kind = "torznab"
    BY <1>0, <1>2, <2>1
       DEF WizardRow, NoRow, RowShape, RowFields, Flags, RequestSound, RequestShape, IxInv, HistoryShape
  <2>5. /\ DOMAIN r = RequestFields /\ r.op = old.op /\ r.id = n /\ r.run = old.run
        /\ r.row = row /\ r.todo = rest /\ r.known = known /\ r.gone = old.gone
        /\ r.at = "probe"
    BY <1>2 DEF RequestSound, RequestShape, RequestFields
  <2>6. ixReq' = [ixReq EXCEPT ![h] = r]
    <3>1. DOMAIN old = RequestFields /\ Later(h) = [old EXCEPT !.todo = rest]
      BY <1>0, <1>2, <1>4 DEF Later, RequestSound, RequestShape
    <3>2. Learnt(h) = known
      BY <1>0, <2>1 DEF Learnt
    <3>3. [old EXCEPT !.todo = rest].first = old.first
      BY <3>1 DEF RequestFields
    <3> QED
      BY <2>1, <2>2, <3>1, <3>2, <3>3 DEF Moved
  <2> HIDE DEF r
  <2>7. \A i \in DOMAIN ixRows :
          row.run > 0 /\ ixRows[i].run > 0 /\ ixRows[i].url = row.url =>
              {ixRows[i].run, row.run} \in ixTold.rivals
    BY <1>1, <1>2, <2>3, <2>4 DEF RequestSound, RunsSeen, RunInProgress
  <2>8. /\ HistoryShape(ixTold') /\ RowsSound(ixRows', ixTold')
        /\ RowsMove(ixRows, ixTold, ixRows', ixTold', {})
        /\ DOMAIN ixRows' = DOMAIN ixRows \union {n}
        /\ ixRows'[n] = row
        /\ \A i \in DOMAIN ixRows : ixRows'[i] = ixRows[i]
        /\ \A d : HasRow(d) => HasRow(d)'
        /\ ixTold'.touched = ixTold.touched /\ ixTold'.runs = ixTold.runs
        /\ ixTold'.rivals = ixTold.rivals /\ ixTold'.lastId = n
    BY <2>1, <2>2, <2>4, <2>7, RowAdded
  <2>9. \A i \in DOMAIN ixRows' : ~(i <= ixTold.lastId) => ixRows'[i] = row
    BY <2>8 DEF IxInv, RowsSound, HistoryShape
  <2>10. ASSUME NEW g \in IxHandlers \ {h}
         PROVE  NewRunSeen(ixReq[g], ixRows', ixTold, ixTold')
    <3>1. ASSUME RunInProgress(ixReq[g]), row.run > 0
          PROVE  {row.run, ixReq[g].run} \in ixTold'.rivals
      <4>1. RunInProgress(ixReq[h])
        BY <1>0, <1>1, <2>4, <3>1 DEF RunInProgress
      <4>2. {ixReq[h].run, ixReq[g].run} \in ixTold.rivals
        BY <3>1, <4>1 DEF IxInv, RequestsSound
      <4> QED
        BY <1>0, <2>4, <2>8, <4>2
    <3> QED
      BY <2>9, <3>1 DEF NewRunSeen
  <2>11. RequestSound(r, ixRows', ixTold')
    <3>1. RequestShape(r, ixTold')
      <4>1. n \in 0 .. n
        BY <2>1 DEF IxInv, HistoryShape
      <4>2. old.run \in 0 .. ixTold.runs
        BY <1>2 DEF RequestSound, RequestShape
      <4> QED
        BY <2>4, <2>5, <2>8, <4>1, <4>2 DEF RequestShape
    <3>2. ProbeSound(r, ixRows')
      BY <1>1, <1>5, <2>4, <2>5 DEF ProbeSound, CapsOf
    <3>3. WizardSound(r, ixRows')
      <4>1. \A v \in Range(Provider) \ BadURLs : v \in Range(rest) \union known
        BY <1>3, <1>5, <2>1
      <4>2. ASSUME NEW v \in known
            PROVE  v \in old.gone \/ \E i \in DOMAIN ixRows' : ixRows'[i].url = v
        <5>1. CASE v = u
          BY <2>4, <2>8, <5>1
        <5>2. CASE v \in old.known
          BY <1>3, <2>8, <5>2
        <5> QED
          BY <2>1, <5>1, <5>2
      <4> QED
        BY <1>5, <2>5, <4>1, <4>2 DEF WizardSound
    <3>4. RunsSeen(r, ixRows', ixTold')
      <4>1. RunInProgress(r) = RunInProgress(old)
        BY <1>1, <2>5 DEF RunInProgress
      <4>2. ASSUME NEW i \in DOMAIN ixRows', ixRows'[i].run > 0, RunInProgress(old)
            PROVE  ixRows'[i].url \in known \/ {ixRows'[i].run, old.run} \in ixTold'.rivals
        <5>1. CASE i = n
          BY <2>1, <2>4, <2>8, <5>1
        <5>2. CASE i \in DOMAIN ixRows
          <6>1. ixRows[i].url \in old.known \/ {ixRows[i].run, old.run} \in ixTold.rivals
            BY <1>2, <2>8, <4>2, <5>2 DEF RequestSound, RunsSeen
          <6> QED
            BY <2>1, <2>8, <5>2, <6>1
        <5> QED
          BY <2>8, <4>2, <5>1, <5>2
      <4> QED
        BY <2>5, <4>1, <4>2 DEF RunsSeen
    <3> QED
      BY <3>1, <3>2, <3>3, <3>4 DEF RequestSound
  <2>12. SameRun(h, r)
    BY <1>0, <1>1, <2>5 DEF SameRun, RunInProgress
  <2>13. RequestsSound(ixReq, ixRows, ixTold)'
    BY <2>6, <2>8, <2>10, <2>11, <2>12, GoesOnSound
  <2>14. ixBoot' \in {"down", "seed", "up"} /\ RegistrySound' /\ SeedsSound'
    BY <1>1, <2>8, ServedStill
  <2> QED
    BY <2>8, <2>13, <2>14 DEF IxInv
<1> QED
  BY <1>6, <1>7

LEMMA IndexersStep == ASSUME IxInv, [IxNext]_ixVars PROVE IxInv'
<1>1. CASE UNCHANGED ixVars
  <2>1. UNCHANGED <<ixRows, ixRegistry, ixBoot, ixSeeds, ixReq, ixTold>>
    BY <1>1 DEF ixVars
  <2>2. /\ HistoryShape(ixTold') /\ RowsSound(ixRows', ixTold') /\ \A d : HasRow(d)' = HasRow(d)
    BY <2>1, RowsUntouched
  <2>3. RequestsSound(ixReq, ixRows, ixTold)'
    BY <2>1 DEF IxInv
  <2>4. RegistrySound' /\ SeedsSound'
    BY <2>1, <2>2 DEF IxInv, RegistrySound, SeedsSound
  <2> QED
    BY <2>1, <2>2, <2>3, <2>4 DEF IxInv
<1>2. CASE NewRegistry
  BY <1>2, NewRegistrySound
<1>3. CASE SeedIndexers
  BY <1>3, SeedIndexersSound
<1>4. CASE BootDone
  BY <1>4, BootEndsSound
<1>5. CASE ProcessEnds
  BY <1>5, ProcessEndsSound
<1>6. ASSUME NEW h \in IxHandlers, NEW q \in IxRequests,
             CreateIndexer(h, q) \/ importIndexerFile(h, q) \/ ImportIndexer(h, q)
      PROVE  IxInv'
  BY <1>6, CreateBegins, FileImported, WizardBegins
<1>7. ASSUME NEW h \in IxHandlers, NEW q \in IxRequests, NEW id \in DOMAIN ixRows,
             PatchIndexer(h, q, id) \/ DeleteIndexer(h, q, id) \/ TestIndexer(h, q, id)
      PROVE  IxInv'
  BY <1>7, PatchBegins, RowDeleted, TestBegins
<1>8. ASSUME NEW h \in IxHandlers,
             \/ WizardLists(h) \/ WizardEntry(h) \/ WizardAnswers(h)
             \/ Probe(h) \/ InsertRow(h) \/ SetCaps(h) \/ RecordTest(h)
             \/ UpdateRow(h) \/ HandlerFails(h)
      PROVE  IxInv'
  BY <1>8, WizardListsSound, WizardEntrySound, WizardAnswersSound, ProbeAnswers, RowInserted,
     CapsStored, TestRecorded, RowUpdated, HandlerFailsSound
<1> QED
  BY <1>1, <1>2, <1>3, <1>4, <1>5, <1>6, <1>7, <1>8 DEF IxNext

LEMMA IxInvSafe == ASSUME IxInv PROVE IxSafe
<1>1. HistoryShape(ixTold) /\ RowsSound(ixRows, ixTold)
  BY DEF IxInv
<1>2. IxTypeOK
  BY <1>1 DEF IxInv, IxTypeOK, RowsSound, RowShape, Flags
<1>3. PrivateDecided /\ WizardOnce /\ TestedHasCaps
  BY <1>1 DEF PrivateDecided, WizardOnce, TestedHasCaps, RowsSound
<1>4. BundledServed
  BY DEF IxInv, BundledServed, RegistrySound, SeedsSound, HasRow
<1>5. WizardComplete
  <2>1. ASSUME NEW h \in IxHandlers, ixReq[h].op = "wizard", ixReq[h].at = "answered",
               NEW u \in Range(Provider) \ BadURLs
        PROVE  u \in ixReq[h].gone \/ \E i \in DOMAIN ixRows : ixRows[i].url = u
    <3>1. WizardSound(ixReq[h], ixRows)
      BY DEF IxInv, RequestsSound, RequestSound
    <3>2. ixReq[h].todo = <<>> /\ u \in Range(ixReq[h].todo) \union ixReq[h].known
      BY <2>1, <3>1 DEF WizardSound
    <3>3. Range(ixReq[h].todo) = {}
      BY <3>2 DEF Range
    <3> QED
      BY <2>1, <3>1, <3>2, <3>3 DEF WizardSound
  <2> QED
    BY <2>1 DEF WizardComplete
<1> QED
  BY <1>2, <1>3, <1>4, <1>5 DEF IxSafe

(* Whatever the operator's requests, the provider's list, the bundled      *)
(* documents and the user's files are, and however many requests are in    *)
(* flight: bundled rows, wizard rows, private flags and test results stay  *)
(* as the handlers of /indexers and SeedIndexers promise.                  *)
THEOREM IndexersAreSafe == IxSpec => []IxSafe
<1>1. IxInv /\ [IxNext]_ixVars => IxInv'
  BY IndexersStep
<1>2. IxInv => IxSafe
  BY IxInvSafe
<1> QED
  BY InitSound, <1>1, <1>2, PTL DEF IxSpec
================================================================================
