------------------------------ MODULE EntryStore ------------------------------
(***************************************************************************)
(* What a fetch attempt brings in, and the two ways of reading it:         *)
(*  - the collector stores new entries and, for a ranked feed, the rank    *)
(*    snapshot (collector/fetch-attempt.ts);                               *)
(*  - a stream feed is read up to a cursor, and everything behind it is    *)
(*    unread (server/feed-routes.ts);                                      *)
(*  - a ranked feed is read as its latest snapshot compared with the one   *)
(*    before (server/rank-snapshot-view.ts).                               *)
(* A release may turn a stream feed into a ranked one and back; the        *)
(* operator may change a rank limit with SQL.  There is one collector, so  *)
(* one attempt at a time; how it is scheduled is module FeedCollection's.  *)
(***************************************************************************)
EXTENDS Integers, FiniteSets, SequencesExt

CONSTANTS
  Feed,            \* the declared feeds
  Key,             \* dedup keys
  Batch,           \* the lists of drafts a handler may return
  PublishedSince,  \* each feed's lower bound on publishing times, 0 for none
  AllowEmpty,      \* feeds whose handler may return nothing
  Limits,          \* rank limits
  DeclaredLimit,   \* the limit a feed gets when it is declared ranked
  NoFeed,          \* not a feed
  \* Bounds on the surroundings.
  MaxAttempts,     \* attempts, all feeds together
  MaxChanges       \* changes of a kind or of a rank limit

\* A draft's publishedAt is 0 where the source gives none.
Draft == [key: Key, publishedAt: Nat]

ASSUME StoreAssumption ==
  /\ Batch \subseteq Seq(Draft)
  /\ PublishedSince \in [Feed -> Nat]
  /\ AllowEmpty \subseteq Feed
  /\ Limits \subseteq Nat \ {0} /\ DeclaredLimit \in [Feed -> Limits]
  /\ NoFeed \notin Feed
  /\ {MaxAttempts, MaxChanges} \subseteq Nat

VARIABLES
  kind,       \* "stream" or "ranked", from the running release
  rankLimit,  \* feed.rank_limit, 0 for NULL
  cursor,     \* feed.read_cursor_entry_id, 0 for NULL
  entries,    \* table entry in the order of id
  attempts,   \* attempts[f]: the rows of fetch_attempt for f, with their ranks
  job,        \* the attempt the collector is in, and the limit it fetches with
  clock,      \* the database's now(), one unit per transaction
  changes     \* changes of kinds and limits so far (for MaxChanges)

vars == <<kind, rankLimit, cursor, entries, attempts, job, clock, changes>>

Kind == {"stream", "ranked"}

\* `attempt` is not a column: it records which attempt stored the entry.
EntryRow == [feed: Feed, key: Key, publishedAt: Nat, firstSeenAt: Nat, attempt: Nat]

\* `ranks` holds the snapshot: the entry ids of the attempt's rank_snapshot
\* rows in the order of rank.
AttemptRow ==
  [status: {"running", "success", "failed"}, startedAt: Nat,
   insertedEntryCount: Nat, ranks: Seq(Nat)]

NoJob == [feed |-> NoFeed, limit |-> 0]

TypeOK ==
  /\ kind \in [Feed -> Kind]
  /\ rankLimit \in [Feed -> Limits \cup {0}]
  /\ \A f \in Feed : kind[f] = "ranked" => rankLimit[f] # 0
  /\ cursor \in [Feed -> Nat]
  /\ entries \in Seq(EntryRow)
  /\ attempts \in [Feed -> Seq(AttemptRow)]
  /\ job \in [feed: Feed \cup {NoFeed}, limit: Limits \cup {0}]
  /\ clock \in Nat /\ changes \in Nat

EntriesOf(f) == {i \in DOMAIN entries : entries[i].feed = f}

(***************************************************************************)
(* Process start.  A left-over attempt is marked failed, and a feed that   *)
(* has become ranked gets its limit.  The reads below look at neither a    *)
(* running attempt nor the limit, so the two statements are one step.      *)
(***************************************************************************)

FilledLimit(f, newKind) ==
  IF rankLimit[f] = 0 /\ newKind[f] = "ranked" THEN DeclaredLimit[f] ELSE rankLimit[f]

EndOfDeadAttempt(row) == IF row.status = "running" THEN [row EXCEPT !.status = "failed"] ELSE row

Restart(newKind) ==
  /\ newKind # kind => changes < MaxChanges
  /\ changes' = IF newKind # kind THEN changes + 1 ELSE changes
  /\ kind' = newKind
  /\ rankLimit' = [f \in Feed |-> FilledLimit(f, newKind)]
  /\ attempts' = [f \in Feed |-> [a \in DOMAIN attempts[f] |-> EndOfDeadAttempt(attempts[f][a])]]
  /\ job' = NoJob
  /\ UNCHANGED <<cursor, entries, clock>>

\* `update feed set rank_limit = ...`, from the next attempt on.
SetRankLimit(f, limit) ==
  /\ kind[f] = "ranked" /\ rankLimit[f] # limit
  /\ changes < MaxChanges /\ changes' = changes + 1
  /\ rankLimit' = [rankLimit EXCEPT ![f] = limit]
  /\ UNCHANGED <<kind, cursor, entries, attempts, job, clock>>

(***************************************************************************)
(* A fetch attempt.                                                        *)
(***************************************************************************)
AttemptCount(f) == Len(attempts[f])

resolveRankLimit(f) ==
  IF kind[f] # "ranked" THEN 0
  ELSE IF rankLimit[f] # 0 THEN rankLimit[f] ELSE DeclaredLimit[f]

StartAttempt(f) ==
  /\ job = NoJob
  /\ FoldSet(LAMBDA g, n : n + AttemptCount(g), 0, Feed) < MaxAttempts
  /\ clock' = clock + 1
  /\ attempts' = [attempts EXCEPT ![f] = Append(@,
       [status |-> "running", startedAt |-> clock', insertedEntryCount |-> 0, ranks |-> <<>>])]
  /\ job' = [feed |-> f, limit |-> resolveRankLimit(f)]
  /\ UNCHANGED <<kind, rankLimit, cursor, entries, changes>>

\* slice(0, rankLimit).
Limited(batch) ==
  IF job.limit = 0 \/ Len(batch) <= job.limit THEN batch ELSE SubSeq(batch, 1, job.limit)

\* The members of s at the given positions, listed in the order Before.
Arranged(s, positions, Before(_, _)) ==
  LET Rank(p) == Cardinality({q \in positions : Before(q, p)})
  IN [i \in 1..Cardinality(positions) |-> s[CHOOSE p \in positions : Rank(p) = i - 1]]

\* Drafts from before the feed's lower bound are dropped, undated ones kept.
filterByPublishedSince(f, drafts) ==
  LET Kept(d) == d.publishedAt = 0 \/ d.publishedAt >= PublishedSince[f]
  IN Arranged(drafts, {n \in DOMAIN drafts : Kept(drafts[n])}, <)

\* Mutant: the rows keep the order of the source.
toEntryRows_Unsorted(drafts) == drafts

\* Earlier published first, a stable sort with undated drafts in front.
toEntryRows(drafts) ==
  LET Before(i, j) ==
        \/ drafts[i].publishedAt < drafts[j].publishedAt
        \/ drafts[i].publishedAt = drafts[j].publishedAt /\ i < j
  IN Arranged(drafts, DOMAIN drafts, Before)

\* INSERT ... ON CONFLICT DO NOTHING on (feed_id, dedup_key), row by row.
Inserted(f, drafts) ==
  LET Insert(table, d) ==
        IF \E i \in DOMAIN table : table[i].feed = f /\ table[i].key = d.key
        THEN table
        ELSE Append(table, [feed |-> f, key |-> d.key, publishedAt |-> d.publishedAt,
                            firstSeenAt |-> clock + 1, attempt |-> AttemptCount(f)])
  IN FoldLeft(Insert, entries, toEntryRows(drafts))

\* The entry each draft stands for, after the insert.
EntryIds(f, drafts, table) ==
  [n \in DOMAIN drafts |->
     CHOOSE i \in DOMAIN table : table[i].feed = f /\ table[i].key = drafts[n].key]

\* The order of the source; of an entry listed twice the first rank counts.
insertRankSnapshot(f, drafts, table) ==
  LET ids == EntryIds(f, drafts, table)
  IN Arranged(ids, {n \in DOMAIN ids : \A m \in 1..(n - 1) : ids[m] # ids[n]}, <)

InsertedCount(drafts, table) == Len(table) - Len(entries)

\* The success transaction: all of it or, as Fail, none of it.
Succeed(batch) ==
  LET f == job.feed
      limited == Limited(batch)
      drafts == filterByPublishedSince(f, limited)
      table == Inserted(f, drafts)
      a == AttemptCount(f)
  IN
  /\ job # NoJob
  /\ Len(limited) > 0 \/ f \in AllowEmpty
  /\ clock' = clock + 1
  /\ entries' = table
  /\ attempts' = [attempts EXCEPT ![f][a] = [@ EXCEPT
       !.status = "success",
       !.insertedEntryCount = InsertedCount(drafts, table),
       !.ranks = IF job.limit = 0 THEN <<>> ELSE insertRankSnapshot(f, drafts, table)]]
  /\ job' = NoJob
  /\ UNCHANGED <<kind, rankLimit, cursor, changes>>

\* The fetch failed, returned nothing, or the success transaction was undone.
Fail ==
  /\ job # NoJob
  /\ attempts' = [attempts EXCEPT ![job.feed][AttemptCount(job.feed)].status = "failed"]
  /\ job' = NoJob
  /\ UNCHANGED <<kind, rankLimit, cursor, entries, clock, changes>>

(***************************************************************************)
(* PUT /api/feeds/:feedId/read-cursor.                                     *)
(***************************************************************************)
\* Mutant: the id is not looked up in the feed.
MoveReadCursor_AnyId(f, id) ==
  /\ kind[f] # "ranked"
  /\ cursor' = [cursor EXCEPT ![f] = IF id > @ THEN id ELSE @]
  /\ UNCHANGED <<kind, rankLimit, entries, attempts, job, clock, changes>>

\* Otherwise 409 or 404 and no change.
MoveReadCursor(f, id) ==
  /\ kind[f] # "ranked"
  /\ id \in EntriesOf(f)
  /\ cursor' = [cursor EXCEPT ![f] = IF id > @ THEN id ELSE @]
  /\ UNCHANGED <<kind, rankLimit, entries, attempts, job, clock, changes>>

Init ==
  /\ kind \in [Feed -> Kind]
  /\ rankLimit = [f \in Feed |-> IF kind[f] = "ranked" THEN DeclaredLimit[f] ELSE 0]
  /\ cursor = [f \in Feed |-> 0]
  /\ entries = <<>>
  /\ attempts = [f \in Feed |-> <<>>]
  /\ job = NoJob
  /\ clock = 0 /\ changes = 0

Next ==
  \/ \E newKind \in [Feed -> Kind] : Restart(newKind)
  \/ \E f \in Feed, limit \in Limits : SetRankLimit(f, limit)
  \/ \E f \in Feed : StartAttempt(f)
  \/ \E batch \in Batch : Succeed(batch)
  \/ Fail
  \/ \E f \in Feed, id \in 1..(Len(entries) + 1) : MoveReadCursor(f, id)

Spec == Init /\ [][Next]_vars

-----------------------------------------------------------------------------
(***************************************************************************)
(* What the API reads.                                                     *)
(***************************************************************************)
\* GET /api/feeds: entries behind the cursor, for stream feeds.
Unread(f) == {i \in EntriesOf(f) : i > cursor[f]}
unreadCount(f) == IF kind[f] = "ranked" THEN 0 ELSE Cardinality(Unread(f))

\* Attempts that have a snapshot.
Snapshots(f) == {a \in DOMAIN attempts[f] : attempts[f][a].ranks # <<>>}

Latest(f) == Max(Snapshots(f))
HasPrevious(f) == Cardinality(Snapshots(f)) > 1
Previous(f) == Max(Snapshots(f) \ {Latest(f)})

\* Rank of an entry in the snapshot before, 0 for null.
PreviousRank(f, id) ==
  IF HasPrevious(f) /\ id \in ToSet(attempts[f][Previous(f)].ranks)
  THEN CHOOSE r \in DOMAIN attempts[f][Previous(f)].ranks : attempts[f][Previous(f)].ranks[r] = id
  ELSE 0

\* Mutant: first seen since the snapshot before.
FirstSeenInLatest_SincePrevious(f, id) ==
  entries[id].firstSeenAt >= attempts[f][IF HasPrevious(f) THEN Previous(f) ELSE Latest(f)].startedAt

FirstSeenInLatest(f, id) == entries[id].firstSeenAt >= attempts[f][Latest(f)].startedAt

decideMovement(f, id) ==
  CASE FirstSeenInLatest(f, id) -> "new"
    [] ~FirstSeenInLatest(f, id) /\ ~HasPrevious(f) -> "none"
    [] ~FirstSeenInLatest(f, id) /\ HasPrevious(f) ->
         IF PreviousRank(f, id) # 0 THEN "stayed" ELSE "reentered"

\* loadRankSnapshotView: the rows in the order of rank, and what dropped out.
RankSnapshotView(f) ==
  IF Snapshots(f) = {} THEN [takenAt |-> 0, entries |-> <<>>, droppedEntries |-> {}]
  ELSE LET ranks == attempts[f][Latest(f)].ranks IN
    [takenAt |-> attempts[f][Latest(f)].startedAt,
     entries |-> [r \in DOMAIN ranks |->
       [entry |-> ranks[r], previousRank |-> PreviousRank(f, ranks[r]),
        movement |-> decideMovement(f, ranks[r])]],
     droppedEntries |->
       IF HasPrevious(f) THEN ToSet(attempts[f][Previous(f)].ranks) \ ToSet(ranks) ELSE {}]

\* GET /api/feeds counts NEW with a query of its own.
rankSnapshotNewCount(f) ==
  LET snapshots == {a \in DOMAIN attempts[f] : Len(attempts[f][a].ranks) > 0}
      a == Max(snapshots)
  IN IF snapshots = {} THEN 0
     ELSE Cardinality({r \in DOMAIN attempts[f][a].ranks :
            entries[attempts[f][a].ranks[r]].firstSeenAt >= attempts[f][a].startedAt})

-----------------------------------------------------------------------------
(***************************************************************************)
(* Properties.                                                             *)
(***************************************************************************)
\* The order of ids within a feed, by which timelines are sorted and cursors
\* move, is the order of first seen and then of publishing (schema.ts, entry),
\* whatever order sources list their drafts in.
FirstSeenThenPublished ==
  \A f \in Feed : \A i, j \in EntriesOf(f) :
    i < j => \/ entries[i].firstSeenAt < entries[j].firstSeenAt
             \/ /\ entries[i].firstSeenAt = entries[j].firstSeenAt
                /\ entries[i].publishedAt <= entries[j].publishedAt

\* The movement shown for an entry tells its history: NEW was stored by the
\* very attempt that took the latest snapshot, stayed was in the snapshot
\* before, reentered was stored by an earlier attempt and not in the snapshot
\* before (ADR-0009); failures, restarts and changes of kind between the two
\* snapshots notwithstanding.
MovementsMatchHistory ==
  \A f \in Feed : \A r \in DOMAIN RankSnapshotView(f).entries :
    LET row == RankSnapshotView(f).entries[r]
        latest == Latest(f)
        before == HasPrevious(f) /\ row.entry \in ToSet(attempts[f][Previous(f)].ranks)
        storedNow == entries[row.entry].attempt = latest
    IN /\ row.movement = "new" <=> storedNow
       /\ row.movement = "stayed" <=> before
       /\ row.movement = "reentered" <=> ~storedNow /\ ~before /\ HasPrevious(f)

\* The NEW badge of the feed list and the NEW marks of the rank table, two
\* queries over the same tables, agree.
NewCountAgreesWithTable ==
  \A f \in Feed :
    rankSnapshotNewCount(f) =
      Cardinality({r \in DOMAIN RankSnapshotView(f).entries :
                     RankSnapshotView(f).entries[r].movement = "new"})

\* The counts in the attempt history add up to what is stored: a draft seen
\* again, listed twice, cut off or from a rolled-back attempt is not counted.
InsertedCountsAddUp ==
  \A f \in Feed :
    FoldSet(LAMBDA a, n : n + attempts[f][a].insertedEntryCount, 0, DOMAIN attempts[f])
      = Cardinality(EntriesOf(f))

\* A snapshot ranks entries of its own feed, each once (the unique constraint
\* of rank_snapshot would turn anything else into a failed attempt).
RanksAreDistinctEntries ==
  \A f \in Feed : \A a \in DOMAIN attempts[f] :
    LET ranks == attempts[f][a].ranks IN
    /\ IsInjective(ranks)
    /\ ToSet(ranks) \subseteq EntriesOf(f)
    /\ ranks # <<>> => attempts[f][a].status = "success"

\* What the feed list and the rank table say of ranks and NEW, as stated above.
RankTableMatchesHistory ==
  MovementsMatchHistory /\ NewCountAgreesWithTable /\ RanksAreDistinctEntries

\* Entries are in order and the attempts' counts add up, with every type right.
EntriesAreInOrder == TypeOK /\ FirstSeenThenPublished /\ InsertedCountsAddUp

\* An entry is unread exactly until the cursor passes it: what is passed never
\* becomes unread again, and what is stored later is unread, however far ahead
\* or behind the ids are that clients send.  The number shown grows by what is stored
\* and no more, unless a release changes the feed's kind.
UnreadGrowsByNewEntriesOnly ==
  [][\A f \in Feed :
       LET new == EntriesOf(f)' \ EntriesOf(f)
       IN /\ Unread(f)' \ Unread(f) = new
          /\ kind'[f] = kind[f] => unreadCount(f)' <= unreadCount(f) + Cardinality(new)]_vars

=============================================================================
