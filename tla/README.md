# Trendboda in TLA+

Trendboda (`src/`) is a personal feed reader: a resident collector fetches feeds
on a schedule, an API and a React client read what it has stored. This directory
models the parts of it in which processes, requests and failures meet, checks
them with TLC on small instances and proves what matters most with TLAPS for
every value of the constants. Everything is read from the code; line numbers of
each definition are in `PROJECT.json` under `map`.

## 1. The system

### Processes and where they meet

| process | code | state it keeps |
| --- | --- | --- |
| `collector`, resident (`restart: unless-stopped`) | `apps/backend/src/collector` | its due list, the copy of a feed's row it works from, a stop flag |
| `collector --once <feed>`, started by hand | same | the copy of one feed's row |
| `app`, Fastify API | `apps/backend/src/server` | nothing between requests |
| PostgreSQL | `apps/backend/src/db/schema.ts` | `feed`, `entry`, `fetch_attempt`, `rank_snapshot`, `entry_content`, `entry_translation`, `feed_navigation_order`, `collector_heartbeat` |
| `llm`, conversation service | `apps/llm/src` | sessions in memory, credentials in `auth.json` |
| the page, React | `apps/web/src` | copies of all of it, refs and timers, requests on their way |
| `migrate` | `apps/backend/src/db/run-migrations.ts` | none |

Processes share nothing but the tables (and the page's HTTP requests). The
collector's transactions lock a `feed` row; the API updates rows with single
statements or with a transaction that locks the same row. The page holds copies
that are out of date as soon as they arrive, and most of its races are between
an answer and what the user has done since the question.

### Components, operations, what makes them correct

1. **Schedule and attempts** (collector, `--once`). Boot, sweep of left-over
   attempts, due list, start transaction, completion, backoff, stop signal,
   crash. Correct: one running attempt per feed; nothing left over blocks a
   feed; failure count, schedule and history agree; pauses hold; requests and
   due feeds are served; the process stops when told.
2. **Admin API** (PATCH of interval and pause, POST of a fetch). Correct
   together with 1: a schedule changed during an attempt survives its
   completion; a request is consumed by exactly one start.
3. **Ingestion** (publishing bound, dedup, order, snapshot, counts in one
   transaction). Correct: ids follow first seen, then published; history counts
   add up; snapshots rank distinct entries.
4. **Reading** (cursor, unread count, rank table, NEW badge, pages). Correct:
   unread is exactly what is behind the cursor; movements tell the true history;
   two queries for one number agree.
5. **Timeline and read-cursor tracker** (page). Correct: the window is a run
   without holes; the cursor skips nothing unseen; what was passed is saved.
6. **Navigation order** (routes, hook, sidebar). Correct: the page shows stored
   orders; saves are not undone; both sides compute the same rows.
7. **Entry routes, entry panel, shared entry changes**: opened, bookmark,
   reader, translation. Correct: what the page publishes is what the row has.
8. **Conversation** (llm sessions, turns, expiry, one repetition, choice of an
   engine). Correct: bounded sessions; the engine's history is what the page
   shows; no question is answered twice; every question ends.
9. **Credential store** (`auth.json`, shared with a login command). Correct: no
   login is lost, no refresh token is sent twice, a failed refresh blocks nobody.
10. **Heartbeat and collector status**. Correct: the derived status tells whether
    the collector is in its loop.
11. **Admin panel** (overview, actions, form, history). Correct: what is shown
    when nothing is on its way is what is stored; pages cover the history.
12. **Handlers** (paging, repetitions, which rows count, periods and deadlines).
    Correct: what keeps its place in a list is read, and in order, fetches end, dates
    are the ones meant.
13. **Original page** (redirects, address checks, size and time limits). Correct:
    one fetch is bounded as a whole, and only public addresses are connected to.
14. **App shell, feed list and rank table** (hash, screen, sidebar links, panels
    and focus, polling). Correct: a screen stays, links read back, focus is not
    lost, table and list catch up with the collector.
15. DeepL client, layout, build, migrations: one request each, pure, or wiring.

### What is hard here

Two processes writing one row (1, 2); a process that dies between two
transactions (1, 3); values read before a fetch of many seconds and written
after it (1, 7); answers that arrive after the screen has moved on (5, 6, 7, 8, 11, 14);
one number computed by two pieces of code (4, 6, 11); a client copy written
back whole (6, 7); a file two processes write (9); lists that change while they
are read page by page (12). The list with lines is `hazards` in `PROJECT.json`.

## 2. Modules

| module | models | state ↔ code |
| --- | --- | --- |
| `NextRunTime` | `next-run-time.ts` | pure: interval after success, capped exponential backoff after failures |
| `FeedCollection` | components 1 and 2 | `feed`, `attempts` are the tables; `pc`, `due`, `job` a process's place, due list and copies; `stopping` the signal flag |
| `AttemptLog` | the promise of 1 about attempts and requests, without processes, clocks or schedules | `log`, `requested` |
| `EntryStore` | components 3 and 4 | `entries` by id, `attempts` with their snapshots, `cursor`, `rankLimit`, `kind` from the release |
| `FeedTimeline` | component 5 with the routes it calls | `list`, `hasOlder`, `hasNewer`, `loading` are the component's; `passed`, `saved`, `timer` the tracker's; `requests`, `saves` what is on its way |
| `NavigationOrder` | component 6 | `stored` the table's one row; `nav[c]` state and refs of the hook in page `c`; `lists`, `shell` the app shell's copies |
| `EntryPanel` | component 7 | `row` the entry's rows in three tables; `changes` its value in `changesById`; `listed`, `selected` the list's and the shell's copies; `panel` state and refs of one panel; `requests` what is on its way, each with the entry its handler captured |
| `CredentialStore` | component 9 | `file` is auth.json; `queue`, `task` the write queue and what each `modify` has read; `issued` the provider |
| `Conversation` | component 8, over `CredentialStore` | `objects`, `sessions` the service's Session objects and Map; `turn` a question between page, route and service; `page` the component, `saved` localStorage |
| `CollectorHeartbeat` | component 10 | `heartbeat` the row; `process`, `chain`, `fired` the loop, the pending records and the timer |
| `AdminPanel` | component 11 with its routes, over `CollectorHeartbeat` and `NextRunTime` | `feed`, `attempts` tables; `panel`, `control`, `list` the three React components; `requests` |
| `Picking` | `Array.filter`: the members at some of a list's positions, in order | pure |
| `SourcePeriods` | the dates handlers compute | pure, over a calendar written out |
| `SourcePage` | which rows become drafts, how Trendshift's array is cut out | pure |
| `SourceFetch` | component 12: one handler at work against a changing list | `site` the source's list, `job` the handler, `now` the instant |
| `OriginalPage` | component 13 | `page` the fetch, `proxy` the environment |
| `OutboundHttp` | 12 and 13 side by side | |
| `FeedList` | component 14: polling and the rank table | `feeds`, `table` React state; `listAsks`, `tableAsks` requests; `feedRow` the collector's row |
| `Shell` | component 14: screen, rows, panels, over `FeedList` | `hash` the address, `screen` the state, `shown` what was rendered last; `page` lists and a save on its way, `reading` the detail panel and the focus, `memory` localStorage and the links drawn |
| `MCFeedCollection`, `MCEntryStore`, `MCNavigationOrder`, `MCEntryPanel`, `MCConversation`, `MCAdminPanel`, `MCOutboundHttp`, `MCShell` | values for TLC | |
| `FeedCollection_proofs` | proofs about `FeedCollection` | |
| `EntryStore_proofs`, `FeedTimeline_proofs`, `EntryPanel_proofs`, `Conversation_proofs`, `AdminPanel_proofs`, `OutboundHttp_proofs` | proofs about the module each is named after and those it extends | |
| `Sidebar_proofs` | proofs about `NavigationOrder`, `FeedList` and `Shell` | |

How code becomes actions:

- One action is one database transaction (or single statement), or one stretch
  of code between two awaits. `StartDue` is the whole start transaction with its
  re-check of due and running; `Complete` is the transaction that writes outcome,
  failure count and schedule. PATCH and POST lock the row and are one action each.
- A request of the page is sent in one action, served in one or more (one per
  statement the route runs, where another write can fall between them) and
  received in another. Answers arrive in any order and may not arrive.
- A React state update and its rendering are one step.
- Where a module does not need what another one decides, it takes the outcome
  from a set: an attempt in `FeedCollection` succeeds or fails; a handler in
  `EntryStore` returns one of `Batch`; the collector in `FeedTimeline` just
  stores the next entry. `FeedTimeline` takes from `EntryStore` that ids are
  stored in order and that the cursor only moves forward.
- In `EntryStore`, `attempt` in an entry's row, and in the other modules the
  variables listed as history, are not in the code; no action reads them.
- Modules that share no state rest while another one runs, chosen in the initial
  state: a source fetch and a page fetch in `OutboundHttp`; in `Shell` the user
  acts while the collector rests, or the collector, polling and the table run
  while the user rests.
- Mutants (`Name_What`, each with the comment "Mutant:") are plausible wrong
  versions of the definition that follows them. They are used by no
  specification; `PROJECT.json` says which property each one breaks.

## 3. What is checked

| run | module | size | shows |
| --- | --- | --- | --- |
| `collection` | `MCFeedCollection` | resident alone, 2 feeds (one unpatchable), time 0..3, one PATCH per feed, one request, one disturbance | types; `RunningIsOwned`, `NextRunWithinInterval`, `FailureCountMatchesHistory`; every step is a step of `AttemptLog` |
| `collection_live` | `MCFeedCollection` | 3 feeds, one no longer declared | `RequestsAreServed`, `DueFeedsAreCollected`, `StopIsObeyed` |
| `collection_once` | `MCFeedCollection` | a `--once` process beside the resident | `AtMostOneRunning`, `PauseHolds` |
| `entry_store` | `MCEntryStore` | 2 feeds, 3 keys, 5 batches, 3 attempts, 1 release or limit change | order of ids and counts, movements and both NEW counts, unread sets |
| `timeline` | `FeedTimeline` | 3 entries, pages of 1, context of 1, 1 save on its way | `WindowIsARun`, `NothingIsReadUnseen`, `PassedIsSaved` |
| `navigation` | `MCNavigationOrder` | 2 pages (symmetric), 2 releases, 2 moves or retries | `SavedIsShown`, `AnswersAreComplete`, `RefusedOnlyWhenOutdated` |
| `entry_panel` | `MCEntryPanel` | 2 requests on their way (symmetric), 3 turns (requests of the user's, failures, refreshes), 2 versions of the page, 2 translations | `ReaderWaitsForOneAnswer`, `ShownAgreesWhenSequential`, `DeadlineIsOfStoredPage` |
| `entry_changes_doc` | `MCEntryPanel` | as `entry_panel` | violated: `ShownIsStored` |
| `conversation` | `MCConversation` | 2 engines, 2 turns at once, 3 questions, a map of 2 sessions, 3 events | `EngineKnowsWhatIsShown`, `NothingIsSentTwice`, `MapHoldsLatest`, `LoginsAreNotUndone`, `QuestionsEnd` |
| `admin_panel` | `MCAdminPanel` | 2 requests on their way, pages of 1, time 0..6, 4 events | `StatusIsTrue`, `ShownAgreesWhenQuiet`, `HistoryIsOfSelection`, `PagesCoverAttempts` |
| `outbound` | `MCOutboundHttp` | 13 handlers, lists of up to 5 items, pages of 2, 2 new lists during a fetch, 1 repetition; every day of seven years; all texts of up to 4 characters; 2 redirects | `WhatIsReadIsWhole`, `FetchesAreBounded`, `DatesAreRight`, `OnlyPublicIsReached` |
| `shell` | `MCShell` | 3 feeds in 2 rows, one with a slash in its id; 3 acts of the user, or 4 attempts, PATCHes and the like; 2 requests of a kind on their way | `TableKeepsUp`, `LinksLead`, `ScreenStays`, `FocusIsKept`, `FeedsCatchUp` |

Each property's comment says what it means and for which code. `TypeOK` of a
module is part of one of its properties.

### The violated claim

`ShownIsStored`: what the shared entry changes hold is said to be what was stored
(`entry-changes.tsx:6`). A handler publishes the whole entry it captured when its
button was pressed: bookmark a card, open it before the answer, and the answer
takes the opened mark off the screen although the row has it.

### Where else code and comments differ

Met while modelling; the models follow the code, and the properties named say in
their comments what they except because of it.

- A swept attempt is a failed row that `consecutive_failures` does not count
  (`schema.ts:33`, ADR-0005): a feed whose fetch kills the process is retried at
  every restart without backoff (`FailureCountMatchesHistory`).
- The "unread" button replaces the timeline while a page is on its way; that page
  is then appended, older entries below newer ones (`feed-timeline.tsx:2`, `:109`;
  `WindowIsARun`).
- A failed save of the order goes back to the order captured when it started,
  also behind a newer one that was loaded meanwhile; and a reload that crossed a
  successful save may show the order before it
  (`use-feed-navigation-order.ts:19`, `:46`; `SavedIsShown` excepts both, `crossed`).
- A save that its page has given up may be written late, over a newer one that was
  answered since, of the same page or another. ADR-0016 lets the last write count;
  the page whose order is lost goes on showing it (`feed-navigation-routes.ts:68`;
  `SavedIsShown` excepts it, `late`).
- A panel opened by its address reads the selection only when it is mounted: if
  its load fails, neither picking the card nor the retry shows the entry
  (`entry-panel.tsx:96`).
- A PATCH during an attempt keeps the outcome from setting `next_run_at`, so the
  rank table does not notice the new snapshot (`rank-table.tsx:46`,
  `fetch-attempt.ts:100`); a late snapshot answer overwrites a newer one
  (`TableKeepsUp`).
- A group's link is drawn from localStorage before the effect that stores the
  feed just shown; until the next render it leads to the one before
  (`app.tsx:168`; `LinksLead`).
- Going back to the empty hash while a save of the order is on its way lets its
  answer change the screen (`ScreenStays`). A feed list that arrives after the
  detail was hidden shows it again and the focus is lost (`FocusIsKept`).
- The text that a conversation's first question takes is stored by the service and
  published to no card (`ShownAgreesWhenSequential` does not cover a page after that).
- Wanted's and HelloGitHub's pages are asked for by number. When a posting is
  withdrawn from a page already read, the first row of the next page takes its
  place, and a row that rises may do the same: it is on no page that is asked for
  after that, and missed in this fetch
  (`wanted-handler.ts:65`, `hellogithub-handler.ts:48`; `ListIsWhole` excepts an item
  carried up so). When more than a page of postings appears, a later page brings
  what is newer than an earlier one did, and the drafts are not "latest first"
  (`wanted-handler.ts:4`).
- A deadline of last December read in January is taken for the coming December
  (`saramin-handler.ts:26`; `DatesAreRight`).
- A login written between `modify`'s second read and its rename is lost, as the
  comment at `file-credential-store.ts:15` admits (`LoginsAreNotUndone`).

### Bounds, and why they are enough

- Time in `FeedCollection` counts five-minute units, so the first retry delay is
  1 and the factor 3, as 5 and 15 minutes are; intervals 2 and 4 lie on both
  sides of the second delay, so that the cap is met from both. Time 3 lets a
  feed fail, back off, and come due again.
- One disturbance is one crash, database error or stop. It may fall between any
  two steps, and everything a crash leaves behind is repaired by the next
  start, so a second one meets no new state of the tables except a second
  left-over row, which the proofs cover for any number.
- Two feeds suffice for the sequential loop (a feed behind another); a third,
  undeclared one is in `collection_live`, where it could block the list.
- `EntryStore`: three attempts over two feeds give a snapshot, a second one, and
  a failure or another feed's attempt between or after them. The batches repeat
  a key, list newest first, omit dates and fall below the publishing bound;
  limits 2 and 3 cut a batch off or not.
- `FeedTimeline`: with pages and context of one entry, three entries already have
  pages to load at both ends, and a fresh one may be stored at any time.
- `NavigationOrder`: two moves or retries are enough for a retry of a failed
  save, for a save given up and overtaken by another, for saves of two pages,
  one written late among them, and for a reload crossing a save; a release drops and adds a row, and the
  collector registers the new feed late. A group and a feed share an id.
- `EntryPanel`: an overlap needs two requests on their way, and three turns let a
  third request meet what two overlapping ones left, or a failure or refresh fall
  between two. The opened effect's request is not counted, nor are opening,
  leaving and what the server does. Two versions of the page, each with its
  deadline, tell a mixed row from a consistent one, and two texts tell
  translations apart. With four turns (7 million states, not part of the runs)
  the properties hold too.
- `Conversation`: two turns overlap, a third question meets what they left; a map
  of two is full with the page's session and another conversation's. An event is
  a restart, another conversation, a lost request, an expired login, a login
  command or a choice of an engine.
- `AdminPanel`: two requests on their way overtake each other; pages of one make
  two attempts two pages. The clock reaches past `StaleAfter`, four intervals of
  the timer as in the code (120 and 30 seconds).
- `OutboundHttp`: five items on pages of two fill two pages and a half, three pages
  are the most asked for. At first a list is any number of items; during a fetch it
  becomes twice any of the lists with so many items, with one taken out or with one
  at any other rank: items cross a page's end in both directions, leave and come
  back. One repetition of a request tells that requests are repeated (the client's
  number is 2). The theorems are about any set of lists without repetition and any
  number of changes and repetitions. The seven years
  contain two leap years, and 1 January falls on every weekday but Sunday.
- `Shell`: a group of two feeds, one remembered or none; three acts of the user are
  a link, a key and a narrower window, in every order, with lists arriving between.
  Two list requests on their way already overtake each other.

### Fairness

- `FeedCollection`: a start of the container that is down and was not stopped
  (`restart: unless-stopped`), and the resident's own steps. A fetch ends because
  the HTTP client has a timeout and a limited number of retries. The operator,
  `--once` processes and the clock need do nothing.
- `FeedTimeline`: the save timer fires, and a PUT is answered or fails. The user
  need not scroll, and page requests need not be answered.
- `Conversation`: the service's steps. A call to an engine ends with an answer or
  an error, because the route and the engine's client have time limits; users,
  operator and clock need do nothing.
- `FeedList` (and `Shell`): the shell asks every minute; requests of the rank table
  end, answered or failed. A list request may be lost, but not every one: serving
  and receiving one are strongly fair, without which no polling catches up.
- The other specifications have no fairness; only safety is claimed there.

The collector may rest with nothing due, at the end of the clock or stopped, and
the pages may have nothing to do, so those runs do not check deadlock.
`EntryStore`, `FeedTimeline` and `EntryPanel` can always go on, and check it.

## 4. What is proved

Each theorem holds for every value of the constants that satisfies the named
assumptions of the modules it is about, where the runs fix a few.

### The collector and the admin API

For every set of feeds, intervals, bounds and retry parameters satisfying
`FeedAssumption`, `BoundAssumption` and `RetryAssumption`:

| theorem | says | about processes |
| --- | --- | --- |
| `TypeCorrect` | `Spec => []TypeOK` | any number of `--once` processes |
| `OneRunningAttempt` | `Spec => []AtMostOneRunning` | any number of `--once` processes |
| `PausesHold` | `Spec => PauseHolds` | any number of `--once` processes |
| `RunningRowsAreOwned` | `Spec => []RunningIsOwned` | the resident alone |
| `NoFeedWaitsLonger` | `Spec => []NextRunWithinInterval` | the resident alone |
| `FailureCountIsHistory` | `Spec => []FailureCountMatchesHistory` | the resident alone |
| `OutcomesAreFinal` | `Spec => EndedAttemptsKeepOutcome` | the resident alone |
| `ImplementsAttemptLog` | `Spec => FollowsAttemptLog` | the resident alone |

The argument of the first two (`FeedCollection_proofs`): `TypeInv` adds to
`TypeOK` what typing needs of copies; that at most one row of a feed is running
follows from `RunningIsLast`, which is inductive: a start appends a running row
only when none is running, the sweep and the completion only end rows.
`PausesHold` needs the types alone: `PauseStep` finds the one step that appends a
row, and that step reads the row of the feed again.

The resident's properties are not inductive. A completion writes a failure
count from the copy taken at the start, and the interval it computes with may
have been changed since. `ResidentInv` therefore adds `JobMatchesTables` (the
attempt in hand is the feed's last row and still running, the failure count in
hand is the stored one, the interval in hand is the stored one unless the
revision has moved on), `OwnedByResident` (any running row is the one in hand)
and `RowsExist` (the due list names rows that exist). There is one lemma per
action that changes the tables (`BootStep`, `SweepStep`, `StartStep`,
`CompleteStep`, `PatchStep`, `RequestStep`) and `QuietStep` for the others. With
`--once` processes `JobMatchesTables` is false (two copies of a row exist), and
so are several of these results: `OnceRuns = {}` is an assumption of each of
these theorems, and compose.yml runs the collector that way.

`ImplementsAttemptLog` maps `attempts` to `log` and the request flags to
`requested`: each step of `Spec` is sorted by `StepKinds` into start, completion,
sweep, request and steps that change neither, and mapped to the step of the log
of that kind.

### Ingestion and reading

`EntryStore_proofs`, for any number of feeds and of drafts in a batch, any
positions, rank limits and instants (`StoreAssumption`):

| theorem | statement |
|---|---|
| `OrderAndCounts` | `Spec => []EntriesAreInOrder` |
| `RankTableTellsHistory` | `Spec => []RankTableMatchesHistory` |
| `UnreadGrows` | `Spec => UnreadGrowsByNewEntriesOnly` |

None follows from the tables alone: that a row counted "new" in the rank table
belongs to the latest success needs to be known from the day it was stored.
`StoreInv` keeps that history. Entries were first seen between the start of the
attempt that stored them and the start of the next one (`EntriesAreDated`); only
successes store and rank (`OnlySuccessesStore`); a snapshot ranks entries stored
by its own attempt or an earlier one (`RanksAreOfStored`); the job's row is its
feed's last and is still running (`JobIsRunning`); no cursor is ahead of the ids
(`CursorsAreStored`). The long lemma is `SucceedStep`: one transaction filters the
batch, inserts each new draft, adds a snapshot and writes the count.

`Inserted` folds over a sequence and the counts fold over sets. These folds
are recursive functions; that they exist is `FoldExists`, and what they yield is
proved row by row (`InsertedRowByRow`, `InsertedTable`, `CountsAreSummed`).
Induction is `SizeInduction`, stated for a set of numbers, where the library's
theorem takes an operator. Filtering and sorting are one operator, `Arranged`: it
gives each kept position its rank, the number of kept positions before it.
`RanksAreReached` shows that every rank below `n` is taken, so that the listing
exists, and `RowsAreSorted` that it has every kept draft once.

### The timeline

`FeedTimeline_proofs`, for pages and contexts of any size and any number of
entries and of saves on their way (`TimelineAssumption`): `WindowStaysARun`
(`Spec => []WindowIsARun`) and `NothingUnseenIsRead`
(`Spec => []NothingIsReadUnseen`).

Neither is inductive, because a page that is applied was read by the server some
steps before and asked for some steps before that. `RequestInv` says what an
answer on its way is: the page its request asked for, cut from the feed as it
was at some length between the request's and now (the feed only grows at its
end). `LoadInv` says that one load of an end is on its way at most, and that it
is of the window's end unless the window was replaced since. With both, the page
that is put before or behind the window meets it without a gap (`ApplyWindow`,
and `RunJoin` for runs of ids). `CoveredInv` says of every place the cursor may
come to, in the page (`passed`), in a save or a copy of the feed's row, that
everything up to it was in the window or jumped over.

### The entry panel

`EntryPanel_proofs`, for any number of requests on their way, turns of the user
and of the network, versions of the page and translations (`PanelAssumption`,
`ViewAssumption`):

| theorem | says |
| --- | --- |
| `OneReaderAnswer` | `Spec => []ReaderWaitsForOneAnswer` |
| `SequentialPanelAgrees` | `Spec => []ShownAgreesWhenSequential` |
| `DeadlineFollowsPage` | `Spec => []DeadlineIsOfStoredPage` |

The panel's effect (`Settle`) runs with the values an action leaves, so the
invariant `Shown` is a predicate of a row, changes, panel and requests that need
not be the variables' values: an action first re-establishes it of what it hands to
`Settle`, and `SettleShown` carries it over the effect. `RequestInv` says what a
request has been given at its stage, `WaitInv` that at most one load, reading and
opening of the panel are on their way and that the panel knows. `AgreeInv`, which is
claimed while nothing was lost and nothing overlapped, is about every state and not
only the quiet ones: the row, with the openings on their way counted as served
(`StoredView`), is what the card shows; or the one change that has been carried
out is still unanswered, and the row is what its answer will publish (`Published`).
The server's actions share one lemma (`ServedInv`), the answers another
(`ReceivedInv`).

### The conversation and the credential file

`Conversation_proofs`, for any number of engines, turns at once, sessions and
events (`ConversationAssumption`):

| theorem | says |
| --- | --- |
| `QuestionsAreSentOnce` | `Spec => []NothingIsSentTwice` |
| `LatestAreKept` | `Spec => []MapHoldsLatest` |
| `LoginsStay` | `Spec => LoginsAreNotUndone` |
| `WhatIsShownIsKnown` | `Spec => []EngineKnowsWhatIsShown` |

A question may be in a history, in the messages a turn was sent with, or be the
one a turn asks. `OwnerInv` says that these never meet: a question of a turn
that may still be stored (`IsLive`) is in no history and in no turn's messages
(`LiveInv`), histories are injective and disjoint (`HistoryInv`), and the
messages of a turn share no question with another session's history, nor with
the messages of a turn of another session (`BaseInv`): a session's messages were
copied before its history was replaced, but only from that history. `MapInv`
makes `used` a ranking and the map an end of it, in its order; putting an id at
the end keeps both (`AddedIsLatest`), dropping the first too (`TailIsLatest`).
`StoreInv` is about the file: the task that has sent a token is the head of the
queue, a token the file holds is spent only while its task runs, and what a
task is about to rename over the file is at least as new as the file for every
provider, unless the login command wrote in between.

That the engine knows what the page shows is about three copies of a conversation:
the page's, the service's history and, while a question is on its way, the
messages its turn was sent with. `TalkInv` relates them. The page waits for one
turn at most, that of its last question (`WaitInv`); it, its turn and its session
are of the engine chosen (`EngineInv`); no other turn may still store something
in the page's session (`AloneInv`); and the session's history is what the page
shows, or that with the last question from the moment the service stores it until
the page hears of it (`ToldInv`). The last two hold until a request of the page is
lost, as the property says. The type invariant needs of the credential file that
its queue holds exactly the turns that wait for it (`QueueIsExact`).

What is shown is compared as a set of questions that is in order on both sides,
which for sequences of numbers is the same as being equal.

### The admin panel and the collector's sign of life

`AdminPanel_proofs`, for any number of requests on their way, page size, set of
intervals and time limits (`PanelAssumption`, `HeartbeatAssumption`,
`RetryAssumption`):

| theorem | says |
| --- | --- |
| `CollectorIsDescribed` | `Spec => []StatusIsTrue` |
| `QuietPanelAgrees` | `Spec => []ShownAgreesWhenQuiet` |
| `HistoryFollows` | `Spec => []HistoryIsOfSelection` |
| `PagesAreComplete` | `Spec => []PagesCoverAttempts` |

`LoopInv` says that in the loop a record succeeds or fails within every interval
of the timer, `EndInv` that the stop mark comes last. Of the panel, `PastInv` says
that whatever was read is from before; `OverviewInv` that, where nothing changed
since it was asked for, the overview shown is what is stored or the request with
the current version is on its way and has read that; `ControlInv` that the control
waits for one action or for the overview asked for after it; `AskedInv` and
`HistoryInv` that the history's page, shown or on its way, is of the last request,
and is the page of the attempts as they are once the overview knows of all.
`PagesAreComplete` needs no more of the state than its types: it is about the
query for a page, proved from `PageRowsFacts` about the rows with fewer than
`PageSize` newer ones.

### The sidebar, the list of feeds and the screens

`Sidebar_proofs`, for any number of pages of the browser, releases, rows, feeds,
entries and requests on their way (`OrderAssumption`, `FeedListAssumption`,
`ShellAssumption`):

| theorem | says |
| --- | --- |
| `SavedOrderIsShown` | `OrderSpec => []SavedIsShown` |
| `AnswersNameEachRow` | `OrderSpec => []AnswersAreComplete` |
| `RefusalsAreRight` | `OrderSpec => RefusedOnlyWhenOutdated` |
| `TableFollowsList` | `Spec => []TableKeepsUp` |
| `LinksLeadThere` | `Spec => []LinksLead` |
| `ScreenIsKept` | `Spec => ScreenStays` |
| `FocusStays` | `Spec => FocusIsKept` |

`OrderInv` follows an order from the row it is stored in, through the requests and
answers on their way (`RequestsAreRight`), to what a page shows and what it holds
on to for a failed save (`PagesAreRight`): each is what the route can have
answered with something the row has held, under lists that were current at some
time, or a permutation of the rows the page computed. A page has one save on its
way at most (`OneSaveAtATime`). Of the page that was told of its save last,
`WriterIsTold` says that no answer on its way to it is older than that save, and
`WriterShows` that it shows it, both but for a reload that crossed the save and for a
save written after its page had given it up.
Sequences of rows are built with one operator, `Picked`, the members of a sequence
at given positions: its listing exists and has each position once
(`PlacesAreReached`), so that an answer has each declared row once whatever was
stored. For `RefusedOnlyWhenOutdated`, the rows the page makes of its lists
(`SidebarRows`) and the ones the server makes of the same feeds (`DeclaredOrder`)
are shown to be the same.

`ListInv` says that all who saw the same `next_run_at` were told of the same
snapshot (`TimesTell`), which is what the table compares, and that an open table
has the snapshot its list tells of, or has sent a request that will bring it
(`TableIsAsked`). `ShellInv` says that what was rendered last is what hash and memory
make of the screen (`FirstIsShown`: a first row's feed is not changed by
remembering it), that the memory of a group is the feed last viewed in it and one
of its feeds (`LastViewed`), and that the focus is on a panel that can be operated
(`FocusIsThere`). That links read back is proved of `makeScreenHash` and
`readScreenFromHash` segment by segment. It is stated for declared feeds: any text
may be typed as a hash, also one that reads as another link's beginning.

What is assumed of the constants is what `feed-definitions.ts` and its test say: no
group is called "", ids of feeds differ, none is empty or ends as the link of an
entry does (`IsFeedId`), groups are declared and hold feeds of one kind; and that an
order which is shown names every row.

### Fetches

`OutboundHttp_proofs`, for every list, handler, page size and limit
(`SourceAssumption`, `PageAssumption`):

| theorem | says |
| --- | --- |
| `OnlyPublic` | `Spec => []OnlyPublicIsReached` |
| `FetchesEnd` | `Spec => []FetchesAreBounded` |
| `DatesAreMeant` | `Spec => []DatesAreRight` |
| `WholeIsRead` | `Spec => []WhatIsReadIsWhole` |

`PageInv` keeps that a page in phase
"connecting" has passed the check of its address, at every redirect. `SourceInv`
counts what was sent against what may still be repeated: a handler that asks one
page at a time has spent at most `1 + Retries` on each page before
(`OneAtATime`), one that asks for all items at once has a number of tries per
item, counted as a finite set of pairs (`AllAtOnce`, `TriesAreFinite`).

`DatesAreMeant` is about every instant. Each day is in one year (`YearExists`,
from four years being 1461 days, and `YearIs`) and one month of it (`DateIs`);
the weeks are counted from a Monday, and a year's first week begins within three
days of 1 January (`FirstWeek`), so that the Thursday's year is the week's. A day
of next year is read as one of next year because it lies at least 335 days after
its namesake of the month before (`NextYearIsMeant`). The calendar has every
fourth year a leap year, so the result is about the world until 2099.

`WholeIsRead` has two halves. For `ListIsWhole` (`ListsAreWhole`) the list may be
any other after each request, and Product Hunt's cursor anywhere in it. What is due
is therefore followed and not read off: `steady` are the items that kept within
reach and were never carried from the rows still to be read to those read already,
`over` the pairs that kept their order. `WholeInv` says of each steady item that it
stands in the list within reach and has been read or is still below the rows read
(`PlaceInv`). To that each way of reading adds its own. Page after page
(`PagedInv`): the pairs read are in order, and `read` is where the next page begins,
a multiple of the page size for a number of rows. All at once (`AtOnceInv`): every
steady item was listed, and has been answered or is still asked for. Reach is what
makes a handler's end harmless: when `IsLast` holds, nothing within reach is left
below the page. None of this follows from the property, which says nothing until
the fetch has returned.

For `ArrayIsRead` (`ArraysAreRead`), the text is one JSON could be: strings end at
the first quote that an even number of backslashes precedes, and lists are
nested. `StringIsPassed` follows the loop through a string with what `IsEscaped`
says of the next character (`EscapedBy`); `ListsArePassed` shows by the length of
the list that the loop leaves it at the depth at which it came; `ArrayIsCutOut`
that it therefore stops at the array's last bracket and nowhere before. The
definitions over a text are recursive functions: that they exist is proved
(`TurnsAre`, `ListsAre`) from the least length at which they would not, as the
lemmas above are from `StepByStep`.

### Only model-checked

- Liveness, and anything with ENABLED, which the prover cannot do: `QuestionsEnd`,
  `PassedIsSaved`, `FeedsCatchUp`, and those of `collection_live`.

## 5. What is left out of the modelled parts

- Dedup keys, markdown, titles, texts and HTTP are values from small sets.
- The rows of `feed` that an operator changes with SQL, other than a rank limit.
- In `FeedTimeline` and `NavigationOrder` a feed list answer is taken in one step;
  answers that overtake each other are in `FeedList`.
- Scroll positions and layout; scrolling passes any prefix of the window. Focus is
  modelled as the panel that has it, not as the card in it.
- In `EntryPanel`: a second page or device, a card list that is loaded again
  without a refresh, the bookmark list's removal of a card, the request for the
  old entry that is made and dropped when another card is picked, and how long
  the columns' times differ from the ones the page publishes.
- In `FeedCollection` a sweep beside a live `--once` process is modelled (its row
  becomes failed and its completion overwrites that); only `AtMostOneRunning` and
  `PauseHolds` are claimed there.
- `Conversation`: prompts, texts and Markdown; the models of one engine; a second
  page. `CredentialStore`: `delete`, which nothing here calls, and the OpenRouter
  key, which is not in the file.
- `AdminPanel`: leaving the panel, the readings of the integrations (one request
  each behind a button that is disabled meanwhile), formatting.
- Handlers: the fields of a draft and the selectors of each page, how long a request
  takes and how large its body is. `OriginalPage`: what the extraction makes of a page
  is full or empty; an address is "public" when the list of blocked networks
  (`original-page.ts:52`) does not have it, and whether that list is complete is not
  asked.
- `Shell`: a reload of an order that is there already (the retry of an error asks for
  it), which may change the screen while the hash is empty; arrow and tool keys inside
  a panel; another tab that writes
  localStorage, which may change the feed shown while the hash is empty; a click
  with a modifier key, after which the detail panel takes the focus when it comes.
- The DeepL client: one request with a time limit.

## 6. Plan

Done: `FeedCollection` with its proofs, `EntryStore`, `FeedTimeline`,
`NavigationOrder`, `EntryPanel`, `CredentialStore` and `Conversation`,
`CollectorHeartbeat` and `AdminPanel`, the outbound modules, `FeedList` and `Shell`.

Proved: the collector with the resident alone, ingestion and reading, the timeline, the entry panel, the
conversation and its credential file, the admin panel and the heartbeat, the sidebar,
the list of feeds and the screens, fetches and dates (section 4).

Next, in this order:

1. `FeedCollection` composed with `CollectorHeartbeat`: the stop mark written when
   a round's exception ends the loop.

Not planned: the DeepL client, keyboard navigation inside a list, layout, the
build, migrations and deployment scripts.
