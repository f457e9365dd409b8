----------------------------- MODULE FeedTimeline -----------------------------
(***************************************************************************)
(* The timeline of one stream feed in the browser: the window of entries   *)
(* it has loaded, the page requests on their way, and the tracker that     *)
(* turns scrolling into saves of the read cursor (web/feed-timeline.tsx,   *)
(* use-read-cursor-tracker.ts, server/feed-routes.ts).                     *)
(*                                                                         *)
(* Ids of a feed only matter by their order, so the entries stored so far  *)
(* are 1..stored; module EntryStore shows that they are stored in order    *)
(* and that the cursor PUT only moves forward.  A request is answered by   *)
(* the server at one time (Serve) and reaches the screen at a later one    *)
(* (Apply), in any order.                                                  *)
(***************************************************************************)
EXTENDS Integers, FiniteSets, SequencesExt

CONSTANTS
  ContextCount,   \* CONTEXT_ENTRY_COUNT: read entries shown above the cursor
  PageSize,       \* PAGE_SIZE
  MaxEntries,     \* bound: entries the collector stores
  MaxSaves        \* bound: cursor PUTs on their way at a time

ASSUME TimelineAssumption ==
  /\ {ContextCount, PageSize, MaxSaves} \subseteq Nat \ {0}
  /\ MaxEntries \in Nat

VARIABLES
  \* The server.
  stored,       \* the feed's entries are 1..stored
  cursor,       \* feed.read_cursor_entry_id
  feed,         \* the feed's row of the app shell's feed list, maybe out of date
  \* The mounted timeline.
  mounted, openedCursorEntryId,
  loaded,       \* the first load has been applied
  list,         \* `entries`, from the top of the screen to the bottom
  hasOlder, hasNewer,
  loading,      \* loadingRef
  requests,     \* page requests on their way (two equal ones count as one)
  \* The tracker.
  passed,       \* passedEntryIdRef
  saved,        \* savedEntryIdRef
  timer,        \* the save timer is running
  saves,        \* cursor PUTs on their way
  \* History, read by properties only.
  seen,         \* entries that were in the window, or read before the start
  jumped,       \* the latest entry the user jumped to with the button
  mixed,        \* a page was added to a window it had not been asked for
  lost          \* a cursor PUT has failed

server == <<stored, cursor>>
screen == <<mounted, openedCursorEntryId, loaded, list, hasOlder, hasNewer, loading, requests>>
tracker == <<passed, saved, timer, saves>>
history == <<seen, jumped, mixed, lost>>
vars == <<server, feed, screen, tracker, history>>

Later(i, j) == IF i > j THEN i ELSE j

\* The ids from i to j, as a page or a window.
Run(i, j) == [n \in 1..(IF i > j THEN 0 ELSE j - i + 1) |-> i + n - 1]

FeedRow == [readCursorEntryId: Nat, latestEntryId: Nat]
Ids == Seq(1..MaxEntries)
Answer == [older: Ids, newer: Ids]
NoAnswer == [older |-> <<>>, newer |-> <<>>]
Request ==
  [kind: {"initial", "older", "newer", "latest"}, from: Nat, stale: BOOLEAN,
   served: BOOLEAN, answer: Answer]

TypeOK ==
  /\ stored \in 0..MaxEntries /\ cursor \in 0..stored
  /\ feed \in FeedRow
  /\ mounted \in BOOLEAN /\ openedCursorEntryId \in 0..stored
  /\ loaded \in BOOLEAN /\ list \in Ids
  /\ {hasOlder, hasNewer, loading} \subseteq BOOLEAN
  /\ requests \subseteq Request
  /\ passed \in 0..stored /\ saved \in 0..passed
  /\ timer \in BOOLEAN /\ saves \subseteq 1..stored
  /\ seen \subseteq 1..stored /\ jumped \in 0..stored
  /\ {mixed, lost} \subseteq BOOLEAN

(***************************************************************************)
(* The server: GET /api/feeds/:feedId/entries, PUT .../read-cursor, and    *)
(* GET /api/feeds as the app shell keeps it.                               *)
(***************************************************************************)
listEntriesBefore(id, limit) == Run(Later(1, id - limit), id - 1)

\* Mutant: the newest entries after the id instead of the nearest ones.
listEntriesAfter_Newest(id, limit) == Run(Later(id + 1, stored - limit + 1), stored)

listEntriesAfter(id, limit) ==
  Run(id + 1, IF id + limit < stored THEN id + limit ELSE stored)

\* An attempt of the collector ends and has stored an entry.
Collect ==
  /\ stored < MaxEntries
  /\ stored' = stored + 1
  /\ UNCHANGED <<cursor, feed, screen, tracker, history>>

ServeSave(id) ==
  /\ id \in saves
  /\ cursor' = Later(cursor, id)
  /\ saves' = saves \ {id}
  /\ UNCHANGED <<stored, feed, screen, passed, saved, timer, history>>

LoseSave(id) ==
  /\ id \in saves
  /\ saves' = saves \ {id}
  /\ lost' = TRUE
  /\ UNCHANGED <<server, feed, screen, passed, saved, timer, seen, jumped, mixed>>

\* The shell asks every now and then and after every save.  An answer that
\* comes late is one that was asked for early; one that overtakes a later one
\* is left out.
refreshFeeds ==
  /\ feed' = [readCursorEntryId |-> cursor, latestEntryId |-> stored]
  /\ UNCHANGED <<server, screen, tracker, history>>

(***************************************************************************)
(* Page requests.                                                          *)
(***************************************************************************)
\* What the server answers: for the first load both of its two requests.
AnswerTo(r) ==
  CASE r.kind = "initial" ->
         [older |-> IF r.from > 0 THEN listEntriesBefore(r.from + 1, ContextCount) ELSE <<>>,
          newer |-> listEntriesAfter(r.from, PageSize)]
    [] r.kind = "older"  -> [older |-> listEntriesBefore(r.from, PageSize), newer |-> <<>>]
    [] r.kind = "newer"  -> [older |-> <<>>, newer |-> listEntriesAfter(r.from, PageSize)]
    [] r.kind = "latest" -> [older |-> listEntriesBefore(r.from + 1, PageSize), newer |-> <<>>]

\* Older entries do not change any more, so only a page of newer ones depends
\* on the time the server reads it.
Ask(kind, from) ==
  LET r == [kind |-> kind, from |-> from, stale |-> FALSE, served |-> FALSE, answer |-> NoAnswer]
  IN IF kind \in {"older", "latest"}
     THEN [r EXCEPT !.served = TRUE, !.answer = AnswerTo(r)] ELSE r

Serve(r) ==
  /\ r \in requests /\ ~r.served
  /\ requests' = (requests \ {r}) \cup {[r EXCEPT !.served = TRUE, !.answer = AnswerTo(r)]}
  /\ UNCHANGED <<server, feed, mounted, openedCursorEntryId, loaded, list, hasOlder,
                 hasNewer, loading, tracker, history>>

\* A failed page request frees loadingRef; a failed first load shows a retry.
LoseRequest(r) ==
  /\ r \in requests
  /\ requests' = requests \ {r}
  /\ loading' = IF r.kind \in {"older", "newer"} THEN FALSE ELSE loading
  /\ UNCHANGED <<server, feed, mounted, openedCursorEntryId, loaded, list, hasOlder,
                 hasNewer, tracker, history>>

\* Opening the feed, with the cursor the feed list had at that moment.
Open ==
  /\ ~mounted /\ mounted' = TRUE
  /\ openedCursorEntryId' = feed.readCursorEntryId
  /\ passed' = feed.readCursorEntryId /\ saved' = feed.readCursorEntryId
  /\ requests' = {Ask("initial", feed.readCursorEntryId)}
  /\ UNCHANGED <<server, feed, loaded, list, hasOlder, hasNewer, loading, timer, saves, history>>

Retry ==
  /\ mounted /\ ~loaded /\ requests = {}
  /\ requests' = {Ask("initial", openedCursorEntryId)}
  /\ UNCHANGED <<server, feed, mounted, openedCursorEntryId, loaded, list, hasOlder,
                 hasNewer, loading, tracker, history>>

\* Mutant: a load does not wait for the one before.
MayLoad_Overlapping(trigger) == mounted /\ loaded /\ list # <<>> /\ trigger

\* The triggers at the two ends of a window, and the guard they share.
MayLoad(trigger) == mounted /\ loaded /\ list # <<>> /\ trigger /\ ~loading

loadOlder ==
  /\ MayLoad(hasOlder)
  /\ loading' = TRUE
  /\ requests' = requests \cup {Ask("older", Head(list))}
  /\ UNCHANGED <<server, feed, mounted, openedCursorEntryId, loaded, list, hasOlder,
                 hasNewer, tracker, history>>

loadNewer ==
  /\ MayLoad(hasNewer)
  /\ loading' = TRUE
  /\ requests' = requests \cup {Ask("newer", Last(list))}
  /\ UNCHANGED <<server, feed, mounted, openedCursorEntryId, loaded, list, hasOlder,
                 hasNewer, tracker, history>>

\* A page that is full means that there may be more.
IsFull(page, size) == Len(page) = size

\* A replaced window; the pages still on their way were asked for another one.
Replace(r, window) ==
  /\ list' = window
  /\ mixed' = FALSE
  /\ requests' = {[q EXCEPT !.stale = TRUE] : q \in requests \ {r}}
  /\ UNCHANGED loading

\* A window that grows by a page.
Extend(r, window) ==
  /\ list' = window
  /\ mixed' = (mixed \/ r.stale)
  /\ requests' = requests \ {r}
  /\ loading' = FALSE

ApplyNewer(r) ==
  /\ r.kind = "newer"
  /\ Extend(r, list \o r.answer.newer)
  /\ hasNewer' = IsFull(r.answer.newer, PageSize)
  /\ UNCHANGED <<loaded, hasOlder>>

ApplyOlder(r) ==
  /\ r.kind = "older"
  /\ Extend(r, r.answer.older \o list)
  /\ hasOlder' = IsFull(r.answer.older, PageSize)
  /\ UNCHANGED <<loaded, hasNewer>>

ApplyInitial(r) ==
  /\ r.kind = "initial"
  /\ Replace(r, r.answer.older \o r.answer.newer)
  /\ loaded' = TRUE
  /\ hasOlder' = IsFull(r.answer.older, ContextCount)
  /\ hasNewer' = IsFull(r.answer.newer, PageSize)

ApplyLatest(r) ==
  /\ r.kind = "latest"
  /\ Replace(r, r.answer.older)
  /\ hasOlder' = IsFull(r.answer.older, PageSize)
  /\ hasNewer' = FALSE
  /\ UNCHANGED loaded

Apply(r) ==
  /\ r \in requests /\ r.served
  /\ ApplyInitial(r) \/ ApplyOlder(r) \/ ApplyNewer(r) \/ ApplyLatest(r)
  /\ seen' = seen \cup ToSet(list')
  /\ UNCHANGED <<server, feed, mounted, openedCursorEntryId, tracker, jumped, lost>>

(***************************************************************************)
(* The tracker.                                                            *)
(***************************************************************************)
\* The PUTs on their way after saveNow with `newPassed` in passedEntryIdRef.
SavesAfter(newPassed) == IF newPassed > saved THEN saves \cup {newPassed} ELSE saves

saveNow(newPassed) ==
  /\ timer' = FALSE
  /\ passed' = newPassed
  /\ saved' = Later(saved, newPassed)
  /\ saves' = SavesAfter(newPassed)
  /\ Cardinality(saves') <= MaxSaves

\* trackPassedEntries: the first n entries are above the top of the screen.
trackPassedEntries(n) ==
  /\ mounted /\ loaded
  /\ passed' = Max({passed} \cup {list[i] : i \in 1..n})
  /\ timer' = (timer \/ passed' > saved)
  /\ UNCHANGED <<server, feed, screen, saved, saves, history>>

TimerFires ==
  /\ timer
  /\ saveNow(passed)
  /\ UNCHANGED <<server, feed, screen, history>>

\* A card is selected: everything above it counts as passed.
SelectCard(id) ==
  /\ mounted /\ loaded /\ id \in ToSet(list)
  /\ saveNow(Later(passed, id))
  /\ UNCHANGED <<server, feed, screen, history>>

\* The "unread" button, shown on a loaded and not empty timeline.
jumpToLatest ==
  /\ mounted /\ loaded /\ list # <<>>
  /\ feed.latestEntryId > feed.readCursorEntryId
  /\ saveNow(Later(passed, feed.latestEntryId))
  /\ requests' = requests \cup {Ask("latest", feed.latestEntryId)}
  /\ jumped' = Later(jumped, feed.latestEntryId)
  /\ UNCHANGED <<server, feed, mounted, openedCursorEntryId, loaded, list, hasOlder,
                 hasNewer, loading, seen, mixed, lost>>

\* Mutant: leaving the feed clears the timer and forgets to save.
SavesOnLeave_None == saves

SavesOnLeave == SavesAfter(passed)

\* Another feed is opened, or the page is left: the last position is saved
\* (keepalive lets the PUT outlive the page), late pages are dropped.
Leave ==
  /\ mounted /\ mounted' = FALSE
  /\ saves' = SavesOnLeave /\ Cardinality(saves') <= MaxSaves
  /\ openedCursorEntryId' = 0 /\ loaded' = FALSE /\ list' = <<>>
  /\ hasOlder' = FALSE /\ hasNewer' = FALSE /\ loading' = FALSE
  /\ requests' = {} /\ mixed' = FALSE
  /\ passed' = 0 /\ saved' = 0 /\ timer' = FALSE
  /\ UNCHANGED <<server, feed, seen, jumped, lost>>

(***************************************************************************)
(* The specification.                                                      *)
(***************************************************************************)
Init ==
  /\ stored \in 0..MaxEntries /\ cursor \in 0..stored
  /\ feed = [readCursorEntryId |-> cursor, latestEntryId |-> stored]
  /\ mounted = FALSE /\ openedCursorEntryId = 0 /\ loaded = FALSE /\ list = <<>>
  /\ hasOlder = FALSE /\ hasNewer = FALSE /\ loading = FALSE /\ requests = {}
  /\ passed = 0 /\ saved = 0 /\ timer = FALSE /\ saves = {}
  /\ seen = 1..cursor /\ jumped = 0 /\ mixed = FALSE /\ lost = FALSE

Next ==
  \/ Collect
  \/ \E id \in saves : ServeSave(id) \/ LoseSave(id)
  \/ refreshFeeds
  \/ Open \/ Retry \/ Leave
  \/ loadOlder \/ loadNewer \/ jumpToLatest
  \/ \E r \in requests : Serve(r) \/ LoseRequest(r) \/ Apply(r)
  \/ \E n \in 1..Len(list) : trackPassedEntries(n)
  \/ \E id \in ToSet(list) : SelectCard(id)
  \/ TimerFires

Spec == Init /\ [][Next]_vars

\* The timer runs in the browser, and a PUT is answered or fails; the user
\* need not do anything.
Fairness ==
  /\ WF_vars(TimerFires)
  /\ \A id \in 1..MaxEntries : WF_vars(ServeSave(id) \/ LoseSave(id))

FairSpec == Spec /\ Fairness

-----------------------------------------------------------------------------
(***************************************************************************)
(* Properties.                                                             *)
(***************************************************************************)
\* The window is a run of the feed without hole or repetition, older entries
\* above newer ones, however loads at both ends, failures and collections
\* interleave; the one exception is a page that arrives after the "unread"
\* button has replaced the window it was asked for.  Where it shows no trigger at
\* the top it starts with the feed's first entry.
WindowIsARun ==
  /\ TypeOK
  /\ loaded /\ ~mixed /\ list # <<>> =>
       /\ list = Run(Head(list), Last(list))
       /\ ~hasOlder => Head(list) = 1

\* An entry is only marked as read on the server when it has been in the
\* window, unless the user jumped over it with the button: neither page
\* boundaries, entries collected meanwhile, stale feed lists nor pages in the
\* wrong window let the cursor skip an entry.
NothingIsReadUnseen ==
  \A id \in 1..cursor : id \in seen \/ id <= jumped

\* What the user has passed is on the server in the end, when the timer fires,
\* a card is selected or the feed is left, unless the PUT itself failed.
PassedIsSaved ==
  \A id \in 1..MaxEntries : (mounted /\ passed >= id) ~> (cursor >= id \/ lost)
=============================================================================
