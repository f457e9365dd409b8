----------------------------- MODULE AdminPanel -----------------------------
(***************************************************************************)
(* The admin screen (web/admin-panel.tsx, admin-feed-control.tsx, admin-   *)
(* history.tsx) with one feed, the routes it reads (server/admin-routes    *)
(* .ts), and the collector's sign of life it shows.                        *)
(*                                                                         *)
(* What the collector does to the feed is left to FeedCollection: here an  *)
(* attempt begins or ends.  Requests are sent, served and answered in any  *)
(* order, or fail; the overview is read in several statements.             *)
(***************************************************************************)
EXTENDS CollectorHeartbeat, NextRunTime, FiniteSets, SequencesExt

CONSTANTS
  Slot,        \* requests that can be on their way at once
  Interval,    \* intervals the operator chooses from
  PageSize     \* attempts in one answer, 50 in the code

ASSUME PanelAssumption == Interval \subseteq Nat \ {0} /\ PageSize \in Nat \ {0}

VARIABLES
  feed,      \* the feed's row
  attempts,  \* its attempts by id
  panel,     \* state and refs of AdminPanel
  control,   \* state of AdminFeedControl
  list,      \* state and refs of AdminHistory
  requests,  \* requests[s]
  \* History, read by properties only.
  changed    \* the tables have changed since the last overview was asked for

screen == <<panel, control, list, requests>>
tables == <<feed, attempts>>
vars == <<heartVars, events, tables, screen, changed>>

NoId == 0
Filter == {"all", "success", "failed"}

\* ------------------------------------------------------------------------ the routes
Latest == IF attempts = <<>> THEN "none" ELSE Last(attempts)

NoOverview == [row |-> [interval |-> 0, paused |-> FALSE, requested |-> FALSE, failures |-> 0],
               latest |-> NoId, status |-> "none"]
NoPage == [filter |-> "none", before |-> NoId, rows |-> <<>>, nextBefore |-> NoId]

\* The rows of one answer, the newest first, and where the next page begins.
\* Mutant: a full page is taken for the last one's sign.
AttemptPage_FullEnds(filter, before) ==
  LET matching == {i \in DOMAIN attempts :
        (before = NoId \/ i < before) /\ (filter = "all" \/ attempts[i] = filter)}
      page == {i \in matching : Cardinality({j \in matching : j > i}) < PageSize}
  IN [filter |-> filter, before |-> before, rows |-> [i \in page |-> attempts[i]],
      nextBefore |-> IF Cardinality(matching) > PageSize + 1
                     THEN CHOOSE i \in page : \A j \in page : i <= j ELSE NoId]

AttemptPage(filter, before) ==
  LET matching == {i \in DOMAIN attempts :
        (before = NoId \/ i < before) /\ (filter = "all" \/ attempts[i] = filter)}
      page == {i \in matching : Cardinality({j \in matching : j > i}) < PageSize}
  IN [filter |-> filter, before |-> before, rows |-> [i \in page |-> attempts[i]],
      nextBefore |-> IF Cardinality(matching) > PageSize
                     THEN CHOOSE i \in page : \A j \in page : i <= j ELSE NoId]

\* ---------------------------------------------------------------------- the requests
NoRequest == [kind |-> "none", stage |-> "sent", version |-> 0, act |-> FALSE,
              minutes |-> 0, overview |-> NoOverview, page |-> NoPage]

\* The requests with one more, or none when every slot is taken.
Sent(q, request) ==
  LET free == {s \in Slot : q[s].kind = "none"}
  IN {[q EXCEPT ![s] = request] : s \in {s \in free : \A r \in free : s <= r}}
Quiet == \A s \in Slot : requests[s].kind = "none"
Done(s) == [requests EXCEPT ![s] = NoRequest]

\* AdminPanel's refresh: on mounting, by the timer, by hand and after every action.
\* `act` says that an action of the control waits for the answer.
refresh(q, act) ==
  /\ panel' = [panel EXCEPT !.version = @ + 1]
  /\ requests' \in Sent(q, [NoRequest EXCEPT !.kind = "overview",
                                 !.version = panel.version + 1, !.act = act])
  /\ changed' = FALSE

Init ==
  /\ HeartInit /\ events = 0
  /\ feed \in [interval : Interval, paused : {FALSE}, requested : {FALSE}, failures : {0}]
  /\ attempts = <<"failed", "success">>
  /\ panel = [overview |-> NoOverview, version |-> 1, error |-> FALSE]
  /\ control = [draft |-> NoId, pending |-> FALSE, failed |-> FALSE]
  /\ list = [selected |-> FALSE, filter |-> "all", before |-> NoId, page |-> NoPage,
             loading |-> FALSE, error |-> FALSE, version |-> 0]
  \* The panel asks when it is mounted.
  /\ requests \in Sent([s \in Slot |-> NoRequest],
                       [NoRequest EXCEPT !.kind = "overview", !.version = 1])
  /\ changed = FALSE

Refresh ==
  /\ Happens
  /\ refresh(requests, FALSE)
  /\ UNCHANGED <<heartVars, tables, control, list>>

\* ------------------------------------------------------------ the actions on the feed
Shown == panel.overview.row
Mounted == panel.overview # NoOverview

Act(kind, minutes) ==
  /\ Happens
  /\ control' = [control EXCEPT !.pending = TRUE, !.failed = FALSE]
  /\ requests' \in Sent(requests, [NoRequest EXCEPT !.kind = kind, !.minutes = minutes])
  /\ UNCHANGED <<heartVars, tables, panel, list, changed>>

SaveInterval ==
  /\ Mounted /\ ~control.pending /\ control.draft \notin {NoId, Shown.interval}
  /\ Act("interval", control.draft)

togglePaused ==
  /\ Mounted /\ ~control.pending
  /\ Act(IF Shown.paused THEN "resume" ELSE "pause", 0)

requestFetch ==
  /\ Mounted /\ ~control.pending
  /\ ~Shown.requested /\ panel.overview.status # "running"
  /\ Act("fetch", 0)

TypeInterval ==
  /\ Mounted /\ ~control.pending
  /\ \E minutes \in Interval \ {control.draft} : control' = [control EXCEPT !.draft = minutes]
  /\ Happens
  /\ UNCHANGED <<heartVars, tables, panel, list, requests, changed>>

previewNextRunAt(failures, interval, time) ==
  time + IF failures = 0 THEN interval
         ELSE Smaller(FirstRetryDelay * RetryDelayMultiplier ^ (failures - 1), interval)

\* ------------------------------------------------------------------------ the history
\* The effect asks when what it depends on has changed; a clean-up makes what is on its
\* way out of date.
\* Mutant: answers are not told apart.
IsCurrent_Any(s) == list.selected

IsCurrent(s) == list.selected /\ requests[s].version = list.version

\* Runs in the action that changed l; q are the requests after it.
Ask(l, q) ==
  /\ list' = [l EXCEPT !.loading = TRUE, !.error = FALSE, !.version = @ + 1]
  /\ requests' \in Sent(q, [NoRequest EXCEPT !.kind = "history", !.version = l.version + 1,
       !.page.filter = l.filter, !.page.before = l.before])

HistoryAction(l) ==
  /\ Happens
  /\ Ask(l, requests)
  /\ UNCHANGED <<heartVars, tables, panel, control, changed>>

selectFeed == Mounted /\ ~list.selected /\ HistoryAction([list EXCEPT !.selected = TRUE])
SetFilter ==
  \E filter \in Filter \ {list.filter} :
    list.selected /\ HistoryAction([list EXCEPT !.filter = filter, !.before = NoId])
Newest == list.selected /\ ~list.loading /\ HistoryAction([list EXCEPT !.before = NoId])
Retry == list.selected /\ list.error /\ HistoryAction(list)
Older ==
  /\ list.selected /\ ~list.loading /\ ~list.error
  /\ list.page.nextBefore # NoId
  /\ HistoryAction([list EXCEPT !.before = list.page.nextBefore])

\* ------------------------------------------------------------------------- the server
Serve(s, kinds, stage) == requests[s].kind \in kinds /\ requests[s].stage = stage
rest == <<heartVars, events, panel, control, list>>

ReadFeeds(s) ==
  /\ Serve(s, {"overview"}, "sent")
  /\ requests' = [requests EXCEPT ![s].stage = "rows", ![s].overview.row = feed]
  /\ UNCHANGED <<rest, tables, changed>>

\* The later statements: attempts, heartbeat, what is running.
ReadAttempts(s) ==
  /\ Serve(s, {"overview"}, "rows")
  /\ requests' = [requests EXCEPT ![s].stage = "answered",
       ![s].overview.latest = Len(attempts), ![s].overview.status = Latest]
  /\ UNCHANGED <<rest, tables, changed>>

ServeHistory(s) ==
  /\ Serve(s, {"history"}, "sent")
  /\ requests' = [requests EXCEPT ![s].stage = "answered",
       ![s].page = AttemptPage(requests[s].page.filter, requests[s].page.before)]
  /\ UNCHANGED <<rest, tables, changed>>

\* PATCH and POST as in FeedCollection; a request that waits or runs is refused.
ServeAction(s) ==
  /\ Serve(s, {"interval", "pause", "resume", "fetch"}, "sent")
  /\ LET kind == requests[s].kind
         refused == kind = "fetch" /\ (feed.requested \/ Latest = "running")
     IN /\ feed' = CASE kind = "interval" -> [feed EXCEPT !.interval = requests[s].minutes]
                     [] kind = "pause" -> [feed EXCEPT !.paused = TRUE]
                     [] kind = "resume" -> [feed EXCEPT !.paused = FALSE]
                     [] kind = "fetch" -> [feed EXCEPT !.requested = @ \/ ~refused]
        /\ requests' = [requests EXCEPT ![s].stage = IF refused THEN "refused" ELSE "answered"]
        /\ changed' = (changed \/ ~refused)
  /\ UNCHANGED <<rest, attempts>>

\* An attempt begins or ends, in the resident collector or in a run by hand.
Collect ==
  /\ Happens
  /\ \/ /\ Latest # "running"
        /\ attempts' = Append(attempts, "running")
        /\ feed' = [feed EXCEPT !.requested = FALSE]
     \/ /\ Latest = "running"
        /\ \E status \in {"success", "failed"} :
             /\ attempts' = Append(Front(attempts), status)
             /\ feed' = [feed EXCEPT !.failures = IF status = "failed" THEN @ + 1 ELSE 0]
  /\ changed' = TRUE
  /\ UNCHANGED <<heartVars, screen>>

\* ------------------------------------------------------------------------ the answers
\* Mutant: every answer is shown.
IsLatest_Any(s) == requests[s].version > 0

IsLatest(s) == requests[s].version = panel.version

\* The overview an action asked for ends the action, whether it is shown or not.
Ended(s) == IF requests[s].act THEN [control EXCEPT !.pending = FALSE] ELSE control

HistoryDepends(old, new) == old.latest # new.latest \/ old.status # new.status

\* A new interval resets the form; a new or ended attempt makes the history ask again.
Settle(s, p, q) ==
  LET old == panel.overview
      new == p.overview
  IN /\ panel' = p
     /\ control' = IF old.row.interval # new.row.interval
                   THEN [Ended(s) EXCEPT !.draft = new.row.interval] ELSE Ended(s)
     /\ IF list.selected /\ HistoryDepends(old, new)
        THEN Ask(list, q)
        ELSE requests' = q /\ UNCHANGED list

ReceiveOverview(s) ==
  /\ requests[s].kind = "overview" /\ requests[s].stage = "answered"
  /\ IF IsLatest(s)
     THEN Settle(s, [panel EXCEPT !.error = FALSE, !.overview = requests[s].overview],
                 Done(s))
     ELSE /\ control' = Ended(s) /\ requests' = Done(s)
          /\ UNCHANGED <<panel, list>>
  /\ UNCHANGED <<heartVars, events, tables, changed>>

FailOverview(s) ==
  /\ requests[s].kind = "overview" /\ Happens
  /\ panel' = IF IsLatest(s) THEN [panel EXCEPT !.error = TRUE] ELSE panel
  /\ control' = Ended(s) /\ requests' = Done(s)
  /\ UNCHANGED <<heartVars, tables, list, changed>>

Actions == {"interval", "pause", "resume", "fetch"}

\* The panel is read again before the control can be used again.
ReceiveAction(s) ==
  /\ requests[s].kind \in Actions /\ requests[s].stage = "answered"
  /\ refresh(Done(s), TRUE)
  /\ UNCHANGED <<heartVars, events, tables, control, list>>

\* Refused by the server, or the request or its answer was lost.
FailAction(s) ==
  /\ requests[s].kind \in Actions
  /\ IF requests[s].stage = "refused" THEN UNCHANGED events ELSE Happens
  /\ control' = [control EXCEPT !.pending = FALSE, !.failed = TRUE]
  /\ requests' = Done(s)
  /\ UNCHANGED <<heartVars, tables, panel, list, changed>>

ReceiveHistory(s) ==
  /\ requests[s].kind = "history" /\ requests[s].stage = "answered"
  /\ list' = IF IsCurrent(s)
             THEN [list EXCEPT !.page = requests[s].page, !.loading = FALSE] ELSE list
  /\ requests' = Done(s)
  /\ UNCHANGED <<heartVars, events, tables, panel, control, changed>>

FailHistory(s) ==
  /\ requests[s].kind = "history" /\ Happens
  /\ list' = IF IsCurrent(s) THEN [list EXCEPT !.error = TRUE, !.loading = FALSE] ELSE list
  /\ requests' = Done(s)
  /\ UNCHANGED <<heartVars, tables, panel, control, changed>>

\* -------------------------------------------------------------------------------------
User ==
  \/ Refresh \/ SaveInterval \/ togglePaused \/ requestFetch \/ TypeInterval
  \/ selectFeed \/ SetFilter \/ Newest \/ Retry \/ Older

Server(s) == ReadFeeds(s) \/ ReadAttempts(s) \/ ServeHistory(s) \/ ServeAction(s)
Client(s) ==
  \/ ReceiveOverview(s) \/ FailOverview(s) \/ ReceiveAction(s) \/ FailAction(s)
  \/ ReceiveHistory(s) \/ FailHistory(s)

Next ==
  \/ HeartNext /\ UNCHANGED <<tables, screen, changed>>
  \/ Collect \/ User \/ \E s \in Slot : Server(s) \/ Client(s)

Spec == Init /\ [][Next]_vars

\* -------------------------------------------------------------------------- properties
TypeOK ==
  /\ feed.interval \in Interval /\ feed.failures \in 0..Len(attempts)
  /\ \A i \in DOMAIN attempts : attempts[i] = "running" => i = Len(attempts)
  /\ control.draft \in Interval \cup {NoId}
  /\ control.pending <=>
       \E s \in Slot : requests[s].kind \in Actions \/ requests[s].act
  /\ list.loading <=> \E s \in Slot : requests[s].kind = "history" /\ IsCurrent(s)

\* When nothing is on its way, the last reading did not fail and the tables have not
\* changed since it was asked for, the panel shows what is stored: an earlier answer
\* that comes late never stays on the screen.  The form's preview is what the server
\* would store, whatever failed before.
ShownAgreesWhenQuiet ==
  /\ TypeOK
  /\ Quiet /\ Mounted /\ ~panel.error /\ ~changed =>
       Shown = feed /\ panel.overview.latest = Len(attempts) /\ panel.overview.status = Latest
  /\ \A minutes \in Interval :
       previewNextRunAt(feed.failures, minutes, now) = computeNextRunAt(feed.failures, minutes, now)

\* The history is what was asked for last, whatever filters and pages were asked for
\* before and are answered later; and it follows the overview: an attempt that has begun
\* or ended is not shown as it was.
HistoryIsOfSelection ==
  list.selected /\ ~list.error =>
    /\ ~list.loading => list.page.filter = list.filter /\ list.page.before = list.before
    /\ Quiet /\ ~panel.error /\ ~changed => list.page = AttemptPage(list.filter, list.before)

\* Going from page to page meets every attempt once, and no page is empty.
PagesCoverAttempts ==
  \A filter \in Filter, before \in {NoId} \cup DOMAIN attempts :
    LET page == AttemptPage(filter, before)
        older == AttemptPage(filter, page.nextBefore)
        all == {i \in DOMAIN attempts : filter = "all" \/ attempts[i] = filter}
        rest0 == {i \in all : before = NoId \/ i < before} \ DOMAIN page.rows
    IN IF page.nextBefore = NoId THEN rest0 = {}
       ELSE /\ DOMAIN older.rows # {} /\ DOMAIN older.rows \subseteq rest0
            /\ \A i \in rest0, j \in DOMAIN page.rows : i < j
=============================================================================
