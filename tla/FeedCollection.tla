--------------------------- MODULE FeedCollection ---------------------------
(***************************************************************************)
(* The feed collector and the operator's controls over it, meeting in the  *)
(* rows of PostgreSQL:                                                     *)
(*  - the resident collector: boots, marks attempts of a dead process as   *)
(*    failed, then forever lists the due feeds and collects them one by    *)
(*    one (collector/main.ts, feed-scheduler.ts, fetch-attempt.ts);        *)
(*  - `--once` runs: a second process that collects one feed right now;    *)
(*  - the admin API: PATCH of interval and pause, POST of a manual request *)
(*    (server/admin-routes.ts).                                            *)
(* One action is one database transaction, or one step between two.  What  *)
(* an attempt brings in (entries, ranks) is left to other modules; here it *)
(* only succeeds or fails.                                                 *)
(***************************************************************************)
EXTENDS NextRunTime, FiniteSets, Sequences

CONSTANTS
  Feed,              \* ids that have, or may get, a row in table feed
  Declared,          \* the feeds declared in feed-definitions.ts
  Wanted,            \* declared feeds whose handler is "wanted"
  Resident,          \* the resident collector process
  OnceRuns,          \* `--once` processes, each of which runs one time
  Intervals,         \* intervals a declaration or a PATCH may give
  DeclaredInterval,  \* the interval a declaration gives each feed
  NoFeed,            \* not a feed
  \* Bounds on what the surroundings do; the collector itself has no bound.
  MaxTime,           \* the clock stops here
  MaxRevision,       \* PATCHes of one feed
  MaxRequests,       \* accepted manual requests, all feeds together
  MaxDisturbances    \* crashes, database errors and stop signals together

ASSUME FeedAssumption ==
  /\ Declared \subseteq Feed /\ Wanted \subseteq Declared
  /\ NoFeed \notin Feed /\ Resident \notin OnceRuns
  /\ Intervals \subseteq Nat \ {0}
  /\ DeclaredInterval \in [Feed -> Intervals]
ASSUME BoundAssumption ==
  {MaxTime, MaxRevision, MaxRequests, MaxDisturbances} \subseteq Nat

VARIABLES
  now,          \* the clock
  registered,   \* feeds with a row in table feed
  feed,         \* the rows of table feed (meaningful where registered)
  attempts,     \* attempts[f]: the rows of fetch_attempt for f, by id
  pc,           \* where each process is
  due,          \* what the resident's current due list still holds
  job,          \* each process's copy of what its attempt needs
  stopping,     \* the resident was told to stop (SIGTERM or SIGINT)
  requests,     \* manual requests accepted so far (for MaxRequests)
  disturbances  \* disturbances so far (for MaxDisturbances)

tables == <<registered, feed, attempts>>
processes == <<pc, due, job, stopping>>
vars == <<now, tables, processes, requests, disturbances>>

Process == {Resident} \cup OnceRuns

(***************************************************************************)
(* Rows and process-local records.  An "interrupted" attempt is one the    *)
(* code stores as failed with the message of markInterruptedAttemptsFailed.*)
(***************************************************************************)
FeedRow ==
  [intervalMinutes: Intervals, nextRunAt: Int, consecutiveFailures: Nat,
   paused: BOOLEAN, manualRequested: BOOLEAN, scheduleRevision: Nat]

Status == {"running", "success", "failed", "interrupted"}

\* FeedRunState and the revision of runFetchAttempt, with the feed and the
\* position of the attempt's row.
Job ==
  [feed: Feed \cup {NoFeed}, attempt: Nat, intervalMinutes: Intervals \cup {0},
   consecutiveFailures: Nat, scheduleRevision: Nat]

NoJob ==
  [feed |-> NoFeed, attempt |-> 0, intervalMinutes |-> 0,
   consecutiveFailures |-> 0, scheduleRevision |-> 0]

\* "down" before the first start and after an exit, "booting" after
\* insertMissingFeeds, "idle" in the sleep between due checks, "listed" inside
\* runDueFeeds, "read" after runFeedOnce read its state, "fetching" while an
\* attempt runs, "done" after a --once run.
Location == {"down", "booting", "idle", "listed", "read", "fetching", "done"}

TypeOK ==
  /\ now \in Nat
  /\ registered \in SUBSET Feed
  /\ feed \in [Feed -> FeedRow]
  /\ attempts \in [Feed -> Seq(Status)]
  /\ pc \in [Process -> Location]
  /\ due \in SUBSET [feed: Feed, nextRunAt: Int]
  /\ job \in [Process -> Job]
  /\ stopping \in BOOLEAN
  /\ requests \in Nat
  /\ disturbances \in Nat

\* A feed has an attempt in status running.
Busy(f) == \E i \in DOMAIN attempts[f] : attempts[f][i] = "running"

\* Mutant: a pause holds back manual requests too.
IsDue_PauseBlocksRequests(row) ==
  ~row.paused /\ (row.manualRequested \/ row.nextRunAt <= now)

\* Manual requests pass a pause; the rest waits for its time.
IsDue(row) == row.manualRequested \/ (~row.paused /\ row.nextRunAt <= now)

(***************************************************************************)
(* Process start.                                                          *)
(***************************************************************************)
NewRow(f) ==
  [intervalMinutes |-> DeclaredInterval[f], nextRunAt |-> now,
   consecutiveFailures |-> 0, paused |-> FALSE, manualRequested |-> FALSE,
   scheduleRevision |-> 0]

\* Rows of declared feeds that are missing are added, the others kept.
insertMissingFeeds ==
  /\ registered' = registered \cup Declared
  /\ feed' = [f \in Feed |-> IF f \in Declared \ registered
                             THEN NewRow(f) ELSE feed[f]]

\* main.ts up to insertMissingFeeds, for both kinds of process.  After a stop
\* signal the container stays down until somebody starts it again.
Boot(p) ==
  /\ pc[p] = "down"
  /\ insertMissingFeeds
  /\ pc' = [pc EXCEPT ![p] = "booting"]
  /\ stopping' = IF p = Resident THEN FALSE ELSE stopping
  /\ UNCHANGED <<now, attempts, due, job, requests, disturbances>>

\* Mutant: the sweep is forgotten.
InterruptedRow_Forgotten(s) == s

InterruptedRow(s) == IF s = "running" THEN "interrupted" ELSE s

\* The resident alone sweeps: every attempt still running is marked failed.
markInterruptedAttemptsFailed ==
  /\ pc[Resident] = "booting"
  /\ attempts' = [f \in Feed |->
       [i \in DOMAIN attempts[f] |-> InterruptedRow(attempts[f][i])]]
  /\ pc' = [pc EXCEPT ![Resident] = "idle"]
  /\ UNCHANGED <<now, registered, feed, due, job, stopping, requests, disturbances>>

(***************************************************************************)
(* The resident's loop: list the due feeds, then take them one by one.     *)
(***************************************************************************)

\* The rows the due query returns, each with the time it is ordered by.
DueList == {[feed |-> f, nextRunAt |-> feed[f].nextRunAt] :
              f \in {g \in registered : IsDue(feed[g])}}

\* Mutant: the loop does not look at the signal before a new round.
runDueFeeds_IgnoresSignal ==
  /\ pc[Resident] = "idle"
  /\ due' = DueList
  /\ due' # {}
  /\ pc' = [pc EXCEPT ![Resident] = "listed"]
  /\ UNCHANGED <<now, tables, job, stopping, requests, disturbances>>

runDueFeeds ==
  /\ pc[Resident] = "idle" /\ ~stopping
  /\ due' = DueList
  /\ due' # {}            \* an empty list is a loop iteration without effect
  /\ pc' = [pc EXCEPT ![Resident] = "listed"]
  /\ UNCHANGED <<now, tables, job, stopping, requests, disturbances>>

\* The next entry of the list: the earliest nextRunAt read by the query.
IsNext(d) == d \in due /\ \A e \in due : d.nextRunAt <= e.nextRunAt

\* The loop ends when the list is exhausted or the signal is set.
EndOfList ==
  /\ pc[Resident] = "listed"
  /\ due = {} \/ stopping
  /\ due' = {}
  /\ pc' = [pc EXCEPT ![Resident] = "idle"]
  /\ UNCHANGED <<now, tables, job, stopping, requests, disturbances>>

\* Mutant: an undeclared feed ends the round instead of being passed over.
SkipUndeclared_EndsRound(d) ==
  /\ pc[Resident] = "listed" /\ ~stopping /\ IsNext(d)
  /\ d.feed \notin Declared
  /\ due' = {}
  /\ UNCHANGED <<now, tables, pc, job, stopping, requests, disturbances>>

\* A feed in the table that is no longer declared is passed over.
SkipUndeclared(d) ==
  /\ pc[Resident] = "listed" /\ ~stopping /\ IsNext(d)
  /\ d.feed \notin Declared
  /\ due' = due \ {d}
  /\ UNCHANGED <<now, tables, pc, job, stopping, requests, disturbances>>

(***************************************************************************)
(* The start transaction of runFetchAttempt.  It locks the feed's row,     *)
(* looks again at what made the feed due, and gives up when the feed is no *)
(* longer due or has a running attempt.                                    *)
(***************************************************************************)
\* Mutant: the due list is trusted.
MayStart_NoRecheck(f, onlyWhenDue) == ~Busy(f)

\* Mutant: a running attempt is not looked for.
MayStart_NoBusyCheck(f, onlyWhenDue) == onlyWhenDue => IsDue(feed[f])

MayStart(f, onlyWhenDue) ==
  /\ onlyWhenDue => IsDue(feed[f])
  /\ ~Busy(f)

\* The attempt is recorded and the manual request consumed in one step.  The
\* revision comes from the locked row; interval and failure count come from
\* `state`, which is the locked row for the resident only.
Begin(p, f, state) ==
  /\ attempts' = [attempts EXCEPT ![f] = Append(@, "running")]
  /\ feed' = [feed EXCEPT ![f].manualRequested = FALSE]
  /\ job' = [job EXCEPT ![p] =
       [feed |-> f, attempt |-> Len(attempts[f]) + 1,
        intervalMinutes |-> state.intervalMinutes,
        consecutiveFailures |-> state.consecutiveFailures,
        scheduleRevision |-> feed[f].scheduleRevision]]
  /\ pc' = [pc EXCEPT ![p] = "fetching"]
  /\ UNCHANGED <<now, registered, stopping, requests, disturbances>>

StartDue(d) ==
  /\ pc[Resident] = "listed" /\ ~stopping /\ IsNext(d)
  /\ d.feed \in Declared /\ MayStart(d.feed, TRUE)
  /\ Begin(Resident, d.feed, feed[d.feed])
  /\ due' = due \ {d}

\* runFetchAttempt returned null: the next feed of the list is taken.
PassOver(d) ==
  /\ pc[Resident] = "listed" /\ ~stopping /\ IsNext(d)
  /\ d.feed \in Declared /\ ~MayStart(d.feed, TRUE)
  /\ due' = due \ {d}
  /\ UNCHANGED <<now, tables, pc, job, stopping, requests, disturbances>>

(***************************************************************************)
(* runFeedOnce: read the feed's state, then start no matter what is due.   *)
(***************************************************************************)
OnceRead(p, f) ==
  /\ pc[p] = "booting" /\ f \in Declared
  /\ job' = [job EXCEPT ![p] =
       [NoJob EXCEPT !.feed = f,
                     !.intervalMinutes = feed[f].intervalMinutes,
                     !.consecutiveFailures = feed[f].consecutiveFailures]]
  /\ pc' = [pc EXCEPT ![p] = "read"]
  /\ UNCHANGED <<now, tables, due, stopping, requests, disturbances>>

OnceStart(p) ==
  /\ pc[p] = "read" /\ MayStart(job[p].feed, FALSE)
  /\ Begin(p, job[p].feed, job[p])
  /\ UNCHANGED due

OnceBusy(p) ==
  /\ pc[p] = "read" /\ ~MayStart(job[p].feed, FALSE)
  /\ pc' = [pc EXCEPT ![p] = "done"]
  /\ job' = [job EXCEPT ![p] = NoJob]
  /\ UNCHANGED <<now, tables, due, stopping, requests, disturbances>>

(***************************************************************************)
(* The end of an attempt: one transaction writes the attempt's row (by id) *)
(* and the feed's row.                                                     *)
(***************************************************************************)

\* Mutant: the completion overwrites a schedule changed during the attempt.
ScheduleAfter_IgnoresRevision(p, failures) ==
  computeNextRunAt(failures, job[p].intervalMinutes, now)

\* nextRunAt moves only if nobody changed the schedule since the start.
ScheduleAfter(p, failures) ==
  LET f == job[p].feed IN
  IF feed[f].scheduleRevision = job[p].scheduleRevision
  THEN computeNextRunAt(failures, job[p].intervalMinutes, now)
  ELSE feed[f].nextRunAt

\* Mutant: a success does not reset the count.
FailuresAfter_NoReset(p, status) ==
  IF status = "success" THEN job[p].consecutiveFailures
  ELSE job[p].consecutiveFailures + 1

\* The failure count an attempt that ends with `status` leaves behind.
FailuresAfter(p, status) ==
  IF status = "success" THEN 0 ELSE job[p].consecutiveFailures + 1

\* "failed" also stands for a fetch without entries where that is an error,
\* and for a success transaction that was rolled back.
Complete(p, status) ==
  LET f == job[p].feed
      failures == FailuresAfter(p, status)
  IN
  /\ pc[p] = "fetching"
  /\ attempts' = [attempts EXCEPT ![f][job[p].attempt] = status]
  /\ feed' = [feed EXCEPT ![f].consecutiveFailures = failures,
                          ![f].nextRunAt = ScheduleAfter(p, failures)]
  /\ pc' = [pc EXCEPT ![p] = IF p = Resident THEN "listed" ELSE "done"]
  /\ job' = [job EXCEPT ![p] = NoJob]
  /\ UNCHANGED <<now, registered, due, stopping, requests, disturbances>>

(***************************************************************************)
(* The admin API.  The Keep values stand for what a PATCH body leaves out. *)
(***************************************************************************)
KeepInterval == 0
KeepPause == "keep"

\* Mutant: what the body leaves out is not taken from the row.
PatchedRow_NoDefault(row, interval, pause) ==
  [row EXCEPT !.intervalMinutes = interval, !.paused = pause = "pause",
              !.scheduleRevision = @ + 1]

\* The row after a PATCH: unpausing makes the feed due now, a new interval
\* counts from now, and every PATCH bumps the revision.
PatchedRow(row, interval, pause) ==
  LET newInterval == IF interval = KeepInterval THEN row.intervalMinutes ELSE interval
      newPaused   == IF pause = KeepPause THEN row.paused ELSE pause = "pause"
  IN [row EXCEPT
        !.intervalMinutes = newInterval,
        !.paused = newPaused,
        !.nextRunAt = IF row.paused /\ ~newPaused THEN now
                      ELSE IF interval = KeepInterval THEN @
                      ELSE computeNextRunAt(row.consecutiveFailures, newInterval, now),
        !.scheduleRevision = @ + 1]

PatchFeed(f, interval, pause) ==
  /\ f \in Declared \ Wanted /\ f \in registered
  /\ interval # KeepInterval \/ pause # KeepPause
  /\ feed[f].scheduleRevision < MaxRevision
  /\ feed' = [feed EXCEPT ![f] = PatchedRow(@, interval, pause)]
  /\ UNCHANGED <<now, registered, attempts, processes, requests, disturbances>>

\* Mutant: a request is accepted while an attempt runs.
RequestFetch_DuringAttempt(f) ==
  /\ f \in Declared /\ f \in registered
  /\ requests < MaxRequests
  /\ ~feed[f].manualRequested
  /\ feed' = [feed EXCEPT ![f].manualRequested = TRUE]
  /\ requests' = requests + 1
  /\ UNCHANGED <<now, registered, attempts, processes, disturbances>>

\* A request already waiting, or an attempt already running, answers 409.
RequestFetch(f) ==
  /\ f \in Declared /\ f \in registered
  /\ requests < MaxRequests
  /\ ~feed[f].manualRequested /\ ~Busy(f)
  /\ feed' = [feed EXCEPT ![f].manualRequested = TRUE]
  /\ requests' = requests + 1
  /\ UNCHANGED <<now, registered, attempts, processes, disturbances>>

(***************************************************************************)
(* The surroundings.                                                       *)
(***************************************************************************)
Tick ==
  /\ now < MaxTime
  /\ now' = now + 1
  /\ UNCHANGED <<tables, processes, requests, disturbances>>

Disturb == disturbances < MaxDisturbances /\ disturbances' = disturbances + 1

Alive(p) == pc[p] \notin {"down", "done"}

\* The process is killed, or a database error (in the due query, in a start
\* transaction, in a failure transaction) leaves it with an exception.
Die(p) ==
  /\ Disturb /\ Alive(p)
  /\ pc' = [pc EXCEPT ![p] = IF p = Resident THEN "down" ELSE "done"]
  /\ job' = [job EXCEPT ![p] = NoJob]
  /\ due' = IF p = Resident THEN {} ELSE due
  /\ UNCHANGED <<now, tables, stopping, requests>>

\* The signal handler is installed just before the loop.
Stop ==
  /\ Disturb /\ ~stopping
  /\ pc[Resident] \in {"idle", "listed", "fetching"}
  /\ stopping' = TRUE
  /\ UNCHANGED <<now, tables, pc, due, job, requests>>

Exit ==
  /\ pc[Resident] = "idle" /\ stopping
  /\ pc' = [pc EXCEPT ![Resident] = "down"]
  /\ UNCHANGED <<now, tables, due, job, stopping, requests, disturbances>>

(***************************************************************************)
(* The specification.                                                      *)
(***************************************************************************)

\* A database as the migrations leave it: no declared feed has a row yet, and
\* feeds of an earlier release may have one.
Init ==
  /\ now = 0
  /\ registered \in SUBSET (Feed \ Declared)
  /\ feed = [f \in Feed |-> NewRow(f)]
  /\ attempts = [f \in Feed |-> <<>>]
  /\ pc = [p \in Process |-> "down"]
  /\ due = {}
  /\ job = [p \in Process |-> NoJob]
  /\ stopping = FALSE
  /\ requests = 0
  /\ disturbances = 0

\* What the resident does by itself once its container is started.
ResidentStep ==
  \/ markInterruptedAttemptsFailed
  \/ runDueFeeds
  \/ EndOfList
  \/ \E d \in due : SkipUndeclared(d) \/ StartDue(d) \/ PassOver(d)
  \/ \E s \in {"success", "failed"} : Complete(Resident, s)
  \/ Exit

OnceStep(p) ==
  \/ Boot(p)
  \/ \E f \in Declared : OnceRead(p, f)
  \/ OnceStart(p)
  \/ OnceBusy(p)
  \/ \E s \in {"success", "failed"} : Complete(p, s)

AdminRequest ==
  \E f \in Feed :
    \/ \E interval \in Intervals \cup {KeepInterval},
          pause \in {"pause", "resume", KeepPause} :
         PatchFeed(f, interval, pause)
    \/ RequestFetch(f)

Next ==
  \/ Boot(Resident)
  \/ ResidentStep
  \/ \E p \in OnceRuns : OnceStep(p)
  \/ AdminRequest
  \/ Tick
  \/ \E p \in Process : Die(p)
  \/ Stop

Spec == Init /\ [][Next]_vars

\* Docker restarts the collector unless it was stopped, every fetch ends
\* (requests have a timeout and a retry limit), and the event loop goes on.
Fairness ==
  /\ WF_vars(~stopping /\ Boot(Resident))
  /\ WF_vars(ResidentStep)

FairSpec == Spec /\ Fairness

-----------------------------------------------------------------------------
(***************************************************************************)
(* Properties.                                                             *)
(***************************************************************************)

\* The feed's row locked by every start lets at most one attempt of a feed be
\* in status running, whichever processes start attempts (fetch-attempt.ts).
AtMostOneRunning ==
  \A f \in Feed : \A i, j \in DOMAIN attempts[f] :
    attempts[f][i] = "running" /\ attempts[f][j] = "running" => i = j

\* While the resident is in its loop, a running row belongs to the process
\* that is fetching it: no leftover of a crash blocks a feed (Busy answers
\* every start and every manual request with "already running").
RunningIsOwned ==
  pc[Resident] \notin {"down", "booting"} =>
    \A f \in Feed : \A i \in DOMAIN attempts[f] :
      attempts[f][i] = "running" =>
        \E p \in Process : pc[p] = "fetching" /\ job[p].feed = f /\ job[p].attempt = i

\* No feed waits longer than its interval, in whatever order attempts end,
\* retries back off and the operator changes the interval meanwhile (ADR-0005,
\* and the revision kept by schema.ts for exactly this).
NextRunWithinInterval ==
  \A f \in registered : feed[f].nextRunAt <= now + feed[f].intervalMinutes

\* The attempts that ended in failure after the last successful one.
FailuresSinceSuccess(rows) ==
  {i \in DOMAIN rows :
     /\ rows[i] = "failed"
     /\ \A j \in DOMAIN rows : j > i => rows[j] # "success"}

\* The stored failure count, which sets the backoff, agrees with the attempt
\* history for attempts that reached an end of their own.
FailureCountMatchesHistory ==
  \A f \in Feed :
    feed[f].consecutiveFailures = Cardinality(FailuresSinceSuccess(attempts[f]))

\* What ties the resident's copy of a feed to the tables while it fetches: its
\* attempt is the feed's last row and still running, the failure count is the
\* stored one, and the interval is too unless the revision has moved on.
JobMatchesTables ==
  pc[Resident] = "fetching" =>
    LET j == job[Resident]
        f == job[Resident].feed
    IN /\ f \in registered
       /\ j.attempt \in DOMAIN attempts[f] /\ j.attempt = Len(attempts[f])
       /\ attempts[f][j.attempt] = "running"
       /\ j.consecutiveFailures = feed[f].consecutiveFailures
       /\ j.scheduleRevision <= feed[f].scheduleRevision
       /\ j.scheduleRevision = feed[f].scheduleRevision
            => j.intervalMinutes = feed[f].intervalMinutes

\* Only the last attempt of a feed can be running.
RunningIsLast ==
  \A f \in Feed : \A i \in DOMAIN attempts[f] :
    attempts[f][i] = "running" => i = Len(attempts[f])

\* The due list names rows of the table, and a feed without a row has neither
\* failures nor a request.
RowsExist ==
  /\ \A d \in due : d.feed \in registered
  /\ \A f \in Feed \ registered :
       feed[f].consecutiveFailures = 0 /\ ~feed[f].manualRequested

\* The history the admin page shows is final: an attempt that has ended keeps
\* its outcome, whoever sweeps, restarts or completes afterwards.
OutcomesKept ==
  \A f \in Feed : \A i \in DOMAIN attempts[f] :
    attempts[f][i] # "running" =>
      i \in DOMAIN attempts'[f] /\ attempts'[f][i] = attempts[f][i]
EndedAttemptsKeepOutcome == [][OutcomesKept]_attempts

\* A pause holds from the moment it is stored, also for a feed the running due
\* list already contains: the resident starts an attempt of a paused feed only
\* to serve a manual request (ADR-0017).
PauseHolds ==
  [][\A f \in Feed :
       feed[f].paused /\ Len(attempts'[f]) > Len(attempts[f]) /\ job'[Resident] # job[Resident]
         => feed[f].manualRequested]_vars

\* Told to stop, and stopped.
StoppedByOperator == stopping /\ pc[Resident] = "down"

\* Attempts and manual requests follow the protocol of AttemptLog: no process,
\* crash or request takes a step the log does not allow.
Log == INSTANCE AttemptLog WITH
         log <- attempts,
         requested <- [f \in Feed |-> feed[f].manualRequested]
FollowsAttemptLog == Log!Spec

\* Every accepted manual request is eventually taken up, even for a paused
\* feed and behind other feeds, unless the operator stops the collector.
RequestsAreServed ==
  \A f \in Declared :
    feed[f].manualRequested ~> (~feed[f].manualRequested \/ StoppedByOperator)

\* A feed whose time has come is attempted, paused or rescheduled; other feeds
\* of the sequential loop cannot starve it.
DueFeedsAreCollected ==
  \A f \in Declared :
    (f \in registered /\ ~feed[f].paused /\ feed[f].nextRunAt <= now)
      ~> (Busy(f) \/ feed[f].paused \/ feed[f].nextRunAt > now \/ StoppedByOperator)

\* A stop signal makes the collector finish its feed and leave, however many
\* feeds are still due (main.ts).
StopIsObeyed == stopping ~> (pc[Resident] = "down" \/ ~stopping)
=============================================================================
