----------------------- MODULE FeedCollection_proofs -----------------------
(***************************************************************************)
(* Proofs about FeedCollection, for every set of feeds, intervals, bounds  *)
(* and retry parameters.                                                   *)
(***************************************************************************)
EXTENDS FeedCollection, FiniteSetTheorems, SequenceTheorems, TLAPS

(***************************************************************************)
(* Lemmas about the operators.                                             *)
(***************************************************************************)

\* A retry delay is a whole number and never exceeds the interval.
LEMMA DelayBounds ==
  ASSUME NEW failures \in Nat, NEW interval \in Nat
  PROVE  /\ RetryDelay(failures, interval) \in Int
         /\ RetryDelay(failures, interval) <= interval
<1>1. CASE failures = 0
  BY <1>1 DEF RetryDelay
<1>2. CASE failures # 0
  <2>1. failures - 1 \in Nat
    BY <1>2
  <2>2. RetryDelayMultiplier ^ (failures - 1) \in Int
    BY <2>1, RetryAssumption
  <2>3. FirstRetryDelay * RetryDelayMultiplier ^ (failures - 1) \in Int
    BY <2>2, RetryAssumption
  <2> QED
    BY <1>2, <2>3 DEF RetryDelay, Smaller
<1> QED
  BY <1>1, <1>2

LEMMA NextRunBounds ==
  ASSUME NEW failures \in Nat, NEW interval \in Nat, NEW t \in Nat
  PROVE  /\ computeNextRunAt(failures, interval, t) \in Int
         /\ computeNextRunAt(failures, interval, t) <= t + interval
BY DelayBounds DEF computeNextRunAt

\* Writing one member of a sequence of outcomes keeps its length and its type.
LEMMA UpdateRow ==
  ASSUME NEW s \in Seq(Status), NEW i, NEW v \in Status
  PROVE  /\ [s EXCEPT ![i] = v] \in Seq(Status)
         /\ Len([s EXCEPT ![i] = v]) = Len(s)
<1>1. CASE i \in 1..Len(s)
  BY <1>1, ExceptSeq
<1>2. CASE i \notin 1..Len(s)
  <2>1. [s EXCEPT ![i] = v] = s
    BY <1>2
  <2> QED
    BY <2>1
<1> QED
  BY <1>1, <1>2

\* The sweep keeps how many attempts a feed has, and ends each one.
LEMMA SweptRows ==
  ASSUME NEW s \in Seq(Status),
         NEW t, t = [i \in DOMAIN s |-> InterruptedRow(s[i])]
  PROVE  /\ t \in Seq(Status)
         /\ Len(t) = Len(s) /\ DOMAIN t = DOMAIN s
         /\ \A i \in DOMAIN s : t[i] = InterruptedRow(s[i]) /\ t[i] # "running"
<1>1. DOMAIN s = 1..Len(s) /\ Len(s) \in Nat
  OBVIOUS
<1>2. \A i \in 1..Len(s) : InterruptedRow(s[i]) \in Status \ {"running"}
  BY <1>1 DEF InterruptedRow, Status
<1>3. t \in [1..Len(s) -> Status]
  BY <1>1, <1>2
<1>4. t \in Seq(Status) /\ Len(t) = Len(s)
  BY <1>1, <1>3
<1> QED
  BY <1>1, <1>2, <1>4

(***************************************************************************)
(* Type correctness.  The job of a process that has read its feed's state  *)
(* names a feed and an interval, which TypeOK alone does not say.          *)
(***************************************************************************)
JobShape ==
  \A p \in Process :
    pc[p] \in {"read", "fetching"} =>
      job[p].feed \in Feed /\ job[p].intervalMinutes \in Intervals

TypeInv == TypeOK /\ JobShape

LEMMA InitType == Init => TypeInv
<1> SUFFICES ASSUME Init PROVE TypeInv
  OBVIOUS
<1>1. \A f \in Feed : NewRow(f) \in FeedRow
  BY FeedAssumption DEF Init, NewRow, FeedRow
<1>2. NoJob \in Job
  BY DEF NoJob, Job
<1>3. feed \in [Feed -> FeedRow] /\ attempts \in [Feed -> Seq(Status)]
  BY <1>1 DEF Init
<1>4. pc \in [Process -> Location] /\ job \in [Process -> Job]
  BY <1>2 DEF Init, Location
<1>5. due \in SUBSET [feed: Feed, nextRunAt: Int] /\ registered \in SUBSET Feed
  BY DEF Init
<1>6. now \in Nat /\ stopping \in BOOLEAN /\ requests \in Nat /\ disturbances \in Nat
  BY DEF Init
<1>7. JobShape
  BY DEF Init, JobShape
<1> QED
  BY <1>3, <1>4, <1>5, <1>6, <1>7 DEF TypeInv, TypeOK

\* What a start leaves behind, for either kind of process.
LEMMA BeginType ==
  ASSUME TypeInv, NEW p \in Process, NEW f \in Feed, NEW state,
         state.intervalMinutes \in Intervals, state.consecutiveFailures \in Nat,
         Begin(p, f, state), due' \in SUBSET due
  PROVE  TypeInv'
<1> USE DEF TypeInv, TypeOK
<1>1. attempts' \in [Feed -> Seq(Status)]
  BY DEF Begin, Status
<1>2. feed' \in [Feed -> FeedRow]
  BY DEF Begin, FeedRow
<1>3. Len(attempts[f]) + 1 \in Nat /\ feed[f].scheduleRevision \in Nat
  BY DEF FeedRow
<1>4. job' \in [Process -> Job]
  BY <1>3 DEF Begin, Job
<1>5. pc' \in [Process -> Location]
  BY DEF Begin, Location
<1>6. JobShape'
  BY <1>5 DEF Begin, JobShape
<1> QED
  BY <1>1, <1>2, <1>4, <1>5, <1>6 DEF Begin

LEMMA CompleteType ==
  ASSUME TypeInv, NEW p \in Process, NEW status \in {"success", "failed"},
         Complete(p, status)
  PROVE  TypeInv'
<1> USE DEF TypeInv, TypeOK
<1> DEFINE f == job[p].feed
           failures == FailuresAfter(p, status)
<1>1. f \in Feed /\ job[p].intervalMinutes \in Nat /\ job[p].consecutiveFailures \in Nat
  BY FeedAssumption DEF Complete, JobShape, Job
<1>2. failures \in Nat
  BY <1>1 DEF FailuresAfter
<1>3. ScheduleAfter(p, failures) \in Int
  BY <1>1, <1>2, NextRunBounds DEF ScheduleAfter, FeedRow
<1>4. attempts' \in [Feed -> Seq(Status)]
  <2>1. status \in Status
    BY DEF Status
  <2>2. [attempts[f] EXCEPT ![job[p].attempt] = status] \in Seq(Status)
    BY <1>1, <2>1, UpdateRow
  <2> QED
    BY <1>1, <2>2 DEF Complete
<1>5. feed' \in [Feed -> FeedRow]
  BY <1>1, <1>2, <1>3 DEF Complete, FeedRow
<1>6. job' \in [Process -> Job]
  BY DEF Complete, Job, NoJob
<1>7. pc' \in [Process -> Location]
  BY DEF Complete, Location
<1>8. JobShape'
  BY DEF Complete, JobShape
<1> QED
  BY <1>4, <1>5, <1>6, <1>7, <1>8 DEF Complete

LEMMA PatchedRowType ==
  ASSUME NEW row \in FeedRow, NEW interval \in Intervals \cup {KeepInterval},
         NEW pause \in {"pause", "resume", KeepPause}, now \in Nat
  PROVE  PatchedRow(row, interval, pause) \in FeedRow
<1> DEFINE newInterval == IF interval = KeepInterval THEN row.intervalMinutes ELSE interval
<1>1. newInterval \in Intervals /\ newInterval \in Nat
  BY FeedAssumption DEF FeedRow, KeepInterval
<1>2. computeNextRunAt(row.consecutiveFailures, newInterval, now) \in Int
  BY <1>1, NextRunBounds DEF FeedRow
<1> DEFINE newPaused == IF pause = KeepPause THEN row.paused ELSE pause = "pause"
           newRunAt == IF row.paused /\ ~newPaused THEN now
                       ELSE IF interval = KeepInterval THEN row.nextRunAt
                       ELSE computeNextRunAt(row.consecutiveFailures, newInterval, now)
<1>3. newPaused \in BOOLEAN
  BY Zenon DEF FeedRow
<1>4. newRunAt \in Int
  <2>1. row.nextRunAt \in Int
    BY DEF FeedRow
  <2> QED
    BY <1>2, <2>1
<1>5. row.scheduleRevision + 1 \in Nat
  BY DEF FeedRow
<1>6. PatchedRow(row, interval, pause) =
        [row EXCEPT !.intervalMinutes = newInterval, !.paused = newPaused,
                    !.nextRunAt = newRunAt, !.scheduleRevision = row.scheduleRevision + 1]
  BY DEF PatchedRow
<1> HIDE DEF newInterval, newPaused, newRunAt
<1> QED
  BY <1>1, <1>3, <1>4, <1>5, <1>6 DEF FeedRow

\* One feed's rows after the sweep at the resident's start.
LEMMA SweptFeed ==
  ASSUME TypeInv, markInterruptedAttemptsFailed, NEW f \in Feed
  PROVE  /\ attempts'[f] \in Seq(Status)
         /\ Len(attempts'[f]) = Len(attempts[f])
         /\ DOMAIN attempts'[f] = DOMAIN attempts[f]
         /\ \A i \in DOMAIN attempts[f] :
              attempts'[f][i] = InterruptedRow(attempts[f][i]) /\ attempts'[f][i] # "running"
<1>1. attempts[f] \in Seq(Status)
  BY DEF TypeInv, TypeOK
<1>2. attempts'[f] = [i \in DOMAIN attempts[f] |-> InterruptedRow(attempts[f][i])]
  BY DEF markInterruptedAttemptsFailed
<1> HIDE DEF markInterruptedAttemptsFailed
<1> QED
  BY <1>1, <1>2, SweptRows

\* Every step keeps the types.
LEMMA NextType == TypeInv /\ [Next]_vars => TypeInv'
<1> SUFFICES ASSUME TypeInv, [Next]_vars PROVE TypeInv'
  OBVIOUS
<1> USE DEF TypeInv, TypeOK
<1>1. ASSUME NEW p \in Process, Boot(p) PROVE TypeInv'
  <2>1. \A f \in Feed : NewRow(f) \in FeedRow
    BY FeedAssumption DEF NewRow, FeedRow
  <2>2. feed' \in [Feed -> FeedRow] /\ registered' \in SUBSET Feed
    BY <1>1, <2>1, FeedAssumption DEF Boot, insertMissingFeeds
  <2>3. pc' \in [Process -> Location] /\ stopping' \in BOOLEAN
    BY <1>1 DEF Boot, Location
  <2>4. JobShape'
    BY <1>1 DEF Boot, JobShape
  <2> QED
    BY <1>1, <2>2, <2>3, <2>4 DEF Boot
<1>2. CASE markInterruptedAttemptsFailed
  <2>1. attempts' \in [Feed -> Seq(Status)]
    BY <1>2, SweptRows DEF markInterruptedAttemptsFailed
  <2> QED
    BY <1>2, <2>1 DEF markInterruptedAttemptsFailed, JobShape, Location
<1>3. CASE runDueFeeds
  <2>1. \A f \in registered : feed[f].nextRunAt \in Int
    BY DEF FeedRow
  <2>2. DueList \in SUBSET [feed: Feed, nextRunAt: Int]
    BY <2>1 DEF DueList
  <2>3. pc' \in [Process -> Location]
    BY <1>3 DEF runDueFeeds, Location
  <2> QED
    BY <1>3, <2>2, <2>3 DEF runDueFeeds, tables, JobShape
<1>4. CASE EndOfList
  BY <1>4 DEF EndOfList, tables, JobShape, Location
<1>5. ASSUME NEW d \in due, SkipUndeclared(d) PROVE TypeInv'
  BY <1>5 DEF SkipUndeclared, tables, JobShape
<1>6. ASSUME NEW d \in due, StartDue(d) PROVE TypeInv'
  <2>1. d.feed \in Feed /\ Resident \in Process
    BY DEF Process
  <2>2. feed[d.feed].intervalMinutes \in Intervals /\ feed[d.feed].consecutiveFailures \in Nat
    BY <2>1 DEF FeedRow
  <2> QED
    BY <1>6, <2>1, <2>2, BeginType DEF StartDue
<1>7. ASSUME NEW d \in due, PassOver(d) PROVE TypeInv'
  BY <1>7 DEF PassOver, tables, JobShape
<1>8. ASSUME NEW p \in Process, NEW s \in {"success", "failed"}, Complete(p, s)
      PROVE TypeInv'
  BY <1>8, CompleteType
<1>9. CASE Exit
  BY <1>9 DEF Exit, tables, JobShape, Location
<1>10. ASSUME NEW p \in OnceRuns, NEW f \in Declared, OnceRead(p, f) PROVE TypeInv'
  <2>1. f \in Feed /\ feed[f] \in FeedRow
    BY FeedAssumption
  <2>2. job' \in [Process -> Job]
    BY <1>10, <2>1 DEF OnceRead, Job, NoJob, FeedRow, Process
  <2> QED
    BY <1>10, <2>1, <2>2 DEF OnceRead, tables, JobShape, Location, Process, NoJob, FeedRow
<1>11. ASSUME NEW p \in OnceRuns, OnceStart(p) PROVE TypeInv'
  <2>1. p \in Process /\ job[p].feed \in Feed
    BY <1>11 DEF Process, OnceStart, JobShape
  <2>2. job[p].intervalMinutes \in Intervals /\ job[p].consecutiveFailures \in Nat
    BY <1>11, <2>1 DEF OnceStart, JobShape, Job
  <2> QED
    BY <1>11, <2>1, <2>2, BeginType DEF OnceStart
<1>12. ASSUME NEW p \in OnceRuns, OnceBusy(p) PROVE TypeInv'
  BY <1>12 DEF OnceBusy, tables, JobShape, Location, Job, NoJob, Process
<1>13. ASSUME NEW f \in Feed, NEW interval \in Intervals \cup {KeepInterval},
              NEW pause \in {"pause", "resume", KeepPause}, PatchFeed(f, interval, pause)
       PROVE TypeInv'
  <2>1. PatchedRow(feed[f], interval, pause) \in FeedRow
    BY PatchedRowType
  <2> QED
    BY <1>13, <2>1 DEF PatchFeed, processes, JobShape
<1>14. ASSUME NEW f \in Feed, RequestFetch(f) PROVE TypeInv'
  <2>1. [feed[f] EXCEPT !.manualRequested = TRUE] \in FeedRow
    BY DEF FeedRow
  <2>2. feed' \in [Feed -> FeedRow]
    BY <1>14, <2>1 DEF RequestFetch
  <2> QED
    BY <1>14, <2>2 DEF RequestFetch, processes, JobShape
<1>15. CASE Tick
  BY <1>15 DEF Tick, tables, processes, JobShape
<1>16. ASSUME NEW p \in Process, Die(p) PROVE TypeInv'
  BY <1>16 DEF Die, Disturb, tables, JobShape, Location, Job, NoJob
<1>17. CASE Stop
  BY <1>17 DEF Stop, Disturb, tables, JobShape
<1>18. CASE UNCHANGED vars
  BY <1>18 DEF vars, tables, processes, JobShape
<1>19. Resident \in Process /\ OnceRuns \subseteq Process
  BY DEF Process
<1> QED
  BY <1>1, <1>2, <1>3, <1>4, <1>5, <1>6, <1>7, <1>8, <1>9, <1>10, <1>11, <1>12,
     <1>13, <1>14, <1>15, <1>16, <1>17, <1>18, <1>19
  DEF Next, ResidentStep, OnceStep, AdminRequest

\* Every variable, row and process-local copy keeps its type in every run.
THEOREM TypeCorrect == Spec => []TypeOK
<1>1. Spec => []TypeInv
  BY InitType, NextType, PTL DEF Spec
<1>2. TypeInv => TypeOK
  BY DEF TypeInv
<1> QED
  BY <1>1, <1>2, PTL

(***************************************************************************)
(* One running attempt per feed, with any number of `--once` processes.    *)
(* RunningIsLast is inductive: a start finds no running row, and a row     *)
(* that is written later never becomes running again.                      *)
(***************************************************************************)
LEMMA NoRunningRow ==
  ASSUME NEW f \in Feed, ~Busy(f)
  PROVE  \A i \in DOMAIN attempts[f] : attempts[f][i] # "running"
BY DEF Busy

LEMMA BeginRunningIsLast ==
  ASSUME TypeInv, RunningIsLast, NEW p \in Process, NEW f \in Feed, NEW state,
         Begin(p, f, state), ~Busy(f)
  PROVE  RunningIsLast'
<1> SUFFICES ASSUME NEW g \in Feed, NEW i \in DOMAIN attempts'[g], attempts'[g][i] = "running"
             PROVE  i = Len(attempts'[g])
  BY DEF RunningIsLast
<1>1. attempts[g] \in Seq(Status) /\ attempts[f] \in Seq(Status)
  BY DEF TypeInv, TypeOK
<1>2. CASE g = f
  <2>1. attempts'[f] = Append(attempts[f], "running")
    BY DEF Begin, TypeInv, TypeOK
  <2>2. i \in 1..Len(attempts[f]) => attempts'[f][i] = attempts[f][i]
    BY <1>1, <2>1
  <2> QED
    BY <1>1, <1>2, <2>1, <2>2, NoRunningRow
<1>3. CASE g # f
  BY <1>3 DEF Begin, TypeInv, TypeOK, RunningIsLast
<1> QED
  BY <1>2, <1>3

LEMMA CompleteRunningIsLast ==
  ASSUME TypeInv, RunningIsLast, NEW p \in Process, NEW s \in {"success", "failed"},
         Complete(p, s)
  PROVE  RunningIsLast'
<1> DEFINE f == job[p].feed
           n == job[p].attempt
<1>1. f \in Feed /\ attempts[f] \in Seq(Status) /\ s \in Status
  BY DEF TypeInv, TypeOK, JobShape, Complete, Status
<1>2. /\ attempts'[f] = [attempts[f] EXCEPT ![n] = s]
      /\ \A g \in Feed \ {f} : attempts'[g] = attempts[g]
  BY <1>1 DEF Complete, TypeInv, TypeOK
<1>3. Len(attempts'[f]) = Len(attempts[f]) /\ DOMAIN attempts'[f] = DOMAIN attempts[f]
  BY <1>1, <1>2, UpdateRow
<1>4. \A i \in DOMAIN attempts[f] : attempts'[f][i] = "running" => attempts[f][i] = "running"
  BY <1>1, <1>2
<1> QED
  BY <1>1, <1>2, <1>3, <1>4 DEF RunningIsLast

LEMMA NextRunningIsLast ==
  TypeInv /\ RunningIsLast /\ [Next]_vars => RunningIsLast'
<1> SUFFICES ASSUME TypeInv, RunningIsLast, [Next]_vars PROVE RunningIsLast'
  OBVIOUS
<1>1. CASE UNCHANGED attempts
  BY <1>1 DEF RunningIsLast
<1>2. CASE markInterruptedAttemptsFailed
  <2>1. ASSUME NEW f \in Feed
        PROVE  \A i \in DOMAIN attempts'[f] : attempts'[f][i] # "running"
    BY <1>2, SweptFeed
  <2> QED
    BY <2>1 DEF RunningIsLast
<1>3. ASSUME NEW d \in due, StartDue(d) PROVE RunningIsLast'
  <2>1. d.feed \in Feed /\ Resident \in Process
    BY DEF Process, TypeInv, TypeOK
  <2> QED
    BY <1>3, <2>1, BeginRunningIsLast DEF StartDue, MayStart
<1>4. ASSUME NEW p \in OnceRuns, OnceStart(p) PROVE RunningIsLast'
  <2>1. p \in Process /\ job[p].feed \in Feed
    BY <1>4 DEF Process, OnceStart, TypeInv, JobShape
  <2> QED
    BY <1>4, <2>1, BeginRunningIsLast DEF OnceStart, MayStart
<1>5. ASSUME NEW p \in Process, NEW s \in {"success", "failed"}, Complete(p, s)
      PROVE RunningIsLast'
  BY <1>5, CompleteRunningIsLast
<1>6. Resident \in Process /\ OnceRuns \subseteq Process
  BY DEF Process
<1> QED
  BY <1>1, <1>2, <1>3, <1>4, <1>5, <1>6
  DEF Next, ResidentStep, OnceStep, AdminRequest, Boot, runDueFeeds, EndOfList,
      SkipUndeclared, PassOver, Exit, OnceRead, OnceBusy, PatchFeed, RequestFetch,
      Tick, Die, Stop, vars, tables

\* At most one attempt of a feed is in status running, whatever mix of resident
\* restarts and --once processes starts attempts.
THEOREM OneRunningAttempt == Spec => []AtMostOneRunning
<1>1. Init => RunningIsLast
  BY DEF Init, RunningIsLast
<1>2. TypeInv /\ RunningIsLast => AtMostOneRunning
  BY DEF RunningIsLast, AtMostOneRunning
<1> QED
  BY <1>1, <1>2, InitType, NextType, NextRunningIsLast, PTL DEF Spec

\* Only the resident's start lets an attempt begin in a step that changes its job.
LEMMA PauseStep ==
  ASSUME TypeInv, [Next]_vars, NEW f \in Feed, feed[f].paused,
         Len(attempts'[f]) > Len(attempts[f]), job'[Resident] # job[Resident]
  PROVE  feed[f].manualRequested
<1>1. Len(attempts[f]) \in Nat
  BY DEF TypeInv, TypeOK
<1>2. attempts' # attempts
  BY <1>1
<1>3. ~markInterruptedAttemptsFailed
  BY DEF markInterruptedAttemptsFailed
<1>4. ASSUME NEW d \in due, StartDue(d) PROVE feed[f].manualRequested
  <2>1. d.feed \in Feed /\ attempts \in [Feed -> Seq(Status)]
    BY DEF TypeInv, TypeOK
  <2>2. d.feed = f
    <3>1. attempts' = [attempts EXCEPT ![d.feed] = Append(@, "running")]
      BY <1>4 DEF StartDue, Begin
    <3> QED
      BY <1>1, <2>1, <3>1
  <2>3. IsDue(feed[f])
    BY <1>4, <2>2 DEF StartDue, MayStart
  <2> QED
    BY <2>3 DEF IsDue
<1>5. ASSUME NEW p \in OnceRuns, OnceStart(p) PROVE FALSE
  <2>1. p # Resident
    BY FeedAssumption
  <2>2. job'[Resident] = job[Resident]
    BY <1>5, <2>1 DEF OnceStart, Begin, TypeInv, TypeOK, Process
  <2> QED
    BY <2>2
<1>6. ASSUME NEW p \in Process, NEW s \in {"success", "failed"}, Complete(p, s) PROVE FALSE
  <2>1. job[p].feed \in Feed /\ attempts \in [Feed -> Seq(Status)] /\ s \in Status
    BY <1>6 DEF Complete, TypeInv, TypeOK, JobShape, Status
  <2>2. attempts' = [attempts EXCEPT ![job[p].feed] =
                       [attempts[job[p].feed] EXCEPT ![job[p].attempt] = s]]
    BY <1>6 DEF Complete
  <2>3. Len(attempts'[f]) = Len(attempts[f])
    <3>1. CASE f = job[p].feed
      <4>1. attempts'[f] = [attempts[f] EXCEPT ![job[p].attempt] = s]
        BY <2>1, <2>2, <3>1
      <4> QED
        BY <2>1, <4>1, UpdateRow
    <3>2. CASE f # job[p].feed
      BY <2>1, <2>2, <3>2
    <3> QED
      BY <3>1, <3>2
  <2> QED
    BY <1>1, <2>3
<1>7. Resident \in Process /\ OnceRuns \subseteq Process
  BY DEF Process
<1> QED
  BY <1>2, <1>3, <1>4, <1>5, <1>6, <1>7
  DEF Next, ResidentStep, OnceStep, AdminRequest, Boot, runDueFeeds, EndOfList,
      SkipUndeclared, PassOver, Exit, OnceRead, OnceBusy, PatchFeed, RequestFetch,
      Tick, Die, Stop, vars, tables

(***************************************************************************)
(* A pause holds from the moment it is stored, with any number of `--once` *)
(* processes and for a feed the resident has already listed as due: the    *)
(* start transaction of runFetchAttempt looks at the row again, and starts *)
(* a paused feed for a manual request only.                                *)
(***************************************************************************)
THEOREM PausesHold == Spec => PauseHolds
<1>1. TypeInv /\ [Next]_vars =>
        [\A f \in Feed :
           feed[f].paused /\ Len(attempts'[f]) > Len(attempts[f]) /\ job'[Resident] # job[Resident]
             => feed[f].manualRequested]_vars
  BY PauseStep
<1> QED
  BY <1>1, InitType, NextType, PTL DEF Spec, PauseHolds

(***************************************************************************)
(* The failure count of a history, as rows are added, swept and ended.     *)
(***************************************************************************)
LEMMA FailuresFinite ==
  ASSUME NEW s \in Seq(Status)
  PROVE  /\ IsFiniteSet(FailuresSinceSuccess(s))
         /\ Cardinality(FailuresSinceSuccess(s)) \in Nat
<1>1. IsFiniteSet(1..Len(s)) /\ DOMAIN s = 1..Len(s)
  BY FS_Interval
<1>2. FailuresSinceSuccess(s) \in SUBSET (1..Len(s))
  BY <1>1 DEF FailuresSinceSuccess
<1> QED
  BY <1>1, <1>2, FS_Subset, FS_CardinalityType

LEMMA FailuresAppend ==
  ASSUME NEW s \in Seq(Status)
  PROVE  FailuresSinceSuccess(Append(s, "running")) = FailuresSinceSuccess(s)
<1> DEFINE t == Append(s, "running")
<1>1. /\ DOMAIN t = 1..(Len(s) + 1) /\ DOMAIN s = 1..Len(s) /\ Len(s) \in Nat
      /\ \A i \in 1..Len(s) : t[i] = s[i]
      /\ t[Len(s) + 1] = "running"
  BY DEF Status
<1> HIDE DEF t
<1> QED
  BY <1>1 DEF FailuresSinceSuccess

LEMMA FailuresSwept ==
  ASSUME NEW s \in Seq(Status), NEW t \in Seq(Status), DOMAIN t = DOMAIN s,
         \A i \in DOMAIN s : t[i] = InterruptedRow(s[i])
  PROVE  FailuresSinceSuccess(t) = FailuresSinceSuccess(s)
<1>1. \A i \in DOMAIN s : (t[i] = "failed" <=> s[i] = "failed")
                       /\ (t[i] = "success" <=> s[i] = "success")
  BY DEF InterruptedRow
<1> QED
  BY <1>1 DEF FailuresSinceSuccess

\* The last row, still running, ends: a success leaves no failure after it, a
\* failure is one more.
LEMMA FailuresEnded ==
  ASSUME NEW s \in Seq(Status), NEW n \in DOMAIN s, n = Len(s), s[n] = "running",
         NEW v \in {"success", "failed"}
  PROVE  Cardinality(FailuresSinceSuccess([s EXCEPT ![n] = v])) =
           IF v = "success" THEN 0 ELSE Cardinality(FailuresSinceSuccess(s)) + 1
<1> DEFINE t == [s EXCEPT ![n] = v]
<1>1. /\ DOMAIN t = DOMAIN s /\ DOMAIN s = 1..Len(s) /\ Len(s) \in Nat
      /\ t[n] = v
      /\ \A i \in DOMAIN s \ {n} : t[i] = s[i]
  OBVIOUS
<1>2. \A i \in DOMAIN s : i <= n
  BY <1>1
<1> HIDE DEF t
<1>3. CASE v = "success"
  <2>1. FailuresSinceSuccess(t) = {}
    BY <1>1, <1>2, <1>3 DEF FailuresSinceSuccess
  <2> QED
    BY <1>3, <2>1, FS_EmptySet DEF t
<1>4. CASE v = "failed"
  <2>1. FailuresSinceSuccess(t) = FailuresSinceSuccess(s) \cup {n}
    BY <1>1, <1>2, <1>4 DEF FailuresSinceSuccess
  <2>2. n \notin FailuresSinceSuccess(s)
    BY DEF FailuresSinceSuccess
  <2>3. Cardinality(FailuresSinceSuccess(t)) = Cardinality(FailuresSinceSuccess(s)) + 1
    BY <2>1, <2>2, FailuresFinite, FS_AddElement
  <2>4. v # "success"
    BY <1>4
  <2>5. t = [s EXCEPT ![n] = v]
    BY DEF t
  <2> QED
    BY <2>3, <2>4, <2>5
<1> QED
  BY <1>3, <1>4

(***************************************************************************)
(*                         The resident collector                          *)
(*                                                                         *)
(* What FeedCollection guarantees when the resident collector is the only  *)
(* collecting process (OnceRuns = {}), which is how compose.yml deploys    *)
(* it.  With `--once` runs beside it most of this fails: the copy of the   *)
(* feed's row that an attempt works from is then no longer protected.      *)
(***************************************************************************)

(***************************************************************************)
(* The inductive invariant.  The safety properties need what ties the      *)
(* resident's copy of a row to the tables (JobMatchesTables), that only    *)
(* the last row of a feed can be running, and that rows exist.             *)
(***************************************************************************)
OwnedByResident ==
  pc[Resident] \notin {"down", "booting"} =>
    \A f \in Feed : \A i \in DOMAIN attempts[f] :
      attempts[f][i] = "running" =>
        pc[Resident] = "fetching" /\ job[Resident].feed = f /\ job[Resident].attempt = i

ResidentInv ==
  /\ TypeInv
  /\ RunningIsLast
  /\ JobMatchesTables
  /\ OwnedByResident
  /\ RowsExist
  /\ NextRunWithinInterval
  /\ FailureCountMatchesHistory

LEMMA ResidentIsProcess == Resident \in Process
BY DEF Process

\* A new row is due at once, and so within its interval.
LEMMA NewRowIsDue ==
  ASSUME NEW f \in Feed, now \in Nat
  PROVE  NewRow(f).nextRunAt <= now + NewRow(f).intervalMinutes
<1>1. NewRow(f).nextRunAt = now /\ NewRow(f).intervalMinutes = DeclaredInterval[f]
  BY DEF NewRow
<1>2. DeclaredInterval[f] \in Nat
  BY FeedAssumption
<1> QED
  BY <1>1, <1>2

LEMMA InitResident == Init => ResidentInv
<1> SUFFICES ASSUME Init PROVE ResidentInv
  OBVIOUS
<1>1. TypeInv
  BY InitType
<1>2. RunningIsLast
  BY DEF Init, RunningIsLast
<1>3. JobMatchesTables /\ OwnedByResident
  BY ResidentIsProcess DEF Init, JobMatchesTables, OwnedByResident
<1>4. RowsExist
  BY DEF Init, RowsExist, NewRow
<1>5. NextRunWithinInterval
  <2> SUFFICES ASSUME NEW f \in registered
               PROVE  feed[f].nextRunAt <= now + feed[f].intervalMinutes
    BY DEF NextRunWithinInterval
  <2>1. f \in Feed /\ feed[f] = NewRow(f) /\ now = 0
    BY DEF Init
  <2> QED
    BY <2>1, NewRowIsDue
<1>6. FailureCountMatchesHistory
  <2>1. FailuresSinceSuccess(<<>>) = {}
    BY DEF FailuresSinceSuccess
  <2> QED
    BY <2>1, FS_EmptySet DEF Init, FailureCountMatchesHistory, NewRow
<1> QED
  BY <1>1, <1>2, <1>3, <1>4, <1>5, <1>6 DEF ResidentInv

\* Steps that leave the tables alone and do not put the resident into or out of
\* a fetch it survives.
LEMMA QuietStep ==
  ASSUME ResidentInv, TypeInv', RunningIsLast', UNCHANGED tables, now <= now',
         \A d \in due' : d.feed \in registered,
         pc'[Resident] \notin {"down", "booting"} =>
           /\ pc[Resident] \notin {"down", "booting"}
           /\ pc'[Resident] = "fetching" <=> pc[Resident] = "fetching",
         pc'[Resident] = "fetching" =>
           pc[Resident] = "fetching" /\ job'[Resident] = job[Resident]
  PROVE  ResidentInv'
<1>1. registered' = registered /\ feed' = feed /\ attempts' = attempts
  BY DEF tables
<1>2. JobMatchesTables'
  BY <1>1 DEF ResidentInv, JobMatchesTables
<1>3. OwnedByResident'
  BY <1>1 DEF ResidentInv, OwnedByResident
<1>4. RowsExist'
  BY <1>1 DEF ResidentInv, RowsExist
<1>5. NextRunWithinInterval'
  <2> SUFFICES ASSUME NEW f \in registered
               PROVE  feed[f].nextRunAt <= now' + feed[f].intervalMinutes
    BY <1>1 DEF NextRunWithinInterval
  <2>1. feed[f].nextRunAt \in Int /\ feed[f].intervalMinutes \in Nat /\ now \in Nat /\ now' \in Nat
    BY FeedAssumption DEF ResidentInv, TypeInv, TypeOK, FeedRow
  <2>2. feed[f].nextRunAt <= now + feed[f].intervalMinutes
    BY DEF ResidentInv, NextRunWithinInterval
  <2> QED
    BY <2>1, <2>2
<1>6. FailureCountMatchesHistory'
  BY <1>1 DEF ResidentInv, FailureCountMatchesHistory
<1> QED
  BY <1>2, <1>3, <1>4, <1>5, <1>6 DEF ResidentInv

LEMMA BootStep ==
  ASSUME ResidentInv, TypeInv', RunningIsLast', Boot(Resident)
  PROVE  ResidentInv'
<1> USE ResidentIsProcess DEF ResidentInv
<1>1. pc'[Resident] = "booting" /\ attempts' = attempts /\ due' = due /\ now' = now
  BY DEF Boot, TypeInv, TypeOK
<1>2. /\ registered' = registered \cup Declared
      /\ \A f \in Feed : feed'[f] = IF f \in Declared \ registered THEN NewRow(f) ELSE feed[f]
  BY DEF Boot, insertMissingFeeds
<1>3. JobMatchesTables' /\ OwnedByResident'
  BY <1>1 DEF JobMatchesTables, OwnedByResident
<1>4. RowsExist'
  BY <1>1, <1>2 DEF RowsExist
<1>5. NextRunWithinInterval'
  <2> SUFFICES ASSUME NEW f \in registered'
               PROVE  feed'[f].nextRunAt <= now + feed'[f].intervalMinutes
    BY <1>1 DEF NextRunWithinInterval
  <2>1. CASE f \in Declared \ registered
    <3>1. f \in Feed /\ now \in Nat
      BY <2>1, FeedAssumption DEF TypeInv, TypeOK
    <3>2. feed'[f] = NewRow(f)
      BY <1>2, <2>1, <3>1
    <3> QED
      BY <3>1, <3>2, NewRowIsDue
  <2>2. CASE f \in registered
    BY <1>2, <2>2 DEF NextRunWithinInterval, TypeInv, TypeOK
  <2> QED
    BY <1>2, <2>1, <2>2
<1>6. FailureCountMatchesHistory'
  <2> SUFFICES ASSUME NEW f \in Feed
               PROVE  feed'[f].consecutiveFailures = Cardinality(FailuresSinceSuccess(attempts[f]))
    BY <1>1 DEF FailureCountMatchesHistory
  <2>1. feed'[f].consecutiveFailures = feed[f].consecutiveFailures
    <3>1. CASE f \in Declared \ registered
      <4>1. feed'[f] = NewRow(f)
        BY <1>2, <3>1
      <4>2. NewRow(f).consecutiveFailures = 0
        BY DEF NewRow
      <4> QED
        BY <3>1, <4>1, <4>2 DEF RowsExist
    <3>2. CASE f \notin Declared \ registered
      BY <1>2, <3>2
    <3> QED
      BY <3>1, <3>2
  <2> QED
    BY <2>1 DEF FailureCountMatchesHistory
<1> QED
  BY <1>3, <1>4, <1>5, <1>6

LEMMA SweepStep ==
  ASSUME ResidentInv, TypeInv', RunningIsLast', markInterruptedAttemptsFailed
  PROVE  ResidentInv'
<1> USE ResidentIsProcess DEF ResidentInv
<1>1. pc'[Resident] = "idle" /\ UNCHANGED <<now, registered, feed, due>>
  BY DEF markInterruptedAttemptsFailed, TypeInv, TypeOK
<1>2. \A f \in Feed : \A i \in DOMAIN attempts'[f] : attempts'[f][i] # "running"
  BY SweptFeed
<1>3. JobMatchesTables' /\ OwnedByResident'
  BY <1>1, <1>2 DEF JobMatchesTables, OwnedByResident
<1>4. RowsExist' /\ NextRunWithinInterval'
  BY <1>1 DEF RowsExist, NextRunWithinInterval
<1>5. FailureCountMatchesHistory'
  <2> SUFFICES ASSUME NEW f \in Feed
               PROVE  feed[f].consecutiveFailures = Cardinality(FailuresSinceSuccess(attempts'[f]))
    BY <1>1 DEF FailureCountMatchesHistory
  <2>1. attempts[f] \in Seq(Status)
    BY DEF TypeInv, TypeOK
  <2>2. FailuresSinceSuccess(attempts'[f]) = FailuresSinceSuccess(attempts[f])
    BY <2>1, SweptFeed, FailuresSwept
  <2> QED
    BY <2>2 DEF FailureCountMatchesHistory
<1> QED
  BY <1>3, <1>4, <1>5

LEMMA StartStep ==
  ASSUME ResidentInv, TypeInv', RunningIsLast', NEW d \in due, StartDue(d)
  PROVE  ResidentInv'
<1> USE ResidentIsProcess DEF ResidentInv
<1> DEFINE f == d.feed
           n == Len(attempts[f]) + 1
<1>1. f \in registered /\ f \in Feed /\ attempts[f] \in Seq(Status) /\ feed[f] \in FeedRow
  BY DEF RowsExist, TypeInv, TypeOK
<1>2. /\ attempts' = [attempts EXCEPT ![f] = Append(attempts[f], "running")]
      /\ feed' = [feed EXCEPT ![f].manualRequested = FALSE]
      /\ now' = now /\ registered' = registered /\ due' = due \ {d}
  BY DEF StartDue, Begin
<1>3. /\ pc'[Resident] = "fetching" /\ pc[Resident] = "listed"
      /\ job'[Resident] = [feed |-> f, attempt |-> n,
                           intervalMinutes |-> feed[f].intervalMinutes,
                           consecutiveFailures |-> feed[f].consecutiveFailures,
                           scheduleRevision |-> feed[f].scheduleRevision]
  BY DEF StartDue, Begin, TypeInv, TypeOK
<1>4. /\ attempts'[f] = Append(attempts[f], "running")
      /\ \A g \in Feed \ {f} : attempts'[g] = attempts[g]
  BY <1>1, <1>2 DEF TypeInv, TypeOK
<1>5. \A g \in Feed : /\ feed'[g].intervalMinutes = feed[g].intervalMinutes
                      /\ feed'[g].nextRunAt = feed[g].nextRunAt
                      /\ feed'[g].consecutiveFailures = feed[g].consecutiveFailures
                      /\ feed'[g].scheduleRevision = feed[g].scheduleRevision
  BY <1>1, <1>2 DEF TypeInv, TypeOK, FeedRow
<1>6. Len(attempts'[f]) = n /\ n \in Nat \ {0} /\ DOMAIN attempts'[f] = 1..n /\ attempts'[f][n] = "running"
  BY <1>1, <1>4
<1>7. \A g \in Feed : \A i \in DOMAIN attempts[g] : attempts[g][i] # "running"
  BY <1>3 DEF OwnedByResident
<1>8. JobMatchesTables'
  <2>1. feed[f].scheduleRevision \in Nat
    BY <1>1 DEF FeedRow
  <2> HIDE DEF f, n
  <2>2. job'[Resident].feed = f /\ job'[Resident].attempt = n
    BY <1>3
  <2>3. n \in DOMAIN attempts'[f]
    BY <1>6
  <2>4. /\ job'[Resident].consecutiveFailures = feed'[f].consecutiveFailures
        /\ job'[Resident].scheduleRevision = feed'[f].scheduleRevision
        /\ job'[Resident].intervalMinutes = feed'[f].intervalMinutes
        /\ feed'[f].scheduleRevision \in Nat
    BY <1>1, <1>3, <1>5, <2>1
  <2> QED
    BY <1>1, <1>2, <1>6, <2>2, <2>3, <2>4 DEF JobMatchesTables
<1>9. OwnedByResident'
  <2> SUFFICES ASSUME NEW g \in Feed, NEW i \in DOMAIN attempts'[g], attempts'[g][i] = "running"
               PROVE  f = g /\ n = i
    BY <1>3 DEF OwnedByResident
  <2>1. g = f
    BY <1>4, <1>7
  <2>2. i = Len(attempts'[g])
    BY DEF RunningIsLast
  <2> QED
    BY <1>6, <2>1, <2>2
<1>10. RowsExist'
  BY <1>2, <1>5 DEF RowsExist
<1>11. NextRunWithinInterval'
  <2>1. registered \subseteq Feed
    BY DEF TypeInv, TypeOK
  <2> QED
    BY <1>2, <1>5, <2>1 DEF NextRunWithinInterval
<1>12. FailureCountMatchesHistory'
  <2> SUFFICES ASSUME NEW g \in Feed
               PROVE  feed[g].consecutiveFailures = Cardinality(FailuresSinceSuccess(attempts'[g]))
    BY <1>5 DEF FailureCountMatchesHistory
  <2>1. FailuresSinceSuccess(attempts'[g]) = FailuresSinceSuccess(attempts[g])
    BY <1>1, <1>4, FailuresAppend
  <2> QED
    BY <2>1 DEF FailureCountMatchesHistory
<1> QED
  BY <1>8, <1>9, <1>10, <1>11, <1>12

LEMMA CompleteStep ==
  ASSUME ResidentInv, TypeInv', RunningIsLast', NEW s \in {"success", "failed"},
         Complete(Resident, s)
  PROVE  ResidentInv'
<1> USE ResidentIsProcess DEF ResidentInv
<1> DEFINE f == job[Resident].feed
           n == job[Resident].attempt
           failures == FailuresAfter(Resident, s)
<1>1. /\ pc[Resident] = "fetching" /\ pc'[Resident] = "listed"
      /\ registered' = registered /\ due' = due /\ now' = now
  BY DEF Complete, TypeInv, TypeOK
<1>2. /\ f \in registered /\ f \in Feed /\ attempts[f] \in Seq(Status) /\ feed[f] \in FeedRow
      /\ n \in DOMAIN attempts[f] /\ n = Len(attempts[f]) /\ attempts[f][n] = "running"
      /\ job[Resident].consecutiveFailures = feed[f].consecutiveFailures
  BY <1>1 DEF JobMatchesTables, TypeInv, TypeOK
<1>3. /\ attempts'[f] = [attempts[f] EXCEPT ![n] = s]
      /\ \A g \in Feed \ {f} : attempts'[g] = attempts[g]
  BY <1>2 DEF Complete, TypeInv, TypeOK
<1>4. /\ feed'[f].consecutiveFailures = failures
      /\ feed'[f].nextRunAt = ScheduleAfter(Resident, failures)
      /\ feed'[f].intervalMinutes = feed[f].intervalMinutes
      /\ \A g \in Feed \ {f} : feed'[g] = feed[g]
  BY <1>2 DEF Complete, TypeInv, TypeOK, FeedRow
<1>5. job[Resident].intervalMinutes \in Nat /\ now \in Nat /\ failures \in Nat
  <2>1. job[Resident].intervalMinutes \in Intervals /\ job[Resident] \in Job /\ now \in Nat
    BY <1>1 DEF TypeInv, TypeOK, JobShape
  <2>2. job[Resident].consecutiveFailures \in Nat
    BY <2>1 DEF Job
  <2>3. failures \in Nat
    BY <2>2 DEF FailuresAfter
  <2> QED
    BY <2>1, <2>3, FeedAssumption
<1> HIDE DEF f, n, failures
<1>6. JobMatchesTables'
  BY <1>1 DEF JobMatchesTables
<1>7. OwnedByResident'
  <2> SUFFICES ASSUME NEW g \in Feed, NEW i \in DOMAIN attempts'[g]
               PROVE  attempts'[g][i] # "running"
    BY DEF OwnedByResident
  <2>1. CASE g = f
    <3>1. i \in DOMAIN attempts[f]
      BY <1>2, <1>3, <2>1
    <3>2. i # n => attempts[f][i] # "running"
      BY <1>1, <1>2, <3>1 DEF OwnedByResident, n
    <3> QED
      BY <1>2, <1>3, <2>1, <3>1, <3>2
  <2>2. CASE g # f
    <3>1. attempts'[g] = attempts[g]
      BY <1>3, <2>2
    <3> QED
      BY <1>1, <2>2, <3>1 DEF OwnedByResident, f
  <2> QED
    BY <2>1, <2>2
<1>8. RowsExist'
  BY <1>1, <1>2, <1>4 DEF RowsExist
<1>9. NextRunWithinInterval'
  <2> SUFFICES ASSUME NEW g \in registered
               PROVE  feed'[g].nextRunAt <= now + feed'[g].intervalMinutes
    BY <1>1 DEF NextRunWithinInterval
  <2>1. CASE g # f
    BY <1>4, <2>1 DEF NextRunWithinInterval, TypeInv, TypeOK
  <2>2. CASE g = f /\ feed[f].scheduleRevision = job[Resident].scheduleRevision
    <3>1. feed[f].intervalMinutes = job[Resident].intervalMinutes
      BY <1>1, <2>2 DEF JobMatchesTables, f
    <3>2. feed'[f].nextRunAt = computeNextRunAt(failures, job[Resident].intervalMinutes, now)
      BY <1>4, <2>2 DEF ScheduleAfter, f
    <3> QED
      BY <1>4, <1>5, <2>2, <3>1, <3>2, NextRunBounds
  <2>3. CASE g = f /\ feed[f].scheduleRevision # job[Resident].scheduleRevision
    <3>1. feed'[f].nextRunAt = feed[f].nextRunAt
      BY <1>4, <2>3 DEF ScheduleAfter, f
    <3> QED
      BY <1>2, <1>4, <2>3, <3>1 DEF NextRunWithinInterval
  <2> QED
    BY <2>1, <2>2, <2>3
<1>10. FailureCountMatchesHistory'
  <2> SUFFICES ASSUME NEW g \in Feed
               PROVE  feed'[g].consecutiveFailures = Cardinality(FailuresSinceSuccess(attempts'[g]))
    BY DEF FailureCountMatchesHistory
  <2>1. CASE g = f
    <3>1. Cardinality(FailuresSinceSuccess(attempts'[f])) =
            IF s = "success" THEN 0 ELSE Cardinality(FailuresSinceSuccess(attempts[f])) + 1
      <4>1. Cardinality(FailuresSinceSuccess([attempts[f] EXCEPT ![n] = s])) =
              IF s = "success" THEN 0 ELSE Cardinality(FailuresSinceSuccess(attempts[f])) + 1
        BY <1>2, FailuresEnded
      <4> QED
        BY <1>3, <4>1
    <3>2. feed[f].consecutiveFailures = Cardinality(FailuresSinceSuccess(attempts[f]))
      BY <1>2 DEF FailureCountMatchesHistory
    <3>3. failures = IF s = "success" THEN 0 ELSE feed[f].consecutiveFailures + 1
      BY <1>2 DEF failures, FailuresAfter
    <3> QED
      BY <1>4, <2>1, <3>1, <3>2, <3>3
  <2>2. CASE g # f
    BY <1>3, <1>4, <2>2 DEF FailureCountMatchesHistory
  <2> QED
    BY <2>1, <2>2
<1> QED
  BY <1>6, <1>7, <1>8, <1>9, <1>10

\* A PATCH leaves the failure count alone, moves the revision on, and leaves
\* the feed due within its (new) interval.
LEMMA PatchedRowFields ==
  ASSUME NEW row \in FeedRow, NEW interval \in Intervals \cup {KeepInterval},
         NEW pause \in {"pause", "resume", KeepPause}, now \in Nat
  PROVE  LET new == PatchedRow(row, interval, pause) IN
         /\ new.consecutiveFailures = row.consecutiveFailures
         /\ new.scheduleRevision = row.scheduleRevision + 1
         /\ row.nextRunAt <= now + row.intervalMinutes
              => new.nextRunAt <= now + new.intervalMinutes
<1> DEFINE newInterval == IF interval = KeepInterval THEN row.intervalMinutes ELSE interval
           newPaused == IF pause = KeepPause THEN row.paused ELSE pause = "pause"
           newRunAt == IF row.paused /\ ~newPaused THEN now
                       ELSE IF interval = KeepInterval THEN row.nextRunAt
                       ELSE computeNextRunAt(row.consecutiveFailures, newInterval, now)
           new == PatchedRow(row, interval, pause)
<1>1. newInterval \in Nat /\ row.consecutiveFailures \in Nat
  BY FeedAssumption DEF FeedRow, KeepInterval
<1>2. new = [row EXCEPT !.intervalMinutes = newInterval, !.paused = newPaused,
                        !.nextRunAt = newRunAt, !.scheduleRevision = row.scheduleRevision + 1]
  BY DEF PatchedRow
<1>3. row.nextRunAt <= now + row.intervalMinutes => newRunAt <= now + newInterval
  <2>1. computeNextRunAt(row.consecutiveFailures, newInterval, now) <= now + newInterval
    BY <1>1, NextRunBounds
  <2> HIDE DEF newPaused
  <2> QED
    BY <1>1, <2>1
<1> HIDE DEF newInterval, newPaused, newRunAt, new
<1>4. /\ new.consecutiveFailures = row.consecutiveFailures
      /\ new.scheduleRevision = row.scheduleRevision + 1
      /\ new.nextRunAt = newRunAt /\ new.intervalMinutes = newInterval
  BY <1>2 DEF FeedRow
<1> QED
  BY <1>3, <1>4 DEF new

LEMMA PatchStep ==
  ASSUME ResidentInv, TypeInv', RunningIsLast', NEW f \in Feed,
         NEW interval \in Intervals \cup {KeepInterval},
         NEW pause \in {"pause", "resume", KeepPause}, PatchFeed(f, interval, pause)
  PROVE  ResidentInv'
<1> USE ResidentIsProcess DEF ResidentInv
<1> DEFINE new == PatchedRow(feed[f], interval, pause)
<1>1. /\ f \in registered /\ feed[f] \in FeedRow /\ now \in Nat
      /\ UNCHANGED <<now, registered, attempts, pc, due, job>>
  BY DEF PatchFeed, processes, TypeInv, TypeOK
<1>2. feed'[f] = new /\ \A g \in Feed \ {f} : feed'[g] = feed[g]
  BY DEF PatchFeed, TypeInv, TypeOK
<1>3. /\ new.consecutiveFailures = feed[f].consecutiveFailures
      /\ new.scheduleRevision = feed[f].scheduleRevision + 1
      /\ feed[f].nextRunAt <= now + feed[f].intervalMinutes
           => new.nextRunAt <= now + new.intervalMinutes
  BY <1>1, PatchedRowFields
<1> HIDE DEF new
<1>4. JobMatchesTables'
  <2> SUFFICES ASSUME pc[Resident] = "fetching" PROVE JobMatchesTables'
    BY <1>1 DEF JobMatchesTables
  <2>1. CASE job[Resident].feed # f
    BY <1>1, <1>2, <2>1 DEF JobMatchesTables, TypeInv, TypeOK
  <2>2. CASE job[Resident].feed = f
    <3>1. job[Resident].scheduleRevision \in Nat /\ feed[f].scheduleRevision \in Nat
      BY <1>1 DEF TypeInv, TypeOK, Job, FeedRow
    <3>2. job[Resident].scheduleRevision <= feed[f].scheduleRevision
      BY <2>2 DEF JobMatchesTables
    <3>3. job[Resident].scheduleRevision < feed'[f].scheduleRevision
      BY <1>2, <1>3, <3>1, <3>2
    <3>4. feed'[f].scheduleRevision \in Nat
      BY <1>2, <1>3, <3>1
    <3>5. job'[Resident].scheduleRevision <= feed'[f].scheduleRevision
          /\ job'[Resident].scheduleRevision # feed'[f].scheduleRevision
      BY <1>1, <3>1, <3>3, <3>4
    <3>6. job'[Resident].consecutiveFailures = feed'[f].consecutiveFailures
      BY <1>1, <1>2, <1>3, <2>2 DEF JobMatchesTables
    <3> QED
      BY <1>1, <2>2, <3>5, <3>6 DEF JobMatchesTables
  <2> QED
    BY <2>1, <2>2
<1>5. OwnedByResident'
  BY <1>1 DEF OwnedByResident
<1>6. RowsExist'
  BY <1>1, <1>2 DEF RowsExist
<1>7. NextRunWithinInterval'
  <2>1. registered \subseteq Feed
    BY DEF TypeInv, TypeOK
  <2> QED
    BY <1>1, <1>2, <1>3, <2>1 DEF NextRunWithinInterval
<1>8. FailureCountMatchesHistory'
  BY <1>1, <1>2, <1>3 DEF FailureCountMatchesHistory
<1> QED
  BY <1>4, <1>5, <1>6, <1>7, <1>8

LEMMA RequestStep ==
  ASSUME ResidentInv, TypeInv', RunningIsLast', NEW f \in Feed, RequestFetch(f)
  PROVE  ResidentInv'
<1> USE ResidentIsProcess DEF ResidentInv
<1>1. UNCHANGED <<now, registered, attempts, pc, due, job>>
  BY DEF RequestFetch, processes
<1>2. \A g \in Feed : /\ feed'[g].intervalMinutes = feed[g].intervalMinutes
                      /\ feed'[g].nextRunAt = feed[g].nextRunAt
                      /\ feed'[g].consecutiveFailures = feed[g].consecutiveFailures
                      /\ feed'[g].scheduleRevision = feed[g].scheduleRevision
  BY DEF RequestFetch, TypeInv, TypeOK, FeedRow
<1>3. registered \subseteq Feed
  BY DEF TypeInv, TypeOK
<1>4. JobMatchesTables'
  BY <1>1, <1>2, <1>3 DEF JobMatchesTables
<1>5. OwnedByResident'
  BY <1>1 DEF OwnedByResident
<1>6. RowsExist'
  <2>1. f \in registered /\ \A g \in Feed \ {f} : feed'[g] = feed[g]
    BY DEF RequestFetch, TypeInv, TypeOK
  <2> QED
    BY <1>1, <2>1 DEF RowsExist
<1>7. NextRunWithinInterval'
  BY <1>1, <1>2, <1>3 DEF NextRunWithinInterval
<1>8. FailureCountMatchesHistory'
  BY <1>1, <1>2 DEF FailureCountMatchesHistory
<1> QED
  BY <1>4, <1>5, <1>6, <1>7, <1>8

LEMMA NextResident ==
  ASSUME OnceRuns = {}, ResidentInv, [Next]_vars
  PROVE  ResidentInv'
<1>1. TypeInv' /\ RunningIsLast'
  BY NextType, NextRunningIsLast DEF ResidentInv
<1>2. /\ Process = {Resident}
      /\ now \in Nat /\ now <= now /\ \A d \in due : d.feed \in registered
      /\ pc \in [Process -> Location] /\ job \in [Process -> Job]
  BY DEF ResidentInv, TypeInv, TypeOK, RowsExist, Process
<1>3. CASE Boot(Resident)
  BY <1>1, <1>3, BootStep
<1>4. CASE markInterruptedAttemptsFailed
  BY <1>1, <1>4, SweepStep
<1>5. CASE runDueFeeds
  <2>1. \A d \in DueList : d.feed \in registered
    BY DEF DueList
  <2> QED
    BY <1>1, <1>2, <1>5, <2>1, QuietStep DEF runDueFeeds
<1>6. CASE EndOfList
  BY <1>1, <1>2, <1>6, QuietStep DEF EndOfList
<1>7. ASSUME NEW d \in due, SkipUndeclared(d) \/ PassOver(d) PROVE ResidentInv'
  BY <1>1, <1>2, <1>7, QuietStep DEF SkipUndeclared, PassOver
<1>8. ASSUME NEW d \in due, StartDue(d) PROVE ResidentInv'
  BY <1>1, <1>8, StartStep
<1>9. ASSUME NEW s \in {"success", "failed"}, Complete(Resident, s) PROVE ResidentInv'
  BY <1>1, <1>9, CompleteStep
<1>10. CASE Exit
  BY <1>1, <1>2, <1>10, QuietStep DEF Exit
<1>11. ASSUME NEW f \in Feed, NEW interval \in Intervals \cup {KeepInterval},
              NEW pause \in {"pause", "resume", KeepPause}, PatchFeed(f, interval, pause)
       PROVE ResidentInv'
  BY <1>1, <1>11, PatchStep
<1>12. ASSUME NEW f \in Feed, RequestFetch(f) PROVE ResidentInv'
  BY <1>1, <1>12, RequestStep
<1>13. CASE Tick
  BY <1>1, <1>2, <1>13, QuietStep DEF Tick, processes
<1>14. ASSUME NEW p \in Process, Die(p) PROVE ResidentInv'
  BY <1>1, <1>2, <1>14, QuietStep DEF Die
<1>15. CASE Stop
  BY <1>1, <1>2, <1>15, QuietStep DEF Stop
<1>16. CASE UNCHANGED vars
  BY <1>1, <1>2, <1>16, QuietStep DEF vars, processes
<1> QED
  BY <1>3, <1>4, <1>5, <1>6, <1>7, <1>8, <1>9, <1>10, <1>11, <1>12, <1>13, <1>14,
     <1>15, <1>16
  DEF Next, ResidentStep, AdminRequest

LEMMA ResidentInvariant == ASSUME OnceRuns = {} PROVE Spec => []ResidentInv
<1>1. ResidentInv /\ [Next]_vars => ResidentInv'
  BY NextResident
<1> QED
  BY <1>1, InitResident, PTL DEF Spec

\* No leftover of a crash blocks a feed: while the resident is in its loop, a
\* running row is the one it is fetching.
THEOREM RunningRowsAreOwned == ASSUME OnceRuns = {} PROVE Spec => []RunningIsOwned
<1>1. ResidentInv => RunningIsOwned
  BY ResidentIsProcess DEF ResidentInv, OwnedByResident, RunningIsOwned
<1> QED
  BY <1>1, ResidentInvariant, PTL

\* No feed is scheduled further away than its current interval.
THEOREM NoFeedWaitsLonger == ASSUME OnceRuns = {} PROVE Spec => []NextRunWithinInterval
<1>1. ResidentInv => NextRunWithinInterval
  BY DEF ResidentInv
<1> QED
  BY <1>1, ResidentInvariant, PTL

\* The stored failure count is the number of failures since the last success.
THEOREM FailureCountIsHistory ==
  ASSUME OnceRuns = {} PROVE Spec => []FailureCountMatchesHistory
<1>1. ResidentInv => FailureCountMatchesHistory
  BY DEF ResidentInv
<1> QED
  BY <1>1, ResidentInvariant, PTL

(***************************************************************************)
(* Steps of the resident's world as seen in the attempt log.               *)
(***************************************************************************)
requestedOf == [f \in Feed |-> feed[f].manualRequested]

\* The steps other than the four that touch the log or the requests.
Unlogged == UNCHANGED <<attempts, requestedOf>>

\* Every step is a start, an end, a sweep, a request, or leaves the log alone.
LEMMA StepKinds ==
  ASSUME OnceRuns = {}, ResidentInv, [Next]_vars
  PROVE  \/ Unlogged
         \/ markInterruptedAttemptsFailed
         \/ \E d \in due : StartDue(d)
         \/ \E s \in {"success", "failed"} : Complete(Resident, s)
         \/ \E f \in Feed : RequestFetch(f)
<1> USE DEF ResidentInv
<1>1. ASSUME UNCHANGED <<attempts, feed>> PROVE Unlogged
  BY <1>1 DEF Unlogged, requestedOf
<1>2. CASE Boot(Resident)
  <2>1. ASSUME NEW f \in Feed PROVE feed'[f].manualRequested = feed[f].manualRequested
    <3>1. CASE f \in Declared \ registered
      <4>1. feed'[f] = NewRow(f)
        BY <1>2, <3>1 DEF Boot, insertMissingFeeds
      <4>2. NewRow(f).manualRequested = FALSE /\ feed[f].manualRequested \in BOOLEAN
        BY DEF NewRow, TypeInv, TypeOK, FeedRow
      <4>3. ~feed[f].manualRequested
        BY <3>1 DEF RowsExist
      <4> QED
        BY <4>1, <4>2, <4>3
    <3>2. CASE f \notin Declared \ registered
      BY <1>2, <3>2 DEF Boot, insertMissingFeeds
    <3> QED
      BY <3>1, <3>2
  <2> QED
    BY <1>2, <2>1 DEF Unlogged, requestedOf, Boot
<1>3. ASSUME NEW f \in Feed, NEW interval \in Intervals \cup {KeepInterval},
             NEW pause \in {"pause", "resume", KeepPause}, PatchFeed(f, interval, pause)
      PROVE  Unlogged
  <2>1. PatchedRow(feed[f], interval, pause).manualRequested = feed[f].manualRequested
    BY DEF PatchedRow, TypeInv, TypeOK, FeedRow
  <2>2. \A g \in Feed : feed'[g].manualRequested = feed[g].manualRequested
    BY <1>3, <2>1 DEF PatchFeed, TypeInv, TypeOK
  <2> QED
    BY <1>3, <2>2 DEF Unlogged, requestedOf, PatchFeed
<1> QED
  BY <1>1, <1>2, <1>3
  DEF Next, ResidentStep, AdminRequest, runDueFeeds, EndOfList, SkipUndeclared,
      PassOver, Exit, Tick, Die, Stop, vars, tables

\* What a start, an end and a request do to the log of the feed they concern.
LEMMA StartLogged ==
  ASSUME ResidentInv, NEW d \in due, StartDue(d)
  PROVE  /\ d.feed \in Feed /\ attempts[d.feed] \in Seq(Status) /\ ~Busy(d.feed)
         /\ attempts' = [attempts EXCEPT ![d.feed] = Append(@, "running")]
         /\ requestedOf' = [requestedOf EXCEPT ![d.feed] = FALSE]
<1>1. d.feed \in Feed /\ attempts[d.feed] \in Seq(Status)
  BY DEF ResidentInv, TypeInv, TypeOK
<1>2. ~Busy(d.feed)
  BY DEF StartDue, MayStart
<1>3. attempts' = [attempts EXCEPT ![d.feed] = Append(@, "running")]
  BY DEF StartDue, Begin
<1>4. feed' = [feed EXCEPT ![d.feed].manualRequested = FALSE]
  BY DEF StartDue, Begin
<1>5. \A g \in Feed : feed'[g].manualRequested =
        IF g = d.feed THEN FALSE ELSE feed[g].manualRequested
  BY <1>1, <1>4 DEF ResidentInv, TypeInv, TypeOK, FeedRow
<1>6. requestedOf' = [requestedOf EXCEPT ![d.feed] = FALSE]
  BY <1>5 DEF requestedOf
<1> QED
  BY <1>1, <1>2, <1>3, <1>6

LEMMA CompleteLogged ==
  ASSUME ResidentInv, NEW s \in {"success", "failed"}, Complete(Resident, s),
         NEW f, f = job[Resident].feed
  PROVE  /\ f \in Feed /\ attempts[f] \in Seq(Status) /\ Len(attempts[f]) \in DOMAIN attempts[f]
         /\ attempts[f][Len(attempts[f])] = "running"
         /\ attempts' = [attempts EXCEPT ![f][Len(attempts[f])] = s]
         /\ requestedOf' = requestedOf
<1>1. /\ f \in Feed /\ attempts[f] \in Seq(Status)
      /\ job[Resident].attempt \in DOMAIN attempts[f] /\ job[Resident].attempt = Len(attempts[f])
      /\ attempts[f][job[Resident].attempt] = "running"
  BY DEF Complete, ResidentInv, TypeInv, TypeOK, JobMatchesTables
<1>2. attempts' = [attempts EXCEPT ![f][Len(attempts[f])] = s]
  BY <1>1 DEF Complete
<1>3. \A g \in Feed : feed'[g].manualRequested = feed[g].manualRequested
  BY <1>1 DEF Complete, ResidentInv, TypeInv, TypeOK, FeedRow
<1> QED
  BY <1>1, <1>2, <1>3 DEF requestedOf

LEMMA RequestLogged ==
  ASSUME ResidentInv, NEW f \in Feed, RequestFetch(f)
  PROVE  /\ attempts[f] \in Seq(Status) /\ ~Busy(f) /\ ~requestedOf[f]
         /\ attempts' = attempts
         /\ requestedOf' = [requestedOf EXCEPT ![f] = TRUE]
<1>1. \A g \in Feed : feed'[g].manualRequested =
        IF g = f THEN TRUE ELSE feed[g].manualRequested
  BY DEF RequestFetch, ResidentInv, TypeInv, TypeOK, FeedRow
<1>2. attempts' = attempts /\ ~Busy(f) /\ attempts[f] \in Seq(Status)
  BY DEF RequestFetch, ResidentInv, TypeInv, TypeOK
<1>3. ~requestedOf[f]
  BY DEF RequestFetch, requestedOf
<1>4. requestedOf' = [requestedOf EXCEPT ![f] = TRUE]
  BY <1>1 DEF requestedOf
<1> QED
  BY <1>2, <1>3, <1>4

\* An attempt that has ended keeps its outcome for ever.
THEOREM OutcomesAreFinal == ASSUME OnceRuns = {} PROVE Spec => EndedAttemptsKeepOutcome
<1>1. ASSUME ResidentInv, [Next]_vars PROVE [OutcomesKept]_attempts
  <2>1. CASE Unlogged
    BY <2>1 DEF Unlogged
  <2>2. CASE markInterruptedAttemptsFailed
    <3>1. ASSUME NEW f \in Feed, NEW i \in DOMAIN attempts[f], attempts[f][i] # "running"
          PROVE  i \in DOMAIN attempts'[f] /\ attempts'[f][i] = attempts[f][i]
      BY <1>1, <2>2, <3>1, SweptFeed DEF ResidentInv, InterruptedRow
    <3> QED
      BY <3>1 DEF OutcomesKept
  <2>3. ASSUME NEW d \in due, StartDue(d) PROVE OutcomesKept
    <3>1. attempts \in [Feed -> Seq(Status)]
      BY <1>1 DEF ResidentInv, TypeInv, TypeOK
    <3>2. /\ attempts[d.feed] \in Seq(Status)
          /\ attempts'[d.feed] = Append(attempts[d.feed], "running")
          /\ \A g \in Feed \ {d.feed} : attempts'[g] = attempts[g]
      BY <1>1, <2>3, <3>1, StartLogged
    <3>3. \A i \in DOMAIN attempts[d.feed] : /\ i \in DOMAIN attempts'[d.feed]
                                           /\ attempts'[d.feed][i] = attempts[d.feed][i]
      BY <3>2
    <3> QED
      BY <3>2, <3>3 DEF OutcomesKept
  <2>4. ASSUME NEW s \in {"success", "failed"}, Complete(Resident, s) PROVE OutcomesKept
    <3>1. attempts \in [Feed -> Seq(Status)]
      BY <1>1 DEF ResidentInv, TypeInv, TypeOK
    <3> QED
      BY <1>1, <2>4, <3>1, CompleteLogged DEF OutcomesKept
  <2>5. ASSUME NEW f \in Feed, RequestFetch(f) PROVE UNCHANGED attempts
    BY <2>5 DEF RequestFetch
  <2> QED
    BY <1>1, <2>1, <2>2, <2>3, <2>4, <2>5, StepKinds
<1>2. ResidentInv /\ [Next]_vars => [OutcomesKept]_attempts
  BY <1>1
<1> QED
  BY <1>2, ResidentInvariant, PTL DEF Spec, EndedAttemptsKeepOutcome

(***************************************************************************)
(* The collector implements AttemptLog.                                    *)
(***************************************************************************)

\* The sweep ends at most the last row, as the log wants it.
LEMMA SweptIsAbandoned ==
  ASSUME NEW s \in Seq(Status), \A i \in DOMAIN s : s[i] = "running" => i = Len(s)
  PROVE  [i \in DOMAIN s |-> InterruptedRow(s[i])] = Log!Abandoned(s)
<1> DEFINE t == [i \in DOMAIN s |-> InterruptedRow(s[i])]
<1>1. DOMAIN s = 1..Len(s) /\ Len(s) \in Nat /\ (s # <<>> => Len(s) \in DOMAIN s)
  OBVIOUS
<1>2. CASE s # <<>> /\ s[Len(s)] = "running"
  <2>1. \A i \in DOMAIN s : t[i] = IF i = Len(s) THEN "interrupted" ELSE s[i]
    BY <1>1, <1>2 DEF InterruptedRow
  <2>2. [s EXCEPT ![Len(s)] = "interrupted"] =
          [i \in DOMAIN s |-> IF i = Len(s) THEN "interrupted" ELSE s[i]]
    OBVIOUS
  <2>3. t = [s EXCEPT ![Len(s)] = "interrupted"]
    BY <2>1, <2>2
  <2> QED
    BY <1>2, <2>3 DEF Log!Abandoned
<1>3. CASE ~(s # <<>> /\ s[Len(s)] = "running")
  <2>1. \A i \in DOMAIN s : s[i] # "running"
    BY <1>1, <1>3
  <2>2. \A i \in DOMAIN s : t[i] = s[i]
    BY <2>1 DEF InterruptedRow
  <2>3. t = s
    BY <1>1, <2>2
  <2> QED
    BY <1>3, <2>3 DEF Log!Abandoned
<1> QED
  BY <1>2, <1>3

LEMMA NotBusyNotRunning ==
  ASSUME NEW f \in Feed, attempts[f] \in Seq(Status), ~Busy(f)
  PROVE  ~Log!Running(f)
<1>1. attempts[f] # <<>> => Len(attempts[f]) \in DOMAIN attempts[f]
  OBVIOUS
<1> QED
  BY <1>1 DEF Busy, Log!Running

LEMMA InitLogged == Init => Log!Init
BY DEF Init, Log!Init, NewRow

\* A step of the collector's world is a step of the log, or none.
LEMMA NextLogged ==
  ASSUME OnceRuns = {}, ResidentInv, [Next]_vars
  PROVE  [Log!Next]_Log!vars
<1>1. CASE Unlogged
  BY <1>1 DEF Unlogged, requestedOf, Log!vars
<1>2. CASE markInterruptedAttemptsFailed
  <2>1. ASSUME NEW f \in Feed
        PROVE [i \in DOMAIN attempts[f] |-> InterruptedRow(attempts[f][i])] = Log!Abandoned(attempts[f])
    BY SweptIsAbandoned DEF ResidentInv, TypeInv, TypeOK, RunningIsLast
  <2>2. attempts' = [f \in Feed |-> Log!Abandoned(attempts[f])]
    BY <1>2, <2>1 DEF markInterruptedAttemptsFailed
  <2>3. feed' = feed
    BY <1>2 DEF markInterruptedAttemptsFailed
  <2> QED
    BY <2>2, <2>3 DEF Log!Sweep, Log!Next
<1>3. ASSUME NEW d \in due, StartDue(d) PROVE Log!Next
  <2>1. d.feed \in Feed /\ ~Log!Running(d.feed)
    BY <1>3, StartLogged, NotBusyNotRunning
  <2>2. Log!Begin(d.feed)
    BY <1>3, <2>1, StartLogged DEF requestedOf, Log!Begin
  <2> QED
    BY <2>1, <2>2 DEF Log!Next
<1>4. ASSUME NEW s \in {"success", "failed"}, Complete(Resident, s) PROVE Log!Next
  <2> DEFINE f == job[Resident].feed
  <2>1. /\ f \in Feed /\ attempts[f] \in Seq(Status) /\ Len(attempts[f]) \in DOMAIN attempts[f]
        /\ attempts[f][Len(attempts[f])] = "running"
        /\ attempts' = [attempts EXCEPT ![f][Len(attempts[f])] = s]
        /\ requestedOf' = requestedOf
    BY <1>4, CompleteLogged
  <2>2. attempts[f] # <<>>
    BY <2>1
  <2> HIDE DEF f
  <2>3. Log!End(f, s)
    BY <2>1, <2>2 DEF requestedOf, Log!End, Log!Running
  <2> QED
    BY <2>1, <2>3 DEF Log!Next
<1>5. ASSUME NEW f \in Feed, RequestFetch(f) PROVE Log!Next
  <2>1. ~Log!Running(f)
    BY <1>5, RequestLogged, NotBusyNotRunning
  <2>2. Log!Request(f)
    BY <1>5, <2>1, RequestLogged DEF requestedOf, Log!Request
  <2> QED
    BY <2>2 DEF Log!Next
<1> QED
  BY <1>1, <1>2, <1>3, <1>4, <1>5, StepKinds

\* Attempts and manual requests follow the protocol of AttemptLog, whatever the
\* number of feeds and the order of crashes, requests and completions.
THEOREM ImplementsAttemptLog == ASSUME OnceRuns = {} PROVE Spec => FollowsAttemptLog
<1>1. ResidentInv /\ [Next]_vars => [Log!Next]_Log!vars
  BY NextLogged
<1> QED
  BY <1>1, InitLogged, ResidentInvariant, PTL DEF Spec, FollowsAttemptLog, Log!Spec
=============================================================================
