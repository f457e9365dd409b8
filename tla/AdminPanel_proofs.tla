------------------------- MODULE AdminPanel_proofs -------------------------
(***************************************************************************)
(* Proofs about the admin panel and the collector's sign of life, for      *)
(* every number of requests on their way, page size, set of intervals and  *)
(* time limits.                                                            *)
(***************************************************************************)
EXTENDS AdminPanel, FiniteSetTheorems, SequenceTheorems, WellFoundedInduction, TLAPS

(***************************************************************************)
(* The sign of life.                                                       *)
(***************************************************************************)
HeartType ==
  /\ now \in Nat /\ chain \in Nat /\ fired \in Nat
  /\ failedAt \in Int /\ endedAt \in Int
  /\ DOMAIN heartbeat = DOMAIN NoRow
  /\ heartbeat = NoRow \/ heartbeat.lastSeenAt \in 0..now

\* In the loop a record succeeds or fails within every interval of the timer.
SeenSince(t) == heartbeat.lastSeenAt >= t /\ heartbeat.stopped = FALSE

LoopInv ==
  /\ process = "starting" => fired = now
  /\ process = "looping" =>
       /\ fired \in {now - 1, now}
       /\ SeenSince(now - 1) \/ failedAt >= now - 1
       /\ chain = 0 => SeenSince(fired) \/ failedAt >= fired

\* The row is written by a process that is there, and is marked last.
EndInv ==
  /\ process \in {"down", "marked"} => chain = 0
  /\ process = "down" => heartbeat.lastSeenAt <= endedAt
  /\ ending = "marked" =>
       /\ process \in {"down", "marked"}
       /\ heartbeat = NoRow \/ heartbeat.stopped = TRUE
  /\ ending \in {"seen", "died"} => heartbeat.stopped = FALSE
  /\ ending = "died" => process \in {"down", "marked"}

HeartInv == HeartType /\ LoopInv /\ EndInv

LEMMA HeartInvInit == HeartInit => HeartInv
BY HeartbeatAssumption DEF HeartInit, HeartInv, HeartType, LoopInv, EndInv, NoRow, Never

LEMMA HeartInvNext == HeartInv /\ HeartNext => HeartInv'
<1> SUFFICES ASSUME HeartInv, HeartNext PROVE HeartInv'
  OBVIOUS
<1> USE HeartbeatAssumption DEF HeartInv, HeartType, LoopInv, EndInv, SeenSince, NoRow, Never, Died
<1>1. CASE Start
  BY <1>1 DEF Start
<1>2. CASE Fire
  BY <1>2 DEF Fire
<1>3. CASE Record
  <2>1. CASE /\ heartbeat' = RecordedRow /\ UNCHANGED failedAt
             /\ ending' = IF ending = "marked" THEN ending ELSE "seen"
    <3>1. heartbeat'.lastSeenAt = now /\ heartbeat'.stopped = FALSE /\ DOMAIN heartbeat' = DOMAIN NoRow
      BY <2>1 DEF RecordedRow
    <3>2. /\ chain > 0 /\ chain' = chain - 1 /\ UNCHANGED <<now, fired, endedAt>>
          /\ process' = IF process = "starting" THEN "looping" ELSE process
          /\ ending' = IF ending = "marked" THEN ending ELSE "seen"
      BY <1>3, <2>1 DEF Record, RecordedRow
    <3> HIDE DEF NoRow
    <3>3. HeartType'
      BY <2>1, <3>1, <3>2
    <3>4. LoopInv' /\ EndInv'
      BY <2>1, <3>1, <3>2
    <3> QED
      BY <3>3, <3>4
  <2>2. CASE failedAt' = now /\ UNCHANGED <<heartbeat, ending>>
    BY <1>3, <2>2 DEF Record
  <2> QED
    BY <1>3, <2>1, <2>2 DEF Record
<1>4. CASE LeaveLoop
  BY <1>4 DEF LeaveLoop
<1>5. CASE MarkStopped
  <2>1. /\ process = "stopping" /\ chain = 0 /\ process' = "marked"
        /\ UNCHANGED <<now, chain, fired, endedAt>>
    BY <1>5 DEF MarkStopped, MayMark
  <2>2. CASE ending' = Died /\ failedAt' = now /\ UNCHANGED heartbeat
    BY <2>1, <2>2
  <2>3. CASE /\ heartbeat' = [heartbeat EXCEPT !.stopped = heartbeat # NoRow]
             /\ ending' = "marked" /\ UNCHANGED failedAt
    <3>1. CASE heartbeat = NoRow
      BY <2>1, <2>3, <3>1
    <3>2. CASE heartbeat # NoRow
      <4>1. heartbeat' = [heartbeat EXCEPT !.stopped = TRUE]
        BY <2>3, <3>2
      <4> QED
        BY <2>1, <2>3, <3>2, <4>1
    <3> QED
      BY <3>1, <3>2
  <2> QED
    BY <1>5, <2>2, <2>3 DEF MarkStopped
<1>6. CASE Exit
  BY <1>6 DEF Exit
<1>7. CASE Kill
  BY <1>7 DEF Kill
<1>8. CASE Tick
  BY <1>8 DEF Tick
<1> QED
  BY <1>1, <1>2, <1>3, <1>4, <1>5, <1>6, <1>7, <1>8 DEF HeartNext

LEMMA HeartInvStutters == HeartInv /\ UNCHANGED heartVars => HeartInv'
BY DEF HeartInv, HeartType, LoopInv, EndInv, SeenSince, heartVars

LEMMA StatusFollows == HeartInv => StatusIsTrue
<1> SUFFICES ASSUME HeartInv PROVE StatusIsTrue
  OBVIOUS
<1> USE HeartbeatAssumption
        DEF HeartInv, HeartType, LoopInv, EndInv, SeenSince, NoRow, Never, Status, describeCollectorStatus
<1>1. LoopIsAlive
  BY DEF LoopIsAlive
<1>2. EndIsShown
  BY DEF EndIsShown
<1> QED
  BY <1>1, <1>2 DEF StatusIsTrue

(***************************************************************************)
(* The feed, its attempts and the requests on their way.                   *)
(***************************************************************************)
FeedInv ==
  /\ attempts \in Seq({"running", "success", "failed"})
  /\ feed \in [interval: Interval, paused: BOOLEAN, requested: BOOLEAN, failures: Nat]
  /\ feed.failures <= Len(attempts)
  /\ Latest = "running" => feed.failures < Len(attempts)
  /\ \A i \in DOMAIN attempts : attempts[i] = "running" => i = Len(attempts)

IsRequest(r) ==
  /\ DOMAIN r = DOMAIN NoRequest
  /\ DOMAIN r.overview = DOMAIN NoOverview
  /\ DOMAIN r.page = DOMAIN NoPage
  /\ r.version \in Nat
  /\ r.kind = "none" => r = NoRequest
  /\ r.act = TRUE => r.kind = "overview"
  /\ r.kind = "interval" => r.minutes \in Interval

RequestInv == DOMAIN requests = Slot /\ \A s \in Slot : IsRequest(requests[s])

(***************************************************************************)
(* The control waits for the one action sent, or for the overview asked    *)
(* for after it.                                                           *)
(***************************************************************************)
Waits(s) == requests[s].kind \in Actions \/ requests[s].act = TRUE

ControlInv ==
  /\ DOMAIN control = {"draft", "pending", "failed"}
  /\ control.draft \in Interval \cup {NoId}
  /\ control.pending <=> \E s \in Slot : Waits(s)
  /\ \A s, t \in Slot : Waits(s) /\ Waits(t) => s = t

(***************************************************************************)
(* The overview: what was read is from before, and it is current where     *)
(* nothing has changed since it was asked for.                             *)
(***************************************************************************)
IsPast(o) ==
  /\ o.latest \in Nat /\ o.latest <= Len(attempts)
  /\ o.latest = Len(attempts) /\ Latest = "running" => o.status = "running"

KnowsAttempts(o) == o.latest = Len(attempts) /\ o.status = Latest

IsNow(s) == requests[s].kind = "overview" /\ requests[s].version = panel.version

PastInv ==
  /\ DOMAIN panel = {"overview", "version", "error"} /\ panel.version \in Nat
  /\ IsPast(panel.overview)
  /\ \A s \in Slot :
       /\ IsPast(requests[s].overview)
       /\ requests[s].kind = "overview" =>
            /\ requests[s].version <= panel.version
            /\ requests[s].stage # "sent" => requests[s].overview.row.interval \in Interval

OverviewInv ==
  ~changed =>
    /\ \A s \in Slot : IsNow(s) =>
         /\ requests[s].stage # "sent" => requests[s].overview.row = feed
         /\ requests[s].stage = "answered" => KnowsAttempts(requests[s].overview)
    /\ \/ panel.error
       \/ panel.overview.row = feed /\ KnowsAttempts(panel.overview)
       \/ \E s \in Slot : IsNow(s)

(***************************************************************************)
(* The history: the page asked for last, of the attempts the overview      *)
(* shown knows of where it knows of all.                                   *)
(***************************************************************************)

\* AttemptPage of given attempts.
PageOf(rows, filter, before) ==
  LET matching == {i \in DOMAIN rows :
        (before = NoId \/ i < before) /\ (filter = "all" \/ rows[i] = filter)}
      page == {i \in matching : Cardinality({j \in matching : j > i}) < PageSize}
  IN [filter |-> filter, before |-> before, rows |-> [i \in page |-> rows[i]],
      nextBefore |-> IF Cardinality(matching) > PageSize
                     THEN CHOOSE i \in page : \A j \in page : i <= j ELSE NoId]

IsAsked(s) == requests[s].kind = "history" /\ requests[s].version = list.version

AskedInv ==
  /\ DOMAIN list =
       {"selected", "filter", "before", "page", "loading", "error", "version"}
  /\ list.version \in Nat
  /\ \A s \in Slot : requests[s].kind = "history" =>
       requests[s].version <= list.version /\ list.selected
  /\ \A s, t \in Slot : IsAsked(s) /\ IsAsked(t) => s = t
  /\ list.loading <=> \E s \in Slot : IsAsked(s)

HistoryInv ==
  /\ \A s \in Slot : IsAsked(s) =>
       /\ requests[s].page.filter = list.filter /\ requests[s].page.before = list.before
       /\ requests[s].stage = "answered" /\ KnowsAttempts(panel.overview) =>
            requests[s].page = PageOf(attempts, list.filter, list.before)
  /\ list.selected /\ ~list.error /\ ~list.loading =>
       /\ list.page.filter = list.filter /\ list.page.before = list.before
       /\ KnowsAttempts(panel.overview) =>
            list.page = PageOf(attempts, list.filter, list.before)

PanelInv ==
  FeedInv /\ RequestInv /\ ControlInv /\ PastInv /\ OverviewInv /\ AskedInv /\ HistoryInv

(***************************************************************************)
(* What the steps do to the requests.                                      *)
(***************************************************************************)
LEMMA PageOfAttempts ==
  ASSUME NEW filter, NEW before
  PROVE  AttemptPage(filter, before) = PageOf(attempts, filter, before)
BY DEF AttemptPage, PageOf

LEMMA SentFacts ==
  ASSUME NEW q, DOMAIN q = Slot, NEW r, NEW p \in Sent(q, r)
  PROVE  \E n \in Slot : /\ q[n].kind = "none" /\ DOMAIN p = Slot
                         /\ p[n] = r
                         /\ \A t \in Slot : t # n => p[t] = q[t]
BY DEF Sent

LEMMA DoneFacts ==
  ASSUME RequestInv, NEW s \in Slot
  PROVE  /\ DOMAIN Done(s) = Slot /\ Done(s)[s] = NoRequest
         /\ \A t \in Slot : t # s => Done(s)[t] = requests[t]
BY DEF Done, RequestInv

(***************************************************************************)
(* The tables.                                                             *)
(***************************************************************************)
LEMMA FeedStays == FeedInv /\ UNCHANGED tables => FeedInv'
BY DEF FeedInv, tables, Latest

\* Collect appends a running attempt, or ends the last one.
LEMMA CollectFacts ==
  ASSUME FeedInv, Collect
  PROVE  /\ FeedInv'
         /\ \/ Len(attempts') = Len(attempts) + 1
            \/ Len(attempts') = Len(attempts) /\ Latest = "running" /\ Latest' # "running"
<1> USE DEF FeedInv
<1> DEFINE Outcome == {"running", "success", "failed"}
<1>1. CASE /\ Latest # "running" /\ attempts' = Append(attempts, "running")
           /\ feed' = [feed EXCEPT !.requested = FALSE]
  <2>1. /\ attempts' \in Seq(Outcome) /\ Len(attempts') = Len(attempts) + 1
        /\ \A i \in 1..Len(attempts) : attempts'[i] = attempts[i]
        /\ attempts'[Len(attempts) + 1] = "running"
    BY <1>1, AppendProperties
  <2>2. \A i \in 1..Len(attempts) : attempts[i] # "running"
    BY <1>1 DEF Latest, Last
  <2>3. \A i \in DOMAIN attempts' : attempts'[i] = "running" => i = Len(attempts')
    BY <2>1, <2>2
  <2>4. /\ feed' \in [interval: Interval, paused: BOOLEAN, requested: BOOLEAN, failures: Nat]
        /\ feed'.failures = feed.failures
    BY <1>1
  <2>5. feed'.failures < Len(attempts')
    BY <2>1, <2>4
  <2> QED
    BY <2>1, <2>3, <2>4, <2>5
<1>2. CASE /\ Latest = "running"
           /\ \E status \in {"success", "failed"} :
                /\ attempts' = Append(Front(attempts), status)
                /\ feed' = [feed EXCEPT !.failures = IF status = "failed" THEN @ + 1 ELSE 0]
  <2>1. PICK status \in {"success", "failed"} :
          /\ attempts' = Append(Front(attempts), status)
          /\ feed' = [feed EXCEPT !.failures = IF status = "failed" THEN @ + 1 ELSE 0]
    BY <1>2
  <2>2. attempts # <<>> /\ Len(attempts) \in Nat \ {0}
    BY <1>2 DEF Latest
  <2>3. /\ Front(attempts) \in Seq(Outcome) /\ Len(Front(attempts)) = Len(attempts) - 1
        /\ \A i \in 1..Len(attempts) - 1 : Front(attempts)[i] = attempts[i]
    <3> DEFINE n == Len(attempts) - 1
    <3>1. n \in Nat /\ \A i \in 1..n : attempts[i] \in Outcome
      BY <2>2
    <3>2. Front(attempts) = SubSeq(attempts, 1, n)
      BY DEF Front
    <3> HIDE DEF n
    <3>3. /\ SubSeq(attempts, 1, n) \in Seq(Outcome)
          /\ Len(SubSeq(attempts, 1, n)) = IF 1 <= n THEN n - 1 + 1 ELSE 0
          /\ \A i \in 1..n - 1 + 1 : SubSeq(attempts, 1, n)[i] = attempts[1 + i - 1]
      BY <3>1, SubSeqProperties
    <3>4. /\ SubSeq(attempts, 1, n) \in Seq(Outcome) /\ Len(SubSeq(attempts, 1, n)) = n
          /\ \A i \in 1..n : SubSeq(attempts, 1, n)[i] = attempts[i]
      BY <3>1, <3>3
    <3> QED
      BY <3>2, <3>4 DEF n
  <2>4. /\ attempts' \in Seq(Outcome) /\ Len(attempts') = Len(attempts)
        /\ \A i \in 1..Len(attempts) - 1 : attempts'[i] = attempts[i]
        /\ attempts'[Len(attempts)] = status
    <3> HIDE DEF Front
    <3> QED
      BY <2>1, <2>2, <2>3, AppendProperties
  <2>5. Latest' = status
    BY <2>2, <2>4 DEF Latest, Last
  <2>6. \A i \in DOMAIN attempts' : attempts'[i] # "running"
    BY <2>2, <2>4
  <2>7. /\ feed' \in [interval: Interval, paused: BOOLEAN, requested: BOOLEAN, failures: Nat]
        /\ feed'.failures <= Len(attempts')
    BY <1>2, <2>1, <2>4
  <2> QED
    BY <1>2, <2>4, <2>5, <2>6, <2>7
<1> QED
  BY <1>1, <1>2 DEF Collect

\* An action that is served keeps the feed well-formed, and changes it only visibly.
LEMMA ServeActionFacts ==
  ASSUME FeedInv, RequestInv, NEW s \in Slot, ServeAction(s)
  PROVE  /\ FeedInv' /\ UNCHANGED attempts
         /\ feed' = feed \/ changed'
         /\ changed => changed'
<1> DEFINE kind == requests[s].kind
           refused == kind = "fetch" /\ (feed.requested \/ Latest = "running")
<1>1. UNCHANGED attempts /\ changed' = (changed \/ ~refused)
  BY DEF ServeAction
<1>2. kind \in {"interval", "pause", "resume", "fetch"}
  BY DEF ServeAction, Serve
<1>3. /\ feed' \in [interval: Interval, paused: BOOLEAN, requested: BOOLEAN, failures: Nat]
      /\ feed'.failures = feed.failures
  <2>1. CASE kind = "interval"
    <3>1. feed' = [feed EXCEPT !.interval = requests[s].minutes]
      BY <2>1 DEF ServeAction
    <3>2. requests[s].minutes \in Interval
      BY <2>1 DEF RequestInv, IsRequest
    <3> QED
      BY <3>1, <3>2 DEF FeedInv
  <2>2. CASE kind \in {"pause", "resume"}
    <3>1. \E b \in BOOLEAN : feed' = [feed EXCEPT !.paused = b]
      BY <2>2 DEF ServeAction
    <3> QED
      BY <3>1 DEF FeedInv
  <2>3. CASE kind = "fetch"
    <3>1. \E b \in BOOLEAN : feed' = [feed EXCEPT !.requested = b]
      BY <2>3 DEF ServeAction
    <3> QED
      BY <3>1 DEF FeedInv
  <2> QED
    BY <1>2, <2>1, <2>2, <2>3
<1>4. FeedInv'
  BY <1>1, <1>3 DEF FeedInv, Latest
<1>5. feed' = feed \/ changed'
  <2>1. SUFFICES ASSUME refused PROVE feed' = feed
    BY <1>1
  <2>2. feed' = [feed EXCEPT !.requested = feed.requested \/ ~refused]
    BY <2>1 DEF ServeAction
  <2>3. feed.requested \in BOOLEAN
    BY DEF FeedInv
  <2>4. (feed.requested \/ ~refused) = feed.requested
    BY <2>1, <2>3
  <2>5. feed' = [feed EXCEPT !.requested = feed.requested]
    BY <2>2, <2>4
  <2> QED
    BY <2>5 DEF FeedInv
<1> QED
  BY <1>1, <1>4, <1>5

(***************************************************************************)
(* What a step leaves alone stays right.                                   *)
(***************************************************************************)
LEMMA ControlStays ==
  ASSUME ControlInv, DOMAIN control' = DOMAIN control,
         control'.pending = control.pending, control'.draft \in Interval \cup {NoId},
         \A t \in Slot : Waits(t)' <=> Waits(t)
  PROVE  ControlInv'
BY DEF ControlInv

LEMMA NothingIsPast == FeedInv => IsPast(NoOverview)
<1> SUFFICES ASSUME FeedInv PROVE IsPast(NoOverview)
  OBVIOUS
<1>1. NoOverview.latest = 0 /\ Len(attempts) \in Nat
  BY DEF NoOverview, NoId, FeedInv
<1>2. Len(attempts) = 0 => Latest = "none"
  BY DEF Latest, FeedInv
<1> QED
  BY <1>1, <1>2 DEF IsPast

LEMMA OverviewStays ==
  ASSUME FeedInv, PastInv, OverviewInv, UNCHANGED <<panel, tables, changed>>,
         \A t \in Slot :
           \/ requests'[t] = requests[t]
           \/ /\ requests[t].kind # "overview" /\ requests'[t].kind # "overview"
              /\ requests'[t].overview \in {NoOverview, requests[t].overview}
  PROVE  PastInv' /\ OverviewInv'
<1>1. IsPast(NoOverview)
  BY NothingIsPast
<1> QED
  BY <1>1 DEF PastInv, OverviewInv, IsNow, IsPast, KnowsAttempts, Latest, tables

LEMMA HistoryStays ==
  ASSUME AskedInv, HistoryInv, UNCHANGED <<list, attempts>>, panel'.overview = panel.overview,
         \A t \in Slot :
           \/ requests'[t] = requests[t]
           \/ requests[t].kind # "history" /\ requests'[t].kind # "history"
  PROVE  AskedInv' /\ HistoryInv'
<1>1. \A t \in Slot : IsAsked(t)' <=> IsAsked(t)
  BY DEF IsAsked
<1>2. AskedInv'
  BY <1>1 DEF AskedInv
<1>3. KnowsAttempts(panel.overview)' <=> KnowsAttempts(panel.overview)
  BY DEF KnowsAttempts, Latest
<1>4. HistoryInv'
  BY <1>1, <1>3 DEF HistoryInv, IsAsked
<1> QED
  BY <1>2, <1>4

LEMMA PanelInvStutters ==
  PanelInv /\ UNCHANGED <<tables, screen, changed>> => PanelInv'
<1> SUFFICES ASSUME PanelInv, UNCHANGED <<tables, screen, changed>> PROVE PanelInv'
  OBVIOUS
<1> USE DEF PanelInv, screen
<1>1. FeedInv'
  BY FeedStays
<1>2. RequestInv'
  BY DEF RequestInv, IsRequest
<1>3. ControlInv'
  BY DEF ControlInv, Waits
<1>4. PastInv' /\ OverviewInv'
  BY OverviewStays
<1>5. AskedInv' /\ HistoryInv'
  BY HistoryStays DEF tables
<1> QED
  BY <1>1, <1>2, <1>3, <1>4, <1>5

LEMMA CollectInv == PanelInv /\ Collect => PanelInv'
<1> SUFFICES ASSUME PanelInv, Collect PROVE PanelInv'
  OBVIOUS
<1> USE DEF PanelInv
<1>1. /\ FeedInv'
      /\ \/ Len(attempts') = Len(attempts) + 1
         \/ Len(attempts') = Len(attempts) /\ Latest = "running" /\ Latest' # "running"
  BY CollectFacts
<1>2. UNCHANGED <<panel, control, list, requests>> /\ changed' = TRUE /\ Len(attempts) \in Nat
  BY DEF Collect, screen, FeedInv
<1>3. RequestInv' /\ ControlInv'
  BY <1>2 DEF RequestInv, IsRequest, ControlInv, Waits
<1>4. \A o : IsPast(o) => IsPast(o)' /\ ~KnowsAttempts(o)'
  BY <1>1, <1>2 DEF IsPast, KnowsAttempts
<1>5. PastInv' /\ OverviewInv'
  BY <1>2, <1>4 DEF PastInv, OverviewInv
<1>6. AskedInv'
  BY <1>2 DEF AskedInv, IsAsked
<1>7. HistoryInv'
  BY <1>2, <1>4 DEF HistoryInv, IsAsked, PastInv
<1> QED
  BY <1>1, <1>3, <1>5, <1>6, <1>7

(***************************************************************************)
(* The panel asks for the overview.                                        *)
(***************************************************************************)

\* The requests as refresh finds them: an action's may be over.
Before(q) ==
  /\ DOMAIN q = Slot
  /\ \A t \in Slot :
       q[t] = requests[t] \/ (requests[t].kind \in Actions /\ q[t] = NoRequest)

\* The requests as it leaves them.
Asked(q, act) ==
  \E n \in Slot :
    /\ q[n] = NoRequest
    /\ requests'[n] = [NoRequest EXCEPT !.kind = "overview",
                         !.version = panel.version + 1, !.act = act]
    /\ \A t \in Slot : t # n => requests'[t] = q[t]

LEMMA RefreshFacts ==
  ASSUME PanelInv, NEW q, Before(q), NEW act, refresh(q, act), UNCHANGED <<tables, list>>
  PROVE  /\ FeedInv' /\ RequestInv' /\ PastInv' /\ OverviewInv' /\ AskedInv' /\ HistoryInv'
         /\ Asked(q, act)
<1> USE DEF Before
<1> DEFINE r == [NoRequest EXCEPT !.kind = "overview", !.version = panel.version + 1, !.act = act]
<1>1. /\ panel' = [panel EXCEPT !.version = @ + 1] /\ changed' = FALSE
      /\ requests' \in Sent(q, r)
  BY DEF refresh
<1>2. /\ r.kind = "overview" /\ r.version = panel.version + 1 /\ r.act = act /\ r.stage = "sent"
      /\ r.overview = NoOverview /\ r.page = NoPage /\ DOMAIN r = DOMAIN NoRequest
  BY DEF NoRequest
<1> HIDE DEF r
<1>3. PICK n \in Slot : /\ q[n].kind = "none" /\ DOMAIN requests' = Slot
                        /\ requests'[n] = r
                        /\ \A t \in Slot : t # n => requests'[t] = q[t]
  BY <1>1, SentFacts
<1>4. \A t \in Slot : IsRequest(requests[t])
  BY DEF PanelInv, RequestInv
<1>5. q[n] = NoRequest /\ requests[n].kind \notin {"overview", "history"}
  BY <1>3, <1>4 DEF IsRequest, Actions
<1>6. /\ panel'.version = panel.version + 1 /\ panel.version \in Nat
      /\ panel'.overview = panel.overview /\ DOMAIN panel' = DOMAIN panel
  BY <1>1 DEF PanelInv, PastInv
<1>7. IsRequest(r) /\ IsRequest(NoRequest)
  BY <1>2, <1>6 DEF IsRequest, NoRequest
<1>8. RequestInv'
  BY <1>3, <1>4, <1>7 DEF RequestInv
<1>9. NoRequest.kind = "none" /\ NoRequest.overview = NoOverview
  BY DEF NoRequest
<1>10. UNCHANGED <<attempts, feed>> /\ FeedInv'
  BY FeedStays DEF tables, PanelInv
<1>11. \A o : IsPast(o)' <=> IsPast(o)
  BY <1>10 DEF IsPast, Latest
<1>12. IsPast(NoOverview)
  BY NothingIsPast DEF PanelInv
<1>13. PastInv'
  <2>1. ASSUME NEW t \in Slot
        PROVE  /\ IsPast(requests'[t].overview)
               /\ requests'[t].kind = "overview" =>
                    /\ requests'[t].version <= panel'.version
                    /\ requests'[t].stage # "sent" =>
                         requests'[t].overview.row.interval \in Interval
    <3>1. CASE requests'[t] = r
      BY <1>2, <1>6, <1>12, <3>1
    <3>2. CASE requests'[t] = NoRequest
      BY <1>9, <1>12, <3>2
    <3>3. CASE requests'[t] = requests[t]
      BY <1>4, <1>6, <3>3 DEF PanelInv, PastInv, IsRequest
    <3> QED
      BY <1>3, <3>1, <3>2, <3>3
  <2>2. IsPast(panel'.overview)
    BY <1>6 DEF PanelInv, PastInv
  <2> QED
    BY <1>6, <1>11, <2>1, <2>2 DEF PanelInv, PastInv
<1>14. \A t \in Slot : IsNow(t)' <=> t = n
  BY <1>2, <1>3, <1>6, <1>9 DEF IsNow, PanelInv, PastInv, Actions
<1>15. OverviewInv'
  BY <1>2, <1>3, <1>14 DEF OverviewInv
<1>16. AskedInv' /\ HistoryInv'
  <2>1. \A t \in Slot : \/ requests'[t] = requests[t]
                        \/ requests[t].kind # "history" /\ requests'[t].kind # "history"
    BY <1>2, <1>3, <1>5, <1>9 DEF Actions
  <2> QED
    BY <1>6, <1>10, <2>1, HistoryStays DEF PanelInv
<1> QED
  BY <1>3, <1>5, <1>8, <1>10, <1>13, <1>15, <1>16 DEF r, Asked

LEMMA RefreshInv == PanelInv /\ Refresh => PanelInv'
<1> SUFFICES ASSUME PanelInv, Refresh PROVE PanelInv'
  OBVIOUS
<1>1. refresh(requests, FALSE) /\ UNCHANGED <<tables, list>> /\ UNCHANGED control
  BY DEF Refresh
<1>2. Before(requests)
  BY DEF Before, PanelInv, RequestInv
<1>3. /\ FeedInv' /\ RequestInv' /\ PastInv' /\ OverviewInv' /\ AskedInv' /\ HistoryInv'
      /\ Asked(requests, FALSE)
  BY <1>1, <1>2, RefreshFacts
<1>4. \A t \in Slot : Waits(t)' <=> Waits(t)
  <2>1. PICK n \in Slot :
          /\ requests[n] = NoRequest
          /\ requests'[n] = [NoRequest EXCEPT !.kind = "overview",
                                !.version = panel.version + 1, !.act = FALSE]
          /\ \A t \in Slot : t # n => requests'[t] = requests[t]
    BY <1>3 DEF Asked
  <2>2. /\ requests[n].kind = "none" /\ requests[n].act = FALSE
        /\ requests'[n].kind = "overview" /\ requests'[n].act = FALSE
    BY <2>1 DEF NoRequest
  <2> QED
    BY <2>1, <2>2 DEF Waits, Actions
<1>5. ControlInv'
  BY <1>1, <1>4, ControlStays DEF PanelInv, ControlInv
<1> QED
  BY <1>3, <1>5 DEF PanelInv

LEMMA ReceiveActionInv == ASSUME PanelInv, NEW s \in Slot, ReceiveAction(s) PROVE PanelInv'
<1>1. /\ requests[s].kind \in Actions /\ refresh(Done(s), TRUE)
      /\ UNCHANGED <<tables, list>> /\ UNCHANGED control
  BY DEF ReceiveAction
<1>2. /\ DOMAIN Done(s) = Slot /\ Done(s)[s] = NoRequest
      /\ \A t \in Slot : t # s => Done(s)[t] = requests[t]
  BY DoneFacts DEF PanelInv
<1>3. Before(Done(s))
  BY <1>1, <1>2 DEF Before
<1>4. /\ FeedInv' /\ RequestInv' /\ PastInv' /\ OverviewInv' /\ AskedInv' /\ HistoryInv'
      /\ Asked(Done(s), TRUE)
  BY <1>1, <1>3, RefreshFacts
<1>5. PICK n \in Slot :
        /\ requests'[n].kind = "overview" /\ requests'[n].act = TRUE
        /\ \A t \in Slot : t # n => requests'[t] = Done(s)[t]
  BY <1>4 DEF NoRequest, Asked
<1>6. \A t \in Slot : Waits(t) <=> t = s
  BY <1>1 DEF Waits, PanelInv, ControlInv
<1>7. \A t \in Slot : Waits(t)' <=> t = n
  BY <1>2, <1>5, <1>6 DEF Waits, Actions, NoRequest
<1>8. ControlInv'
  BY <1>1, <1>6, <1>7 DEF PanelInv, ControlInv
<1> QED
  BY <1>4, <1>8 DEF PanelInv

(***************************************************************************)
(* The control.                                                            *)
(***************************************************************************)
LEMMA ActInv ==
  ASSUME PanelInv, ~control.pending, NEW kind \in Actions, NEW minutes,
         kind = "interval" => minutes \in Interval, Act(kind, minutes)
  PROVE  PanelInv'
<1> DEFINE r == [NoRequest EXCEPT !.kind = kind, !.minutes = minutes]
<1>1. /\ control' = [control EXCEPT !.pending = TRUE, !.failed = FALSE]
      /\ requests' \in Sent(requests, r)
      /\ UNCHANGED <<tables, panel, list, changed>>
  BY DEF Act
<1>2. /\ r.kind = kind /\ r.minutes = minutes /\ r.overview = NoOverview /\ r.version = 0
      /\ r.act = FALSE /\ r.page = NoPage /\ DOMAIN r = DOMAIN NoRequest
  BY DEF NoRequest
<1> HIDE DEF r
<1>3. DOMAIN requests = Slot /\ \A t \in Slot : IsRequest(requests[t])
  BY DEF PanelInv, RequestInv
<1>4. PICK n \in Slot : /\ requests[n].kind = "none" /\ DOMAIN requests' = Slot
                        /\ requests'[n] = r
                        /\ \A t \in Slot : t # n => requests'[t] = requests[t]
  BY <1>1, <1>3, SentFacts
<1>5. FeedInv'
  BY <1>1, FeedStays DEF PanelInv
<1>6. IsRequest(r)
  BY <1>2 DEF IsRequest, Actions
<1>7. RequestInv'
  BY <1>3, <1>4, <1>6 DEF RequestInv
<1>8. \A t \in Slot : ~Waits(t)
  BY DEF PanelInv, ControlInv
<1>9. \A t \in Slot : Waits(t)' <=> t = n
  BY <1>2, <1>4, <1>8 DEF Waits
<1>10. ControlInv'
  BY <1>1, <1>9 DEF PanelInv, ControlInv
<1>11. PastInv' /\ OverviewInv'
  <2>1. \A t \in Slot :
          \/ requests'[t] = requests[t]
          \/ /\ requests[t].kind # "overview" /\ requests'[t].kind # "overview"
             /\ requests'[t].overview \in {NoOverview, requests[t].overview}
    BY <1>2, <1>4 DEF Actions
  <2> QED
    BY <1>1, <2>1, OverviewStays DEF PanelInv
<1>12. AskedInv' /\ HistoryInv'
  <2>1. \A t \in Slot : \/ requests'[t] = requests[t]
                        \/ requests[t].kind # "history" /\ requests'[t].kind # "history"
    BY <1>2, <1>4 DEF Actions
  <2> QED
    BY <1>1, <2>1, HistoryStays DEF PanelInv, tables
<1> QED
  BY <1>5, <1>7, <1>10, <1>11, <1>12 DEF PanelInv

LEMMA ControlActionsInv ==
  PanelInv /\ (SaveInterval \/ togglePaused \/ requestFetch) => PanelInv'
<1> SUFFICES ASSUME PanelInv, SaveInterval \/ togglePaused \/ requestFetch PROVE PanelInv'
  OBVIOUS
<1>1. CASE SaveInterval
  <2>1. ~control.pending /\ control.draft \in Interval /\ Act("interval", control.draft)
    BY <1>1 DEF SaveInterval, PanelInv, ControlInv
  <2> QED
    BY <2>1, ActInv DEF Actions
<1>2. CASE togglePaused
  <2>1. ~control.pending /\ \E kind \in {"pause", "resume"} : Act(kind, 0)
    BY <1>2 DEF togglePaused
  <2> QED
    BY <2>1, ActInv DEF Actions
<1>3. CASE requestFetch
  BY <1>3, ActInv DEF requestFetch, Actions
<1> QED
  BY <1>1, <1>2, <1>3

LEMMA TypeIntervalInv == PanelInv /\ TypeInterval => PanelInv'
<1> SUFFICES ASSUME PanelInv, TypeInterval PROVE PanelInv'
  OBVIOUS
<1>1. PICK minutes \in Interval : control' = [control EXCEPT !.draft = minutes]
  BY DEF TypeInterval
<1>2. UNCHANGED <<tables, panel, list, requests, changed>>
  BY DEF TypeInterval
<1>3. FeedInv' /\ RequestInv'
  BY <1>2, FeedStays DEF PanelInv, RequestInv, IsRequest
<1>4. ControlInv'
  <2>1. \A t \in Slot : Waits(t)' <=> Waits(t)
    BY <1>2 DEF Waits
  <2>2. /\ control'.pending = control.pending /\ control'.draft = minutes
        /\ DOMAIN control' = DOMAIN control
    BY <1>1 DEF PanelInv, ControlInv
  <2> QED
    BY <2>1, <2>2, ControlStays DEF PanelInv
<1>5. PastInv' /\ OverviewInv'
  BY <1>2, OverviewStays DEF PanelInv
<1>6. AskedInv' /\ HistoryInv'
  BY <1>2, HistoryStays DEF PanelInv, tables
<1> QED
  BY <1>3, <1>4, <1>5, <1>6 DEF PanelInv

(***************************************************************************)
(* The history is asked for.                                               *)
(***************************************************************************)

\* The requests as Ask finds them: an overview's may be over; and as it leaves them.
BeforeAsk(q) ==
  /\ DOMAIN q = Slot
  /\ \A t \in Slot :
       q[t] = requests[t] \/ (requests[t].kind = "overview" /\ q[t] = NoRequest)

AskedPage(q) ==
  /\ DOMAIN requests' = Slot
  /\ \E n \in Slot :
       /\ q[n] = NoRequest
       /\ IsRequest(requests'[n]) /\ requests'[n].kind = "history"
       /\ requests'[n].act = FALSE /\ requests'[n].overview = NoOverview
       /\ \A t \in Slot : t # n => requests'[t] = q[t]

LEMMA AskFacts ==
  ASSUME RequestInv, AskedInv, NEW q, BeforeAsk(q), NEW l, DOMAIN l = DOMAIN list,
         l.version = list.version, l.selected, Ask(l, q)
  PROVE  AskedInv' /\ HistoryInv' /\ AskedPage(q)
<1> DEFINE r == [NoRequest EXCEPT !.kind = "history", !.version = l.version + 1,
                   !.page.filter = l.filter, !.page.before = l.before]
<1>1. /\ list' = [l EXCEPT !.loading = TRUE, !.error = FALSE, !.version = @ + 1]
      /\ requests' \in Sent(q, r)
  BY DEF Ask
<1>2. /\ r.kind = "history" /\ r.version = list.version + 1 /\ r.stage = "sent"
      /\ r.page.filter = l.filter /\ r.page.before = l.before
      /\ r.act = FALSE /\ r.overview = NoOverview
      /\ DOMAIN r = DOMAIN NoRequest /\ DOMAIN r.page = DOMAIN NoPage
  BY DEF NoRequest, NoPage
<1> HIDE DEF r
<1>3. PICK n \in Slot : /\ q[n].kind = "none" /\ DOMAIN requests' = Slot
                        /\ requests'[n] = r
                        /\ \A t \in Slot : t # n => requests'[t] = q[t]
  BY <1>1, SentFacts DEF BeforeAsk
<1>4. NoRequest.kind = "none"
  BY DEF NoRequest
<1>5. list.version \in Nat /\ q[n] = NoRequest
  BY <1>3 DEF AskedInv, BeforeAsk, RequestInv, IsRequest
<1>6. IsRequest(r)
  BY <1>2, <1>5 DEF IsRequest
<1>7. AskedPage(q)
  BY <1>2, <1>3, <1>5, <1>6 DEF AskedPage
<1>8. /\ list'.version = list.version + 1 /\ DOMAIN list' = DOMAIN list
      /\ list'.selected /\ list'.loading = TRUE
      /\ list'.filter = l.filter /\ list'.before = l.before
  BY <1>1, <1>5 DEF AskedInv
<1>9. \A t \in Slot : requests'[t].kind = "history" =>
        t = n \/ requests'[t].version <= list.version
  BY <1>3, <1>4 DEF AskedInv, BeforeAsk
<1>10. \A t \in Slot : t # n => requests'[t] = requests[t] \/ requests'[t] = NoRequest
  BY <1>3 DEF BeforeAsk
<1>11. \A t \in Slot : IsAsked(t)' <=> t = n
  <2>1. \A t \in Slot : requests[t].version \in Nat
    BY DEF RequestInv, IsRequest
  <2> QED
    BY <1>2, <1>3, <1>4, <1>5, <1>8, <1>9, <1>10, <2>1 DEF IsAsked
<1>12. AskedInv'
  <2>1. \A t \in Slot : requests'[t].kind = "history" =>
          requests'[t].version <= list'.version /\ list'.selected
    BY <1>2, <1>3, <1>5, <1>8, <1>9, <1>10, <1>4 DEF AskedInv, RequestInv, IsRequest
  <2> QED
    BY <1>5, <1>8, <1>11, <2>1 DEF AskedInv
<1>13. HistoryInv'
  BY <1>2, <1>3, <1>8, <1>11 DEF HistoryInv
<1> QED
  BY <1>7, <1>12, <1>13

LEMMA HistoryActionInv ==
  ASSUME PanelInv, NEW l, DOMAIN l = DOMAIN list, l.version = list.version, l.selected,
         HistoryAction(l)
  PROVE  PanelInv'
<1>1. Ask(l, requests) /\ UNCHANGED <<tables, panel, control, changed>>
  BY DEF HistoryAction
<1>2. BeforeAsk(requests)
  BY DEF BeforeAsk, PanelInv, RequestInv
<1>3. AskedInv' /\ HistoryInv' /\ AskedPage(requests)
  BY <1>1, <1>2, AskFacts DEF PanelInv
<1>4. PICK n \in Slot :
        /\ requests[n] = NoRequest /\ DOMAIN requests' = Slot
        /\ IsRequest(requests'[n]) /\ requests'[n].kind = "history"
        /\ requests'[n].act = FALSE /\ requests'[n].overview = NoOverview
        /\ \A t \in Slot : t # n => requests'[t] = requests[t]
  BY <1>3 DEF AskedPage
<1>5. requests[n].kind = "none" /\ requests[n].act = FALSE
  BY <1>4 DEF NoRequest
<1>6. FeedInv' /\ RequestInv'
  BY <1>1, <1>4, FeedStays DEF PanelInv, RequestInv
<1>7. ControlInv'
  <2>1. \A t \in Slot : Waits(t)' <=> Waits(t)
    BY <1>4, <1>5 DEF Waits, Actions
  <2> QED
    BY <1>1, <2>1, ControlStays DEF PanelInv, ControlInv
<1>8. PastInv' /\ OverviewInv'
  <2>1. \A t \in Slot :
          \/ requests'[t] = requests[t]
          \/ /\ requests[t].kind # "overview" /\ requests'[t].kind # "overview"
             /\ requests'[t].overview \in {NoOverview, requests[t].overview}
    BY <1>4, <1>5
  <2> QED
    BY <1>1, <2>1, OverviewStays DEF PanelInv
<1> QED
  BY <1>3, <1>6, <1>7, <1>8 DEF PanelInv

LEMMA HistoryActionsInv ==
  PanelInv /\ (selectFeed \/ SetFilter \/ Newest \/ Retry \/ Older) => PanelInv'
<1> SUFFICES ASSUME PanelInv, selectFeed \/ SetFilter \/ Newest \/ Retry \/ Older
             PROVE  PanelInv'
  OBVIOUS
<1>1. DOMAIN list = {"selected", "filter", "before", "page", "loading", "error", "version"}
  BY DEF PanelInv, AskedInv
<1>2. \E l : /\ DOMAIN l = DOMAIN list /\ l.version = list.version /\ l.selected
             /\ HistoryAction(l)
  <2>1. CASE selectFeed
    <3> DEFINE l == [list EXCEPT !.selected = TRUE]
    <3>1. DOMAIN l = DOMAIN list /\ l.version = list.version /\ l.selected
      BY <1>1
    <3> QED
      BY <2>1, <3>1 DEF selectFeed
  <2>2. CASE SetFilter
    <3>1. PICK filter : list.selected /\ HistoryAction([list EXCEPT !.filter = filter, !.before = NoId])
      BY <2>2 DEF SetFilter
    <3> DEFINE l == [list EXCEPT !.filter = filter, !.before = NoId]
    <3>2. DOMAIN l = DOMAIN list /\ l.version = list.version /\ l.selected
      BY <1>1, <3>1
    <3> QED
      BY <3>1, <3>2
  <2>3. ASSUME NEW before, list.selected, HistoryAction([list EXCEPT !.before = before])
        PROVE  \E l : /\ DOMAIN l = DOMAIN list /\ l.version = list.version /\ l.selected
                      /\ HistoryAction(l)
    <3> DEFINE l == [list EXCEPT !.before = before]
    <3>2. DOMAIN l = DOMAIN list /\ l.version = list.version /\ l.selected
      BY <1>1, <2>3
    <3> QED
      BY <2>3, <3>2
  <2>4. CASE Retry
    BY <2>4 DEF Retry
  <2> QED
    BY <2>1, <2>2, <2>3, <2>4 DEF Newest, Older
<1> QED
  BY <1>2, HistoryActionInv

(***************************************************************************)
(* The server.                                                             *)
(***************************************************************************)
LEMMA ReadFeedsInv == ASSUME PanelInv, NEW s \in Slot, ReadFeeds(s) PROVE PanelInv'
<1>1. /\ requests[s].kind = "overview" /\ requests[s].stage = "sent"
      /\ requests' = [requests EXCEPT ![s].stage = "rows", ![s].overview.row = feed]
      /\ UNCHANGED <<tables, panel, control, list, changed>>
  BY DEF ReadFeeds, Serve, rest
<1>2. DOMAIN requests = Slot /\ \A t \in Slot : IsRequest(requests[t])
  BY DEF PanelInv, RequestInv
<1>3. /\ DOMAIN requests' = Slot /\ \A t \in Slot : t # s => requests'[t] = requests[t]
      /\ requests'[s] = [requests[s] EXCEPT !.stage = "rows", !.overview.row = feed]
  BY <1>1, <1>2
<1>4. /\ DOMAIN requests'[s] = DOMAIN requests[s]
      /\ requests'[s].kind = "overview" /\ requests'[s].stage = "rows"
      /\ requests'[s].version = requests[s].version /\ requests'[s].act = requests[s].act
      /\ requests'[s].minutes = requests[s].minutes /\ requests'[s].page = requests[s].page
      /\ requests'[s].overview = [requests[s].overview EXCEPT !.row = feed]
  BY <1>1, <1>2, <1>3 DEF IsRequest, NoRequest
<1>5. /\ DOMAIN requests'[s].overview = DOMAIN NoOverview
      /\ requests'[s].overview.row = feed
      /\ requests'[s].overview.latest = requests[s].overview.latest
      /\ requests'[s].overview.status = requests[s].overview.status
  BY <1>2, <1>4 DEF IsRequest, NoOverview
<1>6. FeedInv' /\ RequestInv'
  <2>1. IsRequest(requests'[s])
    BY <1>1, <1>2, <1>4, <1>5 DEF IsRequest
  <2> QED
    BY <1>1, <1>2, <1>3, <2>1, FeedStays DEF PanelInv, RequestInv
<1>7. ControlInv'
  <2>1. \A t \in Slot : Waits(t)' <=> Waits(t)
    BY <1>1, <1>3, <1>4 DEF Waits
  <2> QED
    BY <1>1, <2>1, ControlStays DEF PanelInv, ControlInv
<1>8. PastInv'
  <2>1. UNCHANGED <<attempts, feed, panel>> /\ feed.interval \in Interval
    BY <1>1 DEF tables, PanelInv, FeedInv
  <2> QED
    BY <1>1, <1>3, <1>4, <1>5, <2>1 DEF PanelInv, PastInv, IsPast, Latest
<1>9. OverviewInv'
  <2>1. UNCHANGED <<attempts, feed, panel, changed>>
    BY <1>1 DEF tables
  <2>2. \A t \in Slot : IsNow(t)' <=> IsNow(t)
    BY <1>1, <1>3, <1>4, <2>1 DEF IsNow
  <2>3. \A o : KnowsAttempts(o)' <=> KnowsAttempts(o)
    BY <2>1 DEF KnowsAttempts, Latest
  <2>4. ASSUME ~changed, NEW t \in Slot, IsNow(t)
        PROVE  /\ requests'[t].stage # "sent" => requests'[t].overview.row = feed
               /\ requests'[t].stage = "answered" => KnowsAttempts(requests'[t].overview)
    <3>1. CASE t = s
      BY <1>4, <1>5, <3>1
    <3>2. CASE t # s
      BY <1>3, <2>4, <3>2 DEF PanelInv, OverviewInv
    <3> QED
      BY <3>1, <3>2
  <2>5. ~changed => \/ panel.error
                    \/ panel.overview.row = feed /\ KnowsAttempts(panel.overview)
                    \/ \E t \in Slot : IsNow(t)
    BY DEF PanelInv, OverviewInv
  <2> QED
    BY <2>1, <2>2, <2>3, <2>4, <2>5 DEF OverviewInv
<1>10. AskedInv' /\ HistoryInv'
  <2>1. \A t \in Slot : \/ requests'[t] = requests[t]
                        \/ requests[t].kind # "history" /\ requests'[t].kind # "history"
    BY <1>1, <1>3, <1>4
  <2> QED
    BY <1>1, <2>1, HistoryStays DEF PanelInv, tables
<1> QED
  BY <1>6, <1>7, <1>8, <1>9, <1>10 DEF PanelInv

LEMMA ReadAttemptsInv == ASSUME PanelInv, NEW s \in Slot, ReadAttempts(s) PROVE PanelInv'
<1>1. /\ requests[s].kind = "overview" /\ requests[s].stage = "rows"
      /\ requests' = [requests EXCEPT ![s].stage = "answered",
                        ![s].overview.latest = Len(attempts), ![s].overview.status = Latest]
      /\ UNCHANGED <<tables, panel, control, list, changed>>
  BY DEF ReadAttempts, Serve, rest
<1>2. DOMAIN requests = Slot /\ \A t \in Slot : IsRequest(requests[t])
  BY DEF PanelInv, RequestInv
<1>3. /\ DOMAIN requests' = Slot /\ \A t \in Slot : t # s => requests'[t] = requests[t]
      /\ requests'[s] = [requests[s] EXCEPT !.stage = "answered",
                           !.overview.latest = Len(attempts), !.overview.status = Latest]
  BY <1>1, <1>2
<1>4. /\ DOMAIN requests'[s] = DOMAIN requests[s]
      /\ requests'[s].kind = "overview" /\ requests'[s].stage = "answered"
      /\ requests'[s].version = requests[s].version /\ requests'[s].act = requests[s].act
      /\ requests'[s].minutes = requests[s].minutes /\ requests'[s].page = requests[s].page
      /\ requests'[s].overview =
           [requests[s].overview EXCEPT !.latest = Len(attempts), !.status = Latest]
  BY <1>1, <1>2, <1>3 DEF IsRequest, NoRequest
<1>5. /\ DOMAIN requests'[s].overview = DOMAIN NoOverview
      /\ requests'[s].overview.row = requests[s].overview.row
      /\ requests'[s].overview.latest = Len(attempts)
      /\ requests'[s].overview.status = Latest
  BY <1>2, <1>4 DEF IsRequest, NoOverview
<1>6. FeedInv' /\ RequestInv'
  <2>1. IsRequest(requests'[s])
    BY <1>1, <1>2, <1>4, <1>5 DEF IsRequest
  <2> QED
    BY <1>1, <1>2, <1>3, <2>1, FeedStays DEF PanelInv, RequestInv
<1>7. ControlInv'
  <2>1. \A t \in Slot : Waits(t)' <=> Waits(t)
    BY <1>1, <1>3, <1>4 DEF Waits
  <2> QED
    BY <1>1, <2>1, ControlStays DEF PanelInv, ControlInv
<1>8. PastInv'
  <2>1. UNCHANGED <<attempts, feed, panel>> /\ Len(attempts) \in Nat
    BY <1>1 DEF tables, PanelInv, FeedInv
  <2>2. Latest' = Latest
    BY <2>1 DEF Latest
  <2>3. \A o : IsPast(o)' <=> IsPast(o)
    BY <2>1, <2>2 DEF IsPast
  <2>4. IsPast(requests[s].overview)'
    BY <1>5, <2>1, <2>2 DEF IsPast
  <2>5. PastInv
    BY DEF PanelInv
  <2>6. /\ DOMAIN panel' = {"overview", "version", "error"} /\ panel'.version \in Nat
        /\ IsPast(panel.overview)'
    BY <2>1, <2>3, <2>5 DEF PastInv
  <2>7. ASSUME NEW t \in Slot
        PROVE  /\ IsPast(requests[t].overview)'
               /\ requests'[t].kind = "overview" =>
                    /\ requests'[t].version <= panel'.version
                    /\ requests'[t].stage # "sent" => requests'[t].overview.row.interval \in Interval
    <3>1. CASE t # s
      BY <1>3, <2>1, <2>3, <2>5, <3>1 DEF PastInv
    <3>2. CASE t = s
      BY <1>1, <1>4, <1>5, <2>1, <2>3, <2>4, <2>5, <3>2 DEF PastInv
    <3> QED
      BY <3>1, <3>2
  <2> QED
    BY <2>6, <2>7 DEF PastInv
<1>9. OverviewInv'
  <2>1. UNCHANGED <<attempts, feed, panel, changed>>
    BY <1>1 DEF tables
  <2>2. \A t \in Slot : IsNow(t)' <=> IsNow(t)
    BY <1>1, <1>3, <1>4, <2>1 DEF IsNow
  <2> QED
    BY <1>1, <1>3, <1>4, <1>5, <2>1, <2>2 DEF PanelInv, OverviewInv, KnowsAttempts, Latest
<1>10. AskedInv' /\ HistoryInv'
  <2>1. \A t \in Slot : \/ requests'[t] = requests[t]
                        \/ requests[t].kind # "history" /\ requests'[t].kind # "history"
    BY <1>1, <1>3, <1>4
  <2> QED
    BY <1>1, <2>1, HistoryStays DEF PanelInv, tables
<1> QED
  BY <1>6, <1>7, <1>8, <1>9, <1>10 DEF PanelInv

LEMMA ServeHistoryInv == ASSUME PanelInv, NEW s \in Slot, ServeHistory(s) PROVE PanelInv'
<1> DEFINE answer == AttemptPage(requests[s].page.filter, requests[s].page.before)
<1>1. /\ requests[s].kind = "history" /\ requests[s].stage = "sent"
      /\ requests' = [requests EXCEPT ![s].stage = "answered", ![s].page = answer]
      /\ UNCHANGED <<tables, panel, control, list, changed>>
  BY DEF ServeHistory, Serve, rest
<1>2. /\ answer = PageOf(attempts, requests[s].page.filter, requests[s].page.before)
      /\ answer.filter = requests[s].page.filter /\ answer.before = requests[s].page.before
      /\ DOMAIN answer = DOMAIN NoPage
  BY PageOfAttempts DEF PageOf, NoPage
<1> HIDE DEF answer
<1>3. DOMAIN requests = Slot /\ \A t \in Slot : IsRequest(requests[t])
  BY DEF PanelInv, RequestInv
<1>4. /\ DOMAIN requests' = Slot /\ \A t \in Slot : t # s => requests'[t] = requests[t]
      /\ requests'[s] = [requests[s] EXCEPT !.stage = "answered", !.page = answer]
  BY <1>1, <1>3
<1>5. /\ DOMAIN requests'[s] = DOMAIN requests[s]
      /\ requests'[s].kind = "history" /\ requests'[s].stage = "answered"
      /\ requests'[s].version = requests[s].version /\ requests'[s].act = requests[s].act
      /\ requests'[s].minutes = requests[s].minutes
      /\ requests'[s].overview = requests[s].overview /\ requests'[s].page = answer
  BY <1>1, <1>3, <1>4 DEF IsRequest, NoRequest
<1>6. FeedInv' /\ RequestInv'
  <2>1. IsRequest(requests'[s])
    BY <1>1, <1>2, <1>3, <1>5 DEF IsRequest
  <2> QED
    BY <1>1, <1>3, <1>4, <2>1, FeedStays DEF PanelInv, RequestInv
<1>7. ControlInv'
  <2>1. \A t \in Slot : Waits(t)' <=> Waits(t)
    BY <1>1, <1>4, <1>5 DEF Waits
  <2> QED
    BY <1>1, <2>1, ControlStays DEF PanelInv, ControlInv
<1>8. PastInv' /\ OverviewInv'
  <2>1. \A t \in Slot :
          \/ requests'[t] = requests[t]
          \/ /\ requests[t].kind # "overview" /\ requests'[t].kind # "overview"
             /\ requests'[t].overview \in {NoOverview, requests[t].overview}
    BY <1>1, <1>4, <1>5
  <2> QED
    BY <1>1, <2>1, OverviewStays DEF PanelInv
<1>9. \A t \in Slot : IsAsked(t)' <=> IsAsked(t)
  BY <1>1, <1>4, <1>5 DEF IsAsked
<1>10. AskedInv'
  <2>1. \A t \in Slot : requests'[t].kind = "history" =>
          requests'[t].version <= list.version /\ list.selected
    BY <1>1, <1>4, <1>5 DEF PanelInv, AskedInv
  <2> QED
    BY <1>1, <1>9, <2>1 DEF PanelInv, AskedInv
<1>11. HistoryInv'
  <2>1. UNCHANGED <<attempts, list, panel>>
    BY <1>1 DEF tables
  <2>2. KnowsAttempts(panel.overview)' <=> KnowsAttempts(panel.overview)
    BY <2>1 DEF KnowsAttempts, Latest
  <2>3. ASSUME NEW t \in Slot, IsAsked(t)
        PROVE  /\ requests'[t].page.filter = list.filter /\ requests'[t].page.before = list.before
               /\ requests'[t].stage = "answered" /\ KnowsAttempts(panel.overview) =>
                    requests'[t].page = PageOf(attempts, list.filter, list.before)
    <3>1. CASE t = s
      BY <1>2, <1>5, <2>3, <3>1 DEF PanelInv, HistoryInv
    <3>2. CASE t # s
      BY <1>4, <2>3, <3>2 DEF PanelInv, HistoryInv
    <3> QED
      BY <3>1, <3>2
  <2> QED
    BY <1>9, <2>1, <2>2, <2>3 DEF PanelInv, HistoryInv
<1> QED
  BY <1>6, <1>7, <1>8, <1>10, <1>11 DEF PanelInv

LEMMA ServeActionInv == ASSUME PanelInv, NEW s \in Slot, ServeAction(s) PROVE PanelInv'
<1>1. /\ requests[s].kind \in {"interval", "pause", "resume", "fetch"}
      /\ \E stage \in {"refused", "answered"} : requests' = [requests EXCEPT ![s].stage = stage]
      /\ UNCHANGED <<attempts, panel, control, list>>
  BY DEF ServeAction, Serve, rest
<1>2. FeedInv' /\ (feed' = feed \/ changed') /\ (changed => changed')
  BY ServeActionFacts DEF PanelInv
<1>3. DOMAIN requests = Slot /\ \A t \in Slot : IsRequest(requests[t])
  BY DEF PanelInv, RequestInv
<1>4. /\ DOMAIN requests' = Slot /\ \A t \in Slot : t # s => requests'[t] = requests[t]
      /\ \E stage \in {"refused", "answered"} : requests'[s] = [requests[s] EXCEPT !.stage = stage]
  BY <1>1, <1>3
<1>5. /\ DOMAIN requests'[s] = DOMAIN requests[s]
      /\ requests'[s].kind = requests[s].kind
      /\ requests'[s].version = requests[s].version /\ requests'[s].act = requests[s].act
      /\ requests'[s].minutes = requests[s].minutes
      /\ requests'[s].overview = requests[s].overview
      /\ requests'[s].page = requests[s].page
  BY <1>4 DEF IsRequest, NoRequest
<1>6. RequestInv'
  <2>1. IsRequest(requests'[s])
    BY <1>1, <1>3, <1>5 DEF IsRequest
  <2> QED
    BY <1>3, <1>4, <2>1 DEF RequestInv
<1>7. ControlInv'
  <2>1. \A t \in Slot : Waits(t)' <=> Waits(t)
    BY <1>4, <1>5 DEF Waits
  <2> QED
    BY <1>1, <2>1, ControlStays DEF PanelInv, ControlInv
<1>8. \A o : (IsPast(o)' <=> IsPast(o)) /\ (KnowsAttempts(o)' <=> KnowsAttempts(o))
  BY <1>1 DEF IsPast, KnowsAttempts, Latest
<1>9. \A t \in Slot : requests'[t].overview = requests[t].overview /\ requests'[t].kind = requests[t].kind
  BY <1>4, <1>5
<1>10. \A t \in Slot : requests'[t].kind \in {"overview", "history"} => requests'[t] = requests[t]
  BY <1>1, <1>4, <1>5
<1>11. PastInv'
  BY <1>1, <1>8, <1>9, <1>10 DEF PanelInv, PastInv
<1>12. OverviewInv'
  <2> SUFFICES ASSUME ~changed' PROVE OverviewInv'
    BY DEF OverviewInv
  <2>1. ~changed /\ feed' = feed
    BY <1>2
  <2>2. \A t \in Slot : IsNow(t)' <=> IsNow(t)
    BY <1>1, <1>9, <1>10 DEF IsNow
  <2> QED
    BY <1>1, <1>8, <1>10, <2>1, <2>2 DEF PanelInv, OverviewInv, IsNow
<1>13. AskedInv' /\ HistoryInv'
  <2>1. \A t \in Slot : \/ requests'[t] = requests[t]
                        \/ requests[t].kind # "history" /\ requests'[t].kind # "history"
    BY <1>9, <1>10
  <2> QED
    BY <1>1, <2>1, HistoryStays DEF PanelInv
<1> QED
  BY <1>2, <1>6, <1>7, <1>11, <1>12, <1>13 DEF PanelInv

(***************************************************************************)
(* The answers.                                                            *)
(***************************************************************************)
LEMMA FailActionInv == ASSUME PanelInv, NEW s \in Slot, FailAction(s) PROVE PanelInv'
<1>1. /\ requests[s].kind \in Actions /\ requests' = Done(s)
      /\ control' = [control EXCEPT !.pending = FALSE, !.failed = TRUE]
      /\ UNCHANGED <<tables, panel, list, changed>>
  BY DEF FailAction
<1>2. /\ DOMAIN requests' = Slot /\ requests'[s] = NoRequest
      /\ \A t \in Slot : t # s => requests'[t] = requests[t]
  BY <1>1, DoneFacts DEF PanelInv
<1>3. /\ NoRequest.kind = "none" /\ NoRequest.act = FALSE /\ NoRequest.overview = NoOverview
      /\ IsRequest(NoRequest)
  BY DEF NoRequest, IsRequest
<1>4. FeedInv' /\ RequestInv'
  BY <1>1, <1>2, <1>3, FeedStays DEF PanelInv, RequestInv
<1>5. \A t \in Slot : Waits(t) <=> t = s
  BY <1>1 DEF Waits, PanelInv, ControlInv
<1>6. \A t \in Slot : ~Waits(t)'
  BY <1>2, <1>3, <1>5 DEF Waits, Actions
<1>7. ControlInv'
  BY <1>1, <1>6 DEF PanelInv, ControlInv
<1>8. PastInv' /\ OverviewInv'
  <2>1. \A t \in Slot :
          \/ requests'[t] = requests[t]
          \/ /\ requests[t].kind # "overview" /\ requests'[t].kind # "overview"
             /\ requests'[t].overview \in {NoOverview, requests[t].overview}
    BY <1>1, <1>2, <1>3 DEF Actions
  <2> QED
    BY <1>1, <2>1, OverviewStays DEF PanelInv
<1>9. AskedInv' /\ HistoryInv'
  <2>1. \A t \in Slot : \/ requests'[t] = requests[t]
                        \/ requests[t].kind # "history" /\ requests'[t].kind # "history"
    BY <1>1, <1>2, <1>3 DEF Actions
  <2> QED
    BY <1>1, <2>1, HistoryStays DEF PanelInv, tables
<1> QED
  BY <1>4, <1>7, <1>8, <1>9 DEF PanelInv

\* The control after an overview has been answered or has failed.
LEMMA EndedControl ==
  ASSUME ControlInv, NEW s \in Slot, requests[s].kind = "overview",
         DOMAIN control' = DOMAIN control, control'.draft \in Interval \cup {NoId},
         control'.pending = Ended(s).pending,
         \A t \in Slot : Waits(t)' <=> Waits(t) /\ t # s
  PROVE  ControlInv'
<1>1. Waits(s) <=> requests[s].act = TRUE
  BY DEF Waits, Actions
<1>2. CASE requests[s].act = TRUE
  <2>1. Ended(s).pending = FALSE
    BY <1>2 DEF Ended, ControlInv
  <2>2. \A t \in Slot : ~Waits(t)'
    BY <1>1, <1>2 DEF ControlInv
  <2> QED
    BY <2>1, <2>2 DEF ControlInv
<1>3. CASE requests[s].act # TRUE
  <2>1. Ended(s).pending = control.pending
    BY <1>3 DEF Ended
  <2>2. \A t \in Slot : Waits(t)' <=> Waits(t)
    BY <1>1, <1>3
  <2> QED
    BY <2>1, <2>2, ControlStays
<1> QED
  BY <1>2, <1>3

LEMMA EndedShape ==
  ASSUME ControlInv, NEW s \in Slot
  PROVE  DOMAIN Ended(s) = DOMAIN control /\ Ended(s).draft = control.draft
BY DEF Ended, ControlInv

\* An overview that is not shown: it came late, or failed.
LEMMA OverviewGone ==
  ASSUME PanelInv, NEW s \in Slot, requests[s].kind = "overview", requests' = Done(s),
         control' = Ended(s), UNCHANGED <<tables, list, changed>>,
         DOMAIN panel' = DOMAIN panel, panel'.version = panel.version,
         panel'.overview = panel.overview,
         IF IsLatest(s) THEN panel'.error = TRUE ELSE panel'.error = panel.error
  PROVE  PanelInv'
<1>1. /\ DOMAIN requests' = Slot /\ requests'[s] = NoRequest
      /\ \A t \in Slot : t # s => requests'[t] = requests[t]
  BY DoneFacts DEF PanelInv
<1>2. /\ NoRequest.kind = "none" /\ NoRequest.act = FALSE /\ NoRequest.overview = NoOverview
      /\ IsRequest(NoRequest)
  BY DEF NoRequest, IsRequest
<1>3. FeedInv' /\ RequestInv'
  BY <1>1, <1>2, FeedStays DEF PanelInv, RequestInv
<1>4. ControlInv'
  <2>1. \A t \in Slot : Waits(t)' <=> Waits(t) /\ t # s
    BY <1>1, <1>2 DEF Waits, Actions
  <2>2. DOMAIN control' = DOMAIN control /\ control'.draft \in Interval \cup {NoId}
    BY EndedShape DEF PanelInv, ControlInv
  <2> QED
    BY <2>1, <2>2, EndedControl DEF PanelInv
<1>5. UNCHANGED <<attempts, feed, changed>> /\ IsPast(NoOverview)
  BY NothingIsPast DEF tables, PanelInv
<1>6. \A o : (IsPast(o)' <=> IsPast(o)) /\ (KnowsAttempts(o)' <=> KnowsAttempts(o))
  BY <1>5 DEF IsPast, KnowsAttempts, Latest
<1>7. PastInv'
  BY <1>1, <1>2, <1>5, <1>6 DEF PanelInv, PastInv
<1>8. \A t \in Slot : IsNow(t)' <=> IsNow(t) /\ t # s
  BY <1>1, <1>2 DEF IsNow
<1>9. IsNow(s) => panel'.error = TRUE
  BY DEF IsNow, IsLatest
<1>10. OverviewInv'
  <2>1. ASSUME ~changed, ~panel'.error
        PROVE  \/ panel'.overview.row = feed /\ KnowsAttempts(panel'.overview)
               \/ \E t \in Slot : IsNow(t)'
    <3>1. ~IsNow(s) /\ ~IsLatest(s) /\ ~panel.error
      BY <1>9, <2>1
    <3> QED
      BY <1>8, <2>1, <3>1 DEF PanelInv, OverviewInv
  <2>2. ASSUME ~changed, NEW t \in Slot, IsNow(t)'
        PROVE  /\ requests'[t].stage # "sent" => requests'[t].overview.row = feed
               /\ requests'[t].stage = "answered" => KnowsAttempts(requests'[t].overview)
    BY <1>1, <1>8, <2>2 DEF PanelInv, OverviewInv
  <2> QED
    BY <1>5, <1>6, <2>1, <2>2 DEF OverviewInv
<1>11. AskedInv' /\ HistoryInv'
  <2>1. \A t \in Slot : \/ requests'[t] = requests[t]
                        \/ requests[t].kind # "history" /\ requests'[t].kind # "history"
    BY <1>1, <1>2
  <2> QED
    BY <1>5, <2>1, HistoryStays DEF PanelInv
<1> QED
  BY <1>3, <1>4, <1>7, <1>10, <1>11 DEF PanelInv

LEMMA FailOverviewInv == ASSUME PanelInv, NEW s \in Slot, FailOverview(s) PROVE PanelInv'
<1>1. /\ requests[s].kind = "overview" /\ requests' = Done(s) /\ control' = Ended(s)
      /\ panel' = IF IsLatest(s) THEN [panel EXCEPT !.error = TRUE] ELSE panel
      /\ UNCHANGED <<tables, list, changed>>
  BY DEF FailOverview
<1>2. /\ DOMAIN panel' = DOMAIN panel /\ panel'.version = panel.version
      /\ panel'.overview = panel.overview
      /\ IF IsLatest(s) THEN panel'.error = TRUE ELSE panel'.error = panel.error
  BY <1>1 DEF PanelInv, PastInv
<1> QED
  BY <1>1, <1>2, OverviewGone

\* The overview asked for last is shown; what was answered is what has been read.
LEMMA OverviewShown ==
  ASSUME PanelInv, NEW s \in Slot, IsNow(s), requests[s].stage = "answered",
         UNCHANGED <<tables, changed>>,
         panel' = [panel EXCEPT !.error = FALSE, !.overview = requests[s].overview],
         \A t \in Slot :
           \/ requests'[t] = requests[t] /\ t # s
           \/ requests'[t].kind # "overview" /\ requests'[t].overview = NoOverview
  PROVE  PastInv' /\ OverviewInv'
<1>1. /\ DOMAIN panel' = DOMAIN panel /\ panel'.version = panel.version
      /\ panel'.overview = requests[s].overview
  BY DEF PanelInv, PastInv
<1>2. UNCHANGED <<attempts, feed, changed>> /\ IsPast(NoOverview)
  BY NothingIsPast DEF tables, PanelInv
<1>3. \A o : (IsPast(o)' <=> IsPast(o)) /\ (KnowsAttempts(o)' <=> KnowsAttempts(o))
  BY <1>2 DEF IsPast, KnowsAttempts, Latest
<1>4. PastInv'
  BY <1>1, <1>2, <1>3 DEF PanelInv, PastInv
<1>5. \A t \in Slot : IsNow(t)' => IsNow(t) /\ requests'[t] = requests[t]
  BY <1>1 DEF IsNow
<1>6. ~changed => requests[s].overview.row = feed /\ KnowsAttempts(requests[s].overview)
  BY DEF PanelInv, OverviewInv
<1>7. OverviewInv'
  BY <1>1, <1>2, <1>3, <1>5, <1>6 DEF PanelInv, OverviewInv
<1> QED
  BY <1>4, <1>7

LEMMA ReceiveOverviewInv == ASSUME PanelInv, NEW s \in Slot, ReceiveOverview(s) PROVE PanelInv'
<1>1. /\ requests[s].kind = "overview" /\ requests[s].stage = "answered"
      /\ UNCHANGED <<tables, changed>>
  BY DEF ReceiveOverview
<1>2. CASE ~IsLatest(s)
  <2>1. control' = Ended(s) /\ requests' = Done(s) /\ UNCHANGED <<panel, list>>
    BY <1>2 DEF ReceiveOverview
  <2> QED
    BY <1>1, <1>2, <2>1, OverviewGone
<1>3. CASE IsLatest(s)
  <2> DEFINE new == [panel EXCEPT !.error = FALSE, !.overview = requests[s].overview]
  <2>1. Settle(s, new, Done(s))
    BY <1>3 DEF ReceiveOverview
  <2>2. IsNow(s)
    BY <1>1, <1>3 DEF IsNow, IsLatest
  <2>3. new.overview = requests[s].overview
    BY DEF PanelInv, PastInv
  <2>4. /\ panel' = new
        /\ control' = IF panel.overview.row.interval # requests[s].overview.row.interval
                      THEN [Ended(s) EXCEPT !.draft = requests[s].overview.row.interval]
                      ELSE Ended(s)
        /\ IF list.selected /\ HistoryDepends(panel.overview, requests[s].overview)
           THEN Ask(list, Done(s)) ELSE requests' = Done(s) /\ UNCHANGED list
    BY <2>1, <2>3 DEF Settle
  <2> HIDE DEF new
  <2>5. /\ DOMAIN Done(s) = Slot /\ Done(s)[s] = NoRequest
        /\ \A t \in Slot : t # s => Done(s)[t] = requests[t]
    BY DoneFacts DEF PanelInv
  <2>6. /\ NoRequest.kind = "none" /\ NoRequest.act = FALSE /\ NoRequest.overview = NoOverview
        /\ IsRequest(NoRequest)
    BY DEF NoRequest, IsRequest
  <2>7. requests[s].overview.row.interval \in Interval
    BY <1>1 DEF PanelInv, PastInv
  <2>8. /\ DOMAIN control' = DOMAIN control /\ control'.draft \in Interval \cup {NoId}
        /\ control'.pending = Ended(s).pending
    BY <2>4, <2>7, EndedShape DEF PanelInv, ControlInv
  <2>9. panel'.overview = requests[s].overview /\ UNCHANGED <<attempts, feed, changed>>
    BY <1>1, <2>3, <2>4 DEF tables
  <2>10. \A o : KnowsAttempts(o)' <=> KnowsAttempts(o)
    BY <2>9 DEF KnowsAttempts, Latest
  <2>11. CASE list.selected /\ HistoryDepends(panel.overview, requests[s].overview)
    <3>1. Ask(list, Done(s)) /\ list.selected
      BY <2>4, <2>11
    <3>2. BeforeAsk(Done(s))
      BY <1>1, <2>5 DEF BeforeAsk
    <3>3. AskedInv' /\ HistoryInv' /\ AskedPage(Done(s))
      BY <3>1, <3>2, AskFacts DEF PanelInv
    <3>4. PICK n \in Slot :
            /\ Done(s)[n] = NoRequest /\ DOMAIN requests' = Slot
            /\ IsRequest(requests'[n]) /\ requests'[n].kind = "history"
            /\ requests'[n].act = FALSE /\ requests'[n].overview = NoOverview
            /\ \A t \in Slot : t # n => requests'[t] = Done(s)[t]
      BY <3>3 DEF AskedPage
    <3>5. FeedInv' /\ RequestInv'
      BY <1>1, <2>5, <2>6, <3>4, FeedStays DEF PanelInv, RequestInv
    <3>6. \A t \in Slot : Waits(t)' <=> Waits(t) /\ t # s
      BY <2>5, <2>6, <3>4 DEF Waits, Actions
    <3>7. ControlInv'
      BY <1>1, <2>8, <3>6, EndedControl DEF PanelInv
    <3>8. PastInv' /\ OverviewInv'
      <4>1. \A t \in Slot :
              \/ requests'[t] = requests[t] /\ t # s
              \/ requests'[t].kind # "overview" /\ requests'[t].overview = NoOverview
        BY <2>5, <2>6, <3>4
      <4> QED
        BY <1>1, <2>2, <2>4, <4>1, OverviewShown DEF new
    <3> QED
      BY <3>3, <3>5, <3>7, <3>8 DEF PanelInv
  <2>12. CASE ~(list.selected /\ HistoryDepends(panel.overview, requests[s].overview))
    <3>1. requests' = Done(s) /\ UNCHANGED list
      BY <2>4, <2>12
    <3>2. FeedInv' /\ RequestInv'
      BY <1>1, <2>5, <2>6, <3>1, FeedStays DEF PanelInv, RequestInv
    <3>3. \A t \in Slot : Waits(t)' <=> Waits(t) /\ t # s
      BY <2>5, <2>6, <3>1 DEF Waits, Actions
    <3>4. ControlInv'
      BY <1>1, <2>8, <3>3, EndedControl DEF PanelInv
    <3>5. PastInv' /\ OverviewInv'
      <4>1. \A t \in Slot :
              \/ requests'[t] = requests[t] /\ t # s
              \/ requests'[t].kind # "overview" /\ requests'[t].overview = NoOverview
        BY <2>5, <2>6, <3>1
      <4> QED
        BY <1>1, <2>2, <2>4, <4>1, OverviewShown DEF new
    <3>6. \A t \in Slot : IsAsked(t)' <=> IsAsked(t)
      BY <1>1, <2>5, <2>6, <3>1 DEF IsAsked
    <3>7. \A t \in Slot : requests'[t].kind = "history" => requests'[t] = requests[t]
      BY <2>5, <2>6, <3>1
    <3>8. AskedInv'
      BY <3>1, <3>6, <3>7 DEF PanelInv, AskedInv
    <3>9. list.selected => (KnowsAttempts(panel'.overview) <=> KnowsAttempts(panel.overview))
      BY <2>9, <2>12 DEF HistoryDepends, KnowsAttempts
    <3>10. \A t \in Slot : IsAsked(t) => list.selected /\ requests'[t] = requests[t]
      BY <1>1, <2>5, <3>1 DEF IsAsked, PanelInv, AskedInv
    <3>11. HistoryInv'
      BY <2>9, <2>10, <3>1, <3>6, <3>9, <3>10 DEF PanelInv, HistoryInv
    <3> QED
      BY <3>2, <3>4, <3>5, <3>8, <3>11 DEF PanelInv
  <2> QED
    BY <2>11, <2>12
<1> QED
  BY <1>2, <1>3

\* The history that was asked for last is shown, or failed; another one is dropped.
LEMMA HistoryEnded ==
  ASSUME PanelInv, NEW s \in Slot, requests[s].kind = "history", requests' = Done(s),
         UNCHANGED <<tables, panel, control, changed>>, DOMAIN list' = DOMAIN list,
         list'.version = list.version, list'.selected = list.selected,
         list'.filter = list.filter, list'.before = list.before,
         IF IsAsked(s) THEN list'.loading = FALSE ELSE list' = list,
         IsAsked(s) /\ ~list'.error =>
           requests[s].stage = "answered" /\ list'.page = requests[s].page
  PROVE  PanelInv'
<1>1. /\ DOMAIN requests' = Slot /\ requests'[s] = NoRequest
      /\ \A t \in Slot : t # s => requests'[t] = requests[t]
  BY DoneFacts DEF PanelInv
<1>2. /\ NoRequest.kind = "none" /\ NoRequest.act = FALSE /\ NoRequest.overview = NoOverview
      /\ IsRequest(NoRequest)
  BY DEF NoRequest, IsRequest
<1>3. FeedInv' /\ RequestInv'
  BY <1>1, <1>2, FeedStays DEF PanelInv, RequestInv
<1>4. requests[s].act # TRUE
  BY DEF PanelInv, RequestInv, IsRequest
<1>5. ControlInv'
  <2>1. \A t \in Slot : Waits(t)' <=> Waits(t)
    BY <1>1, <1>2, <1>4 DEF Waits, Actions
  <2> QED
    BY <2>1, ControlStays DEF PanelInv, ControlInv
<1>6. PastInv' /\ OverviewInv'
  <2>1. \A t \in Slot :
          \/ requests'[t] = requests[t]
          \/ /\ requests[t].kind # "overview" /\ requests'[t].kind # "overview"
             /\ requests'[t].overview \in {NoOverview, requests[t].overview}
    BY <1>1, <1>2
  <2> QED
    BY <2>1, OverviewStays DEF PanelInv
<1>7. \A t \in Slot : IsAsked(t)' <=> IsAsked(t) /\ t # s
  BY <1>1, <1>2 DEF IsAsked
<1>8. AskedInv'
  <2>1. \A t \in Slot : requests'[t].kind = "history" =>
          requests'[t].version <= list.version /\ list.selected
    BY <1>1, <1>2 DEF PanelInv, AskedInv
  <2>2. list'.loading <=> \E t \in Slot : IsAsked(t)'
    BY <1>7 DEF PanelInv, AskedInv
  <2> QED
    BY <1>7, <2>1, <2>2 DEF PanelInv, AskedInv
<1>9. UNCHANGED attempts /\ (KnowsAttempts(panel.overview)' <=> KnowsAttempts(panel.overview))
  BY DEF tables, KnowsAttempts, Latest
<1>10. CASE IsAsked(s)
  <2>1. \A t \in Slot : ~IsAsked(t)'
    BY <1>7, <1>10 DEF PanelInv, AskedInv
  <2> QED
    BY <1>3, <1>5, <1>6, <1>8, <1>9, <1>10, <2>1 DEF PanelInv, HistoryInv
<1>11. CASE ~IsAsked(s)
  <2>1. \A t \in Slot : IsAsked(t)' <=> IsAsked(t)
    BY <1>7, <1>11
  <2>2. \A t \in Slot : IsAsked(t) => requests'[t] = requests[t]
    BY <1>1, <1>11
  <2>3. HistoryInv'
    BY <1>9, <1>11, <2>1, <2>2 DEF PanelInv, HistoryInv
  <2> QED
    BY <1>3, <1>5, <1>6, <1>8, <2>3 DEF PanelInv
<1> QED
  BY <1>10, <1>11

LEMMA HistoryAnswersInv ==
  ASSUME PanelInv, NEW s \in Slot, ReceiveHistory(s) \/ FailHistory(s) PROVE PanelInv'
<1>1. /\ requests[s].kind = "history" /\ requests' = Done(s)
      /\ UNCHANGED <<tables, panel, control, changed>>
  BY DEF ReceiveHistory, FailHistory
<1>2. IsCurrent(s) <=> IsAsked(s)
  BY <1>1 DEF IsCurrent, IsAsked, PanelInv, AskedInv
<1>3. CASE ReceiveHistory(s)
  <2>1. requests[s].stage = "answered"
    BY <1>3 DEF ReceiveHistory
  <2>2. list' = IF IsAsked(s) THEN [list EXCEPT !.page = requests[s].page, !.loading = FALSE]
                ELSE list
    BY <1>2, <1>3 DEF ReceiveHistory
  <2>3. /\ DOMAIN list' = DOMAIN list /\ list'.version = list.version
        /\ list'.selected = list.selected
        /\ list'.filter = list.filter /\ list'.before = list.before
        /\ IF IsAsked(s) THEN list'.loading = FALSE ELSE list' = list
        /\ IsAsked(s) => list'.page = requests[s].page
    BY <2>2 DEF PanelInv, AskedInv
  <2> QED
    BY <1>1, <2>1, <2>3, HistoryEnded
<1>4. CASE FailHistory(s)
  <2>1. list' = IF IsAsked(s) THEN [list EXCEPT !.error = TRUE, !.loading = FALSE] ELSE list
    BY <1>2, <1>4 DEF FailHistory
  <2>2. /\ DOMAIN list' = DOMAIN list /\ list'.version = list.version
        /\ list'.selected = list.selected
        /\ list'.filter = list.filter /\ list'.before = list.before
        /\ IF IsAsked(s) THEN list'.loading = FALSE ELSE list' = list
        /\ IsAsked(s) => list'.error = TRUE
    BY <2>1 DEF PanelInv, AskedInv
  <2> QED
    BY <1>1, <2>2, HistoryEnded
<1> QED
  BY <1>3, <1>4

(***************************************************************************)
(* The invariant.                                                          *)
(***************************************************************************)
LEMMA PanelInvInit == Init => PanelInv
<1> SUFFICES ASSUME Init PROVE PanelInv
  OBVIOUS
<1> DEFINE r == [NoRequest EXCEPT !.kind = "overview", !.version = 1]
           q == [s \in Slot |-> NoRequest]
<1>1. /\ requests \in Sent(q, r) /\ changed = FALSE
      /\ panel = [overview |-> NoOverview, version |-> 1, error |-> FALSE]
      /\ control = [draft |-> NoId, pending |-> FALSE, failed |-> FALSE]
      /\ list = [selected |-> FALSE, filter |-> "all", before |-> NoId, page |-> NoPage,
                 loading |-> FALSE, error |-> FALSE, version |-> 0]
  BY DEF Init
<1>2. /\ r.kind = "overview" /\ r.version = 1 /\ r.stage = "sent" /\ r.act = FALSE
      /\ r.overview = NoOverview /\ r.page = NoPage /\ DOMAIN r = DOMAIN NoRequest
  BY DEF NoRequest
<1>3. /\ NoRequest.kind = "none" /\ NoRequest.act = FALSE /\ NoRequest.overview = NoOverview
      /\ IsRequest(NoRequest)
  BY DEF NoRequest, IsRequest
<1>4. DOMAIN q = Slot /\ \A t \in Slot : q[t] = NoRequest
  OBVIOUS
<1> HIDE DEF r, q
<1>5. PICK n \in Slot : /\ DOMAIN requests = Slot /\ requests[n] = r
                        /\ \A t \in Slot : t # n => requests[t] = NoRequest
  BY <1>1, <1>4, SentFacts
<1>6. FeedInv
  <2>1. /\ feed \in [interval: Interval, paused: BOOLEAN, requested: BOOLEAN, failures: Nat]
        /\ feed.failures = 0
    <3>1. feed \in [interval: Interval, paused: {FALSE}, requested: {FALSE}, failures: {0}]
      BY DEF Init
    <3>2. PICK off \in {FALSE}, none \in {0} :
            feed \in [interval: Interval, paused: {off}, requested: {off}, failures: {none}]
      BY <3>1
    <3>3. off \in BOOLEAN /\ none \in Nat /\ none = 0
      OBVIOUS
    <3> QED
      BY <3>2, <3>3
  <2>2. /\ attempts \in Seq({"running", "success", "failed"}) /\ Len(attempts) = 2
        /\ attempts[1] = "failed" /\ attempts[2] = "success"
    BY DEF Init
  <2>3. /\ feed.failures <= Len(attempts) /\ feed.failures < Len(attempts)
        /\ \A i \in DOMAIN attempts : attempts[i] # "running"
    BY <2>1, <2>2
  <2> QED
    BY <2>1, <2>2, <2>3 DEF FeedInv
<1>7. IsRequest(r)
  BY <1>2 DEF IsRequest
<1>8. RequestInv
  BY <1>3, <1>5, <1>7 DEF RequestInv
<1>9. ControlInv
  BY <1>1, <1>2, <1>3, <1>5 DEF ControlInv, Waits, Actions
<1>10. IsPast(NoOverview)
  BY <1>6, NothingIsPast
<1>11. PastInv
  BY <1>1, <1>2, <1>3, <1>5, <1>10 DEF PastInv
<1>12. \A t \in Slot : IsNow(t) <=> t = n
  BY <1>1, <1>2, <1>3, <1>5 DEF IsNow
<1>13. OverviewInv
  BY <1>2, <1>5, <1>12 DEF OverviewInv
<1>14. \A t \in Slot : requests[t].kind # "history"
  BY <1>2, <1>3, <1>5
<1>15. AskedInv /\ HistoryInv
  BY <1>1, <1>14 DEF AskedInv, HistoryInv, IsAsked
<1> QED
  BY <1>6, <1>8, <1>9, <1>11, <1>13, <1>15 DEF PanelInv

LEMMA PanelInvNext == PanelInv /\ [Next]_vars => PanelInv'
<1> SUFFICES ASSUME PanelInv, [Next]_vars PROVE PanelInv'
  OBVIOUS
<1>1. CASE UNCHANGED <<tables, screen, changed>>
  BY <1>1, PanelInvStutters
<1>2. CASE Collect
  BY <1>2, CollectInv
<1>3. CASE User
  BY <1>3, RefreshInv, ControlActionsInv, TypeIntervalInv, HistoryActionsInv DEF User
<1>4. ASSUME NEW s \in Slot, Server(s) PROVE PanelInv'
  BY <1>4, ReadFeedsInv, ReadAttemptsInv, ServeHistoryInv, ServeActionInv DEF Server
<1>5. ASSUME NEW s \in Slot, Client(s) PROVE PanelInv'
  BY <1>5, ReceiveOverviewInv, FailOverviewInv, ReceiveActionInv, FailActionInv,
     HistoryAnswersInv DEF Client
<1>6. CASE UNCHANGED vars
  BY <1>1, <1>6 DEF vars
<1> QED
  BY <1>1, <1>2, <1>3, <1>4, <1>5, <1>6 DEF Next

LEMMA HeartVarsStay ==
  Collect \/ User \/ (\E s \in Slot : Server(s) \/ Client(s)) => UNCHANGED heartVars
<1>1. CASE Collect
  BY <1>1 DEF Collect
<1>2. CASE User
  <2>1. CASE Refresh \/ TypeInterval
    BY <2>1 DEF Refresh, TypeInterval
  <2>2. CASE SaveInterval \/ togglePaused \/ requestFetch
    BY <2>2 DEF SaveInterval, togglePaused, requestFetch, Act
  <2>3. CASE selectFeed \/ SetFilter \/ Newest \/ Retry \/ Older
    BY <2>3 DEF selectFeed, SetFilter, Newest, Retry, Older, HistoryAction
  <2> QED
    BY <1>2, <2>1, <2>2, <2>3 DEF User
<1>3. ASSUME NEW s \in Slot, Server(s) PROVE UNCHANGED heartVars
  BY <1>3 DEF Server, ReadFeeds, ReadAttempts, ServeHistory, ServeAction, rest
<1>4. ASSUME NEW s \in Slot, Client(s) PROVE UNCHANGED heartVars
  BY <1>4 DEF Client, ReceiveOverview, FailOverview, ReceiveAction, FailAction,
     ReceiveHistory, FailHistory
<1> QED
  BY <1>1, <1>2, <1>3, <1>4

Inv == HeartInv /\ PanelInv

LEMMA InvHolds == Spec => []Inv
<1>1. Init => Inv
  BY HeartInvInit, PanelInvInit DEF Init, Inv
<1>2. Inv /\ [Next]_vars => Inv'
  <2> SUFFICES ASSUME Inv, [Next]_vars PROVE HeartInv'
    BY PanelInvNext DEF Inv
  <2>1. CASE HeartNext
    BY <2>1, HeartInvNext DEF Inv
  <2>2. CASE UNCHANGED heartVars
    BY <2>2, HeartInvStutters DEF Inv
  <2>3. CASE UNCHANGED vars
    BY <2>2, <2>3 DEF vars
  <2> QED
    BY <2>1, <2>2, <2>3, HeartVarsStay DEF Next
<1> QED
  BY <1>1, <1>2, PTL DEF Spec

LEMMA InvIsTypeOK == PanelInv => TypeOK
<1> SUFFICES ASSUME PanelInv PROVE TypeOK
  OBVIOUS
<1>1. feed.interval \in Interval /\ feed.failures \in 0..Len(attempts)
  BY DEF PanelInv, FeedInv
<1>2. control.pending <=> \E s \in Slot : requests[s].kind \in Actions \/ requests[s].act
  BY DEF PanelInv, ControlInv, Waits
<1>3. list.loading <=> \E s \in Slot : requests[s].kind = "history" /\ IsCurrent(s)
  BY DEF PanelInv, AskedInv, IsAsked, IsCurrent
<1> QED
  BY <1>1, <1>2, <1>3 DEF TypeOK, PanelInv, FeedInv, ControlInv

LEMMA NothingIsAskedWhenQuiet ==
  PanelInv /\ Quiet => \A s \in Slot : ~IsNow(s) /\ ~IsAsked(s)
BY DEF Quiet, IsNow, IsAsked

(***************************************************************************)
(* What the panel says of the collector is true: a collector that is       *)
(* alive, stopped in order or died is described as such (collector-        *)
(* status.tsx, describeCollectorStatus).                                   *)
(***************************************************************************)
THEOREM CollectorIsDescribed == Spec => []StatusIsTrue
<1>1. Inv => StatusIsTrue
  BY StatusFollows DEF Inv
<1> QED
  BY <1>1, InvHolds, PTL

(***************************************************************************)
(* A quiet panel shows what is stored, whatever order the overviews were   *)
(* answered in (web/admin-panel.tsx, refresh), and the form's preview is   *)
(* what the server computes (computeNextRunAt).                            *)
(***************************************************************************)
THEOREM QuietPanelAgrees == Spec => []ShownAgreesWhenQuiet
<1>1. Inv => ShownAgreesWhenQuiet
  <2> SUFFICES ASSUME PanelInv PROVE ShownAgreesWhenQuiet
    BY DEF Inv
  <2>1. Quiet /\ Mounted /\ ~panel.error /\ ~changed =>
          Shown = feed /\ panel.overview.latest = Len(attempts) /\ panel.overview.status = Latest
    BY NothingIsAskedWhenQuiet DEF PanelInv, OverviewInv, KnowsAttempts, Shown
  <2>2. \A minutes \in Interval :
          previewNextRunAt(feed.failures, minutes, now)
            = computeNextRunAt(feed.failures, minutes, now)
    BY DEF previewNextRunAt, computeNextRunAt, RetryDelay
  <2> QED
    BY <2>1, <2>2, InvIsTypeOK DEF ShownAgreesWhenQuiet
<1> QED
  BY <1>1, InvHolds, PTL

(***************************************************************************)
(* The history shown is the one asked for last, and follows the overview   *)
(* (web/admin-history.tsx: the effect and its clean-up).                   *)
(***************************************************************************)
THEOREM HistoryFollows == Spec => []HistoryIsOfSelection
<1>1. Inv => HistoryIsOfSelection
  <2> SUFFICES ASSUME PanelInv, list.selected, ~list.error
               PROVE  /\ ~list.loading =>
                           list.page.filter = list.filter /\ list.page.before = list.before
                      /\ Quiet /\ ~panel.error /\ ~changed =>
                           list.page = AttemptPage(list.filter, list.before)
    BY DEF Inv, HistoryIsOfSelection
  <2>1. ASSUME Quiet, ~panel.error, ~changed
        PROVE  list.page = AttemptPage(list.filter, list.before)
    <3>1. ~list.loading
      BY <2>1, NothingIsAskedWhenQuiet DEF PanelInv, AskedInv
    <3>2. KnowsAttempts(panel.overview)
      BY <2>1, NothingIsAskedWhenQuiet DEF PanelInv, OverviewInv
    <3> QED
      BY <3>1, <3>2, PageOfAttempts DEF PanelInv, HistoryInv
  <2> QED
    BY <2>1 DEF PanelInv, HistoryInv
<1> QED
  BY <1>1, InvHolds, PTL

(***************************************************************************)
(* Pages of attempts.                                                      *)
(***************************************************************************)
LEMMA LeastExists ==
  ASSUME NEW T \in SUBSET Nat, T # {}
  PROVE  \E i \in T : \A j \in T : i <= j
<1>1. IsWellFoundedOn(OpToRel(<, Nat), Nat)
  BY NatLessThanWellFounded
<1> DEFINE R == OpToRel(<, Nat)
<1>2. \A x, y \in Nat : x < y => <<x, y>> \in R
  BY DEF OpToRel
<1>3. IsWellFoundedOn(R, Nat)
  BY <1>1
<1> HIDE DEF R
<1>4. \E i \in T : \A j \in T : ~(<<j, i>> \in R)
  BY <1>3, WFMin, Zenon
<1> QED
  <2>1. PICK i \in T : \A j \in T : ~(<<j, i>> \in R)
    BY <1>4
  <2>2. \A j \in T : j \in Nat /\ i \in Nat /\ ~(j < i)
    BY <1>2, <2>1
  <2> QED
    BY <2>1, <2>2

LEMMA GreatestExists ==
  ASSUME NEW n \in Nat, NEW T \in SUBSET (1..n), T # {}
  PROVE  \E i \in T : \A j \in T : j <= i
<1> DEFINE U == {n - i : i \in T}
<1>0. \A i \in T : i \in 1..n /\ n - i \in Nat
  OBVIOUS
<1>1. U \in SUBSET Nat /\ U # {}
  BY <1>0
<1>2. PICK u \in U : \A v \in U : u <= v
  BY <1>1, LeastExists
<1>3. PICK i \in T : u = n - i
  BY <1>2
<1>4. \A j \in T : n - i <= n - j
  BY <1>2, <1>3
<1> QED
  BY <1>0, <1>4

\* The attempts of a page: those of the matching that fewer than a page are newer than.
Newer(matching, i) == {k \in matching : k > i}
PageRows(matching) == {i \in matching : Cardinality(Newer(matching, i)) < PageSize}

\* A page is the newest matching attempts, is empty only where none match, and is all
\* of them unless they are more than a page.
LEMMA PageRowsFacts ==
  ASSUME NEW n \in Nat, NEW matching \in SUBSET (1..n)
  PROVE  /\ \A i \in matching \ PageRows(matching), j \in PageRows(matching) : i < j
         /\ matching # {} => PageRows(matching) # {}
         /\ Cardinality(matching) <= PageSize => PageRows(matching) = matching
         /\ Cardinality(matching) > PageSize => PageRows(matching) # matching
<1>0. \A i \in matching : i \in Nat
  OBVIOUS
<1>1. IsFiniteSet(matching) /\ Cardinality(matching) \in Nat
  <2>1. IsFiniteSet(1..n)
    BY FS_Interval
  <2> QED
    BY <2>1, FS_Subset, FS_CardinalityType
<1>2. \A i : /\ IsFiniteSet(Newer(matching, i)) /\ Cardinality(Newer(matching, i)) \in Nat
  BY <1>1, FS_Subset, FS_CardinalityType DEF Newer
<1>3. ASSUME NEW i \in matching, NEW j \in matching, j <= i
      PROVE  Cardinality(Newer(matching, i)) <= Cardinality(Newer(matching, j))
  <2>1. ASSUME NEW k \in matching, k > i PROVE k > j
    <3>1. i \in Nat /\ j \in Nat /\ k \in Nat
      BY <1>0
    <3> QED
      BY <1>3, <2>1, <3>1
  <2>2. Newer(matching, i) \subseteq Newer(matching, j)
    BY <2>1 DEF Newer
  <2> QED
    BY <1>2, <2>2, FS_Subset
<1>4. \A i \in matching \ PageRows(matching), j \in PageRows(matching) : i < j
  BY <1>0, <1>2, <1>3, PanelAssumption DEF PageRows
<1>5. ASSUME matching # {} PROVE PageRows(matching) # {}
  <2>1. PICK i \in matching : \A j \in matching : j <= i
    BY <1>5, GreatestExists
  <2>2. Newer(matching, i) = {}
    <3>1. \A k \in matching : i \in Nat /\ k \in Nat /\ ~(k > i)
      BY <1>0, <2>1
    <3> QED
      BY <3>1 DEF Newer
  <2>3. Cardinality(Newer(matching, i)) = 0
    BY <2>2, FS_EmptySet
  <2> QED
    BY <2>3, PanelAssumption DEF PageRows
<1>6. ASSUME Cardinality(matching) <= PageSize PROVE PageRows(matching) = matching
  <2>1. ASSUME NEW i \in matching PROVE Cardinality(Newer(matching, i)) < PageSize
    <3>1. Newer(matching, i) \subseteq matching \ {i}
      BY DEF Newer
    <3>2. /\ Cardinality(matching \ {i}) = Cardinality(matching) - 1
          /\ IsFiniteSet(matching \ {i}) /\ Cardinality(matching \ {i}) \in Nat
      BY <1>1, FS_RemoveElement, FS_CardinalityType
    <3>3. Cardinality(Newer(matching, i)) <= Cardinality(matching \ {i})
      BY <3>1, <3>2, FS_Subset
    <3> QED
      BY <1>1, <1>2, <1>6, <3>2, <3>3, PanelAssumption
  <2> QED
    BY <2>1 DEF PageRows
<1>7. ASSUME Cardinality(matching) > PageSize PROVE PageRows(matching) # matching
  <2>1. matching # {}
    BY <1>7, FS_EmptySet, PanelAssumption
  <2>2. PICK i \in matching : \A j \in matching : i <= j
    BY <2>1, LeastExists
  <2>3. Newer(matching, i) = matching \ {i}
    <3>1. \A k \in matching : k > i <=> k # i
      BY <1>0, <2>2
    <3> QED
      BY <3>1 DEF Newer
  <2>4. Cardinality(Newer(matching, i)) = Cardinality(matching) - 1
    BY <1>1, <2>3, FS_RemoveElement
  <2> QED
    BY <1>1, <1>7, <2>4, PanelAssumption DEF PageRows
<1> QED
  BY <1>4, <1>5, <1>6, <1>7

\* The attempts an answer is chosen from.
Matching(filter, before) ==
  {i \in DOMAIN attempts :
     (before = NoId \/ i < before) /\ (filter = "all" \/ attempts[i] = filter)}

LEMMA AttemptPageFacts ==
  ASSUME FeedInv, NEW filter, NEW before
  PROVE  /\ DOMAIN AttemptPage(filter, before).rows = PageRows(Matching(filter, before))
         /\ AttemptPage(filter, before).nextBefore =
              IF Cardinality(Matching(filter, before)) > PageSize
              THEN CHOOSE i \in PageRows(Matching(filter, before)) :
                     \A j \in PageRows(Matching(filter, before)) : i <= j
              ELSE NoId
         /\ Matching(filter, before) \in SUBSET (1..Len(attempts))
<1>1. AttemptPage(filter, before).rows =
        [i \in PageRows(Matching(filter, before)) |-> attempts[i]]
  BY DEF AttemptPage, PageRows, Newer, Matching
<1>2. AttemptPage(filter, before).nextBefore =
        IF Cardinality(Matching(filter, before)) > PageSize
        THEN CHOOSE i \in PageRows(Matching(filter, before)) :
               \A j \in PageRows(Matching(filter, before)) : i <= j
        ELSE NoId
  BY DEF AttemptPage, PageRows, Newer, Matching
<1>3. Matching(filter, before) \in SUBSET (1..Len(attempts))
  BY DEF Matching, FeedInv
<1> QED
  BY <1>1, <1>2, <1>3

(***************************************************************************)
(* Older pages go on where the page ends: every attempt is on one, in      *)
(* order, and the last page says that it is (server/admin-routes.ts, the   *)
(* query for one more than a page).                                        *)
(***************************************************************************)
THEOREM PagesAreComplete == Spec => []PagesCoverAttempts
<1>1. Inv => PagesCoverAttempts
  <2> SUFFICES ASSUME FeedInv, NEW filter \in Filter, NEW before \in {NoId} \cup DOMAIN attempts
               PROVE  LET page == AttemptPage(filter, before)
                          older == AttemptPage(filter, page.nextBefore)
                          all == {i \in DOMAIN attempts : filter = "all" \/ attempts[i] = filter}
                          rest0 == {i \in all : before = NoId \/ i < before} \ DOMAIN page.rows
                      IN IF page.nextBefore = NoId THEN rest0 = {}
                         ELSE /\ DOMAIN older.rows # {} /\ DOMAIN older.rows \subseteq rest0
                              /\ \A i \in rest0, j \in DOMAIN page.rows : i < j
    BY DEF Inv, PanelInv, PagesCoverAttempts
  <2> DEFINE page == AttemptPage(filter, before)
             older == AttemptPage(filter, page.nextBefore)
             all == {i \in DOMAIN attempts : filter = "all" \/ attempts[i] = filter}
             rest0 == {i \in all : before = NoId \/ i < before} \ DOMAIN page.rows
             M == Matching(filter, before)
             P == PageRows(M)
             L == Matching(filter, page.nextBefore)
  <2>1. Len(attempts) \in Nat /\ M \in SUBSET (1..Len(attempts)) /\ L \in SUBSET (1..Len(attempts))
    <3>1. Len(attempts) \in Nat
      BY DEF FeedInv
    <3> QED
      BY <3>1, AttemptPageFacts
  <2>2. DOMAIN page.rows = P /\ DOMAIN older.rows = PageRows(L)
    BY AttemptPageFacts
  <2>3. page.nextBefore = IF Cardinality(M) > PageSize
                          THEN CHOOSE i \in P : \A j \in P : i <= j ELSE NoId
    BY AttemptPageFacts
  <2>4. /\ \A i \in M \ P, j \in P : i < j
        /\ M # {} => P # {}
        /\ Cardinality(M) <= PageSize => P = M
        /\ Cardinality(M) > PageSize => P # M
    BY <2>1, PageRowsFacts
  <2>5. P \subseteq M /\ PageRows(L) \subseteq L
    BY DEF PageRows
  <2>6. L # {} => PageRows(L) # {}
    BY <2>1, PageRowsFacts
  <2>7. rest0 = M \ P
    BY <2>2 DEF Matching
  <2>8. Cardinality(M) \in Nat
    <3>1. IsFiniteSet(1..Len(attempts))
      BY <2>1, FS_Interval
    <3> HIDE DEF M
    <3> QED
      BY <2>1, <3>1, FS_Subset, FS_CardinalityType
  <2>9. L = {i \in DOMAIN attempts : (page.nextBefore = NoId \/ i < page.nextBefore)
                                      /\ (filter = "all" \/ attempts[i] = filter)}
    BY DEF Matching
  <2>10. M = {i \in DOMAIN attempts : (before = NoId \/ i < before)
                                      /\ (filter = "all" \/ attempts[i] = filter)}
    BY DEF Matching
  <2>11. CASE Cardinality(M) <= PageSize
    <3>1. page.nextBefore = NoId /\ P = M
      BY <2>3, <2>4, <2>8, <2>11, PanelAssumption
    <3> QED
      BY <2>7, <3>1
  <2>12. CASE Cardinality(M) > PageSize
    <3> HIDE DEF P, M, L, page, older, rest0
    <3>1. P # {} /\ P # M /\ P \in SUBSET Nat
      BY <2>1, <2>4, <2>5, <2>12
    <3>2. \E i \in P : \A j \in P : i <= j
      BY <3>1, LeastExists
    <3>3. page.nextBefore \in P /\ \A j \in P : page.nextBefore <= j
      BY <2>3, <2>12, <3>2
    <3>4. page.nextBefore # NoId /\ page.nextBefore \in 1..Len(attempts)
      <4>1. page.nextBefore \in 1..Len(attempts)
        BY <2>1, <2>5, <3>3
      <4> QED
        BY <2>1, <4>1 DEF NoId
    <3>5. L = M \ P
      <4>1. \A i \in M \ P : i < page.nextBefore
        BY <2>4, <3>3
      <4>2. ASSUME NEW i \in L PROVE i \in M \ P
        <5>1. i \in 1..Len(attempts) /\ i < page.nextBefore
          BY <2>1, <2>9, <3>4
        <5>2. i \notin P
          BY <3>3, <3>4, <5>1
        <5>3. before = NoId \/ (before \in 1..Len(attempts) /\ page.nextBefore < before)
          BY <2>5, <2>10, <3>3 DEF FeedInv
        <5>4. before = NoId \/ i < before
          BY <3>4, <5>1, <5>3
        <5> QED
          BY <2>9, <2>10, <5>2, <5>4
      <4>3. ASSUME NEW i \in M \ P PROVE i \in L
        BY <2>9, <2>10, <4>1
      <4> QED
        BY <4>2, <4>3
    <3>6. L # {}
      BY <2>5, <3>1, <3>5
    <3>7. PageRows(L) # {} /\ PageRows(L) \subseteq M \ P
      BY <2>5, <2>6, <3>5, <3>6
    <3> QED
      BY <2>2, <2>4, <2>7, <3>4, <3>7 DEF older, page, rest0
  <2> QED
    BY <2>8, <2>11, <2>12, PanelAssumption
<1> QED
  BY <1>1, InvHolds, PTL
=============================================================================
