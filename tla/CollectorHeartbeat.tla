------------------------- MODULE CollectorHeartbeat -------------------------
(***************************************************************************)
(* The sign of life of the resident collector (collector/collector-        *)
(* heartbeat.ts, main.ts) and the status the admin panel derives from it   *)
(* (server/collector-status.ts).                                           *)
(*                                                                         *)
(* One unit of time is the interval of the timer.  The timer fires on time *)
(* while the process lives, whatever the loop waits for; a record is a     *)
(* statement that may fail, and records wait for each other.               *)
(***************************************************************************)
EXTENDS Integers, Sequences

CONSTANTS
  StaleAfter,   \* 120 seconds, in intervals of the timer
  MaxTime,      \* bound: the clock
  MaxEvents     \* bound: what else happens

ASSUME HeartbeatAssumption ==
  StaleAfter \in Nat /\ StaleAfter > 1 /\ MaxTime \in Nat /\ MaxEvents \in Nat

VARIABLES
  now,        \* the clock
  process,    \* where the collector is
  chain,      \* pending: how many records are not settled
  fired,      \* the timer's last time
  heartbeat,  \* the row of collector_heartbeat
  events,     \* what else has happened (for MaxEvents)
  \* History, read by properties only.
  failedAt,   \* when a statement of the heartbeat failed last
  endedAt,    \* when the process was gone
  ending      \* "seen" once a record is written; "marked" or "died" after it ended

heartVars == <<now, process, chain, fired, heartbeat, failedAt, endedAt, ending>>

Never == -StaleAfter
NoRow == [lastSeenAt |-> Never, stopped |-> FALSE]

HeartInit ==
  /\ now = 0 /\ process = "down" /\ chain = 0 /\ fired = 0 /\ heartbeat = NoRow
  /\ failedAt = Never /\ endedAt = Never /\ ending = "none"

Died == IF ending = "seen" THEN "died" ELSE "none"

Happens == events < MaxEvents /\ events' = events + 1

\* After the sweep: the first record is awaited before the loop.
Start ==
  /\ process = "down" /\ Happens
  /\ process' = "starting" /\ chain' = 1 /\ fired' = now
  /\ ending' = "none"   \* nothing of this process is in the row yet
  /\ UNCHANGED <<now, heartbeat, failedAt, endedAt>>

Fire ==
  /\ process = "looping" /\ fired < now
  /\ fired' = now /\ chain' = chain + 1
  /\ UNCHANGED <<now, process, heartbeat, events, failedAt, endedAt, ending>>

\* Mutant: a row that exists keeps its stop mark.
RecordedRow_KeepsMark == [heartbeat EXCEPT !.lastSeenAt = now]

RecordedRow == [lastSeenAt |-> now, stopped |-> FALSE]

Record ==
  /\ chain > 0
  /\ \/ /\ heartbeat' = RecordedRow
        /\ ending' = IF ending = "marked" THEN ending ELSE "seen"
        /\ UNCHANGED <<events, failedAt>>
     \/ /\ Happens
        /\ failedAt' = now /\ UNCHANGED <<heartbeat, ending>>
  /\ chain' = chain - 1
  /\ process' = IF process = "starting" THEN "looping" ELSE process
  /\ UNCHANGED <<now, fired, endedAt>>

\* A signal, or an exception of a round, leaves the loop; the timer is cleared.
LeaveLoop ==
  /\ process = "looping" /\ Happens
  /\ process' = "stopping"
  /\ UNCHANGED <<now, chain, fired, heartbeat, failedAt, endedAt, ending>>

MayMark == process = "stopping" /\ chain = 0

MarkStopped ==
  /\ MayMark
  /\ process' = "marked"
  /\ \/ /\ heartbeat' = [heartbeat EXCEPT !.stopped = heartbeat # NoRow]
        /\ ending' = "marked" /\ UNCHANGED <<events, failedAt>>
     \/ /\ Happens /\ failedAt' = now
        /\ ending' = Died /\ UNCHANGED heartbeat
  /\ UNCHANGED <<now, chain, fired, endedAt>>

\* The process ends when nothing is left of its event loop; docker may start it again.
Exit ==
  /\ process = "marked" /\ chain = 0
  /\ process' = "down" /\ endedAt' = now
  /\ UNCHANGED <<now, chain, fired, heartbeat, events, failedAt, ending>>

Kill ==
  /\ process \notin {"down", "marked"} /\ Happens
  /\ process' = "down" /\ chain' = 0 /\ endedAt' = now /\ ending' = Died
  /\ UNCHANGED <<now, fired, heartbeat, failedAt>>

\* Statements take less than an interval, and the timer is not late.
Tick ==
  /\ now < MaxTime
  /\ chain = 0 \/ failedAt = now
  /\ process = "looping" => fired = now
  /\ process \in {"down", "looping"}
  /\ now' = now + 1
  /\ UNCHANGED <<process, chain, fired, heartbeat, events, failedAt, endedAt, ending>>

HeartNext ==
  Start \/ Fire \/ Record \/ LeaveLoop \/ MarkStopped \/ Exit \/ Kill \/ Tick

describeCollectorStatus(row, time) ==
  CASE row.lastSeenAt = Never -> "unknown"
    [] row.lastSeenAt # Never /\ row.stopped -> "stopped"
    [] row.lastSeenAt # Never /\ ~row.stopped /\ time - row.lastSeenAt >= StaleAfter -> "stale"
    [] OTHER -> "alive"

\* ------------------------------------------------------------------- properties
Status == describeCollectorStatus(heartbeat, now)

\* A collector in its loop is shown as answering, however long a fetch takes, once no
\* record has failed for as long as it takes to be called stale.
LoopIsAlive ==
  process = "looping" /\ now - failedAt >= StaleAfter => Status = "alive"

\* A collector that left its loop is shown as stopped until it is started again; one
\* that was seen and died is not shown as stopped; neither as answering for long.
EndIsShown ==
  process = "down" =>
    /\ ending = "marked" => Status = IF heartbeat = NoRow THEN "unknown" ELSE "stopped"
    /\ ending = "died" => Status # "stopped"
    /\ now - endedAt >= StaleAfter => Status # "alive"

\* The status tells whether the collector is in its loop: both of the above.
StatusIsTrue == LoopIsAlive /\ EndIsShown
=============================================================================
