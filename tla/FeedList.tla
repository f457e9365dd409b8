------------------------------ MODULE FeedList ------------------------------
(***************************************************************************)
(* How a page follows the collector (web/app.tsx, rank-table.tsx): the     *)
(* shell asks for the list of feeds every minute and after its own         *)
(* changes, and an open rank table asks for its snapshot again whenever    *)
(* the list shows another next_run_at.  Neither numbers its requests.      *)
(*                                                                         *)
(* One ranked feed is followed.  Times only matter by being different, so  *)
(* next_run_at counts its changes; snapshots are numbered.                 *)
(***************************************************************************)
EXTENDS Integers, SequencesExt

CONSTANTS
  MaxEvents,   \* bound: attempts, PATCHes, openings and retries of the table
  MaxAsked     \* bound: requests of a kind on their way at a time

ASSUME FeedListAssumption == MaxEvents \in Nat /\ MaxAsked \in Nat \ {0}

VARIABLES
  feedRow,    \* the feed's row and its latest snapshot
  feeds,      \* the shell's list
  listAsks,   \* requests for it, in the order sent
  table,      \* the rank table
  tableAsks,  \* its requests
  events      \* for MaxEvents

listVars == <<feedRow, feeds, listAsks, table, tableAsks, events>>

NoFeeds == [loaded |-> FALSE, nextRunAt |-> 0, taken |-> 0, told |-> 0]
NoTable == [mounted |-> FALSE, snapshot |-> 0, failed |-> FALSE, late |-> FALSE]

\* A request is answered by the server at one time and reaches the page at another;
\* `overtaken`: the answer of one sent later has been there before.
Asked == [served |-> FALSE, overtaken |-> FALSE, nextRunAt |-> 0, taken |-> 0, told |-> 0]

ListInit ==
  /\ feedRow = [nextRunAt |-> 0, taken |-> 0, told |-> 0, running |-> FALSE, patched |-> FALSE]
  /\ feeds = NoFeeds /\ listAsks = <<Asked>>
  /\ table = NoTable /\ tableAsks = <<>>
  /\ events \in {0, MaxEvents}   \* followed, or resting

Event == events < MaxEvents /\ events' = events + 1

\* ---------------------------------------------------------------------- the server
StartAttempt ==
  /\ Event /\ ~feedRow.running
  /\ feedRow' = [feedRow EXCEPT !.running = TRUE, !.patched = FALSE]
  /\ UNCHANGED <<feeds, listAsks, table, tableAsks>>

\* History: `told` is the snapshot that was the latest at the last change of next_run_at.
SetNextRunAt(r) == [r EXCEPT !.nextRunAt = @ + 1, !.told = r.taken]

\* The outcome, the snapshot and next_run_at are written together; next_run_at only
\* where no PATCH came since the start.
EndAttempt ==
  /\ feedRow.running
  /\ \E succeeds \in BOOLEAN :
       LET ended == [feedRow EXCEPT !.running = FALSE, !.taken = IF succeeds THEN @ + 1 ELSE @]
       IN feedRow' = IF feedRow.patched THEN ended ELSE SetNextRunAt(ended)
  /\ UNCHANGED <<feeds, listAsks, table, tableAsks, events>>

\* A pause leaves next_run_at; a new interval and the end of a pause set it.
Patch ==
  /\ Event
  /\ \E sets \in BOOLEAN :
       feedRow' = [IF sets THEN SetNextRunAt(feedRow) ELSE feedRow EXCEPT !.patched = TRUE]
  /\ UNCHANGED <<feeds, listAsks, table, tableAsks>>

Answered(asks, i) ==
  [asks EXCEPT ![i] = [@ EXCEPT !.served = TRUE, !.nextRunAt = feedRow.nextRunAt,
                         !.taken = feedRow.taken, !.told = feedRow.told]]

ServeList(i) ==
  /\ i \in DOMAIN listAsks /\ ~listAsks[i].served
  /\ listAsks' = Answered(listAsks, i)
  /\ UNCHANGED <<feedRow, feeds, table, tableAsks, events>>

ServeTable(i) ==
  /\ i \in DOMAIN tableAsks /\ ~tableAsks[i].served
  /\ tableAsks' = Answered(tableAsks, i)
  /\ UNCHANGED <<feedRow, feeds, listAsks, table, events>>

\* ---------------------------------------------------------------------- the table
Without(asks, i) == RemoveAt(asks, i)

\* The answer of i is there: earlier requests are overtaken.
Overtaking(asks, i) ==
  RemoveAt([j \in DOMAIN asks |-> IF j < i THEN [asks[j] EXCEPT !.overtaken = TRUE] ELSE asks[j]], i)

loadSnapshot(tab) ==
  /\ Len(tableAsks) < MaxAsked
  /\ table' = [tab EXCEPT !.failed = FALSE]
  /\ tableAsks' = Append(tableAsks, Asked)

\* The table is opened with the list's row of its feed, and left.
MountTable ==
  /\ Event /\ feeds.loaded /\ ~table.mounted
  /\ loadSnapshot([NoTable EXCEPT !.mounted = TRUE])
  /\ UNCHANGED <<feedRow, feeds, listAsks>>

UnmountTable ==
  /\ table.mounted
  /\ table' = NoTable /\ tableAsks' = <<>>
  /\ UNCHANGED <<feedRow, feeds, listAsks, events>>

RetryTable ==
  /\ Event /\ table.mounted /\ table.failed
  /\ loadSnapshot(table)
  /\ UNCHANGED <<feedRow, feeds, listAsks>>

ReceiveSnapshot(i) ==
  /\ i \in DOMAIN tableAsks /\ tableAsks[i].served
  /\ table' = [table EXCEPT !.snapshot = tableAsks[i].taken, !.late = tableAsks[i].overtaken]
  /\ tableAsks' = Overtaking(tableAsks, i)
  /\ UNCHANGED <<feedRow, feeds, listAsks, events>>

FailSnapshot(i) ==
  /\ i \in DOMAIN tableAsks
  /\ table' = [table EXCEPT !.failed = TRUE]
  /\ tableAsks' = Without(tableAsks, i)
  /\ UNCHANGED <<feedRow, feeds, listAsks, events>>

\* ----------------------------------------------------------------------- the list
\* Mutant: the list is asked for once.
MayAsk_Once == ~feeds.loaded

\* The timer, a retry, or a read cursor that has been saved.
MayAsk == TRUE

refreshFeeds ==
  /\ MayAsk /\ Len(listAsks) < MaxAsked
  /\ listAsks' = Append(listAsks, Asked)
  /\ UNCHANGED <<feedRow, feeds, table, tableAsks, events>>

\* Mutant: the table depends on its feed's id only.
TableDepends_Id(answer) == FALSE

TableDepends(answer) == table.mounted /\ answer.nextRunAt # feeds.nextRunAt

ReceiveFeeds(i) ==
  /\ i \in DOMAIN listAsks /\ listAsks[i].served
  /\ LET answer == listAsks[i]
     IN /\ feeds' = [loaded |-> TRUE, nextRunAt |-> answer.nextRunAt,
                    taken |-> answer.taken, told |-> answer.told]
        /\ IF TableDepends(answer) THEN loadSnapshot(table) ELSE UNCHANGED <<table, tableAsks>>
  /\ listAsks' = Without(listAsks, i)
  /\ UNCHANGED <<feedRow, events>>

FailFeeds(i) ==
  /\ i \in DOMAIN listAsks
  /\ listAsks' = Without(listAsks, i)
  /\ UNCHANGED <<feedRow, feeds, table, tableAsks, events>>

ListRest ==
  \/ StartAttempt \/ EndAttempt \/ Patch
  \/ MountTable \/ UnmountTable \/ RetryTable \/ refreshFeeds
  \/ \E i \in 1..MaxAsked :
       ServeList(i) \/ ServeTable(i) \/ ReceiveSnapshot(i) \/ FailSnapshot(i) \/ FailFeeds(i)

\* The timer goes on; requests end, and the list's are not always lost.
ListFairness ==
  /\ WF_listVars(refreshFeeds)
  /\ WF_listVars(\E i \in 1..MaxAsked : ServeTable(i) \/ ReceiveSnapshot(i) \/ FailSnapshot(i))
  /\ SF_listVars(\E i \in 1..MaxAsked : ServeList(i))
  /\ SF_listVars(\E i \in 1..MaxAsked : ReceiveFeeds(i))

\* --------------------------------------------------------------------- properties
\* Once its requests are answered, an open rank table is no older than the list of feeds
\* beside it tells, whatever the order of the list's answers.  Not covered: a snapshot
\* answer that comes after one asked for later, a failure that is shown, and a snapshot
\* stored after a PATCH during its attempt, of which next_run_at tells nothing yet.
TableKeepsUp ==
  table.mounted /\ tableAsks = <<>> /\ ~table.failed /\ ~table.late
    => table.snapshot >= feeds.told

\* An answer that comes late may put an older list on the screen, but not for good: when
\* the collector rests, the list ends up as the server's.
FeedsCatchUp == <>[](feeds.nextRunAt = feedRow.nextRunAt /\ feeds.taken = feedRow.taken)
=============================================================================
