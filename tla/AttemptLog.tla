----------------------------- MODULE AttemptLog -----------------------------
(***************************************************************************)
(* What the collector promises about fetch_attempt and the manual requests *)
(* of each feed, whatever processes, crashes and schedules are behind it:  *)
(* attempts of one feed follow each other, only the last one can be        *)
(* running, an ended one is final, and a request waits for the start of    *)
(* the next attempt and is consumed by it.                                 *)
(***************************************************************************)
EXTENDS Naturals, Sequences

CONSTANT Feed

VARIABLES
  log,        \* log[f]: the outcomes of f's attempts, oldest first
  requested   \* requested[f]: a manual request of f is waiting

vars == <<log, requested>>

Running(f) == log[f] # <<>> /\ log[f][Len(log[f])] = "running"

Init ==
  /\ log = [f \in Feed |-> <<>>]
  /\ requested = [f \in Feed |-> FALSE]

Request(f) ==
  /\ ~requested[f] /\ ~Running(f)
  /\ requested' = [requested EXCEPT ![f] = TRUE]
  /\ UNCHANGED log

Begin(f) ==
  /\ ~Running(f)
  /\ log' = [log EXCEPT ![f] = Append(@, "running")]
  /\ requested' = [requested EXCEPT ![f] = FALSE]

End(f, outcome) ==
  /\ Running(f)
  /\ log' = [log EXCEPT ![f][Len(log[f])] = outcome]
  /\ UNCHANGED requested

\* The sweep after a crash ends what was running, of every feed at once.
Abandoned(rows) ==
  IF rows # <<>> /\ rows[Len(rows)] = "running"
  THEN [rows EXCEPT ![Len(rows)] = "interrupted"] ELSE rows

Sweep ==
  /\ log' = [f \in Feed |-> Abandoned(log[f])]
  /\ UNCHANGED requested

Next ==
  \/ \E f \in Feed :
       \/ Request(f)
       \/ Begin(f)
       \/ \E outcome \in {"success", "failed"} : End(f, outcome)
  \/ Sweep

Spec == Init /\ [][Next]_vars
=============================================================================
