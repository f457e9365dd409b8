---------------------------- MODULE OutboundHttp ----------------------------
(***************************************************************************)
(* The two clients of the outside world: the collector's handlers and the  *)
(* service's reader of original pages.  They share no state, so a fetch of *)
(* one is followed while the other rests.                                  *)
(***************************************************************************)
EXTENDS SourceFetch, OriginalPage

vars == <<sourceVars, pageVars>>

\* The proxy is set for the reader's pages, at one instant.
Init == SourceInit /\ PageInit /\ (proxy => now = FetchAt /\ site = <<>>)

Next ==
  \/ page = NoPage /\ ~proxy /\ SourceNext /\ UNCHANGED pageVars
  \/ job = NoJob /\ now = FetchAt /\ site = <<>> /\ PageNext /\ UNCHANGED sourceVars

Spec == Init /\ [][Next]_vars

\* ------------------------------------------------------------------- properties
\* What a fetch returns of a list, and what is cut out of a page, is whole (ListIsWhole,
\* ArrayIsRead).
WhatIsReadIsWhole == ListIsWhole /\ ArrayIsRead

\* Whatever the other side answers, a handler sends no more requests than pages, items and
\* repetitions allow (RequestsAreBounded; how long each takes and how large its body is is
\* not followed), and reading an original page stays within its redirects, time and size
\* (PageFetchIsBounded).
FetchesAreBounded == RequestsAreBounded /\ PageFetchIsBounded

\* At every instant the periods asked for are the ones meant (PeriodsAreRight), and
\* deadlines written without their year are read as the dates meant (DeadlineIsRead).
DatesAreRight == page = NoPage /\ job = NoJob => PeriodsAreRight /\ DeadlineIsRead
=============================================================================
