---------------------------- MODULE OriginalPage ----------------------------
(***************************************************************************)
(* Reading an entry's original page (server/original-page.ts, readable-    *)
(* content.ts, wanted-job-page.ts): redirects are followed by the service  *)
(* itself, each address is checked, the body is read up to a size, and one *)
(* time limit holds for all of it.                                         *)
(***************************************************************************)
EXTENDS Integers

CONSTANTS
  MaxRedirects,  \* 5 in the code
  Timeout,       \* 15 seconds, in units of the clock
  MaxBody,       \* 5 MB, in chunks
  MaxLength      \* bound: the chunks of a body

ASSUME PageAssumption ==
  {MaxRedirects, MaxBody, MaxLength} \subseteq Nat /\ Timeout \in Nat \ {0}

\* Addresses as far as the checks tell them apart: names, Wanted's among them, addresses
\* written as numbers (and localhost), and other schemes.
Url == {"name", "wanted", "wanted job", "public number", "private number", "other scheme"}

VARIABLES
  proxy,    \* WANTED_PROXY_URL is set
  page,     \* the page being read
  reached   \* history: what was connected to

pageVars == <<proxy, page, reached>>

NoPage == [phase |-> "idle", url |-> "name", hops |-> 0, time |-> 0,
           status |-> "none", html |-> FALSE, declared |-> 0, length |-> 0, got |-> 0,
           outcome |-> "none"]

PageInit == proxy \in BOOLEAN /\ page = NoPage /\ reached = {}

Fail(reason) == page' = [page EXCEPT !.phase = "failed", !.outcome = reason]
Waiting == page.phase \in {"connecting", "requested", "body"}

\* Where the loop takes up an address.
\* Mutant: only the first address is checked.
assertFetchableUrl_First == page.hops = 0 => page.url \notin {"private number", "other scheme"}

assertFetchableUrl == page.url \notin {"private number", "other scheme"}

IsProxied == proxy /\ page.url \in {"wanted", "wanted job"}

fetchOriginalPage ==
  /\ page = NoPage
  /\ \E url \in Url : page' = [NoPage EXCEPT !.phase = "address", !.url = url]
  /\ UNCHANGED <<proxy, reached>>

Request ==
  /\ page.phase = "address"
  /\ IF assertFetchableUrl THEN page' = [page EXCEPT !.phase = "connecting"] ELSE Fail("unreachable")
  /\ UNCHANGED <<proxy, reached>>

\* The name is looked up for the connection, and what was found is what is connected to;
\* numbers are not looked up, and the proxy looks up for itself.
lookupPublicAddress ==
  /\ page.phase = "connecting"
  /\ \E found \in {"public", "private"} :
       /\ page.url = "public number" => found = "public"
       /\ page.url = "private number" => found = "private"
       /\ IF found = "private" /\ ~IsProxied /\ page.url # "private number"
          THEN Fail("unreachable") /\ UNCHANGED reached
          ELSE /\ page' = [page EXCEPT !.phase = "requested"]
               /\ reached' = reached \cup {IF IsProxied THEN "proxy" ELSE found}
  /\ UNCHANGED proxy

Redirect ==
  /\ page.phase = "requested"
  /\ IF page.hops >= MaxRedirects THEN Fail("unreachable")
     ELSE \E url \in Url :
            page' = [page EXCEPT !.phase = "address", !.url = url, !.hops = @ + 1]
  /\ UNCHANGED <<proxy, reached>>

\* The head of an answer; a content-length of 0 stands for none.
Respond ==
  /\ page.phase = "requested"
  /\ \E status \in {"2xx", "else"}, html \in BOOLEAN, length \in 0..MaxLength :
       \E declared \in {0, length} :
         IF declared > MaxBody THEN Fail("too-large")
         ELSE page' = [page EXCEPT !.phase = "body", !.status = status, !.html = html,
                                   !.declared = declared, !.length = length]
  /\ UNCHANGED <<proxy, reached>>

IsTooLarge(total) == total > MaxBody

readLimitedBody ==
  /\ page.phase = "body"
  /\ IF page.got = page.length THEN page' = [page EXCEPT !.phase = "fetched"]
     ELSE IF IsTooLarge(page.got + 1) THEN Fail("too-large")
     ELSE page' = [page EXCEPT !.got = @ + 1]
  /\ UNCHANGED <<proxy, reached>>

IsOver == page.time >= Timeout

\* The connection breaks, or the time is over.
Break ==
  /\ Waiting
  /\ Fail(IF IsOver THEN "timeout" ELSE "unreachable")
  /\ UNCHANGED <<proxy, reached>>

PageTick ==
  /\ Waiting /\ ~IsOver
  /\ page' = [page EXCEPT !.time = @ + 1]
  /\ UNCHANGED <<proxy, reached>>

\* What is extracted may be empty.
readWantedJob == \/ page' = [page EXCEPT !.phase = "read", !.outcome = "view of job data"]
                 \/ Fail("empty")

readOriginal ==
  /\ page.phase = "fetched"
  /\ CASE page.status # "2xx" -> Fail("upstream-status")
       [] page.status = "2xx" /\ ~page.html -> Fail("not-html")
       [] page.status = "2xx" /\ page.html /\ page.url = "wanted job" -> readWantedJob
       [] OTHER -> \/ page' = [page EXCEPT !.phase = "read", !.outcome = "view"]
                   \/ Fail("empty")
  /\ UNCHANGED <<proxy, reached>>

PageNext ==
  \/ fetchOriginalPage \/ Request \/ lookupPublicAddress \/ Redirect \/ Respond
  \/ readLimitedBody \/ Break \/ PageTick \/ readOriginal

\* ------------------------------------------------------------------- properties
\* Whatever a page answers and wherever it redirects, reading it takes no longer than the
\* time limit, no more requests than redirects are allowed, and holds no more than the
\* largest body; what is shown is the whole body.
PageFetchIsBounded ==
  /\ page.time <= Timeout /\ page.hops <= MaxRedirects /\ page.got <= MaxBody
  /\ page.phase = "read" => page.got = page.length /\ page.status = "2xx" /\ page.html

\* The service connects to public addresses only, after any redirect and whatever a name
\* is found to be - public as far as the list of blocked networks tells, whose completeness
\* is not the model's; Wanted's pages go through the proxy where there is one.
OnlyPublicIsReached == reached \subseteq IF proxy THEN {"public", "proxy"} ELSE {"public"}
=============================================================================
