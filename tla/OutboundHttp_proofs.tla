------------------------ MODULE OutboundHttp_proofs ------------------------
(***************************************************************************)
(* Proofs about OutboundHttp: where the reader of original pages connects  *)
(* to, that fetches of both kinds are bounded, for every source, list and  *)
(* limit, that what they return is whole, and that the dates handlers      *)
(* compute are the ones meant.                                             *)
(***************************************************************************)
EXTENDS OutboundHttp, FiniteSetTheorems, SequenceTheorems, NaturalsInduction, TLAPS

(***************************************************************************)
(* Reading an original page.                                               *)
(***************************************************************************)
Outcome ==
  {"none", "unreachable", "too-large", "timeout", "upstream-status", "not-html", "empty",
   "view", "view of job data"}

Page ==
  [phase: {"idle", "address", "connecting", "requested", "body", "fetched", "read", "failed"},
   url: Url, hops: 0..MaxRedirects, time: 0..Timeout, status: {"none", "2xx", "else"},
   html: BOOLEAN, declared: Nat, length: Nat, got: 0..MaxBody,
   outcome: Outcome]

\* An address is connected to only after its check, and a page is taken for read only
\* when its whole body came with an answer that can be read.
PageInv ==
  /\ proxy \in BOOLEAN /\ page \in Page
  /\ page.phase = "connecting" => assertFetchableUrl
  /\ page.phase \in {"fetched", "read"} => page.got = page.length
  /\ page.phase = "read" => page.status = "2xx" /\ page.html = TRUE
  /\ OnlyPublicIsReached

LEMMA PageBounds ==
  MaxRedirects \in Nat /\ MaxBody \in Nat /\ MaxLength \in Nat /\ Timeout \in Nat
BY PageAssumption

LEMMA FailType == ASSUME page \in Page, NEW reason \in Outcome, Fail(reason) PROVE page' \in Page
BY DEF Page, Fail

LEMMA PageInvInit == PageInit => PageInv
<1> SUFFICES ASSUME PageInit PROVE PageInv
  OBVIOUS
<1>1. "name" \in Url
  BY DEF Url
<1>2. NoPage \in Page
  <2>1. "none" \in Outcome
    BY DEF Outcome
  <2> QED
    BY <1>1, <2>1, PageBounds DEF Page, NoPage
<1>3. page = NoPage /\ NoPage.phase = "idle" /\ proxy \in BOOLEAN /\ reached = {}
  BY DEF PageInit, NoPage
<1> QED
  BY <1>2, <1>3 DEF PageInv, OnlyPublicIsReached

LEMMA PageTypeNext == page \in Page /\ PageNext => page' \in Page
<1> SUFFICES ASSUME page \in Page, PageNext PROVE page' \in Page
  OBVIOUS
<1> USE PageBounds
<1>1. CASE fetchOriginalPage
  <2>1. PICK url \in Url : page' = [page EXCEPT !.phase = "address", !.url = url]
    BY <1>1 DEF fetchOriginalPage
  <2> QED
    BY <2>1 DEF Page
<1>2. CASE Request
  <2>1. CASE Fail("unreachable")
    BY <2>1, FailType DEF Outcome
  <2>2. CASE page' = [page EXCEPT !.phase = "connecting"]
    BY <2>2 DEF Page
  <2> QED
    BY <1>2, <2>1, <2>2 DEF Request
<1>3. CASE lookupPublicAddress
  <2>1. CASE Fail("unreachable")
    BY <2>1, FailType DEF Outcome
  <2>2. CASE page' = [page EXCEPT !.phase = "requested"]
    BY <2>2 DEF Page
  <2> QED
    BY <1>3, <2>1, <2>2 DEF lookupPublicAddress
<1>4. CASE Redirect
  <2>1. CASE Fail("unreachable")
    BY <2>1, FailType DEF Outcome
  <2>2. ASSUME NEW url \in Url, ~(page.hops >= MaxRedirects),
               page' = [page EXCEPT !.phase = "address", !.url = url, !.hops = @ + 1]
        PROVE  page' \in Page
    <3>1. page.hops + 1 \in 0..MaxRedirects
      BY <2>2 DEF Page
    <3> QED
      BY <2>2, <3>1 DEF Page
  <2> QED
    BY <1>4, <2>1, <2>2 DEF Redirect
<1>5. CASE Respond
  <2>1. CASE Fail("too-large")
    BY <2>1, FailType DEF Outcome
  <2>2. ASSUME NEW status \in {"2xx", "else"}, NEW html \in BOOLEAN,
               NEW length \in 0..MaxLength, NEW declared \in {0, length},
               page' = [page EXCEPT !.phase = "body", !.status = status, !.html = html,
                                    !.declared = declared, !.length = length]
        PROVE  page' \in Page
    <3>1. length \in Nat /\ declared \in Nat
      OBVIOUS
    <3> QED
      BY <2>2, <3>1 DEF Page
  <2> QED
    BY <1>5, <2>1, <2>2 DEF Respond
<1>6. CASE readLimitedBody
  <2>1. CASE Fail("too-large")
    BY <2>1, FailType DEF Outcome
  <2>2. CASE page' = [page EXCEPT !.phase = "fetched"]
    BY <2>2 DEF Page
  <2>3. CASE ~IsTooLarge(page.got + 1) /\ page' = [page EXCEPT !.got = @ + 1]
    BY <2>3 DEF Page, IsTooLarge
  <2> QED
    BY <1>6, <2>1, <2>2, <2>3 DEF readLimitedBody
<1>7. CASE Break
  BY <1>7, FailType DEF Break, Outcome
<1>8. CASE PageTick
  BY <1>8 DEF PageTick, IsOver, Page
<1>9. CASE readOriginal
  <2>1. PICK reason \in Outcome :
          Fail(reason) \/ page' = [page EXCEPT !.phase = "read", !.outcome = reason]
    BY <1>9 DEF readOriginal, readWantedJob, Outcome
  <2> QED
    BY <2>1, FailType DEF Page
<1> QED
  BY <1>1, <1>2, <1>3, <1>4, <1>5, <1>6, <1>7, <1>8, <1>9 DEF PageNext

LEMMA PageInvNext == PageInv /\ PageNext => PageInv'
<1> SUFFICES ASSUME PageInv, PageNext PROVE PageInv'
  OBVIOUS
<1>1. page' \in Page
  BY PageTypeNext DEF PageInv
<1>2. DOMAIN page = DOMAIN NoPage
  BY DEF PageInv, Page, NoPage
<1> USE <1>1, <1>2 DEF PageInv, NoPage, OnlyPublicIsReached, Fail, assertFetchableUrl
<1>3. CASE fetchOriginalPage
  BY <1>3 DEF fetchOriginalPage
<1>4. CASE Request
  BY <1>4 DEF Request
<1>5. CASE lookupPublicAddress
  BY <1>5 DEF lookupPublicAddress, IsProxied
<1>6. CASE Redirect
  <2>1. page'.phase \in {"failed", "address"} /\ UNCHANGED <<proxy, reached>>
    BY <1>6 DEF Redirect
  <2> QED
    BY <2>1
<1>7. CASE Respond
  <2>1. page'.phase \in {"failed", "body"} /\ UNCHANGED <<proxy, reached>>
    BY <1>7 DEF Respond
  <2> QED
    BY <2>1
<1>8. CASE readLimitedBody
  BY <1>8 DEF readLimitedBody, IsTooLarge
<1>9. CASE Break
  BY <1>9 DEF Break
<1>10. CASE PageTick
  BY <1>10 DEF PageTick, IsOver
<1>11. CASE readOriginal
  <2>1. page.phase = "fetched" /\ page.got = page.length /\ UNCHANGED <<proxy, reached>>
    BY <1>11 DEF readOriginal
  <2>2. \/ page'.phase = "failed"
        \/ /\ page.status = "2xx" /\ page.html /\ page'.phase = "read"
           /\ page'.status = page.status /\ page'.html = page.html
           /\ page'.got = page.got /\ page'.length = page.length
    <3>1. CASE page.status # "2xx" \/ ~page.html
      BY <1>11, <3>1 DEF readOriginal
    <3>2. CASE page.status = "2xx" /\ page.html
      BY <1>11, <3>2 DEF readOriginal, readWantedJob
    <3> QED
      BY <3>1, <3>2
  <2>3. page.html => page.html = TRUE
    BY DEF Page
  <2> QED
    BY <2>1, <2>2, <2>3
<1> QED
  BY <1>3, <1>4, <1>5, <1>6, <1>7, <1>8, <1>9, <1>10, <1>11 DEF PageNext

LEMMA PageInvStutters == PageInv /\ UNCHANGED pageVars => PageInv'
<1> SUFFICES ASSUME PageInv, proxy' = proxy, page' = page, reached' = reached PROVE PageInv'
  BY DEF pageVars
<1> QED
  BY DEF PageInv, assertFetchableUrl, OnlyPublicIsReached

(***************************************************************************)
(* A fetch of a handler.                                                   *)
(***************************************************************************)

\* The last request of each kind of fetch: pages are asked for up to here.
LastPage ==
  CASE job.source \in {"wanted", "producthunt"} -> MaxPages
    [] job.source = "hellogithub" -> Limit
    [] OTHER -> 1

\* One request on its way, all before it having been sent at most 1 + Retries times.
OneAtATime ==
  \E k \in Nat :
    /\ k <= LastPage
    /\ job.source = "hackernews" => k = 0
    /\ job.pending \in [{k} -> 1..1 + Retries]
    /\ sent <= (1 + Retries) * k + job.pending[k]

\* Tries that may have been made of items asked for at once: all of an item answered.
Tries ==
  {t \in (1..Len(job.ids)) \X (1..1 + Retries) :
     t[1] \in DOMAIN job.pending => t[2] <= job.pending[t[1]]}

AllAtOnce ==
  /\ job.source = "hackernews"
  /\ Len(job.ids) \in 1..Limit
  /\ DOMAIN job.pending \subseteq 1..Len(job.ids)
  /\ job.pending \in [DOMAIN job.pending -> 1..1 + Retries]
  /\ sent <= 1 + Retries + Cardinality(Tries)

SourceInv ==
  /\ site \in Seq(Nat) /\ sent \in Nat
  /\ DOMAIN job = DOMAIN NoJob
  /\ job.phase = "fetching" => IF job.ids = <<>> THEN OneAtATime ELSE AllAtOnce
  /\ RequestsAreBounded

\* What is assumed, in the form the steps use it.
LEMMA FetchBounds ==
  /\ MaxPages \in Nat \ {0} /\ Limit \in Nat \ {0} /\ PageSize \in Nat \ {0}
  /\ Retries \in Nat /\ Item \subseteq Nat
BY SourceAssumption

LEMMA Times ==
  ASSUME NEW a \in Nat, NEW b \in Nat, NEW c \in Nat, b <= c
  PROVE  /\ a * b \in Nat /\ a * c \in Nat /\ a * b <= a * c
         /\ a * (1 + b) = a + a * b /\ a * b = b * a
<1>1. PICK d \in Nat : c = b + d
  <2>1. c - b \in Nat /\ c = b + (c - b)
    OBVIOUS
  <2> QED
    BY <2>1
<1>2. a * (b + d) = a * b + a * d
  OBVIOUS
<1>3. a * b \in Nat /\ a * d \in Nat
  OBVIOUS
<1>4. a * (1 + b) = a + a * b /\ a * b = b * a
  OBVIOUS
<1> QED
  BY <1>1, <1>2, <1>3, <1>4

\* The requests allowed, as a product with the pages or items there can be at most.
Most == IF job.source = "hackernews" \/ Limit > MaxPages THEN Limit ELSE MaxPages

LEMMA MostRequests ==
  /\ Most \in Nat \ {0} /\ LastPage \in Nat /\ LastPage <= Most
  /\ job.source = "hackernews" => Most = Limit
  /\ RequestsAreBounded <=> sent <= (1 + Retries) * (1 + Most)
BY FetchBounds DEF Most, LastPage, RequestsAreBounded

LEMMA OneAtATimeIsBounded == sent \in Nat /\ OneAtATime => RequestsAreBounded
<1> SUFFICES ASSUME sent \in Nat, OneAtATime PROVE RequestsAreBounded
  OBVIOUS
<1>1. PICK k \in Nat : /\ k <= LastPage
                       /\ job.pending[k] \in 1..1 + Retries
                       /\ sent <= (1 + Retries) * k + job.pending[k]
  BY DEF OneAtATime
<1>2. (1 + Retries) * (1 + k) <= (1 + Retries) * (1 + Most)
  <2>1. 1 + Retries \in Nat /\ 1 + k \in Nat /\ 1 + Most \in Nat /\ 1 + k <= 1 + Most
    BY <1>1, FetchBounds, MostRequests
  <2> QED
    BY <2>1, Times
<1>3. (1 + Retries) * (1 + k) = (1 + Retries) * k + 1 + Retries
  BY FetchBounds
<1>4. (1 + Retries) * k \in Nat /\ (1 + Retries) * (1 + Most) \in Nat
  BY FetchBounds, MostRequests
<1> QED
  BY <1>1, <1>2, <1>3, <1>4, FetchBounds, MostRequests

\* The tries of a list of ids are finitely many, and no more than each id has.
LEMMA TriesAreFinite ==
  Len(job.ids) \in Nat =>
    /\ IsFiniteSet(Tries) /\ Cardinality(Tries) \in Nat
    /\ Cardinality(Tries) <= Len(job.ids) * (1 + Retries)
<1> SUFFICES ASSUME Len(job.ids) \in Nat
             PROVE  /\ IsFiniteSet(Tries) /\ Cardinality(Tries) \in Nat
                    /\ Cardinality(Tries) <= Len(job.ids) * (1 + Retries)
  OBVIOUS
<1> DEFINE all == (1..Len(job.ids)) \X (1..1 + Retries)
<1>1. IsFiniteSet(1..Len(job.ids)) /\ Cardinality(1..Len(job.ids)) = Len(job.ids)
  BY FS_Interval
<1>2. IsFiniteSet(1..1 + Retries) /\ Cardinality(1..1 + Retries) = 1 + Retries
  BY FS_Interval, FetchBounds
<1>3. IsFiniteSet(all) /\ Cardinality(all) = Len(job.ids) * (1 + Retries)
  <2>1. IsFiniteSet(all)
           /\ Cardinality(all) = Cardinality(1..Len(job.ids)) * Cardinality(1..1 + Retries)
    BY <1>1, <1>2, FS_Product, Zenon
  <2> QED
    BY <1>1, <1>2, <2>1
<1>4. Tries \in SUBSET all
  BY DEF Tries
<1> QED
  BY <1>3, <1>4, FS_Subset, FS_CardinalityType

LEMMA AllAtOnceIsBounded == sent \in Nat /\ AllAtOnce => RequestsAreBounded
<1> SUFFICES ASSUME sent \in Nat, AllAtOnce PROVE RequestsAreBounded
  OBVIOUS
<1>1. Len(job.ids) \in Nat /\ Len(job.ids) <= Limit /\ Limit \in Nat /\ 1 + Retries \in Nat
  BY FetchBounds DEF AllAtOnce
<1>2. Cardinality(Tries) \in Nat /\ Cardinality(Tries) <= Len(job.ids) * (1 + Retries)
  BY <1>1, TriesAreFinite
<1>3. (1 + Retries) * Len(job.ids) <= (1 + Retries) * Limit
  BY <1>1, Times
<1>4. Len(job.ids) * (1 + Retries) = (1 + Retries) * Len(job.ids)
  BY <1>1, Times
<1>5. (1 + Retries) * (1 + Limit) = 1 + Retries + (1 + Retries) * Limit
  BY <1>1, Times
<1>6. (1 + Retries) * Limit \in Nat /\ (1 + Retries) * Len(job.ids) \in Nat
  BY <1>1, Times
<1>7. sent <= 1 + Retries + Cardinality(Tries)
  BY DEF AllAtOnce
<1>8. sent <= (1 + Retries) * (1 + Limit)
  BY <1>1, <1>2, <1>3, <1>4, <1>5, <1>6, <1>7
<1> QED
  BY <1>8, MostRequests DEF AllAtOnce

\* A list of items is one of numbers, each of them once.
LEMMA ListingsType ==
  ASSUME NEW list \in Listings \cup {<<>>} PROVE list \in Seq(Nat) /\ IsInjective(list)
<1>1. CASE list \in Listings
  <2>1. list \in Seq(Item) /\ IsInjective(list)
    BY <1>1, SourceAssumption
  <2>2. Len(list) \in Nat /\ list \in [1..Len(list) -> Item]
    BY <2>1
  <2>3. list \in [1..Len(list) -> Nat]
    BY <2>2, FetchBounds
  <2>4. list \in Seq(Nat)
    BY <2>2, <2>3, SeqDef
  <2> QED
    BY <2>1, <2>4
<1>2. CASE list = <<>>
  BY <1>2 DEF IsInjective
<1> QED
  BY <1>1, <1>2

LEMMA FirstType == SourceInit => site \in Listings \cup {<<>>}
BY SourceAssumption DEF SourceInit

LEMMA SourceInvInit == SourceInit => SourceInv
<1> SUFFICES ASSUME SourceInit PROVE SourceInv
  OBVIOUS
<1>1. site \in Seq(Nat)
  BY FirstType, ListingsType
<1>2. sent = 0 /\ job = NoJob /\ NoJob.phase # "fetching"
  BY DEF SourceInit, NoJob
<1>3. 0 <= (1 + Retries) * (1 + Most)
  BY FetchBounds, MostRequests, Times
<1> QED
  BY <1>1, <1>2, <1>3, MostRequests DEF SourceInv

\* A fetch that has ended stays within its requests.
LEMMA EndedInv ==
  ASSUME SourceInv, NEW phase, phase # "fetching", NEW drafts,
         job' = Ended(phase, drafts), sent' = sent, site' = site
  PROVE  SourceInv'
<1>1. /\ DOMAIN job' = DOMAIN job
      /\ job'.source = job.source /\ job'.phase = phase
  BY DEF SourceInv, NoJob, Ended
<1>2. RequestsAreBounded'
  BY <1>1 DEF SourceInv, RequestsAreBounded
<1> QED
  BY <1>1, <1>2 DEF SourceInv

\* One more request, after an answer or instead of one, is the next one at a time.
LEMMA OneMoreInv ==
  ASSUME SourceInv, OneAtATime', job'.ids = <<>>, site' = site, sent' \in Nat,
         DOMAIN job' = DOMAIN job
  PROVE  SourceInv'
<1>1. (sent \in Nat /\ OneAtATime)'
  OBVIOUS
<1>2. RequestsAreBounded'
  BY <1>1, OneAtATimeIsBounded, PTL
<1> QED
  BY <1>2 DEF SourceInv

LEMMA AllAtOnceInv ==
  ASSUME SourceInv, AllAtOnce', job'.ids # <<>>, site' = site, sent' \in Nat,
         DOMAIN job' = DOMAIN job
  PROVE  SourceInv'
<1>1. (sent \in Nat /\ AllAtOnce)'
  OBVIOUS
<1>2. RequestsAreBounded'
  BY <1>1, AllAtOnceIsBounded, PTL
<1> QED
  BY <1>2 DEF SourceInv

LEMMA BeginInv == ASSUME SourceInv, NEW source, Begin(source) PROVE SourceInv'
<1>1. /\ job'.source = source /\ job'.ids = <<>> /\ DOMAIN job' = DOMAIN NoJob
      /\ job'.pending = [k \in {First(source)} |-> 1]
      /\ site' = site /\ sent' = 1
  BY DEF Begin, NoJob
<1>2. First(source) \in {0, 1} /\ (source = "hackernews" => First(source) = 0)
  BY DEF First
<1>3. First(source) <= LastPage'
  BY <1>1, <1>2, FetchBounds DEF LastPage
<1>4. job'.pending \in [{First(source)} -> 1..1 + Retries]
  BY <1>1, FetchBounds
<1>5. sent' <= (1 + Retries) * First(source) + job'.pending[First(source)]
  BY <1>1, <1>2, FetchBounds
<1>6. OneAtATime'
  <2>1. First(source) \in Nat
    BY <1>2
  <2> QED
    BY <1>1, <1>2, <1>3, <1>4, <1>5, <2>1 DEF OneAtATime
<1> QED
  BY <1>1, <1>6, OneMoreInv DEF SourceInv

\* Where there is no list of ids, there is one request on its way.
LEMMA TheRequest ==
  ASSUME SourceInv, job.ids = <<>>, NEW k, Fetching(k)
  PROVE  /\ k \in Nat /\ k <= LastPage
         /\ job.source = "hackernews" => k = 0
         /\ job.pending \in [{k} -> 1..1 + Retries]
         /\ sent <= (1 + Retries) * k + job.pending[k]
<1>1. OneAtATime
  BY DEF SourceInv, Fetching
<1>2. PICK n \in Nat :
        /\ n <= LastPage /\ (job.source = "hackernews" => n = 0)
        /\ job.pending \in [{n} -> 1..1 + Retries]
        /\ sent <= (1 + Retries) * n + job.pending[n]
  BY <1>1 DEF OneAtATime
<1>3. k = n
  BY <1>2 DEF Fetching
<1> QED
  BY <1>2, <1>3

\* The next page is asked for after the answer to this one.
LEMMA NextPageInv ==
  ASSUME SourceInv, job.ids = <<>>, NEW k, Fetching(k), k + 1 <= LastPage,
         job.source # "hackernews", job'.source = job.source, job'.ids = job.ids,
         DOMAIN job' = DOMAIN job, job'.pending = [n \in {k + 1} |-> 1],
         sent' = sent + 1, site' = site
  PROVE  SourceInv'
<1>1. /\ k \in Nat /\ job.pending[k] \in 1..1 + Retries
      /\ sent <= (1 + Retries) * k + job.pending[k]
  BY TheRequest
<1>2. LastPage' = LastPage
  BY DEF LastPage
<1>3. job'.pending \in [{k + 1} -> 1..1 + Retries]
  BY FetchBounds
<1>4. sent' <= (1 + Retries) * (k + 1) + job'.pending[k + 1]
  <2>1. 1 + Retries \in Nat /\ k + 1 = 1 + k /\ k <= k
    BY <1>1, FetchBounds
  <2>2. (1 + Retries) * (1 + k) = 1 + Retries + (1 + Retries) * k /\ (1 + Retries) * k \in Nat
    BY <1>1, <2>1, Times
  <2>3. job'.pending[k + 1] = 1 /\ sent \in Nat
    BY DEF SourceInv
  <2> QED
    BY <1>1, <2>1, <2>2, <2>3
<1>5. OneAtATime'
  BY <1>1, <1>2, <1>3, <1>4 DEF OneAtATime
<1> QED
  BY <1>5, OneMoreInv DEF SourceInv

LEMMA AnswerPageInv == ASSUME SourceInv, NEW k, AnswerPage(k) PROVE SourceInv'
<1>1. job.ids = <<>>
  BY DEF AnswerPage, SourceInv, AllAtOnce, Fetching, Paged
<1>2. k \in Nat /\ k <= LastPage
  BY <1>1, TheRequest DEF AnswerPage
<1> DEFINE answered == Upto(Below, PageSize)
           drafts == Collected(answered)
<1>3. CASE IsLast(k, answered, drafts)
  <2>1. job' = Ended("returned", Returned(drafts)) /\ sent' = sent /\ site' = site
    BY <1>3 DEF AnswerPage, surroundings
  <2> QED
    BY <2>1, EndedInv
<1>4. CASE ~IsLast(k, answered, drafts)
  <2>1. /\ job'.source = job.source /\ job'.ids = job.ids /\ DOMAIN job' = DOMAIN job
        /\ job'.pending = [n \in {k + 1} |-> 1]
        /\ sent' = sent + 1 /\ site' = site
    BY <1>4 DEF AnswerPage, surroundings, SourceInv, NoJob
  <2>2. ~EnoughPages(k, drafts)
    BY <1>4 DEF IsLast
  <2>3. k + 1 <= LastPage
    <3>1. CASE job.source \in {"wanted", "producthunt"}
      <4>1. k # MaxPages
        BY <2>2, <3>1 DEF EnoughPages
      <4> QED
        BY <1>2, <3>1, <4>1, FetchBounds DEF LastPage
    <3>2. CASE job.source = "hellogithub"
      <4>1. ~(k * PageSize >= Limit)
        BY <2>2, <3>2 DEF EnoughPages
      <4>2. k * 1 <= k * PageSize /\ k * PageSize \in Nat
        BY <1>2, FetchBounds, Times
      <4> QED
        BY <1>2, <3>2, <4>1, <4>2, FetchBounds DEF LastPage
    <3> QED
      BY <3>1, <3>2 DEF AnswerPage, Paged
  <2> QED
    BY <1>1, <2>1, <2>3, NextPageInv DEF AnswerPage, Paged
<1> QED
  BY <1>3, <1>4

LEMMA AnswerTokenInv == SourceInv /\ AnswerToken => SourceInv'
<1> SUFFICES ASSUME SourceInv, AnswerToken PROVE SourceInv'
  OBVIOUS
<1>1. job.ids = <<>> /\ Fetching(0) /\ job.source = "producthunt"
  BY DEF AnswerToken, SourceInv, AllAtOnce, Fetching
<1>2. 0 + 1 <= LastPage
  BY <1>1, FetchBounds DEF LastPage
<1>3. /\ job'.source = job.source /\ job'.ids = job.ids /\ DOMAIN job' = DOMAIN job
      /\ job'.pending = [n \in {0 + 1} |-> 1]
      /\ sent' = sent + 1 /\ site' = site
  BY DEF AnswerToken, surroundings, SourceInv, NoJob
<1> QED
  BY <1>1, <1>2, <1>3, NextPageInv

LEMMA AnswerSingleInv == SourceInv /\ AnswerSingle => SourceInv'
<1> SUFFICES ASSUME SourceInv, AnswerSingle PROVE SourceInv'
  OBVIOUS
<1>1. \E phase \in {"returned", "failed"}, drafts \in {site, <<>>, KeptItems(site)} :
        job' = Ended(phase, drafts)
  BY DEF AnswerSingle, parseStarHistoryHome, parseTrendshiftPage
<1>2. sent' = sent /\ site' = site
  BY DEF AnswerSingle, surroundings
<1> QED
  BY <1>1, <1>2, EndedInv

LEMMA RefuseInv == ASSUME SourceInv, NEW k, Refuse(k) PROVE SourceInv'
BY EndedInv DEF Refuse, surroundings

\* What is taken of the top of a list is no longer than asked for.
LEMMA UptoLength ==
  ASSUME NEW items \in Seq(Nat), NEW n \in Nat
  PROVE  Upto(items, n) \in Seq(Nat) /\ Len(Upto(items, n)) <= n
<1> DEFINE m == IF n < Len(items) THEN n ELSE Len(items)
<1>1. m \in Nat /\ m <= n /\ m <= Len(items) /\ \A i \in 1..m : items[i] \in Nat
  OBVIOUS
<1> HIDE DEF m
<1>2. SubSeq(items, 1, m) \in Seq(Nat) /\ Len(SubSeq(items, 1, m)) = IF 1 <= m THEN m - 1 + 1 ELSE 0
  BY <1>1, SubSeqProperties
<1>3. Upto(items, n) = SubSeq(items, 1, m)
  BY DEF Upto, m
<1> QED
  BY <1>1, <1>2, <1>3

LEMMA AnswerIdsInv == SourceInv /\ AnswerIds => SourceInv'
<1> SUFFICES ASSUME SourceInv, AnswerIds PROVE SourceInv'
  OBVIOUS
<1> DEFINE ids == Upto(site, Limit)
<1>1. /\ Fetching(0) /\ job.source = "hackernews" /\ site' = site
      /\ sent' = sent + Len(ids)
      /\ job' = IF ids = <<>> THEN Ended("returned", <<>>)
                ELSE [job EXCEPT !.ids = ids, !.pending = [k \in DOMAIN ids |-> 1]]
  BY DEF AnswerIds, surroundings
<1>2. ids \in Seq(Nat) /\ Len(ids) \in Nat /\ Len(ids) <= Limit
  BY UptoLength, FetchBounds DEF SourceInv
<1> HIDE DEF ids
<1>3. CASE ids = <<>>
  <2>1. sent' = sent /\ job' = Ended("returned", <<>>)
    BY <1>1, <1>3 DEF SourceInv
  <2> QED
    BY <1>1, <2>1, EndedInv
<1>4. CASE ids # <<>>
  <2>1. /\ job' = [job EXCEPT !.ids = ids, !.pending = [k \in DOMAIN ids |-> 1]]
        /\ job'.ids = ids /\ job'.pending = [k \in 1..Len(ids) |-> 1]
        /\ job'.source = "hackernews" /\ DOMAIN job' = DOMAIN job
        /\ Len(ids) \in 1..Limit
    BY <1>1, <1>2, <1>4 DEF SourceInv, NoJob
  <2>2. sent <= 1 + Retries
    <3>1. CASE job.ids = <<>>
      <4>1. job.pending[0] \in 1..1 + Retries /\ sent <= (1 + Retries) * 0 + job.pending[0]
        BY <1>1, <3>1, TheRequest
      <4> QED
        BY <4>1, FetchBounds DEF SourceInv
    <3>2. CASE job.ids # <<>>
      BY <1>1, <3>2, FetchBounds DEF SourceInv, AllAtOnce, Fetching
    <3> QED
      BY <3>1, <3>2
  <2>3. Tries' = (1..Len(ids)) \X {1}
    BY <2>1, FetchBounds DEF Tries
  <2>4. Cardinality(Tries') = Len(ids)
    <3>1. IsFiniteSet(1..Len(ids)) /\ Cardinality(1..Len(ids)) = Len(ids)
      <4>1. Cardinality(1..Len(ids)) = IF 1 > Len(ids) THEN 0 ELSE Len(ids) - 1 + 1
        BY <1>2, FS_Interval
      <4> QED
        BY <1>2, <2>1, <4>1, FS_Interval
    <3>2. IsFiniteSet({1}) /\ Cardinality({1}) = 1
      BY FS_Singleton
    <3>3. Cardinality((1..Len(ids)) \X {1}) = Cardinality(1..Len(ids)) * Cardinality({1})
      BY <3>1, <3>2, FS_Product, Zenon
    <3> QED
      BY <1>2, <2>3, <3>1, <3>2, <3>3
  <2>5. AllAtOnce'
    <3>1. job'.pending \in [DOMAIN job'.pending -> 1..1 + Retries]
      BY <2>1, FetchBounds
    <3>2. sent' <= 1 + Retries + Cardinality(Tries')
      BY <1>1, <1>2, <2>2, <2>4, FetchBounds DEF SourceInv
    <3> QED
      BY <2>1, <3>1, <3>2 DEF AllAtOnce
  <2> QED
    BY <1>1, <1>2, <1>4, <2>1, <2>5, AllAtOnceInv DEF SourceInv
<1> QED
  BY <1>3, <1>4

\* An answered item leaves no fewer tries behind than were made.
LEMMA AnswerItemInv == ASSUME SourceInv, NEW k, AnswerItem(k) PROVE SourceInv'
<1> DEFINE left == DOMAIN job.pending \ {k}
<1>1. Fetching(k) /\ k > 0 /\ job.source = "hackernews" /\ site' = site /\ sent' = sent
  BY DEF AnswerItem, surroundings
<1>2. job.ids # <<>>
  <2>1. job.ids = <<>> => k = 0
    BY <1>1, TheRequest
  <2> QED
    BY <1>1, <2>1
<1>3. AllAtOnce
  BY <1>1, <1>2 DEF SourceInv, Fetching
<1>4. CASE \E drafts : job' = Ended("returned", drafts)
  BY <1>1, <1>4, EndedInv
<1>5. CASE \E arrived : job' = [job EXCEPT !.drafts = arrived,
                                           !.pending = [n \in left |-> job.pending[n]]]
  <2>1. /\ job'.source = job.source /\ job'.ids = job.ids /\ DOMAIN job' = DOMAIN job
        /\ job'.pending = [n \in left |-> job.pending[n]]
    BY <1>5 DEF SourceInv, NoJob
  <2>2. Tries \subseteq Tries'
    BY <2>1 DEF Tries
  <2>3. IsFiniteSet(Tries') /\ Cardinality(Tries') \in Nat
    <3>1. (Len(job.ids) \in Nat)'
      BY <1>3, <2>1 DEF AllAtOnce
    <3>2. (IsFiniteSet(Tries) /\ Cardinality(Tries) \in Nat)'
      BY <3>1, TriesAreFinite, PTL
    <3> QED
      BY <3>2
  <2>4. Cardinality(Tries) <= Cardinality(Tries')
    BY <2>2, <2>3, FS_Subset
  <2>5. sent' <= 1 + Retries + Cardinality(Tries')
    <3>1. sent <= 1 + Retries + Cardinality(Tries) /\ Len(job.ids) \in Nat
      BY <1>3 DEF AllAtOnce
    <3>2. Cardinality(Tries) \in Nat
      BY <3>1, TriesAreFinite
    <3> QED
      BY <1>1, <2>3, <2>4, <3>1, <3>2, FetchBounds DEF SourceInv
  <2>6. AllAtOnce'
    BY <1>3, <2>1, <2>5 DEF AllAtOnce
  <2> QED
    BY <1>1, <1>2, <2>1, <2>6, AllAtOnceInv DEF SourceInv
<1> QED
  BY <1>4, <1>5 DEF AnswerItem

LEMMA RepeatInv == ASSUME SourceInv, NEW k, Repeat(k) PROVE SourceInv'
<1>1. /\ Fetching(k) /\ job.pending[k] <= Retries
      /\ job' = [job EXCEPT !.pending[k] = @ + 1] /\ site' = site /\ sent' = sent + 1
  BY DEF Repeat, surroundings
<1>2. /\ job'.source = job.source /\ job'.ids = job.ids /\ DOMAIN job' = DOMAIN job
      /\ job'.pending = [job.pending EXCEPT ![k] = @ + 1] /\ sent' \in Nat
  BY <1>1 DEF SourceInv, NoJob
<1>3. LastPage' = LastPage
  BY <1>2 DEF LastPage
<1>4. CASE job.ids = <<>>
  <2>1. /\ k \in Nat /\ k <= LastPage /\ (job.source = "hackernews" => k = 0)
        /\ job.pending \in [{k} -> 1..1 + Retries]
        /\ sent <= (1 + Retries) * k + job.pending[k]
    BY <1>1, <1>4, TheRequest
  <2>2. job'.pending[k] = job.pending[k] + 1 /\ job'.pending \in [{k} -> 1..1 + Retries]
    BY <1>1, <1>2, <2>1, FetchBounds
  <2>3. (1 + Retries) * k \in Nat
    <3>1. 1 + Retries \in Nat /\ k <= k
      BY <2>1, FetchBounds
    <3> QED
      BY <2>1, <3>1, Times
  <2>4. sent' <= (1 + Retries) * k + job'.pending[k]
    <3>1. sent \in Nat /\ job.pending[k] \in Nat
      BY <2>1, FetchBounds DEF SourceInv
    <3> QED
      BY <1>1, <2>1, <2>2, <2>3, <3>1
  <2>5. OneAtATime'
    BY <1>2, <1>3, <2>1, <2>2, <2>4 DEF OneAtATime
  <2> QED
    BY <1>1, <1>2, <1>4, <2>5, OneMoreInv DEF SourceInv
<1>5. CASE job.ids # <<>>
  <2>1. AllAtOnce
    BY <1>1, <1>5 DEF SourceInv, Fetching
  <2>2. k \in 1..Len(job.ids) /\ job.pending[k] \in 1..1 + Retries
    BY <1>1, <2>1 DEF AllAtOnce, Fetching
  <2> DEFINE t == <<k, job.pending[k] + 1>>
  <2>3. t \notin Tries /\ Tries' = Tries \cup {t}
    <3>1. t \notin Tries
      BY <1>1, <2>2 DEF Tries, Fetching
    <3>2. t \in Tries'
      BY <1>1, <1>2, <2>1, <2>2, FetchBounds DEF Tries, AllAtOnce, Fetching
    <3>3. Tries \subseteq Tries'
      BY <1>1, <1>2, <2>1, <2>2 DEF Tries, AllAtOnce, Fetching
    <3>4. Tries' \subseteq Tries \cup {t}
      BY <1>1, <1>2, <2>1, <2>2 DEF Tries, AllAtOnce, Fetching
    <3> QED
      BY <3>1, <3>2, <3>3, <3>4
  <2>4. IsFiniteSet(Tries) /\ Cardinality(Tries) \in Nat
    BY <2>1, TriesAreFinite DEF AllAtOnce
  <2>5. Cardinality(Tries') = Cardinality(Tries) + 1
    BY <2>3, <2>4, FS_AddElement
  <2>6. sent' <= 1 + Retries + Cardinality(Tries')
    BY <1>1, <2>1, <2>4, <2>5, FetchBounds DEF AllAtOnce, SourceInv
  <2>7. /\ DOMAIN job'.pending = DOMAIN job.pending
        /\ job'.pending \in [DOMAIN job'.pending -> 1..1 + Retries]
    <3>1. job.pending \in [DOMAIN job.pending -> 1..1 + Retries]
      BY <2>1 DEF AllAtOnce
    <3>2. job.pending[k] + 1 \in 1..1 + Retries
      BY <1>1, <2>2, FetchBounds
    <3> QED
      BY <1>2, <3>1, <3>2
  <2>8. AllAtOnce'
    BY <1>2, <2>1, <2>6, <2>7 DEF AllAtOnce
  <2> QED
    BY <1>1, <1>2, <1>5, <2>8, AllAtOnceInv
<1> QED
  BY <1>4, <1>5

\* The source's list changes and the fetch does not, but for where a cursor is.
LEMMA ChangedInv ==
  ASSUME SourceInv, site' \in Seq(Nat), sent' = sent, DOMAIN job' = DOMAIN job,
         job'.source = job.source, job'.phase = job.phase, job'.pending = job.pending,
         job'.ids = job.ids
  PROVE  SourceInv'
<1>1. UNCHANGED <<LastPage, Tries, RequestsAreBounded>>
  BY DEF LastPage, Tries, RequestsAreBounded
<1>2. (OneAtATime => OneAtATime') /\ (AllAtOnce => AllAtOnce')
  BY <1>1 DEF OneAtATime, AllAtOnce
<1> QED
  BY <1>1, <1>2 DEF SourceInv

\* What a new list changes of the fetch.
LEMMA RelistFacts ==
  ASSUME SourceInv, Relist
  PROVE  \E list \in Listings : \E row :
           /\ job.phase = "fetching" /\ job.source \in Paged \cup {"hackernews"}
           /\ row = job.read \/ (row \in 0..Len(list) /\ job.source = "producthunt")
           /\ site' = list /\ job' = [job EXCEPT !.read = row]
           /\ steady' = {i \in steady :
                \E q \in DOMAIN site, p \in DOMAIN list :
                  site[q] = i /\ list[p] = i /\ InReach(job', p) /\ (q > job.read => p > row)}
           /\ over' = over \cap Above(list)
           /\ now' = now /\ sent' = sent
BY DEF Relist

LEMMA RelistInv == SourceInv /\ Relist => SourceInv'
<1> SUFFICES ASSUME SourceInv, Relist PROVE SourceInv'
  OBVIOUS
<1>1. PICK list \in Listings : \E row :
        site' = list /\ job' = [job EXCEPT !.read = row] /\ sent' = sent
  BY RelistFacts
<1>2. site' \in Seq(Nat)
  BY <1>1, ListingsType
<1>3. /\ DOMAIN job' = DOMAIN job /\ job'.source = job.source /\ job'.phase = job.phase
      /\ job'.pending = job.pending /\ job'.ids = job.ids
  BY <1>1 DEF SourceInv, NoJob
<1> QED
  BY <1>1, <1>2, <1>3, ChangedInv

LEMMA SourceInvNext == SourceInv /\ SourceNext => SourceInv'
BY BeginInv, AnswerSingleInv, AnswerTokenInv, AnswerIdsInv, AnswerPageInv, AnswerItemInv,
   RepeatInv, RefuseInv, RelistInv DEF SourceNext

LEMMA SourceInvStutters == SourceInv /\ UNCHANGED sourceVars => SourceInv'
<1> SUFFICES ASSUME SourceInv, UNCHANGED sourceVars PROVE SourceInv'
  OBVIOUS
<1>1. site' \in Seq(Nat) /\ UNCHANGED <<job, sent>>
  BY DEF SourceInv, sourceVars
<1> QED
  BY <1>1, ChangedInv

(***************************************************************************)
(* What a fetch returns of a list.                                         *)
(***************************************************************************)
\* The first of each pair stands before the second, wherever that stands.
Ordered(list, pairs) ==
  \A pair \in pairs : \A n \in DOMAIN list :
    list[n] = pair[2] => \E m \in 1..n - 1 : list[m] = pair[1]

Due == {i \in steady : Kept(job.source, RowOf[i])}
Pairs == over \cap (steady \X steady)

\* What has to be returned is in the list and within reach, and read or still below; pairs
\* are in the list's order.
PlaceInv ==
  /\ \A i \in steady : \E p \in DOMAIN site :
       site[p] = i /\ InReach(job, p) /\ (i \in ToSet(job.drafts) \/ p > job.read)
  /\ over \subseteq Above(site)

\* Page after page: what has been read is in order.
PagedInv ==
  /\ Ordered(job.drafts, Pairs)
  /\ job.source # "producthunt" => \A k \in DOMAIN job.pending : job.read = (k - 1) * PageSize
  /\ job.source = "producthunt" => Len(job.drafts) < Limit

\* Items at once: each that was listed has been given or is still asked for.
AtOnceInv ==
  /\ job.read = 0
  /\ job.ids = <<>> => job.drafts = <<>>
  /\ job.ids # <<>> =>
       /\ Ordered(job.ids, Pairs) /\ steady \subseteq ToSet(job.ids)
       /\ \A k \in DOMAIN job.ids : job.ids[k] \in steady =>
            k \in DOMAIN job.pending \/ job.ids[k] \in ToSet(job.drafts)

FetchInv ==
  /\ PlaceInv
  /\ job.source \in Paged => PagedInv
  /\ job.source = "hackernews" => AtOnceInv

WholeTypes ==
  job.drafts \in Seq(Nat) /\ job.ids \in Seq(Nat) /\ job.read \in Nat /\ IsInjective(site)

WholeInv ==
  /\ WholeTypes
  /\ job.phase = "fetching" => FetchInv
  /\ ListIsWhole

(***************************************************************************)
(* Picking members of a sequence.                                          *)
(***************************************************************************)
\* `at` says where the members of a list were picked.
ListedAt(list, s, P, at) ==
  /\ at \in [DOMAIN list -> P]
  /\ \A i \in DOMAIN list : list[i] = s[at[i]]
  /\ \A p \in P : \E i \in DOMAIN list : at[i] = p
  /\ \A i, j \in DOMAIN list : i < j => at[i] < at[j]

ArePlaces(place, P) == place = [p \in P |-> Cardinality({q \in P : q < p})]

\* Every position has a place of its own: that of as many as stand before it.
LEMMA PlacesAreReached ==
  ASSUME NEW n \in Nat, NEW P \in SUBSET (1..n),
         NEW place, ArePlaces(place, P)
  PROVE  /\ Cardinality(P) \in Nat
         /\ place \in [P -> 0..(Cardinality(P) - 1)]
         /\ \A p, q \in P : p < q => place[p] < place[q]
         /\ \A i \in 0..(Cardinality(P) - 1) : \E p \in P : place[p] = i
<1> DEFINE Before(p) == {q \in P : q < p}
<1>1. IsFiniteSet(P) /\ Cardinality(P) \in Nat
  <2>1. IsFiniteSet(1..n)
    BY FS_Interval
  <2> QED
    BY <2>1, FS_Subset, FS_CardinalityType
<1>2. ASSUME NEW p \in P PROVE IsFiniteSet(Before(p)) /\ Cardinality(Before(p)) \in Nat
  BY <1>1, FS_Subset, FS_CardinalityType
<1>3. ASSUME NEW p \in P PROVE place[p] = Cardinality(Before(p)) /\ place[p] \in 0..(Cardinality(P) - 1)
  <2>1. Before(p) \in SUBSET P /\ p \notin Before(p) /\ Before(p) # P
    OBVIOUS
  <2>2. Cardinality(Before(p)) <= Cardinality(P) /\ Cardinality(Before(p)) # Cardinality(P)
    BY <1>1, <2>1, FS_Subset
  <2>3. place[p] = Cardinality(Before(p))
    BY DEF ArePlaces
  <2> HIDE DEF Before
  <2> QED
    BY <1>1, <1>2, <2>2, <2>3
<1>4. ASSUME NEW p \in P, NEW q \in P, p < q PROVE place[p] < place[q]
  <2>1. p \in Nat /\ q \in Nat /\ \A x \in P : x \in Nat /\ (x < p => x < q)
    <3>1. \A x \in P : x \in Nat
      OBVIOUS
    <3> QED
      BY <1>4, <3>1
  <2>2. Before(p) \in SUBSET Before(q) /\ p \in Before(q) /\ p \notin Before(p)
    <3>1. \A x : x \in Before(p) <=> x \in P /\ x < p
      OBVIOUS
    <3>2. \A x : x \in Before(q) <=> x \in P /\ x < q
      OBVIOUS
    <3> HIDE DEF Before
    <3>3. p \in Before(q)
      BY <1>4, <3>2
    <3>4. p \notin Before(p)
      BY <2>1, <3>1
    <3>5. \A x \in Before(p) : x \in Before(q)
      BY <2>1, <3>1, <3>2
    <3> QED
      BY <3>3, <3>4, <3>5
  <2>3. Cardinality(Before(p)) <= Cardinality(Before(q))
        /\ Cardinality(Before(p)) # Cardinality(Before(q))
    BY <1>2, <2>2, FS_Subset
  <2> HIDE DEF Before
  <2> QED
    BY <1>2, <1>3, <2>3
<1>5. place \in [P -> 0..(Cardinality(P) - 1)]
  BY <1>3 DEF ArePlaces
<1>6. place \in Injection(P, 0..(Cardinality(P) - 1))
  <2>1. ASSUME NEW p \in P, NEW q \in P, place[p] = place[q] PROVE p = q
    <3>1. place[p] \in Nat /\ place[q] \in Nat
      <4>1. place[p] \in 0..(Cardinality(P) - 1) /\ place[q] \in 0..(Cardinality(P) - 1)
        BY <1>3
      <4> QED
        BY <1>1, <4>1
    <3>2. ~ (p < q) /\ ~ (q < p)
      BY <1>4, <2>1, <3>1
    <3> QED
      BY <3>2
  <2> QED
    BY <1>5, <2>1 DEF Injection, IsInjective
<1>7. /\ IsFiniteSet(0..(Cardinality(P) - 1))
      /\ Cardinality(0..(Cardinality(P) - 1)) = Cardinality(P)
  <2>1. 0 \in Int /\ Cardinality(P) - 1 \in Int
    BY <1>1
  <2>2. (Cardinality(P) - 1) - 0 + 1 = Cardinality(P)
        /\ (0 > Cardinality(P) - 1 => Cardinality(P) = 0)
    BY <1>1
  <2> QED
    BY <2>1, <2>2, FS_Interval
<1>8. place \in Surjection(P, 0..(Cardinality(P) - 1))
  BY <1>6, <1>7, FS_Injection
<1> QED
  BY <1>1, <1>4, <1>5, <1>8 DEF Surjection

\* So the members are listed at their positions, in order.
LEMMA PickedInOrder ==
  ASSUME NEW T, NEW s \in Seq(T), NEW P \in SUBSET DOMAIN s
  PROVE  /\ Picked(s, P) \in Seq(T)
         /\ Len(Picked(s, P)) = Cardinality(P)
         /\ \E at : ListedAt(Picked(s, P), s, P, at)
<1>1. PICK n \in Nat : n = Len(s) /\ P \in SUBSET (1..n)
  OBVIOUS
<1>2. PICK place : ArePlaces(place, P)
  BY DEF ArePlaces
<1>3. /\ Cardinality(P) \in Nat
      /\ \A p \in P : place[p] \in 0..(Cardinality(P) - 1)
      /\ \A p, q \in P : p < q => place[p] < place[q]
      /\ \A i \in 0..(Cardinality(P) - 1) : \E p \in P : place[p] = i
  <2>1. P \in SUBSET (1..n)
    BY <1>1
  <2>2. /\ Cardinality(P) \in Nat
        /\ place \in [P -> 0..(Cardinality(P) - 1)]
        /\ \A p, q \in P : p < q => place[p] < place[q]
        /\ \A i \in 0..(Cardinality(P) - 1) : \E p \in P : place[p] = i
    BY <1>2, <2>1, PlacesAreReached, Zenon
  <2> QED
    BY <2>2
<1>4. PICK at : at = [i \in 1..Cardinality(P) |->
                        CHOOSE p \in P : Cardinality({q \in P : q < p}) = i - 1]
  OBVIOUS
<1>5. ASSUME NEW i \in 1..Cardinality(P) PROVE at[i] \in P /\ place[at[i]] = i - 1
  <2>1. PICK p \in P : place[p] = i - 1
    BY <1>3
  <2>2. Cardinality({q \in P : q < p}) = i - 1
    BY <1>2, <2>1 DEF ArePlaces
  <2>3. at[i] = CHOOSE x \in P : Cardinality({q \in P : q < x}) = i - 1
    BY <1>4
  <2>4. at[i] \in P /\ Cardinality({q \in P : q < at[i]}) = i - 1
    BY <2>2, <2>3
  <2> QED
    BY <1>2, <2>4 DEF ArePlaces
<1>6. at \in [1..Cardinality(P) -> P]
  BY <1>4, <1>5
<1>7. Picked(s, P) = [i \in 1..Cardinality(P) |-> s[at[i]]]
  BY <1>4 DEF Picked
<1>8. /\ DOMAIN Picked(s, P) = 1..Cardinality(P)
      /\ \A i \in 1..Cardinality(P) : at[i] \in P /\ Picked(s, P)[i] = s[at[i]]
  BY <1>6, <1>7
<1>9. Picked(s, P) \in [1..Cardinality(P) -> T]
  <2>1. \A i \in 1..Cardinality(P) : s[at[i]] \in T
    BY <1>6
  <2> QED
    BY <1>7, <2>1
<1>10. Picked(s, P) \in Seq(T) /\ Len(Picked(s, P)) = Cardinality(P)
  BY <1>3, <1>9
<1>11. ASSUME NEW p \in P PROVE \E i \in 1..Cardinality(P) : at[i] = p
  <2>1. PICK i : i = place[p] + 1
    OBVIOUS
  <2>2. i \in 1..Cardinality(P) /\ place[at[i]] = place[p] /\ at[i] \in P
    BY <1>3, <1>5, <2>1
  <2>3. ~ (at[i] < p) /\ ~ (p < at[i])
    BY <1>3, <2>2
  <2>4. at[i] = p
    BY <1>1, <2>2, <2>3
  <2> QED
    BY <2>2, <2>4
<1>12. ASSUME NEW i \in 1..Cardinality(P), NEW j \in 1..Cardinality(P), i < j PROVE at[i] < at[j]
  <2>1. at[i] \in P /\ at[j] \in P /\ place[at[i]] = i - 1 /\ place[at[j]] = j - 1
    BY <1>5
  <2>2. ~ (at[j] < at[i]) /\ at[i] # at[j]
    BY <1>3, <1>12, <2>1
  <2> QED
    BY <1>1, <2>1, <2>2
<1>13. ListedAt(Picked(s, P), s, P, at)
  BY <1>6, <1>8, <1>11, <1>12 DEF ListedAt
<1> QED
  BY <1>10, <1>13

\* A set of numbers has a least one.
LEMMA Least ==
  ASSUME NEW S \in SUBSET Nat, S # {}
  PROVE  \E x \in S : \A y \in S : x <= y
<1>1. PICK R : R = OpToRel(<, Nat)
  OBVIOUS
<1>2. IsWellFoundedOn(R, Nat)
  BY <1>1, NatLessThanWellFounded
<1>3. PICK x \in S : \A y \in S : ~ (<<y, x>> \in R)
  BY <1>2, WFMin
<1>4. \A y \in Nat : y < x => <<y, x>> \in R
  BY <1>1 DEF OpToRel
<1>5. ASSUME NEW y \in S PROVE x <= y
  <2>1. y \in Nat /\ x \in Nat /\ ~ (y < x)
    BY <1>3, <1>4
  <2> QED
    BY <2>1
<1> QED
  BY <1>5

\* What holds of 0, and of j + 1 where it holds of j, holds of n.
LEMMA StepByStep ==
  ASSUME NEW n \in Nat, NEW S \in SUBSET Nat, 0 \in S, \A j \in Nat : j < n /\ j \in S => j + 1 \in S
  PROVE  n \in S
<1>1. PICK T : T = Nat \ S
  OBVIOUS
<1>2. T = {} \/ \E j \in T : \A i \in T : j <= i
  BY <1>1, Least
<1>3. ASSUME NEW j \in T, \A i \in T : j <= i PROVE n < j
  <2>1. j \in Nat /\ j # 0 /\ j - 1 \in Nat /\ j = (j - 1) + 1 /\ ~ (j <= j - 1)
    BY <1>1
  <2>2. j - 1 \in S
    BY <1>1, <1>3, <2>1
  <2> QED
    BY <1>1, <2>1, <2>2
<1>4. ASSUME n \in T PROVE FALSE
  <2>1. PICK j \in T : \A i \in T : j <= i
    BY <1>2, <1>4
  <2>2. n < j /\ j <= n /\ j \in Nat
    BY <1>1, <1>3, <1>4, <2>1
  <2> QED
    BY <2>2
<1> QED
  BY <1>1, <1>4

(***************************************************************************)
(* Lists and the order of their items.                                     *)
(***************************************************************************)
\* What is picked keeps behind it what was picked before.
LEMMA PickedItems ==
  ASSUME NEW s \in Seq(Nat), NEW P \in SUBSET DOMAIN s
  PROVE  /\ Picked(s, P) \in Seq(Nat)
         /\ ToSet(Picked(s, P)) = {s[p] : p \in P}
         /\ \A i \in DOMAIN Picked(s, P) : \E n \in P :
              /\ Picked(s, P)[i] = s[n]
              /\ \A m \in P : m < n => \E j \in 1..i - 1 : Picked(s, P)[j] = s[m]
<1>1. PICK list : list = Picked(s, P)
  OBVIOUS
<1>2. list \in Seq(Nat) /\ \E at : ListedAt(list, s, P, at)
  BY <1>1, PickedInOrder
<1>3. PICK at : ListedAt(list, s, P, at)
  BY <1>2
<1>4. /\ \A i \in DOMAIN list : at[i] \in P /\ list[i] = s[at[i]]
      /\ \A p \in P : \E i \in DOMAIN list : at[i] = p
      /\ \A i, j \in DOMAIN list : i < j => at[i] < at[j]
  BY <1>3 DEF ListedAt
<1>5. ToSet(list) = {s[p] : p \in P}
  BY <1>4 DEF ToSet
<1>6. ASSUME NEW i \in DOMAIN list, NEW m \in P, m < at[i]
      PROVE  \E j \in 1..i - 1 : list[j] = s[m]
  <2>1. PICK j \in DOMAIN list : at[j] = m
    BY <1>4
  <2>2. i \in 1..Len(list) /\ j \in 1..Len(list) /\ Len(list) \in Nat
    BY <1>2
  <2>3. at[i] \in P /\ at[i] \in Nat /\ m \in Nat
    BY <1>4
  <2>4. j # i /\ ~(i < j)
    <3>1. i < j => at[i] < at[j]
      BY <1>4
    <3> QED
      BY <1>6, <2>1, <2>3, <3>1
  <2>5. j \in 1..i - 1
    BY <2>2, <2>4
  <2> QED
    BY <1>4, <2>1, <2>5
<1>7. \A i \in DOMAIN list : \E n \in P :
        /\ list[i] = s[n]
        /\ \A m \in P : m < n => \E j \in 1..i - 1 : list[j] = s[m]
  BY <1>4, <1>6
<1> QED
  BY <1>1, <1>2, <1>5, <1>7

LEMMA Joined ==
  ASSUME NEW u \in Seq(Nat), NEW v \in Seq(Nat)
  PROVE  /\ u \o v \in Seq(Nat) /\ Len(u \o v) = Len(u) + Len(v)
         /\ ToSet(u \o v) = ToSet(u) \cup ToSet(v)
         /\ \A i \in DOMAIN (u \o v) :
              (u \o v)[i] = IF i <= Len(u) THEN u[i] ELSE v[i - Len(u)]
<1>1. PICK m \in Nat : m = Len(u)
  OBVIOUS
<1>2. PICK n \in Nat : n = Len(v)
  OBVIOUS
<1>3. PICK w : w = u \o v
  OBVIOUS
<1>4. /\ w = u \o v /\ m = Len(u) /\ n = Len(v) /\ w \in Seq(Nat) /\ Len(w) = m + n
      /\ DOMAIN u = 1..m /\ DOMAIN v = 1..n /\ DOMAIN w = 1..(m + n)
      /\ \A i \in 1..(m + n) : w[i] = IF i <= m THEN u[i] ELSE v[i - m]
  <2>1. Len(u) \in Nat /\ Len(v) \in Nat /\ u \o v \in Seq(Nat) /\ Len(u \o v) = Len(u) + Len(v)
    OBVIOUS
  <2>2. \A i \in 1..(Len(u) + Len(v)) : (u \o v)[i] = IF i <= Len(u) THEN u[i] ELSE v[i - Len(u)]
    OBVIOUS
  <2>3. w \in Seq(Nat) /\ Len(w) = m + n
    BY <1>1, <1>2, <1>3, <2>1
  <2>4. DOMAIN u = 1..m /\ DOMAIN v = 1..n /\ DOMAIN w = 1..(m + n)
    BY <1>1, <1>2, <2>3
  <2>5. \A i \in 1..(m + n) : w[i] = IF i <= m THEN u[i] ELSE v[i - m]
    BY <1>1, <1>2, <1>3, <2>2
  <2> QED
    BY <1>1, <1>2, <1>3, <2>3, <2>4, <2>5
<1>5. ToSet(w) = ToSet(u) \cup ToSet(v)
  <2>1. ASSUME NEW i \in 1..(m + n) PROVE w[i] \in ToSet(u) \cup ToSet(v)
    <3>1. CASE i <= m
      <4>1. i \in DOMAIN u /\ w[i] = u[i]
        BY <1>4, <3>1
      <4> QED
        BY <4>1 DEF ToSet
    <3>2. CASE i > m
      <4>1. i - m \in DOMAIN v /\ w[i] = v[i - m]
        <5>1. i - m \in 1..n
          BY <3>2
        <5> QED
          BY <1>4, <3>2, <5>1
      <4> QED
        BY <4>1 DEF ToSet
    <3> QED
      BY <3>1, <3>2
  <2>2. ASSUME NEW i \in 1..m PROVE u[i] \in ToSet(w)
    <3>1. i \in 1..(m + n) /\ w[i] = u[i]
      BY <1>4
    <3> QED
      BY <1>4, <3>1 DEF ToSet
  <2>3. ASSUME NEW i \in 1..n PROVE v[i] \in ToSet(w)
    <3>1. i + m \in 1..(m + n) /\ w[i + m] = v[i]
      BY <1>4
    <3> QED
      BY <1>4, <3>1 DEF ToSet
  <2>4. /\ ToSet(w) = {w[i] : i \in 1..(m + n)} /\ ToSet(u) = {u[i] : i \in 1..m}
        /\ ToSet(v) = {v[i] : i \in 1..n}
    BY <1>4 DEF ToSet
  <2> QED
    BY <2>1, <2>2, <2>3, <2>4
<1> QED
  BY <1>4, <1>5

\* The part of a list from one place to another.
LEMMA Stretch ==
  ASSUME NEW s \in Seq(Nat), NEW a \in Nat \ {0}, NEW b \in Nat, b <= Len(s)
  PROVE  /\ SubSeq(s, a, b) \in Seq(Nat)
         /\ Len(SubSeq(s, a, b)) = IF a <= b THEN b - a + 1 ELSE 0
         /\ \A i \in 1..(b - a + 1) : SubSeq(s, a, b)[i] = s[a + i - 1]
<1>1. \A i \in a..b : s[i] \in Nat
  OBVIOUS
<1> QED
  BY <1>1, SubSeqProperties

LEMMA UptoFacts ==
  ASSUME NEW s \in Seq(Nat), NEW n \in Nat
  PROVE  /\ Upto(s, n) \in Seq(Nat)
         /\ Len(Upto(s, n)) = IF n < Len(s) THEN n ELSE Len(s)
         /\ \A i \in DOMAIN Upto(s, n) : i \in DOMAIN s /\ i <= n /\ Upto(s, n)[i] = s[i]
<1>1. PICK m \in Nat : m = IF n < Len(s) THEN n ELSE Len(s)
  OBVIOUS
<1>2. m <= Len(s) /\ m <= n
  BY <1>1
<1>3. PICK one \in Nat \ {0} : one = 1
  OBVIOUS
<1>4. PICK t : t = SubSeq(s, one, m)
  OBVIOUS
<1>5. /\ t \in Seq(Nat) /\ Len(t) = IF one <= m THEN m - one + 1 ELSE 0
      /\ \A i \in 1..(m - one + 1) : t[i] = s[one + i - 1]
  BY <1>2, <1>4, Stretch
<1>6. t \in Seq(Nat) /\ Len(t) = m /\ \A i \in 1..m : t[i] = s[i]
  BY <1>3, <1>5
<1>7. \A i \in DOMAIN t : i \in DOMAIN s /\ i <= n /\ t[i] = s[i]
  BY <1>2, <1>6
<1>8. Upto(s, n) = t
  BY <1>1, <1>3, <1>4 DEF Upto
<1> QED
  BY <1>1, <1>6, <1>7, <1>8

LEMMA OrderedFewer ==
  ASSUME NEW list, NEW pairs, NEW fewer, fewer \subseteq pairs, Ordered(list, pairs)
  PROVE  Ordered(list, fewer)
BY DEF Ordered

\* Picking keeps the order where it leaves out no first of a pair.
LEMMA OrderedPicked ==
  ASSUME NEW s \in Seq(Nat), NEW P \in SUBSET DOMAIN s, NEW pairs, Ordered(s, pairs),
         \A pair \in pairs : \A n \in DOMAIN s : s[n] = pair[1] => n \in P
  PROVE  Ordered(Picked(s, P), pairs)
<1>1. PICK t : t = Picked(s, P)
  OBVIOUS
<1>2. \A i \in DOMAIN t : \E n \in P :
        t[i] = s[n] /\ \A m \in P : m < n => \E j \in 1..i - 1 : t[j] = s[m]
  BY <1>1, PickedItems
<1>3. ASSUME NEW pair \in pairs, NEW i \in DOMAIN t, t[i] = pair[2]
      PROVE  \E j \in 1..i - 1 : t[j] = pair[1]
  <2>1. PICK n \in P :
          t[i] = s[n] /\ \A m \in P : m < n => \E j \in 1..i - 1 : t[j] = s[m]
    BY <1>2
  <2>2. n \in 1..Len(s) /\ Len(s) \in Nat
    OBVIOUS
  <2>3. PICK m \in 1..n - 1 : s[m] = pair[1]
    BY <1>3, <2>1 DEF Ordered
  <2>4. m \in DOMAIN s /\ m < n
    BY <2>2
  <2>5. m \in P
    BY <2>3, <2>4
  <2> QED
    BY <2>1, <2>3, <2>4, <2>5
<1>4. Ordered(t, pairs)
  BY <1>3 DEF Ordered
<1> QED
  BY <1>1, <1>4

LEMMA OrderedUpto ==
  ASSUME NEW s \in Seq(Nat), NEW n \in Nat, NEW pairs, Ordered(s, pairs)
  PROVE  Ordered(Upto(s, n), pairs)
<1>1. PICK t : t = Upto(s, n)
  OBVIOUS
<1>2. t \in Seq(Nat) /\ \A i \in DOMAIN t : i \in DOMAIN s /\ i <= n /\ t[i] = s[i]
  BY <1>1, UptoFacts
<1>3. ASSUME NEW pair \in pairs, NEW i \in DOMAIN t, t[i] = pair[2]
      PROVE  \E m \in 1..i - 1 : t[m] = pair[1]
  <2>1. PICK m \in 1..i - 1 : s[m] = pair[1]
    BY <1>2, <1>3 DEF Ordered
  <2>2. m \in DOMAIN t
    <3>1. i \in 1..Len(t) /\ Len(t) \in Nat /\ DOMAIN t = 1..Len(t)
      BY <1>2
    <3> QED
      BY <3>1
  <2> QED
    BY <1>2, <2>1, <2>2
<1>4. Ordered(t, pairs)
  BY <1>3 DEF Ordered
<1> QED
  BY <1>1, <1>4

\* A list is in its own order.
LEMMA OrderedItself ==
  ASSUME NEW s \in Seq(Nat), IsInjective(s), NEW pairs, pairs \subseteq Above(s)
  PROVE  Ordered(s, pairs)
<1>1. ASSUME NEW pair \in pairs, NEW n \in DOMAIN s, s[n] = pair[2]
      PROVE  \E m \in 1..n - 1 : s[m] = pair[1]
  <2>1. PICK p \in DOMAIN s, q \in DOMAIN s : p < q /\ s[p] = pair[1] /\ s[q] = pair[2]
    BY DEF Above
  <2>2. q = n
    BY <1>1, <2>1 DEF IsInjective
  <2>3. p \in 1..n - 1
    BY <2>1, <2>2
  <2> QED
    BY <2>1, <2>3
<1> QED
  BY <1>1 DEF Ordered

\* What is put behind a list in order follows what is due before it.
LEMMA OrderedJoined ==
  ASSUME NEW u \in Seq(Nat), NEW v \in Seq(Nat), NEW pairs, Ordered(u, pairs),
         \A pair \in pairs : \A n \in DOMAIN v : v[n] = pair[2] =>
           pair[1] \in ToSet(u) \/ \E m \in 1..n - 1 : v[m] = pair[1]
  PROVE  Ordered(u \o v, pairs)
<1>1. PICK w : w = u \o v
  OBVIOUS
<1>2. PICK l \in Nat : l = Len(u)
  OBVIOUS
<1>3. /\ w \in Seq(Nat) /\ Len(w) = l + Len(v) /\ Len(v) \in Nat
      /\ \A i \in DOMAIN w : w[i] = IF i <= l THEN u[i] ELSE v[i - l]
      /\ DOMAIN u = 1..l /\ DOMAIN v = 1..Len(v) /\ DOMAIN w = 1..l + Len(v)
  <2>1. /\ w \in Seq(Nat) /\ Len(w) = l + Len(v)
        /\ \A i \in DOMAIN w : w[i] = IF i <= l THEN u[i] ELSE v[i - l]
    BY <1>1, <1>2, Joined
  <2>2. Len(v) \in Nat /\ DOMAIN u = 1..Len(u) /\ DOMAIN v = 1..Len(v)
    OBVIOUS
  <2>3. DOMAIN w = 1..Len(w)
    BY <2>1
  <2> QED
    BY <1>2, <2>1, <2>2, <2>3
<1>4. ASSUME NEW pair \in pairs, NEW i \in DOMAIN w, w[i] = pair[2]
      PROVE  \E m \in 1..i - 1 : w[m] = pair[1]
  <2>1. CASE i <= l
    <3>1. i \in DOMAIN u /\ u[i] = pair[2]
      BY <1>3, <1>4, <2>1
    <3>2. PICK m \in 1..i - 1 : u[m] = pair[1]
      BY <3>1 DEF Ordered
    <3>3. m \in DOMAIN w /\ m <= l
      BY <1>3, <2>1
    <3> QED
      BY <1>3, <3>2, <3>3
  <2>2. CASE i > l
    <3>1. i - l \in DOMAIN v /\ v[i - l] = pair[2]
      BY <1>3, <1>4, <2>2
    <3>2. pair[1] \in ToSet(u) \/ \E m \in 1..(i - l) - 1 : v[m] = pair[1]
      BY <3>1
    <3>3. ASSUME pair[1] \in ToSet(u) PROVE \E m \in 1..i - 1 : w[m] = pair[1]
      <4>1. PICK m \in DOMAIN u : u[m] = pair[1]
        BY <3>3 DEF ToSet
      <4>2. m \in 1..i - 1 /\ m \in DOMAIN w /\ m <= l
        <5>1. i \in Nat /\ Len(v) \in Nat
          BY <1>3
        <5>2. m \in 1..l
          BY <1>3
        <5>3. m \in 1..i - 1 /\ m \in 1..l + Len(v) /\ m <= l
          BY <2>2, <5>1, <5>2
        <5> QED
          BY <1>3, <5>3
      <4> QED
        BY <1>3, <4>1, <4>2
    <3>4. ASSUME NEW m \in 1..(i - l) - 1, v[m] = pair[1] PROVE \E n \in 1..i - 1 : w[n] = pair[1]
      <4>1. PICK n \in Nat : n = m + l
        OBVIOUS
      <4>2. n \in 1..i - 1 /\ n \in DOMAIN w /\ ~(n <= l) /\ n - l = m
        <5>1. i \in Nat /\ i <= l + Len(v) /\ Len(v) \in Nat
          BY <1>3
        <5>2. m \in Nat /\ 1 <= m /\ m <= i - l - 1
          BY <5>1
        <5>3. n \in 1..i - 1 /\ ~(n <= l) /\ n - l = m /\ n \in 1..l + Len(v)
          BY <4>1, <5>1, <5>2
        <5> QED
          BY <1>3, <5>3
      <4>3. w[n] = v[n - l]
        BY <1>3, <4>2
      <4>4. w[n] = pair[1]
        BY <3>4, <4>2, <4>3
      <4> QED
        BY <4>2, <4>4
    <3> QED
      BY <3>2, <3>3, <3>4
  <2> QED
    BY <1>3, <2>1, <2>2
<1>5. Ordered(w, pairs)
  BY <1>4 DEF Ordered
<1> QED
  BY <1>1, <1>5

(***************************************************************************)
(* The steps of a fetch.                                                   *)
(***************************************************************************)
LEMMA PairsAreDue ==
  ASSUME NEW pair \in Pairs
  PROVE  pair \in over /\ pair[1] \in steady /\ pair[2] \in steady
BY DEF Pairs

\* What is due of a list that has everything in order is kept, in order.
LEMMA DueIsKept ==
  ASSUME NEW L \in Seq(Nat), steady \subseteq ToSet(L), Ordered(L, Pairs)
  PROVE  /\ KeptItems(L) \in Seq(Nat) /\ Due \subseteq ToSet(KeptItems(L))
         /\ Ordered(KeptItems(L), over \cap (Due \X Due))
<1>1. PICK P : P = {n \in DOMAIN L : Kept(job.source, RowOf[L[n]])}
  OBVIOUS
<1>2. P \in SUBSET DOMAIN L /\ KeptItems(L) = Picked(L, P)
  BY <1>1 DEF KeptItems
<1>3. PICK pairs : pairs = over \cap (Due \X Due)
  OBVIOUS
<1>4. Picked(L, P) \in Seq(Nat) /\ ToSet(Picked(L, P)) = {L[p] : p \in P}
  BY <1>2, PickedItems
<1>5. ASSUME NEW x \in Due PROVE x \in ToSet(Picked(L, P))
  <2>1. PICK n \in DOMAIN L : L[n] = x
    BY DEF Due, ToSet
  <2>2. n \in P
    BY <1>1, <2>1 DEF Due
  <2> QED
    BY <1>4, <2>1, <2>2
<1>6. pairs \subseteq Pairs /\ \A pair \in pairs : pair[1] \in Due
  BY <1>3 DEF Pairs, Due
<1>7. Ordered(L, pairs)
  BY <1>6, OrderedFewer
<1>8. \A pair \in pairs : \A n \in DOMAIN L : L[n] = pair[1] => n \in P
  BY <1>1, <1>6 DEF Due
<1>9. Ordered(Picked(L, P), pairs)
  BY <1>2, <1>7, <1>8, OrderedPicked
<1> QED
  BY <1>2, <1>3, <1>4, <1>5, <1>9

\* A fetch that goes on, one that fails and one that returns.
LEMMA WholeGoesOn ==
  ASSUME job'.phase = "fetching", WholeTypes', FetchInv' PROVE WholeInv'
BY DEF WholeInv, ListIsWhole

LEMMA WholeFailed ==
  ASSUME SourceInv, WholeInv, job' = Ended("failed", <<>>), UNCHANGED surroundings
  PROVE  WholeInv'
<1>1. /\ job'.phase = "failed" /\ job'.drafts = <<>> /\ job'.ids = job.ids /\ job'.read = job.read
      /\ site' = site
  BY DEF Ended, SourceInv, NoJob, surroundings
<1>2. WholeTypes'
  <2>1. <<>> \in Seq(Nat)
    OBVIOUS
  <2> QED
    BY <1>1, <2>1 DEF WholeInv, WholeTypes
<1> QED
  BY <1>1, <1>2 DEF WholeInv, ListIsWhole

LEMMA WholeReturned ==
  ASSUME SourceInv, WholeInv, NEW D \in Seq(Nat), job' = Ended("returned", D),
         UNCHANGED surroundings, Due \subseteq ToSet(D), Ordered(D, over \cap (Due \X Due))
  PROVE  WholeInv'
<1>1. /\ job'.phase = "returned" /\ job'.drafts = D /\ job'.ids = job.ids /\ job'.read = job.read
      /\ job'.source = job.source
      /\ site' = site /\ steady' = steady /\ over' = over
  BY DEF Ended, SourceInv, NoJob, surroundings
<1>2. WholeTypes'
  BY <1>1 DEF WholeInv, WholeTypes
<1>3. ListIsWhole'
  BY <1>1 DEF ListIsWhole, Ordered, Due
<1> QED
  BY <1>1, <1>2, <1>3 DEF WholeInv

LEMMA WholeInit == SourceInit => WholeInv
<1> SUFFICES ASSUME SourceInit PROVE WholeInv
  OBVIOUS
<1>1. IsInjective(site)
  BY FirstType, ListingsType
<1>2. job.drafts = <<>> /\ job.ids = <<>> /\ job.read = 0 /\ job.phase = "idle"
  BY DEF SourceInit, NoJob
<1>3. <<>> \in Seq(Nat) /\ 0 \in Nat
  OBVIOUS
<1> QED
  BY <1>1, <1>2, <1>3 DEF WholeInv, WholeTypes, ListIsWhole

LEMMA WholeStutters == WholeInv /\ UNCHANGED sourceVars => WholeInv'
BY DEF WholeInv, WholeTypes, FetchInv, PlaceInv, PagedInv, AtOnceInv, ListIsWhole, sourceVars,
   InReach, Above, Ordered, Pairs, ToSet, IsInjective

LEMMA BeginWhole == ASSUME SourceInv, WholeInv, NEW source, Begin(source) PROVE WholeInv'
<1>1. /\ job'.source = source /\ job'.phase = "fetching" /\ job'.ids = <<>> /\ job'.drafts = <<>>
      /\ job'.read = 0 /\ job'.pending = [k \in {First(source)} |-> 1]
  BY DEF Begin, NoJob
<1>2. /\ site' = site /\ over' = Above(site)
      /\ steady' = {site[p] : p \in {p \in DOMAIN site : InReach(job', p)}}
  BY DEF Begin
<1>3. <<>> \in Seq(Nat) /\ ToSet(<<>>) = {} /\ Len(<<>>) = 0 /\ DOMAIN <<>> = {}
  BY DEF ToSet
<1>4. WholeTypes'
  BY <1>1, <1>2, <1>3 DEF WholeInv, WholeTypes
<1>5. \A p \in DOMAIN site : p > 0
  BY DEF SourceInv
<1>6. PlaceInv'
  <2>1. ASSUME NEW i \in steady'
        PROVE  \E p \in DOMAIN site' : site'[p] = i /\ InReach(job', p) /\ p > job'.read
    BY <1>1, <1>2, <1>5
  <2>2. over' \subseteq Above(site')
    BY <1>2
  <2> QED
    BY <2>1, <2>2 DEF PlaceInv
<1>7. source \in Paged => PagedInv'
  <2>1. Ordered(job'.drafts, Pairs')
    BY <1>1, <1>3 DEF Ordered
  <2>2. source \in Paged /\ source # "producthunt" => \A k \in DOMAIN job'.pending : k = 1
    BY <1>1 DEF First, Paged
  <2>3. (1 - 1) * PageSize = 0 /\ 0 < Limit
    BY FetchBounds
  <2> QED
    BY <1>1, <1>3, <2>1, <2>2, <2>3 DEF PagedInv
<1>8. source = "hackernews" => AtOnceInv'
  BY <1>1 DEF AtOnceInv
<1> QED
  BY <1>1, <1>4, <1>6, <1>7, <1>8, WholeGoesOn DEF FetchInv, Paged

LEMMA RefuseWhole == ASSUME SourceInv, WholeInv, NEW k, Refuse(k) PROVE WholeInv'
BY WholeFailed DEF Refuse

\* The parts of the invariant where neither the list nor what has been read changes.
LEMMA SameReach ==
  ASSUME SourceInv, WholeInv, job.phase = "fetching", UNCHANGED surroundings,
         job'.source = job.source, job'.phase = job.phase, job'.ids = job.ids, job'.read = job.read,
         job'.drafts = job.drafts,
         \A p : InReach(job, p) => InReach(job', p)
  PROVE  WholeTypes' /\ PlaceInv' /\ Pairs' = Pairs
<1>1. site' = site /\ steady' = steady /\ over' = over
  BY DEF surroundings
<1>2. WholeTypes'
  BY <1>1 DEF WholeInv, WholeTypes
<1>3. PlaceInv
  BY DEF WholeInv, FetchInv
<1>4. PlaceInv'
  <2>1. ASSUME NEW i \in steady
        PROVE  \E p \in DOMAIN site :
                 site[p] = i /\ InReach(job', p) /\ (i \in ToSet(job.drafts) \/ p > job.read)
    BY <1>3 DEF PlaceInv
  <2>2. over \subseteq Above(site)
    BY <1>3 DEF PlaceInv
  <2> QED
    BY <1>1, <2>1, <2>2 DEF PlaceInv, Above, ToSet
<1> QED
  BY <1>1, <1>2, <1>4 DEF Pairs

LEMMA RepeatWhole == ASSUME SourceInv, WholeInv, NEW k, Repeat(k) PROVE WholeInv'
<1>1. /\ job.phase = "fetching" /\ k \in DOMAIN job.pending /\ UNCHANGED surroundings
      /\ job' = [job EXCEPT !.pending[k] = @ + 1]
  BY DEF Repeat, Fetching
<1>2. /\ job'.source = job.source /\ job'.phase = job.phase /\ job'.ids = job.ids
      /\ job'.read = job.read /\ job'.drafts = job.drafts
      /\ job'.pending = [job.pending EXCEPT ![k] = @ + 1]
  BY <1>1 DEF SourceInv, NoJob
<1>3. DOMAIN job'.pending = DOMAIN job.pending
  BY <1>2
<1>4. \A p : InReach(job, p) => InReach(job', p)
  BY <1>2, <1>3 DEF InReach
<1>5. WholeTypes' /\ PlaceInv' /\ Pairs' = Pairs
  BY <1>1, <1>2, <1>4, SameReach
<1>6. steady' = steady
  BY <1>1 DEF surroundings
<1>7. job.source \in Paged => PagedInv'
  BY <1>1, <1>2, <1>3, <1>5 DEF WholeInv, FetchInv, PagedInv
<1>8. job.source = "hackernews" => AtOnceInv'
  BY <1>1, <1>2, <1>3, <1>5, <1>6 DEF WholeInv, FetchInv, AtOnceInv
<1> QED
  BY <1>1, <1>2, <1>5, <1>7, <1>8, WholeGoesOn DEF FetchInv

LEMMA AnswerTokenWhole == SourceInv /\ WholeInv /\ AnswerToken => WholeInv'
<1> SUFFICES ASSUME SourceInv, WholeInv, AnswerToken PROVE WholeInv'
  OBVIOUS
<1>1. /\ job.phase = "fetching" /\ 0 \in DOMAIN job.pending /\ UNCHANGED surroundings
      /\ job.source = "producthunt"
  BY DEF AnswerToken, Fetching
<1>2. /\ job'.source = job.source /\ job'.phase = job.phase /\ job'.ids = job.ids
      /\ job'.read = job.read /\ job'.drafts = job.drafts
      /\ job'.pending = [n \in {1} |-> 1]
  BY DEF AnswerToken, SourceInv, NoJob
<1>3. \A p : InReach(job, p) => InReach(job', p)
  <2>1. PagesLeft(0) = MaxPages /\ \A k \in DOMAIN job'.pending : PagesLeft(k) = MaxPages
    BY <1>2, FetchBounds DEF PagesLeft
  <2> QED
    BY <1>1, <1>2, <2>1 DEF InReach
<1>4. WholeTypes' /\ PlaceInv' /\ Pairs' = Pairs
  BY <1>1, <1>2, <1>3, SameReach
<1>5. PagedInv'
  BY <1>1, <1>2, <1>4 DEF WholeInv, FetchInv, PagedInv, Paged
<1> QED
  BY <1>1, <1>2, <1>4, <1>5, WholeGoesOn DEF FetchInv

\* The list itself has everything in order.
LEMMA ListItself ==
  ASSUME SourceInv, WholeInv, job.phase = "fetching"
  PROVE  steady \subseteq ToSet(site) /\ Ordered(site, Pairs)
<1>1. PlaceInv
  BY DEF WholeInv, FetchInv
<1>2. steady \subseteq ToSet(site)
  BY <1>1 DEF PlaceInv, ToSet
<1>3. Pairs \subseteq Above(site)
  BY <1>1 DEF PlaceInv, Pairs
<1> QED
  BY <1>2, <1>3, OrderedItself DEF SourceInv, WholeInv, WholeTypes

LEMMA AnswerSingleWhole == SourceInv /\ WholeInv /\ AnswerSingle => WholeInv'
<1> SUFFICES ASSUME SourceInv, WholeInv, AnswerSingle PROVE WholeInv'
  OBVIOUS
<1>1. job.phase = "fetching" /\ UNCHANGED surroundings /\ site \in Seq(Nat)
  BY DEF AnswerSingle, Fetching, SourceInv
<1>2. \/ job' = Ended("failed", <<>>) \/ job' = Ended("returned", site)
      \/ job' = Ended("returned", KeptItems(site))
  BY DEF AnswerSingle, parseStarHistoryHome, parseTrendshiftPage
<1>3. steady \subseteq ToSet(site) /\ Ordered(site, Pairs)
  BY <1>1, ListItself
<1>4. CASE job' = Ended("failed", <<>>)
  BY <1>1, <1>4, WholeFailed
<1>5. CASE job' = Ended("returned", site)
  <2>1. Due \subseteq ToSet(site) /\ over \cap (Due \X Due) \subseteq Pairs
    BY <1>3 DEF Due, Pairs
  <2>2. Ordered(site, over \cap (Due \X Due))
    BY <1>3, <2>1, OrderedFewer
  <2> QED
    BY <1>1, <1>5, <2>1, <2>2, WholeReturned
<1>6. CASE job' = Ended("returned", KeptItems(site))
  <2>1. /\ KeptItems(site) \in Seq(Nat) /\ Due \subseteq ToSet(KeptItems(site))
        /\ Ordered(KeptItems(site), over \cap (Due \X Due))
    BY <1>1, <1>3, DueIsKept
  <2> QED
    BY <1>1, <1>6, <2>1, WholeReturned
<1> QED
  BY <1>2, <1>4, <1>5, <1>6

\* A new list: what has not been read is still below, or no longer due.
LEMMA RelistWhole == SourceInv /\ WholeInv /\ Relist => WholeInv'
<1> SUFFICES ASSUME SourceInv, WholeInv, Relist PROVE WholeInv'
  OBVIOUS
<1>1. PICK list \in Listings : \E row :
        /\ job.phase = "fetching" /\ job.source \in Paged \cup {"hackernews"}
        /\ row = job.read \/ (row \in 0..Len(list) /\ job.source = "producthunt")
        /\ site' = list /\ job' = [job EXCEPT !.read = row]
        /\ steady' = {i \in steady :
             \E q \in DOMAIN site, p \in DOMAIN list :
               site[q] = i /\ list[p] = i /\ InReach(job', p) /\ (q > job.read => p > row)}
        /\ over' = over \cap Above(list)
  BY RelistFacts
<1>2. PICK row :
        /\ job.phase = "fetching" /\ job.source \in Paged \cup {"hackernews"}
        /\ row = job.read \/ (row \in 0..Len(list) /\ job.source = "producthunt")
        /\ site' = list /\ job' = [job EXCEPT !.read = row]
        /\ steady' = {i \in steady :
             \E q \in DOMAIN site, p \in DOMAIN list :
               site[q] = i /\ list[p] = i /\ InReach(job', p) /\ (q > job.read => p > row)}
        /\ over' = over \cap Above(list)
  BY <1>1
<1>3. list \in Seq(Nat) /\ IsInjective(list)
  BY ListingsType
<1>4. /\ job'.source = job.source /\ job'.phase = job.phase /\ job'.ids = job.ids
      /\ job'.pending = job.pending /\ job'.drafts = job.drafts /\ job'.read = row
  BY <1>2 DEF SourceInv, NoJob
<1>5. WholeTypes'
  <2>1. row \in Nat
    BY <1>2, <1>3 DEF WholeInv, WholeTypes
  <2> QED
    BY <1>2, <1>3, <1>4, <2>1 DEF WholeInv, WholeTypes
<1>6. PlaceInv
  BY <1>2 DEF WholeInv, FetchInv
<1>7. PlaceInv'
  <2>1. ASSUME NEW i \in steady'
        PROVE  \E p \in DOMAIN list :
                 list[p] = i /\ InReach(job', p) /\ (i \in ToSet(job.drafts) \/ p > row)
    <3>1. PICK q \in DOMAIN site, p \in DOMAIN list :
            site[q] = i /\ list[p] = i /\ InReach(job', p) /\ (q > job.read => p > row)
      BY <1>2
    <3>2. i \in steady
      BY <1>2
    <3>3. PICK r \in DOMAIN site : site[r] = i /\ (i \in ToSet(job.drafts) \/ r > job.read)
      BY <1>6, <3>2 DEF PlaceInv
    <3>4. r = q
      BY <3>1, <3>3 DEF WholeInv, WholeTypes, IsInjective
    <3> QED
      BY <3>1, <3>3, <3>4
  <2>2. over' \subseteq Above(list)
    BY <1>2
  <2> QED
    BY <1>2, <1>4, <2>1, <2>2 DEF PlaceInv
<1>8. Pairs' \subseteq Pairs /\ steady' \subseteq steady
  <2>1. steady' \subseteq steady /\ over' \subseteq over
    BY <1>2
  <2> QED
    BY <2>1 DEF Pairs
<1>9. job.source \in Paged => PagedInv'
  <2> SUFFICES ASSUME job.source \in Paged PROVE PagedInv'
    OBVIOUS
  <2>1. PagedInv
    BY <1>2 DEF WholeInv, FetchInv
  <2>2. Ordered(job'.drafts, Pairs')
    BY <1>4, <1>8, <2>1, OrderedFewer DEF PagedInv
  <2>3. job.source # "producthunt" => row = job.read
    BY <1>2
  <2> QED
    BY <1>4, <2>1, <2>2, <2>3 DEF PagedInv
<1>10. job.source = "hackernews" => AtOnceInv'
  <2> SUFFICES ASSUME job.source = "hackernews" PROVE AtOnceInv'
    OBVIOUS
  <2>1. AtOnceInv /\ row = job.read
    BY <1>2 DEF WholeInv, FetchInv
  <2>2. job.ids # <<>> => Ordered(job.ids, Pairs')
    BY <1>8, <2>1, OrderedFewer DEF AtOnceInv
  <2> QED
    BY <1>4, <1>8, <2>1, <2>2 DEF AtOnceInv
<1> QED
  BY <1>2, <1>4, <1>5, <1>7, <1>9, <1>10, WholeGoesOn DEF FetchInv

(***************************************************************************)
(* All items at once.                                                      *)
(***************************************************************************)
LEMMA AnswerIdsWhole == SourceInv /\ WholeInv /\ AnswerIds => WholeInv'
<1> SUFFICES ASSUME SourceInv, WholeInv, AnswerIds PROVE WholeInv'
  OBVIOUS
<1>1. PICK ids : ids = Upto(site, Limit)
  OBVIOUS
<1>2. /\ job.phase = "fetching" /\ 0 \in DOMAIN job.pending /\ job.source = "hackernews"
      /\ UNCHANGED surroundings
      /\ job' = IF ids = <<>> THEN Ended("returned", <<>>)
                ELSE [job EXCEPT !.ids = ids, !.pending = [k \in DOMAIN ids |-> 1]]
  BY <1>1 DEF AnswerIds, Fetching
<1>3. job.ids = <<>>
  BY <1>2 DEF SourceInv, AllAtOnce
<1>4. PlaceInv /\ AtOnceInv
  BY <1>2 DEF WholeInv, FetchInv
<1>5. site \in Seq(Nat) /\ Limit \in Nat
  BY FetchBounds DEF SourceInv
<1>6. /\ ids \in Seq(Nat) /\ Len(ids) = IF Limit < Len(site) THEN Limit ELSE Len(site)
      /\ \A n \in DOMAIN ids : n \in DOMAIN site /\ n <= Limit /\ ids[n] = site[n]
  BY <1>1, <1>5, UptoFacts
<1>7. ASSUME NEW i \in steady PROVE i \in ToSet(ids)
  <2>1. PICK p \in DOMAIN site : site[p] = i /\ InReach(job, p)
    BY <1>4 DEF PlaceInv
  <2>2. p <= Limit
    BY <1>2, <1>3, <2>1 DEF InReach
  <2>3. p \in DOMAIN ids
    BY <1>5, <1>6, <2>2
  <2> QED
    BY <1>6, <2>1, <2>3 DEF ToSet
<1>8. Ordered(ids, Pairs)
  <2>1. Ordered(site, Pairs)
    BY <1>2, ListItself
  <2> QED
    BY <1>1, <1>5, <2>1, OrderedUpto
<1>9. CASE ids = <<>>
  <2>1. Due \subseteq ToSet(ids) /\ over \cap (Due \X Due) \subseteq Pairs
    BY <1>7 DEF Due, Pairs
  <2>2. Ordered(ids, over \cap (Due \X Due))
    BY <1>8, <2>1, OrderedFewer
  <2>3. job' = Ended("returned", ids)
    BY <1>2, <1>9
  <2> QED
    BY <1>2, <1>6, <2>1, <2>2, <2>3, WholeReturned
<1>10. CASE ids # <<>>
  <2>1. /\ job'.source = job.source /\ job'.phase = job.phase /\ job'.ids = ids
        /\ job'.read = job.read /\ job'.drafts = job.drafts
        /\ job'.pending = [k \in DOMAIN ids |-> 1]
    BY <1>2, <1>10 DEF SourceInv, NoJob
  <2>2. site' = site /\ steady' = steady /\ over' = over
    BY <1>2 DEF surroundings
  <2>3. WholeTypes'
    BY <1>6, <2>1, <2>2 DEF WholeInv, WholeTypes
  <2>4. \A p : InReach(job', p)
    BY <1>2, <1>10, <2>1 DEF InReach
  <2>5. PlaceInv'
    <3>1. ASSUME NEW i \in steady
          PROVE  \E p \in DOMAIN site :
                   site[p] = i /\ InReach(job', p) /\ (i \in ToSet(job.drafts) \/ p > job.read)
      BY <1>4, <2>4 DEF PlaceInv
    <3>2. over' \subseteq Above(site')
      BY <1>4, <2>2 DEF PlaceInv, Above, ToSet
    <3> QED
      BY <2>1, <2>2, <3>1, <3>2 DEF PlaceInv
  <2>6. Pairs' = Pairs
    BY <2>2 DEF Pairs
  <2>7. AtOnceInv'
    BY <1>4, <1>7, <1>8, <1>10, <2>1, <2>2, <2>6 DEF AtOnceInv
  <2> QED
    BY <1>2, <2>1, <2>3, <2>5, <2>7, WholeGoesOn DEF FetchInv, Paged
<1> QED
  BY <1>9, <1>10

LEMMA AnswerItemWhole == ASSUME SourceInv, WholeInv, NEW k, AnswerItem(k) PROVE WholeInv'
<1>1. /\ job.phase = "fetching" /\ k \in DOMAIN job.pending /\ job.source = "hackernews"
      /\ UNCHANGED surroundings
  BY DEF AnswerItem, Fetching
<1>2. job.ids # <<>>
  <2>1. job.ids = <<>> => k = 0
    BY <1>1, TheRequest DEF Fetching
  <2> QED
    BY <2>1 DEF AnswerItem
<1>3. AtOnceInv /\ PlaceInv
  BY <1>1 DEF WholeInv, FetchInv
<1>4. k \in DOMAIN job.ids
  BY <1>1, <1>2 DEF SourceInv, AllAtOnce, WholeInv, WholeTypes
<1>5. job.ids[k] \in Nat
  BY <1>4 DEF WholeInv, WholeTypes
<1>6. steady \subseteq ToSet(site)
  BY <1>1, ListItself
<1>7. PICK left : left = DOMAIN job.pending \ {k}
  OBVIOUS
<1>8. PICK gone \in BOOLEAN :
        /\ gone => job.ids[k] \notin ToSet(site)
        /\ LET arrived == IF gone THEN job.drafts ELSE Append(job.drafts, job.ids[k])
           IN job' = IF left = {} THEN Ended("returned", KeptItems(InOrder(arrived)))
                     ELSE [job EXCEPT !.drafts = arrived, !.pending = [n \in left |-> job.pending[n]]]
  BY <1>7 DEF AnswerItem
<1>9. PICK arrived : arrived = IF gone THEN job.drafts ELSE Append(job.drafts, job.ids[k])
  OBVIOUS
<1>10. job' = IF left = {} THEN Ended("returned", KeptItems(InOrder(arrived)))
              ELSE [job EXCEPT !.drafts = arrived, !.pending = [n \in left |-> job.pending[n]]]
  BY <1>8, <1>9
<1>11. /\ arrived \in Seq(Nat) /\ ToSet(job.drafts) \subseteq ToSet(arrived)
       /\ job.ids[k] \in steady => job.ids[k] \in ToSet(arrived)
  <2>1. PICK D \in Seq(Nat) : D = job.drafts
    BY DEF WholeInv, WholeTypes
  <2>2. PICK x \in Nat : x = job.ids[k]
    BY <1>5
  <2>3. /\ Append(D, x) \in Seq(Nat) /\ Append(D, x)[Len(D) + 1] = x
        /\ Len(D) + 1 \in DOMAIN Append(D, x)
        /\ \A n \in DOMAIN D : n \in DOMAIN Append(D, x) /\ Append(D, x)[n] = D[n]
    OBVIOUS
  <2>4. ToSet(D) \subseteq ToSet(Append(D, x)) /\ x \in ToSet(Append(D, x))
    BY <2>3 DEF ToSet
  <2>5. gone => x \notin steady
    BY <1>6, <1>8, <2>2
  <2> QED
    BY <1>9, <2>1, <2>2, <2>3, <2>4, <2>5
<1>12. \A n \in DOMAIN job.ids : job.ids[n] \in steady =>
         n \in left \/ job.ids[n] \in ToSet(arrived)
  BY <1>2, <1>3, <1>7, <1>11 DEF AtOnceInv
<1>13. CASE left = {}
  <2>1. job' = Ended("returned", KeptItems(InOrder(arrived)))
    BY <1>10, <1>13
  <2>2. PICK P : P = {n \in DOMAIN job.ids : job.ids[n] \in ToSet(arrived)}
    OBVIOUS
  <2>3. P \in SUBSET DOMAIN job.ids /\ InOrder(arrived) = Picked(job.ids, P) /\ job.ids \in Seq(Nat)
    BY <2>2 DEF InOrder, WholeInv, WholeTypes
  <2>4. \A n \in DOMAIN job.ids : job.ids[n] \in steady => n \in P
    BY <1>12, <1>13, <2>2
  <2>5. InOrder(arrived) \in Seq(Nat) /\ ToSet(InOrder(arrived)) = {job.ids[p] : p \in P}
    BY <2>3, PickedItems
  <2>6. ASSUME NEW i \in steady PROVE i \in ToSet(InOrder(arrived))
    <3>1. PICK n \in DOMAIN job.ids : job.ids[n] = i
      BY <1>2, <1>3 DEF AtOnceInv, ToSet
    <3> QED
      BY <2>4, <2>5, <3>1
  <2>7. Ordered(InOrder(arrived), Pairs)
    <3>1. Ordered(job.ids, Pairs)
      BY <1>2, <1>3 DEF AtOnceInv
    <3>2. \A pair \in Pairs : pair[1] \in steady
      BY PairsAreDue
    <3>3. \A pair \in Pairs : \A n \in DOMAIN job.ids : job.ids[n] = pair[1] => n \in P
      BY <2>4, <3>2
    <3> QED
      BY <2>3, <3>1, <3>3, OrderedPicked
  <2>8. PICK L \in Seq(Nat) : L = InOrder(arrived)
    BY <2>5
  <2>9. /\ KeptItems(L) \in Seq(Nat) /\ Due \subseteq ToSet(KeptItems(L))
        /\ Ordered(KeptItems(L), over \cap (Due \X Due))
    BY <2>6, <2>7, <2>8, DueIsKept
  <2> QED
    BY <1>1, <2>1, <2>8, <2>9, WholeReturned
<1>14. CASE left # {}
  <2>1. /\ job'.source = job.source /\ job'.phase = job.phase /\ job'.ids = job.ids
        /\ job'.read = job.read /\ job'.drafts = arrived
        /\ job'.pending = [n \in left |-> job.pending[n]]
    BY <1>10, <1>14 DEF SourceInv, NoJob
  <2>2. site' = site /\ steady' = steady /\ over' = over
    BY <1>1 DEF surroundings
  <2>3. WholeTypes'
    BY <1>11, <2>1, <2>2 DEF WholeInv, WholeTypes
  <2>4. \A p : InReach(job', p)
    BY <1>1, <1>2, <2>1 DEF InReach
  <2>5. PlaceInv'
    <3>1. ASSUME NEW i \in steady
          PROVE  \E p \in DOMAIN site :
                   site[p] = i /\ InReach(job', p) /\ (i \in ToSet(arrived) \/ p > job.read)
      BY <1>3, <1>11, <2>4 DEF PlaceInv
    <3>2. over' \subseteq Above(site')
      BY <1>3, <2>2 DEF PlaceInv, Above, ToSet
    <3> QED
      BY <2>1, <2>2, <3>1, <3>2 DEF PlaceInv
  <2>6. Pairs' = Pairs
    BY <2>2 DEF Pairs
  <2>7. AtOnceInv'
    BY <1>2, <1>3, <1>12, <2>1, <2>2, <2>6 DEF AtOnceInv
  <2> QED
    BY <1>1, <2>1, <2>3, <2>5, <2>7, WholeGoesOn DEF FetchInv, Paged
<1> QED
  BY <1>13, <1>14

(***************************************************************************)
(* Page after page.                                                        *)
(***************************************************************************)
\* A page holds the next rows, and all that are left when it is not full.
LEMMA PageRows ==
  ASSUME NEW s \in Seq(Nat), NEW r \in Nat, NEW size \in Nat,
         NEW rows, rows = Upto(SubSeq(s, r + 1, Len(s)), size)
  PROVE  /\ rows \in Seq(Nat) /\ Len(rows) <= size
         /\ \A n \in DOMAIN rows : r + n \in DOMAIN s /\ rows[n] = s[r + n]
         /\ \A p \in DOMAIN s : r < p /\ p <= r + size => p - r \in DOMAIN rows
         /\ Len(rows) < size => Len(s) <= r + Len(rows)
         /\ Len(SubSeq(s, r + 1, Len(s))) <= size => Len(s) <= r + size
<1>1. PICK below : below = SubSeq(s, r + 1, Len(s))
  OBVIOUS
<1>2. PICK a \in Nat \ {0} : a = r + 1
  OBVIOUS
<1>3. PICK b \in Nat : b = Len(s)
  OBVIOUS
<1>4. /\ below \in Seq(Nat) /\ Len(below) = IF a <= b THEN b - a + 1 ELSE 0
      /\ \A i \in 1..(b - a + 1) : below[i] = s[a + i - 1]
  <2>1. b <= Len(s) /\ below = SubSeq(s, a, b)
    BY <1>1, <1>2, <1>3
  <2> QED
    BY <2>1, Stretch
<1>5. /\ Len(below) = IF r < b THEN b - r ELSE 0
      /\ \A i \in 1..(b - r) : below[i] = s[r + i]
  BY <1>2, <1>4
<1>6. /\ rows \in Seq(Nat)
      /\ Len(rows) = IF size < Len(below) THEN size ELSE Len(below)
      /\ \A i \in DOMAIN rows : i \in DOMAIN below /\ i <= size /\ rows[i] = below[i]
  <2>1. PICK t \in Seq(Nat) : t = below
    BY <1>4
  <2>2. /\ Upto(t, size) \in Seq(Nat)
        /\ Len(Upto(t, size)) = IF size < Len(t) THEN size ELSE Len(t)
        /\ \A i \in DOMAIN Upto(t, size) : i \in DOMAIN t /\ i <= size /\ Upto(t, size)[i] = t[i]
    BY UptoFacts
  <2>3. rows = Upto(t, size)
    BY <1>1, <2>1
  <2> QED
    BY <2>1, <2>2, <2>3
<1>7. DOMAIN s = 1..b /\ DOMAIN rows = 1..Len(rows) /\ DOMAIN below = 1..Len(below)
  BY <1>3, <1>4, <1>6
<1>8. Len(rows) <= size /\ (Len(rows) < size => b <= r + Len(rows))
  BY <1>5, <1>6
<1>9. ASSUME NEW n \in DOMAIN rows PROVE r + n \in DOMAIN s /\ rows[n] = s[r + n]
  <2>1. n \in 1..(b - r) /\ rows[n] = below[n]
    BY <1>5, <1>6, <1>7
  <2> QED
    BY <1>5, <1>7, <2>1
<1>10. ASSUME NEW p \in DOMAIN s, r < p, p <= r + size PROVE p - r \in DOMAIN rows
  <2>1. p \in Nat /\ p <= b
    BY <1>7
  <2> QED
    BY <1>5, <1>6, <1>7, <1>10, <2>1
<1>11. Len(below) <= size => b <= r + size
  BY <1>5
<1> QED
  BY <1>1, <1>3, <1>6, <1>8, <1>9, <1>10, <1>11

LEMMA TheRows ==
  ASSUME SourceInv, WholeInv, NEW rows, rows = Upto(Below, PageSize)
  PROVE  /\ rows \in Seq(Nat) /\ Len(rows) \in Nat /\ Len(rows) <= PageSize
         /\ \A n \in DOMAIN rows : job.read + n \in DOMAIN site /\ rows[n] = site[job.read + n]
         /\ \A p \in DOMAIN site :
              job.read < p /\ p <= job.read + PageSize => p - job.read \in DOMAIN rows
         /\ Len(rows) < PageSize => Len(site) <= job.read + Len(rows)
         /\ Len(Below) <= PageSize => Len(site) <= job.read + PageSize
<1>1. PICK s \in Seq(Nat) : s = site
  BY DEF SourceInv
<1>2. PICK r \in Nat : r = job.read
  BY DEF WholeInv, WholeTypes
<1>3. PICK size \in Nat : size = PageSize
  BY FetchBounds
<1>4. rows = Upto(SubSeq(s, r + 1, Len(s)), size) /\ Below = SubSeq(s, r + 1, Len(s))
  BY <1>1, <1>2, <1>3 DEF Below
<1>5. /\ rows \in Seq(Nat) /\ Len(rows) <= size
      /\ \A n \in DOMAIN rows : r + n \in DOMAIN s /\ rows[n] = s[r + n]
      /\ \A p \in DOMAIN s : r < p /\ p <= r + size => p - r \in DOMAIN rows
      /\ Len(rows) < size => Len(s) <= r + Len(rows)
      /\ Len(SubSeq(s, r + 1, Len(s))) <= size => Len(s) <= r + size
  BY <1>4, PageRows
<1>6. Len(rows) \in Nat
  BY <1>5
<1> QED
  BY <1>1, <1>2, <1>3, <1>4, <1>5, <1>6

\* On the next page an item has above it what was always above it, unless that was read.
LEMMA PageOrdered ==
  ASSUME SourceInv, WholeInv, job.phase = "fetching", NEW rows, rows = Upto(Below, PageSize),
         NEW pair \in Pairs, NEW n \in DOMAIN rows, rows[n] = pair[2]
  PROVE  pair[1] \in ToSet(job.drafts) \/ \E m \in 1..n - 1 : rows[m] = pair[1]
<1>1. PlaceInv
  BY DEF WholeInv, FetchInv
<1>2. /\ site \in Seq(Nat) /\ IsInjective(site) /\ job.read \in Nat /\ PageSize \in Nat
  BY FetchBounds DEF SourceInv, WholeInv, WholeTypes
<1>3. /\ rows \in Seq(Nat)
      /\ \A i \in DOMAIN rows : job.read + i \in DOMAIN site /\ rows[i] = site[job.read + i]
  BY TheRows
<1>4. pair \in Above(site) /\ pair[1] \in steady
  BY <1>1, PairsAreDue DEF PlaceInv
<1>5. PICK p \in DOMAIN site, q \in DOMAIN site : p < q /\ site[p] = pair[1] /\ site[q] = pair[2]
  BY <1>4 DEF Above
<1>6. q = job.read + n
  BY <1>2, <1>3, <1>5 DEF IsInjective
<1>7. PICK r \in DOMAIN site : site[r] = pair[1] /\ (pair[1] \in ToSet(job.drafts) \/ r > job.read)
  BY <1>1, <1>4 DEF PlaceInv
<1>8. r = p
  BY <1>2, <1>5, <1>7 DEF IsInjective
<1>9. CASE p > job.read
  <2>1. n \in 1..Len(rows) /\ Len(rows) \in Nat /\ DOMAIN rows = 1..Len(rows) /\ p \in Nat
    <3>1. rows \in Seq(Nat)
      BY <1>3
    <3>2. DOMAIN rows = 1..Len(rows) /\ Len(rows) \in Nat
      BY <3>1
    <3>3. p \in 1..Len(site) /\ Len(site) \in Nat
      BY <1>2
    <3> QED
      BY <3>2, <3>3
  <2>2. PICK m \in Nat : m = p - job.read
    BY <1>2, <1>9, <2>1
  <2>3. m \in 1..n - 1 /\ m \in DOMAIN rows /\ job.read + m = p
    <3>1. job.read + m = p
      BY <1>2, <2>1, <2>2
    <3>2. p < job.read + n
      BY <1>5, <1>6
    <3>3. m \in 1..n - 1
      <4>1. PICK top \in Nat : top = job.read
        BY <1>2
      <4>2. top + m = p /\ p < top + n /\ p > top /\ n \in Nat
        BY <1>9, <2>1, <3>1, <3>2, <4>1
      <4> QED
        BY <2>2, <4>2
    <3>4. m \in 1..Len(rows)
      BY <2>1, <3>3
    <3> QED
      BY <2>1, <3>1, <3>3, <3>4
  <2>4. rows[m] = pair[1]
    BY <1>3, <1>5, <2>3
  <2> QED
    BY <2>3, <2>4
<1> QED
  BY <1>7, <1>8, <1>9

\* What has been read with the next page.
LEMMA PageIsRead ==
  ASSUME SourceInv, WholeInv, job.phase = "fetching", job.source \in Paged,
         NEW rows, rows = Upto(Below, PageSize), NEW drafts, drafts = Collected(rows)
  PROVE  /\ drafts \in Seq(Nat) /\ ToSet(drafts) = ToSet(job.drafts) \cup ToSet(rows)
         /\ Ordered(drafts, Pairs)
         /\ job.source # "wanted" => drafts = job.drafts \o rows
<1>1. job.drafts \in Seq(Nat) /\ Ordered(job.drafts, Pairs)
  BY DEF WholeInv, WholeTypes, FetchInv, PagedInv
<1>2. rows \in Seq(Nat)
  BY TheRows
<1>3. \A pair \in Pairs : \A n \in DOMAIN rows : rows[n] = pair[2] =>
        pair[1] \in ToSet(job.drafts) \/ \E m \in 1..n - 1 : rows[m] = pair[1]
  BY PageOrdered
<1>4. CASE job.source # "wanted"
  <2>1. drafts = job.drafts \o rows
    BY <1>4 DEF Collected
  <2>2. Ordered(job.drafts \o rows, Pairs)
    <3>1. PICK u \in Seq(Nat) : u = job.drafts
      BY <1>1
    <3>2. PICK v \in Seq(Nat) : v = rows
      BY <1>2
    <3>3. Ordered(u, Pairs)
      BY <1>1, <3>1
    <3>4. \A pair \in Pairs : \A n \in DOMAIN v : v[n] = pair[2] =>
            pair[1] \in ToSet(u) \/ \E m \in 1..n - 1 : v[m] = pair[1]
      BY <1>3, <3>1, <3>2
    <3>5. Ordered(u \o v, Pairs)
      BY <3>3, <3>4, OrderedJoined
    <3> QED
      BY <3>1, <3>2, <3>5
  <2>3. /\ job.drafts \o rows \in Seq(Nat)
        /\ ToSet(job.drafts \o rows) = ToSet(job.drafts) \cup ToSet(rows)
    BY <1>1, <1>2, Joined
  <2> QED
    BY <2>1, <2>2, <2>3
<1>5. CASE job.source = "wanted"
  <2>1. PICK P : P = {n \in DOMAIN rows : rows[n] \notin ToSet(job.drafts)}
    OBVIOUS
  <2>2. PICK new : new = Picked(rows, P)
    OBVIOUS
  <2>3. P \in SUBSET DOMAIN rows /\ drafts = job.drafts \o new
    BY <1>5, <2>1, <2>2 DEF Collected
  <2>4. /\ new \in Seq(Nat) /\ ToSet(new) = {rows[p] : p \in P}
        /\ \A i \in DOMAIN new : \E n \in P :
             new[i] = rows[n] /\ \A m \in P : m < n => \E j \in 1..i - 1 : new[j] = rows[m]
    <3>1. PICK s \in Seq(Nat) : s = rows
      BY <1>2
    <3>2. PICK Q \in SUBSET DOMAIN s : Q = P
      BY <2>3, <3>1
    <3>3. /\ Picked(s, Q) \in Seq(Nat) /\ ToSet(Picked(s, Q)) = {s[p] : p \in Q}
          /\ \A i \in DOMAIN Picked(s, Q) : \E n \in Q :
               /\ Picked(s, Q)[i] = s[n]
               /\ \A m \in Q : m < n => \E j \in 1..i - 1 : Picked(s, Q)[j] = s[m]
      BY PickedItems
    <3>4. new = Picked(s, Q)
      BY <2>2, <3>1, <3>2
    <3>5. {s[p] : p \in Q} = {rows[p] : p \in P}
      BY <3>1, <3>2, Zenon
    <3>6. ToSet(new) = {rows[p] : p \in P}
      BY <3>3, <3>4, <3>5, Zenon
    <3>7. \A i \in DOMAIN new : \E n \in Q :
            new[i] = s[n] /\ \A m \in Q : m < n => \E j \in 1..i - 1 : new[j] = s[m]
      BY <3>3, <3>4, Zenon
    <3>8. \A i \in DOMAIN new : \E n \in P :
            new[i] = rows[n] /\ \A m \in P : m < n => \E j \in 1..i - 1 : new[j] = rows[m]
      BY <3>1, <3>2, <3>7, Zenon
    <3>9. new \in Seq(Nat)
      BY <3>3, <3>4
    <3> QED
      BY <3>6, <3>8, <3>9
  <2>5. ASSUME NEW pair \in Pairs, NEW i \in DOMAIN new, new[i] = pair[2]
        PROVE  pair[1] \in ToSet(job.drafts) \/ \E j \in 1..i - 1 : new[j] = pair[1]
    <3>1. PICK n \in P :
            new[i] = rows[n] /\ \A m \in P : m < n => \E j \in 1..i - 1 : new[j] = rows[m]
      BY <2>4
    <3>2. n \in 1..Len(rows) /\ Len(rows) \in Nat /\ DOMAIN rows = 1..Len(rows)
      BY <1>2, <2>3
    <3>3. pair[1] \in ToSet(job.drafts) \/ \E m \in 1..n - 1 : rows[m] = pair[1]
      BY <1>3, <2>3, <2>5, <3>1
    <3>4. ASSUME NEW m \in 1..n - 1, rows[m] = pair[1], pair[1] \notin ToSet(job.drafts)
          PROVE  \E j \in 1..i - 1 : new[j] = pair[1]
      <4>1. m \in DOMAIN rows /\ m < n
        BY <3>2
      <4>2. m \in P
        BY <2>1, <3>4, <4>1
      <4> QED
        BY <3>1, <3>4, <4>1, <4>2
    <3> QED
      BY <3>3, <3>4
  <2>6. Ordered(job.drafts \o new, Pairs)
    <3>1. PICK u \in Seq(Nat) : u = job.drafts
      BY <1>1
    <3>2. PICK v \in Seq(Nat) : v = new
      BY <2>4
    <3>3. Ordered(u, Pairs)
      BY <1>1, <3>1
    <3>4. \A pair \in Pairs : \A n \in DOMAIN v : v[n] = pair[2] =>
            pair[1] \in ToSet(u) \/ \E m \in 1..n - 1 : v[m] = pair[1]
      BY <2>5, <3>1, <3>2
    <3>5. Ordered(u \o v, Pairs)
      BY <3>3, <3>4, OrderedJoined
    <3> QED
      BY <3>1, <3>2, <3>5
  <2>7. /\ job.drafts \o new \in Seq(Nat)
        /\ ToSet(job.drafts \o new) = ToSet(job.drafts) \cup ToSet(new)
    BY <1>1, <2>4, Joined
  <2>8. ToSet(job.drafts) \cup ToSet(new) = ToSet(job.drafts) \cup ToSet(rows)
    <3>1. ToSet(rows) = {rows[n] : n \in DOMAIN rows}
      BY DEF ToSet
    <3> QED
      BY <2>1, <2>4, <3>1
  <2> QED
    BY <1>5, <2>3, <2>6, <2>7, <2>8
<1> QED
  BY <1>4, <1>5

\* The last page brings what is due.
LEMMA LastPageIsEnough ==
  ASSUME SourceInv, WholeInv, NEW k \in Nat \ {0}, k \in DOMAIN job.pending,
         job.phase = "fetching", job.source \in Paged,
         NEW rows, rows = Upto(Below, PageSize), NEW drafts, drafts = Collected(rows),
         IsLast(k, rows, drafts),
         NEW p \in DOMAIN site, InReach(job, p)
  PROVE  p <= job.read + PageSize
<1>1. /\ site \in Seq(Nat) /\ job.read \in Nat /\ PageSize \in Nat /\ MaxPages \in Nat
      /\ Limit \in Nat /\ job.drafts \in Seq(Nat) /\ p \in Nat /\ p <= Len(site)
  BY FetchBounds DEF SourceInv, WholeInv, WholeTypes
<1>2. PagedInv
  BY DEF WholeInv, FetchInv
<1>3. job.source # "producthunt" => job.read + PageSize = k * PageSize
  <2>1. k - 1 \in Nat /\ k - 1 <= k - 1 /\ 1 + (k - 1) = k
    OBVIOUS
  <2>2. PageSize * (1 + (k - 1)) = PageSize + PageSize * (k - 1)
        /\ PageSize * (k - 1) = (k - 1) * PageSize /\ PageSize * (k - 1) \in Nat
    BY <1>1, <2>1, Times
  <2>3. PageSize * k = k * PageSize /\ PageSize * k \in Nat
    BY <1>1, Times
  <2>4. job.source # "producthunt" => job.read = (k - 1) * PageSize
    BY <1>2 DEF PagedInv
  <2> QED
    BY <1>1, <2>1, <2>2, <2>3, <2>4
<1>4. CASE Len(Below) <= PageSize
  <2>1. Len(site) <= job.read + PageSize
    BY <1>4, TheRows
  <2> QED
    BY <1>1, <2>1
<1>5. CASE EnoughPages(k, drafts)
  <2>1. CASE job.source = "wanted"
    <3>1. k = MaxPages /\ p <= MaxPages * PageSize
      BY <1>5, <2>1 DEF EnoughPages, InReach
    <3> QED
      BY <1>3, <2>1, <3>1
  <2>2. CASE job.source = "hellogithub"
    <3>1. k * PageSize >= Limit /\ p <= Limit
      BY <1>5, <2>2 DEF EnoughPages, InReach
    <3>2. k * PageSize = job.read + PageSize
      BY <1>3, <2>2
    <3> QED
      BY <1>1, <3>1, <3>2
  <2>3. CASE job.source = "producthunt"
    <3>1. /\ k = MaxPages \/ Len(drafts) >= Limit
          /\ p - job.read <= Limit - Len(job.drafts) /\ p - job.read <= PagesLeft(k) * PageSize
      BY <1>5, <2>3 DEF EnoughPages, InReach
    <3>2. CASE k = MaxPages
      <4>1. PagesLeft(k) = 1 /\ 1 * PageSize = PageSize
        BY <1>1, <3>2 DEF PagesLeft
      <4> QED
        BY <1>1, <3>1, <4>1
    <3>3. CASE Len(drafts) >= Limit
      <4>1. rows \in Seq(Nat) /\ Len(rows) <= PageSize
        BY TheRows
      <4>2. drafts = job.drafts \o rows
        BY <2>3, PageIsRead
      <4>3. Len(drafts) = Len(job.drafts) + Len(rows)
        BY <1>1, <4>1, <4>2, Joined
      <4>4. Len(job.drafts) \in Nat /\ Len(rows) \in Nat
        BY <1>1, <4>1
      <4>5. PICK r \in Nat, l \in Nat, m \in Nat :
              r = job.read /\ l = Len(job.drafts) /\ m = Len(rows)
        BY <1>1, <4>4
      <4>6. p - r <= Limit - l /\ l + m >= Limit /\ m <= PageSize
        BY <3>1, <3>3, <4>1, <4>3, <4>5
      <4>7. p <= r + PageSize
        BY <1>1, <4>6
      <4> QED
        BY <4>5, <4>7
    <3> QED
      BY <3>1, <3>2, <3>3
  <2> QED
    BY <2>1, <2>2, <2>3 DEF Paged
<1> QED
  BY <1>4, <1>5 DEF IsLast

\* What is due is in the drafts, Product Hunt's within its limit.
LEMMA LastPageWhole ==
  ASSUME SourceInv, WholeInv, NEW k \in Nat \ {0}, k \in DOMAIN job.pending,
         job.phase = "fetching", job.source \in Paged, UNCHANGED surroundings,
         NEW rows, rows = Upto(Below, PageSize), NEW drafts, drafts = Collected(rows),
         IsLast(k, rows, drafts), job' = Ended("returned", Returned(drafts))
  PROVE  WholeInv'
<1>1. /\ site \in Seq(Nat) /\ job.read \in Nat /\ PageSize \in Nat
      /\ Limit \in Nat /\ job.drafts \in Seq(Nat)
  BY FetchBounds DEF SourceInv, WholeInv, WholeTypes
<1>2. PlaceInv /\ PagedInv
  BY DEF WholeInv, FetchInv
<1>3. /\ rows \in Seq(Nat)
      /\ \A n \in DOMAIN rows : rows[n] = site[job.read + n]
      /\ \A p \in DOMAIN site : job.read < p /\ p <= job.read + PageSize => p - job.read \in DOMAIN rows
  BY TheRows
<1>4. /\ drafts \in Seq(Nat) /\ ToSet(drafts) = ToSet(job.drafts) \cup ToSet(rows)
      /\ Ordered(drafts, Pairs)
      /\ job.source # "wanted" => drafts = job.drafts \o rows
  BY PageIsRead
<1>5. ASSUME NEW i \in steady, i \notin ToSet(job.drafts)
      PROVE  \E n \in DOMAIN rows :
               rows[n] = i /\ (job.source = "producthunt" => n <= Limit - Len(job.drafts))
  <2>1. PICK p \in DOMAIN site : site[p] = i /\ InReach(job, p) /\ p > job.read
    BY <1>2, <1>5 DEF PlaceInv
  <2>2. p <= job.read + PageSize
    BY <2>1, LastPageIsEnough
  <2>3. p \in Nat
    BY <1>1
  <2>4. p - job.read \in DOMAIN rows
    BY <1>1, <1>3, <2>1, <2>2, <2>3
  <2>5. PICK n \in DOMAIN rows : n = p - job.read
    BY <2>4
  <2>6. rows[n] = i
    BY <1>1, <1>3, <2>1, <2>3, <2>5
  <2>7. job.source = "producthunt" => n <= Limit - Len(job.drafts)
    BY <2>1, <2>5 DEF InReach
  <2> QED
    BY <2>6, <2>7
<1>6. steady \subseteq ToSet(drafts)
  <2>1. ASSUME NEW i \in steady PROVE i \in ToSet(job.drafts) \/ i \in ToSet(rows)
    BY <1>5 DEF ToSet
  <2> QED
    BY <1>4, <2>1
<1>7. PICK L : L = IF job.source = "producthunt" THEN Upto(drafts, Limit) ELSE drafts
  OBVIOUS
<1>8. L \in Seq(Nat) /\ Ordered(L, Pairs)
  BY <1>1, <1>4, <1>7, UptoFacts, OrderedUpto
<1>9. ASSUME job.source = "producthunt", NEW i \in steady PROVE i \in ToSet(L)
  <2>1. PICK l \in Nat : l = Len(job.drafts)
    BY <1>1
  <2>2. /\ Len(drafts) = l + Len(rows) /\ Len(rows) \in Nat /\ DOMAIN rows = 1..Len(rows)
        /\ \A n \in DOMAIN drafts : drafts[n] = IF n <= l THEN job.drafts[n] ELSE rows[n - l]
        /\ DOMAIN job.drafts = 1..l /\ l < Limit
    <3>1. drafts = job.drafts \o rows
      BY <1>4, <1>9
    <3>2. /\ Len(job.drafts \o rows) = Len(job.drafts) + Len(rows)
          /\ \A n \in DOMAIN (job.drafts \o rows) :
               (job.drafts \o rows)[n] = IF n <= Len(job.drafts) THEN job.drafts[n]
                                         ELSE rows[n - Len(job.drafts)]
      BY <1>1, <1>3, Joined
    <3>3. Len(job.drafts) < Limit
      BY <1>2, <1>9 DEF PagedInv
    <3>4. Len(rows) \in Nat /\ DOMAIN rows = 1..Len(rows) /\ DOMAIN job.drafts = 1..Len(job.drafts)
      BY <1>1, <1>3
    <3> QED
      BY <2>1, <3>1, <3>2, <3>3, <3>4
  <2>3. DOMAIN drafts = 1..l + Len(rows)
    BY <1>4, <2>2
  <2>4. \E n \in DOMAIN drafts : n <= Limit /\ drafts[n] = i
    <3>1. CASE i \in ToSet(job.drafts)
      <4>1. PICK n \in DOMAIN job.drafts : job.drafts[n] = i
        BY <3>1 DEF ToSet
      <4>2. n \in DOMAIN drafts /\ n <= l /\ n <= Limit
        BY <1>1, <2>1, <2>2, <2>3
      <4> QED
        BY <2>2, <4>1, <4>2
    <3>2. CASE i \notin ToSet(job.drafts)
      <4>1. PICK m \in DOMAIN rows : rows[m] = i /\ m <= Limit - l
        BY <1>5, <1>9, <2>1, <3>2
      <4>2. PICK n \in Nat : n = l + m
        BY <2>1, <2>2
      <4>3. n \in DOMAIN drafts /\ ~(n <= l) /\ n - l = m /\ n <= Limit
        BY <1>1, <2>1, <2>2, <2>3, <4>1, <4>2
      <4> QED
        BY <2>2, <4>1, <4>3
    <3> QED
      BY <3>1, <3>2
  <2>5. PICK n \in DOMAIN drafts : n <= Limit /\ drafts[n] = i
    BY <2>4
  <2>6. /\ L \in Seq(Nat) /\ Len(L) = IF Limit < Len(drafts) THEN Limit ELSE Len(drafts)
        /\ \A m \in DOMAIN L : m \in DOMAIN drafts /\ m <= Limit /\ L[m] = drafts[m]
    <3>1. PICK t \in Seq(Nat) : t = drafts
      BY <1>4
    <3>2. PICK n0 \in Nat : n0 = Limit
      BY <1>1
    <3>3. /\ Upto(t, n0) \in Seq(Nat)
          /\ Len(Upto(t, n0)) = IF n0 < Len(t) THEN n0 ELSE Len(t)
          /\ \A m \in DOMAIN Upto(t, n0) : m \in DOMAIN t /\ m <= n0 /\ Upto(t, n0)[m] = t[m]
      BY UptoFacts
    <3>4. L = Upto(t, n0)
      BY <1>7, <1>9, <3>1, <3>2
    <3> QED
      BY <3>1, <3>2, <3>3, <3>4
  <2>7. n \in DOMAIN L
    <3>1. DOMAIN L = 1..Len(L) /\ DOMAIN drafts = 1..Len(drafts) /\ Len(drafts) \in Nat
      BY <1>4, <2>6
    <3> QED
      BY <1>1, <2>5, <2>6, <3>1
  <2> QED
    BY <2>5, <2>6, <2>7 DEF ToSet
<1>10. steady \subseteq ToSet(L)
  BY <1>6, <1>7, <1>9
<1>11. /\ KeptItems(L) \in Seq(Nat) /\ Due \subseteq ToSet(KeptItems(L))
       /\ Ordered(KeptItems(L), over \cap (Due \X Due))
  BY <1>8, <1>10, DueIsKept
<1>12. job' = Ended("returned", KeptItems(L))
  BY <1>7 DEF Returned
<1> QED
  BY <1>11, <1>12, WholeReturned

\* Another page: what has not been read is below it and still within reach.
LEMMA NextPageWhole ==
  ASSUME SourceInv, WholeInv, NEW k \in Nat \ {0}, k \in DOMAIN job.pending, k <= LastPage,
         job.phase = "fetching", job.source \in Paged, UNCHANGED surroundings,
         NEW rows, rows = Upto(Below, PageSize), NEW drafts, drafts = Collected(rows),
         ~IsLast(k, rows, drafts),
         job' = [job EXCEPT !.drafts = drafts, !.pending = [n \in {k + 1} |-> 1],
                            !.read = NextRow(k, rows)]
  PROVE  WholeInv'
<1>1. /\ site \in Seq(Nat) /\ job.read \in Nat /\ PageSize \in Nat /\ MaxPages \in Nat
      /\ Limit \in Nat /\ job.drafts \in Seq(Nat)
  BY FetchBounds DEF SourceInv, WholeInv, WholeTypes
<1>2. PlaceInv /\ PagedInv
  BY DEF WholeInv, FetchInv
<1>3. /\ rows \in Seq(Nat) /\ Len(rows) \in Nat /\ Len(rows) <= PageSize
      /\ \A n \in DOMAIN rows : rows[n] = site[job.read + n]
      /\ \A p \in DOMAIN site : job.read < p /\ p <= job.read + PageSize => p - job.read \in DOMAIN rows
      /\ Len(rows) < PageSize => Len(site) <= job.read + Len(rows)
  BY TheRows
<1>4. /\ drafts \in Seq(Nat) /\ ToSet(drafts) = ToSet(job.drafts) \cup ToSet(rows)
      /\ Ordered(drafts, Pairs)
      /\ job.source # "wanted" => drafts = job.drafts \o rows
  BY PageIsRead
<1>5. PICK next : next = NextRow(k, rows)
  OBVIOUS
<1>6. /\ job'.source = job.source /\ job'.phase = job.phase /\ job'.ids = job.ids
      /\ job'.drafts = drafts /\ job'.pending = [n \in {k + 1} |-> 1] /\ job'.read = next
  BY <1>5 DEF SourceInv, NoJob
<1>7. site' = site /\ steady' = steady /\ over' = over
  BY DEF surroundings
<1>8. job.source # "producthunt" => next = job.read + PageSize /\ next = k * PageSize
  <2>1. k - 1 \in Nat /\ k - 1 <= k - 1 /\ 1 + (k - 1) = k
    OBVIOUS
  <2>2. PageSize * (1 + (k - 1)) = PageSize + PageSize * (k - 1)
        /\ PageSize * (k - 1) = (k - 1) * PageSize /\ PageSize * (k - 1) \in Nat
    BY <1>1, <2>1, Times
  <2>3. PageSize * k = k * PageSize /\ PageSize * k \in Nat
    BY <1>1, Times
  <2>4. job.source # "producthunt" => job.read = (k - 1) * PageSize
    BY <1>2 DEF PagedInv
  <2>5. job.source # "producthunt" => next = k * PageSize
    BY <1>5 DEF NextRow
  <2> QED
    BY <1>1, <2>1, <2>2, <2>3, <2>4, <2>5
<1>9. job.source = "producthunt" => next = job.read + Len(rows)
  BY <1>5 DEF NextRow
<1>10. next \in Nat
  BY <1>1, <1>3, <1>8, <1>9
<1>11. WholeTypes'
  BY <1>4, <1>6, <1>7, <1>10 DEF WholeInv, WholeTypes
<1>12. ASSUME job.source = "producthunt"
       PROVE  Len(drafts) = Len(job.drafts) + Len(rows) /\ Len(drafts) < Limit /\ k < MaxPages
  <2>1. Len(drafts) = Len(job.drafts) + Len(rows)
    BY <1>1, <1>3, <1>4, <1>12, Joined
  <2>2. k # MaxPages /\ ~(Len(drafts) >= Limit)
    BY <1>12 DEF IsLast, EnoughPages
  <2>3. k <= MaxPages
    BY <1>12 DEF LastPage
  <2>4. Len(drafts) \in Nat
    BY <1>4
  <2> QED
    BY <1>1, <2>1, <2>2, <2>3, <2>4
<1>13. ASSUME NEW p \in DOMAIN site, InReach(job, p) PROVE InReach(job', p)
  <2>1. p \in Nat /\ p <= Len(site) /\ Len(site) \in Nat
    BY <1>1
  <2>2. job.source = "wanted" => p <= MaxPages * PageSize
    BY <1>13 DEF InReach
  <2>3. job.source = "hellogithub" => p <= Limit
    BY <1>13 DEF InReach
  <2>4. ASSUME job.source = "producthunt"
        PROVE  p - next <= Limit - Len(drafts) /\ p - next <= PagesLeft(k + 1) * PageSize
    <3>1. /\ p - job.read <= Limit - Len(job.drafts)
          /\ p - job.read <= PagesLeft(k) * PageSize
      BY <1>13, <2>4 DEF InReach
    <3>2. p - next <= Limit - Len(drafts)
      <4>1. PICK l \in Nat : l = Len(job.drafts)
        <5>1. Len(job.drafts) \in Nat
          BY <1>1
        <5> QED
          BY <5>1
      <4>2. PICK m \in Nat : m = Len(rows)
        BY <1>3
      <4>3. next = job.read + m /\ Len(drafts) = l + m
        BY <1>9, <1>12, <2>4, <4>1, <4>2
      <4>4. p - job.read <= Limit - l
        BY <3>1, <4>1
      <4>5. p - (job.read + m) <= Limit - (l + m)
        <5>1. PICK r \in Nat : r = job.read
          BY <1>1
        <5>2. p - r <= Limit - l
          BY <4>4, <5>1
        <5>3. p - (r + m) <= Limit - (l + m)
          BY <1>1, <2>1, <5>2
        <5> QED
          BY <5>1, <5>3
      <4> QED
        BY <4>3, <4>5
    <3>3. PICK left \in Nat : left = MaxPages - k
      BY <1>1, <1>12, <2>4
    <3>4. PagesLeft(k) = 1 + left /\ PagesLeft(k + 1) = left
      BY <1>1, <3>3 DEF PagesLeft
    <3>5. (1 + left) * PageSize = left * PageSize + PageSize /\ left * PageSize \in Nat
      <4>1. /\ PageSize * (1 + left) = PageSize + PageSize * left
            /\ PageSize * left = left * PageSize /\ PageSize * left \in Nat
        BY <1>1, Times
      <4>2. PageSize * (1 + left) = (1 + left) * PageSize
        BY <1>1, Times
      <4> QED
        BY <1>1, <4>1, <4>2
    <3>6. p - job.read <= left * PageSize + PageSize
      BY <3>1, <3>4, <3>5
    <3>7. p - next <= left * PageSize
      <4>1. CASE Len(rows) = PageSize
        <5>1. next = job.read + PageSize
          BY <1>9, <2>4, <4>1
        <5>2. PICK r \in Nat, x \in Nat : r = job.read /\ x = left * PageSize
          BY <1>1, <3>5
        <5>3. p - r <= x + PageSize
          BY <3>6, <5>2
        <5>4. p - (r + PageSize) <= x
          BY <1>1, <2>1, <5>3
        <5> QED
          BY <5>1, <5>2, <5>4
      <4>2. CASE Len(rows) < PageSize
        <5>1. p <= next
          BY <1>1, <1>3, <1>9, <2>1, <2>4, <4>2
        <5> QED
          BY <1>10, <2>1, <3>5, <5>1
      <4> QED
        BY <1>1, <1>3, <4>1, <4>2
    <3> QED
      BY <3>2, <3>4, <3>7
  <2>5. job.source # "hackernews"
    BY DEF Paged
  <2>6. job.source = "producthunt" => \A n \in DOMAIN job'.pending : n = k + 1
    BY <1>6
  <2> QED
    BY <1>6, <2>2, <2>3, <2>4, <2>5, <2>6 DEF InReach
<1>14. PlaceInv'
  <2>1. ASSUME NEW i \in steady
        PROVE  \E p \in DOMAIN site :
                 site[p] = i /\ InReach(job', p) /\ (i \in ToSet(drafts) \/ p > next)
    <3>1. PICK p \in DOMAIN site :
            site[p] = i /\ InReach(job, p) /\ (i \in ToSet(job.drafts) \/ p > job.read)
      BY <1>2 DEF PlaceInv
    <3>2. p \in Nat /\ p <= Len(site) /\ Len(site) \in Nat
      BY <1>1
    <3>3. CASE i \in ToSet(job.drafts)
      BY <1>4, <1>13, <3>1, <3>3
    <3>4. CASE p > job.read /\ p <= job.read + PageSize
      <4>1. p - job.read \in DOMAIN rows
        BY <1>3, <3>4
      <4>2. PICK n \in DOMAIN rows : n = p - job.read
        BY <4>1
      <4>3. job.read + n = p
        BY <1>1, <3>2, <4>2
      <4>4. rows[n] = i
        BY <1>3, <3>1, <4>3
      <4>5. i \in ToSet(drafts)
        BY <1>4, <4>4 DEF ToSet
      <4> QED
        BY <1>13, <3>1, <4>5
    <3>5. CASE p > job.read + PageSize
      <4>1. p > next
        <5>1. job.source = "producthunt" => next <= job.read + PageSize
          BY <1>1, <1>3, <1>9
        <5> QED
          BY <1>1, <1>8, <1>10, <3>2, <3>5, <5>1
      <4> QED
        BY <1>13, <3>1, <4>1
    <3> QED
      BY <1>1, <3>1, <3>2, <3>3, <3>4, <3>5
  <2>2. over' \subseteq Above(site')
    BY <1>2, <1>7 DEF PlaceInv, Above, ToSet
  <2> QED
    BY <1>6, <1>7, <2>1, <2>2 DEF PlaceInv
<1>15. PagedInv'
  <2>1. Pairs' = Pairs
    BY <1>7 DEF Pairs
  <2>2. Ordered(job'.drafts, Pairs')
    BY <1>4, <1>6, <2>1
  <2>3. \A n \in DOMAIN job'.pending : n = k + 1 /\ n - 1 = k
    BY <1>6
  <2> QED
    BY <1>6, <1>8, <1>12, <2>2, <2>3 DEF PagedInv
<1> QED
  BY <1>6, <1>11, <1>14, <1>15, WholeGoesOn DEF FetchInv, Paged

LEMMA AnswerPageWhole == ASSUME SourceInv, WholeInv, NEW k, AnswerPage(k) PROVE WholeInv'
<1>1. /\ job.phase = "fetching" /\ k \in DOMAIN job.pending /\ k > 0 /\ job.source \in Paged
      /\ UNCHANGED surroundings
  BY DEF AnswerPage, Fetching
<1>2. job.ids = <<>>
  BY <1>1 DEF SourceInv, AllAtOnce, Paged
<1>3. k \in Nat \ {0} /\ k <= LastPage
  <2>1. k \in Nat /\ k <= LastPage
    BY <1>1, <1>2, TheRequest DEF Fetching
  <2> QED
    BY <1>1, <2>1
<1>4. PICK rows : rows = Upto(Below, PageSize)
  OBVIOUS
<1>5. PICK drafts : drafts = Collected(rows)
  OBVIOUS
<1>6. CASE IsLast(k, rows, drafts)
  <2>1. job' = Ended("returned", Returned(drafts))
    BY <1>4, <1>5, <1>6 DEF AnswerPage
  <2> QED
    BY <1>1, <1>3, <1>4, <1>5, <1>6, <2>1, LastPageWhole
<1>7. CASE ~IsLast(k, rows, drafts)
  <2>1. job' = [job EXCEPT !.drafts = drafts, !.pending = [n \in {k + 1} |-> 1],
                           !.read = NextRow(k, rows)]
    BY <1>4, <1>5, <1>7 DEF AnswerPage
  <2> QED
    BY <1>1, <1>3, <1>4, <1>5, <1>7, <2>1, NextPageWhole
<1> QED
  BY <1>6, <1>7

LEMMA WholeNext == SourceInv /\ WholeInv /\ SourceNext => WholeInv'
BY BeginWhole, AnswerSingleWhole, AnswerTokenWhole, AnswerIdsWhole, AnswerPageWhole,
   AnswerItemWhole, RepeatWhole, RefuseWhole, RelistWhole DEF SourceNext

(***************************************************************************)
(* The calendar: every day has one year, month and date.                   *)
(***************************************************************************)
LEMMA YearStartType ==
  ASSUME NEW y \in Int
  PROVE  YearStart(y) \in Int
BY DEF YearStart

LEMMA YearLength ==
  ASSUME NEW y \in Int
  PROVE  YearStart(y + 1) = YearStart(y) + 365 + IF Leap(y) THEN 1 ELSE 0
BY DEF YearStart, Leap

LEMMA YearStartGrows ==
  ASSUME NEW y \in Int, NEW z \in Int, y < z
  PROVE  YearStart(y + 1) <= YearStart(z)
BY DEF YearStart

\* Four years are 1461 days; the fourth is the longer one.
LEMMA YearExists ==
  ASSUME NEW d \in Int, d >= -365
  PROVE  \E y \in (1970 + d \div 366)..(1970 + d \div 365) : YearStart(y) <= d /\ d < YearStart(y + 1)
<1>1. PICK q \in Int, r \in 0..1460 : d + 365 = 1461 * q + r
  <2> DEFINE q == (d + 365) \div 1461
             r == (d + 365) % 1461
  <2>1. q \in Int /\ r \in 0..1460 /\ d + 365 = 1461 * q + r
    OBVIOUS
  <2> QED
    BY <2>1
<1>2. PICK k \in 0..3 : 365 * k <= r /\ r < 365 * k + 365 + (IF k = 3 THEN 1 ELSE 0)
  <2>1. CASE r < 365
    BY <2>1
  <2>2. CASE r >= 365 /\ r < 730
    BY <2>2
  <2>3. CASE r >= 730 /\ r < 1095
    BY <2>3
  <2>4. CASE r >= 1095
    BY <2>4
  <2> QED
    BY <2>1, <2>2, <2>3, <2>4
<1>3. YearStart(1969 + 4 * q + k) = 1461 * q + 365 * k - 365
  BY DEF YearStart
<1>4. YearStart(1969 + 4 * q + k + 1) = 1461 * q + 365 * k + (IF k = 3 THEN 1 ELSE 0)
  BY DEF YearStart
<1>5. 1969 + 4 * q + k \in (1970 + d \div 366)..(1970 + d \div 365)
  <2> DEFINE n == 4 * q + k - 1
  <2>1. n \in Int /\ n >= -1 /\ q >= 0
    BY <1>1
  <2>2. 365 * n <= d /\ d < 366 * (n + 1)
    BY <1>1, <1>2, <2>1
  <2>3. d \div 366 <= n /\ n <= d \div 365
    BY <2>1, <2>2
  <2> QED
    BY <2>1, <2>3
<1> QED
  BY <1>1, <1>2, <1>3, <1>4, <1>5

LEMMA YearFacts ==
  ASSUME NEW d \in Int, d >= -365
  PROVE  Year(d) \in Int /\ YearStart(Year(d)) <= d /\ d < YearStart(Year(d) + 1)
<1> DEFINE S == (1970 + d \div 366)..(1970 + d \div 365)
           P(y) == YearStart(y) <= d /\ d < YearStart(y + 1)
<1>1. \E y \in S : P(y)
  BY YearExists
<1>2. Year(d) = CHOOSE y \in S : P(y)
  BY DEF Year
<1>3. Year(d) \in S /\ P(Year(d))
  <2> HIDE DEF S, P
  <2> QED
    BY <1>1, <1>2
<1> QED
  BY <1>3

LEMMA YearIs ==
  ASSUME NEW d \in Int, d >= -365, NEW y \in Int, YearStart(y) <= d, d < YearStart(y + 1)
  PROVE  Year(d) = y
<1>1. Year(d) \in Int /\ YearStart(Year(d)) <= d /\ d < YearStart(Year(d) + 1)
  BY YearFacts
<1>2. ~(Year(d) < y)
  BY <1>1, YearStartGrows, YearStartType
<1>3. ~(y < Year(d))
  BY <1>1, YearStartGrows, YearStartType
<1> QED
  BY <1>1, <1>2, <1>3

\* The months of a year follow each other; the thirteenth is the next year's first.
LEMMA MonthsFollow ==
  ASSUME NEW y \in Int
  PROVE  /\ \A m \in 1..12 : MonthStart(y, m) \in Int
         /\ MonthStart(y, 1) = YearStart(y)
         /\ \A m \in 1..11 : /\ DateUTC(y, m + 1, 1) = MonthStart(y, m + 1)
                             /\ MonthStart(y, m) + 28 <= MonthStart(y, m + 1)
                             /\ MonthStart(y, m + 1) <= MonthStart(y, m) + 31
         /\ DateUTC(y, 13, 1) = YearStart(y + 1)
         /\ MonthStart(y, 12) + 31 = YearStart(y + 1)
<1>1. YearStart(y) \in Int /\ YearStart(y + 1) = YearStart(y) + 365 + IF Leap(y) THEN 1 ELSE 0
  BY YearStartType, YearLength
<1>2. /\ DaysBefore[1] = 0 /\ DaysBefore[2] = 31 /\ DaysBefore[3] = 59 /\ DaysBefore[4] = 90
      /\ DaysBefore[5] = 120 /\ DaysBefore[6] = 151 /\ DaysBefore[7] = 181
      /\ DaysBefore[8] = 212 /\ DaysBefore[9] = 243 /\ DaysBefore[10] = 273
      /\ DaysBefore[11] = 304 /\ DaysBefore[12] = 334
  BY DEF DaysBefore
<1>3. \A m \in 1..12 : DaysBefore[m] \in Int
  BY <1>2
<1>4. \A m \in 1..12 : MonthStart(y, m) \in Int
  BY <1>1, <1>3 DEF MonthStart
<1>5. MonthStart(y, 1) = YearStart(y)
  BY <1>1, <1>2 DEF MonthStart
<1>6. \A m \in 1..11 : /\ MonthStart(y, m) + 28 <= MonthStart(y, m + 1)
                       /\ MonthStart(y, m + 1) <= MonthStart(y, m) + 31
  <2>1. \A m \in 1..11 : m + 1 \in 1..12 /\ DaysBefore[m] + 28 <= DaysBefore[m + 1]
                         /\ DaysBefore[m + 1] <= DaysBefore[m] + 31
                         /\ (m = 2 => DaysBefore[m + 1] <= DaysBefore[m] + 28)
    BY <1>2
  <2> QED
    BY <1>1, <1>3, <2>1 DEF MonthStart
<1>7. \A m \in 1..11 : DateUTC(y, m + 1, 1) = MonthStart(y, m + 1)
  <2> SUFFICES ASSUME NEW m \in 1..11 PROVE DateUTC(y, m + 1, 1) = MonthStart(y, m + 1)
    OBVIOUS
  <2>1. y + (m + 1 - 1) \div 12 = y /\ ((m + 1 - 1) % 12) + 1 = m + 1
    OBVIOUS
  <2>2. MonthStart(y, m + 1) \in Int
    BY <1>4
  <2> QED
    BY <2>1, <2>2 DEF DateUTC
<1>8. DateUTC(y, 13, 1) = YearStart(y + 1)
  <2>1. y + (13 - 1) \div 12 = y + 1 /\ ((13 - 1) % 12) + 1 = 1
    OBVIOUS
  <2>2. MonthStart(y + 1, 1) = YearStart(y + 1)
    BY <1>2, YearStartType DEF MonthStart
  <2> QED
    BY <2>1, <2>2, YearStartType DEF DateUTC
<1>9. MonthStart(y, 12) + 31 = YearStart(y + 1)
  BY <1>1, <1>2 DEF MonthStart
<1> QED
  BY <1>4, <1>5, <1>6, <1>7, <1>8, <1>9

LEMMA MonthStartGrows ==
  ASSUME NEW y \in Int, NEW m \in 1..12, NEW n \in 1..12, m < n
  PROVE  m + 1 \in 1..12 /\ MonthStart(y, m + 1) <= MonthStart(y, n)
<1>1. /\ \A i \in 1..12 : MonthStart(y, i) \in Int
      /\ \A i \in 1..11 : MonthStart(y, i) + 28 <= MonthStart(y, i + 1)
  BY MonthsFollow
<1>2. /\ MonthStart(y, 1) <= MonthStart(y, 2) /\ MonthStart(y, 2) <= MonthStart(y, 3)
      /\ MonthStart(y, 3) <= MonthStart(y, 4) /\ MonthStart(y, 4) <= MonthStart(y, 5)
      /\ MonthStart(y, 5) <= MonthStart(y, 6) /\ MonthStart(y, 6) <= MonthStart(y, 7)
      /\ MonthStart(y, 7) <= MonthStart(y, 8) /\ MonthStart(y, 8) <= MonthStart(y, 9)
      /\ MonthStart(y, 9) <= MonthStart(y, 10) /\ MonthStart(y, 10) <= MonthStart(y, 11)
      /\ MonthStart(y, 11) <= MonthStart(y, 12)
  <2>1. \A i \in 1..11 : MonthStart(y, i) <= MonthStart(y, i + 1)
    <3> SUFFICES ASSUME NEW i \in 1..11 PROVE MonthStart(y, i) <= MonthStart(y, i + 1)
      OBVIOUS
    <3>1. i \in 1..12 /\ i + 1 \in 1..12
      OBVIOUS
    <3> QED
      BY <1>1, <3>1
  <2>2. /\ MonthStart(y, 1) <= MonthStart(y, 1 + 1) /\ MonthStart(y, 2) <= MonthStart(y, 2 + 1)
        /\ MonthStart(y, 3) <= MonthStart(y, 3 + 1) /\ MonthStart(y, 4) <= MonthStart(y, 4 + 1)
        /\ MonthStart(y, 5) <= MonthStart(y, 5 + 1) /\ MonthStart(y, 6) <= MonthStart(y, 6 + 1)
        /\ MonthStart(y, 7) <= MonthStart(y, 7 + 1) /\ MonthStart(y, 8) <= MonthStart(y, 8 + 1)
        /\ MonthStart(y, 9) <= MonthStart(y, 9 + 1) /\ MonthStart(y, 10) <= MonthStart(y, 10 + 1)
        /\ MonthStart(y, 11) <= MonthStart(y, 11 + 1)
    BY <2>1
  <2> QED
    BY <2>2
<1>3. /\ MonthStart(y, 1) \in Int /\ MonthStart(y, 2) \in Int /\ MonthStart(y, 3) \in Int
      /\ MonthStart(y, 4) \in Int /\ MonthStart(y, 5) \in Int /\ MonthStart(y, 6) \in Int
      /\ MonthStart(y, 7) \in Int /\ MonthStart(y, 8) \in Int /\ MonthStart(y, 9) \in Int
      /\ MonthStart(y, 10) \in Int /\ MonthStart(y, 11) \in Int /\ MonthStart(y, 12) \in Int
  BY <1>1
<1>4. m + 1 \in 1..12 /\ m + 1 <= n
  OBVIOUS
<1> QED
  BY <1>2, <1>3, <1>4

LEMMA MonthExists ==
  ASSUME NEW y \in Int, NEW d \in Int, YearStart(y) <= d, d < YearStart(y + 1)
  PROVE  \E m \in 1..12 : MonthStart(y, m) <= d /\ d < DateUTC(y, m + 1, 1)
<1>1. /\ \A m \in 1..12 : MonthStart(y, m) \in Int
      /\ MonthStart(y, 1) = YearStart(y)
      /\ \A m \in 1..11 : DateUTC(y, m + 1, 1) = MonthStart(y, m + 1)
      /\ DateUTC(y, 13, 1) = YearStart(y + 1)
  BY MonthsFollow
<1>2. SUFFICES ASSUME \A m \in 1..12 : ~(MonthStart(y, m) <= d /\ d < DateUTC(y, m + 1, 1))
               PROVE  FALSE
  OBVIOUS
<1>3. ASSUME NEW m \in 1..11, MonthStart(y, m) <= d PROVE MonthStart(y, m + 1) <= d
  <2>1. m \in 1..12 /\ m + 1 \in 1..12
    OBVIOUS
  <2>2. DateUTC(y, m + 1, 1) = MonthStart(y, m + 1) /\ MonthStart(y, m + 1) \in Int
    BY <1>1, <2>1
  <2> QED
    BY <1>2, <1>3, <2>1, <2>2
<1>4. \A m \in 1..11 : MonthStart(y, m) <= d => MonthStart(y, m + 1) <= d
  BY <1>3
<1>5. MonthStart(y, 12) <= d
  <2>1. MonthStart(y, 1) <= d
    BY <1>1
  <2>2. MonthStart(y, 1 + 1) <= d
    BY <1>4, <2>1
  <2>3. MonthStart(y, 2 + 1) <= d
    BY <1>4, <2>2
  <2>4. MonthStart(y, 3 + 1) <= d
    BY <1>4, <2>3
  <2>5. MonthStart(y, 4 + 1) <= d
    BY <1>4, <2>4
  <2>6. MonthStart(y, 5 + 1) <= d
    BY <1>4, <2>5
  <2>7. MonthStart(y, 6 + 1) <= d
    BY <1>4, <2>6
  <2>8. MonthStart(y, 7 + 1) <= d
    BY <1>4, <2>7
  <2>9. MonthStart(y, 8 + 1) <= d
    BY <1>4, <2>8
  <2>10. MonthStart(y, 9 + 1) <= d
    BY <1>4, <2>9
  <2>11. MonthStart(y, 10 + 1) <= d
    BY <1>4, <2>10
  <2>12. MonthStart(y, 11 + 1) <= d
    BY <1>4, <2>11
  <2> QED
    BY <2>12
<1> QED
  BY <1>1, <1>2, <1>5

LEMMA MonthFacts ==
  ASSUME NEW d \in Int, d >= -365
  PROVE  /\ Month(d) \in 1..12 /\ MonthStart(Year(d), Month(d)) \in Int
         /\ MonthStart(Year(d), Month(d)) <= d /\ d < DateUTC(Year(d), Month(d) + 1, 1)
<1>1. Year(d) \in Int /\ YearStart(Year(d)) <= d /\ d < YearStart(Year(d) + 1)
  BY YearFacts
<1> DEFINE P(m) == MonthStart(Year(d), m) <= d /\ d < DateUTC(Year(d), m + 1, 1)
<1>2. \E m \in 1..12 : P(m)
  BY <1>1, MonthExists
<1>3. Month(d) = CHOOSE m \in 1..12 : P(m)
  BY DEF Month
<1>4. Month(d) \in 1..12 /\ P(Month(d))
  <2> HIDE DEF P
  <2> QED
    BY <1>2, <1>3
<1>5. MonthStart(Year(d), Month(d)) \in Int
  BY <1>1, <1>4, MonthsFollow
<1> QED
  BY <1>4, <1>5

\* The day a month ends: the date is at most 31, and the year lasts at least as long.
LEMMA MonthEnds ==
  ASSUME NEW y \in Int, NEW m \in 1..12
  PROVE  /\ DateUTC(y, m + 1, 1) \in Int
         /\ MonthStart(y, m) + 28 <= DateUTC(y, m + 1, 1)
         /\ DateUTC(y, m + 1, 1) <= MonthStart(y, m) + 31
         /\ YearStart(y) <= MonthStart(y, m) /\ DateUTC(y, m + 1, 1) <= YearStart(y + 1)
<1>1. /\ \A i \in 1..12 : MonthStart(y, i) \in Int
      /\ MonthStart(y, 1) = YearStart(y)
      /\ MonthStart(y, 12) + 31 = YearStart(y + 1)
      /\ DateUTC(y, 13, 1) = YearStart(y + 1)
  BY MonthsFollow
<1>2. YearStart(y) <= MonthStart(y, m)
  <2>1. CASE m = 1
    BY <1>1, <2>1
  <2>2. CASE m > 1
    <3>1. 1 \in 1..12 /\ 2 \in 1..12 /\ MonthStart(y, 1 + 1) <= MonthStart(y, m)
      BY <2>2, MonthStartGrows
    <3>2. MonthStart(y, 1) + 28 <= MonthStart(y, 1 + 1)
      BY MonthsFollow
    <3> QED
      BY <1>1, <3>1, <3>2
  <2> QED
    BY <2>1, <2>2
<1>3. CASE m = 12
  BY <1>1, <1>2, <1>3
<1>4. CASE m < 12
  <2>1. m \in 1..11 /\ m + 1 \in 1..12
    BY <1>4
  <2>2. /\ DateUTC(y, m + 1, 1) = MonthStart(y, m + 1)
        /\ MonthStart(y, m) + 28 <= MonthStart(y, m + 1)
        /\ MonthStart(y, m + 1) <= MonthStart(y, m) + 31
    BY <2>1, MonthsFollow
  <2>3. MonthStart(y, m + 1) <= MonthStart(y, 12)
    BY <1>4, MonthStartGrows
  <2> QED
    BY <1>1, <1>2, <2>1, <2>2, <2>3
<1> QED
  BY <1>3, <1>4

\* A day is in one month: the one found.
LEMMA DateIs ==
  ASSUME NEW y \in Int, NEW m \in 1..12, NEW d \in Int, d >= -365,
         MonthStart(y, m) <= d, d < DateUTC(y, m + 1, 1)
  PROVE  Year(d) = y /\ Month(d) = m /\ DateOf(d) = d - MonthStart(y, m) + 1
<1>1. MonthStart(y, m) \in Int
  BY MonthsFollow
<1>2. Year(d) = y
  <2>1. YearStart(y) \in Int /\ YearStart(y + 1) \in Int
    BY YearStartType
  <2>2. /\ DateUTC(y, m + 1, 1) \in Int
        /\ YearStart(y) <= MonthStart(y, m) /\ DateUTC(y, m + 1, 1) <= YearStart(y + 1)
    BY MonthEnds
  <2>3. YearStart(y) <= d /\ d < YearStart(y + 1)
    BY <1>1, <2>1, <2>2
  <2> QED
    BY <2>3, YearIs
<1>3. /\ Month(d) \in 1..12 /\ MonthStart(y, Month(d)) \in Int
      /\ MonthStart(y, Month(d)) <= d /\ d < DateUTC(y, Month(d) + 1, 1)
  BY <1>2, MonthFacts
<1>4. DateUTC(y, m + 1, 1) \in Int /\ DateUTC(y, Month(d) + 1, 1) \in Int
  BY <1>3, MonthEnds
<1>5. \A i \in 1..11 : DateUTC(y, i + 1, 1) = MonthStart(y, i + 1)
  BY MonthsFollow
<1>6. ~(m < Month(d))
  <2> SUFFICES ASSUME m < Month(d) PROVE FALSE
    OBVIOUS
  <2>1. m \in 1..11 /\ MonthStart(y, m + 1) <= MonthStart(y, Month(d))
    BY <1>3, MonthStartGrows
  <2>2. DateUTC(y, m + 1, 1) <= MonthStart(y, Month(d))
    BY <1>5, <2>1
  <2> QED
    BY <1>3, <1>4, <2>2
<1>7. ~(Month(d) < m)
  <2> SUFFICES ASSUME Month(d) < m PROVE FALSE
    OBVIOUS
  <2>1. Month(d) \in 1..11 /\ MonthStart(y, Month(d) + 1) <= MonthStart(y, m)
    BY <1>3, MonthStartGrows
  <2>2. DateUTC(y, Month(d) + 1, 1) <= MonthStart(y, m)
    BY <1>5, <2>1
  <2> QED
    BY <1>1, <1>3, <1>4, <2>2
<1>8. Month(d) = m
  BY <1>3, <1>6, <1>7
<1> QED
  BY <1>2, <1>8 DEF DateOf

LEMMA Days ==
  ASSUME NEW d \in Int, d >= -365
  PROVE  /\ Year(d) \in Int /\ Month(d) \in 1..12 /\ DateOf(d) \in 1..31
         /\ MonthStart(Year(d), Month(d)) \in Int
         /\ d = MonthStart(Year(d), Month(d)) + DateOf(d) - 1
         /\ d < DateUTC(Year(d), Month(d) + 1, 1)
         /\ YearStart(Year(d)) <= d /\ d < YearStart(Year(d) + 1)
<1>1. Year(d) \in Int /\ YearStart(Year(d)) <= d /\ d < YearStart(Year(d) + 1)
  BY YearFacts
<1>2. /\ Month(d) \in 1..12 /\ MonthStart(Year(d), Month(d)) \in Int
      /\ MonthStart(Year(d), Month(d)) <= d /\ d < DateUTC(Year(d), Month(d) + 1, 1)
  BY MonthFacts
<1>3. /\ DateUTC(Year(d), Month(d) + 1, 1) \in Int
      /\ DateUTC(Year(d), Month(d) + 1, 1) <= MonthStart(Year(d), Month(d)) + 31
  BY <1>1, <1>2, MonthEnds
<1> QED
  BY <1>1, <1>2, <1>3 DEF DateOf

LEMMA SameMonth ==
  ASSUME NEW y \in Int, NEW m \in 1..12, NEW date \in Int
  PROVE  DateUTC(y, m, date) = MonthStart(y, m) + date - 1
<1>1. y + (m - 1) \div 12 = y /\ ((m - 1) % 12) + 1 = m
  OBVIOUS
<1> QED
  BY <1>1 DEF DateUTC

LEMMA MondayFacts ==
  ASSUME NEW d \in Int
  PROVE  /\ Monday(d) \in Int /\ Monday(d) <= d /\ d <= Monday(d) + 6
         /\ \E w \in Int : Monday(d) = 7 * w - 3
<1>1. PICK w \in Int, r \in 0..6 : d + 3 = 7 * w + r
  <2> DEFINE w == (d + 3) \div 7
             r == (d + 3) % 7
  <2>1. w \in Int /\ r \in 0..6 /\ d + 3 = 7 * w + r
    OBVIOUS
  <2> QED
    BY <2>1
<1>2. Monday(d) = 7 * w - 3
  BY <1>1 DEF Monday, Weekday
<1> QED
  BY <1>1, <1>2

LEMMA FirstTwo ==
  ASSUME NEW a \in Int, NEW b \in Int, NEW c \in Int
  PROVE  SubSeq(<<a, b, c>>, 1, 2) = <<a, b>>
<1> DEFINE s == SubSeq(<<a, b, c>>, 1, 2)
<1>1. \A i \in 1..2 : <<a, b, c>>[i] \in Int
  OBVIOUS
<1>2. s \in Seq(Int) /\ Len(s) = 2 /\ \A i \in 1..2 : s[i] = <<a, b, c>>[i]
  BY <1>1, SubSeqProperties
<1>3. /\ s = [i \in 1..2 |-> s[i]]
      /\ <<a, b>> = [i \in 1..2 |-> <<a, b>>[i]]
  <2> HIDE DEF s
  <2> QED
    BY <1>2
<1>4. \A i \in 1..2 : s[i] = <<a, b>>[i]
  <2> HIDE DEF s
  <2>1. \A i \in 1..2 : <<a, b, c>>[i] = <<a, b>>[i]
    OBVIOUS
  <2> QED
    BY <1>2, <2>1
<1> QED
  <2> HIDE DEF s
  <2>1. s = <<a, b>>
    BY <1>3, <1>4
  <2> QED
    BY <2>1 DEF s

(***************************************************************************)
(* The periods.                                                            *)
(***************************************************************************)
LEMMA PreviousMonth ==
  ASSUME NEW t \in Nat
  PROVE  makePreviousPeriodKey("month", t) = SubSeq(Civil(DayOf(t) - DateOf(DayOf(t))), 1, 2)
<1>1. PICK day : day = DayOf(t)
  OBVIOUS
<1>2. day \in Nat
  BY <1>1 DEF DayOf
<1>3. PICK y, m, b : y = Year(day) /\ m = Month(day) /\ b = MonthStart(y, m)
  OBVIOUS
<1>4. /\ y \in Int /\ m \in 1..12 /\ b \in Int /\ DateOf(day) \in 1..31
      /\ day = b + DateOf(day) - 1
  BY <1>2, <1>3, Days
\* The month before this one.
<1>5. PICK py \in Int, pm \in 1..12 :
        MonthStart(py, pm) = DateUTC(y, m - 1, 1) /\ DateUTC(py, pm + 1, 1) = b
  <2>1. CASE m = 1
    <3>1. PICK z \in Int : z = y - 1
      BY <1>4
    <3>2. y + (m - 1 - 1) \div 12 = z /\ ((m - 1 - 1) % 12) + 1 = 12
      <4>1. \A n \in Int : n < 0 /\ n >= -12 => n \div 12 = -1 /\ n % 12 = n + 12
        OBVIOUS
      <4>2. m - 1 - 1 \in Int /\ m - 1 - 1 < 0 /\ m - 1 - 1 >= -12 /\ m - 1 - 1 + 12 = 11
        BY <1>4, <2>1
      <4>3. (m - 1 - 1) \div 12 = -1 /\ (m - 1 - 1) % 12 = 11
        BY <4>1, <4>2
      <4> QED
        BY <1>4, <3>1, <4>3
    <3>3. MonthStart(z, 12) \in Int
      BY MonthsFollow
    <3>4. DateUTC(y, m - 1, 1) = MonthStart(z, 12)
      BY <3>2, <3>3 DEF DateUTC
    <3>5. DateUTC(z, 13, 1) = YearStart(z + 1) /\ MonthStart(y, 1) = YearStart(y)
      BY <1>4, MonthsFollow
    <3>6. DateUTC(z, 12 + 1, 1) = b
      <4>1. z + 1 = y /\ 12 + 1 = 13
        BY <1>4, <3>1
      <4> QED
        BY <1>3, <2>1, <3>5, <4>1
    <3> QED
      BY <3>4, <3>6
  <2>2. CASE m > 1
    <3>1. m - 1 \in 1..11 /\ m - 1 \in 1..12 /\ m - 1 + 1 = m
      BY <1>4, <2>2
    <3>2. DateUTC(y, m - 1, 1) = MonthStart(y, m - 1)
      <4>1. MonthStart(y, m - 1) \in Int
        BY <1>4, <3>1, MonthsFollow
      <4>2. DateUTC(y, m - 1, 1) = MonthStart(y, m - 1) + 1 - 1
        BY <1>4, <3>1, SameMonth
      <4> QED
        BY <4>1, <4>2
    <3>3. DateUTC(y, m - 1 + 1, 1) = MonthStart(y, m - 1 + 1)
      BY <1>4, <3>1, MonthsFollow
    <3>4. DateUTC(y, m - 1 + 1, 1) = b
      BY <1>3, <3>1, <3>3
    <3> QED
      BY <1>4, <3>1, <3>2, <3>4
  <2> QED
    BY <1>4, <2>1, <2>2
<1>6. /\ MonthStart(py, pm) \in Int /\ MonthStart(py, pm) + 28 <= b /\ b <= MonthStart(py, pm) + 31
  BY <1>5, MonthEnds, MonthsFollow
<1>7. b >= -30
  BY <1>2, <1>4
<1>8. Year(MonthStart(py, pm)) = py /\ Month(MonthStart(py, pm)) = pm
  <2>1. PICK first \in Int : first = MonthStart(py, pm)
    BY <1>6
  <2>2. first >= -365 /\ MonthStart(py, pm) <= first /\ first < DateUTC(py, pm + 1, 1)
    BY <1>4, <1>5, <1>6, <1>7, <2>1
  <2>3. Year(first) = py /\ Month(first) = pm
    BY <1>5, <2>1, <2>2, DateIs
  <2> QED
    BY <2>1, <2>3
<1>9. Year(b - 1) = py /\ Month(b - 1) = pm /\ DateOf(b - 1) \in Int
  <2>1. b - 1 \in Int /\ b - 1 >= -365 /\ MonthStart(py, pm) <= b - 1
    BY <1>4, <1>6, <1>7
  <2>2. b - 1 < DateUTC(py, pm + 1, 1)
    BY <1>4, <1>5
  <2>3. Year(b - 1) = py /\ Month(b - 1) = pm
    BY <2>1, <2>2, DateIs
  <2> QED
    BY <2>1, <2>3, Days
<1>10. day - DateOf(day) = b - 1
  BY <1>4
<1>11. SubSeq(Civil(b - 1), 1, 2) = <<py, pm>>
  BY <1>9, FirstTwo DEF Civil
<1>12. makePreviousPeriodKey("month", t) = <<py, pm>>
  BY <1>1, <1>3, <1>5, <1>8 DEF makePreviousPeriodKey
<1> QED
  BY <1>1, <1>10, <1>11, <1>12

LEMMA SameWeek ==
  ASSUME NEW a \in Int, NEW b \in Int, NEW w \in Int, 7 * w - 3 <= a, a <= 7 * w + 3
  PROVE  Monday(a) = 7 * w - 3
BY DEF Monday, Weekday

LEMMA LastWeekIs ==
  ASSUME NEW day \in Nat
  PROVE  DateUTC(Year(day), Month(day), DateOf(day) - 7) = day - 7
<1>1. /\ Year(day) \in Int /\ Month(day) \in 1..12 /\ DateOf(day) \in 1..31
      /\ MonthStart(Year(day), Month(day)) \in Int
      /\ day = MonthStart(Year(day), Month(day)) + DateOf(day) - 1
  BY Days
<1>2. DateOf(day) - 7 \in Int
  BY <1>1
<1>3. DateUTC(Year(day), Month(day), DateOf(day) - 7)
        = MonthStart(Year(day), Month(day)) + (DateOf(day) - 7) - 1
  BY <1>1, <1>2, SameMonth
<1> QED
  BY <1>1, <1>3

LEMMA PreviousMonday ==
  ASSUME NEW t \in Nat
  PROVE  makePreviousWeekMonday(t) = Monday(Monday(DayOf(t)) - 1)
<1>1. DayOf(t) \in Nat
  BY DEF DayOf
<1>2. makePreviousWeekMonday(t) = Monday(DayOf(t) - 7)
  BY <1>1, LastWeekIs DEF makePreviousWeekMonday, Monday
<1>3. PICK w \in Int : Monday(DayOf(t)) = 7 * w - 3
  <2>1. DayOf(t) \in Int
    BY <1>1
  <2> QED
    BY <2>1, MondayFacts
<1>4. Monday(DayOf(t)) <= DayOf(t) /\ DayOf(t) <= Monday(DayOf(t)) + 6
  BY <1>1, MondayFacts
<1>5. /\ DayOf(t) - 7 \in Int /\ 7 * (w - 1) - 3 <= DayOf(t) - 7
      /\ DayOf(t) - 7 <= 7 * (w - 1) + 3
  BY <1>1, <1>3, <1>4
<1>6. /\ Monday(DayOf(t)) - 1 \in Int /\ 7 * (w - 1) - 3 <= Monday(DayOf(t)) - 1
      /\ Monday(DayOf(t)) - 1 <= 7 * (w - 1) + 3
  BY <1>3
<1>7. w - 1 \in Int
  OBVIOUS
<1> QED
  BY <1>2, <1>5, <1>6, <1>7, SameWeek

\* The first week of a year begins from three days before to three days after it.
LEMMA FirstWeek ==
  ASSUME NEW y \in Int
  PROVE  \E v \in Int : /\ Monday(DateUTC(y, 1, 4)) = 7 * v - 3
                        /\ YearStart(y) - 3 <= 7 * v - 3 /\ 7 * v - 3 <= YearStart(y) + 3
<1>1. DateUTC(y, 1, 4) = YearStart(y) + 3
  BY SameMonth, MonthsFollow, YearStartType
<1> QED
  BY <1>1, MondayFacts, YearStartType

LEMMA PreviousWeek ==
  ASSUME NEW t \in Nat
  PROVE  makePreviousPeriodKey("week", t) = IsoWeek(Monday(DayOf(t)) - 1)
<1>1. PICK day : day = DayOf(t)
  OBVIOUS
<1>2. day \in Nat
  BY <1>1 DEF DayOf
<1>3. PICK w \in Int : Monday(day) = 7 * w + 4
  <2>1. PICK v \in Int : Monday(day) = 7 * v - 3
    <3>1. day \in Int
      BY <1>2
    <3> QED
      BY <3>1, MondayFacts
  <2>2. v - 1 \in Int /\ Monday(day) = 7 * (v - 1) + 4
    BY <2>1
  <2> QED
    BY <2>2
<1>4. Monday(day) <= day /\ day <= Monday(day) + 6
  BY <1>2, MondayFacts
\* The last Sunday, and the Thursday of its week.
<1>5. PICK sunday \in Int, thursday \in Int :
        /\ sunday = 7 * w + 3 /\ thursday = 7 * w /\ sunday >= -7 /\ thursday >= -10
        /\ Monday(day) - 1 = sunday /\ Monday(sunday) = 7 * w - 3
  <2>1. Monday(7 * w + 3) = 7 * w - 3
    BY SameWeek
  <2> QED
    BY <1>2, <1>3, <1>4, <2>1
<1>6. day - 7 + 4 - (IF Weekday(day - 7) = 0 THEN 7 ELSE Weekday(day - 7)) = thursday
  BY <1>2, <1>3, <1>4, <1>5 DEF Weekday
<1>7. PICK y \in Int : y = Year(thursday) /\ YearStart(y) <= thursday /\ thursday < YearStart(y + 1)
  BY <1>5, YearFacts
<1>8. makePreviousPeriodKey("week", t) = <<y, (thursday - YearStart(y) + 7) \div 7>>
  BY <1>1, <1>2, <1>6, <1>7, LastWeekIs DEF makePreviousPeriodKey
<1> DEFINE first(x) == Monday(DateUTC(x, 1, 4))
           P(x) == first(x) <= sunday /\ sunday < first(x + 1)
           Years == {Year(sunday) - 1, Year(sunday), Year(sunday) + 1}
<1>9. PICK v0 \in Int : /\ first(y) = 7 * v0 - 3
                        /\ YearStart(y) - 3 <= 7 * v0 - 3 /\ 7 * v0 - 3 <= YearStart(y) + 3
  BY FirstWeek
<1>10. PICK v1 \in Int : /\ first(y + 1) = 7 * v1 - 3
                         /\ YearStart(y + 1) - 3 <= 7 * v1 - 3 /\ 7 * v1 - 3 <= YearStart(y + 1) + 3
  BY FirstWeek
<1>11. YearStart(y) \in Int /\ YearStart(y + 1) \in Int
  BY YearStartType
<1>12. P(y)
  BY <1>5, <1>7, <1>9, <1>10, <1>11
<1>13. y \in Years
  <2>1. /\ Year(sunday) \in Int /\ YearStart(Year(sunday)) <= sunday
        /\ sunday < YearStart(Year(sunday) + 1)
    BY <1>5, YearFacts
  <2>2. YearStart(y + 1) + 365 <= YearStart(y + 1 + 1)
    BY <1>11, YearLength
  <2>3. CASE sunday < YearStart(y + 1)
    <3>1. Year(sunday) = y
      BY <1>5, <1>7, <1>11, <2>3, YearIs
    <3> QED
      BY <3>1
  <2>4. CASE sunday >= YearStart(y + 1)
    <3>1. Year(sunday) = y + 1
      <4>1. y + 1 \in Int /\ YearStart(y + 1 + 1) \in Int
        BY YearStartType
      <4>2. sunday < YearStart(y + 1 + 1)
        BY <1>5, <1>7, <1>11, <2>2, <4>1
      <4> QED
        BY <1>5, <2>4, <4>1, <4>2, YearIs
    <3> QED
      BY <3>1
  <2> QED
    BY <1>11, <2>3, <2>4
<1>14. ASSUME NEW x \in Years, P(x) PROVE x = y
  <2>1. x \in Int
    BY <1>5, YearFacts
  <2>2. PICK u0 \in Int : first(x) = 7 * u0 - 3 /\ YearStart(x) - 3 <= 7 * u0 - 3
                          /\ 7 * u0 - 3 <= YearStart(x) + 3
    BY <2>1, FirstWeek
  <2>3. PICK u1 \in Int : first(x + 1) = 7 * u1 - 3 /\ YearStart(x + 1) - 3 <= 7 * u1 - 3
                          /\ 7 * u1 - 3 <= YearStart(x + 1) + 3
    BY <2>1, FirstWeek
  <2>4. YearStart(x) \in Int /\ YearStart(x + 1) \in Int
    BY <2>1, YearStartType
  <2>5. YearStart(x) <= thursday /\ thursday < YearStart(x + 1)
    BY <1>5, <1>14, <2>2, <2>3, <2>4
  <2> QED
    BY <1>5, <1>7, <2>1, <2>5, YearIs
<1>15. y = CHOOSE x \in Years : P(x)
  <2> HIDE DEF P, Years
  <2> QED
    BY <1>12, <1>13, <1>14
<1>16. IsoWeek(sunday) = <<y, (7 * w - 3 - (7 * v0 - 3)) \div 7 + 1>>
  BY <1>5, <1>9, <1>15 DEF IsoWeek
<1>17. (thursday - YearStart(y) + 7) \div 7 = (7 * w - 3 - (7 * v0 - 3)) \div 7 + 1
  BY <1>5, <1>9, <1>11
<1> QED
  BY <1>1, <1>5, <1>8, <1>16, <1>17

\* A period of Product Hunt begins at 07:00 UTC of a day; until now no later one has.
PeriodIsCurrent(period, t) ==
  LET start == periodStart(period, t)
  IN /\ Begins(period, start) /\ start <= t
     /\ \A n \in 1..((t - start) \div 24) : ~Begins(period, start + 24 * n)

LEMMA PeriodsFromADay ==
  ASSUME NEW t \in Nat, NEW period, NEW first \in Int,
         periodStart(period, t) = 24 * first + 7, first <= DayOf(t - 7),
         NEW Firsts, first \in Firsts,
         \A day \in Int : first < day /\ day <= DayOf(t - 7) => day \notin Firsts,
         \A hour \in Int : Begins(period, hour) <=> hour % 24 = 7 /\ DayOf(hour) \in Firsts
  PROVE  PeriodIsCurrent(period, t)
<1>1. PICK p \in Int, r \in 0..23 : t - 7 = 24 * p + r /\ DayOf(t - 7) = p
  <2> DEFINE p == (t - 7) \div 24
             r == (t - 7) % 24
  <2>1. p \in Int /\ r \in 0..23 /\ t - 7 = 24 * p + r
    OBVIOUS
  <2> QED
    BY <2>1 DEF DayOf
<1>2. \A day \in Int : (24 * day + 7) % 24 = 7 /\ DayOf(24 * day + 7) = day
  BY DEF DayOf
<1>3. Begins(period, 24 * first + 7)
  <2>1. 24 * first + 7 \in Int
    OBVIOUS
  <2> QED
    BY <1>2, <2>1
<1>4. 24 * first + 7 <= t
  BY <1>1
<1>5. ASSUME NEW n \in 1..((t - (24 * first + 7)) \div 24) PROVE ~Begins(period, 24 * first + 7 + 24 * n)
  <2>1. PICK day \in Int : day = first + n
    OBVIOUS
  <2>2. first < day /\ day <= p
    <3>1. (t - (24 * first + 7)) \div 24 = p - first
      BY <1>1
    <3> QED
      BY <2>1, <3>1
  <2>3. 24 * first + 7 + 24 * n = 24 * day + 7 /\ 24 * day + 7 \in Int
    BY <2>1
  <2>4. day \notin Firsts
    BY <1>1, <2>2
  <2> QED
    BY <1>2, <2>3, <2>4
<1> QED
  BY <1>3, <1>4, <1>5 DEF PeriodIsCurrent

LEMMA WeekIsCurrent == ASSUME NEW t \in Nat PROVE PeriodIsCurrent("weekly", t)
<1>1. PICK p : p = DayOf(t - 7)
  OBVIOUS
<1>2. p \in Int /\ p >= -1
  BY <1>1 DEF DayOf
<1>3. /\ Year(p) \in Int /\ Month(p) \in 1..12 /\ DateOf(p) \in 1..31
      /\ MonthStart(Year(p), Month(p)) \in Int
      /\ p = MonthStart(Year(p), Month(p)) + DateOf(p) - 1
  BY <1>2, Days
<1>4. PICK w \in Int : Monday(p) = 7 * w - 3
  BY <1>2, MondayFacts
<1>5. Monday(p) <= p /\ p <= Monday(p) + 6
  BY <1>2, MondayFacts
<1>6. periodStart("weekly", t) = 24 * (7 * w - 3) + 7
  <2>1. PICK offset \in Int : offset = (Weekday(p) + 6) % 7 /\ Monday(p) = p - offset
    BY <1>2 DEF Weekday, Monday
  <2>2. DateOf(p) - offset \in Int
    BY <1>3, <2>1
  <2>3. DateUTC(Year(p), Month(p), DateOf(p) - offset)
          = MonthStart(Year(p), Month(p)) + (DateOf(p) - offset) - 1
    BY <1>3, <2>2, SameMonth
  <2>4. DateUTC(Year(p), Month(p), DateOf(p) - offset) = 7 * w - 3
    BY <1>3, <1>4, <2>1, <2>3
  <2> QED
    BY <1>1, <2>1, <2>4 DEF periodStart
<1> DEFINE Firsts == {day \in Int : Weekday(day) = 1}
<1>7. 7 * w - 3 \in Int /\ 7 * w - 3 \in Firsts /\ 7 * w - 3 <= DayOf(t - 7)
  BY <1>1, <1>4, <1>5 DEF Weekday
<1>8. \A day \in Int : 7 * w - 3 < day /\ day <= DayOf(t - 7) => day \notin Firsts
  <2> SUFFICES ASSUME NEW day \in Int, 7 * w - 3 < day, day <= DayOf(t - 7) PROVE Weekday(day) # 1
    OBVIOUS
  <2>1. 7 * w - 3 < day /\ day <= 7 * w + 3
    BY <1>1, <1>2, <1>4, <1>5
  <2> QED
    BY <2>1 DEF Weekday
<1>9. \A hour \in Int : Begins("weekly", hour) <=> hour % 24 = 7 /\ DayOf(hour) \in Firsts
  BY DEF Begins, DayOf
<1> HIDE DEF Firsts
<1> QED
  BY <1>6, <1>7, <1>8, <1>9, PeriodsFromADay

LEMMA MonthIsCurrent == ASSUME NEW t \in Nat PROVE PeriodIsCurrent("monthly", t)
<1>1. PICK p, y, m, b : p = DayOf(t - 7) /\ y = Year(p) /\ m = Month(p) /\ b = MonthStart(y, m)
  OBVIOUS
<1>2. p \in Int /\ p >= -1
  BY <1>1 DEF DayOf
<1>3. /\ y \in Int /\ m \in 1..12 /\ DateOf(p) \in 1..31 /\ b \in Int /\ p = b + DateOf(p) - 1
      /\ p < DateUTC(y, m + 1, 1)
  BY <1>1, <1>2, Days
<1>4. periodStart("monthly", t) = 24 * b + 7
  <2>1. DateUTC(y, m, 1) = b
    BY <1>1, <1>3, SameMonth
  <2> QED
    BY <1>1, <2>1 DEF periodStart
<1>5. ASSUME NEW day \in Int, b <= day, day <= p PROVE DateOf(day) = day - b + 1
  <2>1. DateUTC(y, m + 1, 1) \in Int
    BY <1>3, MonthEnds
  <2>2. day >= -365 /\ MonthStart(y, m) <= day /\ day < DateUTC(y, m + 1, 1)
    BY <1>1, <1>2, <1>3, <1>5, <2>1
  <2>3. DateOf(day) = day - MonthStart(y, m) + 1
    BY <1>3, <2>2, DateIs
  <2> QED
    BY <1>1, <2>3
<1> DEFINE Firsts == {day \in Int : DateOf(day) = 1}
<1>6. b \in Int /\ b \in Firsts /\ b <= DayOf(t - 7)
  BY <1>1, <1>2, <1>3, <1>5
<1>7. \A day \in Int : b < day /\ day <= DayOf(t - 7) => day \notin Firsts
  BY <1>1, <1>3, <1>5
<1>8. \A hour \in Int : Begins("monthly", hour) <=> hour % 24 = 7 /\ DayOf(hour) \in Firsts
  BY DEF Begins, DayOf
<1> HIDE DEF Firsts
<1> QED
  BY <1>4, <1>6, <1>7, <1>8, PeriodsFromADay

LEMMA YearIsCurrent == ASSUME NEW t \in Nat PROVE PeriodIsCurrent("yearly", t)
<1>1. PICK p, y, b : p = DayOf(t - 7) /\ y = Year(p) /\ b = YearStart(y)
  OBVIOUS
<1>2. p \in Int /\ p >= -1
  BY <1>1 DEF DayOf
<1>3. y \in Int /\ b \in Int /\ b <= p /\ p < YearStart(y + 1) /\ YearStart(y + 1) \in Int
  BY <1>1, <1>2, YearFacts, YearStartType
<1>4. MonthStart(y, 1) = b /\ DateUTC(y, 1, 1) = b
  <2>1. MonthStart(y, 1) = b
    BY <1>1, <1>3, MonthsFollow
  <2>2. DateUTC(y, 1, 1) = MonthStart(y, 1) + 1 - 1
    BY <1>3, SameMonth
  <2> QED
    BY <1>3, <2>1, <2>2
<1>5. periodStart("yearly", t) = 24 * b + 7
  BY <1>1, <1>4 DEF periodStart
<1>6. YearStart(y + 1) = b + 365 + IF Leap(y) THEN 1 ELSE 0
  BY <1>1, <1>3, YearLength
<1>7. b >= -366
  BY <1>2, <1>3, <1>6
<1>8. b >= -365
  BY <1>1, <1>2, <1>3, <1>7 DEF YearStart
<1>9. DateOf(b) = 1 /\ Month(b) = 1
  <2>1. PICK m \in 1..12 : m = 1
    OBVIOUS
  <2>2. MonthStart(y, m) + 28 <= DateUTC(y, m + 1, 1) /\ DateUTC(y, m + 1, 1) \in Int
    BY <1>3, MonthEnds
  <2>3. MonthStart(y, m) = b
    BY <1>4, <2>1
  <2>4. b < DateUTC(y, m + 1, 1)
    BY <1>3, <2>2, <2>3
  <2>5. Month(b) = m /\ DateOf(b) = b - MonthStart(y, m) + 1
    BY <1>3, <1>8, <2>3, <2>4, DateIs
  <2> QED
    BY <1>3, <2>1, <2>3, <2>5
<1>10. ASSUME NEW day \in Int, b < day, day <= p PROVE ~(DateOf(day) = 1 /\ Month(day) = 1)
  <2>1. day >= -365
    BY <1>3, <1>8, <1>10
  <2>2. Year(day) = y
    <3>1. YearStart(y) <= day /\ day < YearStart(y + 1)
      BY <1>1, <1>2, <1>3, <1>10
    <3> QED
      BY <1>3, <2>1, <3>1, YearIs
  <2>3. Month(day) \in 1..12 /\ day = MonthStart(y, Month(day)) + DateOf(day) - 1
    BY <2>1, <2>2, Days
  <2> QED
    BY <1>3, <1>4, <1>10, <2>3
<1> DEFINE Firsts == {day \in Int : DateOf(day) = 1 /\ Month(day) = 1}
<1>11. b \in Int /\ b \in Firsts /\ b <= DayOf(t - 7)
  BY <1>1, <1>3, <1>9
<1>12. \A day \in Int : b < day /\ day <= DayOf(t - 7) => day \notin Firsts
  BY <1>1, <1>10
<1>13. \A hour \in Int : Begins("yearly", hour) <=> hour % 24 = 7 /\ DayOf(hour) \in Firsts
  BY DEF Begins, DayOf
<1> HIDE DEF Firsts
<1> QED
  BY <1>5, <1>11, <1>12, <1>13, PeriodsFromADay

LEMMA PeriodsHold == now \in Nat => PeriodsAreRight
<1> SUFFICES ASSUME now \in Nat PROVE PeriodsAreRight
  OBVIOUS
<1>1. \A period \in {"weekly", "monthly", "yearly"} : PeriodIsCurrent(period, now)
  BY WeekIsCurrent, MonthIsCurrent, YearIsCurrent
<1> QED
  BY <1>1, PreviousWeek, PreviousMonth, PreviousMonday DEF PeriodsAreRight, PeriodIsCurrent

(***************************************************************************)
(* Deadlines.                                                              *)
(***************************************************************************)
\* An earlier day has an earlier date.
LEMMA EarlierDate ==
  ASSUME NEW a \in Int, NEW b \in Int, a >= -365, b >= -365, IsEarlier(Civil(a), Civil(b))
  PROVE  a < b
<1>1. PICK ya, ma, da : ya = Year(a) /\ ma = Month(a) /\ da = DateOf(a)
  OBVIOUS
<1>2. PICK yb, mb, db : yb = Year(b) /\ mb = Month(b) /\ db = DateOf(b)
  OBVIOUS
<1>3. /\ ya \in Int /\ ma \in 1..12 /\ da \in Int /\ MonthStart(ya, ma) \in Int
      /\ a = MonthStart(ya, ma) + da - 1 /\ a < DateUTC(ya, ma + 1, 1)
      /\ YearStart(ya) <= a /\ a < YearStart(ya + 1)
  BY <1>1, Days
<1>4. /\ yb \in Int /\ mb \in 1..12 /\ db \in 1..31 /\ MonthStart(yb, mb) \in Int
      /\ b = MonthStart(yb, mb) + db - 1 /\ b < DateUTC(yb, mb + 1, 1)
      /\ YearStart(yb) <= b /\ b < YearStart(yb + 1)
  BY <1>2, Days
<1>5. ya < yb \/ (ya = yb /\ ma < mb) \/ (ya = yb /\ ma = mb /\ da < db)
  BY <1>1, <1>2 DEF IsEarlier, Civil
<1>6. CASE ya < yb
  <2>1. YearStart(ya + 1) <= YearStart(yb) /\ YearStart(ya + 1) \in Int /\ YearStart(yb) \in Int
    BY <1>3, <1>4, <1>6, YearStartGrows, YearStartType
  <2> QED
    BY <1>3, <1>4, <2>1
<1>7. CASE ya = yb /\ ma < mb
  <2>1. ma \in 1..11 /\ MonthStart(ya, ma + 1) <= MonthStart(ya, mb)
    BY <1>3, <1>4, <1>7, MonthStartGrows
  <2>2. DateUTC(ya, ma + 1, 1) = MonthStart(ya, ma + 1)
    BY <1>3, <2>1, MonthsFollow
  <2>3. DateUTC(ya, ma + 1, 1) \in Int
    BY <1>3, MonthEnds
  <2> QED
    BY <1>3, <1>4, <1>7, <2>1, <2>2, <2>3
<1>8. CASE ya = yb /\ ma = mb /\ da < db
  BY <1>3, <1>4, <1>8
<1> QED
  BY <1>5, <1>6, <1>7, <1>8

LEMMA DaysBeforeType == \A m \in 1..12 : DaysBefore[m] \in Int
<1>1. /\ DaysBefore[1] = 0 /\ DaysBefore[2] = 31 /\ DaysBefore[3] = 59 /\ DaysBefore[4] = 90
      /\ DaysBefore[5] = 120 /\ DaysBefore[6] = 151 /\ DaysBefore[7] = 181
      /\ DaysBefore[8] = 212 /\ DaysBefore[9] = 243 /\ DaysBefore[10] = 273
      /\ DaysBefore[11] = 304 /\ DaysBefore[12] = 334
  BY DEF DaysBefore
<1> QED
  BY <1>1

LEMMA MonthStartType ==
  ASSUME NEW y \in Int, NEW m \in 1..12
  PROVE  MonthStart(y, m) \in Int
BY MonthsFollow

LEMMA NextYearsMonth ==
  ASSUME NEW y \in Int, NEW m \in 1..12
  PROVE  MonthStart(y + 1, m) >= MonthStart(y, m) + 365
<1>1. DaysBefore[m] \in Int
  BY DaysBeforeType
<1>2. /\ YearStart(y) \in Int /\ YearStart(y + 1) \in Int
      /\ YearStart(y + 1) = YearStart(y) + 365 + IF Leap(y) THEN 1 ELSE 0
  BY YearStartType, YearLength
<1> QED
  BY <1>1, <1>2 DEF MonthStart

\* A month is at most a day longer in one year than in another.
LEMMA MonthLengths ==
  ASSUME NEW y \in Int, NEW z \in Int, NEW m \in 1..11
  PROVE  MonthStart(y, m + 1) - MonthStart(y, m) <= MonthStart(z, m + 1) - MonthStart(z, m) + 1
<1>1. DaysBefore[m] \in Int /\ DaysBefore[m + 1] \in Int
  BY DaysBeforeType
<1>2. YearStart(y) \in Int /\ YearStart(z) \in Int
  BY YearStartType
<1> QED
  BY <1>1, <1>2 DEF MonthStart

\* A date of next year that is at most 330 days ahead is earlier, in the year before, than
\* what was 30 days ago.
LEMMA NextYearIsMeant ==
  ASSUME NEW today \in Nat, NEW day \in Int, today <= day, day <= today + 330,
         Year(day) = Year(today) + 1
  PROVE  IsEarlier(<<Year(today), Month(day), DateOf(day)>>, Civil(today - 30))
<1>1. PICK y, m, date : y = Year(today) /\ m = Month(day) /\ date = DateOf(day)
  OBVIOUS
<1>2. PICK ago \in Int : ago = today - 30 /\ ago >= -30
  OBVIOUS
<1>3. PICK ya, ma, da : ya = Year(ago) /\ ma = Month(ago) /\ da = DateOf(ago)
  OBVIOUS
<1>4. y \in Int /\ YearStart(y) <= today /\ today < YearStart(y + 1)
  BY <1>1, YearFacts
<1>5. /\ m \in 1..12 /\ date \in 1..31 /\ MonthStart(y + 1, m) \in Int
      /\ day = MonthStart(y + 1, m) + date - 1
      /\ YearStart(y + 1) <= day
  BY <1>1, Days
<1>6. /\ ya \in Int /\ ma \in 1..12 /\ da \in 1..31 /\ MonthStart(ya, ma) \in Int
      /\ ago = MonthStart(ya, ma) + da - 1 /\ ago < DateUTC(ya, ma + 1, 1)
      /\ YearStart(ya) <= ago /\ ago < YearStart(ya + 1)
  BY <1>2, <1>3, Days
<1>7. /\ YearStart(y) \in Int /\ YearStart(y + 1) \in Int
      /\ YearStart(y + 1) = YearStart(y) + 365 + IF Leap(y) THEN 1 ELSE 0
  BY <1>4, YearStartType, YearLength
\* The day 30 days ago is of this year, as a later one in 330 days is of the next.
<1>8. YearStart(y) <= ago
  BY <1>2, <1>5, <1>7
<1>9. ya = y
  <2>1. ago < YearStart(y + 1)
    BY <1>2, <1>4, <1>7
  <2> QED
    BY <1>2, <1>3, <1>4, <1>8, <2>1, YearIs
<1>10. m < ma \/ (m = ma /\ date < da)
  <2> SUFFICES ASSUME ~(m < ma), ~(m = ma /\ date < da) PROVE FALSE
    OBVIOUS
  <2>1. PICK z \in Int : z = y + 1
    BY <1>4
  <2>2. MonthStart(z, ma) >= MonthStart(y, ma) + 365 /\ MonthStart(z, ma) \in Int
    BY <1>4, <1>6, <2>1, NextYearsMonth, MonthsFollow
  <2>3. day >= MonthStart(z, ma) + da - 1
    <3>1. CASE m = ma
      BY <1>5, <1>6, <2>1, <2>2, <3>1
    <3>2. CASE ma < m
      <4>1. ma \in 1..11 /\ ma + 1 \in 1..12 /\ MonthStart(z, ma + 1) <= MonthStart(z, m)
        BY <1>5, <1>6, <3>2, MonthStartGrows
      <4>2. MonthStart(z, ma + 1) \in Int
        BY <4>1, MonthStartType
      <4>3. MonthStart(z, ma + 1) >= MonthStart(z, ma) + da - 1
        <5>1. DateUTC(y, ma + 1, 1) = MonthStart(y, ma + 1)
          BY <1>4, <4>1, MonthsFollow
        <5>2. MonthStart(y, ma + 1) \in Int
          BY <1>4, <4>1, MonthStartType
        <5>3. da <= MonthStart(y, ma + 1) - MonthStart(y, ma)
          BY <1>6, <1>9, <5>1, <5>2
        <5>4. MonthStart(y, ma + 1) - MonthStart(y, ma) <= MonthStart(z, ma + 1) - MonthStart(z, ma) + 1
          BY <1>4, <4>1, MonthLengths
        <5> QED
          BY <1>6, <1>9, <2>2, <4>2, <5>2, <5>3, <5>4
      <4> QED
        BY <1>5, <1>6, <2>1, <2>2, <4>1, <4>2, <4>3
    <3> QED
      BY <1>5, <1>6, <3>1, <3>2
  <2>4. day >= ago + 365
    BY <1>5, <1>6, <1>9, <2>2, <2>3
  <2> QED
    BY <1>2, <2>4
<1> QED
  BY <1>1, <1>2, <1>3, <1>9, <1>10 DEF IsEarlier, Civil

LEMMA DeadlineHolds ==
  ASSUME now \in Nat
  PROVE  DeadlineIsRead
<1>1. PICK today : today = DayOf(now + 9)
  OBVIOUS
<1>2. today \in Nat /\ DayOf(now - 30 * 24 + 9) = today - 30
  BY <1>1 DEF DayOf
<1>3. SUFFICES ASSUME NEW day \in {today + n : n \in Ahead \cap -30..330},
                      day >= today \/ Year(day) = Year(today)
               PROVE  parseDeadline(Month(day), DateOf(day), now) = Civil(day)
  BY <1>1 DEF DeadlineIsRead
<1>4. day \in Int /\ today - 30 <= day /\ day <= today + 330
  <2>1. PICK n \in Ahead \cap -30..330 : day = today + n
    BY <1>3
  <2>2. n \in -30..330
    BY <2>1
  <2> QED
    BY <1>2, <2>1, <2>2
<1>5. toKoreanDateString(now) = Civil(today) /\ toKoreanDateString(now - 30 * 24) = Civil(today - 30)
  BY <1>1, <1>2 DEF toKoreanDateString
<1>6. Civil(today)[1] = Year(today)
  BY DEF Civil
<1> DEFINE candidate == <<Year(today), Month(day), DateOf(day)>>
<1>7. parseDeadline(Month(day), DateOf(day), now)
        = IF IsEarlier(candidate, Civil(today - 30))
          THEN <<Year(today) + 1, Month(day), DateOf(day)>> ELSE candidate
  BY <1>5, <1>6 DEF parseDeadline
<1>8. day >= -365 /\ today >= -365 /\ today - 30 >= -365 /\ today - 30 \in Int /\ today \in Int
  BY <1>2, <1>4
<1>9. CASE Year(day) = Year(today)
  <2>1. candidate = Civil(day)
    BY <1>9 DEF Civil
  <2>2. ~IsEarlier(Civil(day), Civil(today - 30))
    BY <1>4, <1>8, EarlierDate
  <2> QED
    BY <1>7, <2>1, <2>2
<1>10. CASE Year(day) # Year(today)
  <2>1. today <= day
    BY <1>2, <1>3, <1>4, <1>10
  <2>2. Year(day) = Year(today) + 1
    <3>1. /\ Year(today) \in Int /\ YearStart(Year(today)) <= today /\ today < YearStart(Year(today) + 1)
      BY <1>8, YearFacts
    <3>2. PICK y \in Int, z \in Int : y = Year(today) /\ z = y + 1
      BY <3>1
    <3>3. YearStart(y) \in Int /\ YearStart(z) \in Int /\ YearStart(z + 1) \in Int
      BY YearStartType
    <3>4. YearStart(z + 1) >= YearStart(z) + 365
      BY <3>3, YearLength
    <3>5. ~(YearStart(y) <= day /\ day < YearStart(y + 1))
      BY <1>4, <1>8, <1>10, <3>2, YearIs
    <3>6. YearStart(z) <= day
      BY <1>4, <1>8, <2>1, <3>1, <3>2, <3>3, <3>5
    <3>7. day < YearStart(z + 1)
      BY <1>4, <1>8, <3>1, <3>2, <3>3, <3>4
    <3> QED
      BY <1>4, <1>8, <3>2, <3>6, <3>7, YearIs
  <2>3. IsEarlier(candidate, Civil(today - 30))
    BY <1>2, <1>4, <2>1, <2>2, NextYearIsMeant
  <2>4. Civil(day) = <<Year(today) + 1, Month(day), DateOf(day)>>
    BY <2>2 DEF Civil
  <2> QED
    BY <1>7, <2>3, <2>4
<1> QED
  BY <1>9, <1>10

(***************************************************************************)
(* Trendshift's array.                                                     *)
(***************************************************************************)
\* The definitions by recursion define something: what they ask for exists for every
\* shorter text, and so for the text.
LEMMA TurnsAre ==
  ASSUME NEW n \in Nat, NEW text, Len(text) = n
  PROVE  Turns(text) = [i \in 0..n |-> IF i = 0 THEN At(0, 1) ELSE Turn(Turns(text)[i - 1], i, text[i])]
<1> DEFINE Is(f, j) == f = [i \in 0..j |-> IF i = 0 THEN At(0, 1) ELSE Turn(f[i - 1], i, text[i])]
<1> DEFINE Good == {j \in Nat : \E f : Is(f, j)}
<1>1. ASSUME NEW j \in Nat, NEW f, Is(f, j) PROVE \E g : Is(g, j + 1)
  <2>1. PICK g : g = [i \in 0..(j + 1) |-> IF i <= j THEN f[i] ELSE Turn(f[i - 1], i, text[i])]
    OBVIOUS
  <2>2. ASSUME NEW i \in 0..(j + 1)
        PROVE  g[i] = IF i = 0 THEN At(0, 1) ELSE Turn(g[i - 1], i, text[i])
    <3>1. CASE i = 0
      BY <1>1, <2>1, <3>1
    <3>2. CASE i # 0 /\ i <= j
      <4>1. g[i] = f[i] /\ g[i - 1] = f[i - 1] /\ i \in 0..j
        BY <2>1, <3>2
      <4> QED
        BY <1>1, <3>2, <4>1
    <3>3. CASE i = j + 1
      <4>1. g[i] = Turn(f[i - 1], i, text[i]) /\ g[i - 1] = f[i - 1]
        BY <2>1, <3>3
      <4> QED
        BY <3>3, <4>1
    <3> QED
      BY <3>1, <3>2, <3>3
  <2>3. Is(g, j + 1)
    BY <2>1, <2>2
  <2> QED
    BY <2>3
<1>2. \E f : Is(f, 0)
  <2>1. PICK f : f = [i \in 0..0 |-> At(0, 1)]
    OBVIOUS
  <2>2. Is(f, 0)
    BY <2>1
  <2> QED
    BY <2>2
<1> HIDE DEF Is
<1>3. Good \in SUBSET Nat /\ 0 \in Good /\ \A j \in Nat : j < n /\ j \in Good => j + 1 \in Good
  BY <1>1, <1>2
<1>4. \E f : Is(f, n)
  <2>1. n \in Good
    <3> HIDE DEF Good
    <3> QED
      BY <1>3, StepByStep
  <2> QED
    BY <2>1
<1>5. Turns(text) = CHOOSE f : Is(f, n)
  BY DEF Turns, Is
<1>6. Is(Turns(text), n)
  BY <1>4, <1>5
<1> QED
  BY <1>6 DEF Is

LEMMA ListsAre ==
  ASSUME NEW n \in Nat, NEW text, Len(text) = n
  PROVE  \A k \in 0..n : Lists(text)[k] = ListsOf(text, Lists(text), k)
<1> DEFINE Is(f, j) == f = [k \in 0..j |-> ListsOf(text, f, k)]
<1> DEFINE Good == {j \in Nat : \E f : Is(f, j)}
\* A list is found by shorter ones.
<1>1. ASSUME NEW k \in Nat, NEW f, NEW g, \A l \in Nat : l < k => f[l] = g[l]
      PROVE  ListsOf(text, f, k) = ListsOf(text, g, k)
  <2>1. \A m \in 1..k : f[k - m] = g[k - m] /\ (m >= 2 => f[m - 2] = g[m - 2])
    <3>1. \A m \in 1..k : k - m \in Nat /\ k - m < k /\ (m >= 2 => m - 2 \in Nat /\ m - 2 < k)
      OBVIOUS
    <3> QED
      BY <1>1, <3>1
  <2> QED
    BY <2>1 DEF ListsOf
<1>2. ASSUME NEW j \in Nat, NEW f, Is(f, j) PROVE \E g : Is(g, j + 1)
  <2>1. PICK g : g = [k \in 0..(j + 1) |-> IF k <= j THEN f[k] ELSE ListsOf(text, f, k)]
    OBVIOUS
  <2>2. ASSUME NEW k \in 0..(j + 1) PROVE g[k] = ListsOf(text, g, k)
    <3>1. \A l \in Nat : l < k => f[l] = g[l]
      BY <2>1
    <3>2. ListsOf(text, f, k) = ListsOf(text, g, k)
      BY <1>1, <3>1
    <3>3. g[k] = ListsOf(text, f, k)
      BY <1>2, <2>1
    <3> QED
      BY <3>2, <3>3
  <2>3. Is(g, j + 1)
    BY <2>1, <2>2
  <2> QED
    BY <2>3
<1>3. \E f : Is(f, 0)
  <2>1. PICK e : e = [k \in 0..0 |-> {}]
    OBVIOUS
  <2>2. PICK f : f = [k \in 0..0 |-> ListsOf(text, e, k)]
    OBVIOUS
  <2>3. \A k \in 0..0 : ListsOf(text, e, k) = ListsOf(text, f, k)
    <3>1. \A k \in 0..0, l \in Nat : ~(l < k) /\ k \in Nat
      OBVIOUS
    <3> QED
      BY <1>1, <3>1
  <2>4. Is(f, 0)
    BY <2>2, <2>3
  <2> QED
    BY <2>4
<1> HIDE DEF Is
<1>4. Good \in SUBSET Nat /\ 0 \in Good /\ \A j \in Nat : j < n /\ j \in Good => j + 1 \in Good
  BY <1>2, <1>3
<1>5. \E f : Is(f, n)
  <2>1. n \in Good
    <3> HIDE DEF Good
    <3> QED
      BY <1>4, StepByStep
  <2> QED
    BY <2>1
<1>6. Lists(text) = CHOOSE f : Is(f, n)
  BY DEF Lists, Is
<1>7. Is(Lists(text), n)
  BY <1>5, <1>6
<1> QED
  BY <1>7 DEF Is

LEMMA TurnOutside ==
  ASSUME NEW d \in Nat, NEW i \in Nat, NEW c
  PROVE  /\ c \in Opening => Turn(At(d, i), i, c) = At(d + 1, i + 1)
         /\ c \in Closing /\ d # 1 => Turn(At(d, i), i, c) = At(d - 1, i + 1)
         /\ c \in Closing /\ d = 1 => Turn(At(d, i), i, c) = Closed(i)
         /\ c = "quote" => Turn(At(d, i), i, c) = In(d, i + 1)
<1>1. At(d, i).depth = d /\ At(d, i).from = i /\ At(d, i).end = 0 /\ ~At(d, i).inString
  BY DEF At
<1>2. Turn(At(d, i), i, c) = IF c = "quote" THEN In(d, i + 1)
                             ELSE IF c \in Opening THEN At(d + 1, i + 1)
                             ELSE IF c \in Closing THEN IF d = 1 THEN Closed(i) ELSE At(d - 1, i + 1)
                             ELSE At(d, i + 1)
  BY <1>1 DEF Turn
<1>3. c \in Opening => c # "quote"
  BY DEF Opening
<1>4. c \in Closing => c # "quote" /\ c \notin Opening
  BY DEF Opening, Closing
<1> QED
  BY <1>2, <1>3, <1>4

LEMMA TurnInside ==
  ASSUME NEW d \in Nat, NEW i \in Nat, NEW c
  PROVE  /\ c = "quote" => Turn(In(d, i), i, c) = At(d, i + 1)
         /\ c = "backslash" => Turn(In(d, i), i, c) = In(d, i + 2)
         /\ c \notin {"quote", "backslash"} => Turn(In(d, i), i, c) = In(d, i + 1)
<1>1. /\ In(d, i).depth = d /\ In(d, i).from = i /\ In(d, i).end = 0 /\ In(d, i).inString = TRUE
  BY DEF In
<1> QED
  BY <1>1 DEF Turn

LEMMA TurnPassed == ASSUME NEW d, NEW j, NEW i, i < j, NEW c PROVE Turn(In(d, j), i, c) = In(d, j)
<1>1. In(d, j).from = j
  BY DEF In
<1> QED
  BY <1>1 DEF Turn

LEMMA TurnAfter == ASSUME NEW s, NEW i, NEW c, s.end # 0 PROVE Turn(s, i, c) = s
BY DEF Turn

\* A character is escaped by a backslash that is not.
LEMMA EscapedBy ==
  ASSUME NEW t, t[1] # "backslash", NEW i \in Nat, i >= 2
  PROVE  IsEscaped(t, i + 1) <=> t[i] = "backslash" /\ ~IsEscaped(t, i)
<1> DEFINE Stops(j, k) == j \in 1..k /\ t[j] # "backslash" /\ \A l \in (j + 1)..k : t[l] = "backslash"
<1>1. ASSUME NEW k \in Nat PROVE \E j : Stops(j, k + 1)
  <2> DEFINE S == {l \in Nat : \E j : Stops(j, l + 1)}
  <2>1. 0 \in S
    <3>1. Stops(1, 0 + 1)
      OBVIOUS
    <3> QED
      BY <3>1
  <2>2. ASSUME NEW l \in Nat, l \in S PROVE l + 1 \in S
    <3>1. PICK j : Stops(j, l + 1)
      BY <2>2
    <3>2. CASE t[l + 2] = "backslash"
      <4>1. Stops(j, (l + 1) + 1)
        BY <3>1, <3>2
      <4> QED
        BY <4>1
    <3>3. CASE t[l + 2] # "backslash"
      <4>1. Stops(l + 2, (l + 1) + 1)
        BY <3>3
      <4> QED
        BY <4>1
    <3> QED
      BY <3>2, <3>3
  <2>3. k \in S
    <3>1. S \in SUBSET Nat
      OBVIOUS
    <3> HIDE DEF S
    <3> QED
      BY <2>1, <2>2, <3>1, StepByStep
  <2> QED
    BY <2>3
<1>2. ASSUME NEW k \in Nat, NEW j, NEW l, Stops(j, k), Stops(l, k) PROVE j = l
  BY <1>2
<1>3. PICK j : Stops(j, i - 1)
  <2>1. i - 2 \in Nat /\ (i - 2) + 1 = i - 1
    OBVIOUS
  <2> HIDE DEF Stops
  <2>2. \E j : Stops(j, (i - 2) + 1)
    BY <1>1, <2>1
  <2> QED
    BY <2>1, <2>2
<1>4. j \in Nat /\ j <= i - 1
  BY <1>3
<1>5. IsEscaped(t, i) <=> (i - 1 - j) % 2 = 1
  <2>1. IsEscaped(t, i) <=> \E l : Stops(l, i - 1) /\ (i - 1 - l) % 2 = 1
    BY DEF IsEscaped
  <2>2. \A l : Stops(l, i - 1) => l = j
    <3>1. i - 1 \in Nat
      OBVIOUS
    <3> HIDE DEF Stops
    <3> QED
      BY <1>2, <1>3, <3>1
  <2> HIDE DEF Stops
  <2> QED
    BY <1>3, <2>1, <2>2
<1>6. IsEscaped(t, i + 1) <=> \E l : Stops(l, i) /\ (i - l) % 2 = 1
  BY DEF IsEscaped
<1>7. CASE t[i] = "backslash"
  <2>1. Stops(j, i)
    BY <1>3, <1>4, <1>7
  <2>2. \A l : Stops(l, i) => l = j
    <3> HIDE DEF Stops
    <3> QED
      BY <1>2, <2>1
  <2>3. IsEscaped(t, i + 1) <=> (i - j) % 2 = 1
    <3> HIDE DEF Stops
    <3> QED
      BY <1>6, <2>1, <2>2
  <2>4. (i - j) % 2 = 1 <=> ~ ((i - 1 - j) % 2 = 1)
    BY <1>4
  <2> QED
    BY <1>5, <1>7, <2>3, <2>4
<1>8. CASE t[i] # "backslash"
  <2>1. Stops(i, i)
    BY <1>8
  <2>2. \A l : Stops(l, i) => l = i
    <3> HIDE DEF Stops
    <3> QED
      BY <1>2, <2>1
  <2>3. ~ ((i - i) % 2 = 1)
    OBVIOUS
  <2> HIDE DEF Stops
  <2> QED
    BY <1>6, <1>8, <2>2, <2>3
<1> QED
  BY <1>7, <1>8

\* What the loop does with a text, of n characters.
Runs(states, text, n) == \A i \in 1..n : states[i] = Turn(states[i - 1], i, text[i])

\* A string, whatever it says, is passed.
LEMMA StringIsPassed ==
  ASSUME NEW n \in Nat, NEW text, NEW st, Runs(st, text, n), NEW d \in Nat,
         NEW a \in Nat \ {0}, NEW m \in Nat, a + m - 1 <= n,
         NEW word, Len(word) = m, \A i \in 1..m : word[i] = text[a + i - 1], IsString(word),
         st[a - 1] = At(d, a)
  PROVE  st[a + m - 1] = At(d, a + m)
<1>1. m >= 2 /\ word[1] = "quote" /\ word[m] = "quote" /\ ~IsEscaped(word, m)
  BY DEF IsString
<1>2. \A i \in 2..(m - 1) : word[i] = "quote" => IsEscaped(word, i)
  BY DEF IsString
<1>3. ASSUME NEW i \in Nat, i < m PROVE st[a + i] = Turn(st[a + i - 1], a + i, word[i + 1])
  <2>1. a + i \in 1..n /\ i + 1 \in 1..m /\ a + (i + 1) - 1 = a + i
    BY <1>3
  <2> QED
    BY <2>1 DEF Runs
<1> DEFINE Good == {i \in Nat : i + 2 <= m => st[a + i] = In(d, IF IsEscaped(word, i + 2) THEN a + i + 2 ELSE a + i + 1)}
<1>4. 0 \in Good
  <2>1. ~IsEscaped(word, 2)
    BY DEF IsEscaped
  <2>2. st[a + 0] = Turn(At(d, a), a, "quote")
    BY <1>1, <1>3
  <2>3. st[a + 0] = In(d, a + 0 + 1)
    BY <2>2, TurnOutside
  <2> QED
    BY <2>1, <2>3
<1>5. ASSUME NEW i \in Nat, i < m - 2, i \in Good PROVE i + 1 \in Good
  <2>1. /\ i + 1 \in Nat /\ i + 1 < m /\ i + 2 \in Nat /\ i + 2 >= 2 /\ i + 2 \in 2..(m - 1)
        /\ a + i + 1 \in Nat /\ a + (i + 1) = a + i + 1 /\ a + (i + 1) - 1 = a + i
        /\ (i + 1) + 1 = i + 2 /\ (i + 2) + 1 = i + 3 /\ (i + 1) + 2 = i + 3
        /\ (a + i + 1) + 1 = a + i + 2 /\ (a + i + 1) + 2 = a + i + 3
        /\ a + (i + 1) + 2 = a + i + 3 /\ a + (i + 1) + 1 = a + i + 2
    <3> HIDE DEF Good
    <3>1. i + 1 < m /\ i + 2 \in 2..(m - 1)
      BY <1>5
    <3>2. i + 1 \in Nat /\ i + 2 \in Nat /\ i + 2 >= 2 /\ a + i + 1 \in Nat
      OBVIOUS
    <3>3. a + (i + 1) = a + i + 1 /\ a + (i + 1) - 1 = a + i
      OBVIOUS
    <3>4. (i + 1) + 1 = i + 2 /\ (i + 2) + 1 = i + 3 /\ (i + 1) + 2 = i + 3
      OBVIOUS
    <3>5. (a + i + 1) + 1 = a + i + 2 /\ (a + i + 1) + 2 = a + i + 3
      OBVIOUS
    <3>6. a + (i + 1) + 2 = a + i + 3 /\ a + (i + 1) + 1 = a + i + 2
      OBVIOUS
    <3> QED
      BY <3>1, <3>2, <3>3, <3>4, <3>5, <3>6
  <2>2. st[a + i + 1] = Turn(st[a + i], a + i + 1, word[i + 2])
    <3>1. st[a + (i + 1)] = Turn(st[a + (i + 1) - 1], a + (i + 1), word[(i + 1) + 1])
      BY <1>3, <2>1
    <3> QED
      BY <2>1, <3>1
  <2>3. IsEscaped(word, i + 3) <=> word[i + 2] = "backslash" /\ ~IsEscaped(word, i + 2)
    <3>1. IsEscaped(word, (i + 2) + 1) <=> word[i + 2] = "backslash" /\ ~IsEscaped(word, i + 2)
      BY <1>1, <2>1, EscapedBy
    <3> QED
      BY <2>1, <3>1
  <2>4. st[a + i] = In(d, IF IsEscaped(word, i + 2) THEN a + i + 2 ELSE a + i + 1)
    BY <1>5
  <2>5. st[a + i + 1] = In(d, IF IsEscaped(word, i + 3) THEN a + i + 3 ELSE a + i + 2)
    <3>1. PICK b \in Nat : b = a + i + 1 /\ b + 1 = a + i + 2 /\ b + 2 = a + i + 3
      BY <2>1
    <3>2. CASE IsEscaped(word, i + 2)
      <4>1. st[b] = Turn(In(d, b + 1), b, word[i + 2])
        BY <2>2, <2>4, <3>1, <3>2
      <4>2. st[b] = In(d, b + 1)
        <5>1. b < b + 1
          OBVIOUS
        <5>2. PICK c : c = word[i + 2]
          OBVIOUS
        <5>3. Turn(In(d, b + 1), b, c) = In(d, b + 1)
          BY <5>1, TurnPassed
        <5> QED
          BY <4>1, <5>2, <5>3
      <4> QED
        BY <2>3, <3>1, <3>2, <4>2
    <3>3. CASE ~IsEscaped(word, i + 2)
      <4>1. word[i + 2] # "quote"
        BY <1>2, <2>1, <3>3
      <4>2. st[b] = Turn(In(d, b), b, word[i + 2])
        BY <2>2, <2>4, <3>1, <3>3
      <4> QED
        BY <2>3, <3>1, <3>3, <4>1, <4>2, TurnInside
    <3> QED
      BY <3>2, <3>3
  <2> QED
    BY <2>1, <2>5
<1>6. m - 2 \in Good
  <2>1. Good \in SUBSET Nat /\ m - 2 \in Nat
    BY <1>1
  <2> HIDE DEF Good
  <2> QED
    BY <1>4, <1>5, <2>1, StepByStep
<1>7. st[a + (m - 2)] = In(d, a + (m - 2) + 1)
  BY <1>1, <1>6
<1>8. st[a + (m - 1)] = Turn(In(d, a + m - 1), a + m - 1, "quote")
  BY <1>1, <1>3, <1>7
<1> QED
  BY <1>1, <1>8, TurnInside

\* Lists of values are passed, whatever strings and lists they hold.
Passed(states, array, k) ==
  \A a \in Lists(array)[k], d \in Nat \ {0} :
    states[a - 1] = At(d, a) => states[a + k - 1] = At(d, a + k)

LEMMA PartOf ==
  ASSUME NEW S, NEW s \in Seq(S), NEW a \in 1..Len(s), NEW b \in 1..Len(s), a <= b
  PROVE  Len(SubSeq(s, a, b)) = b - a + 1 /\ \A i \in 1..(b - a + 1) : SubSeq(s, a, b)[i] = s[a + i - 1]
OBVIOUS

LEMMA ListIsPassed ==
  ASSUME NEW S, NEW array \in Seq(S), NEW n \in Nat, Len(array) = n, NEW st, Runs(st, array, n),
         NEW k \in 0..n, \A j \in 0..(k - 1) : Passed(st, array, j)
  PROVE  Passed(st, array, k)
<1> SUFFICES ASSUME NEW a \in Lists(array)[k], NEW d \in Nat \ {0}, st[a - 1] = At(d, a)
             PROVE  st[a + k - 1] = At(d, a + k)
  BY DEF Passed
<1>1. Lists(array)[k] = ListsOf(array, Lists(array), k)
  BY ListsAre
<1>2. k \in Nat /\ k <= n /\ a \in Nat /\ a >= 1 /\ a <= n + 1 /\ d \in Nat /\ d >= 1
  <2>1. a \in 1..(n + 1)
    BY <1>1 DEF ListsOf
  <2> QED
    BY <2>1
<1>3. k # 0 =>
        /\ a + k - 1 <= n
        /\ \E m \in 1..k :
             /\ a + m \in Lists(array)[k - m]
             /\ \/ IsString(SubSeq(array, a, a + m - 1))
                \/ m >= 2 /\ a + 1 \in Lists(array)[m - 2] /\ array[a] \in Opening /\ array[a + m - 1] \in Closing
  BY <1>1 DEF ListsOf, Opening, Closing
<1>4. CASE k = 0
  BY <1>2, <1>4
<1>5. CASE k # 0
  <2>1. PICK m \in 1..k :
          /\ a + k - 1 <= n
          /\ a + m \in Lists(array)[k - m]
          /\ \/ IsString(SubSeq(array, a, a + m - 1))
             \/ /\ m >= 2 /\ a + 1 \in Lists(array)[m - 2]
                /\ array[a] \in Opening /\ array[a + m - 1] \in Closing
    BY <1>3, <1>5
  <2>2. m \in Nat /\ m >= 1 /\ m <= k /\ a + m - 1 <= n /\ a + m - 1 >= 1
    BY <1>2, <2>1
  <2>3. st[a + m - 1] = At(d, a + m)
    <3>1. CASE IsString(SubSeq(array, a, a + m - 1))
      <4>1. PICK word : word = SubSeq(array, a, a + m - 1)
        OBVIOUS
      <4>2. Len(word) = m /\ \A i \in 1..m : word[i] = array[a + i - 1]
        <5>1. a \in 1..n /\ a + m - 1 \in 1..n
          BY <1>2, <2>2
        <5>2. a + m - 1 >= a /\ (a + m - 1) - a + 1 = m
          BY <1>2, <2>2
        <5>3. PICK b : b = a + m - 1
          OBVIOUS
        <5> QED
          BY <4>1, <5>1, <5>2, <5>3, PartOf
      <4>3. m \in Nat /\ a \in Nat \ {0} /\ d \in Nat /\ a + m - 1 <= n
        BY <1>2, <2>2
      <4>4. IsString(word) /\ st[a - 1] = At(d, a)
        BY <3>1, <4>1
      <4> QED
        BY <4>2, <4>3, <4>4, StringIsPassed
    <3>2. CASE /\ m >= 2 /\ a + 1 \in Lists(array)[m - 2]
               /\ array[a] \in Opening /\ array[a + m - 1] \in Closing
      <4>1. array[a] \in Opening /\ array[a + m - 1] \in Closing
        BY <3>2
      <4>2. a \in Nat /\ d + 1 \in Nat \ {0} /\ m - 2 \in 0..(k - 1) /\ a \in 1..n /\ a + m - 1 \in 1..n
        BY <1>2, <2>2, <3>2
      <4>3. st[a] = At(d + 1, a + 1)
        <5>1. st[a] = Turn(At(d, a), a, array[a])
          BY <4>2 DEF Runs
        <5> QED
          BY <4>1, <4>2, <5>1, TurnOutside
      <4>4. st[a + m - 2] = At(d + 1, a + m - 1)
        <5>1. Passed(st, array, m - 2)
          BY <4>2
        <5>2. (a + 1) - 1 = a /\ (a + 1) + (m - 2) - 1 = a + m - 2 /\ (a + 1) + (m - 2) = a + m - 1
          BY <4>2
        <5> QED
          BY <3>2, <4>2, <4>3, <5>1, <5>2 DEF Passed
      <4>5. st[a + m - 1] = Turn(At(d + 1, a + m - 1), a + m - 1, array[a + m - 1])
        <5>1. (a + m - 1) - 1 = a + m - 2
          BY <4>2
        <5> QED
          BY <4>2, <4>4, <5>1 DEF Runs
      <4>6. d + 1 # 1 /\ (d + 1) - 1 = d /\ (a + m - 1) + 1 = a + m /\ a + m - 1 \in Nat
        BY <4>2
      <4> QED
        BY <4>1, <4>2, <4>5, <4>6, TurnOutside
    <3> QED
      BY <2>1, <3>1, <3>2
  <2>4. Passed(st, array, k - m) /\ (a + m) + (k - m) - 1 = a + k - 1 /\ (a + m) + (k - m) = a + k
    BY <1>2, <2>2
  <2> QED
    <3>1. PICK b : b = a + m
      OBVIOUS
    <3>2. st[b - 1] = At(d, b) /\ b \in Lists(array)[k - m] /\ d \in Nat \ {0}
      BY <1>2, <2>1, <2>2, <2>3, <3>1
    <3>3. st[b + (k - m) - 1] = At(d, b + (k - m))
      BY <2>4, <3>2 DEF Passed
    <3> QED
      BY <2>4, <3>1, <3>3
<1> QED
  BY <1>4, <1>5

LEMMA ListsArePassed ==
  ASSUME NEW S, NEW array \in Seq(S), NEW n \in Nat, Len(array) = n, NEW st, Runs(st, array, n),
         NEW k \in 0..n
  PROVE  Passed(st, array, k)
<1> DEFINE Good == {l \in Nat : \A j \in 0..l : j <= n => Passed(st, array, j)}
<1>1. 0 \in Good
  <2>1. 0 \in 0..n /\ \A j \in 0..(0 - 1) : FALSE
    OBVIOUS
  <2>2. Passed(st, array, 0)
    BY <2>1, ListIsPassed
  <2> QED
    BY <2>2
<1>2. ASSUME NEW l \in Nat, l < n, l \in Good PROVE l + 1 \in Good
  <2>1. l + 1 \in 0..n /\ \A j \in 0..((l + 1) - 1) : Passed(st, array, j)
    BY <1>2
  <2>2. Passed(st, array, l + 1)
    BY <2>1, ListIsPassed
  <2> QED
    BY <1>2, <2>2
<1>3. k \in Good
  <2>1. k \in Nat /\ \A l \in Nat : l < k => l < n
    OBVIOUS
  <2>2. Good \in SUBSET Nat
    OBVIOUS
  <2> HIDE DEF Good
  <2> QED
    BY <1>1, <1>2, <2>1, <2>2, StepByStep
<1> QED
  BY <1>3

\* The loop ends where the array does.
LEMMA ArrayIsClosed ==
  ASSUME NEW S, NEW array \in Seq(S), NEW n \in Nat, Len(array) = n, IsArray(array),
         NEW st, st[0] = At(0, 1), Runs(st, array, n)
  PROVE  st[n] = Closed(n)
<1>1. n >= 2 /\ array[1] = "[" /\ array[n] = "]" /\ 2 \in Lists(array)[n - 2]
  BY DEF IsArray
<1>2. st[1] = At(1, 2)
  <2>1. st[1] = Turn(At(0, 1), 1, "[")
    BY <1>1 DEF Runs
  <2>2. "[" \in Opening
    BY DEF Opening
  <2>3. Turn(At(0, 1), 1, "[") = At(0 + 1, 1 + 1)
    BY <2>2, TurnOutside
  <2> QED
    BY <2>1, <2>3
<1>3. st[n - 1] = At(1, n)
  <2>1. n - 2 \in 0..n /\ 2 - 1 = 1 /\ 2 + (n - 2) - 1 = n - 1 /\ 2 + (n - 2) = n /\ 1 \in Nat \ {0}
    BY <1>1
  <2>2. Passed(st, array, n - 2)
    BY <2>1, ListsArePassed
  <2> QED
    BY <1>1, <1>2, <2>1, <2>2 DEF Passed
<1>4. st[n] = Turn(At(1, n), n, "]")
  BY <1>1, <1>3 DEF Runs
<1>5. "]" \in Closing
  BY DEF Closing
<1> QED
  BY <1>4, <1>5, TurnOutside

LEMMA ArrayIsCutOut ==
  ASSUME NEW S, NEW text \in Seq(S), NEW n \in 1..Len(text), IsArray(SubSeq(text, 1, n))
  PROVE  readJsonArrayAfter(text) = SubSeq(text, 1, n)
<1>1. PICK array : array = SubSeq(text, 1, n)
  OBVIOUS
<1>2. array \in Seq(S) /\ Len(array) = n /\ \A i \in 1..n : array[i] = text[i]
  BY <1>1
<1>3. PICK m \in Nat : m = Len(text)
  OBVIOUS
<1>4. PICK st : st = Turns(text)
  OBVIOUS
<1>5. st = [i \in 0..m |-> IF i = 0 THEN At(0, 1) ELSE Turn(st[i - 1], i, text[i])]
  BY <1>3, <1>4, TurnsAre
<1>6. st[0] = At(0, 1) /\ \A i \in 1..m : st[i] = Turn(st[i - 1], i, text[i])
  BY <1>3, <1>5
<1>7. st[n] = Closed(n)
  <2>1. Runs(st, array, n)
    BY <1>2, <1>3, <1>6 DEF Runs
  <2>2. IsArray(array) /\ array \in Seq(S) /\ Len(array) = n /\ n \in Nat
    BY <1>1, <1>2
  <2> QED
    BY <1>6, <2>1, <2>2, ArrayIsClosed
<1>8. st[m] = Closed(n)
  <2> DEFINE Good == {j \in Nat : n + j <= m => st[n + j] = Closed(n)}
  <2>1. 0 \in Good
    BY <1>7
  <2>2. ASSUME NEW j \in Nat, j \in Good PROVE j + 1 \in Good
    <3>1. CASE n + (j + 1) <= m
      <4>1. st[n + j] = Closed(n) /\ st[n + (j + 1)] = Turn(Closed(n), n + (j + 1), text[n + (j + 1)])
        BY <1>6, <2>2, <3>1
      <4>2. Closed(n).end # 0
        BY DEF Closed
      <4> QED
        BY <4>1, <4>2, TurnAfter
    <3> QED
      BY <3>1
  <2>3. m - n \in Good
    <3>1. m - n \in Nat /\ Good \in SUBSET Nat
      BY <1>3
    <3> HIDE DEF Good
    <3> QED
      BY <2>1, <2>2, <3>1, StepByStep
  <2> QED
    BY <1>3, <2>3
<1>9. text # <<>> /\ text[1] = "["
  BY <1>1, <1>2 DEF IsArray
<1>10. readJsonArrayAfter(text) = SubSeq(text, 1, st[m].end)
  BY <1>3, <1>4, <1>9 DEF readJsonArrayAfter
<1> QED
  BY <1>8, <1>10 DEF Closed

LEMMA EndedText ==
  ASSUME SourceInv, NEW phase, NEW drafts, job' = Ended(phase, drafts) PROVE job'.text = job.text
BY DEF SourceInv, NoJob, Ended

\* What follows the key comes with the page.
LEMMA TextInv == job.text \in Seq(Character) /\ SourceInv /\ SourceNext => job'.text \in Seq(Character)
<1> SUFFICES ASSUME SourceInv, job.text \in Seq(Character), SourceNext PROVE job'.text \in Seq(Character)
  OBVIOUS
<1>1. Text \subseteq Seq(Character) /\ <<>> \in Seq(Character)
  BY SourceAssumption
<1>2. ASSUME NEW source, Begin(source) PROVE job'.text \in Seq(Character)
  <2>1. PICK text \in Text \cup {<<>>}, itemList \in BOOLEAN, endless \in BOOLEAN :
          job' = [NoJob EXCEPT !.source = source, !.phase = "fetching", !.text = text,
                    !.pending = [k \in {First(source)} |-> 1],
                    !.itemList = itemList, !.endless = endless]
    BY <1>2 DEF Begin
  <2>2. job'.text = text
    BY <2>1 DEF NoJob
  <2> QED
    BY <1>1, <2>2
<1>3. CASE AnswerSingle
  BY <1>3, EndedText DEF AnswerSingle, parseStarHistoryHome, parseTrendshiftPage
<1>4. CASE AnswerToken
  BY <1>4 DEF AnswerToken, SourceInv, NoJob
<1>5. CASE AnswerIds
  BY <1>5, EndedText DEF AnswerIds, SourceInv, NoJob
<1>6. ASSUME NEW k, AnswerPage(k) PROVE job'.text = job.text
  BY <1>6, EndedText DEF AnswerPage, SourceInv, NoJob
<1>7. ASSUME NEW k, AnswerItem(k) PROVE job'.text = job.text
  BY <1>7, EndedText DEF AnswerItem, SourceInv, NoJob
<1>8. ASSUME NEW k, Repeat(k) PROVE job'.text = job.text
  BY <1>8 DEF Repeat, SourceInv, NoJob
<1>9. ASSUME NEW k, Refuse(k) PROVE job'.text = job.text
  BY <1>9, EndedText DEF Refuse
<1>10. ASSUME Relist PROVE job'.text = job.text
  BY <1>10 DEF Relist, SourceInv, NoJob
<1> QED
  BY <1>2, <1>3, <1>4, <1>5, <1>6, <1>7, <1>8, <1>9, <1>10 DEF SourceNext

(***************************************************************************)
(* The theorems.                                                           *)
(***************************************************************************)
Inv == SourceInv /\ PageInv

LEMMA InvHolds == Spec => []Inv
<1>1. Init => Inv
  BY SourceInvInit, PageInvInit DEF Init, Inv
<1>2. Inv /\ [Next]_vars => Inv'
  <2> SUFFICES ASSUME Inv, [Next]_vars PROVE Inv'
    OBVIOUS
  <2>1. CASE SourceNext /\ UNCHANGED pageVars
    BY <2>1, SourceInvNext, PageInvStutters DEF Inv
  <2>2. CASE PageNext /\ UNCHANGED sourceVars
    BY <2>2, PageInvNext, SourceInvStutters DEF Inv
  <2>3. CASE UNCHANGED vars
    <3>1. UNCHANGED sourceVars /\ UNCHANGED pageVars
      BY <2>3 DEF vars
    <3> QED
      BY <3>1, PageInvStutters, SourceInvStutters DEF Inv
  <2> QED
    BY <2>1, <2>2, <2>3 DEF Next
<1> QED
  BY <1>1, <1>2, PTL DEF Spec

\* OriginalPage: wherever an original page redirects and whatever a name is found to be,
\* the service connects to public addresses only, or to its proxy where there is one.
THEOREM OnlyPublic == Spec => []OnlyPublicIsReached
<1>1. Inv => OnlyPublicIsReached
  BY DEF Inv, PageInv
<1> QED
  BY <1>1, InvHolds, PTL

\* OutboundHttp: however often a source fails in passing, says that there is more or changes
\* its list, a handler's fetch ends within (1 + Retries) * (1 + pages or items) requests;
\* and reading an original page stays within its time, redirects and size.
THEOREM FetchesEnd == Spec => []FetchesAreBounded
<1>1. Inv => RequestsAreBounded
  BY DEF Inv, SourceInv
<1>2. Inv => PageFetchIsBounded
  BY PageBounds DEF Inv, PageInv, Page, PageFetchIsBounded
<1>3. Inv => FetchesAreBounded
  BY <1>1, <1>2 DEF FetchesAreBounded
<1> QED
  BY <1>3, InvHolds, PTL

\* The instant is one of those given.
LEMMA InstantIs == Spec => [](now \in Nat)
<1>1. Init => now \in Nat
  BY SourceAssumption DEF Init, SourceInit
<1>2. now \in Nat /\ [Next]_vars => (now \in Nat)'
  <2> SUFFICES ASSUME now \in Nat, [Next]_vars PROVE now' = now
    OBVIOUS
  <2>1. CASE SourceNext
    BY <2>1 DEF SourceNext, surroundings, Begin, AnswerSingle, AnswerToken, AnswerIds, AnswerPage,
       AnswerItem, Repeat, Refuse, Relist
  <2>2. CASE UNCHANGED sourceVars
    BY <2>2 DEF sourceVars
  <2>3. CASE UNCHANGED vars
    BY <2>3 DEF vars, sourceVars
  <2> QED
    BY <2>1, <2>2, <2>3 DEF Next
<1> QED
  BY <1>1, <1>2, PTL DEF Spec

\* SourcePeriods: at every hour from 1970 on (to 2099, as far as the calendar is right) the
\* week, month or day a source is asked for is the one meant, around the new year too; and
\* a deadline written without its year is read as the date meant, 29 February included.
THEOREM DatesAreMeant == Spec => []DatesAreRight
<1>1. now \in Nat => DatesAreRight
  BY PeriodsHold, DeadlineHolds DEF DatesAreRight
<1> QED
  BY <1>1, InstantIs, PTL

\* SourceFetch: whatever list it finds at each request - published to, withdrawn from or
\* ranked anew - and whatever fails in passing or comes late, a fetch that returns has every
\* readable item that kept within its reach and was never carried from the rows still to be
\* read to those read already, in the order of those that kept it.
LEMMA ListsAreWhole == Spec => []ListIsWhole
<1>1. Init => WholeInv
  BY WholeInit DEF Init
<1>2. Inv /\ WholeInv /\ [Next]_vars => WholeInv'
  <2> SUFFICES ASSUME Inv, WholeInv, [Next]_vars PROVE WholeInv'
    OBVIOUS
  <2>1. CASE SourceNext
    BY <2>1, WholeNext DEF Inv
  <2>2. CASE UNCHANGED sourceVars
    BY <2>2, WholeStutters
  <2>3. CASE UNCHANGED vars
    <3>1. UNCHANGED sourceVars
      BY <2>3 DEF vars
    <3> QED
      BY <3>1, WholeStutters
  <2> QED
    BY <2>1, <2>2, <2>3 DEF Next
<1>3. WholeInv => ListIsWhole
  BY DEF WholeInv
<1> QED
  BY <1>1, <1>2, <1>3, InvHolds, PTL DEF Spec

\* Trendshift's array is cut out as it was written, whatever its strings hold.
LEMMA ArraysAreRead == Spec => []ArrayIsRead
<1>1. Init => job.text \in Seq(Character)
  BY DEF Init, SourceInit, NoJob
<1>2. Inv /\ job.text \in Seq(Character) /\ [Next]_vars => (job.text \in Seq(Character))'
  <2> SUFFICES ASSUME Inv, job.text \in Seq(Character), [Next]_vars PROVE job'.text \in Seq(Character)
    OBVIOUS
  <2>1. CASE SourceNext
    BY <2>1, TextInv DEF Inv
  <2>2. CASE UNCHANGED sourceVars
    BY <2>2 DEF sourceVars
  <2>3. CASE UNCHANGED vars
    BY <2>3 DEF vars, sourceVars
  <2> QED
    BY <2>1, <2>2, <2>3 DEF Next
<1>3. job.text \in Seq(Character) => ArrayIsRead
  <2> SUFFICES ASSUME job.text \in Seq(Character), NEW n \in DOMAIN job.text, IsArray(SubSeq(job.text, 1, n))
               PROVE  readJsonArrayAfter(job.text) = SubSeq(job.text, 1, n)
    BY DEF ArrayIsRead
  <2>1. n \in 1..Len(job.text)
    OBVIOUS
  <2> QED
    BY <2>1, ArrayIsCutOut
<1> QED
  BY <1>1, <1>2, <1>3, InvHolds, PTL DEF Spec

\* OutboundHttp: what a fetch returns of a list that changes has every readable item that
\* kept within its reach, but for those carried up across the end of the last page read,
\* which are missed; and Trendshift's array is cut out of its text whole.
THEOREM WholeIsRead == Spec => []WhatIsReadIsWhole
<1>1. ListIsWhole /\ ArrayIsRead => WhatIsReadIsWhole
  BY DEF WhatIsReadIsWhole
<1> QED
  BY <1>1, ListsAreWhole, ArraysAreRead, PTL
=============================================================================
