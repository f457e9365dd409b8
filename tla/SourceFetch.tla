---------------------------- MODULE SourceFetch ----------------------------
(***************************************************************************)
(* A handler at work (collector/handlers, collector/http-client.ts): it    *)
(* asks a source for one page, for page after page, or for many items at   *)
(* once, while the source's list is published to, withdrawn from and       *)
(* ranked anew; the client repeats requests that fail in passing.  What    *)
(* the core does with the drafts is EntryStore's.                          *)
(***************************************************************************)
EXTENDS SourcePeriods, SourcePage, Picking, SequencesExt

CONSTANTS
  Source,       \* handlers
  Item,         \* what sources list
  RowOf,        \* what a source gives of an item
  Listings,     \* bound: what a source's list may be
  FirstListings, \* bound: what it may be at first
  PageSize,     \* items on a page
  MaxPages,     \* pages a handler asks for at most
  Limit,        \* the rank limit, or a handler's own default
  Retries,      \* how often the client repeats a request
  Instants,     \* instants, in hours
  FetchAt,      \* bound: the instant at which fetches are followed
  Ahead,        \* bound: how many days off deadlines are
  Text,         \* bound: what may follow Trendshift's key
  MaxChanges    \* bound: changes of the list during a fetch

Paged == {"wanted", "hellogithub", "producthunt"}

ASSUME SourceAssumption ==
  /\ Item \subseteq Nat \ {0} /\ RowOf \in [Item -> Row]
  /\ FirstListings \subseteq Listings /\ Listings \subseteq Seq(Item)
  /\ \A list \in Listings : IsInjective(list)
  /\ {PageSize, MaxPages, Limit} \subseteq Nat \ {0} /\ {Retries, MaxChanges} \subseteq Nat /\ Text \subseteq Seq(Character)
  /\ FetchAt \in Instants /\ Instants \subseteq Nat
  /\ Ahead \subseteq Int

VARIABLES
  now,      \* the instant
  site,     \* the source's list
  job,      \* the fetch
  \* History, read by properties only.
  steady,   \* items always within reach that never came from below the read rows to above
  over,     \* pairs of items, the first of which was always above the second
  changes,  \* of the list (for MaxChanges)
  sent      \* requests sent by the fetch

sourceVars == <<now, site, job, steady, over, changes, sent>>

\* Requests: 0 for a token or a list of ids, otherwise a page or the place of an item.
First(source) == IF source \in {"producthunt", "hackernews"} THEN 0 ELSE 1

\* `pending` says how often each request on its way was sent; `drafts` are the items so
\* far, `read` the rows of the list above the next page, `ids` what Hacker News listed,
\* `text` what follows Trendshift's key.
NoJob == [source |-> "none", phase |-> "idle", pending |-> <<>>, drafts |-> <<>>, read |-> 0,
          ids |-> <<>>, text |-> <<>>, itemList |-> FALSE, endless |-> FALSE]

SourceInit ==
  /\ now \in Instants
  /\ site \in IF now = FetchAt THEN FirstListings ELSE {<<>>}
  /\ job = NoJob /\ steady = {} /\ over = {} /\ changes = 0 /\ sent = 0

\* The pairs of a list, the upper item first.
Above(list) ==
  {pair \in ToSet(list) \X ToSet(list) :
     \E p, q \in DOMAIN list : p < q /\ list[p] = pair[1] /\ list[q] = pair[2]}

PagesLeft(k) == IF k = 0 THEN MaxPages ELSE MaxPages + 1 - k

\* The fetch j gets as far as the p-th row of the list, if it stays as it is.
InReach(j, p) ==
  CASE j.source = "wanted" -> p <= MaxPages * PageSize
    [] j.source = "hellogithub" -> p <= Limit
    [] j.source = "producthunt" ->
         /\ p - j.read <= Limit - Len(j.drafts)
         /\ \A k \in DOMAIN j.pending : p - j.read <= PagesLeft(k) * PageSize
    [] j.source = "hackernews" -> j.ids # <<>> \/ p <= Limit
    [] OTHER -> TRUE

\* fetchEntries is called.  The surroundings: what Trendshift's page holds, and a
\* source that says for ever that there is more.
Begin(source) ==
  /\ job = NoJob /\ now = FetchAt
  /\ \E text \in IF source = "trendshift" THEN Text ELSE {<<>>},
        itemList \in IF source = "trendshift" THEN BOOLEAN ELSE {FALSE},
        endless \in IF source \in Paged THEN BOOLEAN ELSE {FALSE} :
       job' = [NoJob EXCEPT !.source = source, !.phase = "fetching", !.text = text,
                 !.pending = [k \in {First(source)} |-> 1],
                 !.itemList = itemList, !.endless = endless]
  /\ steady' = {site[p] : p \in {p \in DOMAIN site : InReach(job', p)}}
  /\ over' = Above(site)
  /\ sent' = 1
  /\ UNCHANGED <<now, site, changes>>

Fetching(k) == job.phase = "fetching" /\ k \in DOMAIN job.pending
Ended(phase, drafts) == [job EXCEPT !.phase = phase, !.pending = <<>>, !.drafts = drafts]
surroundings == <<now, site, steady, over, changes>>

Rows(items) == [i \in DOMAIN items |-> RowOf[items[i]]]
KeptItems(items) == Picked(items, {n \in DOMAIN items : Kept(job.source, RowOf[items[n]])})
Upto(items, n) == SubSeq(items, 1, IF n < Len(items) THEN n ELSE Len(items))

\* ------------------------------------------------------------ one page and its rows
parseStarHistoryHome ==
  IF ReadableStarHistory(Rows(site)) THEN Ended("returned", site) ELSE Ended("failed", <<>>)

\* The array in the text, else the list kept for search engines.
parseTrendshiftPage ==
  IF \/ IsArray(readJsonArrayAfter(job.text)) /\ ReadableTrendshift(Rows(site))
     \/ job.itemList
  THEN Ended("returned", site) ELSE Ended("failed", <<>>)

AnswerSingle ==
  /\ Fetching(1) /\ job.source \notin Paged \cup {"hackernews"}
  /\ job' = CASE job.source = "starhistory" -> parseStarHistoryHome
              [] job.source = "trendshift" -> parseTrendshiftPage
              [] OTHER -> Ended("returned", KeptItems(site))
  /\ UNCHANGED <<surroundings, sent>>

\* ------------------------------------------------------------------ page after page
Below == SubSeq(site, job.read + 1, Len(site))

\* Product Hunt goes on where its cursor is, the others at a number of rows.
NextRow(k, page) == IF job.source = "producthunt" THEN job.read + Len(page) ELSE k * PageSize

\* A number of pages, or as many as the rank limit needs.
EnoughPages(k, drafts) ==
  CASE job.source = "wanted" -> k = MaxPages
    [] job.source = "hellogithub" -> k * PageSize >= Limit
    [] job.source = "producthunt" -> k = MaxPages \/ Len(drafts) >= Limit

\* Mutant: a page that brings something known is taken for the last.
IsLast_Known(k, page, drafts) ==
  \/ EnoughPages(k, drafts) \/ ToSet(page) \cap ToSet(job.drafts) # {}
  \/ ~job.endless /\ Len(Below) <= PageSize

IsLast(k, page, drafts) ==
  \/ EnoughPages(k, drafts)
  \/ ~job.endless /\ Len(Below) <= PageSize

\* Wanted keeps an item once; Product Hunt cuts the last page to the limit.
Collected(page) ==
  job.drafts \o IF job.source = "wanted"
                THEN Picked(page, {n \in DOMAIN page : page[n] \notin ToSet(job.drafts)}) ELSE page
Returned(drafts) == KeptItems(IF job.source = "producthunt" THEN Upto(drafts, Limit) ELSE drafts)

AnswerPage(k) ==
  /\ Fetching(k) /\ k > 0 /\ job.source \in Paged
  /\ LET page == Upto(Below, PageSize)
         drafts == Collected(page)
     IN IF IsLast(k, page, drafts)
        THEN job' = Ended("returned", Returned(drafts)) /\ UNCHANGED sent
        ELSE /\ job' = [job EXCEPT !.drafts = drafts, !.pending = [n \in {k + 1} |-> 1],
                                   !.read = NextRow(k, page)]
             /\ sent' = sent + 1
  /\ UNCHANGED surroundings

AnswerToken ==
  /\ Fetching(0) /\ job.source = "producthunt"
  /\ job' = [job EXCEPT !.pending = [n \in {1} |-> 1]]
  /\ sent' = sent + 1
  /\ UNCHANGED surroundings

\* ---------------------------------------------------------------- all items at once
\* Mutant: all that are listed are asked for.
AnswerIds_All ==
  /\ Fetching(0) /\ job.source = "hackernews"
  /\ job' = IF site = <<>> THEN Ended("returned", <<>>)
            ELSE [job EXCEPT !.ids = site, !.pending = [k \in DOMAIN site |-> 1]]
  /\ sent' = sent + Len(site)
  /\ UNCHANGED surroundings

AnswerIds ==
  /\ Fetching(0) /\ job.source = "hackernews"
  /\ LET ids == Upto(site, Limit)
     IN /\ job' = IF ids = <<>> THEN Ended("returned", <<>>)
                  ELSE [job EXCEPT !.ids = ids, !.pending = [k \in DOMAIN ids |-> 1]]
        /\ sent' = sent + Len(ids)
  /\ UNCHANGED surroundings

InOrder(arrived) == Picked(job.ids, {n \in DOMAIN job.ids : job.ids[n] \in ToSet(arrived)})

\* An item that has left the list may be gone: the answer is null.
AnswerItem(k) ==
  /\ Fetching(k) /\ k > 0 /\ job.source = "hackernews"
  /\ \E gone \in IF job.ids[k] \in ToSet(site) THEN {FALSE} ELSE BOOLEAN :
     LET arrived == IF gone THEN job.drafts ELSE Append(job.drafts, job.ids[k])
         left == DOMAIN job.pending \ {k}
     IN job' = IF left = {} THEN Ended("returned", KeptItems(InOrder(arrived)))
               ELSE [job EXCEPT !.drafts = arrived, !.pending = [n \in left |-> job.pending[n]]]
  /\ UNCHANGED <<surroundings, sent>>

\* ----------------------------------------------------------------------- the client
\* No connection, no answer in 10 seconds, 408, 425, 429 or 5xx: sent again.
Repeat(k) ==
  /\ Fetching(k) /\ job.pending[k] <= Retries
  /\ job' = [job EXCEPT !.pending[k] = @ + 1]
  /\ sent' = sent + 1
  /\ UNCHANGED surroundings

\* Another status, an answer that cannot be read, or a failure after the repetitions.
Refuse(k) ==
  /\ Fetching(k)
  /\ job' = Ended("failed", <<>>)
  /\ UNCHANGED <<surroundings, sent>>

\* ----------------------------------------------------------------------- the source
\* Whatever was published, withdrawn or ranked anew meanwhile; where Product Hunt's cursor
\* is then in the list is its own affair.
Relist ==
  /\ job.phase = "fetching" /\ job.source \in Paged \cup {"hackernews"}
  /\ changes < MaxChanges /\ changes' = changes + 1
  /\ \E list \in Listings :
     \E row \in IF job.source = "producthunt" /\ DOMAIN job.pending \cap {0, 1} = {}
               THEN 0..Len(list) ELSE {job.read} :
       /\ site' = list
       /\ job' = [job EXCEPT !.read = row]
       /\ steady' = {i \in steady :
            \E q \in DOMAIN site, p \in DOMAIN list :
              site[q] = i /\ list[p] = i /\ InReach(job', p) /\ (q > job.read => p > row)}
       /\ over' = over \cap Above(list)
  /\ UNCHANGED <<now, sent>>

SourceNext ==
  \/ \E source \in Source : Begin(source)
  \/ AnswerSingle \/ AnswerToken \/ AnswerIds
  \/ \E k \in DOMAIN job.pending : AnswerPage(k) \/ AnswerItem(k) \/ Repeat(k) \/ Refuse(k)
  \/ Relist

\* --------------------------------------------------------------------- properties
\* However often a list changes while it is read, failed requests and the order of
\* answers, a fetch that returns has every readable item that kept within its reach and was
\* never carried from the rows still to be read to those read already, below every such
\* item that was above it all the time.  An item that is carried up across the end of the
\* last page is missed: Wanted and HelloGitHub go on at a number of rows, so one that is
\* withdrawn from a page already read costs the first of the next page, and ranking anew
\* costs what rises; Product Hunt may put its cursor anywhere.
ListIsWhole ==
  job.phase = "returned" =>
    LET due == {i \in steady : Kept(job.source, RowOf[i])} IN
    /\ due \subseteq ToSet(job.drafts)
    /\ \A pair \in over \cap (due \X due) : \A n \in DOMAIN job.drafts :
         job.drafts[n] = pair[2] => \E m \in 1..n - 1 : job.drafts[m] = pair[1]

\* No source, whatever it says, keeps a handler asking for ever.
RequestsAreBounded ==
  sent <= (1 + Retries) * (1 + IF job.source = "hackernews" \/ Limit > MaxPages THEN Limit ELSE MaxPages)

\* A source that is asked for a period that is over is asked for the last such week or
\* month, also around the new year; one that is asked for the current period, for the one
\* its own days, which begin at 07:00 UTC, are in.
PeriodsAreRight ==
  LET day == DayOf(now) IN
  /\ makePreviousPeriodKey("week", now) = IsoWeek(Monday(day) - 1)
  /\ makePreviousPeriodKey("month", now) = SubSeq(Civil(day - DateOf(day)), 1, 2)
  /\ makePreviousWeekMonday(now) = Monday(Monday(day) - 1)
  /\ \A period \in {"weekly", "monthly", "yearly"} :
       LET start == periodStart(period, now)
       IN /\ Begins(period, start) /\ start <= now
          /\ \A n \in 1..((now - start) \div 24) : ~Begins(period, start + 24 * n)

\* A deadline written without its year is read as the date meant, from a month ago (of
\* the same year) to eleven months ahead.
DeadlineIsRead ==
  LET today == DayOf(now + 9) IN
  \A day \in {today + n : n \in Ahead \cap -30..330} :
    day >= today \/ Year(day) = Year(today) =>
      parseDeadline(Month(day), DateOf(day), now) = Civil(day)

\* An array that follows the key is cut out whole, whatever its strings hold and whatever
\* text comes behind it.
ArrayIsRead ==
  \A n \in DOMAIN job.text :
    LET array == SubSeq(job.text, 1, n) IN IsArray(array) => readJsonArrayAfter(job.text) = array
=============================================================================
