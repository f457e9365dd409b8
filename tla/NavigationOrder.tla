--------------------------- MODULE NavigationOrder ---------------------------
(***************************************************************************)
(* The order of the sidebar's rows (ADR-0016): one stored order shared by  *)
(* all devices, read and replaced as a whole by several pages              *)
(* (server/feed-navigation-routes.ts, web/use-feed-navigation-order.ts,    *)
(* web/feed-group.ts), while releases and the collector change the feeds.  *)
(*                                                                         *)
(* A client is one loaded page; a page that is loaded again is another     *)
(* client, and the old one just stops acting.  Requests are sent, served   *)
(* in the statements the route runs, and answered in any order; a client   *)
(* may give one up that the server still carries out.                      *)
(***************************************************************************)
EXTENDS Picking, SequencesExt

CONSTANTS
  Client,
  Releases,   \* the releases of the program, by number
  NoOrder,    \* `undefined` for an order
  Nobody,     \* not a client
  MaxSends    \* bound: moves and retries, all clients together

Section == {"stream", "ranked"}

\* What is declared: the feeds in order, and the groups.  A feed in no group has
\* group "".
Definition == [id: STRING, kind: Section, group: STRING]
Release == [feeds: Seq(Definition), groups: SUBSET STRING]

\* Rows of the sidebar, and an order of them.
Item == [kind: {"feed", "group"}, id: STRING]
Order == [Section -> Seq(Item)]

\* feed-definitions.test.ts: groups are declared, and their feeds are of one kind.
WellFormed(declared) ==
  /\ "" \notin declared.groups
  /\ \A i, j \in DOMAIN declared.feeds :
       LET d == declared.feeds[i]
           e == declared.feeds[j]
       IN /\ d.group = "" \/ d.group \in declared.groups
          /\ i # j => d.id # e.id
          /\ d.group # "" /\ d.group = e.group => d.kind = e.kind

ASSUME OrderAssumption ==
  /\ Releases \in Seq(Release) /\ Releases # <<>>
  /\ \A n \in DOMAIN Releases : WellFormed(Releases[n])
  /\ NoOrder \notin Order /\ Nobody \notin Client /\ MaxSends \in Nat

VARIABLES
  \* The server.
  release,      \* the release that runs
  registered,   \* ids with a row in table feed
  stored,       \* the row of feed_navigation_order
  \* The clients.
  lists,        \* lists[c]: the feeds and groups the app shell has loaded
  shell,        \* shell[c]: groupsReady, groupListFailed, and a group list on its way
  nav,          \* nav[c]: the state and the refs of useFeedNavigationOrder
  requests,     \* requests and answers on their way (equal ones count as one)
  sends,        \* moves and retries so far (for MaxSends)
  \* History, read by properties only.
  storedEver,   \* the contents the row has had
  declaredEver, \* the declared orders there have been
  writer,       \* the client whose save the row is from
  late,         \* it had given that save up before it was written
  crossed       \* crossed[c]: c sent a save while a reload was on its way

server == <<release, registered, stored>>
client == <<lists, shell, nav>>
history == <<storedEver, declaredEver, writer, late, crossed>>
orderVars == <<server, client, requests, sends, history>>

MaybeOrder == Order \cup {NoOrder}
Lists == [feeds: Seq(Definition), groups: SUBSET STRING]
NoLists == [feeds |-> <<>>, groups |-> {}]

\* A save that failed for another reason than a 409, kept for the retry, with
\* the lists it was made from (which no code reads).
Save == [body: MaybeOrder, seen: Lists]
NoSave == [body |-> NoOrder, seen |-> NoLists]

\* `previous` is the lastSavedRef captured by a save.
Request ==
  [client: Client, kind: {"get", "put"}, save: Save, previous: MaybeOrder,
   stage: {"sent", "read", "answered", "refused"}, waiting: BOOLEAN,
   declared: MaybeOrder, answer: MaybeOrder]

TypeOK ==
  /\ release \in DOMAIN Releases
  /\ registered \subseteq STRING
  /\ stored \in MaybeOrder
  /\ lists \in [Client -> Lists]
  /\ shell \in [Client -> [ready: BOOLEAN, failed: BOOLEAN, asked: BOOLEAN]]
  /\ nav \in [Client -> [order: MaybeOrder, lastSaved: MaybeOrder, retryOrder: Save,
                         saving: BOOLEAN, failed: BOOLEAN]]
  /\ requests \subseteq Request
  /\ sends \in Nat
  /\ \A c \in Client : nav[c].saving <=>
       \E r \in requests : r.client = c /\ r.kind = "put" /\ r.waiting

(***************************************************************************)
(* Rows.                                                                   *)
(***************************************************************************)
\* Where the members of s come first.
FirstOnes(s) == {i \in DOMAIN s : \A j \in 1..(i - 1) : s[j] # s[i]}

\* A feed of a known group is shown by its group's row.
ItemOf(d, groups) ==
  IF d.group \in groups THEN [kind |-> "group", id |-> d.group]
                        ELSE [kind |-> "feed", id |-> d.id]

RowsOf(feeds, groups) == [i \in DOMAIN feeds |-> ItemOf(feeds[i], groups)]

\* GET /api/feeds and /api/feed-groups: declared feeds with a row.
ListsOf(number, ids) ==
  LET declared == Releases[number].feeds
  IN [feeds |-> Picked(declared, {i \in DOMAIN declared : declared[i].id \in ids}),
      groups |-> Releases[number].groups]

CurrentLists == ListsOf(release, registered)

\* The rows of the feeds of one section.
SectionRows(l, s) ==
  RowsOf(Picked(l.feeds, {i \in DOMAIN l.feeds : l.feeds[i].kind = s}), l.groups)

\* loadDeclaredOrder: in each section the rows of its feeds, once each.
DeclaredOrder(l) == [s \in Section |-> Picked(SectionRows(l, s), FirstOnes(SectionRows(l, s)))]

\* Mutant: each feed of a group has a row of its own in the sidebar.
SidebarRows_Ungrouped(l) == [s \in Section |-> SectionRows([l EXCEPT !.groups = {}], s)]

\* buildSidebarSections, first half: a row is where its first feed is, whatever
\* the kinds of the later ones.
SidebarRows(l) ==
  LET rows == RowsOf(l.feeds, l.groups)
  IN [s \in Section |-> Picked(rows, {i \in FirstOnes(rows) : l.feeds[i].kind = s})]

Known(saved, rows) == Picked(saved, {i \in FirstOnes(saved) : Contains(rows, saved[i])})
Unknown(saved, rows) == Picked(rows, {i \in DOMAIN rows : ~Contains(saved, rows[i])})

\* Mutant: rows the saved order does not know are forgotten.
reconcileItems_NoNewRows(saved, rows) == Known(saved, rows)

\* reconcileItems, and the second half of buildSidebarSections.
reconcileItems(saved, rows) == Known(saved, rows) \o Unknown(saved, rows)

Reconciled(order, rows) ==
  IF order = NoOrder THEN rows
  ELSE [s \in Section |-> reconcileItems(order[s], rows[s])]

\* What client c shows.
Sidebar(c) == Reconciled(nav[c].order, SidebarRows(lists[c]))

(***************************************************************************)
(* The server.                                                             *)
(***************************************************************************)
\* The container is replaced: no request lives through it.
Deploy ==
  /\ release < Len(Releases)
  /\ \A r \in requests : r.stage # "read"
  /\ release' = release + 1
  /\ declaredEver' = declaredEver \cup {DeclaredOrder(ListsOf(release + 1, registered))}
  /\ UNCHANGED <<registered, stored, client, requests, sends, storedEver, writer, late, crossed>>

\* The collector's insertMissingFeeds; the rows of earlier releases stay.
Register ==
  LET ids == registered \cup {d.id : d \in ToSet(Releases[release].feeds)} IN
  /\ ids # registered /\ registered' = ids
  /\ declaredEver' = declaredEver \cup {DeclaredOrder(ListsOf(release, ids))}
  /\ UNCHANGED <<release, stored, client, requests, sends, storedEver, writer, late, crossed>>

\* A request goes on, unless it has come to its end and nobody waits for it.
Becomes(r, q) ==
  requests' = (requests \ {r}) \cup
                {p \in {q} : p.waiting \/ (p.kind = "put" /\ p.stage \in {"sent", "read"})}

\* The PUT's check: each section names each declared row once.
IsPermutation(order, declared) ==
  \A s \in Section :
    /\ Len(order[s]) = Len(declared[s])
    /\ ToSet(order[s]) = ToSet(declared[s])

\* Both routes start with loadDeclaredOrder; the PUT then checks its body.
ReadDeclared(r) ==
  LET declared == DeclaredOrder(CurrentLists) IN
  /\ r \in requests /\ r.stage = "sent"
  /\ Becomes(r, IF r.kind = "put" /\ ~IsPermutation(r.save.body, declared)
                THEN [r EXCEPT !.stage = "refused"]
                ELSE [r EXCEPT !.stage = "read", !.declared = declared])
  /\ UNCHANGED <<server, client, sends, history>>

\* The second statement of the GET.
ReadStored(r) ==
  /\ r \in requests /\ r.stage = "read" /\ r.kind = "get"
  /\ Becomes(r, [r EXCEPT !.stage = "answered", !.declared = NoOrder,
                          !.answer = Reconciled(stored, r.declared)])
  /\ UNCHANGED <<server, client, sends, history>>

\* Mutant: a row that is already there is not replaced.
WriteStored_InsertOnly(r) ==
  /\ r \in requests /\ r.stage = "read" /\ r.kind = "put"
  /\ stored' = IF stored = NoOrder THEN r.save.body ELSE stored
  /\ writer' = r.client /\ late' = ~r.waiting
  /\ Becomes(r, [r EXCEPT !.stage = "answered", !.declared = NoOrder, !.answer = r.save.body])
  /\ storedEver' = storedEver \cup {stored'}
  /\ UNCHANGED <<release, registered, client, sends, declaredEver, crossed>>

\* The upsert of the PUT.
WriteStored(r) ==
  /\ r \in requests /\ r.stage = "read" /\ r.kind = "put"
  /\ stored' = r.save.body
  /\ writer' = r.client /\ late' = ~r.waiting
  /\ Becomes(r, [r EXCEPT !.stage = "answered", !.declared = NoOrder, !.answer = r.save.body])
  /\ storedEver' = storedEver \cup {stored'}
  /\ UNCHANGED <<release, registered, client, sends, declaredEver, crossed>>

\* A save the client has given up does not get through.
Vanish(r) ==
  /\ r \in requests /\ ~r.waiting
  /\ requests' = requests \ {r}
  /\ UNCHANGED <<server, client, sends, history>>

(***************************************************************************)
(* The page: the app shell's lists.                                        *)
(***************************************************************************)
\* Every minute, after reading and on a retry.
LoadFeeds(c) ==
  /\ lists' = [lists EXCEPT ![c].feeds = CurrentLists.feeds]
  /\ UNCHANGED <<server, shell, nav, requests, sends, history>>

\* Asked for once, and again on a retry.
LoadGroups(c) ==
  /\ shell[c].asked
  /\ lists' = [lists EXCEPT ![c].groups = CurrentLists.groups]
  /\ shell' = [shell EXCEPT ![c] = [ready |-> TRUE, failed |-> FALSE, asked |-> FALSE]]
  /\ UNCHANGED <<server, nav, requests, sends, history>>

FailGroups(c) ==
  /\ shell[c].asked
  /\ shell' = [shell EXCEPT ![c].failed = TRUE, ![c].asked = FALSE]
  /\ UNCHANGED <<server, lists, nav, requests, sends, history>>

(***************************************************************************)
(* The page: useFeedNavigationOrder.                                       *)
(***************************************************************************)
NewGet(c) ==
  [client |-> c, kind |-> "get", save |-> NoSave, previous |-> NoOrder, stage |-> "sent",
   waiting |-> TRUE, declared |-> NoOrder, answer |-> NoOrder]

NewPut(c, save) ==
  [NewGet(c) EXCEPT !.kind = "put", !.save = save, !.previous = nav[c].lastSaved]

WaitsFor(c, kind) == \E r \in requests : r.client = c /\ r.kind = kind /\ r.waiting

\* Both do nothing while a save is on its way (savingRef).
reload(c) ==
  IF nav[c].saving THEN UNCHANGED <<nav, requests, crossed>>
  ELSE /\ nav' = [nav EXCEPT ![c].failed = FALSE]
       /\ requests' = requests \cup {NewGet(c)}
       /\ UNCHANGED crossed

save(c, next) ==
  IF nav[c].saving THEN UNCHANGED <<nav, requests, crossed>>
  ELSE /\ nav' = [nav EXCEPT ![c].saving = TRUE, ![c].failed = FALSE, ![c].order = next.body]
       /\ requests' = requests \cup {NewPut(c, next)}
       /\ crossed' = [crossed EXCEPT ![c] = WaitsFor(c, "get")]

\* A row is dropped somewhere else in its section of a wide screen.
Move(c, s, from, to) ==
  /\ sends < MaxSends /\ sends' = sends + 1
  /\ nav[c].order # NoOrder /\ shell[c].ready /\ ~nav[c].saving
  /\ from # to
  /\ LET rows == Sidebar(c)[s]
         moved == InsertAt(RemoveAt(rows, from), to, rows[from])
     IN save(c, [body |-> [Sidebar(c) EXCEPT ![s] = moved], seen |-> lists[c]])
  /\ UNCHANGED <<server, lists, shell, storedEver, declaredEver, writer, late>>

\* The retry button of an error, the order's own or the group list's (the feed
\* list it asks for too is LoadFeeds).
Retry(c) ==
  /\ sends < MaxSends /\ sends' = sends + 1
  /\ nav[c].failed \/ shell[c].failed
  /\ shell' = [shell EXCEPT ![c].asked = TRUE]
  /\ IF nav[c].retryOrder # NoSave THEN save(c, nav[c].retryOrder) ELSE reload(c)
  /\ UNCHANGED <<server, lists, storedEver, declaredEver, writer, late>>

\* A success of either request: what the server says is shown and remembered.
Shown(c, order, saving) ==
  nav' = [nav EXCEPT ![c] = [order |-> order, lastSaved |-> order, retryOrder |-> NoSave,
                             saving |-> saving, failed |-> nav[c].failed]]

SaveFailed(r, retryOrder) ==
  nav' = [nav EXCEPT ![r.client].order = r.previous, ![r.client].failed = TRUE,
                     ![r.client].retryOrder = retryOrder, ![r.client].saving = FALSE]

ReceiveGet(r) ==
  /\ r \in requests /\ r.waiting /\ r.kind = "get" /\ r.stage = "answered"
  /\ Shown(r.client, r.answer, nav[r.client].saving)
  /\ requests' = requests \ {r}
  /\ UNCHANGED <<server, lists, shell, sends, history>>

ReceivePut(r) ==
  /\ r \in requests /\ r.waiting /\ r.kind = "put" /\ r.stage = "answered"
  /\ Shown(r.client, r.answer, FALSE)
  /\ requests' = requests \ {r}
  /\ UNCHANGED <<server, lists, shell, sends, history>>

\* 409: the lists are out of date, so a retry reloads.
ReceiveRefusal(r) ==
  /\ r \in requests /\ r.waiting /\ r.stage = "refused"
  /\ SaveFailed(r, NoSave)
  /\ requests' = requests \ {r}
  /\ UNCHANGED <<server, lists, shell, sends, history>>

\* No answer came; the server may still carry the request out.
GiveUp(r) ==
  /\ r \in requests /\ r.waiting
  /\ IF r.kind = "get" THEN nav' = [nav EXCEPT ![r.client].failed = TRUE]
                       ELSE SaveFailed(r, r.save)
  /\ Becomes(r, [r EXCEPT !.waiting = FALSE])
  /\ UNCHANGED <<server, lists, shell, sends, history>>

(***************************************************************************)
(* The specification.                                                      *)
(***************************************************************************)
\* Pages just loaded: the effect of the hook has sent the first GET, and the
\* feed list has arrived (without it there is no row to move).  The
\* collector of the first release has run; that of a later one may be late.
OrderInit ==
  /\ release = 1
  /\ registered = {d.id : d \in ToSet(Releases[1].feeds)}
  /\ stored = NoOrder
  /\ lists = [c \in Client |-> [CurrentLists EXCEPT !.groups = {}]]
  /\ shell = [c \in Client |-> [ready |-> FALSE, failed |-> FALSE, asked |-> TRUE]]
  /\ nav = [c \in Client |-> [order |-> NoOrder, lastSaved |-> NoOrder, retryOrder |-> NoSave,
                              saving |-> FALSE, failed |-> FALSE]]
  /\ requests = {NewGet(c) : c \in Client}
  /\ sends = 0
  /\ storedEver = {NoOrder} /\ declaredEver = {DeclaredOrder(CurrentLists)}
  /\ writer = Nobody /\ late = FALSE /\ crossed = [c \in Client |-> FALSE]

OrderNext ==
  \/ Deploy \/ Register
  \/ \E r \in requests :
       \/ ReadDeclared(r) \/ ReadStored(r) \/ WriteStored(r) \/ Vanish(r)
       \/ ReceiveGet(r) \/ ReceivePut(r) \/ ReceiveRefusal(r) \/ GiveUp(r)
  \/ \E c \in Client :
       \/ LoadFeeds(c) \/ LoadGroups(c) \/ FailGroups(c) \/ Retry(c)
       \/ \E s \in Section : \E from, to \in DOMAIN Sidebar(c)[s] : Move(c, s, from, to)

OrderSpec == OrderInit /\ [][OrderNext]_orderVars

-----------------------------------------------------------------------------
(***************************************************************************)
(* Properties.                                                             *)
(***************************************************************************)
\* Two lists that put the items they share in the same order.
AgreeOn(s, t) ==
  \A i, j \in DOMAIN s : \A k, l \in DOMAIN t :
    s[i] = t[k] /\ s[j] = t[l] /\ i < j => k < l

\* A client that was told of a save shows it as long as it is the stored one, unless it
\* shows an error or waits for something: no answer of an earlier request undoes it, nor
\* does a release.  Two orders of events are excepted, because the code lets them happen.
\* A reload that crossed the save may undo it on the screen (`crossed`).  And a save given
\* up may be written late, also over a newer one that was answered: the last write counts
\* (ADR-0016), and the page is not told that it lost (`late`).  An order that is not
\* being saved is one the server had, never one that was refused or made up on the page.
SavedIsShown ==
  \A c \in Client :
    /\ writer = c /\ ~late /\ ~crossed[c] /\ ~nav[c].failed
       /\ ~WaitsFor(c, "get") /\ ~WaitsFor(c, "put") =>
         \A s \in Section : AgreeOn(nav[c].order[s], stored[s])
    /\ ~nav[c].saving /\ nav[c].order # NoOrder =>
         \E order \in storedEver, declared \in declaredEver :
           nav[c].order = Reconciled(order, declared)

\* The server refuses a whole order only when the lists it was made from are out
\* of date: the page and the server, with separate code for it, make the same
\* rows of the same feeds and groups.
RefusedOnlyWhenOutdated ==
  [][\A r \in requests' \ requests : r.stage = "refused" => r.save.seen # CurrentLists]_requests

\* With every type right, what a GET answers, at any time: each declared row once, those of the stored
\* order first and in its order, new ones behind in the declared order.
AnswersAreComplete ==
  LET declared == DeclaredOrder(CurrentLists)
      answer == Reconciled(stored, declared)
  IN TypeOK /\ \A s \in Section :
       /\ IsPermutation(answer, declared)
       /\ stored # NoOrder =>
            /\ AgreeOn(answer[s], stored[s])
            /\ \A i, j \in DOMAIN answer[s] :
                 i < j /\ ~Contains(stored[s], answer[s][i])
                   => /\ ~Contains(stored[s], answer[s][j])
                      /\ \E k, l \in DOMAIN declared[s] :
                           k < l /\ declared[s][k] = answer[s][i] /\ declared[s][l] = answer[s][j]

=============================================================================
