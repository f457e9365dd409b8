-------------------------------- MODULE Shell --------------------------------
(***************************************************************************)
(* The frame of the page (web/app.tsx, screen-route.ts, feed-group.ts,     *)
(* feed-sidebar.tsx, feed-group-bar.tsx): which screen is shown, what the  *)
(* rows of the sidebar link to, and which panel has the focus, while       *)
(* feeds, groups and the order of rows arrive one after the other.         *)
(*                                                                         *)
(* Event handlers use the values of the last render; a render is followed  *)
(* by its effects, and by a second render where these set state.  The page *)
(* is alone with its localStorage.  The lists' requests are FeedList's.    *)
(***************************************************************************)
EXTENDS FeedList

CONSTANTS
  Declared,    \* the feeds' ids, in order; an id is a sequence of path segments
  RowOf,       \* the sidebar's row a feed belongs to
  Group,       \* the rows that are Feed Groups
  Orders,      \* the orders of rows that may be stored
  Entry,       \* entry ids
  Typed,       \* hashes typed by hand
  Remembered,  \* what localStorage may hold at first, for every group
  MaxSteps     \* bound: acts of the user

NoEntry == ""
NoFeed == <<>>
NoPanel == "none"
Feed == ToSet(Declared)
Panel == {"feeds", "entries", "detail"}

\* feed-definitions.ts: ids are not empty and differ, and none ends as the link of an
\* entry does.
IsFeedId(id) == id # NoFeed /\ ~(Len(id) > 2 /\ id[Len(id) - 1] = "entries")

ASSUME ShellAssumption ==
  /\ Declared \in Seq(Seq(STRING)) /\ \A feed \in Feed : IsFeedId(feed)
  /\ \A i, j \in DOMAIN Declared : i # j => Declared[i] # Declared[j]
  /\ DOMAIN RowOf = DOMAIN Declared /\ Group \subseteq ToSet(RowOf)
  /\ Orders # {} /\ \A o \in Orders : o \in Seq(ToSet(RowOf)) \ {<<>>} /\ ToSet(o) = ToSet(RowOf)
  /\ Entry \subseteq STRING \ {NoEntry} /\ Typed \subseteq Seq(STRING) /\ MaxSteps \in Nat

VARIABLES
  hash,      \* location.hash as path segments, decoded
  screen,    \* the state `screen`
  shown,     \* effectiveScreen, as rendered last
  page,      \* groups and order as far as loaded, a save on its way, lg or narrower
  reading,   \* hiddenEntryId, pendingPanelRef, the panel that has the focus
  memory,    \* the last feed of each group: in localStorage, in the links drawn; viewed: history
  steps      \* for MaxSteps

shellVars == <<hash, screen, shown, page, reading, memory, steps>>
vars == <<listVars, shellVars>>

\* ------------------------------------------------------------------ screen-route.ts
NoScreen == [kind |-> "none", feed |-> NoFeed, entry |-> NoEntry]
AdminScreen == [NoScreen EXCEPT !.kind = "admin"]
BookmarksScreen == [NoScreen EXCEPT !.kind = "bookmarks"]
FeedScreen(feed) == [NoScreen EXCEPT !.kind = "feed", !.feed = feed]

makeScreenHash(s) ==
  CASE s.kind = "admin" -> <<"admin">>
    [] OTHER -> (IF s.kind = "bookmarks" THEN <<"bookmarks">> ELSE <<"feeds">> \o s.feed)
                  \o (IF s.entry = NoEntry THEN <<>> ELSE <<"entries", s.entry>>)

readEntryId(segment) == IF segment \in Entry THEN segment ELSE NoEntry

\* The shortest feed id that leaves nothing, or an entry: an id may hold slashes.
SplitEntry(path) ==
  LET n == Len(path)
  IN IF n > 2 /\ path[n - 1] = "entries" /\ ~(n = 3 /\ path[1] = "feeds")
     THEN [base |-> SubSeq(path, 1, n - 2), entry |-> readEntryId(path[n])]
     ELSE [base |-> path, entry |-> NoEntry]

readScreenFromHash(path) ==
  LET split == SplitEntry(path)
  IN CASE path = <<"admin">> -> AdminScreen
       [] split.base = <<"bookmarks">> -> [BookmarksScreen EXCEPT !.entry = split.entry]
       [] Len(split.base) > 1 /\ split.base[1] = "feeds" ->
            [FeedScreen(Tail(split.base)) EXCEPT !.entry = split.entry]
       [] OTHER -> NoScreen

\* -------------------------------------------------------------------- feed-group.ts
RowOfFeed(feed) == RowOf[CHOOSE i \in DOMAIN Declared : Declared[i] = feed]
FeedsOf(row) == {feed \in Feed : RowOfFeed(feed) = row}
FirstFeedOf(row) == Declared[Min({i \in DOMAIN RowOf : RowOf[i] = row})]

pickRowFeed(row, remembered) ==
  IF row \in Group /\ remembered[row] \in FeedsOf(row) THEN remembered[row] ELSE FirstFeedOf(row)

\* ----------------------------------------------------------------------- one render
\* Without a hash the first row's feed is shown, once all three lists are there.
EffectiveScreen(remembered) ==
  IF screen.kind = "none" /\ feeds.loaded /\ page.groupsReady /\ page.order # <<>>
  THEN FeedScreen(pickRowFeed(page.order[1], remembered))
  ELSE screen

SelectedFeed(view, loaded) ==
  IF view.kind = "feed" /\ loaded /\ view.feed \in Feed THEN view.feed ELSE NoFeed

DetailHidden(view, wide, hidden) == ~wide /\ view.entry # NoEntry /\ hidden = view.entry

\* A panel that is there and neither hidden nor inert.
Operable(panel, view, wide, hidden) ==
  CASE panel = "feeds" -> TRUE
    [] panel = "entries" ->
         view.kind # "admin" /\ (wide \/ view.entry = NoEntry \/ DetailHidden(view, wide, hidden))
    [] panel = "detail" -> view.entry # NoEntry /\ ~DetailHidden(view, wide, hidden)

\* The browser drops a focus that can no longer be; then the pending panel gets it.
Focused(view, wide, r) ==
  IF r.pending # NoPanel /\ Operable(r.pending, view, wide, r.hidden)
  THEN [r EXCEPT !.focus = r.pending, !.pending = NoPanel]
  ELSE IF r.focus # NoPanel /\ ~Operable(r.focus, view, wide, r.hidden)
  THEN [r EXCEPT !.focus = NoPanel]
  ELSE r

\* Mutant: the effect depends on the group alone.
IsSaved_Group(feed, before) ==
  feed # NoFeed /\ (before # NoFeed => RowOfFeed(feed) # RowOfFeed(before)) /\ RowOfFeed(feed) \in Group

IsSaved(feed, before) == feed # NoFeed /\ feed # before /\ RowOfFeed(feed) \in Group

\* The render after a handler left `screen`, `page` and `feeds` as they are now and the
\* panels as `r`; the sidebar's links are drawn before the last feed is saved.
Render(r) ==
  \E stored \in {memory.last} :
    LET view == EffectiveScreen(stored)'
        feed == SelectedFeed(view, feeds'.loaded)
        before == SelectedFeed(shown, feeds.loaded)
        saved == IF IsSaved(feed, before) THEN [stored EXCEPT ![RowOfFeed(feed)] = feed] ELSE stored
        isReset == view.entry # shown.entry \/ feed # before \/ (page'.wide /\ ~page.wide)
        first == Focused(view, page'.wide, r)
        again == isReset /\ r.hidden # NoEntry
    IN /\ shown' = view
       /\ reading' = IF again THEN Focused(view, page'.wide, [first EXCEPT !.hidden = NoEntry]) ELSE first
       /\ memory' = [last |-> saved, drawn |-> IF again THEN saved ELSE stored,
                     viewed |-> IF feed # NoFeed /\ RowOfFeed(feed) \in Group
                                THEN [memory.viewed EXCEPT ![RowOfFeed(feed)] = feed]
                                ELSE memory.viewed]

\* --------------------------------------------------------------- what the page receives
HashChange ==
  /\ readScreenFromHash(hash) # screen
  /\ screen' = readScreenFromHash(hash)
  /\ UNCHANGED <<listVars, hash, page, steps>>
  /\ Render(reading)

refreshGroups ==
  /\ ~page.groupsReady
  /\ page' = [page EXCEPT !.groupsReady = TRUE]
  /\ UNCHANGED <<listVars, hash, screen, steps>>
  /\ Render(reading)

\* The first order; a retry's reload of an order that is there already is left out.
ReceiveOrder ==
  /\ page.order = <<>>
  /\ \E o \in Orders : page' = [page EXCEPT !.order = o]
  /\ UNCHANGED <<listVars, hash, screen, steps>>
  /\ Render(reading)

\* Stored as sent, rolled back, or refused and read again.
AnswerSave ==
  /\ page.saving
  /\ \E o \in Orders : page' = [page EXCEPT !.order = o, !.saving = FALSE]
  /\ UNCHANGED <<listVars, hash, screen, steps>>
  /\ Render(reading)

ReceiveListOfFeeds ==
  /\ \E i \in 1..MaxAsked : ReceiveFeeds(i)
  /\ UNCHANGED <<hash, screen, page, steps>>
  /\ Render(reading)

\* ---------------------------------------------------------------- what the user does
\* Input waits for the event of a hash that has changed.
Step ==
  /\ steps < MaxSteps /\ steps' = steps + 1
  /\ readScreenFromHash(hash) = screen
  /\ UNCHANGED listVars

\* A link is followed: the screen changes with the event.
Follow(target, panel) ==
  /\ hash' = makeScreenHash(target)
  /\ reading' = [reading EXCEPT !.focus = panel]
  /\ UNCHANGED <<screen, shown, page, memory>>

RowsAreShown == feeds.loaded /\ page.groupsReady

OpenRow(row) ==
  /\ Step /\ RowsAreShown
  /\ Follow(FeedScreen(pickRowFeed(row, memory.drawn)), "feeds")

OpenOther ==
  /\ Step
  /\ \E other \in {AdminScreen, BookmarksScreen} : Follow(other, "feeds")

\* FeedGroupBar: every feed of the group can be reached by its tabs and its selects.
ChooseVariant ==
  /\ Step /\ RowsAreShown
  /\ Operable("entries", shown, page.wide, reading.hidden)
  /\ LET feed == SelectedFeed(shown, feeds.loaded)
     IN /\ feed # NoFeed /\ RowOfFeed(feed) \in Group
        /\ \E target \in FeedsOf(RowOfFeed(feed)) : Follow(FeedScreen(target), "entries")

\* The link's click opens the entry here, or in another tab.
selectEntry(entry) ==
  /\ Step
  /\ Operable("entries", shown, page.wide, reading.hidden)
  /\ shown.kind = "bookmarks" \/ SelectedFeed(shown, feeds.loaded) # NoFeed
  /\ \E here \in BOOLEAN : hash' = IF here THEN makeScreenHash([shown EXCEPT !.entry = entry]) ELSE hash
  /\ UNCHANGED <<screen, page>>
  /\ Render([hidden |-> NoEntry, pending |-> "detail", focus |-> "entries"])

closeEntry ==
  /\ Step
  /\ ~page.wide /\ Operable("detail", shown, page.wide, reading.hidden)
  /\ hash' = makeScreenHash([shown EXCEPT !.entry = NoEntry])
  /\ reading' = [reading EXCEPT !.pending = NoPanel, !.focus = "detail"]
  /\ UNCHANGED <<screen, shown, page, memory>>

\* The address bar, or the history's buttons.
Address ==
  /\ Step
  /\ hash' \in Typed
  /\ UNCHANGED <<screen, shown, page, reading, memory>>

FocusPanel ==
  /\ Step
  /\ \E panel \in {NoPanel} \cup {p \in Panel : Operable(p, shown, page.wide, reading.hidden)} :
       reading' = [reading EXCEPT !.focus = panel]
  /\ UNCHANGED <<hash, screen, shown, page, memory>>

Resize ==
  /\ Step
  /\ page' = [page EXCEPT !.wide = ~@]
  /\ UNCHANGED <<hash, screen>>
  /\ Render(reading)

\* Mutant: the panel to go to is not kept for after the render.
PanelAfterHiding_None == NoPanel

PanelAfterHiding == "entries"

\* Keys 1, 2 and 3, with the focus in a panel.
moveToPanel(panel) ==
  /\ Step /\ reading.focus # NoPanel
  /\ UNCHANGED <<hash, screen, page>>
  /\ LET isHidden == DetailHidden(shown, page.wide, reading.hidden)
     IN CASE panel = "detail" /\ isHidden ->
               Render([reading EXCEPT !.pending = "detail", !.hidden = NoEntry])
          [] panel = "entries" /\ ~page.wide /\ shown.entry # NoEntry /\ ~isHidden ->
               Render([reading EXCEPT !.pending = PanelAfterHiding, !.hidden = shown.entry])
          [] OTHER ->
               /\ reading' = IF Operable(panel, shown, page.wide, reading.hidden)
                             THEN [reading EXCEPT !.focus = panel] ELSE reading
               /\ UNCHANGED <<shown, memory>>

\* Mutant: the first row's screen is left to follow the rows.
Frozen_Never == screen

\* A screen that came from the first row is kept before the rows are moved.
Frozen == IF screen.kind = "none" THEN shown ELSE screen

SaveOrder ==
  /\ Step /\ RowsAreShown
  /\ page.order # <<>> /\ ~page.saving
  /\ \E o \in Orders \ {page.order} : page' = [page EXCEPT !.order = o, !.saving = TRUE]
  /\ screen' = Frozen
  /\ hash' = IF screen' = screen THEN hash ELSE makeScreenHash(screen')
  /\ Render([reading EXCEPT !.focus = "feeds"])

\* -------------------------------------------------------------------- specification
\* The user acts while the collector rests, or the collector works while the page rests.
Init ==
  /\ ListInit
  /\ hash \in Typed /\ screen = readScreenFromHash(hash) /\ shown = screen
  /\ \E wide \in BOOLEAN, stored \in [Group -> Remembered] :
       /\ page = [groupsReady |-> events = 0, order |-> IF events = 0 THEN CHOOSE o \in Orders : TRUE ELSE <<>>,
                  saving |-> FALSE, wide |-> wide]
       /\ memory = [last |-> stored, drawn |-> stored, viewed |-> [g \in Group |-> NoFeed]]
       /\ events = 0 => wide /\ hash = <<>> /\ \A g \in Group : stored[g] = NoFeed
  /\ reading = [hidden |-> NoEntry, pending |-> NoPanel, focus |-> NoPanel]
  /\ steps = IF events = 0 THEN MaxSteps ELSE 0

UserNext ==
  \/ HashChange \/ refreshGroups \/ ReceiveOrder \/ AnswerSave
  \/ OpenOther \/ ChooseVariant \/ closeEntry \/ Address \/ FocusPanel \/ Resize \/ SaveOrder
  \/ \E row \in ToSet(RowOf) : OpenRow(row)
  \/ \E entry \in Entry : selectEntry(entry)
  \/ \E panel \in Panel : moveToPanel(panel)

Next ==
  \/ ListRest /\ UNCHANGED shellVars
  \/ ReceiveListOfFeeds
  \/ events = MaxEvents /\ UserNext

Spec == Init /\ [][Next]_vars /\ ListFairness

\* --------------------------------------------------------------------- properties
\* A screen, once shown, gives way to the one the hash names and to nothing else: lists
\* that arrive, rows that are moved and saves that fail leave it.  Not covered: going back
\* to a hash without a screen while a save is on its way, whose answer may then change
\* the first row; and the order a retry reloads, which may do the same.
ScreenStays ==
  [][shown.kind # "none" /\ shown' # shown /\ ~(page.saving /\ ~page'.saving /\ screen.kind = "none")
       => screen' # screen /\ screen' = readScreenFromHash(hash)]_vars

\* The links of a list of entries, and the hash a reload reads, lead to the entry in the
\* list it was opened from, whatever slashes the feed's id has.  (A hash of no feed has no
\* list: what is typed may read back as something else.)
LinksReadBack ==
  shown.kind = "bookmarks" \/ (shown.kind = "feed" /\ shown.feed \in Feed)
    => \A entry \in Entry \cup {NoEntry} :
         LET target == [shown EXCEPT !.entry = entry]
         IN readScreenFromHash(makeScreenHash(target)) = target

\* From outside a group, its row leads to the feed of the group that was viewed last.
\* (From inside, right after a choice, it still leads to the one before: the link was
\* drawn before the choice was saved.)
GroupRowOpensLastViewed ==
  \A g \in Group :
    LET feed == SelectedFeed(shown, feeds.loaded)
    IN memory.viewed[g] # NoFeed /\ (feed # NoFeed => RowOfFeed(feed) # g)
         => pickRowFeed(g, memory.drawn) = memory.viewed[g]

\* Links lead where they say: both of the above.
LinksLead == LinksReadBack /\ GroupRowOpensLastViewed

\* Once the feeds are there the focus is never lost by what the page receives, and a
\* panel's key leads to its panel, where there is one, also when it had to be uncovered.
FocusIsKept ==
  [][/\ feeds.loaded /\ UNCHANGED <<steps, screen>> /\ reading.focus # NoPanel
          => reading'.focus = reading.focus \/ reading'.focus = reading.pending
     /\ \A panel \in Panel : moveToPanel(panel) =>
          \/ reading'.focus = panel
          \/ panel = "entries" /\ shown.kind = "admin"
          \/ panel = "detail" /\ shown.entry = NoEntry]_vars
=============================================================================
