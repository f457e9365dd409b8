----------------------------- MODULE EntryPanel -----------------------------
(***************************************************************************)
(* One Entry as one browser page shows it: the card in the list, the panel *)
(* on the right, the changes both share (web/entry-card.tsx,               *)
(* entry-panel.tsx, entry-changes.tsx, app.tsx), and the routes that store *)
(* them (server/entry-routes.ts).                                          *)
(*                                                                         *)
(* Requests are sent, served in the statements the route runs, and         *)
(* answered in any order; one that fails may have been carried out.  React *)
(* runs the panel's effect after every render, so `Settle` is part of each *)
(* action that changes what the panel shows.                               *)
(***************************************************************************)
EXTENDS Integers, FiniteSets, Sequences

CONSTANTS
  Slot,         \* requests that can be on their way at once
  NoView,       \* `undefined` for an Entry
  Deadline,     \* Deadline[v]: the deadline in version v of the page, 0 for none
  MaxTexts,     \* bound: translations DeepL makes
  MaxTurns      \* bound: requests of the user's, failures and refreshes together

Pages == DOMAIN Deadline

ASSUME PanelAssumption ==
  /\ Deadline \in Seq(Nat) /\ Deadline # <<>>
  /\ MaxTexts \in Nat /\ MaxTurns \in Nat /\ IsFiniteSet(Slot)

VARIABLES
  row,        \* the rows of entry, entry_translation and entry_content
  page,       \* the version of the original page that its site serves
  texts,      \* translations DeepL has made
  listed,     \* the Entry as the list loaded it
  changes,    \* changesById.get(entry.id)
  selected,   \* lastSelection, when it is this Entry's
  panel,      \* the state and the refs of EntryPanel
  requests,   \* requests[s]
  turns,      \* requests of the user's, failures and refreshes (for MaxTurns)
  \* History, read by properties only.
  overlapped, \* a request was made, or an opening published, while another was on its way
  lost        \* an answer was lost, dropped or does not concern what is shown

vars == <<row, page, texts, listed, changes, selected, panel, requests, turns,
          overlapped, lost>>

\* The fields of an Entry that can change on the screen.  Times are kept as whether
\* they are set; a translation is the number of the DeepL call it is from.
View == [opened: BOOLEAN, bookmarked: BOOLEAN, translation: 0..MaxTexts,
         deadline: Nat]
ASSUME ViewAssumption == NoView \notin View

RowView == [opened |-> row.opened, bookmarked |-> row.bookmarked,
            translation |-> row.translation, deadline |-> row.deadline]

WithChanges(view, c) == IF c = NoView THEN view ELSE c

Card == WithChanges(listed, changes)
PanelEntry == WithChanges(panel.entry, changes)

\* A key={selectedEntryId} makes a new panel each time, with a selection or without.
Unmounted == [mounted |-> FALSE, load |-> "loading", entry |-> NoView,
              reader |-> "off", view |-> 0, showTranslation |-> FALSE,
              translating |-> FALSE, bookmarking |-> FALSE, openedSent |-> FALSE]
NewPanel(selection, c) ==
  [Unmounted EXCEPT !.mounted = TRUE, !.entry = selection,
     !.load = IF selection = NoView THEN "loading" ELSE "loaded",
     !.showTranslation =
       selection # NoView /\ WithChanges(selection, c).translation # 0]

\* `entry` is the Entry the handler captured, for "load" the answer; `attached` says
\* that the panel that made the request is still there.
NoRequest == [kind |-> "none", entry |-> NoView, stage |-> "sent", version |-> 0,
              text |-> 0, attached |-> FALSE, aborted |-> FALSE]
Sent(kind, entry) ==
  [NoRequest EXCEPT !.kind = kind, !.entry = entry, !.attached = kind # "card"]
Free(q) == {s \in Slot : q[s].kind = "none"}
Quiet(q) == \A s \in Slot : q[s].kind = "none"
\* A markOpened has published what it stores, and nothing waits for its answer.
Alone(q) == \A s \in Slot : q[s].kind \in {"none", "open"}

\* ------------------------------------------------------- the effect of the panel

MustOpen(p, c) ==
  /\ p.mounted /\ p.entry # NoView
  /\ ~WithChanges(p.entry, c).opened
  /\ ~p.openedSent

Settle(p, c, q, crossed) ==
  IF MustOpen(p, c)
  THEN LET opening == WithChanges(p.entry, c)
       IN /\ panel' = [p EXCEPT !.openedSent = TRUE]
          /\ changes' = [opening EXCEPT !.opened = TRUE]
          /\ \E s \in Free(q) : requests' = [q EXCEPT ![s] = Sent("open", opening)]
          /\ overlapped' = (crossed \/ ~Alone(q))
  ELSE /\ panel' = p /\ changes' = c /\ requests' = q /\ overlapped' = crossed

\* A request made by a handler of the user's; the render that follows changes p only.
Request(p, kind, entry) ==
  /\ turns < MaxTurns /\ turns' = turns + 1
  /\ \E s \in Free(requests) :
       Settle(p, changes, [requests EXCEPT ![s] = Sent(kind, entry)],
              overlapped \/ ~Alone(requests))

\* Mutant: the earlier request is not aborted.
AbortReader_Keeps(q) == q

\* Leaving the panel, or toggling the reader, aborts the reader's request.
AbortReader(q) ==
  [s \in Slot |-> IF q[s].kind = "reader" THEN [q[s] EXCEPT !.aborted = TRUE] ELSE q[s]]
Detach(q) == [s \in Slot |-> [AbortReader(q)[s] EXCEPT !.attached = FALSE]]
Reading == \E s \in Slot : requests[s].kind = "reader"

Init ==
  /\ row = [opened |-> FALSE, bookmarked |-> FALSE, translation |-> 0, deadline |-> 0,
            content |-> 0]
  /\ page = 1 /\ texts = 0
  /\ listed = RowView
  /\ changes = NoView /\ selected = NoView
  /\ panel = Unmounted
  /\ requests = [s \in Slot |-> NoRequest]
  /\ turns = 0 /\ overlapped = FALSE /\ lost = FALSE

server == <<row, page, texts>>

\* ------------------------------------------------------------ opening and leaving
\* A click on the card hands over the Entry with its changes, then sets the address.
PickCard ==
  /\ ~panel.mounted
  /\ selected' = Card
  /\ Settle(NewPanel(Card, changes), changes, requests, overlapped)
  /\ UNCHANGED <<server, listed, turns, lost>>

\* The address is the same, so the key is, and so is the panel.
PickShownCard ==
  /\ panel.mounted
  /\ selected' = Card
  /\ UNCHANGED <<server, listed, changes, panel, requests, turns, overlapped, lost>>

\* By the address, back or forward: with the selection, if the last one was this Entry.
OpenAddress ==
  /\ ~panel.mounted
  /\ LET p == NewPanel(selected, changes)
     IN IF selected = NoView
        THEN Request(p, "load", NoView)
        ELSE Settle(p, changes, requests, overlapped) /\ turns' = turns
  /\ UNCHANGED <<server, listed, selected, lost>>

\* The effect returns before it loads when there is a selection; then only
\* loadAttempt changes, which nothing else reads.
RetryLoad ==
  /\ panel.mounted /\ panel.load = "failed"
  /\ selected = NoView
  /\ Request([panel EXCEPT !.load = "loading"], "load", NoView)
  /\ UNCHANGED <<server, listed, selected, lost>>

Leave ==
  /\ panel.mounted
  /\ panel' = Unmounted
  /\ requests' = Detach(requests)
  /\ lost' = (lost \/ Reading)
  /\ selected' \in {selected, NoView}   \* closed, or another card picked
  /\ UNCHANGED <<server, listed, changes, turns, overlapped>>

\* Nothing of the page is left, but what it asked for may still be carried out.
Refresh ==
  /\ turns < MaxTurns /\ turns' = turns + 1
  /\ listed' = RowView
  /\ changes' = NoView /\ selected' = NoView /\ panel' = Unmounted
  /\ requests' = [s \in Slot |-> IF requests[s].kind = "none" THEN NoRequest
                                 ELSE [requests[s] EXCEPT !.aborted = TRUE, !.attached = FALSE]]
  /\ overlapped' = FALSE /\ lost' = ~Quiet(requests)
  /\ UNCHANGED server

\* --------------------------------------------------------------------- the buttons
Ready == panel.mounted /\ panel.entry # NoView

toggleBookmark ==
  /\ Ready /\ ~panel.bookmarking
  /\ Request([panel EXCEPT !.bookmarking = TRUE], "bookmark", PanelEntry)
  /\ UNCHANGED <<server, listed, selected, lost>>

\* The card has no guard.
toggleCardBookmark ==
  /\ Request(panel, "card", Card)
  /\ UNCHANGED <<server, listed, selected, lost>>

StartReader ==
  /\ Ready /\ panel.reader = "off"
  /\ Request([panel EXCEPT !.reader = "loading"], "reader", PanelEntry)
  /\ UNCHANGED <<server, listed, selected, lost>>

StopReader ==
  /\ Ready /\ panel.reader # "off"
  /\ panel' = [panel EXCEPT !.reader = "off", !.view = 0]
  /\ requests' = AbortReader(requests)
  /\ lost' = (lost \/ Reading)
  /\ UNCHANGED <<server, listed, changes, selected, turns, overlapped>>

toggleTranslation ==
  /\ Ready /\ ~panel.translating
  /\ IF PanelEntry.translation # 0
     THEN /\ panel' = [panel EXCEPT !.showTranslation = ~@]
          /\ UNCHANGED <<changes, requests, turns, overlapped>>
     ELSE Request([panel EXCEPT !.translating = TRUE], "translate", PanelEntry)
  /\ UNCHANGED <<server, listed, selected, lost>>

\* The conversation's first question takes the text, and publishes nothing.
loadOriginal ==
  /\ Ready /\ panel.reader # "loaded"
  /\ Request(panel, "original", PanelEntry)
  /\ lost' = TRUE
  /\ UNCHANGED <<server, listed, selected>>

\* ------------------------------------------------------------------------ the server
Serve(s, kinds, stage) == requests[s].kind \in kinds /\ requests[s].stage = stage
client == <<listed, changes, selected, panel, turns, overlapped, lost>>

ServeLoad(s) ==
  /\ Serve(s, {"load"}, "sent")
  /\ requests' = [requests EXCEPT ![s].stage = "answered", ![s].entry = RowView]
  /\ UNCHANGED <<server, client>>

ServeOpen(s) ==
  /\ Serve(s, {"open"}, "sent")
  /\ row' = [row EXCEPT !.opened = TRUE]
  /\ requests' = [requests EXCEPT ![s].stage = "answered"]
  /\ UNCHANGED <<page, texts, client>>

ServeBookmark(s) ==
  /\ Serve(s, {"bookmark", "card"}, "sent")
  /\ row' = [row EXCEPT !.bookmarked = ~requests[s].entry.bookmarked]
  /\ requests' = [requests EXCEPT ![s].stage = "answered"]
  /\ UNCHANGED <<page, texts, client>>

FetchPage(s) ==
  /\ Serve(s, {"reader", "original"}, "sent")
  /\ requests' = [requests EXCEPT ![s].stage = "fetched", ![s].version = page]
  /\ UNCHANGED <<server, client>>

\* Mutant: the first deadline stays, like the time of the first reading.
SavePage_FirstDeadline(s) ==
  /\ Serve(s, {"reader", "original"}, "fetched")
  /\ LET v == requests[s].version
     IN row' = [row EXCEPT !.content = v,
                  !.deadline = IF @ = 0 THEN Deadline[v] ELSE @]
  /\ requests' = [requests EXCEPT ![s].stage = "answered"]
  /\ UNCHANGED <<page, texts, client>>

\* One transaction; a page without a deadline leaves the stored one.
SavePage(s) ==
  /\ Serve(s, {"reader", "original"}, "fetched")
  /\ LET v == requests[s].version
     IN row' = [row EXCEPT !.content = v,
                  !.deadline = IF Deadline[v] # 0 THEN Deadline[v] ELSE @]
  /\ requests' = [requests EXCEPT ![s].stage = "answered"]
  /\ UNCHANGED <<page, texts, client>>

ReadTranslation(s) ==
  /\ Serve(s, {"translate"}, "sent")
  /\ requests' =
       IF row.translation # 0
       THEN [requests EXCEPT ![s].stage = "answered", ![s].text = row.translation]
       ELSE [requests EXCEPT ![s].stage = "translating"]
  /\ UNCHANGED <<server, client>>

SaveTranslation(s) ==
  /\ Serve(s, {"translate"}, "translating")
  /\ texts < MaxTexts
  /\ texts' = texts + 1
  /\ row' = [row EXCEPT !.translation = texts']
  /\ requests' = [requests EXCEPT ![s].stage = "answered", ![s].text = texts']
  /\ UNCHANGED <<page, client>>

ChangePage ==
  /\ page + 1 \in Pages
  /\ page' = page + 1
  /\ UNCHANGED <<row, texts, requests, client>>

\* --------------------------------------------------------------------- the answers
Done(s) == [requests EXCEPT ![s] = NoRequest]
Answered(s, kind) ==
  /\ requests[s].kind = kind /\ requests[s].stage = "answered"
  /\ ~requests[s].aborted

\* What an answer does to the panel that asked, if it is still there.
Told(s, p) == IF requests[s].attached THEN p ELSE panel

ReceiveLoad(s) ==
  /\ Answered(s, "load")
  /\ LET answer == requests[s].entry
     IN Settle(Told(s, [panel EXCEPT !.entry = answer, !.load = "loaded",
                                     !.showTranslation = answer.translation # 0]),
               changes, Done(s), overlapped)
  /\ UNCHANGED <<server, listed, selected, turns, lost>>

\* All five fields are published, as they were when the button was pressed.
ReceiveBookmark(s) ==
  /\ Answered(s, "bookmark")
  /\ Settle(Told(s, [panel EXCEPT !.bookmarking = FALSE]),
            [requests[s].entry EXCEPT !.bookmarked = ~@], Done(s), overlapped)
  /\ UNCHANGED <<server, listed, selected, turns, lost>>

ReceiveCardBookmark(s) ==
  /\ Answered(s, "card")
  /\ Settle(panel, [requests[s].entry EXCEPT !.bookmarked = ~@], Done(s), overlapped)
  /\ UNCHANGED <<server, listed, selected, turns, lost>>

ReceiveOriginal(s) ==
  /\ Answered(s, "reader")
  /\ LET v == requests[s].version
     IN Settle([panel EXCEPT !.reader = "loaded", !.view = v],
               IF Deadline[v] # 0 THEN [requests[s].entry EXCEPT !.deadline = Deadline[v]]
               ELSE changes,
               Done(s), overlapped)
  /\ UNCHANGED <<server, listed, selected, turns, lost>>

\* Mutant: the translation is merged into the Entry as the list loaded it.
ReceiveTranslation_OverListed(s) ==
  /\ Answered(s, "translate")
  /\ Settle(Told(s, [panel EXCEPT !.translating = FALSE, !.showTranslation = TRUE]),
            [listed EXCEPT !.translation = requests[s].text],
            Done(s), overlapped)
  /\ UNCHANGED <<server, listed, selected, turns, lost>>

ReceiveTranslation(s) ==
  /\ Answered(s, "translate")
  /\ Settle(Told(s, [panel EXCEPT !.translating = FALSE, !.showTranslation = TRUE]),
            [requests[s].entry EXCEPT !.translation = requests[s].text],
            Done(s), overlapped)
  /\ UNCHANGED <<server, listed, selected, turns, lost>>

ReceiveNothing(s) ==
  /\ requests[s].stage = "answered"
  /\ requests[s].aborted \/ requests[s].kind \in {"open", "original"}
  /\ requests' = Done(s)
  /\ UNCHANGED <<server, client>>

\* The promise is rejected: the request or its answer was lost, or the route failed.
\* The server may still carry out what it has not.
Fail(s) ==
  /\ turns < MaxTurns /\ turns' = turns + 1
  /\ requests[s].kind # "none" /\ ~requests[s].aborted
  /\ panel' = LET kind == requests[s].kind
              IN Told(s, CASE kind = "load" -> [panel EXCEPT !.load = "failed"]
                           [] kind = "bookmark" -> [panel EXCEPT !.bookmarking = FALSE]
                           [] kind = "reader" -> [panel EXCEPT !.reader = "failed"]
                           [] kind = "translate" -> [panel EXCEPT !.translating = FALSE]
                           [] OTHER -> panel)
  /\ \/ requests' = Done(s)
     \/ /\ requests[s].stage # "answered"
        /\ requests' = [requests EXCEPT ![s].aborted = TRUE]
  /\ lost' = TRUE
  /\ UNCHANGED <<server, listed, changes, selected, overlapped>>

\* What nobody waits for any more may stop on the way as well.
Vanish(s) ==
  /\ requests[s].kind # "none" /\ requests[s].aborted
  /\ requests[s].stage # "answered"
  /\ requests' = Done(s)
  /\ UNCHANGED <<server, client>>

Client == \/ PickCard \/ PickShownCard \/ OpenAddress \/ RetryLoad \/ Leave \/ Refresh
          \/ toggleBookmark \/ toggleCardBookmark \/ StartReader \/ StopReader
          \/ toggleTranslation \/ loadOriginal
Server == \E s \in Slot :
            \/ ServeLoad(s) \/ ServeOpen(s) \/ ServeBookmark(s)
            \/ FetchPage(s) \/ SavePage(s) \/ ReadTranslation(s) \/ SaveTranslation(s)
Answer == \E s \in Slot :
            \/ ReceiveLoad(s) \/ ReceiveBookmark(s) \/ ReceiveCardBookmark(s)
            \/ ReceiveOriginal(s) \/ ReceiveTranslation(s) \/ ReceiveNothing(s)
            \/ Fail(s) \/ Vanish(s)

Next == Client \/ Server \/ Answer \/ ChangePage
Spec == Init /\ [][Next]_vars

\* --------------------------------------------------------------------- properties
Kinds == {"none", "load", "open", "bookmark", "card", "reader", "original", "translate"}
TypeOK ==
  /\ row \in [opened: BOOLEAN, bookmarked: BOOLEAN, translation: 0..MaxTexts,
              deadline: Nat, content: {0} \cup Pages]
  /\ page \in Pages /\ texts \in 0..MaxTexts /\ turns \in 0..MaxTurns
  /\ listed \in View /\ changes \in View \cup {NoView}
  /\ selected \in View \cup {NoView}
  /\ panel \in [mounted: BOOLEAN, load: {"loading", "loaded", "failed"},
                entry: View \cup {NoView},
                reader: {"off", "loading", "loaded", "failed"}, view: {0} \cup Pages,
                showTranslation: BOOLEAN, translating: BOOLEAN, bookmarking: BOOLEAN,
                openedSent: BOOLEAN]
  /\ requests \in [Slot -> [kind: Kinds, entry: View \cup {NoView},
                            stage: {"sent", "fetched", "translating", "answered"},
                            version: {0} \cup Pages, text: 0..MaxTexts,
                            attached: BOOLEAN, aborted: BOOLEAN]]
  /\ (panel.load = "loaded") <=> (panel.entry # NoView)
  /\ overlapped \in BOOLEAN /\ lost \in BOOLEAN

\* The reader of a panel waits exactly when one request of its own is on its way that
\* was not aborted, and shows a page exactly when it does not wait: an answer to an
\* earlier press, or for a panel that is gone, never gets in.  An opening is sent once
\* per panel, even when a stale change takes the opened mark off the screen again.
ReaderWaitsForOneAnswer ==
  /\ Cardinality({s \in Slot : requests[s].kind = "reader" /\ ~requests[s].aborted})
       = (IF panel.reader = "loading" THEN 1 ELSE 0)
  /\ (panel.view # 0) <=> (panel.reader = "loaded")
  /\ Cardinality({s \in Slot : requests[s].kind = "open" /\ requests[s].attached}) <= 1
  /\ TypeOK

\* When nothing is on its way, no answer was lost and no two requests overlapped, the
\* card and the panel show what is stored.  Not covered, though nothing was lost, is a page
\* whose conversation took the text (`loadOriginal` sets `lost` too): the service stores
\* what it read, and the page publishes nothing of it.
ShownAgreesWhenSequential ==
  Quiet(requests) /\ ~lost /\ ~overlapped =>
    /\ Card = RowView
    /\ Ready => PanelEntry = RowView

\* The stored deadline is the stored page's, if that page has one: the text and the
\* deadline of overlapping reads are never mixed.
DeadlineIsOfStoredPage ==
  row.content # 0 /\ Deadline[row.content] # 0 => row.deadline = Deadline[row.content]

\* entry-changes.tsx:6: what is published is what was stored, so a refresh gives the same.
ShownIsStored == Quiet(requests) /\ ~lost => Card = RowView

=============================================================================
