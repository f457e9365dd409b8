-------------------------- MODULE EntryPanel_proofs --------------------------
(***************************************************************************)
(* Proofs about the entry panel and the changes it shares, for any number  *)
(* of requests on their way, versions of the page and translations.        *)
(*                                                                         *)
(* The effect of the panel runs with the values an action leaves, so the   *)
(* invariant is stated of a panel p, shared changes c and requests q.      *)
(***************************************************************************)
EXTENDS EntryPanel, FiniteSetTheorems, TLAPS

(***************************************************************************)
(* Types.                                                                  *)
(***************************************************************************)
Stages == {"sent", "fetched", "translating", "answered"}
LoadStates == {"loading", "loaded", "failed"}
ReaderStates == {"off", "loading", "loaded", "failed"}
MaybeView == View \cup {NoView}
MaybePage == {0} \cup Pages

Row == [opened: BOOLEAN, bookmarked: BOOLEAN, translation: 0..MaxTexts,
        deadline: Nat, content: MaybePage]
Panel == [mounted: BOOLEAN, load: LoadStates, entry: MaybeView, reader: ReaderStates,
          view: MaybePage, showTranslation: BOOLEAN, translating: BOOLEAN,
          bookmarking: BOOLEAN, openedSent: BOOLEAN]
Asked == [kind: Kinds, entry: MaybeView, stage: Stages, version: MaybePage,
          text: 0..MaxTexts, attached: BOOLEAN, aborted: BOOLEAN]

TypeInv ==
  /\ row \in Row
  /\ page \in Pages /\ texts \in 0..MaxTexts /\ turns \in 0..MaxTurns
  /\ listed \in View /\ selected \in MaybeView
  /\ overlapped \in BOOLEAN /\ lost \in BOOLEAN

(***************************************************************************)
(* The panel and its requests.                                             *)
(***************************************************************************)
IsReader(q, s) == q[s].kind = "reader" /\ ~q[s].aborted
IsLoad(q, s) == q[s].kind = "load" /\ q[s].attached /\ ~q[s].aborted
IsOpening(q, s) == q[s].kind = "open" /\ q[s].attached

\* What a request has been given so far.
RequestInv(q) ==
  /\ q \in [Slot -> Asked]
  /\ \A s \in Slot :
       /\ q[s].kind \notin {"none", "load"} => q[s].entry \in View
       /\ q[s].kind = "load" /\ q[s].stage = "answered" => q[s].entry \in View
       /\ q[s].kind \in {"reader", "original"} /\ q[s].stage \in {"fetched", "answered"} =>
            q[s].version \in Pages
       /\ IsReader(q, s) => q[s].attached

\* A panel waits for the one load and the one reading it has asked for, and has asked
\* for the opening that may be on its way.
WaitInv(p, q) ==
  /\ p \in Panel
  /\ (p.load = "loaded") <=> (p.entry # NoView)
  /\ (p.view # 0) <=> (p.reader = "loaded")
  /\ \A s \in Slot : q[s].attached => p.mounted
  /\ \A s \in Slot : IsLoad(q, s) => p.load = "loading"
  /\ \A s \in Slot : IsReader(q, s) => p.reader = "loading"
  /\ p.reader = "loading" => \E s \in Slot : IsReader(q, s)
  /\ \A s \in Slot : IsOpening(q, s) => p.openedSent
  /\ \A s, t \in Slot : IsLoad(q, s) /\ IsLoad(q, t) => s = t
  /\ \A s, t \in Slot : IsReader(q, s) /\ IsReader(q, t) => s = t
  /\ \A s, t \in Slot : IsOpening(q, s) /\ IsOpening(q, t) => s = t

(***************************************************************************)
(* What is shown, when nothing was lost and no two requests overlapped.    *)
(***************************************************************************)
\* A request that is more than an opening.
IsWork(q, s) == q[s].kind \notin {"none", "open"}
IsChange(q, s) == q[s].kind \in {"bookmark", "card", "reader", "translate"}

\* What the row shows when the openings on their way have been served.
Opened(r, q) == r.opened \/ \E s \in Slot : q[s].kind = "open" /\ q[s].stage = "sent"
StoredView(r, q) == [opened |-> Opened(r, q), bookmarked |-> r.bookmarked,
                     translation |-> r.translation, deadline |-> r.deadline]

\* What the answer of a request publishes.
Published(a) ==
  CASE a.kind \in {"bookmark", "card"} -> [a.entry EXCEPT !.bookmarked = ~@]
    [] a.kind = "translate" -> [a.entry EXCEPT !.translation = a.text]
    [] a.kind = "reader" /\ Deadline[a.version] # 0 ->
         [a.entry EXCEPT !.deadline = Deadline[a.version]]
    [] OTHER -> a.entry

\* An answer that is on its way brings what the row has already.
IsStored(q, s) == IsChange(q, s) /\ q[s].stage = "answered"

AgreeInv(r, li, c, p, q) ==
  /\ \A s \in Slot : ~q[s].aborted /\ q[s].kind # "original"
  /\ \A s, t \in Slot : IsWork(q, s) /\ IsWork(q, t) => s = t
  /\ c = NoView =>
       /\ \A s \in Slot : q[s].kind # "open"
       /\ p.entry \in {NoView, li}
       /\ \A s \in Slot : q[s].kind = "load" /\ q[s].stage = "answered" => q[s].entry = li
  /\ \A s \in Slot : IsChange(q, s) => q[s].entry = WithChanges(li, c)
  /\ \A s \in Slot : IsStored(q, s) => StoredView(r, q) = Published(q[s])
  /\ (\A s \in Slot : ~IsStored(q, s)) => StoredView(r, q) = WithChanges(li, c)

Shown(r, li, c, se, p, q, ov, lo) ==
  /\ c \in MaybeView
  /\ c = NoView => se \in {NoView, li}
  /\ RequestInv(q) /\ WaitInv(p, q)
  /\ ~ov /\ ~lo => AgreeInv(r, li, c, p, q)

Inv ==
  /\ TypeInv /\ DeadlineIsOfStoredPage
  /\ Shown(row, listed, changes, selected, panel, requests, overlapped, lost)

-----------------------------------------------------------------------------
(***************************************************************************)
(* Requests and views.                                                     *)
(***************************************************************************)
LEMMA KindFacts ==
  /\ \A k \in {"none", "load", "open", "bookmark", "card", "reader", "original", "translate"} :
       k \in Kinds
  /\ \A t \in {"sent", "fetched", "translating", "answered"} : t \in Stages
  /\ \A l \in {"loading", "loaded", "failed"} : l \in LoadStates
  /\ \A t \in {"off", "loading", "loaded", "failed"} : t \in ReaderStates
BY DEF Kinds, Stages, LoadStates, ReaderStates

LEMMA PageFacts ==
  /\ 1 \in Pages /\ Pages \subseteq Nat /\ 0 \notin Pages
  /\ \A v \in Pages : Deadline[v] \in Nat
<1>1. /\ Deadline \in Seq(Nat) /\ Len(Deadline) \in Nat /\ Len(Deadline) # 0
      /\ Pages = 1..Len(Deadline)
  BY PanelAssumption DEF Pages
<1> QED
  BY <1>1

LEMMA NoRequestFacts ==
  /\ NoRequest \in Asked /\ NoRequest.kind = "none" /\ NoRequest.stage = "sent"
  /\ ~NoRequest.attached /\ ~NoRequest.aborted
<1>1. MaxTexts \in Nat
  BY PanelAssumption
<1>2. 0 \in MaybePage /\ 0 \in 0..MaxTexts /\ NoView \in MaybeView
  BY <1>1 DEF MaybePage, MaybeView
<1> QED
  BY <1>2, KindFacts DEF NoRequest, Asked

LEMMA SentFacts ==
  ASSUME NEW kind \in Kinds, NEW entry \in MaybeView
  PROVE  /\ Sent(kind, entry) \in Asked
         /\ Sent(kind, entry).kind = kind /\ Sent(kind, entry).entry = entry
         /\ Sent(kind, entry).stage = "sent"
         /\ Sent(kind, entry).attached <=> kind # "card"
         /\ ~Sent(kind, entry).aborted
<1> DEFINE a == Sent(kind, entry)
<1>1. a = [NoRequest EXCEPT !.kind = kind, !.entry = entry, !.attached = kind # "card"]
  BY DEF Sent
<1>2. (kind # "card") \in BOOLEAN
  OBVIOUS
<1>3. a \in Asked
  BY <1>1, <1>2, NoRequestFacts DEF Asked
<1> QED
  BY <1>1, <1>3, NoRequestFacts DEF Asked

LEMMA WithChangesFacts ==
  ASSUME NEW view \in MaybeView, NEW c \in MaybeView
  PROVE  /\ WithChanges(view, c) \in MaybeView
         /\ view # NoView => WithChanges(view, c) \in View
         /\ c # NoView => WithChanges(view, c) = c
         /\ c = NoView => WithChanges(view, c) = view
BY DEF WithChanges, MaybeView

LEMMA OpenedFacts ==
  ASSUME NEW view \in View
  PROVE  /\ [view EXCEPT !.opened = TRUE] \in View
         /\ [view EXCEPT !.opened = TRUE] =
              [opened |-> TRUE, bookmarked |-> view.bookmarked,
               translation |-> view.translation, deadline |-> view.deadline]
<1> DEFINE v == [view EXCEPT !.opened = TRUE]
<1>1. v \in View
  BY DEF View
<1>2. /\ v.opened = TRUE /\ v.bookmarked = view.bookmarked
      /\ v.translation = view.translation /\ v.deadline = view.deadline
  BY DEF View
<1> HIDE DEF v
<1>3. v = [opened |-> v.opened, bookmarked |-> v.bookmarked,
           translation |-> v.translation, deadline |-> v.deadline]
  BY <1>1 DEF View
<1>4. v = [opened |-> TRUE, bookmarked |-> view.bookmarked,
           translation |-> view.translation, deadline |-> view.deadline]
  BY <1>2, <1>3
<1> QED
  BY <1>1, <1>4 DEF v

(***************************************************************************)
(* The effect of the panel.                                                *)
(***************************************************************************)
LEMMA SettleShown ==
  ASSUME NEW r, NEW li \in View, NEW c, NEW se, NEW p, NEW q, NEW crossed \in BOOLEAN,
         NEW lo, Shown(r, li, c, se, p, q, crossed, lo), Settle(p, c, q, crossed)
  PROVE  /\ Shown(r, li, changes', se, panel', requests', overlapped', lo)
         /\ overlapped' \in BOOLEAN
<1>1. c \in MaybeView /\ RequestInv(q) /\ WaitInv(p, q) /\ p \in Panel /\ p.entry \in MaybeView
  BY DEF Shown, WaitInv, Panel
<1>2. CASE ~MustOpen(p, c)
  BY <1>2 DEF Settle
<1>3. CASE MustOpen(p, c)
  <2> DEFINE opening == WithChanges(p.entry, c)
             c2 == [opening EXCEPT !.opened = TRUE]
             p2 == [p EXCEPT !.openedSent = TRUE]
  <2>1. PICK s \in Free(q) :
          /\ panel' = p2 /\ changes' = c2
          /\ requests' = [q EXCEPT ![s] = Sent("open", opening)]
          /\ overlapped' = (crossed \/ ~Alone(q))
    BY <1>3 DEF Settle
  <2>2. p.mounted /\ p.entry # NoView /\ ~p.openedSent
    BY <1>3 DEF MustOpen
  <2>3. s \in Slot /\ q[s].kind = "none" /\ q \in [Slot -> Asked]
    BY <1>1, <2>1 DEF Free, RequestInv
  <2>4. opening \in View /\ opening \in MaybeView
    BY <1>1, <2>2, WithChangesFacts DEF MaybeView
  <2>5. /\ c2 \in View /\ c2 \in MaybeView /\ c2 # NoView
        /\ c2 = [opened |-> TRUE, bookmarked |-> opening.bookmarked,
                 translation |-> opening.translation, deadline |-> opening.deadline]
    BY <2>4, OpenedFacts, ViewAssumption DEF MaybeView
  <2>6. /\ p2 \in Panel /\ p2.openedSent /\ p2.mounted /\ p2.load = p.load
        /\ p2.entry = p.entry /\ p2.view = p.view /\ p2.reader = p.reader
    BY <1>1, <2>2 DEF Panel
  <2> HIDE DEF opening, c2, p2
  <2>7. PICK a : a = Sent("open", opening)
    OBVIOUS
  <2>8. /\ a \in Asked /\ a.kind = "open" /\ a.entry = opening /\ a.stage = "sent"
        /\ a.attached /\ ~a.aborted
    <3>1. "open" \in Kinds /\ "open" # "card"
      BY KindFacts
    <3>2. /\ a \in Asked /\ a.kind = "open" /\ a.entry = opening /\ a.stage = "sent"
          /\ (a.attached <=> "open" # "card") /\ ~a.aborted
      BY <2>4, <2>7, <3>1, SentFacts
    <3> QED
      BY <3>1, <3>2
  <2>9. /\ requests'[s] = a /\ requests' \in [Slot -> Asked]
        /\ \A t \in Slot : t # s => requests'[t] = q[t]
    BY <2>1, <2>3, <2>7, <2>8
  <2>10. RequestInv(requests')
    BY <1>1, <2>4, <2>8, <2>9 DEF RequestInv, IsReader
  <2>11. WaitInv(panel', requests')
    <3>1. /\ \A t \in Slot : IsLoad(requests', t) <=> IsLoad(q, t)
          /\ \A t \in Slot : IsReader(requests', t) <=> IsReader(q, t)
      BY <2>3, <2>8, <2>9 DEF IsLoad, IsReader
    <3>2. \A t \in Slot : IsOpening(requests', t) => t = s
      BY <1>1, <2>2, <2>8, <2>9 DEF IsOpening, WaitInv
    <3> QED
      BY <1>1, <2>1, <2>6, <2>9, <3>1, <3>2 DEF WaitInv
  <2>12. ASSUME ~overlapped', ~lo PROVE AgreeInv(r, li, changes', panel', requests')
    <3>1. AgreeInv(r, li, c, p, q) /\ Alone(q)
      BY <2>1, <2>12 DEF Shown
    <3>2. \A t \in Slot : ~IsWork(requests', t) /\ ~IsWork(q, t)
      BY <2>8, <2>9, <3>1 DEF Alone, IsWork
    <3>3. \A t \in Slot : ~IsChange(requests', t) /\ ~IsChange(q, t)
      BY <3>2 DEF IsChange, IsWork
    <3>4. opening = WithChanges(li, c)
      <4>1. c = NoView => p.entry = li
        BY <2>2, <3>1 DEF AgreeInv
      <4> QED
        BY <4>1 DEF WithChanges, opening
    <3>5. StoredView(r, q) = opening
      BY <3>1, <3>3, <3>4 DEF AgreeInv, IsStored
    <3>6. StoredView(r, requests') = c2
      <4>1. Opened(r, requests') = TRUE
        BY <2>3, <2>8, <2>9 DEF Opened
      <4>2. /\ opening.bookmarked = r.bookmarked /\ opening.translation = r.translation
            /\ opening.deadline = r.deadline
        BY <3>5 DEF StoredView
      <4> QED
        BY <2>5, <4>1, <4>2 DEF StoredView
    <3>7. WithChanges(li, changes') = c2 /\ changes' # NoView
      BY <2>1, <2>5 DEF WithChanges
    <3>8. \A t \in Slot : ~requests'[t].aborted /\ requests'[t].kind # "original"
      BY <2>8, <2>9, <3>1 DEF AgreeInv
    <3> QED
      BY <3>2, <3>3, <3>6, <3>7, <3>8 DEF AgreeInv, IsStored
  <2>13. overlapped' \in BOOLEAN
    BY <2>1
  <2>14. changes' \in MaybeView /\ changes' # NoView
    BY <2>1, <2>5
  <2> QED
    BY <2>10, <2>11, <2>12, <2>13, <2>14 DEF Shown
<1> QED
  BY <1>2, <1>3

\* The same of a step that leaves the server and the list alone.
LEMMA SettleInv ==
  ASSUME Inv, NEW c, NEW p, NEW q, NEW crossed \in BOOLEAN, Settle(p, c, q, crossed),
         UNCHANGED <<row, page, texts, listed>>,
         turns' \in 0..MaxTurns, selected' \in MaybeView, lost' \in BOOLEAN,
         Shown(row, listed, c, selected', p, q, crossed, lost')
  PROVE  Inv'
<1>1. listed \in View
  BY DEF Inv, TypeInv
<1>2. /\ Shown(row, listed, changes', selected', panel', requests', overlapped', lost')
      /\ overlapped' \in BOOLEAN
  BY <1>1, SettleShown
<1>3. Shown(row', listed', changes', selected', panel', requests', overlapped', lost')
  BY <1>2
<1>4. TypeInv'
  BY <1>2 DEF Inv, TypeInv
<1>5. DeadlineIsOfStoredPage'
  BY DEF Inv, DeadlineIsOfStoredPage
<1> QED
  BY <1>3, <1>4, <1>5 DEF Inv

\* A user's request.
Works == {"load", "bookmark", "card", "reader", "original", "translate"}

LEMMA AskInv ==
  ASSUME Inv, NEW p \in Panel, NEW kind \in Works, NEW entry \in MaybeView,
         Request(p, kind, entry), UNCHANGED <<row, page, texts, listed, selected>>,
         lost' \in BOOLEAN, lost => lost', ~lost' => kind # "original",
         kind # "load" => entry \in View,
         kind # "card" \/ panel.mounted => p.mounted,
         (p.load = "loaded") <=> (p.entry # NoView),
         (p.view # 0) <=> (p.reader = "loaded"),
         kind = "load" => p.load = "loading" /\ \A s \in Slot : ~IsLoad(requests, s),
         kind # "load" => p.load = panel.load,
         kind = "reader" => p.reader = "loading" /\ panel.reader # "loading",
         kind # "reader" => (p.reader = "loading" <=> panel.reader = "loading"),
         \A s \in Slot : IsOpening(requests, s) => p.openedSent,
         ~lost /\ ~overlapped =>
           /\ changes = NoView => p.entry \in {NoView, listed}
           /\ kind \notin {"load", "original"} => entry = Card
  PROVE  Inv'
<1>1. PICK s \in Free(requests) :
        Settle(p, changes, [requests EXCEPT ![s] = Sent(kind, entry)],
               overlapped \/ ~Alone(requests))
  BY DEF Request
<1>2. PICK a : a = Sent(kind, entry)
  OBVIOUS
<1>3. PICK q : q = [requests EXCEPT ![s] = a]
  OBVIOUS
<1>4. PICK crossed \in BOOLEAN : crossed <=> overlapped \/ ~Alone(requests)
  OBVIOUS
<1>5. /\ TypeInv /\ RequestInv(requests) /\ WaitInv(panel, requests)
      /\ changes \in MaybeView
      /\ changes = NoView => selected \in {NoView, listed}
      /\ ~overlapped /\ ~lost => AgreeInv(row, listed, changes, panel, requests)
  BY DEF Inv, Shown
<1>6. Settle(p, changes, q, crossed)
  <2>1. crossed = (overlapped \/ ~Alone(requests))
    BY <1>4, <1>5 DEF TypeInv
  <2> QED
    BY <1>1, <1>2, <1>3, <2>1
<1>7. kind \in Kinds /\ kind # "none" /\ kind # "open"
  BY DEF Works, Kinds
<1>8. /\ a \in Asked /\ a.kind = kind /\ a.entry = entry /\ a.stage = "sent"
      /\ (a.attached <=> kind # "card") /\ ~a.aborted
  BY <1>2, <1>7, SentFacts
<1>9. /\ s \in Slot /\ requests[s].kind = "none" /\ requests \in [Slot -> Asked]
  BY <1>5 DEF Free, RequestInv
<1>10. /\ q[s] = a /\ q \in [Slot -> Asked]
       /\ \A t \in Slot : t # s => q[t] = requests[t]
  BY <1>3, <1>8, <1>9
<1>11. RequestInv(q)
  BY <1>5, <1>7, <1>8, <1>10 DEF RequestInv, IsReader
<1>12. WaitInv(p, q)
  <2>1. \A t \in Slot : q[t].attached => p.mounted
    BY <1>5, <1>8, <1>10 DEF WaitInv
  <2>2. /\ \A t \in Slot : t # s => (IsLoad(q, t) <=> IsLoad(requests, t))
        /\ ~IsLoad(requests, s)
        /\ IsLoad(q, s) => kind = "load"
    BY <1>8, <1>9, <1>10 DEF IsLoad
  <2>3. /\ \A t \in Slot : t # s => (IsReader(q, t) <=> IsReader(requests, t))
        /\ ~IsReader(requests, s)
        /\ IsReader(q, s) <=> kind = "reader"
    BY <1>8, <1>9, <1>10 DEF IsReader
  <2>4. \A t \in Slot : IsOpening(q, t) <=> IsOpening(requests, t)
    BY <1>7, <1>8, <1>9, <1>10 DEF IsOpening
  <2>5. /\ \A t \in Slot : IsLoad(q, t) => p.load = "loading"
        /\ \A t, u \in Slot : IsLoad(q, t) /\ IsLoad(q, u) => t = u
    BY <1>5, <2>2 DEF WaitInv
  <2>6. /\ \A t \in Slot : IsReader(q, t) => p.reader = "loading"
        /\ p.reader = "loading" => \E t \in Slot : IsReader(q, t)
        /\ \A t, u \in Slot : IsReader(q, t) /\ IsReader(q, u) => t = u
    <3>1. (\E t \in Slot : IsReader(requests, t)) <=> panel.reader = "loading"
      BY <1>5 DEF WaitInv
    <3>2. \A t, u \in Slot : IsReader(requests, t) /\ IsReader(requests, u) => t = u
      BY <1>5 DEF WaitInv
    <3>3. CASE kind = "reader"
      <4>1. \A t \in Slot : IsReader(q, t) <=> t = s
        BY <1>9, <2>3, <3>1, <3>3
      <4> QED
        BY <1>9, <3>3, <4>1
    <3>4. CASE kind # "reader"
      <4>1. \A t \in Slot : IsReader(q, t) <=> IsReader(requests, t)
        BY <2>3, <3>4
      <4> QED
        BY <3>1, <3>2, <3>4, <4>1
    <3> QED
      BY <3>3, <3>4
  <2>7. /\ \A t \in Slot : IsOpening(q, t) => p.openedSent
        /\ \A t, u \in Slot : IsOpening(q, t) /\ IsOpening(q, u) => t = u
    BY <1>5, <2>4 DEF WaitInv
  <2> QED
    BY <2>1, <2>5, <2>6, <2>7 DEF WaitInv
<1>13. ASSUME ~crossed, ~lost' PROVE AgreeInv(row, listed, changes, p, q)
  <2>1. AgreeInv(row, listed, changes, panel, requests) /\ Alone(requests) /\ ~overlapped /\ ~lost
    BY <1>4, <1>5, <1>13
  <2>2. \A t \in Slot : ~IsWork(requests, t) /\ ~IsChange(requests, t)
    BY <2>1 DEF Alone, IsWork, IsChange
  <2>3. /\ \A t \in Slot : IsWork(q, t) => t = s
        /\ \A t \in Slot : IsChange(q, t) => t = s
    BY <1>10, <2>2 DEF IsWork, IsChange
  <2>4. \A t \in Slot : ~IsStored(q, t) /\ ~IsStored(requests, t)
    BY <1>8, <1>10, <2>2, <2>3 DEF IsStored
  <2>5. StoredView(row, q) = StoredView(row, requests)
    <3>1. Opened(row, q) = Opened(row, requests)
      <4>1. (\E t \in Slot : q[t].kind = "open" /\ q[t].stage = "sent") <=>
            (\E t \in Slot : requests[t].kind = "open" /\ requests[t].stage = "sent")
        BY <1>7, <1>8, <1>9, <1>10
      <4> QED
        BY <4>1 DEF Opened
    <3> QED
      BY <3>1 DEF StoredView
  <2>6. \A t \in Slot : ~q[t].aborted /\ q[t].kind # "original"
    BY <1>8, <1>10, <1>13, <2>1 DEF AgreeInv
  <2>7. IsChange(q, s) => entry = WithChanges(listed, changes)
    BY <1>8, <1>10, <2>1 DEF IsChange, Card
  <2>8. changes = NoView =>
          /\ \A t \in Slot : q[t].kind # "open"
          /\ p.entry \in {NoView, listed}
          /\ \A t \in Slot : q[t].kind = "load" /\ q[t].stage = "answered" => q[t].entry = listed
    BY <1>7, <1>8, <1>10, <2>1 DEF AgreeInv
  <2> QED
    BY <1>8, <1>10, <2>1, <2>3, <2>4, <2>5, <2>6, <2>7, <2>8 DEF AgreeInv
<1>14. turns' \in 0..MaxTurns /\ selected' \in MaybeView
  <2>1. turns \in 0..MaxTurns /\ turns < MaxTurns /\ turns' = turns + 1 /\ MaxTurns \in Nat
    BY <1>5, PanelAssumption DEF Request, TypeInv
  <2> QED
    BY <1>5, <2>1 DEF TypeInv
<1>15. Shown(row, listed, changes, selected', p, q, crossed, lost')
  BY <1>5, <1>11, <1>12, <1>13 DEF Shown
<1> QED
  BY <1>6, <1>14, <1>15, SettleInv

LEMMA InvFacts ==
  ASSUME Inv
  PROVE  /\ TypeInv /\ RequestInv(requests) /\ WaitInv(panel, requests)
         /\ panel \in Panel /\ panel.entry \in MaybeView
         /\ listed \in View /\ changes \in MaybeView /\ selected \in MaybeView
         /\ changes = NoView => selected \in {NoView, listed}
         /\ ~overlapped /\ ~lost => AgreeInv(row, listed, changes, panel, requests)
         /\ Card \in View /\ (changes = NoView => Card = listed)
<1>1. WaitInv(panel, requests) /\ listed \in View /\ changes \in MaybeView /\ listed # NoView
  BY ViewAssumption DEF Inv, Shown, TypeInv
<1>2. panel \in Panel /\ panel.entry \in MaybeView
  BY <1>1 DEF WaitInv, Panel
<1>3. Card \in View /\ (changes = NoView => Card = listed)
  BY <1>1, WithChangesFacts DEF Card, MaybeView
<1> QED
  BY <1>1, <1>2, <1>3 DEF Inv, Shown, TypeInv

LEMMA PanelEntryFacts ==
  ASSUME Inv, panel.entry # NoView
  PROVE  /\ PanelEntry \in View
         /\ ~overlapped /\ ~lost => PanelEntry = Card
<1>1. PanelEntry \in View
  BY InvFacts, WithChangesFacts DEF PanelEntry
<1>2. ASSUME ~overlapped, ~lost PROVE PanelEntry = Card
  BY <1>2, InvFacts DEF AgreeInv, PanelEntry, Card, WithChanges
<1> QED
  BY <1>1, <1>2

LEMMA AgreeOfEntry ==
  ASSUME NEW r, NEW li, NEW c, NEW p, NEW q, AgreeInv(r, li, c, p, q),
         NEW p2, c = NoView => p2.entry \in {NoView, li}
  PROVE  AgreeInv(r, li, c, p2, q)
BY DEF AgreeInv

(***************************************************************************)
(* Opening and leaving.                                                    *)
(***************************************************************************)
LEMMA UnmountedFacts ==
  /\ Unmounted \in Panel /\ ~Unmounted.mounted /\ Unmounted.load = "loading"
  /\ Unmounted.entry = NoView /\ Unmounted.reader = "off" /\ Unmounted.view = 0
  /\ ~Unmounted.openedSent
<1>1. 0 \in MaybePage /\ NoView \in MaybeView
  BY DEF MaybePage, MaybeView
<1> QED
  BY <1>1, KindFacts DEF Unmounted, Panel

LEMMA NewPanelFacts ==
  ASSUME NEW se \in MaybeView, NEW c
  PROVE  /\ NewPanel(se, c) \in Panel /\ NewPanel(se, c).mounted
         /\ NewPanel(se, c).load = (IF se = NoView THEN "loading" ELSE "loaded")
         /\ NewPanel(se, c).entry = se /\ NewPanel(se, c).reader = "off"
         /\ NewPanel(se, c).view = 0
<1> DEFINE on == (se # NoView /\ WithChanges(se, c).translation # 0)
           load == IF se = NoView THEN "loading" ELSE "loaded"
<1>1. on \in BOOLEAN /\ load \in LoadStates
  BY KindFacts
<1>2. NewPanel(se, c) = [Unmounted EXCEPT !.mounted = TRUE, !.entry = se, !.load = load,
                                         !.showTranslation = on]
  BY DEF NewPanel
<1> HIDE DEF on, load
<1>3. /\ NewPanel(se, c) \in Panel /\ NewPanel(se, c).mounted /\ NewPanel(se, c).load = load
      /\ NewPanel(se, c).entry = se /\ NewPanel(se, c).reader = Unmounted.reader
      /\ NewPanel(se, c).view = Unmounted.view
  BY <1>1, <1>2, UnmountedFacts DEF Panel
<1> QED
  BY <1>3, UnmountedFacts DEF load

LEMMA NothingAttached ==
  ASSUME Inv, ~panel.mounted
  PROVE  /\ \A s \in Slot : /\ ~requests[s].attached /\ ~IsLoad(requests, s)
                             /\ ~IsReader(requests, s) /\ ~IsOpening(requests, s)
         /\ panel.reader # "loading"
<1>1. \A s \in Slot : /\ ~requests[s].attached /\ ~IsLoad(requests, s)
                      /\ ~IsReader(requests, s) /\ ~IsOpening(requests, s)
  BY InvFacts DEF WaitInv, RequestInv, IsLoad, IsOpening
<1> QED
  BY <1>1, InvFacts DEF WaitInv

\* A panel that is opened with an Entry.
LEMMA OpenedInv ==
  ASSUME Inv, ~panel.mounted, NEW se \in View, changes = NoView => se = listed,
         Settle(NewPanel(se, changes), changes, requests, overlapped),
         selected' = se, UNCHANGED <<row, page, texts, listed, turns, lost>>
  PROVE  Inv'
<1>1. PICK p : p = NewPanel(se, changes)
  OBVIOUS
<1>2. se \in MaybeView /\ se # NoView
  BY ViewAssumption DEF MaybeView
<1>3. /\ p \in Panel /\ p.mounted /\ p.load = "loaded" /\ p.entry = se
      /\ p.reader = "off" /\ p.view = 0
  BY <1>1, <1>2, NewPanelFacts
<1>4. WaitInv(p, requests)
  BY <1>2, <1>3, NothingAttached DEF WaitInv
<1>5. ~overlapped /\ ~lost => AgreeInv(row, listed, changes, p, requests)
  BY <1>3, InvFacts, AgreeOfEntry
<1>6. Shown(row, listed, changes, selected', p, requests, overlapped, lost')
  BY <1>4, <1>5, InvFacts DEF Shown
<1>7. /\ turns' \in 0..MaxTurns /\ selected' \in MaybeView /\ lost' \in BOOLEAN
      /\ overlapped \in BOOLEAN
  BY <1>2, InvFacts DEF TypeInv
<1> QED
  BY <1>1, <1>6, <1>7, SettleInv

LEMMA PickCardInv == Inv /\ PickCard => Inv'
BY OpenedInv, InvFacts DEF PickCard, server

LEMMA PickShownCardInv == Inv /\ PickShownCard => Inv'
<1> SUFFICES ASSUME Inv, PickShownCard PROVE Inv'
  OBVIOUS
<1>1. /\ selected' = Card /\ UNCHANGED <<row, page, texts, listed, changes, panel, requests>>
      /\ UNCHANGED <<turns, overlapped, lost>>
  BY DEF PickShownCard, server
<1>2. Card \in MaybeView
  BY InvFacts DEF MaybeView
<1>3. Shown(row, listed, changes, selected', panel, requests, overlapped, lost)
  BY <1>1, InvFacts DEF Shown
<1>4. Shown(row', listed', changes', selected', panel', requests', overlapped', lost')
  BY <1>1, <1>3
<1>5. TypeInv' /\ DeadlineIsOfStoredPage'
  BY <1>1, <1>2 DEF Inv, TypeInv, DeadlineIsOfStoredPage
<1> QED
  BY <1>4, <1>5 DEF Inv

LEMMA OpenAddressInv == Inv /\ OpenAddress => Inv'
<1> SUFFICES ASSUME Inv, OpenAddress PROVE Inv'
  OBVIOUS
<1>1. ~panel.mounted /\ UNCHANGED <<row, page, texts, listed, selected, lost>>
  BY DEF OpenAddress, server
<1>2. CASE selected = NoView
  <2>1. PICK p : p = NewPanel(NoView, changes)
    OBVIOUS
  <2>2. NoView \in MaybeView
    BY DEF MaybeView
  <2>3. /\ p \in Panel /\ p.mounted /\ p.load = "loading" /\ p.entry = NoView
        /\ p.reader = "off" /\ p.view = 0
    BY <2>1, <2>2, NewPanelFacts
  <2>4. Request(p, "load", NoView)
    BY <1>2, <2>1 DEF OpenAddress
  <2>5. lost' \in BOOLEAN /\ "load" \in Works /\ lost' = lost
    BY <1>1, InvFacts DEF TypeInv, Works
  <2> QED
    BY <1>1, <2>2, <2>3, <2>4, <2>5, NothingAttached, AskInv
<1>3. CASE selected # NoView
  <2>1. selected \in View /\ (changes = NoView => selected = listed)
    BY <1>3, InvFacts DEF MaybeView
  <2>2. Settle(NewPanel(selected, changes), changes, requests, overlapped) /\ turns' = turns
    BY <1>3 DEF OpenAddress
  <2> QED
    BY <1>1, <2>1, <2>2, OpenedInv
<1> QED
  BY <1>2, <1>3

LEMMA RetryLoadInv == Inv /\ RetryLoad => Inv'
<1> SUFFICES ASSUME Inv, RetryLoad PROVE Inv'
  OBVIOUS
<1>1. PICK p : p = [panel EXCEPT !.load = "loading"]
  OBVIOUS
<1>2. /\ panel.mounted /\ panel.load = "failed" /\ Request(p, "load", NoView)
      /\ UNCHANGED <<row, page, texts, listed, selected, lost>>
  BY <1>1 DEF RetryLoad, server
<1>3. /\ p \in Panel /\ p.mounted /\ p.load = "loading" /\ p.entry = panel.entry
      /\ p.reader = panel.reader /\ p.view = panel.view
      /\ p.openedSent <=> panel.openedSent
  BY <1>1, <1>2, InvFacts, KindFacts DEF Panel
<1>4. panel.entry = NoView /\ \A s \in Slot : ~IsLoad(requests, s)
  BY <1>2, InvFacts DEF WaitInv
<1>5. (p.view # 0) <=> (p.reader = "loaded")
  BY <1>3, InvFacts DEF WaitInv
<1>6. \A s \in Slot : IsOpening(requests, s) => p.openedSent
  BY <1>3, InvFacts DEF WaitInv
<1>7. lost' \in BOOLEAN /\ "load" \in Works /\ NoView \in MaybeView
  BY <1>2, InvFacts DEF TypeInv, Works, MaybeView
<1> QED
  BY <1>2, <1>3, <1>4, <1>5, <1>6, <1>7, AskInv

\* Requests that differ in who waits for them only.
IsSame(a, b) ==
  /\ a.kind = b.kind /\ a.entry = b.entry /\ a.stage = b.stage
  /\ a.version = b.version /\ a.text = b.text

LEMMA AgreeOfSame ==
  ASSUME NEW r, NEW li, NEW c, NEW p, NEW q, AgreeInv(r, li, c, p, q), NEW q2,
         \A s \in Slot : IsSame(q2[s], q[s]) /\ ~q2[s].aborted
  PROVE  AgreeInv(r, li, c, p, q2)
<1>1. \A s \in Slot : /\ IsWork(q2, s) <=> IsWork(q, s)
                      /\ IsChange(q2, s) <=> IsChange(q, s)
                      /\ IsStored(q2, s) <=> IsStored(q, s)
  BY DEF IsSame, IsWork, IsChange, IsStored
<1>2. \A s \in Slot : Published(q2[s]) = Published(q[s])
  BY DEF IsSame, Published
<1>3. StoredView(r, q2) = StoredView(r, q)
  <2>1. Opened(r, q2) = Opened(r, q)
    <3>1. (\E t \in Slot : q2[t].kind = "open" /\ q2[t].stage = "sent") <=>
          (\E t \in Slot : q[t].kind = "open" /\ q[t].stage = "sent")
      BY DEF IsSame
    <3> QED
      BY <3>1 DEF Opened
  <2> QED
    BY <2>1 DEF StoredView
<1>4. \A s \in Slot : q2[s].kind = q[s].kind /\ q2[s].entry = q[s].entry /\ q2[s].stage = q[s].stage
  BY DEF IsSame
<1> QED
  BY <1>1, <1>2, <1>3, <1>4 DEF AgreeInv

LEMMA AbortFacts ==
  ASSUME NEW q \in [Slot -> Asked], NEW s \in Slot
  PROVE  /\ AbortReader(q)[s] \in Asked /\ IsSame(AbortReader(q)[s], q[s])
         /\ AbortReader(q)[s].attached <=> q[s].attached
         /\ AbortReader(q)[s].aborted <=> q[s].aborted \/ q[s].kind = "reader"
<1>1. PICK a : a = AbortReader(q)[s]
  OBVIOUS
<1>2. a = IF q[s].kind = "reader" THEN [q[s] EXCEPT !.aborted = TRUE] ELSE q[s]
  BY <1>1 DEF AbortReader
<1>3. q[s] \in Asked
  OBVIOUS
<1>4. CASE q[s].kind = "reader"
  <2>1. a = [q[s] EXCEPT !.aborted = TRUE]
    BY <1>2, <1>4
  <2>2. /\ a \in Asked /\ a.aborted /\ (a.attached <=> q[s].attached)
        /\ a.kind = q[s].kind /\ a.entry = q[s].entry /\ a.stage = q[s].stage
        /\ a.version = q[s].version /\ a.text = q[s].text
    BY <1>3, <2>1 DEF Asked
  <2> QED
    BY <1>1, <1>4, <2>2 DEF IsSame
<1>5. CASE q[s].kind # "reader"
  BY <1>1, <1>2, <1>3, <1>5 DEF IsSame
<1> QED
  BY <1>4, <1>5

LEMMA DetachFacts ==
  ASSUME NEW q \in [Slot -> Asked], NEW s \in Slot
  PROVE  /\ Detach(q)[s] \in Asked /\ IsSame(Detach(q)[s], q[s])
         /\ ~Detach(q)[s].attached
         /\ Detach(q)[s].aborted <=> q[s].aborted \/ q[s].kind = "reader"
<1>1. PICK a : a = Detach(q)[s]
  OBVIOUS
<1>2. PICK b : b = AbortReader(q)[s]
  OBVIOUS
<1>3. a = [b EXCEPT !.attached = FALSE]
  BY <1>1, <1>2 DEF Detach
<1>4. /\ b \in Asked /\ IsSame(b, q[s])
      /\ b.aborted <=> q[s].aborted \/ q[s].kind = "reader"
  BY <1>2, AbortFacts
<1>5. /\ a \in Asked /\ ~a.attached /\ (a.aborted <=> b.aborted)
      /\ a.kind = b.kind /\ a.entry = b.entry /\ a.stage = b.stage
      /\ a.version = b.version /\ a.text = b.text
  BY <1>3, <1>4 DEF Asked
<1> QED
  BY <1>1, <1>4, <1>5 DEF IsSame

\* The reader's request, if there is one, is no longer waited for.
LEMMA AbortedRequests ==
  ASSUME Inv, NEW q \in [Slot -> Asked], NEW p, p.entry = panel.entry \/ p.entry = NoView,
         \A s \in Slot : /\ IsSame(q[s], requests[s])
                         /\ q[s].aborted <=> requests[s].aborted \/ requests[s].kind = "reader"
  PROVE  /\ RequestInv(q)
         /\ \A s \in Slot : ~IsReader(q, s)
         /\ ~overlapped /\ ~lost /\ ~Reading => AgreeInv(row, listed, changes, p, q)
<1>1. \A s \in Slot : ~IsReader(q, s)
  BY DEF IsReader, IsSame
<1>2. RequestInv(q)
  <2>1. RequestInv(requests)
    BY InvFacts
  <2> QED
    BY <1>1, <2>1 DEF RequestInv, IsSame
<1>3. ASSUME ~overlapped, ~lost, ~Reading PROVE AgreeInv(row, listed, changes, p, q)
  <2>1. AgreeInv(row, listed, changes, panel, requests)
    BY <1>3, InvFacts
  <2>2. \A s \in Slot : IsSame(q[s], requests[s]) /\ ~q[s].aborted
    BY <1>3, <2>1 DEF Reading, AgreeInv
  <2>3. AgreeInv(row, listed, changes, panel, q)
    BY <2>1, <2>2, AgreeOfSame
  <2>4. changes = NoView => p.entry \in {NoView, listed}
    BY <2>1 DEF AgreeInv
  <2> QED
    BY <2>3, <2>4, AgreeOfEntry
<1> QED
  BY <1>1, <1>2, <1>3

LEMMA LeaveInv == Inv /\ Leave => Inv'
<1> SUFFICES ASSUME Inv, Leave PROVE Inv'
  OBVIOUS
<1>1. /\ panel' = Unmounted /\ requests' = Detach(requests) /\ lost' = (lost \/ Reading)
      /\ selected' \in {selected, NoView}
      /\ UNCHANGED <<row, page, texts, listed, changes, turns, overlapped>>
  BY DEF Leave, server
<1>2. requests \in [Slot -> Asked]
  BY InvFacts DEF RequestInv
<1>3. PICK q : q = Detach(requests)
  OBVIOUS
<1>4. ASSUME NEW s \in Slot
      PROVE  /\ q[s] \in Asked /\ IsSame(q[s], requests[s]) /\ ~q[s].attached
             /\ q[s].aborted <=> requests[s].aborted \/ requests[s].kind = "reader"
  BY <1>2, <1>3, DetachFacts
<1>5. /\ RequestInv(q) /\ \A s \in Slot : ~IsReader(q, s)
      /\ ~overlapped /\ ~lost /\ ~Reading => AgreeInv(row, listed, changes, Unmounted, q)
  <2>1. PICK p : p = Unmounted
    OBVIOUS
  <2>2. p.entry = NoView
    BY <2>1, UnmountedFacts
  <2>3. \A s \in Slot : /\ IsSame(q[s], requests[s])
                        /\ q[s].aborted <=> requests[s].aborted \/ requests[s].kind = "reader"
    BY <1>4
  <2>4. q \in [Slot -> Asked]
    <3>1. q = [s \in Slot |-> q[s]]
      BY <1>3 DEF Detach
    <3> QED
      BY <1>4, <3>1
  <2>5. /\ RequestInv(q)
        /\ \A s \in Slot : ~IsReader(q, s)
        /\ ~overlapped /\ ~lost /\ ~Reading => AgreeInv(row, listed, changes, p, q)
    BY <2>2, <2>3, <2>4, AbortedRequests
  <2> QED
    BY <2>1, <2>5
<1>6. WaitInv(Unmounted, q)
  <2>1. \A s \in Slot : ~q[s].attached
    BY <1>4
  <2>2. \A s \in Slot : ~IsLoad(q, s) /\ ~IsOpening(q, s)
    BY <2>1 DEF IsLoad, IsOpening
  <2>3. \A s \in Slot : ~IsReader(q, s)
    BY <1>5
  <2> QED
    BY <2>1, <2>2, <2>3, UnmountedFacts DEF WaitInv
<1>7. Shown(row, listed, changes, selected', Unmounted, q, overlapped, lost')
  BY <1>1, <1>5, <1>6, InvFacts DEF Shown
<1>8. Shown(row', listed', changes', selected', panel', requests', overlapped', lost')
  BY <1>1, <1>3, <1>7
<1>9. TypeInv' /\ DeadlineIsOfStoredPage'
  <2>1. lost' \in BOOLEAN /\ selected' \in MaybeView
    BY <1>1, InvFacts DEF MaybeView
  <2> QED
    BY <1>1, <2>1 DEF Inv, TypeInv, DeadlineIsOfStoredPage
<1> QED
  BY <1>8, <1>9 DEF Inv

LEMMA RowViewFacts ==
  ASSUME row \in Row
  PROVE  /\ RowView \in View
         /\ \A q : Opened(row, q) = row.opened => StoredView(row, q) = RowView
BY DEF Row, RowView, View, StoredView

LEMMA RefreshInv == Inv /\ Refresh => Inv'
<1> SUFFICES ASSUME Inv, Refresh PROVE Inv'
  OBVIOUS
<1>1. /\ turns < MaxTurns /\ turns' = turns + 1 /\ listed' = RowView
      /\ changes' = NoView /\ selected' = NoView /\ panel' = Unmounted
      /\ requests' = [s \in Slot |-> IF requests[s].kind = "none" THEN NoRequest
                                    ELSE [requests[s] EXCEPT !.aborted = TRUE, !.attached = FALSE]]
      /\ overlapped' = FALSE /\ lost' = ~Quiet(requests)
      /\ UNCHANGED <<row, page, texts>>
  BY DEF Refresh, server
<1>2. /\ TypeInv /\ row \in Row /\ requests \in [Slot -> Asked] /\ RequestInv(requests)
  BY InvFacts DEF RequestInv, TypeInv
<1>3. PICK q : q = requests'
  OBVIOUS
<1>4. ASSUME NEW s \in Slot
      PROVE  /\ q[s] \in Asked /\ ~q[s].attached /\ q[s].kind = requests[s].kind
             /\ requests[s].kind = "none" => ~q[s].aborted
             /\ requests[s].kind # "none" => q[s].aborted /\ IsSame(q[s], requests[s])
  <2>1. CASE requests[s].kind = "none"
    <3>1. q[s] = NoRequest
      BY <1>1, <1>3, <2>1
    <3> QED
      BY <2>1, <3>1, NoRequestFacts
  <2>2. CASE requests[s].kind # "none"
    <3>1. q[s] = [requests[s] EXCEPT !.aborted = TRUE, !.attached = FALSE] /\ requests[s] \in Asked
      BY <1>1, <1>2, <1>3, <2>2
    <3>2. PICK a : a = q[s]
      OBVIOUS
    <3>3. /\ a \in Asked /\ ~a.attached /\ a.aborted
          /\ a.kind = requests[s].kind /\ a.entry = requests[s].entry
          /\ a.stage = requests[s].stage /\ a.version = requests[s].version
          /\ a.text = requests[s].text
      BY <3>1, <3>2 DEF Asked
    <3> QED
      BY <2>2, <3>2, <3>3 DEF IsSame
  <2> QED
    BY <2>1, <2>2
<1>5. q \in [Slot -> Asked]
  <2>1. q = [s \in Slot |-> q[s]]
    BY <1>1, <1>3
  <2> QED
    BY <1>4, <2>1
<1>6. \A s \in Slot : ~IsReader(q, s) /\ ~IsLoad(q, s) /\ ~IsOpening(q, s)
  BY <1>4 DEF IsReader, IsLoad, IsOpening
<1>7. RequestInv(q)
  BY <1>2, <1>4, <1>5, <1>6 DEF RequestInv, IsSame
<1>8. WaitInv(Unmounted, q)
  BY <1>4, <1>6, UnmountedFacts DEF WaitInv
<1>9. ASSUME Quiet(requests) PROVE AgreeInv(row, RowView, NoView, Unmounted, q)
  <2>1. \A s \in Slot : q[s].kind = "none" /\ ~q[s].aborted
    BY <1>4, <1>9 DEF Quiet
  <2>2. \A s \in Slot : ~IsWork(q, s) /\ ~IsChange(q, s) /\ ~IsStored(q, s)
    BY <2>1 DEF IsWork, IsChange, IsStored
  <2>3. StoredView(row, q) = RowView
    <3>1. Opened(row, q) = row.opened
      <4>1. row.opened \in BOOLEAN /\ ~\E s \in Slot : q[s].kind = "open" /\ q[s].stage = "sent"
        BY <1>2, <2>1 DEF Row
      <4> QED
        BY <4>1 DEF Opened
    <3> QED
      BY <1>2, <3>1, RowViewFacts
  <2> QED
    BY <2>1, <2>2, <2>3, UnmountedFacts DEF AgreeInv, WithChanges
<1>10. Shown(row, RowView, NoView, NoView, Unmounted, q, overlapped', lost')
  BY <1>1, <1>7, <1>8, <1>9 DEF Shown, MaybeView
<1>11. Shown(row', listed', changes', selected', panel', requests', overlapped', lost')
  BY <1>1, <1>3, <1>10
<1>12. TypeInv' /\ DeadlineIsOfStoredPage'
  <2>1. turns' \in 0..MaxTurns
    <3>1. turns \in 0..MaxTurns /\ MaxTurns \in Nat /\ turns < MaxTurns /\ turns' = turns + 1
      BY <1>1, <1>2, PanelAssumption DEF TypeInv
    <3> QED
      BY <3>1
  <2>2. listed' \in View /\ selected' \in MaybeView
    BY <1>1, <1>2, RowViewFacts DEF MaybeView
  <2>3. overlapped' \in BOOLEAN /\ lost' \in BOOLEAN
    BY <1>1
  <2> QED
    BY <1>1, <2>1, <2>2, <2>3 DEF Inv, TypeInv, DeadlineIsOfStoredPage
<1> QED
  BY <1>11, <1>12 DEF Inv

(***************************************************************************)
(* The buttons.                                                            *)
(***************************************************************************)
\* Panels that differ in a spinner or in the translation shown only.
IsLike(p, o) ==
  /\ p \in Panel /\ (p.mounted <=> o.mounted) /\ p.load = o.load /\ p.entry = o.entry
  /\ p.reader = o.reader /\ p.view = o.view /\ (p.openedSent <=> o.openedSent)

LEMMA LikeFacts ==
  ASSUME NEW o \in Panel
  PROVE  /\ IsLike(o, o)
         /\ \A b \in BOOLEAN : /\ IsLike([o EXCEPT !.bookmarking = b], o)
                              /\ IsLike([o EXCEPT !.translating = b], o)
                              /\ IsLike([o EXCEPT !.showTranslation = b], o)
                              /\ IsLike([o EXCEPT !.translating = b, !.showTranslation = TRUE], o)
<1>1. IsLike(o, o)
  BY DEF IsLike
<1>2. \A b \in BOOLEAN : IsLike([o EXCEPT !.bookmarking = b], o)
  BY DEF IsLike, Panel
<1>3. \A b \in BOOLEAN : IsLike([o EXCEPT !.translating = b], o)
  BY DEF IsLike, Panel
<1>4. \A b \in BOOLEAN : IsLike([o EXCEPT !.showTranslation = b], o)
  BY DEF IsLike, Panel
<1>5. \A b \in BOOLEAN : IsLike([o EXCEPT !.translating = b, !.showTranslation = TRUE], o)
  BY DEF IsLike, Panel
<1> QED
  BY <1>1, <1>2, <1>3, <1>4, <1>5

LEMMA WaitOfLike ==
  ASSUME NEW p, NEW o, NEW q, WaitInv(o, q), IsLike(p, o) PROVE WaitInv(p, q)
BY DEF WaitInv, IsLike

LEMMA ButtonInv ==
  ASSUME Inv, NEW p, IsLike(p, panel), NEW kind \in {"bookmark", "card", "original", "translate"},
         NEW entry \in View, Request(p, kind, entry),
         UNCHANGED <<row, page, texts, listed, selected>>,
         lost' \in BOOLEAN, lost => lost', ~lost' => kind # "original",
         kind # "card" => panel.mounted,
         ~lost /\ ~overlapped => entry = Card
  PROVE  Inv'
<1>1. WaitInv(p, requests) /\ p \in Panel
  BY InvFacts, WaitOfLike DEF IsLike
<1>2. /\ (p.load = "loaded") <=> (p.entry # NoView)
      /\ (p.view # 0) <=> (p.reader = "loaded")
      /\ \A s \in Slot : IsOpening(requests, s) => p.openedSent
  BY <1>1 DEF WaitInv
<1>3. entry \in MaybeView /\ kind \in Works /\ kind # "load" /\ kind # "reader"
  BY DEF MaybeView, Works
<1>4. kind # "card" \/ panel.mounted => p.mounted
  BY DEF IsLike
<1>5. p.load = panel.load /\ p.reader = panel.reader
  BY DEF IsLike
<1>6. ~lost /\ ~overlapped => (changes = NoView => p.entry \in {NoView, listed})
  BY InvFacts DEF IsLike, AgreeInv
<1> QED
  BY <1>1, <1>2, <1>3, <1>4, <1>5, <1>6, AskInv

LEMMA toggleBookmarkInv == Inv /\ toggleBookmark => Inv'
<1> SUFFICES ASSUME Inv, toggleBookmark PROVE Inv'
  OBVIOUS
<1>1. PICK p : p = [panel EXCEPT !.bookmarking = TRUE]
  OBVIOUS
<1>2. /\ panel.mounted /\ panel.entry # NoView
      /\ Request(p, "bookmark", PanelEntry)
      /\ UNCHANGED <<row, page, texts, listed, selected, lost>>
  BY <1>1 DEF toggleBookmark, Ready, server
<1>3. IsLike(p, panel)
  BY <1>1, InvFacts, LikeFacts
<1>4. lost' \in BOOLEAN /\ (lost' <=> lost)
  BY <1>2, InvFacts DEF TypeInv
<1> QED
  BY <1>2, <1>3, <1>4, PanelEntryFacts, ButtonInv

LEMMA toggleCardBookmarkInv == Inv /\ toggleCardBookmark => Inv'
<1> SUFFICES ASSUME Inv, toggleCardBookmark PROVE Inv'
  OBVIOUS
<1>1. Request(panel, "card", Card) /\ UNCHANGED <<row, page, texts, listed, selected, lost>>
  BY DEF toggleCardBookmark, server
<1>2. IsLike(panel, panel) /\ Card \in View
  BY InvFacts, LikeFacts
<1>3. lost' \in BOOLEAN /\ (lost' <=> lost)
  BY <1>1, InvFacts DEF TypeInv
<1> QED
  BY <1>1, <1>2, <1>3, ButtonInv

LEMMA loadOriginalInv == Inv /\ loadOriginal => Inv'
<1> SUFFICES ASSUME Inv, loadOriginal PROVE Inv'
  OBVIOUS
<1>1. /\ panel.mounted /\ panel.entry # NoView /\ Request(panel, "original", PanelEntry)
      /\ lost' = TRUE /\ UNCHANGED <<row, page, texts, listed, selected>>
  BY DEF loadOriginal, Ready, server
<1>2. IsLike(panel, panel)
  BY InvFacts, LikeFacts
<1> QED
  BY <1>1, <1>2, PanelEntryFacts, ButtonInv

LEMMA toggleTranslationInv == Inv /\ toggleTranslation => Inv'
<1> SUFFICES ASSUME Inv, toggleTranslation PROVE Inv'
  OBVIOUS
<1>1. /\ panel.mounted /\ panel.entry # NoView
      /\ UNCHANGED <<row, page, texts, listed, selected, lost>>
  BY DEF toggleTranslation, Ready, server
<1>2. lost' \in BOOLEAN /\ (lost' <=> lost)
  BY <1>1, InvFacts DEF TypeInv
<1>3. CASE PanelEntry.translation # 0
  <2>1. /\ panel' = [panel EXCEPT !.showTranslation = ~panel.showTranslation]
        /\ UNCHANGED <<changes, requests, turns, overlapped>>
    BY <1>3 DEF toggleTranslation
  <2>2. IsLike(panel', panel)
    <3>1. PICK b \in BOOLEAN : b = ~panel.showTranslation
      OBVIOUS
    <3> QED
      BY <2>1, <3>1, InvFacts, LikeFacts
  <2>3. WaitInv(panel', requests)
    BY <2>2, InvFacts, WaitOfLike
  <2>4. ~overlapped /\ ~lost => AgreeInv(row, listed, changes, panel', requests)
    BY <2>2, InvFacts, AgreeOfEntry DEF IsLike, AgreeInv
  <2>5. Shown(row, listed, changes, selected, panel', requests, overlapped, lost)
    BY <2>3, <2>4, InvFacts DEF Shown
  <2>6. Shown(row', listed', changes', selected', panel', requests', overlapped', lost')
    BY <1>1, <2>1, <2>5
  <2>7. TypeInv' /\ DeadlineIsOfStoredPage'
    BY <1>1, <2>1 DEF Inv, TypeInv, DeadlineIsOfStoredPage
  <2> QED
    BY <2>6, <2>7 DEF Inv
<1>4. CASE ~(PanelEntry.translation # 0)
  <2>1. PICK p : p = [panel EXCEPT !.translating = TRUE]
    OBVIOUS
  <2>2. Request(p, "translate", PanelEntry)
    BY <1>4, <2>1 DEF toggleTranslation
  <2>3. IsLike(p, panel)
    BY <2>1, InvFacts, LikeFacts
  <2> QED
    BY <1>1, <1>2, <2>2, <2>3, PanelEntryFacts, ButtonInv
<1> QED
  BY <1>3, <1>4

LEMMA StartReaderInv == Inv /\ StartReader => Inv'
<1> SUFFICES ASSUME Inv, StartReader PROVE Inv'
  OBVIOUS
<1>1. PICK p : p = [panel EXCEPT !.reader = "loading"]
  OBVIOUS
<1>2. /\ panel.mounted /\ panel.entry # NoView /\ panel.reader = "off"
      /\ Request(p, "reader", PanelEntry)
      /\ UNCHANGED <<row, page, texts, listed, selected, lost>>
  BY <1>1 DEF StartReader, Ready, server
<1>3. /\ p \in Panel /\ p.mounted /\ p.load = panel.load /\ p.entry = panel.entry
      /\ p.reader = "loading" /\ p.view = panel.view
      /\ p.openedSent <=> panel.openedSent
  BY <1>1, <1>2, InvFacts, KindFacts DEF Panel
<1>4. /\ (p.load = "loaded") <=> (p.entry # NoView)
      /\ (p.view # 0) <=> (p.reader = "loaded")
  BY <1>2, <1>3, InvFacts DEF WaitInv
<1>5. \A s \in Slot : IsOpening(requests, s) => p.openedSent
  BY <1>3, InvFacts DEF WaitInv
<1>6. lost' \in BOOLEAN /\ (lost' <=> lost) /\ "reader" \in Works
  BY <1>2, InvFacts DEF TypeInv, Works
<1>7. PanelEntry \in View /\ PanelEntry \in MaybeView
  BY <1>2, PanelEntryFacts DEF MaybeView
<1>8. ~lost /\ ~overlapped =>
        /\ changes = NoView => p.entry \in {NoView, listed}
        /\ PanelEntry = Card
  BY <1>2, <1>3, InvFacts, PanelEntryFacts DEF AgreeInv
<1> QED
  BY <1>2, <1>3, <1>4, <1>5, <1>6, <1>7, <1>8, AskInv

LEMMA StopReaderInv == Inv /\ StopReader => Inv'
<1> SUFFICES ASSUME Inv, StopReader PROVE Inv'
  OBVIOUS
<1>1. PICK p : p = [panel EXCEPT !.reader = "off", !.view = 0]
  OBVIOUS
<1>2. PICK q : q = AbortReader(requests)
  OBVIOUS
<1>3. /\ panel' = p /\ requests' = q /\ lost' = (lost \/ Reading)
      /\ UNCHANGED <<row, page, texts, listed, changes, selected, turns, overlapped>>
  BY <1>1, <1>2 DEF StopReader, server
<1>4. requests \in [Slot -> Asked]
  BY InvFacts DEF RequestInv
<1>5. ASSUME NEW s \in Slot
      PROVE  /\ q[s] \in Asked /\ IsSame(q[s], requests[s])
             /\ q[s].attached <=> requests[s].attached
             /\ q[s].aborted <=> requests[s].aborted \/ requests[s].kind = "reader"
  BY <1>2, <1>4, AbortFacts
<1>6. q \in [Slot -> Asked]
  <2>1. q = [s \in Slot |-> q[s]]
    BY <1>2 DEF AbortReader
  <2> QED
    BY <1>5, <2>1
<1>7. /\ p \in Panel /\ (p.mounted <=> panel.mounted) /\ p.load = panel.load
      /\ p.entry = panel.entry /\ p.reader = "off" /\ p.view = 0
      /\ p.openedSent <=> panel.openedSent
  <2>1. 0 \in MaybePage
    BY DEF MaybePage
  <2> QED
    BY <1>1, <2>1, InvFacts, KindFacts DEF Panel
<1>8. /\ RequestInv(q)
      /\ \A s \in Slot : ~IsReader(q, s)
      /\ ~overlapped /\ ~lost /\ ~Reading => AgreeInv(row, listed, changes, p, q)
  BY <1>5, <1>6, <1>7, AbortedRequests
<1>9. WaitInv(p, q)
  <2>1. WaitInv(panel, requests)
    BY InvFacts
  <2>2. \A s \in Slot : /\ q[s].attached <=> requests[s].attached
                        /\ IsLoad(q, s) => IsLoad(requests, s)
                        /\ IsOpening(q, s) => IsOpening(requests, s)
    BY <1>5 DEF IsLoad, IsOpening, IsSame
  <2> QED
    BY <1>7, <1>8, <2>1, <2>2 DEF WaitInv
<1>10. Shown(row, listed, changes, selected, p, q, overlapped, lost')
  BY <1>3, <1>8, <1>9, InvFacts DEF Shown
<1>11. Shown(row', listed', changes', selected', panel', requests', overlapped', lost')
  BY <1>3, <1>10
<1>12. TypeInv' /\ DeadlineIsOfStoredPage'
  BY <1>3 DEF Inv, TypeInv, DeadlineIsOfStoredPage
<1> QED
  BY <1>11, <1>12 DEF Inv

(***************************************************************************)
(* The server.                                                             *)
(***************************************************************************)
LEMMA ServedInv ==
  ASSUME Inv, NEW s \in Slot, NEW a \in Asked,
         requests' = [requests EXCEPT ![s] = a],
         UNCHANGED <<listed, changes, selected, panel, turns, overlapped, lost>>,
         row' \in Row, page' \in Pages, texts' \in 0..MaxTexts, DeadlineIsOfStoredPage',
         requests[s].kind # "none", requests[s].stage # "answered",
         a.kind = requests[s].kind,
         a.attached <=> requests[s].attached, a.aborted <=> requests[s].aborted,
         a.kind # "load" => a.entry = requests[s].entry,
         a.kind = "load" => a.stage = "answered" /\ a.entry \in View,
         a.kind \in {"reader", "original"} /\ a.stage \in {"fetched", "answered"} =>
           a.version \in Pages,
         ~overlapped /\ ~lost =>
           /\ a.kind = "load" /\ changes = NoView => a.entry = listed
           /\ StoredView(row', requests') =
                IF IsChange(requests, s) /\ a.stage = "answered" THEN Published(a)
                ELSE StoredView(row, requests)
  PROVE  Inv'
<1>1. PICK q : q = requests'
  OBVIOUS
<1>2. requests \in [Slot -> Asked] /\ RequestInv(requests) /\ WaitInv(panel, requests)
  BY InvFacts DEF RequestInv
<1>3. /\ q[s] = a /\ q \in [Slot -> Asked] /\ \A t \in Slot : t # s => q[t] = requests[t]
  BY <1>1, <1>2
<1>4. /\ \A t \in Slot : IsLoad(q, t) <=> IsLoad(requests, t)
      /\ \A t \in Slot : IsReader(q, t) <=> IsReader(requests, t)
      /\ \A t \in Slot : IsOpening(q, t) <=> IsOpening(requests, t)
      /\ \A t \in Slot : q[t].attached <=> requests[t].attached
      /\ \A t \in Slot : IsWork(q, t) <=> IsWork(requests, t)
      /\ \A t \in Slot : IsChange(q, t) <=> IsChange(requests, t)
  BY <1>3 DEF IsLoad, IsReader, IsOpening, IsWork, IsChange
<1>5. RequestInv(q)
  BY <1>2, <1>3, <1>4 DEF RequestInv
<1>6. WaitInv(panel, q)
  BY <1>2, <1>4 DEF WaitInv
<1>7. ASSUME ~overlapped, ~lost PROVE AgreeInv(row', listed, changes, panel, q)
  <2>1. AgreeInv(row, listed, changes, panel, requests)
    BY <1>7, InvFacts
  <2>2. \A t, u \in Slot : IsWork(q, t) /\ IsWork(q, u) => t = u
    BY <1>4, <2>1 DEF AgreeInv
  <2>3. \A t \in Slot : ~q[t].aborted /\ q[t].kind # "original"
    BY <1>3, <2>1 DEF AgreeInv
  <2>4. changes = NoView =>
          /\ \A t \in Slot : q[t].kind # "open"
          /\ panel.entry \in {NoView, listed}
          /\ \A t \in Slot : q[t].kind = "load" /\ q[t].stage = "answered" => q[t].entry = listed
    BY <1>3, <1>7, <2>1 DEF AgreeInv
  <2>5. \A t \in Slot : IsChange(q, t) => q[t].entry = WithChanges(listed, changes)
    BY <1>3, <1>4, <2>1 DEF AgreeInv, IsChange
  <2>6. \A t \in Slot : IsChange(requests, t) => IsWork(requests, t)
    BY DEF IsChange, IsWork
  <2>7. CASE IsChange(requests, s) /\ a.stage = "answered"
    <3>1. StoredView(row', q) = Published(q[s])
      BY <1>1, <1>3, <1>7, <2>7
    <3>2. \A t \in Slot : IsStored(q, t) <=> t = s
      BY <1>3, <1>4, <2>2, <2>6, <2>7 DEF IsStored
    <3> QED
      BY <2>2, <2>3, <2>4, <2>5, <3>1, <3>2 DEF AgreeInv
  <2>8. CASE ~(IsChange(requests, s) /\ a.stage = "answered")
    <3>1. StoredView(row', q) = StoredView(row, requests)
      BY <1>1, <1>7, <2>8
    <3>2. \A t \in Slot : IsStored(q, t) <=> IsStored(requests, t)
      BY <1>3, <1>4, <2>8 DEF IsStored
    <3>3. \A t \in Slot : IsStored(q, t) => q[t] = requests[t]
      BY <1>3, <1>4, <2>8 DEF IsStored
    <3> QED
      BY <2>1, <2>2, <2>3, <2>4, <2>5, <3>1, <3>2, <3>3 DEF AgreeInv
  <2> QED
    BY <2>7, <2>8
<1>8. Shown(row', listed, changes, selected, panel, q, overlapped, lost)
  BY <1>5, <1>6, <1>7, InvFacts DEF Shown
<1>9. Shown(row', listed', changes', selected', panel', requests', overlapped', lost')
  BY <1>1, <1>8
<1>10. TypeInv'
  BY DEF Inv, TypeInv
<1> QED
  BY <1>9, <1>10 DEF Inv

\* What a request that changes the row was made with is what the row has until then.
LEMMA EntryIsStored ==
  ASSUME Inv, ~overlapped, ~lost, NEW s \in Slot, IsChange(requests, s),
         requests[s].stage # "answered"
  PROVE  requests[s].entry = StoredView(row, requests)
<1>1. AgreeInv(row, listed, changes, panel, requests)
  BY InvFacts
<1>2. \A t \in Slot : IsChange(requests, t) => t = s
  BY <1>1 DEF AgreeInv, IsChange, IsWork
<1>3. \A t \in Slot : ~IsStored(requests, t)
  BY <1>2 DEF IsStored
<1> QED
  BY <1>1, <1>3 DEF AgreeInv

\* The openings on their way are not disturbed by other requests.
LEMMA OpenedStays ==
  ASSUME Inv, NEW s \in Slot, requests[s].kind # "open", NEW a, a.kind # "open", NEW r,
         r.opened = row.opened
  PROVE  Opened(r, [requests EXCEPT ![s] = a]) = Opened(row, requests)
<1>1. requests \in [Slot -> Asked]
  BY InvFacts DEF RequestInv
<1>2. PICK q : q = [requests EXCEPT ![s] = a]
  OBVIOUS
<1>3. q[s] = a /\ \A t \in Slot : t # s => q[t] = requests[t]
  BY <1>1, <1>2
<1>4. (\E t \in Slot : q[t].kind = "open" /\ q[t].stage = "sent") <=>
      (\E t \in Slot : requests[t].kind = "open" /\ requests[t].stage = "sent")
  BY <1>3
<1> QED
  BY <1>2, <1>4 DEF Opened

LEMMA RequestFields ==
  ASSUME Inv, NEW s \in Slot
  PROVE  /\ requests \in [Slot -> Asked] /\ requests[s] \in Asked
         /\ requests[s].version \in MaybePage /\ requests[s].text \in 0..MaxTexts
         /\ row \in Row /\ page \in Pages /\ page \in MaybePage /\ texts \in 0..MaxTexts
         /\ row.translation \in 0..MaxTexts
<1>1. requests \in [Slot -> Asked] /\ requests[s] \in Asked
  BY InvFacts DEF RequestInv
<1>2. row \in Row /\ page \in Pages /\ texts \in 0..MaxTexts
  BY InvFacts DEF TypeInv
<1> QED
  BY <1>1, <1>2 DEF Asked, MaybePage, Row

LEMMA StagedFacts ==
  ASSUME NEW b \in Asked, NEW stage \in Stages
  PROVE  LET a == [b EXCEPT !.stage = stage] IN
         /\ a \in Asked /\ a.kind = b.kind /\ a.entry = b.entry /\ a.stage = stage
         /\ a.version = b.version /\ a.text = b.text
         /\ (a.attached <=> b.attached) /\ (a.aborted <=> b.aborted)
BY DEF Asked

LEMMA ServeLoadInv == ASSUME Inv, NEW s \in Slot, ServeLoad(s) PROVE Inv'
<1>1. /\ requests[s].kind = "load" /\ requests[s].stage = "sent"
      /\ UNCHANGED <<row, page, texts>>
      /\ UNCHANGED <<listed, changes, selected, panel, turns, overlapped, lost>>
  BY DEF ServeLoad, Serve, server, client
<1>2. PICK a : a = [requests[s] EXCEPT !.stage = "answered", !.entry = RowView]
  OBVIOUS
<1>3. RowView \in View /\ RowView \in MaybeView
  BY RequestFields, RowViewFacts DEF MaybeView
<1>4. /\ a \in Asked /\ a.kind = "load" /\ a.entry = RowView /\ a.stage = "answered"
      /\ (a.attached <=> requests[s].attached) /\ (a.aborted <=> requests[s].aborted)
  BY <1>1, <1>2, <1>3, RequestFields, KindFacts DEF Asked
<1>5. requests' = [requests EXCEPT ![s] = a]
  BY <1>2, RequestFields DEF ServeLoad
<1>6. ~IsChange(requests, s)
  BY <1>1 DEF IsChange
<1>7. StoredView(row', requests') = StoredView(row, requests)
  BY <1>1, <1>4, <1>5, OpenedStays DEF StoredView
<1>8. ASSUME ~overlapped, ~lost, changes = NoView PROVE RowView = listed
  <2>1. AgreeInv(row, listed, changes, panel, requests)
    BY <1>8, InvFacts
  <2>2. \A t \in Slot : ~IsStored(requests, t)
    BY <1>1, <2>1 DEF AgreeInv, IsStored, IsChange, IsWork
  <2>3. StoredView(row, requests) = listed
    BY <1>8, <2>1, <2>2 DEF AgreeInv, WithChanges
  <2>4. Opened(row, requests) = row.opened
    <3>1. ~\E t \in Slot : requests[t].kind = "open" /\ requests[t].stage = "sent"
      BY <1>8, <2>1 DEF AgreeInv
    <3>2. row.opened \in BOOLEAN
      BY RequestFields DEF Row
    <3> QED
      BY <3>1, <3>2 DEF Opened
  <2> QED
    BY <2>3, <2>4, RequestFields, RowViewFacts
<1>9. DeadlineIsOfStoredPage'
  BY <1>1 DEF Inv, DeadlineIsOfStoredPage
<1>10. row' \in Row /\ page' \in Pages /\ texts' \in 0..MaxTexts
  BY <1>1, RequestFields
<1> QED
  BY <1>1, <1>3, <1>4, <1>5, <1>6, <1>7, <1>8, <1>9, <1>10, ServedInv

LEMMA ServeOpenInv == ASSUME Inv, NEW s \in Slot, ServeOpen(s) PROVE Inv'
<1>1. /\ requests[s].kind = "open" /\ requests[s].stage = "sent"
      /\ row' = [row EXCEPT !.opened = TRUE] /\ UNCHANGED <<page, texts>>
      /\ UNCHANGED <<listed, changes, selected, panel, turns, overlapped, lost>>
  BY DEF ServeOpen, Serve, client
<1>2. PICK a : a = [requests[s] EXCEPT !.stage = "answered"]
  OBVIOUS
<1>3. /\ a \in Asked /\ a.kind = "open" /\ a.entry = requests[s].entry /\ a.stage = "answered"
      /\ (a.attached <=> requests[s].attached) /\ (a.aborted <=> requests[s].aborted)
  BY <1>1, <1>2, RequestFields, KindFacts, StagedFacts
<1>4. requests' = [requests EXCEPT ![s] = a]
  BY <1>2, RequestFields DEF ServeOpen
<1>5. /\ row' \in Row /\ row'.opened = TRUE /\ row'.bookmarked = row.bookmarked
      /\ row'.translation = row.translation /\ row'.deadline = row.deadline
      /\ row'.content = row.content
  BY <1>1, RequestFields DEF Row
<1>6. ~IsChange(requests, s)
  BY <1>1 DEF IsChange
<1>7. StoredView(row', requests') = StoredView(row, requests)
  <2>1. Opened(row', requests') = TRUE
    BY <1>5 DEF Opened
  <2>2. Opened(row, requests) = TRUE
    BY <1>1 DEF Opened
  <2> QED
    BY <1>5, <2>1, <2>2 DEF StoredView
<1>8. DeadlineIsOfStoredPage'
  BY <1>5 DEF Inv, DeadlineIsOfStoredPage
<1>9. page' \in Pages /\ texts' \in 0..MaxTexts
  BY <1>1, RequestFields
<1> QED
  BY <1>1, <1>3, <1>4, <1>5, <1>6, <1>7, <1>8, <1>9, ServedInv

\* The stored view, with one field of it written.
LEMMA StoredWith ==
  ASSUME NEW r, NEW q, NEW x
  PROVE  /\ [StoredView(r, q) EXCEPT !.bookmarked = x] =
              [opened |-> Opened(r, q), bookmarked |-> x,
               translation |-> r.translation, deadline |-> r.deadline]
         /\ [StoredView(r, q) EXCEPT !.translation = x] =
              [opened |-> Opened(r, q), bookmarked |-> r.bookmarked,
               translation |-> x, deadline |-> r.deadline]
         /\ [StoredView(r, q) EXCEPT !.deadline = x] =
              [opened |-> Opened(r, q), bookmarked |-> r.bookmarked,
               translation |-> r.translation, deadline |-> x]
         /\ StoredView(r, q).bookmarked = r.bookmarked
         /\ StoredView(r, q).deadline = r.deadline
BY DEF StoredView

LEMMA ServeBookmarkInv == ASSUME Inv, NEW s \in Slot, ServeBookmark(s) PROVE Inv'
<1>1. /\ requests[s].kind \in {"bookmark", "card"} /\ requests[s].stage = "sent"
      /\ row' = [row EXCEPT !.bookmarked = ~requests[s].entry.bookmarked]
      /\ UNCHANGED <<page, texts>>
      /\ UNCHANGED <<listed, changes, selected, panel, turns, overlapped, lost>>
  BY DEF ServeBookmark, Serve, client
<1>2. PICK a : a = [requests[s] EXCEPT !.stage = "answered"]
  OBVIOUS
<1>3. /\ a \in Asked /\ a.kind = requests[s].kind /\ a.entry = requests[s].entry
      /\ a.stage = "answered"
      /\ (a.attached <=> requests[s].attached) /\ (a.aborted <=> requests[s].aborted)
  BY <1>1, <1>2, RequestFields, KindFacts, StagedFacts
<1>4. requests' = [requests EXCEPT ![s] = a]
  BY <1>2, RequestFields DEF ServeBookmark
<1>5. PICK b \in BOOLEAN : b = ~requests[s].entry.bookmarked
  OBVIOUS
<1>6. /\ row' \in Row /\ row'.opened = row.opened /\ row'.bookmarked = b
      /\ row'.translation = row.translation /\ row'.deadline = row.deadline
      /\ row'.content = row.content
  BY <1>1, <1>5, RequestFields DEF Row
<1>7. IsChange(requests, s) /\ a.kind # "open" /\ requests[s].kind # "open"
  BY <1>1, <1>3 DEF IsChange
<1>8. ASSUME ~overlapped, ~lost PROVE StoredView(row', requests') = Published(a)
  <2>1. requests[s].entry = StoredView(row, requests)
    BY <1>1, <1>7, <1>8, EntryIsStored
  <2>2. Opened(row', requests') = Opened(row, requests)
    BY <1>4, <1>6, <1>7, OpenedStays
  <2>3. Published(a) = [a.entry EXCEPT !.bookmarked = ~a.entry.bookmarked]
    BY <1>1, <1>3 DEF Published
  <2>4. Published(a) = [StoredView(row, requests) EXCEPT !.bookmarked = b]
    BY <1>3, <1>5, <2>1, <2>3
  <2> QED
    BY <1>6, <2>2, <2>4, StoredWith DEF StoredView
<1>9. DeadlineIsOfStoredPage'
  BY <1>6 DEF Inv, DeadlineIsOfStoredPage
<1>10. page' \in Pages /\ texts' \in 0..MaxTexts
  BY <1>1, RequestFields
<1> QED
  BY <1>1, <1>3, <1>4, <1>6, <1>7, <1>8, <1>9, <1>10, ServedInv

LEMMA FetchPageInv == ASSUME Inv, NEW s \in Slot, FetchPage(s) PROVE Inv'
<1>1. /\ requests[s].kind \in {"reader", "original"} /\ requests[s].stage = "sent"
      /\ UNCHANGED <<row, page, texts>>
      /\ UNCHANGED <<listed, changes, selected, panel, turns, overlapped, lost>>
  BY DEF FetchPage, Serve, server, client
<1>2. PICK a : a = [requests[s] EXCEPT !.stage = "fetched", !.version = page]
  OBVIOUS
<1>3. /\ a \in Asked /\ a.kind = requests[s].kind /\ a.entry = requests[s].entry
      /\ a.stage = "fetched" /\ a.version \in Pages
      /\ (a.attached <=> requests[s].attached) /\ (a.aborted <=> requests[s].aborted)
  BY <1>2, RequestFields, KindFacts DEF Asked
<1>4. requests' = [requests EXCEPT ![s] = a]
  BY <1>2, RequestFields DEF FetchPage
<1>5. StoredView(row', requests') = StoredView(row, requests)
  <2>1. Opened(row, requests') = Opened(row, requests)
    BY <1>1, <1>3, <1>4, OpenedStays
  <2> QED
    BY <1>1, <2>1 DEF StoredView
<1>6. DeadlineIsOfStoredPage'
  BY <1>1 DEF Inv, DeadlineIsOfStoredPage
<1>7. row' \in Row /\ page' \in Pages /\ texts' \in 0..MaxTexts
  BY <1>1, RequestFields
<1> QED
  BY <1>1, <1>3, <1>4, <1>5, <1>6, <1>7, ServedInv

LEMMA SavePageInv == ASSUME Inv, NEW s \in Slot, SavePage(s) PROVE Inv'
<1>1. /\ requests[s].kind \in {"reader", "original"} /\ requests[s].stage = "fetched"
      /\ UNCHANGED <<page, texts>>
      /\ UNCHANGED <<listed, changes, selected, panel, turns, overlapped, lost>>
  BY DEF SavePage, Serve, client
<1>2. PICK v : v = requests[s].version
  OBVIOUS
<1>3. PICK d : d = IF Deadline[v] # 0 THEN Deadline[v] ELSE row.deadline
  OBVIOUS
<1>4. v \in Pages /\ v \in MaybePage /\ Deadline[v] \in Nat /\ v # 0
  BY <1>1, <1>2, InvFacts, PageFacts DEF RequestInv, MaybePage
<1>5. d \in Nat
  BY <1>3, <1>4, RequestFields DEF Row
<1>6. PICK a : a = [requests[s] EXCEPT !.stage = "answered"]
  OBVIOUS
<1>7. /\ a \in Asked /\ a.kind = requests[s].kind /\ a.entry = requests[s].entry
      /\ a.stage = "answered" /\ a.version = v
      /\ (a.attached <=> requests[s].attached) /\ (a.aborted <=> requests[s].aborted)
  BY <1>2, <1>6, RequestFields, KindFacts, StagedFacts
<1>8. /\ requests' = [requests EXCEPT ![s] = a]
      /\ row' = [row EXCEPT !.content = v, !.deadline = d]
  BY <1>2, <1>3, <1>6, RequestFields DEF SavePage
<1>9. /\ row' \in Row /\ row'.opened = row.opened /\ row'.bookmarked = row.bookmarked
      /\ row'.translation = row.translation /\ row'.deadline = d /\ row'.content = v
  BY <1>4, <1>5, <1>8, RequestFields DEF Row
<1>10. a.kind # "open" /\ requests[s].kind # "open"
  BY <1>1, <1>7
<1>11. ASSUME ~overlapped, ~lost
       PROVE  IsChange(requests, s) /\ StoredView(row', requests') = Published(a)
  <2>1. requests[s].kind = "reader"
    BY <1>1, <1>11, InvFacts DEF AgreeInv
  <2>2. IsChange(requests, s)
    BY <2>1 DEF IsChange
  <2>3. requests[s].entry = StoredView(row, requests)
    BY <1>1, <1>11, <2>2, EntryIsStored
  <2>4. Opened(row', requests') = Opened(row, requests)
    BY <1>8, <1>9, <1>10, OpenedStays
  <2>5. CASE Deadline[v] # 0
    <3>1. Published(a) = [StoredView(row, requests) EXCEPT !.deadline = d]
      BY <1>3, <1>7, <2>1, <2>3, <2>5 DEF Published
    <3> QED
      BY <1>9, <2>2, <2>4, <3>1, StoredWith DEF StoredView
  <2>6. CASE Deadline[v] = 0
    <3>1. Published(a) = StoredView(row, requests) /\ d = row.deadline
      BY <1>3, <1>7, <2>1, <2>3, <2>6 DEF Published
    <3> QED
      BY <1>9, <2>2, <2>4, <3>1 DEF StoredView
  <2> QED
    BY <2>5, <2>6
<1>12. DeadlineIsOfStoredPage'
  BY <1>3, <1>9 DEF DeadlineIsOfStoredPage
<1>13. page' \in Pages /\ texts' \in 0..MaxTexts
  BY <1>1, RequestFields
<1> QED
  BY <1>1, <1>4, <1>7, <1>8, <1>9, <1>11, <1>12, <1>13, ServedInv

LEMMA ReadTranslationInv == ASSUME Inv, NEW s \in Slot, ReadTranslation(s) PROVE Inv'
<1>1. /\ requests[s].kind = "translate" /\ requests[s].stage = "sent"
      /\ UNCHANGED <<row, page, texts>>
      /\ UNCHANGED <<listed, changes, selected, panel, turns, overlapped, lost>>
  BY DEF ReadTranslation, Serve, server, client
<1>2. IsChange(requests, s)
  BY <1>1 DEF IsChange
<1>3. DeadlineIsOfStoredPage'
  BY <1>1 DEF Inv, DeadlineIsOfStoredPage
<1>4. row' \in Row /\ page' \in Pages /\ texts' \in 0..MaxTexts
  BY <1>1, RequestFields
<1>5. CASE row.translation # 0
  <2>1. PICK a : a = [requests[s] EXCEPT !.stage = "answered", !.text = row.translation]
    OBVIOUS
  <2>2. /\ a \in Asked /\ a.kind = "translate" /\ a.entry = requests[s].entry
        /\ a.stage = "answered" /\ a.text = row.translation
        /\ (a.attached <=> requests[s].attached) /\ (a.aborted <=> requests[s].aborted)
    BY <1>1, <2>1, RequestFields, KindFacts DEF Asked
  <2>3. requests' = [requests EXCEPT ![s] = a]
    BY <1>5, <2>1, RequestFields DEF ReadTranslation
  <2>4. ASSUME ~overlapped, ~lost PROVE StoredView(row', requests') = Published(a)
    <3>1. requests[s].entry = StoredView(row, requests)
      BY <1>1, <1>2, <2>4, EntryIsStored
    <3>2. Opened(row, requests') = Opened(row, requests)
      BY <1>1, <2>2, <2>3, OpenedStays
    <3>3. Published(a) = [StoredView(row, requests) EXCEPT !.translation = row.translation]
      BY <2>2, <3>1 DEF Published
    <3> QED
      BY <1>1, <3>2, <3>3, StoredWith DEF StoredView
  <2> QED
    BY <1>1, <1>2, <1>3, <1>4, <2>2, <2>3, <2>4, ServedInv
<1>6. CASE ~(row.translation # 0)
  <2>1. PICK a : a = [requests[s] EXCEPT !.stage = "translating"]
    OBVIOUS
  <2>2. /\ a \in Asked /\ a.kind = "translate" /\ a.entry = requests[s].entry
        /\ a.stage = "translating"
        /\ (a.attached <=> requests[s].attached) /\ (a.aborted <=> requests[s].aborted)
    BY <1>1, <2>1, RequestFields, KindFacts, StagedFacts
  <2>3. requests' = [requests EXCEPT ![s] = a]
    BY <1>6, <2>1, RequestFields DEF ReadTranslation
  <2>4. StoredView(row', requests') = StoredView(row, requests)
    <3>1. Opened(row, requests') = Opened(row, requests)
      BY <1>1, <2>2, <2>3, OpenedStays
    <3> QED
      BY <1>1, <3>1 DEF StoredView
  <2> QED
    BY <1>1, <1>3, <1>4, <2>2, <2>3, <2>4, ServedInv
<1> QED
  BY <1>5, <1>6

LEMMA SaveTranslationInv == ASSUME Inv, NEW s \in Slot, SaveTranslation(s) PROVE Inv'
<1>1. /\ requests[s].kind = "translate" /\ requests[s].stage = "translating"
      /\ texts < MaxTexts /\ texts' = texts + 1 /\ page' = page
      /\ row' = [row EXCEPT !.translation = texts']
      /\ UNCHANGED <<listed, changes, selected, panel, turns, overlapped, lost>>
  BY DEF SaveTranslation, Serve, client
<1>2. PICK n : n = texts'
  OBVIOUS
<1>3. n \in 0..MaxTexts
  <2>1. texts \in 0..MaxTexts /\ MaxTexts \in Nat
    BY RequestFields, PanelAssumption
  <2> QED
    BY <1>1, <1>2, <2>1
<1>4. PICK a : a = [requests[s] EXCEPT !.stage = "answered", !.text = n]
  OBVIOUS
<1>5. /\ a \in Asked /\ a.kind = "translate" /\ a.entry = requests[s].entry
      /\ a.stage = "answered" /\ a.text = n
      /\ (a.attached <=> requests[s].attached) /\ (a.aborted <=> requests[s].aborted)
  BY <1>1, <1>3, <1>4, RequestFields, KindFacts DEF Asked
<1>6. requests' = [requests EXCEPT ![s] = a]
  BY <1>2, <1>4, RequestFields DEF SaveTranslation
<1>7. /\ row' \in Row /\ row'.opened = row.opened /\ row'.bookmarked = row.bookmarked
      /\ row'.translation = n /\ row'.deadline = row.deadline
      /\ row'.content = row.content
  BY <1>1, <1>2, <1>3, RequestFields DEF Row
<1>8. IsChange(requests, s)
  BY <1>1 DEF IsChange
<1>9. ASSUME ~overlapped, ~lost PROVE StoredView(row', requests') = Published(a)
  <2>1. requests[s].entry = StoredView(row, requests)
    BY <1>1, <1>8, <1>9, EntryIsStored
  <2>2. Opened(row', requests') = Opened(row, requests)
    BY <1>1, <1>5, <1>6, <1>7, OpenedStays
  <2>3. Published(a) = [StoredView(row, requests) EXCEPT !.translation = n]
    BY <1>5, <2>1 DEF Published
  <2> QED
    BY <1>7, <2>2, <2>3, StoredWith DEF StoredView
<1>10. DeadlineIsOfStoredPage'
  BY <1>7 DEF Inv, DeadlineIsOfStoredPage
<1>11. page' \in Pages /\ texts' \in 0..MaxTexts
  BY <1>1, <1>2, <1>3, RequestFields
<1> QED
  BY <1>1, <1>5, <1>6, <1>7, <1>8, <1>9, <1>10, <1>11, ServedInv

LEMMA ChangePageInv == Inv /\ ChangePage => Inv'
<1> SUFFICES ASSUME Inv, ChangePage PROVE Inv'
  OBVIOUS
<1>1. /\ page' \in Pages
      /\ UNCHANGED <<row, texts, requests, listed, changes, selected, panel, turns,
                     overlapped, lost>>
  BY DEF ChangePage, client
<1>2. Shown(row', listed', changes', selected', panel', requests', overlapped', lost')
  BY <1>1 DEF Inv
<1> QED
  BY <1>1, <1>2 DEF Inv, TypeInv, DeadlineIsOfStoredPage

(***************************************************************************)
(* The answers.                                                            *)
(***************************************************************************)
\* A panel that no longer waits for request s, or never did.
NotWaiting(s, p) ==
  /\ p \in Panel
  /\ (p.load = "loaded") <=> (p.entry # NoView)
  /\ (p.view # 0) <=> (p.reader = "loaded")
  /\ p.mounted <=> panel.mounted
  /\ p.openedSent <=> panel.openedSent
  /\ IsLoad(requests, s) \/ p.load = panel.load
  /\ IsReader(requests, s) => p.reader # "loading"
  /\ ~IsReader(requests, s) => p.reader = panel.reader

LEMMA ClosedFacts ==
  ASSUME Inv, NEW s \in Slot, NEW a \in Asked, NEW p, NotWaiting(s, p),
         a.kind = "none" \/ (a.kind = requests[s].kind /\ a.entry = requests[s].entry
                             /\ a.stage = requests[s].stage /\ a.version = requests[s].version),
         a.attached => requests[s].attached,
         a.kind \in {"reader", "load"} => a.aborted
  PROVE  /\ RequestInv([requests EXCEPT ![s] = a])
         /\ WaitInv(p, [requests EXCEPT ![s] = a])
<1>1. PICK q : q = [requests EXCEPT ![s] = a]
  OBVIOUS
<1>2. RequestInv(requests) /\ WaitInv(panel, requests) /\ requests \in [Slot -> Asked]
  BY InvFacts DEF RequestInv
<1>3. q[s] = a /\ q \in [Slot -> Asked] /\ \A t \in Slot : t # s => q[t] = requests[t]
  BY <1>1, <1>2
<1>4. /\ \A t \in Slot : IsLoad(q, t) <=> (t # s /\ IsLoad(requests, t))
      /\ \A t \in Slot : IsReader(q, t) <=> (t # s /\ IsReader(requests, t))
      /\ \A t \in Slot : IsOpening(q, t) => IsOpening(requests, t)
      /\ \A t \in Slot : q[t].attached => requests[t].attached
  BY <1>3 DEF IsLoad, IsReader, IsOpening
<1>5. RequestInv(q)
  BY <1>2, <1>3, <1>4 DEF RequestInv
<1>6. WaitInv(p, q)
  <2>1. /\ \A t, u \in Slot : IsLoad(q, t) /\ IsLoad(q, u) => t = u
        /\ \A t, u \in Slot : IsReader(q, t) /\ IsReader(q, u) => t = u
        /\ \A t, u \in Slot : IsOpening(q, t) /\ IsOpening(q, u) => t = u
        /\ \A t \in Slot : q[t].attached => p.mounted
        /\ \A t \in Slot : IsOpening(q, t) => p.openedSent
    BY <1>2, <1>4 DEF WaitInv, NotWaiting
  <2>2. \A t \in Slot : IsLoad(q, t) => p.load = "loading"
    BY <1>2, <1>4 DEF WaitInv, NotWaiting
  <2>3. CASE IsReader(requests, s)
    BY <1>2, <1>4, <2>1, <2>2, <2>3 DEF WaitInv, NotWaiting
  <2>4. CASE ~IsReader(requests, s)
    <3>1. \A t \in Slot : IsReader(q, t) <=> IsReader(requests, t)
      BY <1>4, <2>4
    <3> QED
      BY <1>2, <2>1, <2>2, <2>4, <3>1 DEF WaitInv, NotWaiting
  <2> QED
    BY <2>3, <2>4
<1> QED
  BY <1>1, <1>5, <1>6

\* The request that is over was the only work, or an opening that has been served.
LEMMA DoneAgrees ==
  ASSUME Inv, ~overlapped, ~lost, NEW s \in Slot, requests[s].stage = "answered",
         NEW p, NEW c \in MaybeView,
         c = NoView => changes = NoView /\ p.entry \in {NoView, listed},
         IsStored(requests, s) => WithChanges(listed, c) = Published(requests[s]),
         ~IsStored(requests, s) => c = changes
  PROVE  AgreeInv(row, listed, c, p, Done(s))
<1>1. PICK q : q = Done(s)
  OBVIOUS
<1>2. AgreeInv(row, listed, changes, panel, requests) /\ requests \in [Slot -> Asked]
  BY InvFacts DEF RequestInv
<1>3. q[s] = NoRequest /\ \A t \in Slot : t # s => q[t] = requests[t]
  BY <1>1, <1>2 DEF Done
<1>4. /\ \A t \in Slot : IsWork(q, t) <=> (t # s /\ IsWork(requests, t))
      /\ \A t \in Slot : IsChange(q, t) <=> (t # s /\ IsChange(requests, t))
      /\ \A t \in Slot : IsStored(q, t) <=> (t # s /\ IsStored(requests, t))
  BY <1>3, NoRequestFacts DEF IsWork, IsChange, IsStored
<1>5. /\ \A t, u \in Slot : IsWork(q, t) /\ IsWork(q, u) => t = u
      /\ \A t \in Slot : ~q[t].aborted /\ q[t].kind # "original"
  BY <1>2, <1>3, <1>4, NoRequestFacts DEF AgreeInv
<1>6. c = NoView =>
        /\ \A t \in Slot : q[t].kind # "open"
        /\ p.entry \in {NoView, listed}
        /\ \A t \in Slot : q[t].kind = "load" /\ q[t].stage = "answered" => q[t].entry = listed
  BY <1>2, <1>3, NoRequestFacts DEF AgreeInv
<1>7. StoredView(row, q) = StoredView(row, requests)
  <2>1. (\E t \in Slot : q[t].kind = "open" /\ q[t].stage = "sent") <=>
        (\E t \in Slot : requests[t].kind = "open" /\ requests[t].stage = "sent")
    BY <1>3, NoRequestFacts
  <2>2. Opened(row, q) = Opened(row, requests)
    BY <2>1 DEF Opened
  <2> QED
    BY <2>2 DEF StoredView
<1>8. CASE IsStored(requests, s)
  <2>1. \A t \in Slot : ~IsChange(q, t) /\ ~IsStored(q, t)
    BY <1>2, <1>4, <1>8 DEF AgreeInv, IsStored, IsChange, IsWork
  <2>2. StoredView(row, q) = WithChanges(listed, c)
    BY <1>2, <1>7, <1>8 DEF AgreeInv
  <2>3. AgreeInv(row, listed, c, p, q)
    BY <1>5, <1>6, <2>1, <2>2 DEF AgreeInv
  <2> QED
    BY <1>1, <2>3
<1>9. CASE ~IsStored(requests, s)
  <2>1. \A t \in Slot : IsStored(q, t) <=> IsStored(requests, t)
    BY <1>4, <1>9
  <2>2. \A t \in Slot : IsChange(q, t) => IsChange(requests, t) /\ q[t] = requests[t]
    BY <1>3, <1>4
  <2>3. \A t \in Slot : IsChange(q, t) => q[t].entry = WithChanges(listed, c)
    BY <1>2, <1>9, <2>2 DEF AgreeInv
  <2>4. \A t \in Slot : IsStored(q, t) => StoredView(row, q) = Published(q[t])
    BY <1>2, <1>7, <2>1, <2>2 DEF AgreeInv, IsStored
  <2>5. (\A t \in Slot : ~IsStored(q, t)) => StoredView(row, q) = WithChanges(listed, c)
    BY <1>2, <1>7, <1>9, <2>1 DEF AgreeInv
  <2>6. AgreeInv(row, listed, c, p, q)
    BY <1>5, <1>6, <2>3, <2>4, <2>5 DEF AgreeInv
  <2> QED
    BY <1>1, <2>6
<1> QED
  BY <1>8, <1>9

LEMMA ReceivedInv ==
  ASSUME Inv, NEW s \in Slot, requests[s].stage = "answered",
         NEW p, NEW c \in MaybeView, NotWaiting(s, p),
         Settle(p, c, Done(s), overlapped),
         UNCHANGED <<row, page, texts, listed, selected, turns, lost>>,
         c = NoView => changes = NoView,
         ~overlapped /\ ~lost =>
           /\ c = NoView => p.entry \in {NoView, listed}
           /\ IsStored(requests, s) => WithChanges(listed, c) = Published(requests[s])
           /\ ~IsStored(requests, s) => c = changes
  PROVE  Inv'
<1>1. RequestInv(Done(s)) /\ WaitInv(p, Done(s))
  BY NoRequestFacts, ClosedFacts DEF Done
<1>2. ~overlapped /\ ~lost => AgreeInv(row, listed, c, p, Done(s))
  BY DoneAgrees
<1>3. Shown(row, listed, c, selected, p, Done(s), overlapped, lost)
  BY <1>1, <1>2, InvFacts DEF Shown
<1>4. /\ turns' \in 0..MaxTurns /\ selected' \in MaybeView /\ lost' \in BOOLEAN
      /\ overlapped \in BOOLEAN
  BY InvFacts DEF TypeInv
<1>5. Shown(row, listed, c, selected', p, Done(s), overlapped, lost')
  BY <1>3
<1> QED
  BY <1>4, <1>5, SettleInv

\* What an answer publishes is an Entry, and is published over any other change.
LEMMA PublishedFacts ==
  ASSUME NEW e \in View
  PROVE  /\ \A b \in BOOLEAN : [e EXCEPT !.bookmarked = b] \in View
         /\ \A n \in 0..MaxTexts : [e EXCEPT !.translation = n] \in View
         /\ \A d \in Nat : [e EXCEPT !.deadline = d] \in View
BY DEF View

LEMMA ViewIsChange ==
  ASSUME NEW c \in View, NEW li
  PROVE  c \in MaybeView /\ c # NoView /\ WithChanges(li, c) = c
BY ViewAssumption DEF MaybeView, WithChanges

LEMMA LikeIsNotWaiting ==
  ASSUME Inv, NEW s \in Slot, ~IsReader(requests, s), NEW p, IsLike(p, panel)
  PROVE  NotWaiting(s, p) /\ p.entry = panel.entry
BY InvFacts DEF NotWaiting, IsLike, WaitInv

LEMMA PanelIsNotWaiting ==
  ASSUME Inv, NEW s \in Slot, ~IsReader(requests, s)
  PROVE  NotWaiting(s, panel)
BY InvFacts, LikeFacts, LikeIsNotWaiting

LEMMA ToldLike ==
  ASSUME Inv, NEW s \in Slot, ~IsReader(requests, s), NEW p, IsLike(p, panel)
  PROVE  /\ NotWaiting(s, Told(s, p))
         /\ Told(s, p).entry = panel.entry
BY LikeIsNotWaiting, PanelIsNotWaiting DEF Told

\* What the answer to a change publishes.
LEMMA ChangeInv ==
  ASSUME Inv, NEW s \in Slot, requests[s].stage = "answered", IsChange(requests, s),
         NEW p, NEW c \in View, c = Published(requests[s]), NotWaiting(s, p),
         Settle(p, c, Done(s), overlapped),
         UNCHANGED <<row, page, texts, listed, selected, turns, lost>>
  PROVE  Inv'
<1>1. c \in MaybeView /\ c # NoView /\ WithChanges(listed, c) = c
  BY ViewIsChange
<1>2. IsStored(requests, s)
  BY DEF IsStored
<1> QED
  BY <1>1, <1>2, ReceivedInv

LEMMA ReceiveLoadInv == ASSUME Inv, NEW s \in Slot, ReceiveLoad(s) PROVE Inv'
<1>1. PICK answer : answer = requests[s].entry
  OBVIOUS
<1>2. PICK shows \in BOOLEAN : shows = (answer.translation # 0)
  OBVIOUS
<1>3. PICK p : p = [panel EXCEPT !.entry = answer, !.load = "loaded", !.showTranslation = shows]
  OBVIOUS
<1>4. /\ requests[s].kind = "load" /\ requests[s].stage = "answered" /\ ~requests[s].aborted
      /\ Settle(Told(s, p), changes, Done(s), overlapped)
      /\ UNCHANGED <<row, page, texts, listed, selected, turns, lost>>
  BY <1>1, <1>2, <1>3 DEF ReceiveLoad, Answered, server
<1>5. ~IsReader(requests, s) /\ ~IsStored(requests, s)
  BY <1>4 DEF IsReader, IsStored, IsChange
<1>6. answer \in View /\ answer \in MaybeView /\ answer # NoView
  BY <1>1, <1>4, InvFacts, ViewAssumption DEF RequestInv, MaybeView
<1>7. /\ p \in Panel /\ p.load = "loaded" /\ p.entry = answer /\ p.reader = panel.reader
      /\ p.view = panel.view /\ (p.mounted <=> panel.mounted)
      /\ (p.openedSent <=> panel.openedSent)
  BY <1>3, <1>6, InvFacts, KindFacts DEF Panel
<1>8. NotWaiting(s, Told(s, p))
  <2>1. CASE requests[s].attached
    <3>1. IsLoad(requests, s)
      BY <1>4, <2>1 DEF IsLoad
    <3>2. NotWaiting(s, p)
      BY <1>5, <1>6, <1>7, <3>1, InvFacts DEF NotWaiting, WaitInv
    <3> QED
      BY <2>1, <3>2 DEF Told
  <2>2. CASE ~requests[s].attached
    BY <1>5, <2>2, PanelIsNotWaiting DEF Told
  <2> QED
    BY <2>1, <2>2
<1>9. ASSUME ~overlapped, ~lost, changes = NoView PROVE Told(s, p).entry \in {NoView, listed}
  <2>1. panel.entry \in {NoView, listed} /\ answer = listed
    BY <1>1, <1>4, <1>9, InvFacts DEF AgreeInv
  <2> QED
    BY <1>7, <2>1 DEF Told
<1> QED
  BY <1>4, <1>5, <1>8, <1>9, InvFacts, ReceivedInv

LEMMA ReceiveBookmarkInv == ASSUME Inv, NEW s \in Slot, ReceiveBookmark(s) PROVE Inv'
<1>1. PICK p : p = [panel EXCEPT !.bookmarking = FALSE]
  OBVIOUS
<1>2. PICK b \in BOOLEAN : b = ~requests[s].entry.bookmarked
  OBVIOUS
<1>3. PICK c : c = [requests[s].entry EXCEPT !.bookmarked = b]
  OBVIOUS
<1>4. /\ requests[s].kind = "bookmark" /\ requests[s].stage = "answered"
      /\ Settle(Told(s, p), c, Done(s), overlapped)
      /\ UNCHANGED <<row, page, texts, listed, selected, turns, lost>>
  BY <1>1, <1>2, <1>3 DEF ReceiveBookmark, Answered, server
<1>5. c \in View /\ c = Published(requests[s])
  <2>1. requests[s].entry \in View
    BY <1>4, InvFacts DEF RequestInv
  <2>2. c \in View
    BY <1>3, <2>1, PublishedFacts
  <2> QED
    BY <1>2, <1>3, <1>4, <2>2 DEF Published
<1>6. ~IsReader(requests, s) /\ IsChange(requests, s)
  BY <1>4 DEF IsReader, IsChange
<1>7. IsLike(p, panel)
  BY <1>1, InvFacts, LikeFacts
<1> QED
  BY <1>4, <1>5, <1>6, <1>7, ToldLike, ChangeInv

LEMMA ReceiveCardBookmarkInv == ASSUME Inv, NEW s \in Slot, ReceiveCardBookmark(s) PROVE Inv'
<1>1. PICK b \in BOOLEAN : b = ~requests[s].entry.bookmarked
  OBVIOUS
<1>2. PICK c : c = [requests[s].entry EXCEPT !.bookmarked = b]
  OBVIOUS
<1>3. /\ requests[s].kind = "card" /\ requests[s].stage = "answered"
      /\ Settle(panel, c, Done(s), overlapped)
      /\ UNCHANGED <<row, page, texts, listed, selected, turns, lost>>
  BY <1>1, <1>2 DEF ReceiveCardBookmark, Answered, server
<1>4. c \in View /\ c = Published(requests[s])
  <2>1. requests[s].entry \in View
    BY <1>3, InvFacts DEF RequestInv
  <2>2. c \in View
    BY <1>2, <2>1, PublishedFacts
  <2> QED
    BY <1>1, <1>2, <1>3, <2>2 DEF Published
<1>5. ~IsReader(requests, s) /\ IsChange(requests, s)
  BY <1>3 DEF IsReader, IsChange
<1> QED
  BY <1>3, <1>4, <1>5, PanelIsNotWaiting, ChangeInv

LEMMA ReceiveTranslationInv == ASSUME Inv, NEW s \in Slot, ReceiveTranslation(s) PROVE Inv'
<1>1. PICK p : p = [panel EXCEPT !.translating = FALSE, !.showTranslation = TRUE]
  OBVIOUS
<1>2. PICK c : c = [requests[s].entry EXCEPT !.translation = requests[s].text]
  OBVIOUS
<1>3. /\ requests[s].kind = "translate" /\ requests[s].stage = "answered"
      /\ Settle(Told(s, p), c, Done(s), overlapped)
      /\ UNCHANGED <<row, page, texts, listed, selected, turns, lost>>
  BY <1>1, <1>2 DEF ReceiveTranslation, Answered, server
<1>4. c \in View /\ c = Published(requests[s])
  <2>1. requests[s].entry \in View
    BY <1>3, InvFacts DEF RequestInv
  <2>2. requests[s].text \in 0..MaxTexts
    BY RequestFields
  <2>3. c \in View
    BY <1>2, <2>1, <2>2, PublishedFacts
  <2> QED
    BY <1>2, <1>3, <2>3 DEF Published
<1>5. ~IsReader(requests, s) /\ IsChange(requests, s)
  BY <1>3 DEF IsReader, IsChange
<1>6. IsLike(p, panel)
  BY <1>1, InvFacts, LikeFacts
<1> QED
  BY <1>3, <1>4, <1>5, <1>6, ToldLike, ChangeInv

LEMMA ReceiveOriginalInv == ASSUME Inv, NEW s \in Slot, ReceiveOriginal(s) PROVE Inv'
<1>1. PICK v : v = requests[s].version
  OBVIOUS
<1>2. PICK p : p = [panel EXCEPT !.reader = "loaded", !.view = v]
  OBVIOUS
<1>3. /\ requests[s].kind = "reader" /\ requests[s].stage = "answered" /\ ~requests[s].aborted
      /\ Settle(p, IF Deadline[v] # 0 THEN [requests[s].entry EXCEPT !.deadline = Deadline[v]]
                   ELSE changes, Done(s), overlapped)
      /\ UNCHANGED <<row, page, texts, listed, selected, turns, lost>>
  BY <1>1, <1>2 DEF ReceiveOriginal, Answered, server
<1>4. v \in Pages /\ v \in MaybePage /\ v # 0 /\ Deadline[v] \in Nat
  BY <1>1, <1>3, InvFacts, PageFacts DEF RequestInv, MaybePage
<1>5. IsReader(requests, s) /\ IsChange(requests, s)
  BY <1>3 DEF IsReader, IsChange
<1>6. /\ p \in Panel /\ p.load = panel.load /\ p.entry = panel.entry /\ p.reader = "loaded"
      /\ p.view = v /\ (p.mounted <=> panel.mounted) /\ (p.openedSent <=> panel.openedSent)
  BY <1>2, <1>4, InvFacts, KindFacts DEF Panel
<1>7. NotWaiting(s, p)
  BY <1>4, <1>5, <1>6, InvFacts DEF NotWaiting, WaitInv
<1>8. CASE Deadline[v] # 0
  <2>1. PICK c : c = [requests[s].entry EXCEPT !.deadline = Deadline[v]]
    OBVIOUS
  <2>2. requests[s].entry \in View
    BY <1>3, InvFacts DEF RequestInv
  <2>3. c \in View
    BY <1>4, <2>1, <2>2, PublishedFacts
  <2>4. c = Published(requests[s])
    BY <1>1, <1>3, <1>8, <2>1 DEF Published
  <2>5. Settle(p, c, Done(s), overlapped)
    BY <1>3, <1>8, <2>1
  <2> QED
    BY <1>3, <1>5, <1>7, <2>3, <2>4, <2>5, ChangeInv
<1>9. CASE Deadline[v] = 0
  <2>1. Settle(p, changes, Done(s), overlapped)
    BY <1>3, <1>9
  <2>2. Published(requests[s]) = requests[s].entry
    BY <1>1, <1>3, <1>9 DEF Published
  <2>3. ASSUME ~overlapped, ~lost
        PROVE  /\ changes = NoView => p.entry \in {NoView, listed}
               /\ WithChanges(listed, changes) = Published(requests[s])
    BY <1>5, <1>6, <2>2, <2>3, InvFacts DEF AgreeInv
  <2>4. IsStored(requests, s)
    BY <1>3, <1>5 DEF IsStored
  <2> QED
    BY <1>3, <1>7, <2>1, <2>3, <2>4, InvFacts, ReceivedInv
<1> QED
  BY <1>8, <1>9

LEMMA ReceiveNothingInv == ASSUME Inv, NEW s \in Slot, ReceiveNothing(s) PROVE Inv'
<1>1. /\ requests[s].stage = "answered" /\ requests' = Done(s)
      /\ requests[s].aborted \/ requests[s].kind \in {"open", "original"}
      /\ UNCHANGED <<row, page, texts, listed, changes, selected, panel, turns, overlapped, lost>>
  BY DEF ReceiveNothing, server, client
<1>2. NotWaiting(s, panel)
  <2>1. ~IsReader(requests, s)
    BY <1>1 DEF IsReader
  <2> QED
    BY <2>1, PanelIsNotWaiting
<1>3. RequestInv(Done(s)) /\ WaitInv(panel, Done(s))
  BY <1>2, NoRequestFacts, ClosedFacts DEF Done
<1>4. ASSUME ~overlapped, ~lost PROVE AgreeInv(row, listed, changes, panel, Done(s))
  <2>1. AgreeInv(row, listed, changes, panel, requests)
    BY <1>4, InvFacts
  <2>2. ~IsStored(requests, s)
    BY <1>1, <2>1 DEF AgreeInv, IsStored, IsChange
  <2>3. changes = NoView => panel.entry \in {NoView, listed}
    BY <2>1 DEF AgreeInv
  <2> QED
    BY <1>1, <1>4, <2>2, <2>3, InvFacts, DoneAgrees
<1>5. Shown(row, listed, changes, selected, panel, Done(s), overlapped, lost)
  BY <1>3, <1>4, InvFacts DEF Shown
<1>6. Shown(row', listed', changes', selected', panel', requests', overlapped', lost')
  BY <1>1, <1>5
<1>7. TypeInv' /\ DeadlineIsOfStoredPage'
  BY <1>1 DEF Inv, TypeInv, DeadlineIsOfStoredPage
<1> QED
  BY <1>6, <1>7 DEF Inv

\* An answer that is lost, or that the route could not give.
LEMMA FailedPanel ==
  ASSUME Inv, NEW s \in Slot, Fail(s)
  PROVE  NotWaiting(s, panel')
<1>1. ~requests[s].aborted /\ requests[s].kind # "none"
  BY DEF Fail
<1>2. CASE requests[s].kind = "load"
  <2>1. PICK p : p = [panel EXCEPT !.load = "failed"]
    OBVIOUS
  <2>2. panel' = Told(s, p) /\ ~IsReader(requests, s)
    BY <1>2, <2>1 DEF Fail, IsReader
  <2>3. /\ p \in Panel /\ p.load = "failed" /\ p.entry = panel.entry /\ p.reader = panel.reader
        /\ p.view = panel.view /\ (p.mounted <=> panel.mounted)
        /\ (p.openedSent <=> panel.openedSent)
    BY <2>1, InvFacts, KindFacts DEF Panel
  <2>4. CASE requests[s].attached
    <3>1. IsLoad(requests, s)
      BY <1>1, <1>2, <2>4 DEF IsLoad
    <3>2. NotWaiting(s, p)
      BY <2>2, <2>3, <3>1, InvFacts DEF NotWaiting, WaitInv
    <3> QED
      BY <2>2, <2>4, <3>2 DEF Told
  <2>5. CASE ~requests[s].attached
    BY <2>2, <2>5, PanelIsNotWaiting DEF Told
  <2> QED
    BY <2>4, <2>5
<1>3. CASE requests[s].kind = "reader"
  <2>1. PICK p : p = [panel EXCEPT !.reader = "failed"]
    OBVIOUS
  <2>2. IsReader(requests, s) /\ requests[s].attached
    BY <1>1, <1>3, InvFacts DEF IsReader, RequestInv
  <2>3. panel' = p
    BY <1>3, <2>1, <2>2 DEF Fail, Told
  <2>4. /\ p \in Panel /\ p.load = panel.load /\ p.entry = panel.entry /\ p.reader = "failed"
        /\ p.view = panel.view /\ (p.mounted <=> panel.mounted)
        /\ (p.openedSent <=> panel.openedSent)
    BY <2>1, InvFacts, KindFacts DEF Panel
  <2>5. NotWaiting(s, p)
    BY <2>2, <2>4, InvFacts DEF NotWaiting, WaitInv
  <2> QED
    BY <2>3, <2>5
<1>4. CASE requests[s].kind = "bookmark"
  <2>1. PICK p : p = [panel EXCEPT !.bookmarking = FALSE]
    OBVIOUS
  <2>2. panel' = Told(s, p) /\ ~IsReader(requests, s)
    BY <1>4, <2>1 DEF Fail, IsReader
  <2>3. IsLike(p, panel)
    BY <2>1, InvFacts, LikeFacts
  <2> QED
    BY <2>2, <2>3, ToldLike
<1>5. CASE requests[s].kind = "translate"
  <2>1. PICK p : p = [panel EXCEPT !.translating = FALSE]
    OBVIOUS
  <2>2. panel' = Told(s, p) /\ ~IsReader(requests, s)
    BY <1>5, <2>1 DEF Fail, IsReader
  <2>3. IsLike(p, panel)
    BY <2>1, InvFacts, LikeFacts
  <2> QED
    BY <2>2, <2>3, ToldLike
<1>6. CASE requests[s].kind \notin {"load", "reader", "bookmark", "translate"}
  <2>1. panel' = panel /\ ~IsReader(requests, s)
    BY <1>6 DEF Fail, Told, IsReader
  <2> QED
    BY <2>1, PanelIsNotWaiting
<1> QED
  BY <1>2, <1>3, <1>4, <1>5, <1>6

\* A request that nobody waits for any more, once an answer has been lost.
LEMMA LostInv ==
  ASSUME Inv, NEW s \in Slot, NEW p, NotWaiting(s, p), panel' = p,
         NEW a \in Asked, requests' = [requests EXCEPT ![s] = a],
         a.kind = "none" \/ (a.kind = requests[s].kind /\ a.entry = requests[s].entry
                             /\ a.stage = requests[s].stage /\ a.version = requests[s].version),
         a.attached => requests[s].attached,
         a.kind \in {"reader", "load"} => a.aborted,
         UNCHANGED <<row, page, texts, listed, changes, selected>>,
         turns' \in 0..MaxTurns, overlapped' \in BOOLEAN, lost' \in BOOLEAN,
         overlapped' \/ lost'
  PROVE  Inv'
<1>1. PICK q : q = requests'
  OBVIOUS
<1>2. RequestInv(q) /\ WaitInv(p, q)
  BY <1>1, ClosedFacts
<1>3. Shown(row, listed, changes, selected, p, q, overlapped', lost')
  BY <1>2, InvFacts DEF Shown
<1>4. Shown(row', listed', changes', selected', panel', requests', overlapped', lost')
  BY <1>1, <1>3
<1>5. TypeInv' /\ DeadlineIsOfStoredPage'
  BY DEF Inv, TypeInv, DeadlineIsOfStoredPage
<1> QED
  BY <1>4, <1>5 DEF Inv

LEMMA FailInv == ASSUME Inv, NEW s \in Slot, Fail(s) PROVE Inv'
<1>1. NotWaiting(s, panel')
  BY FailedPanel
<1>2. /\ lost' = TRUE /\ UNCHANGED <<row, page, texts, listed, changes, selected, overlapped>>
      /\ turns < MaxTurns /\ turns' = turns + 1
  BY DEF Fail, server
<1>3. turns' \in 0..MaxTurns
  <2>1. turns \in 0..MaxTurns /\ MaxTurns \in Nat
    BY InvFacts, PanelAssumption DEF TypeInv
  <2> QED
    BY <1>2, <2>1
<1>4. overlapped' \in BOOLEAN /\ lost' \in BOOLEAN
  BY <1>2, InvFacts DEF TypeInv
<1>5. PICK p : p = panel'
  OBVIOUS
<1>6. NotWaiting(s, p)
  BY <1>1, <1>5
<1>7. CASE requests' = Done(s)
  <2>1. requests' = [requests EXCEPT ![s] = NoRequest]
    BY <1>7 DEF Done
  <2> QED
    BY <1>2, <1>3, <1>4, <1>5, <1>6, <2>1, NoRequestFacts, LostInv
<1>8. CASE requests' = [requests EXCEPT ![s].aborted = TRUE]
  <2>1. PICK a : a = [requests[s] EXCEPT !.aborted = TRUE]
    OBVIOUS
  <2>2. /\ a \in Asked /\ a.kind = requests[s].kind /\ a.entry = requests[s].entry
        /\ a.stage = requests[s].stage /\ a.version = requests[s].version
        /\ (a.attached <=> requests[s].attached) /\ a.aborted
    BY <2>1, RequestFields DEF Asked
  <2>3. requests' = [requests EXCEPT ![s] = a]
    BY <1>8, <2>1, RequestFields
  <2> QED
    BY <1>2, <1>3, <1>4, <1>5, <1>6, <2>2, <2>3, LostInv
<1> QED
  BY <1>7, <1>8 DEF Fail

LEMMA VanishInv == ASSUME Inv, NEW s \in Slot, Vanish(s) PROVE Inv'
<1>1. /\ requests[s].kind # "none" /\ requests[s].aborted
      /\ requests' = [requests EXCEPT ![s] = NoRequest]
      /\ UNCHANGED <<row, page, texts, listed, changes, selected, panel, turns, overlapped, lost>>
  BY DEF Vanish, Done, server, client
<1>2. ~IsReader(requests, s)
  BY <1>1 DEF IsReader
<1>3. overlapped \/ lost
  <2> SUFFICES ASSUME ~overlapped, ~lost PROVE FALSE
    OBVIOUS
  <2> QED
    BY <1>1, InvFacts DEF AgreeInv
<1>4. /\ turns' \in 0..MaxTurns /\ overlapped' \in BOOLEAN /\ lost' \in BOOLEAN
      /\ overlapped' \/ lost'
  BY <1>1, <1>3, InvFacts DEF TypeInv
<1> QED
  BY <1>1, <1>2, <1>4, PanelIsNotWaiting, NoRequestFacts, LostInv

(***************************************************************************)
(* The invariant.                                                          *)
(***************************************************************************)
LEMMA InvInit == Init => Inv
<1> SUFFICES ASSUME Init PROVE Inv
  OBVIOUS
<1>1. /\ row = [opened |-> FALSE, bookmarked |-> FALSE, translation |-> 0, deadline |-> 0,
                content |-> 0]
      /\ page = 1 /\ texts = 0 /\ turns = 0 /\ listed = RowView
      /\ changes = NoView /\ selected = NoView /\ panel = Unmounted
      /\ requests = [s \in Slot |-> NoRequest]
      /\ overlapped = FALSE /\ lost = FALSE
  BY DEF Init
<1>2. /\ MaxTexts \in Nat /\ MaxTurns \in Nat /\ 0 \in 0..MaxTexts /\ 0 \in 0..MaxTurns
      /\ 0 \in MaybePage /\ NoView \in MaybeView
  BY PanelAssumption DEF MaybePage, MaybeView
<1>3. row \in Row
  BY <1>1, <1>2 DEF Row
<1>4. RowView \in View
  BY <1>3, RowViewFacts
<1>5. TypeInv
  BY <1>1, <1>2, <1>3, <1>4, PageFacts DEF TypeInv
<1>6. row.content = 0
  BY <1>1
<1>7. DeadlineIsOfStoredPage
  BY <1>6 DEF DeadlineIsOfStoredPage
<1>8. \A s \in Slot : requests[s] = NoRequest
  BY <1>1
<1>9. \A s \in Slot : /\ ~IsLoad(requests, s) /\ ~IsReader(requests, s) /\ ~IsOpening(requests, s)
                      /\ ~IsWork(requests, s) /\ ~IsChange(requests, s) /\ ~IsStored(requests, s)
                      /\ ~requests[s].attached /\ ~requests[s].aborted
  BY <1>8, NoRequestFacts DEF IsLoad, IsReader, IsOpening, IsWork, IsChange, IsStored
<1>10. requests \in [Slot -> Asked]
  BY <1>1, NoRequestFacts
<1>11. \A s \in Slot : requests[s].kind = "none"
  BY <1>8, NoRequestFacts
<1>12. RequestInv(requests)
  BY <1>9, <1>10, <1>11 DEF RequestInv
<1>13. WaitInv(Unmounted, requests)
  BY <1>9, UnmountedFacts DEF WaitInv
<1>14. AgreeInv(row, listed, NoView, Unmounted, requests)
  <2>1. Opened(row, requests) = row.opened
    <3>1. row.opened \in BOOLEAN
      BY <1>3 DEF Row
    <3> QED
      BY <1>11, <3>1 DEF Opened
  <2>2. StoredView(row, requests) = listed
    BY <1>1, <1>3, <2>1, RowViewFacts
  <2>3. WithChanges(listed, NoView) = listed
    BY DEF WithChanges
  <2> QED
    BY <1>9, <1>11, <2>2, <2>3, UnmountedFacts DEF AgreeInv
<1>15. Shown(row, listed, NoView, NoView, Unmounted, requests, overlapped, lost)
  BY <1>2, <1>12, <1>13, <1>14 DEF Shown
<1>16. Shown(row, listed, changes, selected, panel, requests, overlapped, lost)
  BY <1>1, <1>15
<1> QED
  BY <1>5, <1>7, <1>16 DEF Inv

LEMMA StuttersInv == Inv /\ UNCHANGED vars => Inv'
<1> SUFFICES ASSUME Inv, UNCHANGED vars PROVE Inv'
  OBVIOUS
<1>1. UNCHANGED <<row, page, texts, listed, changes, selected, panel, requests, turns,
                  overlapped, lost>>
  BY DEF vars
<1>2. Shown(row', listed', changes', selected', panel', requests', overlapped', lost')
  BY <1>1 DEF Inv
<1> QED
  BY <1>1, <1>2 DEF Inv, TypeInv, DeadlineIsOfStoredPage

LEMMA InvNext == Inv /\ [Next]_vars => Inv'
<1> SUFFICES ASSUME Inv, [Next]_vars PROVE Inv'
  OBVIOUS
<1>1. CASE Client
  BY <1>1, PickCardInv, PickShownCardInv, OpenAddressInv, RetryLoadInv, LeaveInv, RefreshInv,
     toggleBookmarkInv, toggleCardBookmarkInv, StartReaderInv, StopReaderInv,
     toggleTranslationInv, loadOriginalInv DEF Client
<1>2. CASE Server
  <2>1. PICK s \in Slot :
          \/ ServeLoad(s) \/ ServeOpen(s) \/ ServeBookmark(s)
          \/ FetchPage(s) \/ SavePage(s) \/ ReadTranslation(s) \/ SaveTranslation(s)
    BY <1>2 DEF Server
  <2> QED
    BY <2>1, ServeLoadInv, ServeOpenInv, ServeBookmarkInv, FetchPageInv, SavePageInv,
       ReadTranslationInv, SaveTranslationInv
<1>3. CASE Answer
  <2>1. PICK s \in Slot :
          \/ ReceiveLoad(s) \/ ReceiveBookmark(s) \/ ReceiveCardBookmark(s)
          \/ ReceiveOriginal(s) \/ ReceiveTranslation(s) \/ ReceiveNothing(s)
          \/ Fail(s) \/ Vanish(s)
    BY <1>3 DEF Answer
  <2> QED
    BY <2>1, ReceiveLoadInv, ReceiveBookmarkInv, ReceiveCardBookmarkInv, ReceiveOriginalInv,
       ReceiveTranslationInv, ReceiveNothingInv, FailInv, VanishInv
<1>4. CASE ChangePage
  BY <1>4, ChangePageInv
<1>5. CASE UNCHANGED vars
  BY <1>5, StuttersInv
<1> QED
  BY <1>1, <1>2, <1>3, <1>4, <1>5 DEF Next

THEOREM InvHolds == Spec => []Inv
BY InvInit, InvNext, PTL DEF Spec

LEMMA TypesHold == Inv => TypeOK
<1> SUFFICES ASSUME Inv PROVE TypeOK
  OBVIOUS
<1>1. /\ row \in Row /\ page \in Pages /\ texts \in 0..MaxTexts /\ turns \in 0..MaxTurns
      /\ listed \in View /\ changes \in MaybeView /\ selected \in MaybeView
      /\ overlapped \in BOOLEAN /\ lost \in BOOLEAN
      /\ panel \in Panel /\ requests \in [Slot -> Asked]
  BY InvFacts DEF TypeInv, RequestInv
<1>2. (panel.load = "loaded") <=> (panel.entry # NoView)
  BY InvFacts DEF WaitInv
<1> QED
  BY <1>1, <1>2 DEF TypeOK, Row, Panel, Asked, MaybeView, MaybePage, Stages, LoadStates,
     ReaderStates

(***************************************************************************)
(* The reader of a panel waits exactly when one request of its own is on   *)
(* its way that was not aborted, however often it is turned on and off,    *)
(* the panel is left and opened again or answers are late or lost, and     *)
(* shows a page exactly when it has been answered (entry-panel.tsx).       *)
(***************************************************************************)
THEOREM OneReaderAnswer == Spec => []ReaderWaitsForOneAnswer
<1>1. Inv => ReaderWaitsForOneAnswer
  <2> SUFFICES ASSUME Inv PROVE ReaderWaitsForOneAnswer
    OBVIOUS
  <2> DEFINE R == {s \in Slot : requests[s].kind = "reader" /\ ~requests[s].aborted}
             O == {s \in Slot : requests[s].kind = "open" /\ requests[s].attached}
  <2>1. /\ \A s \in R : IsReader(requests, s)
        /\ \A s \in Slot : IsReader(requests, s) => s \in R
        /\ \A s \in O : IsOpening(requests, s)
    BY DEF IsReader, IsOpening
  <2>2. /\ \A s, t \in R : s = t
        /\ \A s, t \in O : s = t
        /\ (R # {}) <=> panel.reader = "loading"
        /\ (panel.view # 0) <=> (panel.reader = "loaded")
    BY <2>1, InvFacts DEF WaitInv
  <2> HIDE DEF R, O
  <2>3. /\ R = {} => Cardinality(R) = 0
        /\ R # {} => Cardinality(R) = 1
    <3>1. R # {} => \E s : R = {s}
      BY <2>2
    <3> QED
      BY <3>1, FS_EmptySet, FS_Singleton
  <2>4. Cardinality(O) <= 1
    <3>1. O # {} => \E s : O = {s}
      BY <2>2
    <3>2. Cardinality(O) = 0 \/ Cardinality(O) = 1
      BY <3>1, FS_EmptySet, FS_Singleton
    <3> QED
      BY <3>2
  <2>5. Cardinality(R) = IF panel.reader = "loading" THEN 1 ELSE 0
    BY <2>2, <2>3
  <2> QED
    BY <2>2, <2>4, <2>5, TypesHold DEF R, O, ReaderWaitsForOneAnswer
<1> QED
  BY <1>1, InvHolds, PTL

(***************************************************************************)
(* When nothing is on its way, no answer was lost and no two requests      *)
(* overlapped, the card and the panel show what is stored, although every  *)
(* change publishes all the fields it found when it was asked for          *)
(* (entry-changes.tsx).                                                    *)
(***************************************************************************)
THEOREM SequentialPanelAgrees == Spec => []ShownAgreesWhenSequential
<1>1. Inv => ShownAgreesWhenSequential
  <2> SUFFICES ASSUME Inv, Quiet(requests), ~lost, ~overlapped
               PROVE  Card = RowView /\ (Ready => PanelEntry = RowView)
    BY DEF ShownAgreesWhenSequential
  <2>1. AgreeInv(row, listed, changes, panel, requests)
    BY InvFacts
  <2>2. \A s \in Slot : ~IsStored(requests, s)
    BY DEF Quiet, IsStored, IsChange
  <2>3. StoredView(row, requests) = Card
    BY <2>1, <2>2 DEF AgreeInv, Card
  <2>4. Opened(row, requests) = row.opened
    <3>1. row.opened \in BOOLEAN
      BY InvFacts DEF TypeInv, Row
    <3> QED
      BY <3>1 DEF Opened, Quiet
  <2>5. Card = RowView
    BY <2>3, <2>4, InvFacts, RowViewFacts DEF TypeInv
  <2>6. Ready => PanelEntry = Card
    BY PanelEntryFacts DEF Ready
  <2> QED
    BY <2>5, <2>6
<1> QED
  BY <1>1, InvHolds, PTL

(***************************************************************************)
(* The stored deadline is the stored page's, if that page has one, however *)
(* the readings of one Entry overlap, are aborted or go on after their     *)
(* answer is lost (entry-routes.ts, GET /api/entries/:entryId/reader).     *)
(***************************************************************************)
THEOREM DeadlineFollowsPage == Spec => []DeadlineIsOfStoredPage
<1>1. Inv => DeadlineIsOfStoredPage
  BY DEF Inv
<1> QED
  BY <1>1, InvHolds, PTL
=============================================================================
