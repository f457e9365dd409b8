------------------------- MODULE FeedTimeline_proofs -------------------------
(***************************************************************************)
(* Proofs about the timeline, for every size of page and context, number   *)
(* of entries and of saves on their way.                                   *)
(***************************************************************************)
EXTENDS FeedTimeline, SequenceTheorems, FiniteSetTheorems, WellFoundedInduction, TLAPS

(***************************************************************************)
(* Everything up to a place the cursor may come to has been in the window, *)
(* or was jumped over.                                                     *)
(***************************************************************************)
Covered(id) == \A i \in 1..id : i \in seen \/ i <= jumped

CoveredInv ==
  /\ feed.readCursorEntryId <= stored /\ feed.latestEntryId <= stored
  /\ Covered(cursor) /\ Covered(feed.readCursorEntryId)
  /\ Covered(openedCursorEntryId) /\ Covered(passed)
  /\ \A id \in saves : Covered(id)
  /\ \A i \in DOMAIN list : list[i] <= stored /\ Covered(list[i])

(***************************************************************************)
(* What is on its way: an answer is the page its request asked for, of the *)
(* feed as it was when it was read.                                        *)
(***************************************************************************)
Kind == {"initial", "older", "newer", "latest"}

OlderPage(kind, from) ==
  CASE kind = "initial" -> IF from > 0 THEN listEntriesBefore(from + 1, ContextCount) ELSE <<>>
    [] kind = "older"  -> listEntriesBefore(from, PageSize)
    [] kind = "newer"  -> <<>>
    [] kind = "latest" -> listEntriesBefore(from + 1, PageSize)

NewerPage(kind, from, last) ==
  IF kind \in {"initial", "newer"} THEN Run(from + 1, last) ELSE <<>>

IsPage(r, answer) ==
  /\ answer.older = OlderPage(r.kind, r.from)
  /\ \E last \in r.from..stored : answer.newer = NewerPage(r.kind, r.from, last)

IsSound(r) ==
  /\ r \in Request /\ r.from <= stored /\ Covered(r.from)
  /\ r.kind \in {"older", "latest"} => r.from >= 1
  /\ r.served => IsPage(r, r.answer)

RequestInv == \A r \in requests : IsSound(r)

(***************************************************************************)
(* One load at a time, of an end of the window unless the window has been  *)
(* replaced since.                                                         *)
(***************************************************************************)
IsLoad(r) == r.kind \in {"older", "newer"}

EndOfWindow(kind, window) == IF kind = "older" THEN Head(window) ELSE Last(window)

LoadInv ==
  /\ \A r \in requests : IsLoad(r) => loading
  /\ \A r, q \in requests : IsLoad(r) /\ IsLoad(q) => r = q
  /\ \A r \in requests : IsLoad(r) /\ ~r.stale =>
       list # <<>> /\ r.from = EndOfWindow(r.kind, list)

WindowInv ==
  ~mixed /\ list # <<>> =>
    /\ list = Run(Head(list), Last(list))
    /\ ~hasOlder => Head(list) = 1

Inv == TypeOK /\ CoveredInv /\ RequestInv /\ LoadInv /\ WindowInv

(***************************************************************************)
(* Runs of ids.                                                            *)
(***************************************************************************)
LEMMA RunFacts ==
  ASSUME NEW i \in Nat \ {0}, NEW j \in Nat
  PROVE  /\ Run(i, j) \in Seq(i..j)
         /\ Len(Run(i, j)) = IF i > j THEN 0 ELSE j - i + 1
         /\ \A n \in 1..Len(Run(i, j)) : Run(i, j)[n] = i + n - 1
<1> DEFINE len == IF i > j THEN 0 ELSE j - i + 1
<1>1. len \in Nat
  OBVIOUS
<1>2. \A n \in 1..len : i + n - 1 \in i..j
  OBVIOUS
<1> HIDE DEF len
<1>3. [n \in 1..len |-> i + n - 1] \in [1..len -> i..j]
  BY <1>2
<1>4. Run(i, j) = [n \in 1..len |-> i + n - 1]
  BY DEF Run, len
<1>5. Run(i, j) \in Seq(i..j) /\ Len(Run(i, j)) = len
  BY <1>1, <1>3, <1>4, SeqDef
<1> QED
  BY <1>4, <1>5 DEF len

LEMMA RunIsOfNat ==
  ASSUME NEW i \in Nat \ {0}, NEW j \in Nat PROVE Run(i, j) \in Seq(Nat)
<1>1. Run(i, j) \in Seq(i..j)
  BY RunFacts
<1>2. i..j \subseteq Nat
  OBVIOUS
<1> QED
  BY <1>1, <1>2, SeqMonotonic

LEMMA RunJoin ==
  ASSUME NEW i \in Nat \ {0}, NEW j \in Nat, NEW k \in Nat, i <= j + 1, j <= k
  PROVE  Run(i, j) \o Run(j + 1, k) = Run(i, k)
<1> DEFINE a == Run(i, j)
           b == Run(j + 1, k)
           c == Run(i, k)
<1>1. j + 1 \in Nat \ {0}
  OBVIOUS
<1>2. a \in Seq(Nat) /\ b \in Seq(Nat) /\ c \in Seq(Nat)
  BY <1>1, RunIsOfNat
<1>3. Len(a) = j - i + 1 /\ \A n \in 1..Len(a) : a[n] = i + n - 1
  <2>1. /\ Len(a) = IF i > j THEN 0 ELSE j - i + 1
        /\ \A n \in 1..Len(a) : a[n] = i + n - 1
    BY RunFacts
  <2> HIDE DEF a
  <2> QED
    BY <2>1
<1>4. Len(b) = k - j /\ \A n \in 1..Len(b) : b[n] = j + n
  <2>1. /\ Len(b) = IF j + 1 > k THEN 0 ELSE k - (j + 1) + 1
        /\ \A n \in 1..Len(b) : b[n] = (j + 1) + n - 1
    BY <1>1, RunFacts
  <2> HIDE DEF b
  <2>2. Len(b) = k - j
    BY <2>1
  <2>3. \A n \in 1..Len(b) : n \in Int /\ b[n] = (j + 1) + n - 1
    BY <2>1
  <2> QED
    BY <2>2, <2>3
<1>5. Len(c) = k - i + 1 /\ \A n \in 1..Len(c) : c[n] = i + n - 1
  <2>1. /\ Len(c) = IF i > k THEN 0 ELSE k - i + 1
        /\ \A n \in 1..Len(c) : c[n] = i + n - 1
    BY RunFacts
  <2> HIDE DEF c
  <2> QED
    BY <2>1
<1> HIDE DEF a, b, c
<1>6. /\ a \o b \in Seq(Nat) /\ Len(a \o b) = Len(a) + Len(b)
      /\ \A n \in 1..Len(a) + Len(b) :
           (a \o b)[n] = IF n <= Len(a) THEN a[n] ELSE b[n - Len(a)]
  BY <1>2, ConcatProperties
<1>7. Len(a \o b) = Len(c)
  BY <1>3, <1>4, <1>5, <1>6
<1>8. ASSUME NEW n \in 1..Len(a \o b) PROVE (a \o b)[n] = c[n]
  <2>1. n \in Int /\ n \in 1..Len(c) /\ c[n] = i + n - 1
    BY <1>5, <1>7
  <2>2. CASE n <= Len(a)
    BY <1>3, <1>6, <2>1, <2>2
  <2>3. CASE n > Len(a)
    <3>1. n - Len(a) \in 1..Len(b) /\ Len(a) \in Int
      BY <1>3, <1>4, <1>6, <2>1, <2>3
    <3>2. (a \o b)[n] = b[n - Len(a)]
      BY <1>6, <2>1, <2>3, <3>1
    <3>3. b[n - Len(a)] = j + (n - Len(a))
      BY <1>4, <3>1
    <3> QED
      BY <1>3, <2>1, <3>2, <3>3
  <2> QED
    BY <1>3, <2>1, <2>2, <2>3
<1> QED
  BY <1>2, <1>6, <1>7, <1>8, SeqEqual DEF a, b, c

LEMMA RunEnds ==
  ASSUME NEW i \in Nat \ {0}, NEW j \in Nat
  PROVE  /\ i <= j => /\ Run(i, j) # <<>> /\ Head(Run(i, j)) = i /\ Last(Run(i, j)) = j
         /\ i > j => Run(i, j) = <<>>
<1>1. /\ Run(i, j) \in Seq(Nat) /\ Len(Run(i, j)) = IF i > j THEN 0 ELSE j - i + 1
      /\ \A n \in 1..Len(Run(i, j)) : Run(i, j)[n] = i + n - 1
  BY RunFacts, RunIsOfNat
<1>2. CASE i <= j
  <2>1. Len(Run(i, j)) = j - i + 1 /\ j - i + 1 \in 1..Len(Run(i, j)) /\ 1 \in 1..Len(Run(i, j))
    BY <1>1, <1>2
  <2>2. Run(i, j)[1] = i /\ Run(i, j)[j - i + 1] = j
    BY <1>1, <2>1
  <2>3. Run(i, j) # <<>>
    BY <1>1, <2>1
  <2> QED
    BY <1>1, <1>2, <2>1, <2>2, <2>3 DEF Last
<1>3. CASE i > j
  BY <1>1, <1>3, EmptySeq
<1> QED
  BY <1>2, <1>3

(***************************************************************************)
(* The pages the server answers with.                                      *)
(***************************************************************************)
LEMMA BeforeFacts ==
  ASSUME NEW id \in Nat \ {0}, NEW limit \in Nat \ {0}
  PROVE  \E first \in 1..id :
           /\ listEntriesBefore(id, limit) = Run(first, id - 1)
           /\ ~IsFull(listEntriesBefore(id, limit), limit) => first = 1
<1> DEFINE first == Later(1, id - limit)
<1>1. first \in 1..id /\ (first # 1 => first = id - limit)
  BY DEF Later
<1>2. listEntriesBefore(id, limit) = Run(first, id - 1)
  BY DEF listEntriesBefore
<1> HIDE DEF first
<1>3. first \in Nat \ {0} /\ id - 1 \in Nat
  BY <1>1
<1>4. Len(Run(first, id - 1)) = IF first > id - 1 THEN 0 ELSE id - 1 - first + 1
  BY <1>3, RunFacts
<1>5. first # 1 => Len(Run(first, id - 1)) = limit
  BY <1>1, <1>3, <1>4
<1> QED
  BY <1>1, <1>2, <1>5 DEF IsFull

LEMMA AfterFacts ==
  ASSUME stored \in Nat, NEW id \in 0..stored, NEW limit \in Nat \ {0}
  PROVE  \E last \in id..stored : listEntriesAfter(id, limit) = Run(id + 1, last)
BY DEF listEntriesAfter

\* A page of older entries is a run that ends where it was asked for.
LEMMA OlderPageFacts ==
  ASSUME NEW kind \in Kind, NEW from \in Nat, kind # "newer", kind = "initial" \/ from >= 1
  PROVE  LET end == IF kind = "older" THEN from - 1 ELSE from
             size == IF kind = "initial" THEN ContextCount ELSE PageSize
         IN /\ end \in Nat
            /\ \E first \in 1..(end + 1) :
                 /\ OlderPage(kind, from) = Run(first, end)
                 /\ ~IsFull(OlderPage(kind, from), size) => first = 1
                 /\ kind # "older" /\ from >= 1 => first <= end
<1> USE TimelineAssumption DEF Kind
<1>0. ContextCount \in Nat \ {0} /\ PageSize \in Nat \ {0}
  OBVIOUS
<1>1. CASE kind = "older"
  <2>1. OlderPage(kind, from) = listEntriesBefore(from, PageSize)
    BY <1>1 DEF OlderPage
  <2>2. from \in Nat \ {0}
    BY <1>1
  <2>3. \E first \in 1..from :
          /\ listEntriesBefore(from, PageSize) = Run(first, from - 1)
          /\ ~IsFull(listEntriesBefore(from, PageSize), PageSize) => first = 1
    BY <1>0, <2>2, BeforeFacts
  <2> QED
    BY <1>1, <2>1, <2>2, <2>3
<1>2. ASSUME NEW size \in Nat \ {0}, from >= 1
      PROVE  \E first \in 1..from :
               /\ listEntriesBefore(from + 1, size) = Run(first, from)
               /\ ~IsFull(listEntriesBefore(from + 1, size), size) => first = 1
  <2>1. from + 1 \in Nat \ {0} /\ (from + 1) - 1 = from
    OBVIOUS
  <2>2. listEntriesBefore(from + 1, size) = Run(Later(1, (from + 1) - size), from)
    BY <2>1 DEF listEntriesBefore
  <2>3. Later(1, (from + 1) - size) \in 1..from
    BY <1>2 DEF Later
  <2>4. Len(Run(Later(1, (from + 1) - size), from)) = from - Later(1, (from + 1) - size) + 1
    <3> DEFINE first == Later(1, (from + 1) - size)
    <3>1. first \in Nat \ {0} /\ first <= from
      BY <2>3
    <3> HIDE DEF first
    <3>2. Len(Run(first, from)) = IF first > from THEN 0 ELSE from - first + 1
      BY <3>1, RunFacts
    <3>3. Len(Run(first, from)) = from - first + 1
      BY <3>1, <3>2
    <3> QED
      BY <3>3 DEF first
  <2>5. Later(1, (from + 1) - size) # 1 => Len(Run(Later(1, (from + 1) - size), from)) = size
    BY <2>4 DEF Later
  <2> QED
    BY <2>2, <2>3, <2>5 DEF IsFull
<1>3. CASE kind = "latest"
  <2>1. OlderPage(kind, from) = listEntriesBefore(from + 1, PageSize)
    BY <1>3 DEF OlderPage
  <2> QED
    BY <1>0, <1>2, <1>3, <2>1
<1>4. CASE kind = "initial" /\ from >= 1
  <2>1. OlderPage(kind, from) = listEntriesBefore(from + 1, ContextCount)
    BY <1>4 DEF OlderPage
  <2> QED
    BY <1>0, <1>2, <1>4, <2>1
<1>5. CASE kind = "initial" /\ from = 0
  <2>1. OlderPage(kind, from) = <<>>
    BY <1>5 DEF OlderPage
  <2>2. Run(1, 0) = <<>>
    BY RunEnds
  <2> QED
    BY <1>5, <2>1, <2>2
<1> QED
  BY <1>1, <1>3, <1>4, <1>5

\* The ids of a run are ids of entries.
LEMMA RunOfEntries ==
  ASSUME NEW i \in Nat \ {0}, NEW j \in Nat, NEW n \in Nat, j <= n PROVE Run(i, j) \in Seq(1..n)
<1>1. Run(i, j) \in Seq(i..j)
  BY RunFacts
<1>2. i..j \subseteq 1..n
  OBVIOUS
<1> QED
  BY <1>1, <1>2, SeqMonotonic

LEMMA PagesAreOfEntries ==
  ASSUME NEW kind \in Kind, NEW n \in Nat, NEW from \in 0..n,
         kind \in {"older", "latest"} => from >= 1
  PROVE  /\ OlderPage(kind, from) \in Seq(1..n)
         /\ \A last \in from..n : NewerPage(kind, from, last) \in Seq(1..n)
<1>1. OlderPage(kind, from) \in Seq(1..n)
  <2>1. CASE kind = "newer"
    BY <2>1, EmptySeq DEF OlderPage
  <2>2. CASE kind # "newer"
    <3> DEFINE end == IF kind = "older" THEN from - 1 ELSE from
    <3>1. kind = "initial" \/ from >= 1
      BY <2>2 DEF Kind
    <3>2. end \in Nat /\ \E first \in 1..(end + 1) : OlderPage(kind, from) = Run(first, end)
      BY <2>2, <3>1, OlderPageFacts
    <3>3. end <= n
      BY <3>1
    <3> HIDE DEF end
    <3>4. PICK first \in Nat \ {0} : OlderPage(kind, from) = Run(first, end)
      BY <3>2
    <3> QED
      BY <3>2, <3>3, <3>4, RunOfEntries
  <2> QED
    BY <2>1, <2>2
<1>2. ASSUME NEW last \in from..n PROVE NewerPage(kind, from, last) \in Seq(1..n)
  <2>1. from + 1 \in Nat \ {0} /\ last \in Nat /\ last <= n
    OBVIOUS
  <2>2. Run(from + 1, last) \in Seq(1..n)
    BY <2>1, RunOfEntries
  <2> QED
    BY <2>2, EmptySeq DEF NewerPage
<1> QED
  BY <1>1, <1>2

(***************************************************************************)
(* The requests as records.                                                *)
(***************************************************************************)
LEMMA RequestFields ==
  ASSUME NEW r \in Request
  PROVE  /\ r.kind \in Kind /\ r.from \in Nat /\ r.stale \in BOOLEAN /\ r.served \in BOOLEAN
         /\ r.answer \in Answer /\ r.answer.older \in Ids /\ r.answer.newer \in Ids
<1> HIDE DEF Kind
<1>1. r \in [kind: Kind, from: Nat, stale: BOOLEAN, served: BOOLEAN, answer: Answer]
  BY DEF Request, Kind
<1>2. r.answer \in Answer
  BY <1>1
<1>3. r.answer.older \in Ids /\ r.answer.newer \in Ids
  BY <1>2 DEF Answer
<1> QED
  BY <1>1, <1>3

LEMMA StaleRequest ==
  ASSUME NEW r \in Request
  PROVE  LET q == [r EXCEPT !.stale = TRUE]
         IN /\ q \in Request /\ q.kind = r.kind /\ q.from = r.from /\ q.stale = TRUE
            /\ q.served = r.served /\ q.answer = r.answer
<1>1. r \in [kind: Kind, from: Nat, stale: BOOLEAN, served: BOOLEAN, answer: Answer]
  BY DEF Request, Kind
<1>2. [r EXCEPT !.stale = TRUE] \in
        [kind: Kind, from: Nat, stale: BOOLEAN, served: BOOLEAN, answer: Answer]
  BY <1>1
<1> QED
  BY <1>1, <1>2 DEF Request, Kind

LEMMA ServedRequest ==
  ASSUME NEW r \in Request, NEW answer \in Answer
  PROVE  LET q == [r EXCEPT !.served = TRUE, !.answer = answer]
         IN /\ q \in Request /\ q.kind = r.kind /\ q.from = r.from /\ q.stale = r.stale
            /\ q.served = TRUE /\ q.answer = answer
<1>1. r \in [kind: Kind, from: Nat, stale: BOOLEAN, served: BOOLEAN, answer: Answer]
  BY DEF Request, Kind
<1>2. [r EXCEPT !.served = TRUE, !.answer = answer] \in
        [kind: Kind, from: Nat, stale: BOOLEAN, served: BOOLEAN, answer: Answer]
  BY <1>1
<1> QED
  BY <1>1, <1>2 DEF Request, Kind

\* What the server answers is the page that was asked for.
LEMMA AnswerFacts ==
  ASSUME stored \in 0..MaxEntries, NEW r, r.kind \in Kind, r.from \in 0..stored,
         r.kind \in {"older", "latest"} => r.from >= 1
  PROVE  AnswerTo(r) \in Answer /\ IsPage(r, AnswerTo(r))
<1>0. ContextCount \in Nat \ {0} /\ PageSize \in Nat \ {0} /\ MaxEntries \in Nat
  BY TimelineAssumption
<1>1. /\ AnswerTo(r) = [older |-> AnswerTo(r).older, newer |-> AnswerTo(r).newer]
      /\ AnswerTo(r).older = OlderPage(r.kind, r.from)
      /\ AnswerTo(r).newer = IF r.kind \in {"initial", "newer"}
                             THEN listEntriesAfter(r.from, PageSize) ELSE <<>>
  <2>1. CASE r.kind = "initial"
    BY <2>1 DEF AnswerTo, OlderPage
  <2>2. CASE r.kind = "older"
    BY <2>2 DEF AnswerTo, OlderPage
  <2>3. CASE r.kind = "newer"
    BY <2>3 DEF AnswerTo, OlderPage
  <2>4. CASE r.kind = "latest"
    BY <2>4 DEF AnswerTo, OlderPage
  <2> QED
    BY <2>1, <2>2, <2>3, <2>4 DEF Kind
<1>2. \E last \in r.from..stored : listEntriesAfter(r.from, PageSize) = Run(r.from + 1, last)
  BY <1>0, AfterFacts
<1>3. \E last \in r.from..stored : AnswerTo(r).newer = NewerPage(r.kind, r.from, last)
  BY <1>1, <1>2 DEF NewerPage
<1>4. PICK last \in r.from..stored : AnswerTo(r).newer = NewerPage(r.kind, r.from, last)
  BY <1>3
<1>5. last \in r.from..MaxEntries /\ r.from \in 0..MaxEntries
  BY <1>0, <1>4
<1>6. AnswerTo(r).older \in Ids /\ AnswerTo(r).newer \in Ids
  BY <1>0, <1>1, <1>4, <1>5, PagesAreOfEntries DEF Ids
<1> QED
  BY <1>1, <1>3, <1>6 DEF Answer, IsPage

LEMMA AskFacts ==
  ASSUME stored \in 0..MaxEntries, NEW kind \in Kind, NEW from \in 0..stored,
         kind \in {"older", "latest"} => from >= 1
  PROVE  LET r == Ask(kind, from)
         IN /\ r \in Request /\ r.kind = kind /\ r.from = from /\ r.stale = FALSE
            /\ r.served => IsPage(r, r.answer)
<1> DEFINE r == [kind |-> kind, from |-> from, stale |-> FALSE, served |-> FALSE,
                 answer |-> NoAnswer]
<1>1. NoAnswer \in Answer
  BY EmptySeq DEF NoAnswer, Answer, Ids
<1>2. /\ r \in Request /\ r.kind = kind /\ r.from = from /\ r.stale = FALSE
      /\ r.served = FALSE
  <2>1. r \in [kind: Kind, from: Nat, stale: BOOLEAN, served: BOOLEAN, answer: Answer]
    BY <1>1
  <2> QED
    BY <2>1 DEF Request, Kind
<1>3. Ask(kind, from) = IF kind \in {"older", "latest"}
                        THEN [r EXCEPT !.served = TRUE, !.answer = AnswerTo(r)] ELSE r
  BY DEF Ask
<1> HIDE DEF r
<1>4. AnswerTo(r) \in Answer /\ IsPage(r, AnswerTo(r))
  BY <1>2, AnswerFacts
<1>5. CASE kind \in {"older", "latest"}
  <2> DEFINE q == [r EXCEPT !.served = TRUE, !.answer = AnswerTo(r)]
  <2>1. /\ q \in Request /\ q.kind = r.kind /\ q.from = r.from /\ q.stale = r.stale
        /\ q.served = TRUE /\ q.answer = AnswerTo(r)
    BY <1>2, <1>4, ServedRequest
  <2>2. Ask(kind, from) = q
    BY <1>3, <1>5
  <2> HIDE DEF q
  <2> QED
    BY <1>2, <1>4, <2>1, <2>2 DEF IsPage
<1>6. CASE kind \notin {"older", "latest"}
  BY <1>2, <1>3, <1>6
<1> QED
  BY <1>5, <1>6

(***************************************************************************)
(* The steps outside the window.                                           *)
(***************************************************************************)
LEMMA SoundStays ==
  ASSUME TypeOK, stored' \in Nat, stored <= stored', seen \subseteq seen', jumped' \in Nat,
         jumped <= jumped'
  PROVE  /\ \A id \in Nat : Covered(id) => Covered(id)'
         /\ \A r : IsSound(r) => IsSound(r)'
<1>1. stored \in Nat /\ jumped \in Nat
  BY TimelineAssumption DEF TypeOK
<1>2. ASSUME NEW id \in Nat, Covered(id) PROVE Covered(id)'
  <2>1. \A i \in 1..id : i \in Int /\ (i \in seen \/ i <= jumped)
    BY <1>2 DEF Covered
  <2> QED
    BY <1>1, <2>1 DEF Covered
<1>3. ASSUME NEW r, IsSound(r) PROVE IsSound(r)'
  <2>1. /\ r \in Request /\ r.from <= stored /\ Covered(r.from)
        /\ r.kind \in {"older", "latest"} => r.from >= 1
        /\ r.served => IsPage(r, r.answer)
    BY <1>3 DEF IsSound
  <2>2. r.from \in Nat
    BY <2>1, RequestFields
  <2>3. r.from <= stored' /\ Covered(r.from)'
    BY <1>1, <1>2, <2>1, <2>2
  <2>4. r.from..stored \subseteq r.from..stored'
    BY <1>1, <2>2
  <2>5. r.served => IsPage(r, r.answer)'
    BY <2>1, <2>4 DEF IsPage
  <2> QED
    BY <2>1, <2>3, <2>5 DEF IsSound
<1> QED
  BY <1>2, <1>3

\* Steps of the server and of the tracker leave the window and its requests alone.
LEMMA WindowStays ==
  ASSUME Inv, stored' \in Nat, stored <= stored',
         UNCHANGED <<list, hasOlder, loading, requests, mixed, seen, jumped>>
  PROVE  RequestInv' /\ LoadInv' /\ WindowInv' /\ \A id \in Nat : Covered(id) => Covered(id)'
<1>1. jumped \in Nat
  BY TimelineAssumption DEF Inv, TypeOK
<1>2. /\ \A id \in Nat : Covered(id) => Covered(id)'
      /\ \A r : IsSound(r) => IsSound(r)'
  BY <1>1, SoundStays DEF Inv
<1>3. RequestInv'
  BY <1>2 DEF Inv, RequestInv
<1>4. LoadInv'
  BY DEF Inv, LoadInv, IsLoad
<1>5. WindowInv'
  BY DEF Inv, WindowInv
<1> QED
  BY <1>2, <1>3, <1>4, <1>5

LEMMA ServerInv ==
  Inv /\ (Collect \/ refreshFeeds \/ \E id \in saves : ServeSave(id) \/ LoseSave(id)) => Inv'
<1> SUFFICES ASSUME Inv,
                    Collect \/ refreshFeeds \/ \E id \in saves : ServeSave(id) \/ LoseSave(id)
             PROVE  Inv'
  OBVIOUS
<1> USE TimelineAssumption
<1>1. /\ stored' \in Nat /\ stored <= stored' /\ stored' <= MaxEntries /\ stored \in Nat
      /\ cursor \in Nat
      /\ UNCHANGED <<screen, passed, saved, timer, seen, jumped, mixed>>
  BY DEF Inv, TypeOK, Collect, refreshFeeds, ServeSave, LoseSave, server, screen, tracker, history
<1>2. /\ RequestInv' /\ LoadInv' /\ WindowInv' /\ \A id \in Nat : Covered(id) => Covered(id)'
  BY <1>1, WindowStays DEF screen
<1>3. /\ cursor' \in 0..stored' /\ Covered(cursor') /\ saves' \subseteq saves
      /\ lost' \in BOOLEAN
  <2>1. CASE Collect \/ refreshFeeds
    BY <1>1, <2>1 DEF Inv, TypeOK, CoveredInv, Collect, refreshFeeds, server, tracker, history
  <2>2. ASSUME NEW id \in saves, ServeSave(id) \/ LoseSave(id)
        PROVE  /\ cursor' \in 0..stored' /\ Covered(cursor') /\ saves' \subseteq saves
               /\ lost' \in BOOLEAN
    <3>1. /\ id \in 1..stored /\ Covered(id) /\ Covered(cursor) /\ cursor \in 0..stored
      BY DEF Inv, TypeOK, CoveredInv
    <3>2. /\ saves' = saves \ {id} /\ (cursor' = cursor \/ cursor' = id) /\ stored' = stored
      BY <2>2 DEF ServeSave, LoseSave, server, history, Later
    <3>3. cursor' \in 0..stored' /\ Covered(cursor')
      BY <3>1, <3>2
    <3>4. lost' \in BOOLEAN
      BY <2>2 DEF Inv, TypeOK, ServeSave, LoseSave, history
    <3> QED
      BY <3>2, <3>3, <3>4
  <2> QED
    BY <2>1, <2>2
<1>4. /\ feed' \in FeedRow /\ feed'.readCursorEntryId <= stored' /\ feed'.latestEntryId <= stored'
      /\ Covered(feed'.readCursorEntryId)
  BY <1>1 DEF Inv, TypeOK, CoveredInv, Collect, refreshFeeds, ServeSave, LoseSave, server, FeedRow
<1>5. TypeOK'
  BY <1>1, <1>3, <1>4 DEF Inv, TypeOK, screen
<1>6. CoveredInv'
  BY <1>1, <1>2, <1>3, <1>4, SMTT(30) DEF Inv, TypeOK, CoveredInv, screen, FeedRow, Ids
<1> QED
  BY <1>2, <1>5, <1>6 DEF Inv

LEMMA MaxFacts ==
  ASSUME NEW n \in Nat, NEW S \in SUBSET (0..n), S # {}
  PROVE  Max(S) \in S /\ \A i \in S : Max(S) >= i
<1>1. IsWellFoundedOn(OpToRel(<, Nat), Nat)
  BY NatLessThanWellFounded
<1> DEFINE R == OpToRel(<, Nat)
           U == {n - i : i \in S}
<1>2. \A x, y \in Nat : x < y => <<x, y>> \in R
  BY DEF OpToRel
<1>3. IsWellFoundedOn(R, Nat)
  BY <1>1
<1>4. \A i \in S : i \in 0..n /\ n - i \in Nat
  OBVIOUS
<1>5. U \subseteq Nat /\ U # {}
  BY <1>4
<1> HIDE DEF R
<1>6. \E u \in U : \A v \in U : ~(<<v, u>> \in R)
  <2> HIDE DEF U
  <2> QED
    BY <1>3, <1>5, WFMin, Zenon
<1>7. PICK u \in U : \A v \in U : ~(<<v, u>> \in R)
  BY <1>6
<1>8. PICK i \in S : u = n - i
  BY <1>7
<1>9. ASSUME NEW j \in S PROVE i >= j
  <2>1. n - j \in U /\ n - j \in Nat /\ n - i \in Nat
    BY <1>4
  <2>2. ~(<<n - j, n - i>> \in R)
    BY <1>7, <1>8, <2>1
  <2>3. ~(n - j < n - i)
    BY <1>2, <2>1, <2>2
  <2> QED
    BY <1>4, <2>3
<1> QED
  BY <1>9 DEF Max

(***************************************************************************)
(* The tracker.                                                            *)
(***************************************************************************)
LEMMA TrackerInv ==
  ASSUME Inv, UNCHANGED <<server, feed, screen, history>>,
         passed' \in 0..stored, Covered(passed'), saved' \in 0..passed',
         timer' \in BOOLEAN, saves' \subseteq saves \cup {passed'},
         passed' = 0 => saves' \subseteq saves
  PROVE  Inv'
<1>1. stored \in Nat /\ UNCHANGED <<stored, cursor, seen, jumped, mixed, lost>>
  BY TimelineAssumption DEF Inv, TypeOK, server, history
<1>2. /\ RequestInv' /\ LoadInv' /\ WindowInv' /\ \A id \in Nat : Covered(id) => Covered(id)'
  BY <1>1, WindowStays DEF screen
<1>3. saves' \subseteq 1..stored
  BY <1>1 DEF Inv, TypeOK
<1>4. TypeOK'
  BY <1>1, <1>3 DEF Inv, TypeOK, screen
<1>5. UNCHANGED <<stored, cursor, feed, openedCursorEntryId, list, seen, jumped>>
  BY <1>1 DEF screen
<1>6. CoveredInv'
  BY <1>5 DEF Inv, CoveredInv, Covered
<1> QED
  BY <1>2, <1>4, <1>6 DEF Inv

LEMMA TrackInv == ASSUME Inv, NEW n \in 1..Len(list), trackPassedEntries(n) PROVE Inv'
<1> DEFINE S == {passed} \cup {list[i] : i \in 1..n}
<1>1. /\ stored \in Nat /\ passed \in 0..stored /\ saved \in 0..passed
      /\ list \in Ids /\ timer \in BOOLEAN
  BY TimelineAssumption DEF Inv, TypeOK
<1>2. \A i \in 1..n : list[i] \in 1..stored /\ Covered(list[i])
  <2>1. \A i \in 1..n : i \in DOMAIN list /\ list[i] \in Nat \ {0}
    BY <1>1, TimelineAssumption DEF Ids
  <2> QED
    BY <1>1, <2>1 DEF Inv, CoveredInv
<1>3. Covered(passed)
  BY DEF Inv, CoveredInv
<1>4. S \in SUBSET (0..stored) /\ S # {} /\ passed \in S /\ \A i \in S : Covered(i)
  BY <1>1, <1>2, <1>3
<1>5. /\ passed' = Max(S) /\ timer' = (timer \/ passed' > saved)
      /\ UNCHANGED <<server, feed, screen, history>> /\ UNCHANGED <<saved, saves>>
  BY DEF trackPassedEntries
<1> HIDE DEF S
<1>6. Max(S) \in S /\ Max(S) >= passed
  BY <1>1, <1>4, MaxFacts
<1>7. passed' \in 0..stored /\ Covered(passed') /\ passed' >= passed
  BY <1>4, <1>5, <1>6
<1>8. saved' \in 0..passed'
  BY <1>1, <1>5, <1>7
<1>9. timer' \in BOOLEAN
  BY <1>5
<1> QED
  BY <1>5, <1>7, <1>8, <1>9, TrackerInv

LEMMA SaveNowFacts ==
  ASSUME Inv, NEW newPassed \in passed..stored, saveNow(newPassed)
  PROVE  /\ passed' = newPassed /\ passed' \in 0..stored /\ saved' \in 0..passed'
         /\ timer' \in BOOLEAN /\ saves' \subseteq saves \cup {passed'}
         /\ passed' = 0 => saves' \subseteq saves
<1>1. stored \in Nat /\ passed \in 0..stored /\ saved \in 0..passed
  BY TimelineAssumption DEF Inv, TypeOK
<1>2. /\ timer' = FALSE /\ passed' = newPassed /\ saved' = Later(saved, newPassed)
      /\ saves' = SavesAfter(newPassed)
  BY DEF saveNow
<1>3. saved' \in 0..passed' /\ passed' \in 0..stored
  BY <1>1, <1>2 DEF Later
<1>4. /\ saves' \subseteq saves \cup {passed'}
      /\ passed' = 0 => saves' \subseteq saves
  BY <1>1, <1>2 DEF SavesAfter
<1> QED
  BY <1>2, <1>3, <1>4

LEMMA SaveInv == Inv /\ (TimerFires \/ \E id \in ToSet(list) : SelectCard(id)) => Inv'
<1> SUFFICES ASSUME Inv, TimerFires \/ \E id \in ToSet(list) : SelectCard(id) PROVE Inv'
  OBVIOUS
<1>1. stored \in Nat /\ passed \in 0..stored /\ Covered(passed) /\ list \in Ids
  BY TimelineAssumption DEF Inv, TypeOK, CoveredInv
<1>2. PICK newPassed \in passed..stored :
        /\ saveNow(newPassed) /\ Covered(newPassed)
        /\ UNCHANGED <<server, feed, screen, history>>
  <2>1. CASE TimerFires
    BY <1>1, <2>1 DEF TimerFires
  <2>2. ASSUME NEW id \in ToSet(list), SelectCard(id)
        PROVE  \E newPassed \in passed..stored :
                 /\ saveNow(newPassed) /\ Covered(newPassed)
                 /\ UNCHANGED <<server, feed, screen, history>>
    <3>1. id \in Nat /\ id <= stored /\ Covered(id)
      BY <1>1, TimelineAssumption DEF ToSet, Inv, CoveredInv, Ids
    <3>2. Later(passed, id) \in passed..stored /\ Covered(Later(passed, id))
      BY <1>1, <3>1 DEF Later
    <3> QED
      BY <2>2, <3>2 DEF SelectCard
  <2> QED
    BY <2>1, <2>2
<1> QED
  BY <1>2, SaveNowFacts, TrackerInv

(***************************************************************************)
(* Pages are asked for.                                                    *)
(***************************************************************************)
LEMMA AskSound ==
  ASSUME stored \in 0..MaxEntries, UNCHANGED stored, NEW kind \in Kind, NEW from \in 0..stored,
         kind \in {"older", "latest"} => from >= 1,
         \A i \in 1..from : i \in seen' \/ i <= jumped',
         NEW r, r = Ask(kind, from)
  PROVE  /\ r \in Request /\ r.kind = kind /\ r.from = from /\ r.stale = FALSE
         /\ IsSound(r)'
<1>1. /\ r \in Request /\ r.kind = kind /\ r.from = from /\ r.stale = FALSE
      /\ r.served => IsPage(r, r.answer)
  BY AskFacts
<1>2. stored \in Nat /\ r.from <= stored'
  BY <1>1, TimelineAssumption
<1>3. IsSound(r)'
  BY <1>1, <1>2 DEF IsSound, IsPage, Covered
<1> QED
  BY <1>1, <1>3

\* A step that leaves the feed and what has been seen alone.
LEMMA NothingMoves ==
  UNCHANGED <<stored, seen, jumped>> =>
    /\ \A id : Covered(id)' <=> Covered(id)
    /\ \A r : IsSound(r)' <=> IsSound(r)
BY DEF Covered, IsSound, IsPage

LEMMA OpenInv == Inv /\ (Open \/ Retry) => Inv'
<1> SUFFICES ASSUME Inv, Open \/ Retry PROVE Inv'
  OBVIOUS
<1> USE TimelineAssumption
<1> DEFINE from == IF Open THEN feed.readCursorEntryId ELSE openedCursorEntryId
<1>1. /\ UNCHANGED <<server, feed, loaded, list, hasOlder, hasNewer, loading, timer, saves, history>>
      /\ mounted' \in BOOLEAN /\ openedCursorEntryId' = from
      /\ passed' \in {passed, from} /\ saved' = IF passed' = from THEN saved' ELSE saved
      /\ requests' = {Ask("initial", from)}
  BY DEF Inv, TypeOK, Open, Retry, tracker
<1>2. (passed' = from /\ saved' = from) \/ UNCHANGED <<passed, saved>>
  BY DEF Open, Retry, tracker
<1>3. /\ stored \in Nat /\ from \in 0..stored /\ Covered(from)
      /\ UNCHANGED <<stored, cursor, seen, jumped, mixed, lost>>
  BY <1>1 DEF Inv, TypeOK, CoveredInv, FeedRow, server, history
<1> HIDE DEF from
<1>4. \A id : Covered(id)' <=> Covered(id)
  BY <1>3, NothingMoves
<1>5. PICK r : r = Ask("initial", from)
  OBVIOUS
<1>6. r \in Request /\ r.kind = "initial" /\ IsSound(r)'
  <2>1. \A i \in 1..from : i \in seen' \/ i <= jumped'
    BY <1>3 DEF Covered
  <2>2. stored \in 0..MaxEntries /\ "initial" \in Kind
    BY DEF Inv, TypeOK, Kind
  <2> QED
    BY <1>3, <1>5, <2>1, <2>2, AskSound DEF Kind
<1>7. requests' = {r}
  BY <1>1, <1>5
<1>8. RequestInv' /\ LoadInv'
  BY <1>6, <1>7 DEF RequestInv, LoadInv, IsLoad
<1>9. WindowInv'
  BY <1>1, <1>3 DEF Inv, WindowInv
<1>10. TypeOK'
  BY <1>1, <1>2, <1>3, <1>6, <1>7 DEF Inv, TypeOK
<1>11. CoveredInv'
  BY <1>1, <1>2, <1>3, <1>4 DEF Inv, CoveredInv
<1> QED
  BY <1>8, <1>9, <1>10, <1>11 DEF Inv

LEMMA LeaveInv == Inv /\ Leave => Inv'
<1> SUFFICES ASSUME Inv, Leave PROVE Inv'
  OBVIOUS
<1> USE TimelineAssumption
<1>1. /\ mounted' = FALSE /\ openedCursorEntryId' = 0 /\ loaded' = FALSE /\ list' = <<>>
      /\ hasOlder' = FALSE /\ hasNewer' = FALSE /\ loading' = FALSE
      /\ requests' = {} /\ mixed' = FALSE /\ passed' = 0 /\ saved' = 0 /\ timer' = FALSE
      /\ UNCHANGED <<server, feed, seen, jumped, lost>>
  BY DEF Leave
<1>2. stored \in Nat /\ passed \in 0..stored /\ saved \in 0..passed
  BY DEF Inv, TypeOK
<1>3. saves' \subseteq 1..stored /\ \A id \in saves' : Covered(id)
  <2>1. saves' = IF passed > saved THEN saves \cup {passed} ELSE saves
    BY DEF Leave, SavesOnLeave, SavesAfter
  <2> QED
    BY <1>2, <2>1 DEF Inv, TypeOK, CoveredInv
<1>4. UNCHANGED <<stored, cursor>>
  BY <1>1 DEF server
<1>5. \A id : Covered(id)' <=> Covered(id)
  BY <1>1, <1>4, NothingMoves
<1>6. TypeOK'
  <2>1. list' \in Ids
    BY <1>1, EmptySeq DEF Ids
  <2>2. /\ {hasOlder, hasNewer, loading}' \subseteq BOOLEAN /\ {mounted, loaded, timer}' \subseteq BOOLEAN
        /\ {mixed, lost}' \subseteq BOOLEAN
    BY <1>1 DEF Inv, TypeOK
  <2>3. /\ stored' \in 0..MaxEntries /\ cursor' \in 0..stored' /\ feed' \in FeedRow
        /\ openedCursorEntryId' \in 0..stored' /\ requests' \subseteq Request
        /\ passed' \in 0..stored' /\ saved' \in 0..passed'
        /\ saves' \subseteq 1..stored' /\ seen' \subseteq 1..stored' /\ jumped' \in 0..stored'
    BY <1>1, <1>2, <1>3, <1>4 DEF Inv, TypeOK
  <2> QED
    BY <2>1, <2>2, <2>3 DEF TypeOK
<1>7. CoveredInv'
  <2>1. Covered(0)
    BY DEF Covered
  <2> QED
    BY <1>1, <1>3, <1>4, <1>5, <2>1 DEF Inv, CoveredInv
<1>8. RequestInv' /\ LoadInv' /\ WindowInv'
  BY <1>1 DEF RequestInv, LoadInv, WindowInv
<1> QED
  BY <1>6, <1>7, <1>8 DEF Inv

\* A step that only changes what is on its way.
LEMMA OnTheWay ==
  ASSUME Inv, UNCHANGED <<server, feed, mounted, openedCursorEntryId, loaded, list, hasOlder,
                          hasNewer, tracker, history>>,
         loading' \in BOOLEAN, requests' \subseteq Request, RequestInv', LoadInv'
  PROVE  Inv'
<1>1. UNCHANGED <<stored, cursor, seen, jumped, mixed, lost, passed, saved, timer, saves>>
  BY DEF server, history, tracker
<1>2. TypeOK'
  BY <1>1 DEF Inv, TypeOK
<1>3. \A id : Covered(id)' <=> Covered(id)
  BY <1>1, NothingMoves
<1>4. CoveredInv'
  BY <1>1, <1>3 DEF Inv, CoveredInv
<1>5. WindowInv'
  BY <1>1 DEF Inv, WindowInv
<1> QED
  BY <1>2, <1>4, <1>5 DEF Inv

LEMMA ServeInv == ASSUME Inv, NEW r \in requests, Serve(r) \/ LoseRequest(r) PROVE Inv'
<1>1. /\ UNCHANGED <<server, feed, mounted, openedCursorEntryId, loaded, list, hasOlder,
                     hasNewer, tracker, history>>
      /\ UNCHANGED <<stored, seen, jumped>> /\ loading \in BOOLEAN
  BY DEF Serve, LoseRequest, server, history, Inv, TypeOK
<1>2. \A q : IsSound(q)' <=> IsSound(q)
  BY <1>1, NothingMoves
<1>3. \A q \in requests : q \in Request /\ IsSound(q)
  BY DEF Inv, RequestInv, TypeOK
<1>4. CASE Serve(r)
  <2>1. PICK q : q = [r EXCEPT !.served = TRUE, !.answer = AnswerTo(r)]
    OBVIOUS
  <2>2. requests' = (requests \ {r}) \cup {q} /\ UNCHANGED loading
    BY <1>4, <2>1 DEF Serve
  <2>3. AnswerTo(r) \in Answer /\ IsPage(r, AnswerTo(r))
    <3>1. stored \in 0..MaxEntries /\ stored \in Nat
      BY TimelineAssumption DEF Inv, TypeOK
    <3>2. r.kind \in Kind /\ r.from \in Nat
      BY <1>3, RequestFields
    <3>3. r.from \in 0..stored /\ (r.kind \in {"older", "latest"} => r.from >= 1)
      BY <1>3, <3>1, <3>2 DEF IsSound
    <3> QED
      BY <3>1, <3>2, <3>3, AnswerFacts
  <2>4. /\ q \in Request /\ q.kind = r.kind /\ q.from = r.from /\ q.stale = r.stale
        /\ q.served = TRUE /\ q.answer = AnswerTo(r)
    BY <1>3, <2>1, <2>3, ServedRequest
  <2>5. IsSound(q)
    BY <1>3, <2>3, <2>4 DEF IsSound, IsPage
  <2>6. RequestInv'
    BY <1>2, <1>3, <2>2, <2>5 DEF RequestInv
  <2>7. LoadInv'
    BY <1>1, <2>2, <2>4 DEF Inv, LoadInv, IsLoad, EndOfWindow
  <2> QED
    BY <1>1, <1>3, <2>2, <2>4, <2>6, <2>7, OnTheWay
<1>5. CASE LoseRequest(r)
  <2>1. /\ requests' = requests \ {r}
        /\ loading' = IF IsLoad(r) THEN FALSE ELSE loading
    BY <1>5 DEF LoseRequest, IsLoad
  <2>2. RequestInv'
    BY <1>2, <1>3, <2>1 DEF RequestInv
  <2>3. LoadInv'
    BY <1>1, <2>1 DEF Inv, LoadInv, IsLoad, EndOfWindow
  <2>4. loading' \in BOOLEAN
    BY <1>1, <2>1
  <2> QED
    BY <1>1, <1>3, <2>1, <2>2, <2>3, <2>4, OnTheWay
<1> QED
  BY <1>4, <1>5

LEMMA LoadsInv == Inv /\ (loadOlder \/ loadNewer) => Inv'
<1> SUFFICES ASSUME Inv, loadOlder \/ loadNewer PROVE Inv'
  OBVIOUS
<1>1. /\ UNCHANGED <<server, feed, mounted, openedCursorEntryId, loaded, list, hasOlder,
                     hasNewer, tracker, history>>
      /\ UNCHANGED <<stored, seen, jumped>> /\ loading' = TRUE
      /\ list # <<>> /\ loading = FALSE
  BY DEF loadOlder, loadNewer, MayLoad, server, history, Inv, TypeOK
<1>2. PICK kind \in {"older", "newer"} : requests' = requests \cup {Ask(kind, EndOfWindow(kind, list))}
  BY DEF loadOlder, loadNewer, EndOfWindow
<1>3. PICK from : from = EndOfWindow(kind, list)
  OBVIOUS
<1>4. PICK r : r = Ask(kind, from)
  OBVIOUS
<1>5. stored \in 0..MaxEntries /\ list \in Seq(1..MaxEntries) /\ stored \in Nat
  BY TimelineAssumption DEF Inv, TypeOK, Ids
<1>6. from \in 1..stored /\ Covered(from)
  <2>1. \E i \in DOMAIN list : from = list[i]
    BY <1>1, <1>2, <1>3, <1>5 DEF EndOfWindow, Last
  <2>2. from \in 1..MaxEntries
    <3>1. list \in [1..Len(list) -> 1..MaxEntries]
      BY <1>5, LenProperties
    <3> QED
      BY <2>1, <3>1
  <2> QED
    BY <1>5, <2>1, <2>2, TimelineAssumption DEF Inv, CoveredInv
<1>7. /\ r \in Request /\ r.kind = kind /\ r.from = from /\ r.stale = FALSE
      /\ IsSound(r)'
  <2>1. /\ kind \in Kind /\ from \in 0..stored
        /\ kind \in {"older", "latest"} => from >= 1
    BY <1>5, <1>6 DEF Kind
  <2>2. /\ r \in Request /\ r.kind = kind /\ r.from = from /\ r.stale = FALSE
        /\ r.served => IsPage(r, r.answer)
    BY <1>4, <1>5, <2>1, AskFacts
  <2>3. IsSound(r)
    BY <1>5, <1>6, <2>1, <2>2 DEF IsSound
  <2> QED
    BY <1>1, <2>2, <2>3, NothingMoves
<1>8. requests' = requests \cup {r}
  BY <1>2, <1>3, <1>4
<1>9. requests' \subseteq Request
  BY <1>7, <1>8 DEF Inv, TypeOK
<1>10. RequestInv'
  <2>1. \A q : IsSound(q)' <=> IsSound(q)
    BY <1>1, NothingMoves
  <2> QED
    BY <1>7, <1>8, <2>1 DEF Inv, RequestInv
<1>11. LoadInv'
  <2>1. \A q \in requests : ~IsLoad(q)
    BY <1>1 DEF Inv, LoadInv
  <2>2. \A q \in requests' : IsLoad(q) => q = r
    BY <1>8, <2>1
  <2> QED
    BY <1>1, <1>3, <1>7, <2>2 DEF LoadInv
<1>12. loading' \in BOOLEAN
  BY <1>1
<1> QED
  BY <1>1, <1>9, <1>10, <1>11, <1>12, OnTheWay

LEMMA JumpInv == Inv /\ jumpToLatest => Inv'
<1> SUFFICES ASSUME Inv, jumpToLatest PROVE Inv'
  OBVIOUS
<1> USE TimelineAssumption
<1> DEFINE from == feed.latestEntryId
<1>1. /\ UNCHANGED <<server, feed, mounted, openedCursorEntryId, loaded, list, hasOlder,
                     hasNewer, loading, seen, mixed, lost>>
      /\ UNCHANGED <<stored, cursor>>
      /\ requests' = requests \cup {Ask("latest", from)}
      /\ jumped' = Later(jumped, from)
      /\ from > feed.readCursorEntryId
  BY DEF jumpToLatest, server
<1>2. /\ stored \in 0..MaxEntries /\ stored \in Nat /\ jumped \in 0..stored
      /\ passed \in 0..stored /\ Covered(passed) /\ from \in 1..stored
  BY <1>1 DEF Inv, TypeOK, CoveredInv, FeedRow
<1>3. /\ jumped' \in 0..stored /\ jumped <= jumped' /\ from <= jumped'
  BY <1>1, <1>2 DEF Later
<1>4. /\ \A id \in Nat : Covered(id) => Covered(id)'
      /\ \A q : IsSound(q) => IsSound(q)'
  BY <1>1, <1>2, <1>3, SoundStays DEF Inv
<1>5. Later(passed, from) \in passed..stored /\ saveNow(Later(passed, from))
  BY <1>2 DEF Later, jumpToLatest
<1>6. /\ passed' = Later(passed, from) /\ passed' \in 0..stored /\ saved' \in 0..passed'
      /\ timer' \in BOOLEAN /\ saves' \subseteq saves \cup {passed'}
      /\ passed' = 0 => saves' \subseteq saves
  BY <1>5, SaveNowFacts
<1>7. PICK id \in 0..stored : passed' = id /\ Covered(id)'
  <2>1. CASE passed' = passed
    BY <1>2, <1>4, <2>1
  <2>2. CASE passed' = from
    BY <1>2, <1>3, <2>2 DEF Covered
  <2> QED
    BY <1>6, <2>1, <2>2 DEF Later
<1>8. PICK r : r = Ask("latest", from)
  OBVIOUS
<1>9. r \in Request /\ r.kind = "latest" /\ IsSound(r)'
  <2>1. \A i \in 1..from : i \in seen' \/ i <= jumped'
    BY <1>2, <1>3
  <2>2. "latest" \in Kind /\ from \in 0..stored /\ from >= 1
    BY <1>2 DEF Kind
  <2> HIDE DEF from
  <2> QED
    BY <1>1, <1>2, <1>8, <2>1, <2>2, AskSound, ZenonT(30)
<1>10. requests' = requests \cup {r}
  BY <1>1, <1>8
<1>11. TypeOK'
  <2>1. requests' \subseteq Request
    BY <1>9, <1>10 DEF Inv, TypeOK
  <2>2. saves' \subseteq 1..stored
    BY <1>2, <1>6 DEF Inv, TypeOK
  <2> QED
    BY <1>1, <1>3, <1>6, <2>1, <2>2 DEF Inv, TypeOK
<1>12. CoveredInv'
  <2>1. \A i \in saves' : i = id \/ (i \in saves /\ i \in Nat)
    BY <1>6, <1>7 DEF Inv, TypeOK
  <2>2. /\ cursor \in Nat /\ feed.readCursorEntryId \in Nat /\ openedCursorEntryId \in Nat
        /\ \A i \in DOMAIN list : list[i] \in Nat
    BY <1>2 DEF Inv, TypeOK, FeedRow, Ids
  <2>3. \A i \in saves' : Covered(i)'
    BY <1>4, <1>7, <2>1 DEF Inv, CoveredInv
  <2> QED
    BY <1>1, <1>4, <1>7, <2>2, <2>3 DEF Inv, CoveredInv
<1>13. RequestInv'
  BY <1>4, <1>9, <1>10 DEF Inv, RequestInv
<1>14. LoadInv'
  BY <1>1, <1>9, <1>10 DEF Inv, LoadInv, IsLoad
<1>15. WindowInv'
  BY <1>1 DEF Inv, WindowInv
<1> QED
  BY <1>11, <1>12, <1>13, <1>14, <1>15 DEF Inv

(***************************************************************************)
(* Pages are shown.                                                        *)
(***************************************************************************)
LEMMA RunSet == ASSUME NEW i \in Nat \ {0}, NEW j \in Nat PROVE ToSet(Run(i, j)) = i..j
<1>1. /\ DOMAIN Run(i, j) = 1..Len(Run(i, j))
      /\ Len(Run(i, j)) = IF i > j THEN 0 ELSE j - i + 1
      /\ \A n \in 1..Len(Run(i, j)) : Run(i, j)[n] = i + n - 1
  <2>1. Run(i, j) \in Seq(Nat)
    BY RunIsOfNat
  <2>2. DOMAIN Run(i, j) = 1..Len(Run(i, j))
    BY <2>1, LenProperties
  <2> QED
    BY <2>2, RunFacts
<1>2. ASSUME NEW id \in ToSet(Run(i, j)) PROVE id \in i..j
  <2>1. PICK n \in 1..Len(Run(i, j)) : id = Run(i, j)[n]
    BY <1>1 DEF ToSet
  <2>2. n \in Nat /\ n >= 1 /\ i + n - 1 <= j
    BY <1>1, <2>1
  <2> QED
    BY <1>1, <2>1, <2>2
<1>3. ASSUME NEW id \in i..j PROVE id \in ToSet(Run(i, j))
  <2>1. id - i + 1 \in 1..Len(Run(i, j)) /\ i + (id - i + 1) - 1 = id
    BY <1>1
  <2> QED
    BY <1>1, <2>1 DEF ToSet
<1> QED
  BY <1>2, <1>3

LEMMA ConcatSet ==
  ASSUME NEW s \in Ids, NEW t \in Ids
  PROVE  s \o t \in Ids /\ ToSet(s \o t) = ToSet(s) \cup ToSet(t)
<1> USE DEF Ids
<1>1. /\ s \o t \in Ids /\ Len(s \o t) = Len(s) + Len(t)
      /\ \A i \in 1..Len(s) + Len(t) :
           (s \o t)[i] = IF i <= Len(s) THEN s[i] ELSE t[i - Len(s)]
  BY ConcatProperties
<1>2. /\ DOMAIN s = 1..Len(s) /\ DOMAIN t = 1..Len(t) /\ DOMAIN (s \o t) = 1..Len(s \o t)
      /\ Len(s) \in Nat /\ Len(t) \in Nat
  BY <1>1, LenProperties
<1>3. ASSUME NEW i \in 1..Len(s) PROVE s[i] \in ToSet(s \o t)
  <2>1. i \in DOMAIN (s \o t) /\ (s \o t)[i] = s[i]
    BY <1>1, <1>2
  <2> QED
    BY <2>1 DEF ToSet
<1>4. ASSUME NEW i \in 1..Len(t) PROVE t[i] \in ToSet(s \o t)
  <2>1. Len(s) + i \in DOMAIN (s \o t) /\ (s \o t)[Len(s) + i] = t[i]
    BY <1>1, <1>2
  <2> QED
    BY <2>1 DEF ToSet
<1>5. ASSUME NEW i \in DOMAIN (s \o t) PROVE (s \o t)[i] \in ToSet(s) \cup ToSet(t)
  <2>1. i \in 1..Len(s) \/ (i \notin 1..Len(s) /\ i - Len(s) \in 1..Len(t))
    BY <1>1, <1>2
  <2> QED
    BY <1>1, <1>2, <2>1 DEF ToSet
<1> QED
  BY <1>1, <1>2, <1>3, <1>4, <1>5 DEF ToSet

\* What a page brings is covered, by itself where it is new.
LEMMA PageCovers ==
  ASSUME Inv, NEW r \in requests, r.served
  PROVE  /\ r.answer.older \in Ids /\ r.answer.newer \in Ids
         /\ \A id \in ToSet(r.answer.older) : id \in 1..stored /\ Covered(id)
         /\ \A id \in ToSet(r.answer.newer) :
              /\ id \in 1..stored
              /\ \A i \in 1..id : i \in seen \/ i <= jumped \/ i \in ToSet(r.answer.newer)
<1>1. r \in Request /\ IsSound(r) /\ stored \in Nat
  BY TimelineAssumption DEF Inv, RequestInv, TypeOK
<1>2. /\ r.kind \in Kind /\ r.from \in 0..stored /\ Covered(r.from) /\ r.from \in Nat
      /\ r.kind \in {"older", "latest"} => r.from >= 1
      /\ IsPage(r, r.answer)
  BY <1>1, RequestFields DEF IsSound
<1>3. \A id \in ToSet(r.answer.older) : id \in 1..stored /\ Covered(id)
  <2>1. CASE r.kind = "newer"
    <3>1. r.answer.older = <<>>
      BY <1>2, <2>1 DEF IsPage, OlderPage
    <3> QED
      BY <3>1 DEF ToSet
  <2>2. CASE r.kind # "newer"
    <3> DEFINE end == IF r.kind = "older" THEN r.from - 1 ELSE r.from
    <3>1. r.kind = "initial" \/ r.from >= 1
      BY <1>2, <2>2 DEF Kind
    <3>2. end \in Nat /\ \E first \in 1..(end + 1) : OlderPage(r.kind, r.from) = Run(first, end)
      BY <1>2, <2>2, <3>1, OlderPageFacts
    <3>3. end <= r.from
      BY <1>2
    <3> HIDE DEF end
    <3>4. PICK first \in Nat \ {0} : r.answer.older = Run(first, end)
      BY <1>2, <3>2 DEF IsPage
    <3>5. ToSet(r.answer.older) = first..end
      BY <3>2, <3>4, RunSet
    <3> QED
      BY <1>1, <1>2, <3>2, <3>3, <3>4, <3>5 DEF Covered
  <2> QED
    BY <2>1, <2>2
<1>4. ASSUME NEW id \in ToSet(r.answer.newer)
      PROVE  /\ id \in 1..stored
             /\ \A i \in 1..id : i \in seen \/ i <= jumped \/ i \in ToSet(r.answer.newer)
  <2>1. PICK last \in r.from..stored : r.answer.newer = NewerPage(r.kind, r.from, last)
    BY <1>2 DEF IsPage
  <2>2. r.answer.newer # <<>>
    BY <1>4 DEF ToSet
  <2>3. r.answer.newer = Run(r.from + 1, last)
    BY <2>1, <2>2 DEF NewerPage
  <2>4. r.from + 1 \in Nat \ {0} /\ last \in Nat
    BY <1>1, <1>2, <2>1
  <2>5. ToSet(r.answer.newer) = (r.from + 1)..last
    BY <2>3, <2>4, RunSet
  <2>6. id \in 1..stored /\ id <= last
    BY <1>1, <1>2, <2>1, <2>5
  <2>7. ASSUME NEW i \in 1..id PROVE i \in 1..r.from \/ i \in (r.from + 1)..last
    BY <1>2, <2>1, <2>4, <2>6
  <2> QED
    BY <1>2, <2>5, <2>6, <2>7 DEF Covered
<1> QED
  BY <1>1, <1>3, <1>4, RequestFields

\* The window after a page has been shown: what it had, what the page brings, or both.
LEMMA ShownFacts ==
  ASSUME Inv, NEW r \in requests, Apply(r)
  PROVE  /\ list' \in Ids
         /\ ToSet(list') \subseteq
              ToSet(list) \cup ToSet(r.answer.older) \cup ToSet(r.answer.newer)
         /\ ToSet(r.answer.newer) \subseteq ToSet(list')
<1>1. r.served /\ r.answer.older \in Ids /\ r.answer.newer \in Ids /\ list \in Ids
  BY PageCovers DEF Apply, Inv, TypeOK
<1>2. r.kind \in {"older", "latest"} => r.answer.newer = <<>>
  BY <1>1 DEF Inv, RequestInv, IsSound, IsPage, NewerPage
<1>3. ToSet(<<>>) = {}
  BY DEF ToSet
<1>4. CASE ApplyInitial(r)
  <2>1. list' = r.answer.older \o r.answer.newer
    BY <1>4 DEF ApplyInitial, Replace
  <2> QED
    BY <1>1, <2>1, ConcatSet
<1>5. CASE ApplyOlder(r)
  <2>1. list' = r.answer.older \o list /\ r.answer.newer = <<>>
    BY <1>2, <1>5 DEF ApplyOlder, Extend
  <2> QED
    BY <1>1, <1>3, <2>1, ConcatSet
<1>6. CASE ApplyNewer(r)
  <2>1. list' = list \o r.answer.newer
    BY <1>6 DEF ApplyNewer, Extend
  <2> QED
    BY <1>1, <2>1, ConcatSet
<1>7. CASE ApplyLatest(r)
  <2>1. list' = r.answer.older /\ r.answer.newer = <<>>
    BY <1>2, <1>7 DEF ApplyLatest, Replace
  <2> QED
    BY <1>1, <1>3, <2>1
<1> QED
  BY <1>4, <1>5, <1>6, <1>7 DEF Apply

LEMMA ApplyCovered ==
  ASSUME Inv, NEW r \in requests, Apply(r)
  PROVE  /\ CoveredInv' /\ seen' \subseteq 1..stored
         /\ \A q : IsSound(q) => IsSound(q)'
<1>1. /\ UNCHANGED <<server, feed, openedCursorEntryId, tracker, jumped>>
      /\ seen' = seen \cup ToSet(list') /\ r.served
  BY DEF Apply
<1>2. UNCHANGED <<stored, cursor, passed, saves, jumped>>
  BY <1>1 DEF server, tracker
<1>3. /\ stored \in Nat /\ cursor \in Nat /\ feed.readCursorEntryId \in Nat
      /\ openedCursorEntryId \in Nat /\ passed \in Nat /\ jumped \in Nat
      /\ saves \subseteq Nat /\ seen \subseteq 1..stored /\ list \in Ids
  BY TimelineAssumption DEF Inv, TypeOK, FeedRow
<1>4. /\ \A id \in Nat : Covered(id) => Covered(id)'
      /\ \A q : IsSound(q) => IsSound(q)'
  <2>1. stored' \in Nat /\ stored <= stored' /\ seen \subseteq seen' /\ jumped' \in Nat /\ jumped <= jumped'
    BY <1>1, <1>2, <1>3
  <2> QED
    BY <2>1, SoundStays DEF Inv
<1>5. ASSUME NEW id \in ToSet(list') PROVE id \in 1..stored /\ Covered(id)'
  <2>1. CASE id \in ToSet(list)
    <3>1. id \in Nat \ {0} /\ id <= stored /\ Covered(id)
      BY <1>3, <2>1, LenProperties, TimelineAssumption DEF ToSet, Ids, Inv, CoveredInv
    <3> QED
      BY <1>3, <1>4, <3>1
  <2>2. CASE id \in ToSet(r.answer.older)
    <3>1. id \in 1..stored /\ Covered(id)
      BY <1>1, <2>2, PageCovers
    <3> QED
      BY <1>3, <1>4, <3>1
  <2>3. CASE id \in ToSet(r.answer.newer)
    <3>1. /\ id \in 1..stored
          /\ \A i \in 1..id : i \in seen \/ i <= jumped \/ i \in ToSet(r.answer.newer)
      BY <1>1, <2>3, PageCovers
    <3>2. ToSet(r.answer.newer) \subseteq seen'
      BY <1>1, ShownFacts
    <3> QED
      BY <1>1, <3>1, <3>2 DEF Covered
  <2> QED
    BY <1>5, <2>1, <2>2, <2>3, ShownFacts
<1>6. (\A i \in DOMAIN list : list[i] <= stored /\ Covered(list[i]))'
  <2>1. ASSUME NEW i \in DOMAIN list' PROVE (list[i] <= stored /\ Covered(list[i]))'
    <3>1. PICK id : id = list'[i]
      OBVIOUS
    <3>2. id \in ToSet(list')
      BY <3>1 DEF ToSet
    <3>3. id <= stored' /\ Covered(id)'
      BY <1>2, <1>3, <1>5, <3>2
    <3> QED
      BY <3>1, <3>3
  <2> QED
    BY <2>1
<1>7. CoveredInv'
  BY <1>1, <1>2, <1>3, <1>4, <1>6 DEF Inv, CoveredInv
<1>8. seen' \subseteq 1..stored
  BY <1>1, <1>3, <1>5
<1> QED
  BY <1>4, <1>7, <1>8

\* The pages on their way when the window is replaced, and when it grows.
LEMMA ReplaceInv ==
  ASSUME Inv, NEW r \in requests, \A q : IsSound(q) => IsSound(q)', NEW window, Replace(r, window)
  PROVE  requests' \subseteq Request /\ RequestInv' /\ LoadInv'
<1>1. requests' = {[q EXCEPT !.stale = TRUE] : q \in requests \ {r}} /\ UNCHANGED loading
  BY DEF Replace
<1>2. ASSUME NEW p \in requests'
      PROVE  \E q \in requests : /\ p = [q EXCEPT !.stale = TRUE] /\ p \in Request
                                 /\ p.kind = q.kind /\ p.stale = TRUE /\ IsSound(p)'
  <2>1. PICK q \in requests : p = [q EXCEPT !.stale = TRUE]
    BY <1>1
  <2>2. q \in Request /\ IsSound(q)
    BY DEF Inv, RequestInv, TypeOK
  <2>3. /\ p \in Request /\ p.kind = q.kind /\ p.from = q.from /\ p.stale = TRUE
        /\ p.served = q.served /\ p.answer = q.answer
    BY <2>1, <2>2, StaleRequest
  <2>4. IsSound(p)
    BY <2>2, <2>3 DEF IsSound, IsPage
  <2> QED
    BY <2>1, <2>3, <2>4
<1>3. RequestInv' /\ requests' \subseteq Request
  BY <1>2 DEF RequestInv
<1>4. LoadInv'
  <2>1. \A p \in requests' : IsLoad(p) => loading'
    BY <1>1, <1>2 DEF Inv, LoadInv, IsLoad
  <2>2. ASSUME NEW p1 \in requests', NEW p2 \in requests', IsLoad(p1), IsLoad(p2)
        PROVE  p1 = p2
    <3>1. PICK q1 \in requests : p1 = [q1 EXCEPT !.stale = TRUE] /\ IsLoad(q1)
      BY <1>2, <2>2 DEF IsLoad
    <3>2. PICK q2 \in requests : p2 = [q2 EXCEPT !.stale = TRUE] /\ IsLoad(q2)
      BY <1>2, <2>2 DEF IsLoad
    <3>3. q1 = q2
      BY <3>1, <3>2 DEF Inv, LoadInv
    <3> QED
      BY <3>1, <3>2, <3>3
  <2>3. \A p \in requests' : p.stale = TRUE
    BY <1>2
  <2> QED
    BY <2>1, <2>2, <2>3 DEF LoadInv
<1> QED
  BY <1>3, <1>4

LEMMA ExtendInv ==
  ASSUME Inv, NEW r \in requests, IsLoad(r), \A q : IsSound(q) => IsSound(q)', NEW window,
         Extend(r, window)
  PROVE  requests' \subseteq Request /\ RequestInv' /\ LoadInv'
<1>1. requests' = requests \ {r}
  BY DEF Extend
<1>2. requests' \subseteq Request /\ RequestInv'
  BY <1>1 DEF Inv, TypeOK, RequestInv
<1>3. \A q \in requests' : ~IsLoad(q)
  BY <1>1 DEF Inv, LoadInv
<1>4. LoadInv'
  BY <1>3 DEF LoadInv
<1> QED
  BY <1>2, <1>4

\* A run whose page at the top is not full starts with the first entry.
LEMMA RunIsWindow ==
  ASSUME NEW first \in Nat \ {0}, NEW last \in Nat, list' = Run(first, last),
         hasOlder' \/ first = 1 \/ first > last
  PROVE  WindowInv'
<1>1. CASE first > last
  <2>1. list' = <<>>
    BY <1>1, RunEnds
  <2> QED
    BY <2>1 DEF WindowInv
<1>2. CASE first <= last
  <2>1. Head(list') = first /\ Last(list') = last
    BY <1>2, RunEnds
  <2>2. (Head(list) = first /\ Last(list) = last)'
    BY <2>1 DEF Last
  <2> QED
    BY <1>2, <2>2 DEF WindowInv
<1> QED
  BY <1>1, <1>2

LEMMA ApplyWindow == ASSUME Inv, NEW r \in requests, Apply(r) PROVE WindowInv'
<1>0. ContextCount \in Nat \ {0} /\ PageSize \in Nat \ {0} /\ MaxEntries \in Nat
  BY TimelineAssumption
<1>1. /\ r \in Request /\ r.kind \in Kind /\ r.from \in Nat /\ r.from <= stored /\ stored \in Nat
      /\ r.kind \in {"older", "latest"} => r.from >= 1
      /\ IsPage(r, r.answer)
  <2>1. r \in Request /\ IsSound(r) /\ stored \in Nat
    BY <1>0 DEF Inv, RequestInv, TypeOK
  <2> QED
    BY <2>1, RequestFields DEF Apply, IsSound
<1>2. PICK last \in Nat : r.from <= last /\ r.answer.newer = NewerPage(r.kind, r.from, last)
  BY <1>1 DEF IsPage
<1>3. r.answer.older = OlderPage(r.kind, r.from)
  BY <1>1 DEF IsPage
<1>4. CASE ApplyInitial(r)
  <2>1. /\ r.kind = "initial" /\ list' = r.answer.older \o r.answer.newer
        /\ hasOlder' = IsFull(r.answer.older, ContextCount)
    BY <1>4 DEF ApplyInitial, Replace
  <2>2. r.answer.newer = Run(r.from + 1, last)
    BY <1>2, <2>1 DEF NewerPage
  <2>3. PICK first \in 1..(r.from + 1) :
          /\ r.answer.older = Run(first, r.from)
          /\ ~IsFull(r.answer.older, ContextCount) => first = 1
    <3>1. \E first \in 1..(r.from + 1) :
            /\ OlderPage(r.kind, r.from) = Run(first, r.from)
            /\ ~IsFull(OlderPage(r.kind, r.from), ContextCount) => first = 1
      <4>1. r.kind # "newer" /\ r.kind # "older"
        BY <2>1
      <4> QED
        BY <1>1, <2>1, <4>1, OlderPageFacts
    <3> QED
      BY <1>3, <3>1
  <2>4. Run(first, r.from) \o Run(r.from + 1, last) = Run(first, last)
    <3>1. /\ first \in Nat \ {0} /\ r.from \in Nat /\ last \in Nat
          /\ first <= r.from + 1 /\ r.from <= last
      BY <1>1, <1>2, <2>3
    <3> QED
      BY <3>1, RunJoin
  <2> QED
    BY <1>1, <1>2, <2>1, <2>2, <2>3, <2>4, RunIsWindow, SMTT(30)
<1>5. CASE ApplyLatest(r)
  <2>1. /\ r.kind = "latest" /\ list' = r.answer.older
        /\ hasOlder' = IsFull(r.answer.older, PageSize)
    BY <1>5 DEF ApplyLatest, Replace
  <2>2. PICK first \in 1..(r.from + 1) :
          /\ r.answer.older = Run(first, r.from)
          /\ ~IsFull(r.answer.older, PageSize) => first = 1
    BY <1>1, <1>3, <2>1, OlderPageFacts
  <2> QED
    BY <1>1, <2>1, <2>2, RunIsWindow
<1>6. CASE r.kind \in {"older", "newer"} /\ ~mixed'
  <2>1. ~mixed /\ ~r.stale
    BY <1>6 DEF Apply, ApplyInitial, ApplyOlder, ApplyNewer, ApplyLatest, Extend
  <2>2. list # <<>> /\ r.from = EndOfWindow(r.kind, list)
    BY <1>6, <2>1 DEF Inv, LoadInv, IsLoad
  <2> DEFINE h == Head(list)
             l == Last(list)
  <2>3. list = Run(h, l) /\ (~hasOlder => h = 1)
    BY <2>1, <2>2 DEF Inv, WindowInv
  <2>4. h \in Nat \ {0} /\ l \in Nat \ {0}
    <3>1. /\ list \in [1..Len(list) -> 1..MaxEntries] /\ Len(list) \in Nat \ {0}
          /\ list \in Seq(1..MaxEntries)
      BY <2>2, LenProperties, EmptySeq DEF Inv, TypeOK, Ids
    <3>2. h \in 1..MaxEntries
      BY <2>2, <3>1, HeadTailProperties
    <3>3. l \in 1..MaxEntries
      BY <3>1 DEF Last
    <3> QED
      BY <1>0, <3>2, <3>3
  <2> HIDE DEF h, l
  <2>5. h <= l
    BY <2>2, <2>3, <2>4, RunEnds
  <2>6. CASE r.kind = "older"
    <3>1. ApplyOlder(r)
      BY <2>6 DEF Apply, ApplyInitial, ApplyOlder, ApplyNewer, ApplyLatest
    <3>2. list' = r.answer.older \o list /\ hasOlder' = IsFull(r.answer.older, PageSize)
      BY <3>1 DEF ApplyOlder, Extend
    <3>3. r.from = h
      BY <2>2, <2>6 DEF EndOfWindow, h
    <3>4. PICK first \in 1..h :
            /\ r.answer.older = Run(first, h - 1)
            /\ ~IsFull(r.answer.older, PageSize) => first = 1
      <4>1. \E first \in 1..((h - 1) + 1) :
              /\ OlderPage(r.kind, h) = Run(first, h - 1)
              /\ ~IsFull(OlderPage(r.kind, h), PageSize) => first = 1
        BY <2>4, <2>6, <3>3, OlderPageFacts DEF Kind
      <4> QED
        BY <1>3, <2>4, <3>3, <4>1
    <3>5. Run(first, h - 1) \o Run(h, l) = Run(first, l)
      <4>1. h - 1 \in Nat /\ (h - 1) + 1 = h /\ first \in Nat \ {0} /\ first <= h /\ h - 1 <= l
        BY <2>4, <2>5, <3>4
      <4>2. Run(first, h - 1) \o Run((h - 1) + 1, l) = Run(first, l)
        BY <2>4, <4>1, RunJoin
      <4> QED
        BY <4>1, <4>2
    <3> QED
      BY <2>3, <2>4, <3>2, <3>4, <3>5, RunIsWindow
  <2>7. CASE r.kind = "newer"
    <3>1. ApplyNewer(r)
      BY <2>7 DEF Apply, ApplyInitial, ApplyOlder, ApplyNewer, ApplyLatest
    <3>2. list' = list \o r.answer.newer /\ hasOlder' = hasOlder
      BY <3>1 DEF ApplyNewer, Extend
    <3>3. r.from = l
      BY <2>2, <2>7 DEF EndOfWindow, l
    <3>4. r.answer.newer = Run(l + 1, last) /\ l <= last
      BY <1>2, <2>7, <3>3 DEF NewerPage
    <3>5. Run(h, l) \o Run(l + 1, last) = Run(h, last)
      <4>1. h \in Nat \ {0} /\ l \in Nat /\ last \in Nat /\ h <= l + 1 /\ l <= last
        BY <1>2, <2>4, <2>5, <3>4
      <4> QED
        BY <4>1, RunJoin
    <3>6. hasOlder' \/ h = 1
      BY <2>3, <3>2
    <3>7. list' = Run(h, last)
      BY <2>3, <3>2, <3>4, <3>5
    <3> QED
      BY <1>2, <2>4, <3>6, <3>7, RunIsWindow
  <2> QED
    BY <1>6, <2>6, <2>7
<1>7. CASE mixed'
  BY <1>7 DEF WindowInv
<1> QED
  BY <1>4, <1>5, <1>6, <1>7 DEF Apply, ApplyOlder, ApplyNewer

LEMMA ApplyInv == ASSUME Inv, NEW r \in requests, Apply(r) PROVE Inv'
<1>1. /\ CoveredInv' /\ seen' \subseteq 1..stored
      /\ \A q : IsSound(q) => IsSound(q)'
  BY ApplyCovered
<1>2. WindowInv'
  BY ApplyWindow
<1>3. requests' \subseteq Request /\ RequestInv' /\ LoadInv'
  <2>1. CASE ApplyInitial(r)
    BY <1>1, <2>1, ReplaceInv DEF ApplyInitial
  <2>2. CASE ApplyLatest(r)
    BY <1>1, <2>2, ReplaceInv DEF ApplyLatest
  <2>3. CASE ApplyOlder(r)
    BY <1>1, <2>3, ExtendInv DEF ApplyOlder, IsLoad
  <2>4. CASE ApplyNewer(r)
    BY <1>1, <2>4, ExtendInv DEF ApplyNewer, IsLoad
  <2> QED
    BY <2>1, <2>2, <2>3, <2>4 DEF Apply
<1>4. /\ UNCHANGED <<stored, cursor, feed, mounted, openedCursorEntryId, passed, saved, timer,
                     saves, jumped, lost>>
  BY DEF Apply, server, tracker
<1>5. list' \in Ids
  BY ShownFacts
<1>6. /\ hasOlder' \in BOOLEAN /\ hasNewer' \in BOOLEAN /\ loading' \in BOOLEAN
      /\ loaded' \in BOOLEAN /\ mixed' \in BOOLEAN
  <2>0. /\ hasOlder \in BOOLEAN /\ hasNewer \in BOOLEAN /\ loading \in BOOLEAN
        /\ loaded \in BOOLEAN /\ mixed \in BOOLEAN
    BY DEF Inv, TypeOK
  <2>1. CASE ApplyInitial(r)
    BY <2>0, <2>1 DEF ApplyInitial, Replace, IsFull
  <2>2. CASE ApplyLatest(r)
    BY <2>0, <2>2 DEF ApplyLatest, Replace, IsFull
  <2>3. CASE ApplyOlder(r)
    BY <2>0, <2>3 DEF ApplyOlder, Extend, IsFull
  <2>4. CASE ApplyNewer(r)
    BY <2>0, <2>4 DEF ApplyNewer, Extend, IsFull
  <2> QED
    BY <2>1, <2>2, <2>3, <2>4 DEF Apply
<1>7. TypeOK'
  BY <1>1, <1>3, <1>4, <1>5, <1>6 DEF Inv, TypeOK
<1> QED
  BY <1>1, <1>2, <1>3, <1>7 DEF Inv

(***************************************************************************)
(* The invariant and what follows from it.                                 *)
(***************************************************************************)
LEMMA InvInit == Init => Inv
<1> SUFFICES ASSUME Init PROVE Inv
  OBVIOUS
<1> USE TimelineAssumption
<1>1. stored \in 0..MaxEntries /\ stored \in Nat /\ cursor \in 0..stored
  BY DEF Init
<1>2. TypeOK
  <2>1. <<>> \in Ids
    BY EmptySeq DEF Ids
  <2>2. feed \in FeedRow
    BY <1>1 DEF Init, FeedRow
  <2>3. list \in Ids
    BY <2>1 DEF Init
  <2>4. /\ {hasOlder, hasNewer, loading} \subseteq BOOLEAN /\ {mounted, loaded, timer} \subseteq BOOLEAN
        /\ {mixed, lost} \subseteq BOOLEAN
    BY DEF Init
  <2>5. /\ openedCursorEntryId \in 0..stored /\ requests \subseteq Request
        /\ passed \in 0..stored /\ saved \in 0..passed
        /\ saves \subseteq 1..stored /\ seen \subseteq 1..stored /\ jumped \in 0..stored
    BY <1>1 DEF Init
  <2> QED
    BY <1>1, <2>2, <2>3, <2>4, <2>5 DEF TypeOK
<1>3. CoveredInv
  BY <1>1 DEF Init, CoveredInv, Covered
<1>4. RequestInv /\ LoadInv /\ WindowInv
  BY DEF Init, RequestInv, LoadInv, WindowInv
<1> QED
  BY <1>2, <1>3, <1>4 DEF Inv

LEMMA InvNext == Inv /\ [Next]_vars => Inv'
<1> SUFFICES ASSUME Inv, [Next]_vars PROVE Inv'
  OBVIOUS
<1>1. CASE UNCHANGED vars
  BY <1>1 DEF vars, server, screen, tracker, history, Inv, TypeOK, CoveredInv, Covered,
     RequestInv, IsSound, IsPage, LoadInv, WindowInv
<1> QED
  BY <1>1, ServerInv, OpenInv, LeaveInv, LoadsInv, JumpInv, ServeInv, ApplyInv, TrackInv, SaveInv
     DEF Next

LEMMA InvHolds == Spec => []Inv
BY InvInit, InvNext, PTL DEF Spec

(***************************************************************************)
(* The window is a run of the feed, from its first entry where nothing     *)
(* older can be asked for (web/feed-timeline.tsx, loadOlder, loadNewer and *)
(* the first load).                                                        *)
(***************************************************************************)
THEOREM WindowStaysARun == Spec => []WindowIsARun
<1>1. Inv => WindowIsARun
  BY DEF Inv, WindowInv, WindowIsARun
<1> QED
  BY <1>1, InvHolds, PTL

(***************************************************************************)
(* The cursor on the server never passes an entry that has not been in the *)
(* window or been jumped over (web/use-read-cursor-tracker.ts).            *)
(***************************************************************************)
THEOREM NothingUnseenIsRead == Spec => []NothingIsReadUnseen
<1>1. Inv => NothingIsReadUnseen
  BY DEF Inv, CoveredInv, Covered, NothingIsReadUnseen
<1> QED
  BY <1>1, InvHolds, PTL
=============================================================================
