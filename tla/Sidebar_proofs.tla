--------------------------- MODULE Sidebar_proofs ---------------------------
(***************************************************************************)
(* Proofs about the sidebar and the frame of the page: that saved orders   *)
(* of rows are shown and answers name every row (NavigationOrder), that an *)
(* open rank table follows the list of feeds (FeedList), and that links    *)
(* lead where they say, screens stay and the focus is kept (Shell), for    *)
(* any feeds, groups, orders and number of requests.                       *)
(*                                                                         *)
(* The parts share no state; each has its specification, its invariant and *)
(* its theorems.                                                           *)
(***************************************************************************)
EXTENDS NavigationOrder, Shell, FiniteSetTheorems, SequenceTheorems, NaturalsInduction, TLAPS

(***************************************************************************)
(* The order of rows.                                                      *)
(***************************************************************************)
Once(s) == \A i, j \in DOMAIN s : s[i] = s[j] => i = j

NoneTwice(order) == \A s \in Section : Once(order[s])

Agrees(order, other) == \A s \in Section : AgreeOn(order[s], other[s])

\* What the server may answer, now or at an earlier time.
IsAnswer(order) ==
  \E other \in storedEver, declared \in declaredEver : order = Reconciled(other, declared)

IsSave(kept) == kept.body \in Order /\ IsPermutation(kept.body, SidebarRows(kept.seen))

IsWaitingSave(r) == r.kind = "put" /\ r.waiting

OneSaveAtATime ==
  \A r, q \in requests :
    IsWaitingSave(r) /\ IsWaitingSave(q) /\ r.client = q.client => r = q

\* The client that was told of the save the row is from.
Told == IF late THEN Nobody ELSE writer

\* The stored order names each row once, and history holds what is and was.
HistoryIsKept ==
  /\ stored \in storedEver /\ storedEver \subseteq MaybeOrder
  /\ stored # NoOrder => NoneTwice(stored)
  /\ DeclaredOrder(CurrentLists) \in declaredEver
  /\ \A d \in declaredEver : d \in Order /\ NoneTwice(d)
  /\ Told \in Client \cup {Nobody} /\ crossed \in [Client -> BOOLEAN]

\* What a request carries, as far as it has come.
RequestIsRight(r) ==
  /\ r.kind = "put" => IsSave(r.save)
  /\ r.stage = "refused" => r.kind = "put"
  /\ r.previous # NoOrder => IsAnswer(r.previous)
  /\ r.stage = "read" => r.declared \in declaredEver
  /\ r.stage = "read" /\ r.kind = "put" => IsPermutation(r.save.body, r.declared)
  /\ r.stage = "answered" => IsAnswer(r.answer)

RequestsAreRight == \A r \in requests : RequestIsRight(r)

\* What a page holds on to.
PageIsRight(c) ==
  /\ nav[c].lastSaved # NoOrder => IsAnswer(nav[c].lastSaved)
  /\ nav[c].retryOrder # NoSave => IsSave(nav[c].retryOrder)
  /\ ~nav[c].saving /\ nav[c].order # NoOrder => IsAnswer(nav[c].order)

PagesAreRight == \A c \in Client : PageIsRight(c)

\* An answer on its way to the client that was told of its save last is not older
\* than the save, but for a reload that crossed it.
IsNews(r) ==
  r.waiting /\ r.stage = "answered" /\ r.client = Told =>
    /\ r.kind = "put" => r.answer = stored
    /\ r.kind = "get" /\ ~crossed[Told] => Agrees(r.answer, stored)

WriterIsTold ==
  /\ Told # Nobody => stored # NoOrder
  /\ \A r \in requests :
       /\ IsWaitingSave(r) /\ ~crossed[r.client] => ~WaitsFor(r.client, "get")
       /\ IsNews(r)

WriterShows ==
  \A c \in Client :
    Told = c /\ ~crossed[c] /\ ~nav[c].failed /\ ~WaitsFor(c, "get") /\ ~WaitsFor(c, "put") =>
      Agrees(nav[c].order, stored)

OrderInv ==
  /\ TypeOK /\ OneSaveAtATime /\ HistoryIsKept /\ RequestsAreRight /\ PagesAreRight
  /\ WriterIsTold /\ WriterShows


(***************************************************************************)
(* Picking members of a sequence.                                          *)
(***************************************************************************)
\* `at` says where the members of a list were picked.
ListedAt(list, s, P, at) ==
  /\ at \in [DOMAIN list -> P]
  /\ \A i \in DOMAIN list : list[i] = s[at[i]]
  /\ \A p \in P : \E i \in DOMAIN list : at[i] = p
  /\ \A i, j \in DOMAIN list : i < j => at[i] < at[j]

ArePlaces(place, P) == place = [p \in P |-> Cardinality({q \in P : q < p})]

\* Every position has a place of its own: that of as many as stand before it.
LEMMA PlacesAreReached ==
  ASSUME NEW n \in Nat, NEW P \in SUBSET (1..n),
         NEW place, ArePlaces(place, P)
  PROVE  /\ Cardinality(P) \in Nat
         /\ place \in [P -> 0..(Cardinality(P) - 1)]
         /\ \A p, q \in P : p < q => place[p] < place[q]
         /\ \A i \in 0..(Cardinality(P) - 1) : \E p \in P : place[p] = i
<1> DEFINE Before(p) == {q \in P : q < p}
<1>1. IsFiniteSet(P) /\ Cardinality(P) \in Nat
  <2>1. IsFiniteSet(1..n)
    BY FS_Interval
  <2> QED
    BY <2>1, FS_Subset, FS_CardinalityType
<1>2. ASSUME NEW p \in P PROVE IsFiniteSet(Before(p)) /\ Cardinality(Before(p)) \in Nat
  BY <1>1, FS_Subset, FS_CardinalityType
<1>3. ASSUME NEW p \in P PROVE place[p] = Cardinality(Before(p)) /\ place[p] \in 0..(Cardinality(P) - 1)
  <2>1. Before(p) \in SUBSET P /\ p \notin Before(p) /\ Before(p) # P
    OBVIOUS
  <2>2. Cardinality(Before(p)) <= Cardinality(P) /\ Cardinality(Before(p)) # Cardinality(P)
    BY <1>1, <2>1, FS_Subset
  <2>3. place[p] = Cardinality(Before(p))
    BY DEF ArePlaces
  <2> HIDE DEF Before
  <2> QED
    BY <1>1, <1>2, <2>2, <2>3
<1>4. ASSUME NEW p \in P, NEW q \in P, p < q PROVE place[p] < place[q]
  <2>0. p \in Nat /\ q \in Nat /\ \A x \in P : x \in Nat /\ (x < p => x < q)
    <3>1. \A x \in P : x \in Nat
      OBVIOUS
    <3> QED
      BY <1>4, <3>1
  <2>1. Before(p) \in SUBSET Before(q) /\ p \in Before(q) /\ p \notin Before(p)
    <3>1. \A x : x \in Before(p) <=> x \in P /\ x < p
      OBVIOUS
    <3>2. \A x : x \in Before(q) <=> x \in P /\ x < q
      OBVIOUS
    <3> HIDE DEF Before
    <3>3. p \in Before(q)
      BY <1>4, <3>2
    <3>4. p \notin Before(p)
      BY <2>0, <3>1
    <3>5. \A x \in Before(p) : x \in Before(q)
      BY <2>0, <3>1, <3>2
    <3> QED
      BY <3>3, <3>4, <3>5
  <2>2. Cardinality(Before(p)) <= Cardinality(Before(q))
        /\ Cardinality(Before(p)) # Cardinality(Before(q))
    BY <1>2, <2>1, FS_Subset
  <2> HIDE DEF Before
  <2> QED
    BY <1>2, <1>3, <2>2
<1>5. place \in [P -> 0..(Cardinality(P) - 1)]
  BY <1>3 DEF ArePlaces
<1>6. place \in Injection(P, 0..(Cardinality(P) - 1))
  <2>1. ASSUME NEW p \in P, NEW q \in P, place[p] = place[q] PROVE p = q
    <3>1. place[p] \in Nat /\ place[q] \in Nat
      <4>1. place[p] \in 0..(Cardinality(P) - 1) /\ place[q] \in 0..(Cardinality(P) - 1)
        BY <1>3
      <4> QED
        BY <1>1, <4>1
    <3>2. ~ (p < q) /\ ~ (q < p)
      BY <1>4, <2>1, <3>1
    <3> QED
      BY <3>2
  <2> QED
    BY <1>5, <2>1 DEF Injection, IsInjective
<1>7. /\ IsFiniteSet(0..(Cardinality(P) - 1))
      /\ Cardinality(0..(Cardinality(P) - 1)) = Cardinality(P)
  <2>1. 0 \in Int /\ Cardinality(P) - 1 \in Int
    BY <1>1
  <2>2. (Cardinality(P) - 1) - 0 + 1 = Cardinality(P)
        /\ (0 > Cardinality(P) - 1 => Cardinality(P) = 0)
    BY <1>1
  <2> QED
    BY <2>1, <2>2, FS_Interval
<1>8. place \in Surjection(P, 0..(Cardinality(P) - 1))
  BY <1>6, <1>7, FS_Injection
<1> QED
  BY <1>1, <1>4, <1>5, <1>8 DEF Surjection

\* So the members are listed at their positions, in order.
LEMMA PickedInOrder ==
  ASSUME NEW T, NEW s \in Seq(T), NEW P \in SUBSET DOMAIN s
  PROVE  /\ Picked(s, P) \in Seq(T)
         /\ Len(Picked(s, P)) = Cardinality(P)
         /\ \E at : ListedAt(Picked(s, P), s, P, at)
<1>1. PICK n \in Nat : n = Len(s) /\ P \in SUBSET (1..n)
  OBVIOUS
<1>2. PICK place : ArePlaces(place, P)
  BY DEF ArePlaces
<1>3. /\ Cardinality(P) \in Nat
      /\ \A p \in P : place[p] \in 0..(Cardinality(P) - 1)
      /\ \A p, q \in P : p < q => place[p] < place[q]
      /\ \A i \in 0..(Cardinality(P) - 1) : \E p \in P : place[p] = i
  <2>1. P \in SUBSET (1..n)
    BY <1>1
  <2>2. /\ Cardinality(P) \in Nat
        /\ place \in [P -> 0..(Cardinality(P) - 1)]
        /\ \A p, q \in P : p < q => place[p] < place[q]
        /\ \A i \in 0..(Cardinality(P) - 1) : \E p \in P : place[p] = i
    BY <1>2, <2>1, PlacesAreReached, Zenon
  <2> QED
    BY <2>2
<1>4. PICK at : at = [i \in 1..Cardinality(P) |->
                        CHOOSE p \in P : Cardinality({q \in P : q < p}) = i - 1]
  OBVIOUS
<1>5. ASSUME NEW i \in 1..Cardinality(P) PROVE at[i] \in P /\ place[at[i]] = i - 1
  <2>1. PICK p \in P : place[p] = i - 1
    BY <1>3
  <2>2. Cardinality({q \in P : q < p}) = i - 1
    BY <1>2, <2>1 DEF ArePlaces
  <2>3. at[i] = CHOOSE x \in P : Cardinality({q \in P : q < x}) = i - 1
    BY <1>4
  <2>4. at[i] \in P /\ Cardinality({q \in P : q < at[i]}) = i - 1
    BY <2>2, <2>3
  <2> QED
    BY <1>2, <2>4 DEF ArePlaces
<1>6. at \in [1..Cardinality(P) -> P]
  BY <1>4, <1>5
<1>7. Picked(s, P) = [i \in 1..Cardinality(P) |-> s[at[i]]]
  BY <1>4 DEF Picked
<1>8. /\ DOMAIN Picked(s, P) = 1..Cardinality(P)
      /\ \A i \in 1..Cardinality(P) : at[i] \in P /\ Picked(s, P)[i] = s[at[i]]
  BY <1>6, <1>7
<1>9. Picked(s, P) \in [1..Cardinality(P) -> T]
  <2>1. \A i \in 1..Cardinality(P) : s[at[i]] \in T
    BY <1>6
  <2> QED
    BY <1>7, <2>1
<1>10. Picked(s, P) \in Seq(T) /\ Len(Picked(s, P)) = Cardinality(P)
  BY <1>3, <1>9
<1>11. ASSUME NEW p \in P PROVE \E i \in 1..Cardinality(P) : at[i] = p
  <2>1. PICK i : i = place[p] + 1
    OBVIOUS
  <2>2. i \in 1..Cardinality(P) /\ place[at[i]] = place[p] /\ at[i] \in P
    BY <1>3, <1>5, <2>1
  <2>3. ~ (at[i] < p) /\ ~ (p < at[i])
    BY <1>3, <2>2
  <2>4. at[i] = p
    BY <1>1, <2>2, <2>3
  <2> QED
    BY <2>2, <2>4
<1>12. ASSUME NEW i \in 1..Cardinality(P), NEW j \in 1..Cardinality(P), i < j PROVE at[i] < at[j]
  <2>1. at[i] \in P /\ at[j] \in P /\ place[at[i]] = i - 1 /\ place[at[j]] = j - 1
    BY <1>5
  <2>2. ~ (at[j] < at[i]) /\ at[i] # at[j]
    BY <1>3, <1>12, <2>1
  <2> QED
    BY <1>1, <2>1, <2>2
<1>13. ListedAt(Picked(s, P), s, P, at)
  BY <1>6, <1>8, <1>11, <1>12 DEF ListedAt
<1> QED
  BY <1>10, <1>13

\* A sequence names each member once when it is as long as its set is large.
LEMMA OnceByLength ==
  ASSUME NEW T, NEW s \in Seq(T)
  PROVE  /\ IsFiniteSet(ToSet(s))
         /\ Once(s) <=> Cardinality(ToSet(s)) = Len(s)
<1>1. Len(s) \in Nat /\ DOMAIN s = 1..Len(s)
  OBVIOUS
<1>2. s \in Surjection(1..Len(s), ToSet(s))
  BY <1>1 DEF Surjection, ToSet
<1>3. IsFiniteSet(1..Len(s)) /\ Cardinality(1..Len(s)) = Len(s)
  BY <1>1, FS_Interval
<1>4. /\ IsFiniteSet(ToSet(s))
      /\ Cardinality(ToSet(s)) = Len(s) <=> s \in Injection(1..Len(s), ToSet(s))
  BY <1>2, <1>3, FS_Surjection
<1>5. Once(s) <=> s \in Injection(1..Len(s), ToSet(s))
  BY <1>1, <1>2 DEF Once, Injection, IsInjective, Surjection
<1> QED
  BY <1>4, <1>5

LEMMA SameMembersOnce ==
  ASSUME NEW T, NEW s \in Seq(T), NEW t \in Seq(T), ToSet(s) = ToSet(t), Once(t)
  PROVE  Once(s) <=> Len(s) = Len(t)
BY OnceByLength

\* All members, picked, are the sequence.
LEMMA AllArePicked ==
  ASSUME NEW T, NEW s \in Seq(T)
  PROVE  Picked(s, DOMAIN s) = s
<1>1. PICK n \in Nat : n = Len(s) /\ DOMAIN s = 1..n
  OBVIOUS
<1>2. Cardinality(1..n) = n
  BY FS_Interval
<1>3. ASSUME NEW p \in 1..n PROVE Cardinality({q \in 1..n : q < p}) = p - 1
  <2>1. {q \in 1..n : q < p} = 1..(p - 1)
    OBVIOUS
  <2>2. Cardinality(1..(p - 1)) = p - 1
    BY FS_Interval
  <2> QED
    BY <2>1, <2>2
<1>4. ASSUME NEW i \in 1..n
      PROVE (CHOOSE p \in 1..n : Cardinality({q \in 1..n : q < p}) = i - 1) = i
  <2>1. \A p \in 1..n : Cardinality({q \in 1..n : q < p}) = i - 1 => p = i
    BY <1>3
  <2>2. Cardinality({q \in 1..n : q < i}) = i - 1
    BY <1>3
  <2> QED
    BY <2>1, <2>2
<1>5. Picked(s, 1..n) = [i \in 1..n |->
                            s[CHOOSE p \in 1..n : Cardinality({q \in 1..n : q < p}) = i - 1]]
  BY <1>2 DEF Picked
<1>6. Picked(s, 1..n) = [i \in 1..n |-> s[i]]
  BY <1>4, <1>5
<1> QED
  BY <1>1, <1>6

\* A set of numbers has a least one.
LEMMA Least ==
  ASSUME NEW S \in SUBSET Nat, S # {}
  PROVE  \E x \in S : \A y \in S : x <= y
<1>1. PICK R : R = OpToRel(<, Nat)
  OBVIOUS
<1>2. IsWellFoundedOn(R, Nat)
  BY <1>1, NatLessThanWellFounded
<1>3. PICK x \in S : \A y \in S : ~ (<<y, x>> \in R)
  BY <1>2, WFMin
<1>4. \A y \in Nat : y < x => <<y, x>> \in R
  BY <1>1 DEF OpToRel
<1>5. ASSUME NEW y \in S PROVE x <= y
  <2>1. y \in Nat /\ x \in Nat /\ ~ (y < x)
    BY <1>3, <1>4
  <2> QED
    BY <2>1
<1> QED
  BY <1>5

\* Every member comes first somewhere, and what is picked there is named once.
LEMMA FirstOneExists ==
  ASSUME NEW T, NEW s \in Seq(T), NEW i \in DOMAIN s
  PROVE  \E j \in FirstOnes(s) : s[j] = s[i]
<1> DEFINE S == {j \in DOMAIN s : s[j] = s[i]}
<1>1. S \in SUBSET Nat /\ S # {}
  OBVIOUS
<1>2. PICK j \in S : \A k \in S : j <= k
  <2> HIDE DEF S
  <2> QED
    BY <1>1, Least
<1>3. ASSUME NEW k \in 1..(j - 1) PROVE s[k] # s[j]
  <2>1. k \in DOMAIN s /\ ~ (j <= k)
    OBVIOUS
  <2> QED
    BY <1>2, <2>1
<1> QED
  BY <1>2, <1>3 DEF FirstOnes

LEMMA PickedMembers ==
  ASSUME NEW T, NEW s \in Seq(T), NEW P \in SUBSET DOMAIN s
  PROVE  \A x : x \in ToSet(Picked(s, P)) <=> \E p \in P : s[p] = x
<1>1. PICK at : ListedAt(Picked(s, P), s, P, at)
  BY PickedInOrder
<1>2. ASSUME NEW x, x \in ToSet(Picked(s, P)) PROVE \E p \in P : s[p] = x
  <2>1. PICK i \in DOMAIN Picked(s, P) : Picked(s, P)[i] = x
    BY <1>2 DEF ToSet
  <2>2. at[i] \in P /\ s[at[i]] = x
    BY <1>1, <2>1 DEF ListedAt
  <2> QED
    BY <2>2
<1>3. ASSUME NEW p \in P PROVE s[p] \in ToSet(Picked(s, P))
  <2>1. PICK i \in DOMAIN Picked(s, P) : at[i] = p
    BY <1>1 DEF ListedAt
  <2>2. Picked(s, P)[i] = s[p]
    BY <1>1, <2>1 DEF ListedAt
  <2> QED
    BY <2>2 DEF ToSet
<1> QED
  BY <1>2, <1>3

LEMMA PickedOnce ==
  ASSUME NEW T, NEW s \in Seq(T), NEW P \in SUBSET DOMAIN s,
         \A p, q \in P : s[p] = s[q] => p = q
  PROVE  Once(Picked(s, P))
<1>1. PICK at : ListedAt(Picked(s, P), s, P, at)
  BY PickedInOrder
<1>2. Picked(s, P) \in Seq(T)
  BY PickedInOrder
<1>3. SUFFICES ASSUME NEW i \in DOMAIN Picked(s, P), NEW j \in DOMAIN Picked(s, P),
                      Picked(s, P)[i] = Picked(s, P)[j], i # j
               PROVE  FALSE
  BY DEF Once
<1>4. at[i] \in P /\ at[j] \in P /\ s[at[i]] = s[at[j]]
  BY <1>1, <1>3 DEF ListedAt
<1>5. at[i] = at[j] /\ at[i] \in Nat
  BY <1>4
<1>6. i < j \/ j < i
  BY <1>2, <1>3
<1> QED
  BY <1>1, <1>5, <1>6 DEF ListedAt

LEMMA FirstOnesDiffer ==
  ASSUME NEW T, NEW s \in Seq(T), NEW p \in FirstOnes(s), NEW q \in FirstOnes(s), s[p] = s[q]
  PROVE  p = q
<1>1. p \in Nat /\ q \in Nat /\ p >= 1 /\ q >= 1
  BY DEF FirstOnes
<1>2. ~ (p < q)
  <2>1. p < q => p \in 1..(q - 1)
    BY <1>1
  <2> QED
    BY <2>1 DEF FirstOnes
<1>3. ~ (q < p)
  <2>1. q < p => q \in 1..(p - 1)
    BY <1>1
  <2> QED
    BY <2>1 DEF FirstOnes
<1> QED
  BY <1>1, <1>2, <1>3

LEMMA ContainsIsMember ==
  ASSUME NEW T, NEW s \in Seq(T), NEW x
  PROVE  Contains(s, x) <=> x \in ToSet(s)
BY DEF Contains, ToSet

(***************************************************************************)
(* A stored order applied to rows.                                         *)
(***************************************************************************)
LEMMA KnownMembers ==
  ASSUME NEW kept \in Seq(Item), NEW rows \in Seq(Item)
  PROVE  /\ Known(kept, rows) \in Seq(Item) /\ Once(Known(kept, rows))
         /\ ToSet(Known(kept, rows)) = ToSet(kept) \cap ToSet(rows)
<1> DEFINE P == {i \in FirstOnes(kept) : Contains(rows, kept[i])}
<1>1. P \in SUBSET DOMAIN kept
  BY DEF FirstOnes
<1>2. Known(kept, rows) = Picked(kept, P)
  BY DEF Known
<1>3. \A p, q \in P : kept[p] = kept[q] => p = q
  BY FirstOnesDiffer
<1>4. \A x : (\E p \in P : kept[p] = x) <=> x \in ToSet(kept) \cap ToSet(rows)
  <2>1. ASSUME NEW p \in P PROVE kept[p] \in ToSet(kept) \cap ToSet(rows)
    BY <1>1, ContainsIsMember DEF ToSet
  <2>2. ASSUME NEW x \in ToSet(kept) \cap ToSet(rows) PROVE \E p \in P : kept[p] = x
    <3>1. PICK i \in DOMAIN kept : kept[i] = x
      BY DEF ToSet
    <3>2. PICK j \in FirstOnes(kept) : kept[j] = x
      BY <3>1, FirstOneExists
    <3>3. j \in P
      BY <3>2, ContainsIsMember
    <3> QED
      BY <3>2, <3>3
  <2> QED
    BY <2>1, <2>2
<1> HIDE DEF P
<1>5. Picked(kept, P) \in Seq(Item) /\ Once(Picked(kept, P))
  BY <1>1, <1>3, PickedInOrder, PickedOnce
<1>6. \A x : x \in ToSet(Picked(kept, P)) <=> \E p \in P : kept[p] = x
  BY <1>1, PickedMembers
<1> QED
  BY <1>2, <1>4, <1>5, <1>6

LEMMA UnknownMembers ==
  ASSUME NEW kept \in Seq(Item), NEW rows \in Seq(Item), Once(rows)
  PROVE  /\ Unknown(kept, rows) \in Seq(Item) /\ Once(Unknown(kept, rows))
         /\ ToSet(Unknown(kept, rows)) = ToSet(rows) \ ToSet(kept)
<1> DEFINE P == {i \in DOMAIN rows : ~Contains(kept, rows[i])}
<1>1. P \in SUBSET DOMAIN rows
  OBVIOUS
<1>2. Unknown(kept, rows) = Picked(rows, P)
  BY DEF Unknown
<1>3. \A p, q \in P : rows[p] = rows[q] => p = q
  BY DEF Once
<1>4. \A x : (\E p \in P : rows[p] = x) <=> x \in ToSet(rows) \ ToSet(kept)
  <2>1. ASSUME NEW p \in P PROVE rows[p] \in ToSet(rows) \ ToSet(kept)
    BY <1>1, ContainsIsMember DEF ToSet
  <2>2. ASSUME NEW x \in ToSet(rows) \ ToSet(kept) PROVE \E p \in P : rows[p] = x
    <3>1. PICK i \in DOMAIN rows : rows[i] = x
      BY DEF ToSet
    <3>2. i \in P
      BY <3>1, ContainsIsMember
    <3> QED
      BY <3>1, <3>2
  <2> QED
    BY <2>1, <2>2
<1> HIDE DEF P
<1>5. Picked(rows, P) \in Seq(Item) /\ Once(Picked(rows, P))
  BY <1>1, <1>3, PickedInOrder, PickedOnce
<1>6. \A x : x \in ToSet(Picked(rows, P)) <=> \E p \in P : rows[p] = x
  BY <1>1, PickedMembers
<1> QED
  BY <1>2, <1>4, <1>5, <1>6

\* One after the other: the members of both, each once if nothing is in both.
LEMMA JoinedMembers ==
  ASSUME NEW T, NEW s \in Seq(T), NEW t \in Seq(T)
  PROVE  /\ s \o t \in Seq(T) /\ Len(s \o t) = Len(s) + Len(t)
         /\ ToSet(s \o t) = ToSet(s) \cup ToSet(t)
         /\ \A i \in DOMAIN (s \o t) :
              IF i <= Len(s) THEN i \in DOMAIN s /\ (s \o t)[i] = s[i]
              ELSE i - Len(s) \in DOMAIN t /\ (s \o t)[i] = t[i - Len(s)]
<1>1. /\ s \o t \in Seq(T) /\ Len(s \o t) = Len(s) + Len(t)
      /\ \A i \in DOMAIN (s \o t) :
              IF i <= Len(s) THEN i \in DOMAIN s /\ (s \o t)[i] = s[i]
              ELSE i - Len(s) \in DOMAIN t /\ (s \o t)[i] = t[i - Len(s)]
  OBVIOUS
<1>2. ASSUME NEW x \in ToSet(s \o t) PROVE x \in ToSet(s) \cup ToSet(t)
  <2>1. PICK i \in DOMAIN (s \o t) : (s \o t)[i] = x
    BY DEF ToSet
  <2> QED
    BY <1>1, <2>1 DEF ToSet
<1>3. ASSUME NEW i \in DOMAIN s PROVE s[i] \in ToSet(s \o t)
  <2>1. i \in DOMAIN (s \o t) /\ i <= Len(s)
    BY <1>1
  <2>2. (s \o t)[i] = s[i]
    BY <1>1, <2>1
  <2> QED
    BY <2>1, <2>2 DEF ToSet
<1>4. ASSUME NEW i \in DOMAIN t PROVE t[i] \in ToSet(s \o t)
  <2>1. i + Len(s) \in DOMAIN (s \o t) /\ ~ (i + Len(s) <= Len(s)) /\ (i + Len(s)) - Len(s) = i
    BY <1>1
  <2>2. (s \o t)[i + Len(s)] = t[i]
    BY <1>1, <2>1
  <2> QED
    BY <2>1, <2>2 DEF ToSet
<1>5. ToSet(s \o t) = ToSet(s) \cup ToSet(t)
  BY <1>2, <1>3, <1>4 DEF ToSet
<1> QED
  BY <1>1, <1>5

LEMMA JoinedOnce ==
  ASSUME NEW T, NEW s \in Seq(T), NEW t \in Seq(T), Once(s), Once(t), ToSet(s) \cap ToSet(t) = {}
  PROVE  Once(s \o t)
<1>1. SUFFICES ASSUME NEW i \in DOMAIN (s \o t), NEW j \in DOMAIN (s \o t), (s \o t)[i] = (s \o t)[j]
               PROVE  i = j
  BY DEF Once
<1>2. i \in Nat /\ j \in Nat /\ Len(s) \in Nat
  OBVIOUS
<1>3. CASE i <= Len(s) /\ j <= Len(s)
  BY <1>1, <1>2, <1>3, JoinedMembers DEF Once
<1>4. CASE ~ (i <= Len(s)) /\ ~ (j <= Len(s))
  <2>1. i - Len(s) \in DOMAIN t /\ j - Len(s) \in DOMAIN t /\ t[i - Len(s)] = t[j - Len(s)]
    BY <1>1, <1>4, JoinedMembers
  <2>2. i - Len(s) = j - Len(s)
    BY <2>1 DEF Once
  <2> QED
    BY <1>2, <2>2
<1>5. ASSUME NEW k \in DOMAIN (s \o t), NEW l \in DOMAIN (s \o t), k <= Len(s), ~ (l <= Len(s))
      PROVE  (s \o t)[k] # (s \o t)[l]
  <2>1. (s \o t)[k] \in ToSet(s) /\ (s \o t)[l] \in ToSet(t)
    BY <1>5, JoinedMembers DEF ToSet
  <2> QED
    BY <2>1
<1> QED
  BY <1>1, <1>3, <1>4, <1>5

\* Each row once, and no other.
LEMMA RowsAreReconciled ==
  ASSUME NEW kept \in Seq(Item), NEW rows \in Seq(Item), Once(rows)
  PROVE  /\ reconcileItems(kept, rows) \in Seq(Item) /\ Once(reconcileItems(kept, rows))
         /\ ToSet(reconcileItems(kept, rows)) = ToSet(rows)
         /\ Len(reconcileItems(kept, rows)) = Len(rows)
<1>1. /\ Known(kept, rows) \in Seq(Item) /\ Once(Known(kept, rows))
      /\ ToSet(Known(kept, rows)) = ToSet(kept) \cap ToSet(rows)
  BY KnownMembers
<1>2. /\ Unknown(kept, rows) \in Seq(Item) /\ Once(Unknown(kept, rows))
      /\ ToSet(Unknown(kept, rows)) = ToSet(rows) \ ToSet(kept)
  BY UnknownMembers
<1>3. reconcileItems(kept, rows) \in Seq(Item) /\ Once(reconcileItems(kept, rows))
  <2>1. ToSet(Known(kept, rows)) \cap ToSet(Unknown(kept, rows)) = {}
    BY <1>1, <1>2
  <2> QED
    BY <1>1, <1>2, <2>1, JoinedMembers, JoinedOnce DEF reconcileItems
<1>4. ToSet(reconcileItems(kept, rows)) = ToSet(rows)
  <2>1. ToSet(reconcileItems(kept, rows)) = ToSet(Known(kept, rows)) \cup ToSet(Unknown(kept, rows))
    BY <1>1, <1>2, JoinedMembers DEF reconcileItems
  <2> QED
    BY <1>1, <1>2, <2>1
<1>5. Len(reconcileItems(kept, rows)) = Len(rows)
  BY <1>3, <1>4, SameMembersOnce
<1> QED
  BY <1>3, <1>4, <1>5

\* Rows of the stored order come in its order, the others behind in their own.
LEMMA StoredComeFirst ==
  ASSUME NEW kept \in Seq(Item), Once(kept), NEW rows \in Seq(Item), Once(rows)
  PROVE  /\ AgreeOn(reconcileItems(kept, rows), kept)
         /\ \A i, j \in DOMAIN reconcileItems(kept, rows) :
              i < j /\ ~Contains(kept, reconcileItems(kept, rows)[i])
                => /\ ~Contains(kept, reconcileItems(kept, rows)[j])
                   /\ \E k, l \in DOMAIN rows :
                        /\ k < l /\ rows[k] = reconcileItems(kept, rows)[i]
                        /\ rows[l] = reconcileItems(kept, rows)[j]
<1> DEFINE first == Known(kept, rows)
           rest == Unknown(kept, rows)
           all == reconcileItems(kept, rows)
           P == {i \in FirstOnes(kept) : Contains(rows, kept[i])}
           Q == {i \in DOMAIN rows : ~Contains(kept, rows[i])}
<1>1. /\ first \in Seq(Item) /\ rest \in Seq(Item) /\ all = first \o rest
      /\ \A x \in ToSet(first) : x \in ToSet(kept)
      /\ \A x \in ToSet(rest) : x \notin ToSet(kept)
  <2>1. first \in Seq(Item) /\ ToSet(first) = ToSet(kept) \cap ToSet(rows)
    BY KnownMembers
  <2>2. rest \in Seq(Item) /\ ToSet(rest) = ToSet(rows) \ ToSet(kept)
    BY UnknownMembers
  <2> QED
    BY <2>1, <2>2 DEF reconcileItems
<1>2. PICK at : ListedAt(first, kept, P, at)
  <2>1. P \in SUBSET DOMAIN kept
    BY DEF FirstOnes
  <2>2. first = Picked(kept, P)
    BY DEF Known
  <2> QED
    BY <2>1, <2>2, PickedInOrder
<1>3. PICK from : ListedAt(rest, rows, Q, from)
  <2>1. Q \in SUBSET DOMAIN rows
    OBVIOUS
  <2>2. rest = Picked(rows, Q)
    BY DEF Unknown
  <2> QED
    BY <2>1, <2>2, PickedInOrder
<1>4. P \in SUBSET DOMAIN kept /\ Q \in SUBSET DOMAIN rows
  BY DEF FirstOnes
<1> HIDE DEF first, rest, all, P, Q
<1>5. ASSUME NEW i \in DOMAIN all
      PROVE  /\ i \in Nat /\ Len(first) \in Nat
             /\ IF i <= Len(first) THEN i \in DOMAIN first /\ all[i] = first[i] /\ all[i] \in ToSet(kept)
                ELSE i - Len(first) \in DOMAIN rest /\ all[i] = rest[i - Len(first)] /\ all[i] \notin ToSet(kept)
  <2>1. IF i <= Len(first) THEN i \in DOMAIN first /\ all[i] = first[i]
        ELSE i - Len(first) \in DOMAIN rest /\ all[i] = rest[i - Len(first)]
    BY <1>1, JoinedMembers
  <2>2. i \in Nat /\ Len(first) \in Nat
    BY <1>1, JoinedMembers
  <2> QED
    BY <1>1, <2>1, <2>2 DEF ToSet
<1>6. ASSUME NEW i \in DOMAIN all, NEW j \in DOMAIN all, NEW k \in DOMAIN kept, NEW l \in DOMAIN kept,
             all[i] = kept[k], all[j] = kept[l], i < j
      PROVE  k < l
  <2>1. i \in DOMAIN first /\ j \in DOMAIN first /\ first[i] = kept[k] /\ first[j] = kept[l]
    <3>1. all[i] \in ToSet(kept) /\ all[j] \in ToSet(kept)
      BY <1>6 DEF ToSet
    <3> QED
      BY <1>5, <1>6, <3>1
  <2>2. at[i] \in DOMAIN kept /\ at[j] \in DOMAIN kept
        /\ kept[at[i]] = kept[k] /\ kept[at[j]] = kept[l] /\ at[i] < at[j]
    BY <1>2, <1>4, <1>6, <2>1 DEF ListedAt
  <2>3. at[i] = k /\ at[j] = l
    BY <2>2 DEF Once
  <2> QED
    BY <2>2, <2>3
<1>7. ASSUME NEW i \in DOMAIN all, NEW j \in DOMAIN all, i < j, ~Contains(kept, all[i])
      PROVE  /\ ~Contains(kept, all[j])
             /\ \E k, l \in DOMAIN rows : k < l /\ rows[k] = all[i] /\ rows[l] = all[j]
  <2>1. ~ (i <= Len(first)) /\ i \in Nat /\ j \in Nat /\ Len(first) \in Nat
    BY <1>5, <1>7, ContainsIsMember
  <2>2. ~ (j <= Len(first)) /\ i - Len(first) < j - Len(first)
    BY <1>7, <2>1
  <2>3. /\ i - Len(first) \in DOMAIN rest /\ all[i] = rest[i - Len(first)]
        /\ j - Len(first) \in DOMAIN rest /\ all[j] = rest[j - Len(first)] /\ all[j] \notin ToSet(kept)
    BY <1>5, <2>1, <2>2
  <2>4. /\ from[i - Len(first)] \in DOMAIN rows /\ from[j - Len(first)] \in DOMAIN rows
        /\ from[i - Len(first)] < from[j - Len(first)]
        /\ rows[from[i - Len(first)]] = all[i] /\ rows[from[j - Len(first)]] = all[j]
    BY <1>3, <1>4, <2>2, <2>3 DEF ListedAt
  <2> QED
    BY <2>3, <2>4, ContainsIsMember
<1>8. AgreeOn(all, kept)
  BY <1>6 DEF AgreeOn
<1> QED
  BY <1>7, <1>8 DEF all

\* An order of exactly the rows is left as it is.
LEMMA WholeOrderStays ==
  ASSUME NEW kept \in Seq(Item), Once(kept), NEW rows \in Seq(Item), ToSet(kept) = ToSet(rows)
  PROVE  reconcileItems(kept, rows) = kept
<1>1. {i \in FirstOnes(kept) : Contains(rows, kept[i])} = DOMAIN kept
  <2>1. ASSUME NEW i \in DOMAIN kept PROVE i \in FirstOnes(kept) /\ Contains(rows, kept[i])
    <3>1. ASSUME NEW j \in 1..(i - 1) PROVE kept[j] # kept[i]
      <4>1. j \in DOMAIN kept /\ j # i
        OBVIOUS
      <4> QED
        BY <4>1 DEF Once
    <3>2. kept[i] \in ToSet(rows)
      BY DEF ToSet
    <3> QED
      BY <3>1, <3>2, ContainsIsMember DEF FirstOnes
  <2> QED
    BY <2>1 DEF FirstOnes
<1>2. {i \in DOMAIN rows : ~Contains(kept, rows[i])} = {}
  <2>1. ASSUME NEW i \in DOMAIN rows PROVE Contains(kept, rows[i])
    BY ContainsIsMember DEF ToSet
  <2> QED
    BY <2>1
<1>3. Known(kept, rows) = kept
  BY <1>1, AllArePicked DEF Known
<1>4. Unknown(kept, rows) = <<>>
  <2>1. Unknown(kept, rows) = Picked(rows, {})
    BY <1>2 DEF Unknown
  <2>2. {} \in SUBSET DOMAIN rows /\ Cardinality({}) = 0
    BY FS_EmptySet
  <2>3. Unknown(kept, rows) \in Seq(Item) /\ Len(Unknown(kept, rows)) = 0
    BY <2>1, <2>2, PickedInOrder
  <2> QED
    BY <2>3
<1> QED
  BY <1>3, <1>4 DEF reconcileItems

(***************************************************************************)
(* The rows of a list of feeds.                                            *)
(***************************************************************************)
LEMMA ItemType ==
  ASSUME NEW d \in Definition, NEW groups \in SUBSET STRING
  PROVE  ItemOf(d, groups) \in Item
BY DEF ItemOf, Item, Definition

LEMMA RowsType ==
  ASSUME NEW seq \in Seq(Definition), NEW groups \in SUBSET STRING
  PROVE  /\ RowsOf(seq, groups) \in Seq(Item)
         /\ DOMAIN RowsOf(seq, groups) = DOMAIN seq
         /\ \A i \in DOMAIN seq : RowsOf(seq, groups)[i] = ItemOf(seq[i], groups)
<1>1. ASSUME NEW i \in DOMAIN seq PROVE ItemOf(seq[i], groups) \in Item
  <2>1. seq[i] \in Definition
    OBVIOUS
  <2> QED
    BY <2>1, ItemType
<1>2. Len(seq) \in Nat /\ DOMAIN seq = 1..Len(seq)
  OBVIOUS
<1>3. RowsOf(seq, groups) = [i \in DOMAIN seq |-> ItemOf(seq[i], groups)]
  BY DEF RowsOf
<1>4. RowsOf(seq, groups) \in [1..Len(seq) -> Item]
  BY <1>1, <1>2, <1>3
<1>5. RowsOf(seq, groups) \in Seq(Item)
  BY <1>2, <1>4
<1> QED
  BY <1>3, <1>5

LEMMA ListsType ==
  ASSUME NEW n \in DOMAIN Releases, NEW ids
  PROVE  /\ ListsOf(n, ids) \in Lists
         /\ \A i \in DOMAIN ListsOf(n, ids).feeds :
              \E p \in DOMAIN Releases[n].feeds : ListsOf(n, ids).feeds[i] = Releases[n].feeds[p]
<1>1. Releases[n] \in Release
  BY OrderAssumption
<1>2. PICK declared : declared = Releases[n].feeds /\ declared \in Seq(Definition)
  BY <1>1 DEF Release
<1> DEFINE P == {i \in DOMAIN declared : declared[i].id \in ids}
<1>3. P \in SUBSET DOMAIN declared
  OBVIOUS
<1>4. ListsOf(n, ids) = [feeds |-> Picked(declared, P), groups |-> Releases[n].groups]
  BY <1>2 DEF ListsOf
<1> HIDE DEF P
<1>5. Picked(declared, P) \in Seq(Definition)
  BY <1>2, <1>3, PickedInOrder
<1>6. ASSUME NEW i \in DOMAIN Picked(declared, P)
      PROVE  \E p \in DOMAIN declared : Picked(declared, P)[i] = declared[p]
  <2>1. Picked(declared, P)[i] \in ToSet(Picked(declared, P))
    BY DEF ToSet
  <2> QED
    BY <1>2, <1>3, <2>1, PickedMembers
<1> QED
  BY <1>1, <1>2, <1>4, <1>5, <1>6 DEF Lists, Release

LEMMA SectionMembers ==
  ASSUME NEW l \in Lists, NEW s \in Section
  PROVE  /\ SectionRows(l, s) \in Seq(Item)
         /\ \A x : x \in ToSet(SectionRows(l, s)) <=>
                     \E i \in DOMAIN l.feeds : l.feeds[i].kind = s /\ ItemOf(l.feeds[i], l.groups) = x
<1> DEFINE P == {i \in DOMAIN l.feeds : l.feeds[i].kind = s}
           own == Picked(l.feeds, P)
<1>1. l.feeds \in Seq(Definition) /\ l.groups \in SUBSET STRING /\ P \in SUBSET DOMAIN l.feeds
  BY DEF Lists
<1>2. SectionRows(l, s) = RowsOf(own, l.groups)
  BY DEF SectionRows
<1>3. own \in Seq(Definition) /\ \A x : x \in ToSet(own) <=> \E p \in P : l.feeds[p] = x
  <2> HIDE DEF P
  <2> QED
    BY <1>1, PickedInOrder, PickedMembers
<1>4. \A p : p \in P <=> p \in DOMAIN l.feeds /\ l.feeds[p].kind = s
  OBVIOUS
<1> HIDE DEF own, P
<1>5. /\ RowsOf(own, l.groups) \in Seq(Item)
      /\ DOMAIN RowsOf(own, l.groups) = DOMAIN own
      /\ \A i \in DOMAIN own : RowsOf(own, l.groups)[i] = ItemOf(own[i], l.groups)
  BY <1>1, <1>3, RowsType
<1>6. ASSUME NEW x \in ToSet(SectionRows(l, s))
      PROVE  \E i \in DOMAIN l.feeds : l.feeds[i].kind = s /\ ItemOf(l.feeds[i], l.groups) = x
  <2>1. PICK i \in DOMAIN own : ItemOf(own[i], l.groups) = x
    BY <1>2, <1>5 DEF ToSet
  <2>2. own[i] \in ToSet(own)
    BY DEF ToSet
  <2> QED
    BY <1>3, <1>4, <2>1, <2>2
<1>7. ASSUME NEW i \in DOMAIN l.feeds, l.feeds[i].kind = s
      PROVE  ItemOf(l.feeds[i], l.groups) \in ToSet(SectionRows(l, s))
  <2>1. l.feeds[i] \in ToSet(own)
    BY <1>3, <1>4, <1>7
  <2>2. PICK j \in DOMAIN own : own[j] = l.feeds[i]
    BY <2>1 DEF ToSet
  <2> QED
    BY <1>2, <1>5, <2>2 DEF ToSet
<1> QED
  BY <1>2, <1>5, <1>6, <1>7

\* A section of the declared order has each of its rows once.
LEMMA DeclaredMembers ==
  ASSUME NEW l \in Lists
  PROVE  /\ DeclaredOrder(l) \in Order /\ NoneTwice(DeclaredOrder(l))
         /\ \A s \in Section : ToSet(DeclaredOrder(l)[s]) = ToSet(SectionRows(l, s))
<1>1. ASSUME NEW s \in Section
      PROVE  /\ DeclaredOrder(l)[s] \in Seq(Item) /\ Once(DeclaredOrder(l)[s])
             /\ ToSet(DeclaredOrder(l)[s]) = ToSet(SectionRows(l, s))
  <2>1. PICK rows : rows = SectionRows(l, s) /\ rows \in Seq(Item)
    BY SectionMembers
  <2>2. DeclaredOrder(l)[s] = Picked(rows, FirstOnes(rows))
    BY <2>1 DEF DeclaredOrder
  <2>3. FirstOnes(rows) \in SUBSET DOMAIN rows
    BY DEF FirstOnes
  <2>4. Once(Picked(rows, FirstOnes(rows))) /\ Picked(rows, FirstOnes(rows)) \in Seq(Item)
    BY <2>1, <2>3, FirstOnesDiffer, PickedOnce, PickedInOrder
  <2>5. ASSUME NEW x PROVE x \in ToSet(Picked(rows, FirstOnes(rows))) <=> x \in ToSet(rows)
    <3>1. x \in ToSet(rows) <=> \E i \in DOMAIN rows : rows[i] = x
      BY DEF ToSet
    <3>2. (\E i \in DOMAIN rows : rows[i] = x) <=> \E p \in FirstOnes(rows) : rows[p] = x
      BY <2>1, <2>3, FirstOneExists
    <3> QED
      BY <2>1, <2>3, <3>1, <3>2, PickedMembers
  <2> QED
    BY <2>1, <2>2, <2>4, <2>5
<1>2. DeclaredOrder(l) \in Order
  BY <1>1 DEF DeclaredOrder, Order
<1> QED
  BY <1>1, <1>2 DEF NoneTwice

\* So has a section of the sidebar: the rows whose first feed is of its kind.
LEMMA SidebarMembers ==
  ASSUME NEW l \in Lists
  PROVE  /\ SidebarRows(l) \in Order /\ NoneTwice(SidebarRows(l))
         /\ \A s \in Section : \A x :
              x \in ToSet(SidebarRows(l)[s]) <=>
                \E i \in FirstOnes(RowsOf(l.feeds, l.groups)) :
                  l.feeds[i].kind = s /\ ItemOf(l.feeds[i], l.groups) = x
<1>1. PICK rows : rows = RowsOf(l.feeds, l.groups)
  OBVIOUS
<1>2. /\ rows \in Seq(Item) /\ DOMAIN rows = DOMAIN l.feeds
      /\ \A i \in DOMAIN rows : rows[i] = ItemOf(l.feeds[i], l.groups)
  <2>1. l.feeds \in Seq(Definition) /\ l.groups \in SUBSET STRING
    BY DEF Lists
  <2> QED
    BY <1>1, <2>1, RowsType
<1>3. ASSUME NEW s \in Section
      PROVE  /\ SidebarRows(l)[s] \in Seq(Item) /\ Once(SidebarRows(l)[s])
             /\ \A x : x \in ToSet(SidebarRows(l)[s]) <=>
                  \E i \in FirstOnes(rows) : l.feeds[i].kind = s /\ ItemOf(l.feeds[i], l.groups) = x
  <2> DEFINE P == {i \in FirstOnes(rows) : l.feeds[i].kind = s}
  <2>1. SidebarRows(l)[s] = Picked(rows, P)
    BY <1>1 DEF SidebarRows
  <2>2. P \in SUBSET DOMAIN rows /\ \A p, q \in P : rows[p] = rows[q] => p = q
    BY <1>2, FirstOnesDiffer DEF FirstOnes
  <2>3. \A p : p \in P <=> p \in FirstOnes(rows) /\ l.feeds[p].kind = s
    OBVIOUS
  <2> HIDE DEF P
  <2>4. Picked(rows, P) \in Seq(Item) /\ Once(Picked(rows, P))
        /\ \A x : x \in ToSet(Picked(rows, P)) <=> \E p \in P : rows[p] = x
    BY <1>2, <2>2, PickedInOrder, PickedOnce, PickedMembers
  <2>5. \A p \in P : rows[p] = ItemOf(l.feeds[p], l.groups)
    BY <1>2, <2>2
  <2> QED
    BY <2>1, <2>3, <2>4, <2>5
<1>4. SidebarRows(l) \in Order
  BY <1>3 DEF SidebarRows, Order
<1> QED
  BY <1>1, <1>3, <1>4 DEF NoneTwice

\* Of what the server declares, both make the same rows.
LEMMA SectionsAgree ==
  ASSUME NEW n \in DOMAIN Releases, NEW ids
  PROVE  IsPermutation(SidebarRows(ListsOf(n, ids)), DeclaredOrder(ListsOf(n, ids)))
<1>1. PICK l : l = ListsOf(n, ids)
  OBVIOUS
<1>2. /\ l \in Lists /\ l.groups = Releases[n].groups
      /\ \A i \in DOMAIN l.feeds : \E p \in DOMAIN Releases[n].feeds : l.feeds[i] = Releases[n].feeds[p]
  <2>1. ListsOf(n, ids).groups = Releases[n].groups
    BY DEF ListsOf
  <2> QED
    BY <1>1, <2>1, ListsType
<1>3. WellFormed(Releases[n])
  BY OrderAssumption
<1>4. ASSUME NEW i \in DOMAIN l.feeds, NEW j \in DOMAIN l.feeds,
             ItemOf(l.feeds[i], l.groups) = ItemOf(l.feeds[j], l.groups)
      PROVE  l.feeds[i].kind = l.feeds[j].kind
  <2>1. PICK p \in DOMAIN Releases[n].feeds : l.feeds[i] = Releases[n].feeds[p]
    BY <1>2
  <2>2. PICK q \in DOMAIN Releases[n].feeds : l.feeds[j] = Releases[n].feeds[q]
    BY <1>2
  <2>3. PICK d, e : d = l.feeds[i] /\ e = l.feeds[j]
    OBVIOUS
  <2>4. /\ "" \notin l.groups
        /\ p # q => d.id # e.id
        /\ d.group # "" /\ d.group = e.group => d.kind = e.kind
    <3>1. "" \notin Releases[n].groups
      BY <1>3 DEF WellFormed
    <3>2. LET a == Releases[n].feeds[p]
              b == Releases[n].feeds[q]
          IN /\ p # q => a.id # b.id
             /\ a.group # "" /\ a.group = b.group => a.kind = b.kind
      BY <1>3 DEF WellFormed
    <3>3. d = Releases[n].feeds[p] /\ e = Releases[n].feeds[q]
      BY <2>1, <2>2, <2>3
    <3>4. l.groups = Releases[n].groups
      BY <1>2
    <3> QED
      BY <3>1, <3>2, <3>3, <3>4
  <2>5. CASE d.group \in l.groups
    <3>1. e.group \in l.groups /\ d.group = e.group
      BY <1>4, <2>3, <2>5 DEF ItemOf
    <3> QED
      BY <2>3, <2>4, <2>5, <3>1
  <2>6. CASE d.group \notin l.groups
    <3>1. d.id = e.id
      BY <1>4, <2>3, <2>6 DEF ItemOf
    <3> QED
      BY <2>1, <2>2, <2>3, <2>4, <3>1
  <2> QED
    BY <2>5, <2>6
<1>5. ASSUME NEW s \in Section
      PROVE  ToSet(SidebarRows(l)[s]) = ToSet(DeclaredOrder(l)[s])
  <2>1. PICK rows : rows = RowsOf(l.feeds, l.groups)
    OBVIOUS
  <2>2. /\ rows \in Seq(Item) /\ DOMAIN rows = DOMAIN l.feeds
        /\ \A i \in DOMAIN rows : rows[i] = ItemOf(l.feeds[i], l.groups)
    <3>1. l.feeds \in Seq(Definition) /\ l.groups \in SUBSET STRING
      BY <1>2 DEF Lists
    <3> QED
      BY <2>1, <3>1, RowsType
  <2>3. \A x : x \in ToSet(DeclaredOrder(l)[s]) <=>
                 \E i \in DOMAIN rows : l.feeds[i].kind = s /\ rows[i] = x
    <3>1. ToSet(DeclaredOrder(l)[s]) = ToSet(SectionRows(l, s))
      BY <1>2, DeclaredMembers
    <3> QED
      BY <1>2, <2>2, <3>1, SectionMembers
  <2>4. \A x : x \in ToSet(SidebarRows(l)[s]) <=>
                 \E i \in FirstOnes(rows) : l.feeds[i].kind = s /\ rows[i] = x
    <3>1. \A x : x \in ToSet(SidebarRows(l)[s]) <=>
                   \E i \in FirstOnes(rows) : l.feeds[i].kind = s /\ ItemOf(l.feeds[i], l.groups) = x
      BY <1>2, <2>1, SidebarMembers
    <3>2. \A i \in FirstOnes(rows) : i \in DOMAIN rows
      BY DEF FirstOnes
    <3> QED
      BY <2>2, <3>1, <3>2
  <2>5. ASSUME NEW i \in DOMAIN rows, l.feeds[i].kind = s
        PROVE  \E j \in FirstOnes(rows) : l.feeds[j].kind = s /\ rows[j] = rows[i]
    <3>1. PICK j \in FirstOnes(rows) : rows[j] = rows[i]
      BY <2>2, FirstOneExists
    <3>2. j \in DOMAIN l.feeds /\ i \in DOMAIN l.feeds
          /\ ItemOf(l.feeds[j], l.groups) = ItemOf(l.feeds[i], l.groups)
      BY <2>2, <3>1 DEF FirstOnes
    <3> QED
      BY <1>4, <2>5, <3>1, <3>2
  <2>6. \A i \in FirstOnes(rows) : i \in DOMAIN rows
    BY DEF FirstOnes
  <2> QED
    BY <2>3, <2>4, <2>5, <2>6, ZenonT(30)
<1>6. ASSUME NEW s \in Section
      PROVE  Len(SidebarRows(l)[s]) = Len(DeclaredOrder(l)[s])
  <2>1. /\ SidebarRows(l)[s] \in Seq(Item) /\ Once(SidebarRows(l)[s])
        /\ DeclaredOrder(l)[s] \in Seq(Item) /\ Once(DeclaredOrder(l)[s])
    BY <1>2, SidebarMembers, DeclaredMembers DEF NoneTwice, Order
  <2> QED
    BY <1>5, <2>1, SameMembersOnce
<1> QED
  BY <1>1, <1>5, <1>6 DEF IsPermutation

(***************************************************************************)
(* An order applied to rows, and a row moved.                              *)
(***************************************************************************)
LEMMA OrderSections ==
  ASSUME NEW order \in Order, NEW s \in Section
  PROVE  order[s] \in Seq(Item)
BY DEF Order

LEMMA ReconciledSection ==
  ASSUME NEW order \in Order, NEW rows, NEW s \in Section
  PROVE  Reconciled(order, rows)[s] = reconcileItems(order[s], rows[s])
BY OrderAssumption DEF Reconciled

LEMMA ReconciledOrder ==
  ASSUME NEW order \in MaybeOrder, NEW rows \in Order, NoneTwice(rows)
  PROVE  /\ Reconciled(order, rows) \in Order /\ NoneTwice(Reconciled(order, rows))
         /\ IsPermutation(Reconciled(order, rows), rows)
<1>1. CASE order = NoOrder
  BY <1>1 DEF Reconciled, IsPermutation
<1>2. CASE order \in Order
  <2>1. ASSUME NEW s \in Section
        PROVE  /\ reconcileItems(order[s], rows[s]) \in Seq(Item)
               /\ Once(reconcileItems(order[s], rows[s]))
               /\ ToSet(reconcileItems(order[s], rows[s])) = ToSet(rows[s])
               /\ Len(reconcileItems(order[s], rows[s])) = Len(rows[s])
    <3>1. order[s] \in Seq(Item) /\ rows[s] \in Seq(Item) /\ Once(rows[s])
      BY <1>2, OrderSections DEF NoneTwice
    <3> QED
      BY <3>1, RowsAreReconciled
  <2>2. Reconciled(order, rows) = [s \in Section |-> reconcileItems(order[s], rows[s])]
    BY <1>2, OrderAssumption DEF Reconciled
  <2>3. Reconciled(order, rows) \in Order
    BY <2>1, <2>2 DEF Order
  <2> QED
    BY <2>1, <2>2, <2>3 DEF NoneTwice, IsPermutation
<1> QED
  BY <1>1, <1>2 DEF MaybeOrder

LEMMA ReconciledAgrees ==
  ASSUME NEW order \in Order, NoneTwice(order), NEW rows \in Order, NoneTwice(rows)
  PROVE  Agrees(Reconciled(order, rows), order)
<1>1. ASSUME NEW s \in Section PROVE AgreeOn(Reconciled(order, rows)[s], order[s])
  <2>1. order[s] \in Seq(Item) /\ rows[s] \in Seq(Item) /\ Once(order[s]) /\ Once(rows[s])
    BY OrderSections DEF NoneTwice
  <2>2. AgreeOn(reconcileItems(order[s], rows[s]), order[s])
    BY <2>1, StoredComeFirst
  <2> QED
    BY <2>2, ReconciledSection
<1> QED
  BY <1>1 DEF Agrees

LEMMA AgreesWithItself ==
  ASSUME NEW order \in Order, NoneTwice(order)
  PROVE  Agrees(order, order)
<1>1. ASSUME NEW s \in Section PROVE AgreeOn(order[s], order[s])
  <2>1. Once(order[s])
    BY DEF NoneTwice
  <2>2. ASSUME NEW i \in DOMAIN order[s], NEW j \in DOMAIN order[s],
               NEW k \in DOMAIN order[s], NEW l \in DOMAIN order[s],
               order[s][i] = order[s][k], order[s][j] = order[s][l], i < j
        PROVE  k < l
    <3>1. i = k /\ j = l
      BY <2>1, <2>2 DEF Once
    <3> QED
      BY <2>2, <3>1
  <2> QED
    BY <2>2 DEF AgreeOn
<1> QED
  BY <1>1 DEF Agrees

\* A save the server takes is what a GET would answer.
LEMMA WholeOrderIsAnswer ==
  ASSUME NEW order \in Order, NEW rows \in Order, NoneTwice(rows), IsPermutation(order, rows)
  PROVE  NoneTwice(order) /\ Reconciled(order, rows) = order
<1>1. ASSUME NEW s \in Section
      PROVE  Once(order[s]) /\ reconcileItems(order[s], rows[s]) = order[s]
  <2>1. order[s] \in Seq(Item) /\ rows[s] \in Seq(Item) /\ Once(rows[s])
    BY OrderSections DEF NoneTwice
  <2>2. ToSet(order[s]) = ToSet(rows[s]) /\ Len(order[s]) = Len(rows[s])
    BY DEF IsPermutation
  <2>3. Once(order[s])
    BY <2>1, <2>2, SameMembersOnce
  <2> QED
    BY <2>1, <2>2, <2>3, WholeOrderStays
<1>2. Reconciled(order, rows) = [s \in Section |-> order[s]]
  BY <1>1, OrderAssumption DEF Reconciled
<1>3. order = [s \in Section |-> order[s]]
  BY DEF Order
<1> QED
  BY <1>1, <1>2, <1>3 DEF NoneTwice

LEMMA PartOf ==
  ASSUME NEW T, NEW s \in Seq(T), NEW i \in 1..(Len(s) + 1), NEW j \in 0..Len(s), i <= j + 1
  PROVE  /\ SubSeq(s, i, j) \in Seq(T) /\ Len(SubSeq(s, i, j)) = j - i + 1
         /\ \A k \in 1..(j - i + 1) : SubSeq(s, i, j)[k] = s[i + k - 1]
<1>1. \A k \in i..j : s[k] \in T
  OBVIOUS
<1>2. i \in Int /\ j \in Int
  OBVIOUS
<1>3. (IF i <= j THEN j - i + 1 ELSE 0) = j - i + 1
  OBVIOUS
<1> QED
  BY <1>1, <1>2, <1>3, SubSeqProperties

\* A row taken out.
LEMMA RemovedRow ==
  ASSUME NEW T, NEW rows \in Seq(T), NEW from \in DOMAIN rows
  PROVE  /\ RemoveAt(rows, from) \in Seq(T) /\ Len(RemoveAt(rows, from)) = Len(rows) - 1
         /\ \A i \in 1..(Len(rows) - 1) :
              RemoveAt(rows, from)[i] = IF i < from THEN rows[i] ELSE rows[i + 1]
<1>1. PICK n \in Nat : n = Len(rows) /\ DOMAIN rows = 1..n
  OBVIOUS
<1>2. PICK rest : rest = RemoveAt(rows, from)
  OBVIOUS
<1>3. /\ rest \in Seq(T) /\ Len(rest) = n - 1
      /\ \A i \in 1..(n - 1) : rest[i] = IF i < from THEN rows[i] ELSE rows[i + 1]
  <2>1. PICK a, b : a = SubSeq(rows, 1, from - 1) /\ b = SubSeq(rows, from + 1, Len(rows))
    OBVIOUS
  <2>2. /\ a \in Seq(T) /\ Len(a) = from - 1 /\ \A i \in 1..(from - 1) : a[i] = rows[i]
        /\ b \in Seq(T) /\ Len(b) = n - from /\ \A i \in 1..(n - from) : b[i] = rows[from + i]
    <3>1. /\ a \in Seq(T) /\ Len(a) = (from - 1) - 1 + 1
          /\ \A i \in 1..((from - 1) - 1 + 1) : a[i] = rows[1 + i - 1]
      <4>1. 1 \in 1..(Len(rows) + 1) /\ from - 1 \in 0..Len(rows) /\ 1 <= (from - 1) + 1
        BY <1>1
      <4> QED
        BY <2>1, <4>1, PartOf
    <3>2. /\ b \in Seq(T) /\ Len(b) = Len(rows) - (from + 1) + 1
          /\ \A i \in 1..(Len(rows) - (from + 1) + 1) : b[i] = rows[(from + 1) + i - 1]
      <4>1. from + 1 \in 1..(Len(rows) + 1) /\ Len(rows) \in 0..Len(rows) /\ from + 1 <= Len(rows) + 1
        BY <1>1
      <4> QED
        BY <2>1, <4>1, PartOf
    <3>3. (from - 1) - 1 + 1 = from - 1 /\ Len(rows) - (from + 1) + 1 = n - from
      BY <1>1
    <3>5. ASSUME NEW i \in 1..(from - 1) PROVE a[i] = rows[i]
      <4>1. i \in 1..((from - 1) - 1 + 1) /\ 1 + i - 1 = i
        BY <1>1
      <4> QED
        BY <3>1, <4>1
    <3>6. ASSUME NEW i \in 1..(n - from) PROVE b[i] = rows[from + i]
      <4>1. i \in 1..(Len(rows) - (from + 1) + 1) /\ (from + 1) + i - 1 = from + i
        BY <1>1
      <4> QED
        BY <3>2, <4>1
    <3> QED
      BY <3>1, <3>2, <3>3, <3>5, <3>6
  <2>3. rest = a \o b
    BY <1>2, <2>1 DEF RemoveAt
  <2>4. /\ rest \in Seq(T) /\ Len(rest) = n - 1 /\ DOMAIN rest = 1..(n - 1)
        /\ \A i \in DOMAIN rest :
             IF i <= from - 1 THEN rest[i] = a[i] ELSE rest[i] = b[i - (from - 1)]
    <3>1. Len(rest) = n - 1 /\ rest \in Seq(T)
      BY <1>1, <2>2, <2>3, JoinedMembers
    <3> QED
      BY <2>2, <2>3, <3>1, JoinedMembers, SMTT(30)
  <2>5. ASSUME NEW i \in 1..(n - 1) PROVE rest[i] = IF i < from THEN rows[i] ELSE rows[i + 1]
    <3>1. CASE i < from
      <4>1. i <= from - 1 /\ i \in 1..(from - 1)
        BY <1>1, <3>1
      <4> QED
        BY <2>2, <2>4, <3>1, <4>1
    <3>2. CASE ~ (i < from)
      <4>1. ~ (i <= from - 1) /\ i - (from - 1) \in 1..(n - from)
            /\ from + (i - (from - 1)) = i + 1
        BY <1>1, <3>2
      <4>2. rest[i] = b[i - (from - 1)] /\ b[i - (from - 1)] = rows[from + (i - (from - 1))]
        BY <2>2, <2>4, <4>1
      <4> QED
        BY <3>2, <4>1, <4>2
    <3> QED
      BY <3>1, <3>2
  <2> QED
    BY <2>4, <2>5
<1> QED
  BY <1>1, <1>2, <1>3

\* A row put somewhere else: as many, and the same ones.
LEMMA MovedRow ==
  ASSUME NEW T, NEW rows \in Seq(T), NEW from \in DOMAIN rows, NEW to \in DOMAIN rows
  PROVE  /\ InsertAt(RemoveAt(rows, from), to, rows[from]) \in Seq(T)
         /\ Len(InsertAt(RemoveAt(rows, from), to, rows[from])) = Len(rows)
         /\ ToSet(InsertAt(RemoveAt(rows, from), to, rows[from])) = ToSet(rows)
<1>1. PICK n \in Nat : n = Len(rows) /\ DOMAIN rows = 1..n
  OBVIOUS
<1>2. PICK rest : rest = RemoveAt(rows, from)
  OBVIOUS
<1>3. /\ rest \in Seq(T) /\ Len(rest) = n - 1
      /\ \A i \in 1..(n - 1) : rest[i] = IF i < from THEN rows[i] ELSE rows[i + 1]
  BY <1>1, <1>2, RemovedRow
<1>4. PICK all : all = InsertAt(rest, to, rows[from])
  OBVIOUS
<1>5. /\ all \in Seq(T) /\ Len(all) = n
      /\ \A i \in 1..n : all[i] = IF i < to THEN rest[i] ELSE IF i = to THEN rows[from] ELSE rest[i - 1]
  <2>1. PICK a, b, m : /\ a = SubSeq(rest, 1, to - 1) /\ b = SubSeq(rest, to, Len(rest))
                       /\ m = <<rows[from]>>
    OBVIOUS
  <2>2. /\ a \in Seq(T) /\ Len(a) = to - 1 /\ \A i \in 1..(to - 1) : a[i] = rest[i]
        /\ b \in Seq(T) /\ Len(b) = n - to /\ \A i \in 1..(n - to) : b[i] = rest[to + i - 1]
        /\ m \in Seq(T) /\ Len(m) = 1 /\ m[1] = rows[from]
    <3>1. /\ a \in Seq(T) /\ Len(a) = (to - 1) - 1 + 1
          /\ \A i \in 1..((to - 1) - 1 + 1) : a[i] = rest[1 + i - 1]
      <4>1. 1 \in 1..(Len(rest) + 1) /\ to - 1 \in 0..Len(rest) /\ 1 <= (to - 1) + 1
        BY <1>1, <1>3
      <4> QED
        BY <1>3, <2>1, <4>1, PartOf
    <3>2. /\ b \in Seq(T) /\ Len(b) = Len(rest) - to + 1
          /\ \A i \in 1..(Len(rest) - to + 1) : b[i] = rest[to + i - 1]
      <4>1. to \in 1..(Len(rest) + 1) /\ Len(rest) \in 0..Len(rest) /\ to <= Len(rest) + 1
        BY <1>1, <1>3
      <4> QED
        BY <1>3, <2>1, <4>1, PartOf
    <3>3. (to - 1) - 1 + 1 = to - 1 /\ Len(rest) - to + 1 = n - to
      BY <1>1, <1>3
    <3>4. \A i \in Int : 1 + i - 1 = i
      OBVIOUS
    <3>5. m \in Seq(T) /\ Len(m) = 1 /\ m[1] = rows[from]
      BY <2>1
    <3> QED
      BY <3>1, <3>2, <3>3, <3>4, <3>5, SMTT(30)
  <2>3. all = (a \o m) \o b
    BY <1>4, <2>1 DEF InsertAt
  <2>4. /\ a \o m \in Seq(T) /\ Len(a \o m) = to
        /\ \A i \in 1..to : (a \o m)[i] = IF i < to THEN rest[i] ELSE rows[from]
    <3>0. Len(a) + Len(m) = to
      BY <1>1, <2>2
    <3>1. a \o m \in Seq(T) /\ Len(a \o m) = to /\ DOMAIN (a \o m) = 1..to
      <4>1. a \o m \in Seq(T) /\ Len(a \o m) = Len(a) + Len(m)
        BY <2>2, ConcatProperties
      <4> QED
        BY <3>0, <4>1
    <3>2. ASSUME NEW i \in 1..to PROVE (a \o m)[i] = IF i < to THEN rest[i] ELSE rows[from]
      <4>1. (a \o m)[i] = IF i <= Len(a) THEN a[i] ELSE m[i - Len(a)]
        BY <2>2, <3>0, ConcatProperties
      <4>2. CASE i < to
        <5>1. i <= Len(a) /\ i \in 1..(to - 1)
          BY <1>1, <2>2, <4>2
        <5> QED
          BY <2>2, <4>1, <4>2, <5>1
      <4>3. CASE ~ (i < to)
        <5>1. ~ (i <= Len(a)) /\ i - Len(a) = 1
          BY <1>1, <2>2, <4>3
        <5> QED
          BY <2>2, <4>1, <4>3, <5>1
      <4> QED
        BY <4>2, <4>3
    <3> QED
      BY <3>1, <3>2
  <2>5. /\ all \in Seq(T) /\ Len(all) = n /\ DOMAIN all = 1..n
        /\ \A i \in 1..n : IF i <= to THEN all[i] = (a \o m)[i] ELSE all[i] = b[i - to]
    <3>1. PICK p : p = a \o m
      OBVIOUS
    <3>2. p \in Seq(T) /\ Len(p) = to /\ all = p \o b
      BY <2>3, <2>4, <3>1
    <3>0. Len(p) + Len(b) = n
      BY <1>1, <2>2, <3>2
    <3>3. all \in Seq(T) /\ Len(all) = n /\ DOMAIN all = 1..n
      <4>1. all \in Seq(T) /\ Len(all) = Len(p) + Len(b)
        BY <2>2, <3>2, ConcatProperties
      <4> QED
        BY <3>0, <4>1
    <3>4. ASSUME NEW i \in 1..n PROVE IF i <= to THEN all[i] = p[i] ELSE all[i] = b[i - to]
      BY <2>2, <3>0, <3>2, ConcatProperties
    <3> QED
      BY <3>1, <3>3, <3>4
  <2>6. ASSUME NEW i \in 1..n
        PROVE  all[i] = IF i < to THEN rest[i] ELSE IF i = to THEN rows[from] ELSE rest[i - 1]
    <3>1. CASE i <= to
      <4>1. i \in 1..to /\ (~ (i < to) => i = to)
        BY <1>1, <3>1
      <4> QED
        BY <2>4, <2>5, <3>1, <4>1
    <3>2. CASE ~ (i <= to)
      <4>1. i - to \in 1..(n - to) /\ to + (i - to) - 1 = i - 1 /\ ~ (i < to) /\ i # to
        BY <1>1, <3>2
      <4>2. all[i] = b[i - to] /\ b[i - to] = rest[to + (i - to) - 1]
        BY <2>2, <2>5, <3>2, <4>1
      <4> QED
        BY <4>1, <4>2
    <3> QED
      BY <3>1, <3>2
  <2> QED
    BY <2>5, <2>6
<1>6. DOMAIN all = 1..n
  BY <1>5
<1>7. ASSUME NEW i \in 1..n PROVE all[i] \in ToSet(rows)
  <2>1. \A k \in 1..(n - 1) : rest[k] \in ToSet(rows)
    <3>1. ASSUME NEW k \in 1..(n - 1) PROVE rest[k] \in ToSet(rows)
      <4>1. k \in 1..n /\ k + 1 \in 1..n
        BY <1>1
      <4>2. rows[k] \in ToSet(rows) /\ rows[k + 1] \in ToSet(rows)
        BY <1>1, <4>1 DEF ToSet
      <4> QED
        BY <1>3, <4>2
    <3> QED
      BY <3>1
  <2>2. (i < to => i \in 1..(n - 1)) /\ (~ (i < to) /\ i # to => i - 1 \in 1..(n - 1))
    BY <1>1
  <2>3. rows[from] \in ToSet(rows)
    BY DEF ToSet
  <2> QED
    BY <1>5, <2>1, <2>2, <2>3
<1>8. ASSUME NEW k \in 1..(n - 1) PROVE rest[k] \in ToSet(all)
  <2>1. CASE k < to
    <3>1. k \in 1..n /\ all[k] = rest[k]
      BY <1>1, <1>5, <2>1
    <3> QED
      BY <1>6, <3>1 DEF ToSet
  <2>2. CASE ~ (k < to)
    <3>1. k + 1 \in 1..n /\ ~ (k + 1 < to) /\ k + 1 # to /\ (k + 1) - 1 = k
      BY <1>1, <2>2
    <3>2. all[k + 1] = rest[k]
      BY <1>5, <3>1
    <3> QED
      BY <1>6, <3>1, <3>2 DEF ToSet
  <2> QED
    BY <2>1, <2>2
<1>9. ASSUME NEW p \in 1..n PROVE rows[p] \in ToSet(all)
  <2>1. CASE p = from
    <3>1. all[to] = rows[from] /\ to \in DOMAIN all
      BY <1>1, <1>5, <1>6
    <3> QED
      BY <2>1, <3>1 DEF ToSet
  <2>2. CASE p < from
    <3>1. p \in 1..(n - 1) /\ rest[p] = rows[p]
      BY <1>1, <1>3, <2>2
    <3> QED
      BY <1>8, <3>1
  <2>3. CASE from < p
    <3>1. p - 1 \in 1..(n - 1) /\ ~ (p - 1 < from) /\ (p - 1) + 1 = p
      BY <1>1, <2>3
    <3>2. rest[p - 1] = rows[p]
      BY <1>3, <3>1
    <3> QED
      BY <1>8, <3>1, <3>2
  <2> QED
    BY <1>1, <2>1, <2>2, <2>3
<1>10. ToSet(all) = ToSet(rows)
  <2>1. \A x : x \in ToSet(all) <=> \E i \in 1..n : all[i] = x
    BY <1>6 DEF ToSet
  <2>2. \A x : x \in ToSet(rows) <=> \E i \in 1..n : rows[i] = x
    BY <1>1 DEF ToSet
  <2> QED
    BY <1>7, <1>9, <2>1, <2>2
<1> QED
  BY <1>1, <1>2, <1>4, <1>5, <1>10

(***************************************************************************)
(* The invariant: what every step leaves alone.                            *)
(***************************************************************************)
LEMMA DeclaredNow ==
  ASSUME TypeOK
  PROVE  /\ CurrentLists \in Lists /\ DeclaredOrder(CurrentLists) \in Order
         /\ NoneTwice(DeclaredOrder(CurrentLists))
<1>1. CurrentLists \in Lists
  BY ListsType DEF TypeOK, CurrentLists
<1> QED
  BY <1>1, DeclaredMembers

LEMMA SavingWaits ==
  ASSUME TypeOK, NEW c \in Client
  PROVE  WaitsFor(c, "put") <=> nav[c].saving
<1>1. nav[c].saving <=> \E r \in requests : r.client = c /\ r.kind = "put" /\ r.waiting
  BY DEF TypeOK
<1> QED
  BY <1>1 DEF WaitsFor

LEMMA AnswersRemain ==
  ASSUME storedEver \subseteq storedEver', declaredEver \subseteq declaredEver'
  PROVE  \A order : IsAnswer(order) => IsAnswer(order)'
BY DEF IsAnswer

LEMMA RightRequestsStay ==
  ASSUME storedEver \subseteq storedEver', declaredEver \subseteq declaredEver'
  PROVE  \A r : RequestIsRight(r) => RequestIsRight(r)'
BY AnswersRemain DEF RequestIsRight

LEMMA RightPagesStay ==
  ASSUME storedEver \subseteq storedEver', declaredEver \subseteq declaredEver',
         NEW c \in Client, nav'[c] = nav[c], PageIsRight(c)
  PROVE  PageIsRight(c)'
BY AnswersRemain DEF PageIsRight

\* The lists a page has loaded matter only when a save is made.
LEMMA ListsDoNotMatter ==
  ASSUME OrderInv, TypeOK', UNCHANGED <<release, registered, stored, nav, requests, history>>
  PROVE  OrderInv'
<1>1. OneSaveAtATime'
  BY DEF OrderInv, OneSaveAtATime
<1>2. HistoryIsKept'
  BY DEF OrderInv, HistoryIsKept, CurrentLists, history, Told
<1>3. RequestsAreRight' /\ PagesAreRight'
  BY RightRequestsStay, RightPagesStay DEF OrderInv, RequestsAreRight, PagesAreRight, history
<1>4. WriterIsTold' /\ WriterShows'
  BY DEF OrderInv, WriterIsTold, WriterShows, IsNews, WaitsFor, history, Told
<1> QED
  BY <1>1, <1>2, <1>3, <1>4 DEF OrderInv

\* A request that goes on is still waited for, or still is not.
LEMMA RequestGoesOn ==
  ASSUME OrderInv, NEW r \in requests, NEW q \in Request, Becomes(r, q),
         q.client = r.client, q.kind = r.kind, q.waiting = r.waiting
  PROVE  /\ requests' \subseteq Request /\ OneSaveAtATime'
         /\ \A x \in requests' : x \in requests \/ x = q
         /\ \A c, kind : WaitsFor(c, kind)' <=> WaitsFor(c, kind)
<1>1. \A x : x \in requests' <=>
        \/ x \in requests /\ x # r
        \/ x = q /\ (q.waiting \/ (q.kind = "put" /\ q.stage \in {"sent", "read"}))
  BY DEF Becomes
<1>2. requests' \subseteq Request
  BY <1>1 DEF OrderInv, TypeOK
<1>3. \A x \in requests' : x \in requests \/ x = q
  BY <1>1
<1>4. ASSUME NEW c, NEW kind PROVE WaitsFor(c, kind)' <=> WaitsFor(c, kind)
  BY <1>1 DEF WaitsFor
<1>5. OneSaveAtATime'
  <2>1. SUFFICES ASSUME NEW x \in requests', NEW y \in requests', IsWaitingSave(x), IsWaitingSave(y),
                        x.client = y.client
                 PROVE  x = y
    BY DEF OneSaveAtATime, IsWaitingSave
  <2>2. IsWaitingSave(q) <=> IsWaitingSave(r)
    BY DEF IsWaitingSave
  <2> QED
    BY <1>1, <2>1, <2>2 DEF OrderInv, OneSaveAtATime
<1> QED
  BY <1>2, <1>3, <1>4, <1>5

(***************************************************************************)
(* The invariant: steps of the server.                                     *)
(***************************************************************************)
\* A request goes on and the stored order stays.
LEMMA ServingStep ==
  ASSUME OrderInv, NEW r \in requests, NEW q \in Request, Becomes(r, q),
         q.client = r.client, q.kind = r.kind, q.waiting = r.waiting,
         RequestIsRight(q), IsNews(q),
         UNCHANGED <<server, client, sends, history>>
  PROVE  OrderInv'
<1>1. /\ requests' \subseteq Request /\ OneSaveAtATime'
      /\ \A x \in requests' : x \in requests \/ x = q
      /\ \A c, kind : WaitsFor(c, kind)' <=> WaitsFor(c, kind)
  BY RequestGoesOn
<1>2. UNCHANGED <<release, registered, stored, lists, shell, nav, sends,
                  storedEver, declaredEver, Told, crossed>>
  BY DEF server, client, history, Told
<1>3. TypeOK'
  <2>1. TypeOK
    BY DEF OrderInv
  <2>2. \A c \in Client : WaitsFor(c, "put")' <=> nav'[c].saving
    BY <1>1, <1>2, <2>1, SavingWaits
  <2> QED
    BY <1>1, <1>2, <2>1, <2>2 DEF TypeOK, WaitsFor
<1>4. HistoryIsKept'
  BY <1>2 DEF OrderInv, HistoryIsKept, CurrentLists
<1>5. RequestsAreRight' /\ PagesAreRight'
  <2>1. \A x \in requests' : RequestIsRight(x)
    BY <1>1 DEF OrderInv, RequestsAreRight
  <2>2. \A x : RequestIsRight(x) => RequestIsRight(x)'
    BY <1>2, RightRequestsStay
  <2>3. \A c \in Client : PageIsRight(c)'
    BY <1>2, RightPagesStay DEF OrderInv, PagesAreRight
  <2> QED
    BY <2>1, <2>2, <2>3 DEF RequestsAreRight, PagesAreRight
<1>6. WriterIsTold'
  <2>1. ASSUME NEW x \in requests', IsWaitingSave(x), ~crossed[x.client]
        PROVE  ~WaitsFor(x.client, "get")
    <3>1. CASE x \in requests
      BY <2>1, <3>1 DEF OrderInv, WriterIsTold
    <3>2. CASE x = q
      BY <2>1, <3>2 DEF OrderInv, WriterIsTold, IsWaitingSave
    <3> QED
      BY <1>1, <3>1, <3>2
  <2>2. ASSUME NEW x \in requests' PROVE IsNews(x)
    BY <1>1 DEF OrderInv, WriterIsTold
  <2>3. \A x : IsNews(x) => IsNews(x)'
    BY <1>2 DEF IsNews
  <2>4. Told' # Nobody => stored' # NoOrder
    BY <1>2 DEF OrderInv, WriterIsTold
  <2>5. \A x : IsWaitingSave(x)' <=> IsWaitingSave(x)
    BY DEF IsWaitingSave
  <2>6. ASSUME NEW x \in requests', IsWaitingSave(x), ~crossed'[x.client]
        PROVE  ~WaitsFor(x.client, "get")'
    BY <1>1, <1>2, <2>1, <2>6
  <2> QED
    BY <2>2, <2>3, <2>4, <2>5, <2>6 DEF WriterIsTold
<1>7. WriterShows'
  BY <1>1, <1>2 DEF OrderInv, WriterShows
<1> QED
  BY <1>1, <1>3, <1>4, <1>5, <1>6, <1>7 DEF OrderInv

LEMMA ReadDeclaredStep ==
  ASSUME OrderInv, NEW r \in requests, ReadDeclared(r)
  PROVE  OrderInv'
<1>1. r \in Request /\ RequestIsRight(r) /\ IsNews(r) /\ r.stage = "sent"
  BY DEF OrderInv, TypeOK, RequestsAreRight, WriterIsTold, ReadDeclared
<1>2. PICK declared : /\ declared = DeclaredOrder(CurrentLists)
                      /\ declared \in Order /\ declared \in declaredEver
  BY DeclaredNow DEF OrderInv, HistoryIsKept
<1>3. UNCHANGED <<server, client, sends, history>>
  BY DEF ReadDeclared
<1>4. CASE r.kind = "put" /\ ~IsPermutation(r.save.body, declared)
  <2>1. PICK q : q = [r EXCEPT !.stage = "refused"]
    OBVIOUS
  <2>2. /\ q \in Request /\ q.client = r.client /\ q.kind = r.kind /\ q.waiting = r.waiting
        /\ q.save = r.save /\ q.previous = r.previous /\ q.stage = "refused"
    BY <1>1, <2>1 DEF Request
  <2>3. Becomes(r, q)
    BY <1>2, <1>4, <2>1 DEF ReadDeclared
  <2>4. RequestIsRight(q) /\ IsNews(q)
    BY <1>1, <1>4, <2>2 DEF RequestIsRight, IsNews
  <2> QED
    BY <1>3, <2>2, <2>3, <2>4, ServingStep
<1>5. CASE ~(r.kind = "put" /\ ~IsPermutation(r.save.body, declared))
  <2>1. PICK q : q = [r EXCEPT !.stage = "read", !.declared = declared]
    OBVIOUS
  <2>2. /\ q \in Request /\ q.client = r.client /\ q.kind = r.kind /\ q.waiting = r.waiting
        /\ q.save = r.save /\ q.previous = r.previous /\ q.stage = "read" /\ q.declared = declared
    BY <1>1, <1>2, <2>1 DEF Request, MaybeOrder
  <2>3. Becomes(r, q)
    BY <1>2, <1>5, <2>1 DEF ReadDeclared
  <2>4. RequestIsRight(q) /\ IsNews(q)
    BY <1>1, <1>2, <1>5, <2>2 DEF RequestIsRight, IsNews
  <2> QED
    BY <1>3, <2>2, <2>3, <2>4, ServingStep
<1> QED
  BY <1>4, <1>5

LEMMA ReadStoredStep ==
  ASSUME OrderInv, NEW r \in requests, ReadStored(r)
  PROVE  OrderInv'
<1>1. r \in Request /\ RequestIsRight(r) /\ r.stage = "read" /\ r.kind = "get"
  BY DEF OrderInv, TypeOK, RequestsAreRight, ReadStored
<1>2. /\ r.declared \in declaredEver /\ r.declared \in Order /\ NoneTwice(r.declared)
      /\ stored \in MaybeOrder /\ stored \in storedEver
  BY <1>1 DEF RequestIsRight, OrderInv, HistoryIsKept, TypeOK
<1>3. PICK answer : answer = Reconciled(stored, r.declared)
  OBVIOUS
<1>4. answer \in Order /\ IsAnswer(answer)
  BY <1>2, <1>3, ReconciledOrder DEF IsAnswer
<1>5. PICK q : q = [r EXCEPT !.stage = "answered", !.declared = NoOrder, !.answer = answer]
  OBVIOUS
<1>6. /\ q \in Request /\ q.client = r.client /\ q.kind = r.kind /\ q.waiting = r.waiting
      /\ q.previous = r.previous /\ q.stage = "answered" /\ q.answer = answer
  BY <1>1, <1>4, <1>5 DEF Request, MaybeOrder
<1>7. Becomes(r, q) /\ UNCHANGED <<server, client, sends, history>>
  BY <1>3, <1>5 DEF ReadStored
<1>8. RequestIsRight(q)
  BY <1>1, <1>4, <1>6 DEF RequestIsRight
<1>9. IsNews(q)
  <2>1. SUFFICES ASSUME q.client = Told PROVE Agrees(answer, stored)
    BY <1>1, <1>6 DEF IsNews
  <2>2. Told \in Client
    BY <1>6, <2>1 DEF Request
  <2>3. stored \in Order /\ NoneTwice(stored)
    BY <1>2, <2>2, OrderAssumption DEF OrderInv, WriterIsTold, HistoryIsKept, MaybeOrder
  <2> QED
    BY <1>2, <1>3, <2>3, ReconciledAgrees
<1> QED
  BY <1>6, <1>7, <1>8, <1>9, ServingStep

\* The upsert: what is stored is what the client is told.
LEMMA WriteStoredStep ==
  ASSUME OrderInv, NEW r \in requests, WriteStored(r)
  PROVE  OrderInv'
<1>1. r \in Request /\ RequestIsRight(r) /\ r.stage = "read" /\ r.kind = "put"
  BY DEF OrderInv, TypeOK, RequestsAreRight, WriteStored
<1>2. PICK body : body = r.save.body /\ body \in Order
  BY <1>1 DEF RequestIsRight, IsSave
<1>3. /\ r.declared \in declaredEver /\ r.declared \in Order /\ NoneTwice(r.declared)
      /\ IsPermutation(body, r.declared)
  BY <1>1, <1>2 DEF RequestIsRight, OrderInv, HistoryIsKept
<1>4. NoneTwice(body) /\ Reconciled(body, r.declared) = body
  BY <1>2, <1>3, WholeOrderIsAnswer
<1>5. PICK q : q = [r EXCEPT !.stage = "answered", !.declared = NoOrder, !.answer = body]
  OBVIOUS
<1>6. /\ q \in Request /\ q.client = r.client /\ q.kind = r.kind /\ q.waiting = r.waiting
      /\ q.save = r.save /\ q.previous = r.previous /\ q.stage = "answered" /\ q.answer = body
  BY <1>1, <1>2, <1>5 DEF Request, MaybeOrder
<1>7. Becomes(r, q)
  BY <1>2, <1>5 DEF WriteStored
<1>8. /\ stored' = body /\ storedEver' = storedEver \cup {body}
      /\ Told' = (IF r.waiting THEN r.client ELSE Nobody)
      /\ UNCHANGED <<release, registered, lists, shell, nav, sends, declaredEver, crossed>>
  BY <1>2 DEF WriteStored, client, Told
<1>9. /\ requests' \subseteq Request /\ OneSaveAtATime'
      /\ \A x \in requests' : x \in requests \/ x = q
      /\ \A c, kind : WaitsFor(c, kind)' <=> WaitsFor(c, kind)
  BY <1>6, <1>7, RequestGoesOn
<1>10. TypeOK'
  <2>1. TypeOK
    BY DEF OrderInv
  <2>2. \A c \in Client : WaitsFor(c, "put")' <=> nav'[c].saving
    BY <1>8, <1>9, <2>1, SavingWaits
  <2> QED
    BY <1>2, <1>8, <1>9, <2>1, <2>2 DEF TypeOK, WaitsFor, MaybeOrder
<1>11. HistoryIsKept'
  <2>1. Told' \in Client \cup {Nobody}
    BY <1>1, <1>8 DEF Request
  <2>2. HistoryIsKept
    BY DEF OrderInv
  <2> QED
    BY <1>2, <1>4, <1>8, <2>1, <2>2 DEF HistoryIsKept, CurrentLists, MaybeOrder
<1>12. RequestsAreRight' /\ PagesAreRight'
  <2>1. \A x : RequestIsRight(x) => RequestIsRight(x)'
    BY <1>8, RightRequestsStay
  <2>2. IsAnswer(body)'
    BY <1>3, <1>4, <1>8 DEF IsAnswer
  <2>3. RequestIsRight(q)'
    BY <1>1, <1>6, <2>1, <2>2 DEF RequestIsRight
  <2>4. \A x \in requests' : RequestIsRight(x)'
    BY <1>9, <2>1, <2>3 DEF OrderInv, RequestsAreRight
  <2>5. \A c \in Client : PageIsRight(c)'
    BY <1>8, RightPagesStay DEF OrderInv, PagesAreRight
  <2> QED
    BY <2>4, <2>5 DEF RequestsAreRight, PagesAreRight
<1>13. ASSUME NEW x \in requests', IsWaitingSave(x), ~crossed[x.client]
       PROVE  ~WaitsFor(x.client, "get")
  <2>1. CASE x \in requests
    BY <1>13, <2>1 DEF OrderInv, WriterIsTold
  <2>2. CASE x = q
    BY <1>6, <1>13, <2>2 DEF OrderInv, WriterIsTold, IsWaitingSave
  <2> QED
    BY <1>9, <2>1, <2>2
<1>14. WriterIsTold'
  <2>1. ASSUME NEW x \in requests', x.waiting, x.stage = "answered", x.client = Told'
        PROVE  /\ x.kind = "put" => x.answer = stored'
               /\ x.kind = "get" /\ ~crossed'[Told'] => Agrees(x.answer, stored')
    <3>1. x.client \in Client
      BY <1>9 DEF Request
    <3>2. r.waiting /\ x.client = r.client /\ IsWaitingSave(q)
      BY <1>1, <1>6, <1>8, <2>1, <3>1, OrderAssumption DEF IsWaitingSave
    <3>3. ASSUME x.kind = "put" PROVE x = q
      <4>1. x \notin requests \/ x = r
        BY <1>1, <2>1, <3>2, <3>3 DEF OrderInv, OneSaveAtATime, IsWaitingSave
      <4> QED
        BY <1>1, <1>9, <2>1, <4>1
    <3>4. ASSUME x.kind = "get" PROVE crossed[r.client]
      <4>1. x # q /\ x \in requests
        BY <1>1, <1>6, <1>9, <3>4
      <4>2. WaitsFor(r.client, "get")
        BY <2>1, <3>2, <3>4, <4>1 DEF WaitsFor
      <4>3. IsWaitingSave(r)
        BY <1>1, <3>2 DEF IsWaitingSave
      <4> QED
        BY <4>2, <4>3 DEF OrderInv, WriterIsTold
    <3> QED
      BY <1>6, <1>8, <2>1, <3>2, <3>3, <3>4
  <2>2. Told' # Nobody => stored' # NoOrder
    BY <1>2, <1>8, OrderAssumption
  <2>3. \A x : IsWaitingSave(x)' <=> IsWaitingSave(x)
    BY DEF IsWaitingSave
  <2>4. ASSUME NEW x \in requests', IsWaitingSave(x), ~crossed'[x.client]
        PROVE  ~WaitsFor(x.client, "get")'
    BY <1>8, <1>9, <1>13, <2>4
  <2> QED
    BY <2>1, <2>2, <2>3, <2>4 DEF WriterIsTold, IsNews
<1>15. WriterShows'
  <2>1. SUFFICES ASSUME NEW c \in Client, Told' = c, ~WaitsFor(c, "put")'
                 PROVE  FALSE
    BY DEF WriterShows
  <2>2. r.waiting /\ r.client = c
    BY <1>8, <2>1, OrderAssumption
  <2>3. WaitsFor(c, "put")
    BY <1>1, <2>2 DEF WaitsFor
  <2> QED
    BY <1>9, <2>1, <2>3
<1> QED
  BY <1>9, <1>10, <1>11, <1>12, <1>14, <1>15 DEF OrderInv

LEMMA VanishStep ==
  ASSUME OrderInv, NEW r \in requests, Vanish(r)
  PROVE  OrderInv'
<1>1. ~r.waiting /\ requests' = requests \ {r}
  BY DEF Vanish
<1>2. UNCHANGED <<release, registered, stored, lists, shell, nav, sends,
                  storedEver, declaredEver, Told, crossed>>
  BY DEF Vanish, server, client, history, Told
<1>3. \A c, kind : WaitsFor(c, kind)' <=> WaitsFor(c, kind)
  BY <1>1 DEF WaitsFor
<1>4. TypeOK'
  <2>1. TypeOK
    BY DEF OrderInv
  <2>2. \A c \in Client : WaitsFor(c, "put")' <=> nav'[c].saving
    BY <1>2, <1>3, <2>1, SavingWaits
  <2> QED
    BY <1>1, <1>2, <2>1, <2>2 DEF TypeOK, WaitsFor
<1>5. OneSaveAtATime'
  BY <1>1 DEF OrderInv, OneSaveAtATime, IsWaitingSave
<1>6. HistoryIsKept'
  BY <1>2 DEF OrderInv, HistoryIsKept, CurrentLists
<1>7. RequestsAreRight' /\ PagesAreRight'
  BY <1>1, <1>2, RightRequestsStay, RightPagesStay DEF OrderInv, RequestsAreRight, PagesAreRight
<1>8. WriterIsTold'
  BY <1>1, <1>2, <1>3 DEF OrderInv, WriterIsTold, IsNews, IsWaitingSave
<1>9. WriterShows'
  BY <1>2, <1>3 DEF OrderInv, WriterShows
<1> QED
  BY <1>4, <1>5, <1>6, <1>7, <1>8, <1>9 DEF OrderInv

\* A release, or its collector: other feeds are declared, and the order stays.
LEMMA DeclaredStep ==
  ASSUME OrderInv, TypeOK', declaredEver' = declaredEver \cup {DeclaredOrder(CurrentLists')},
         UNCHANGED <<stored, client, requests, sends, storedEver, Told, crossed>>
  PROVE  OrderInv'
<1>1. UNCHANGED <<lists, shell, nav>>
  BY DEF client
<1>2. CurrentLists' \in Lists
  BY ListsType DEF TypeOK, CurrentLists
<1>3. DeclaredOrder(CurrentLists') \in Order /\ NoneTwice(DeclaredOrder(CurrentLists'))
  BY <1>2, DeclaredMembers
<1>4. HistoryIsKept'
  <2>1. PICK declared : declared = DeclaredOrder(CurrentLists')
    OBVIOUS
  <2> QED
    BY <1>3, <2>1 DEF OrderInv, HistoryIsKept
<1>5. OneSaveAtATime'
  BY DEF OrderInv, OneSaveAtATime
<1>6. RequestsAreRight' /\ PagesAreRight'
  BY <1>1, RightRequestsStay, RightPagesStay DEF OrderInv, RequestsAreRight, PagesAreRight
<1>7. WriterIsTold' /\ WriterShows'
  BY <1>1 DEF OrderInv, WriterIsTold, WriterShows, IsNews, WaitsFor
<1> QED
  BY <1>4, <1>5, <1>6, <1>7 DEF OrderInv

LEMMA DeployStep ==
  ASSUME OrderInv, Deploy
  PROVE  OrderInv'
<1>1. /\ release' = release + 1 /\ release < Len(Releases)
      /\ UNCHANGED <<registered, stored, client, requests, sends, storedEver, Told, crossed>>
      /\ declaredEver' = declaredEver \cup {DeclaredOrder(ListsOf(release + 1, registered))}
  BY DEF Deploy, Told
<1>2. TypeOK /\ UNCHANGED <<lists, shell, nav>>
  BY <1>1 DEF OrderInv, client
<1>3. release' \in DOMAIN Releases
  BY <1>1, <1>2, OrderAssumption DEF TypeOK
<1>4. TypeOK'
  BY <1>1, <1>2, <1>3 DEF TypeOK
<1>5. CurrentLists' = ListsOf(release + 1, registered)
  BY <1>1 DEF CurrentLists
<1> QED
  BY <1>1, <1>4, <1>5, DeclaredStep

LEMMA RegisterStep ==
  ASSUME OrderInv, Register
  PROVE  OrderInv'
<1> DEFINE ids == registered \cup {d.id : d \in ToSet(Releases[release].feeds)}
<1>1. /\ registered' = ids
      /\ UNCHANGED <<release, stored, client, requests, sends, storedEver, Told, crossed>>
      /\ declaredEver' = declaredEver \cup {DeclaredOrder(ListsOf(release, ids))}
  BY DEF Register, Told
<1>2. TypeOK /\ UNCHANGED <<lists, shell, nav>>
  BY <1>1 DEF OrderInv, client
<1>3. ids \subseteq STRING
  <2>1. Releases[release] \in Release
    BY <1>2, OrderAssumption DEF TypeOK
  <2>2. \A d \in ToSet(Releases[release].feeds) : d \in Definition
    BY <2>1 DEF Release, ToSet
  <2>3. \A d \in ToSet(Releases[release].feeds) : d.id \in STRING
    BY <2>2 DEF Definition
  <2>4. registered \subseteq STRING
    BY <1>2 DEF TypeOK
  <2> QED
    BY <2>3, <2>4
<1>4. TypeOK'
  BY <1>1, <1>2, <1>3 DEF TypeOK
<1>5. CurrentLists' = ListsOf(release, ids)
  BY <1>1 DEF CurrentLists
<1> HIDE DEF ids
<1> QED
  BY <1>1, <1>4, <1>5, DeclaredStep

(***************************************************************************)
(* The invariant: steps of a page.                                         *)
(***************************************************************************)
LEMMA LoadStep ==
  ASSUME OrderInv, NEW c \in Client, LoadFeeds(c) \/ LoadGroups(c) \/ FailGroups(c)
  PROVE  OrderInv'
<1>1. TypeOK /\ CurrentLists \in Lists
  BY DeclaredNow DEF OrderInv
<1>2. UNCHANGED <<server, nav, requests, sends, history>>
  BY DEF LoadFeeds, LoadGroups, FailGroups
<1>3. lists' \in [Client -> Lists]
  <2> PICK now \in Lists : now = CurrentLists
    BY <1>1
  <2>0. lists \in [Client -> Lists] /\ lists[c] \in Lists
    BY <1>1 DEF TypeOK
  <2>1. CASE LoadFeeds(c)
    <3>1. PICK l : l = [lists[c] EXCEPT !.feeds = now.feeds]
      OBVIOUS
    <3>2. l \in Lists
      BY <2>0, <3>1 DEF Lists
    <3>3. lists' = [lists EXCEPT ![c] = l]
      BY <2>1, <3>1 DEF LoadFeeds
    <3> QED
      BY <2>0, <3>2, <3>3
  <2>2. CASE LoadGroups(c)
    <3>1. PICK l : l = [lists[c] EXCEPT !.groups = now.groups]
      OBVIOUS
    <3>2. l \in Lists
      BY <2>0, <3>1 DEF Lists
    <3>3. lists' = [lists EXCEPT ![c] = l]
      BY <2>2, <3>1 DEF LoadGroups
    <3> QED
      BY <2>0, <3>2, <3>3
  <2>3. CASE FailGroups(c)
    BY <1>1, <2>3 DEF FailGroups, TypeOK
  <2> QED
    BY <2>1, <2>2, <2>3
<1>4. shell' \in [Client -> [ready: BOOLEAN, failed: BOOLEAN, asked: BOOLEAN]]
  <2>0. shell \in [Client -> [ready: BOOLEAN, failed: BOOLEAN, asked: BOOLEAN]]
    BY <1>1 DEF TypeOK
  <2>1. CASE LoadFeeds(c)
    BY <2>0, <2>1 DEF LoadFeeds
  <2>2. CASE LoadGroups(c)
    BY <2>0, <2>2 DEF LoadGroups
  <2>3. CASE FailGroups(c)
    <3>1. shell' = [shell EXCEPT ![c] = [shell[c] EXCEPT !.failed = TRUE, !.asked = FALSE]]
      BY <2>3 DEF FailGroups
    <3>2. shell[c] \in [ready: BOOLEAN, failed: BOOLEAN, asked: BOOLEAN]
      BY <2>0
    <3>3. [shell[c] EXCEPT !.failed = TRUE, !.asked = FALSE] \in [ready: BOOLEAN, failed: BOOLEAN, asked: BOOLEAN]
      BY <3>2
    <3> QED
      BY <2>0, <3>1, <3>3
  <2> QED
    BY <2>1, <2>2, <2>3
<1>5. TypeOK'
  BY <1>1, <1>2, <1>3, <1>4 DEF TypeOK, server
<1> QED
  BY <1>2, <1>5, ListsDoNotMatter DEF server

LEMMA SidebarType ==
  ASSUME TypeOK, NEW c \in Client
  PROVE  /\ Sidebar(c) \in Order
         /\ IsPermutation(Sidebar(c), SidebarRows(lists[c])) /\ lists[c] \in Lists
<1>1. lists[c] \in Lists /\ nav[c].order \in MaybeOrder
  BY DEF TypeOK
<1>2. SidebarRows(lists[c]) \in Order /\ NoneTwice(SidebarRows(lists[c]))
  BY <1>1, SidebarMembers
<1> QED
  BY <1>1, <1>2, ReconciledOrder DEF Sidebar

\* An order with a row moved is one of the same rows.
LEMMA MovedOrder ==
  ASSUME NEW order \in Order, NEW rows, IsPermutation(order, rows),
         NEW s \in Section, NEW from \in DOMAIN order[s], NEW to \in DOMAIN order[s],
         NEW moved, moved = [order EXCEPT ![s] = InsertAt(RemoveAt(order[s], from), to, order[s][from])]
  PROVE  moved \in Order /\ IsPermutation(moved, rows)
<1>1. PICK own : own = InsertAt(RemoveAt(order[s], from), to, order[s][from])
  OBVIOUS
<1>2. order[s] \in Seq(Item)
  BY OrderSections
<1>3. own \in Seq(Item) /\ Len(own) = Len(order[s]) /\ ToSet(own) = ToSet(order[s])
  BY <1>1, <1>2, MovedRow
<1>4. moved = [order EXCEPT ![s] = own]
  BY <1>1
<1>5. moved \in Order
  BY <1>3, <1>4 DEF Order
<1>6. \A t \in Section : Len(moved[t]) = Len(order[t]) /\ ToSet(moved[t]) = ToSet(order[t])
  BY <1>3, <1>4 DEF Order
<1> QED
  BY <1>5, <1>6 DEF IsPermutation

\* A client that is not saving sends a save of a whole order.
LEMMA SaveStep ==
  ASSUME OrderInv, NEW c \in Client, NEW next \in Save, IsSave(next), ~nav[c].saving, save(c, next),
         sends' = sends + 1, shell' \in [Client -> [ready: BOOLEAN, failed: BOOLEAN, asked: BOOLEAN]],
         UNCHANGED <<server, lists, storedEver, declaredEver, Told>>
  PROVE  OrderInv'
<1>1. PICK q : q = NewPut(c, next)
  OBVIOUS
<1>2. TypeOK /\ nav[c].lastSaved \in MaybeOrder
  BY DEF OrderInv, TypeOK
<1>3. /\ q \in Request /\ q.client = c /\ q.kind = "put" /\ q.stage = "sent" /\ q.waiting
      /\ q.save = next /\ q.previous = nav[c].lastSaved
  BY <1>1, <1>2 DEF NewPut, NewGet, Request, MaybeOrder
<1>4. /\ requests' = requests \cup {q}
      /\ nav' = [nav EXCEPT ![c].saving = TRUE, ![c].failed = FALSE, ![c].order = next.body]
      /\ crossed' = [crossed EXCEPT ![c] = WaitsFor(c, "get")]
      /\ UNCHANGED <<release, registered, stored>>
  BY <1>1 DEF save, server
<1>5. ~WaitsFor(c, "put") /\ WaitsFor(c, "put")'
      /\ \A d, kind : d # c \/ kind # "put" => (WaitsFor(d, kind)' <=> WaitsFor(d, kind))
  <2>1. ~WaitsFor(c, "put")
    BY <1>2, SavingWaits
  <2>2. WaitsFor(c, "put")'
    BY <1>3, <1>4 DEF WaitsFor
  <2>3. \A d, kind : d # c \/ kind # "put" => (WaitsFor(d, kind)' <=> WaitsFor(d, kind))
    BY <1>3, <1>4 DEF WaitsFor
  <2> QED
    BY <2>1, <2>2, <2>3
<1>6. /\ \A d \in Client \ {c} : nav'[d] = nav[d] /\ crossed'[d] = crossed[d]
      /\ nav'[c].saving /\ nav'[c].lastSaved = nav[c].lastSaved /\ nav'[c].retryOrder = nav[c].retryOrder
      /\ crossed'[c] = WaitsFor(c, "get")
  BY <1>2, <1>4 DEF TypeOK, OrderInv, HistoryIsKept
<1>7. TypeOK'
  <2>1. nav' \in [Client -> [order: MaybeOrder, lastSaved: MaybeOrder, retryOrder: Save,
                             saving: BOOLEAN, failed: BOOLEAN]]
    <3> DEFINE Nav == [order: MaybeOrder, lastSaved: MaybeOrder, retryOrder: Save,
                       saving: BOOLEAN, failed: BOOLEAN]
    <3>1. nav \in [Client -> Nav] /\ nav[c] \in Nav
      BY <1>2 DEF TypeOK
    <3>2. PICK n : n = [nav[c] EXCEPT !.saving = TRUE, !.failed = FALSE, !.order = next.body]
      OBVIOUS
    <3>3. next.body \in MaybeOrder
      BY DEF Save
    <3>4. n \in Nav
      BY <3>1, <3>2, <3>3
    <3>5. nav' = [nav EXCEPT ![c] = n]
      BY <1>4, <3>2
    <3> HIDE DEF Nav
    <3>6. nav' \in [Client -> Nav]
      BY <3>1, <3>4, <3>5
    <3> QED
      BY <3>6 DEF Nav
  <2>2. \A d \in Client : WaitsFor(d, "put")' <=> nav'[d].saving
    BY <1>2, <1>5, <1>6, SavingWaits
  <2>3. requests' \subseteq Request
    BY <1>2, <1>3, <1>4 DEF TypeOK
  <2> QED
    BY <1>2, <1>4, <2>1, <2>2, <2>3 DEF TypeOK, WaitsFor
<1>8. OneSaveAtATime'
  <2>1. SUFFICES ASSUME NEW x \in requests', NEW y \in requests', IsWaitingSave(x), IsWaitingSave(y),
                        x.client = y.client
                 PROVE  x = y
    BY DEF OneSaveAtATime, IsWaitingSave
  <2>2. \A x1 \in requests : IsWaitingSave(x1) => x1.client # c
    BY <1>5 DEF WaitsFor, IsWaitingSave
  <2> QED
    BY <1>3, <1>4, <2>1, <2>2 DEF OrderInv, OneSaveAtATime
<1>9. HistoryIsKept'
  <2>1. HistoryIsKept /\ WaitsFor(c, "get") \in BOOLEAN
    BY DEF OrderInv, WaitsFor
  <2>2. crossed' \in [Client -> BOOLEAN]
    BY <1>4, <2>1 DEF HistoryIsKept
  <2> QED
    BY <1>4, <2>1, <2>2 DEF HistoryIsKept, CurrentLists
<1>10. RequestsAreRight' /\ PagesAreRight'
  <2>1. RequestIsRight(q)
    BY <1>3 DEF RequestIsRight, OrderInv, PagesAreRight, PageIsRight
  <2>2. \A x \in requests' : RequestIsRight(x)'
    BY <1>4, <2>1, RightRequestsStay DEF OrderInv, RequestsAreRight
  <2>3. ASSUME NEW d \in Client PROVE PageIsRight(d)'
    <3>1. PageIsRight(d)
      BY DEF OrderInv, PagesAreRight
    <3>2. CASE d = c
      BY <1>6, <3>1, <3>2, AnswersRemain DEF PageIsRight
    <3>3. CASE d # c
      BY <1>6, <3>1, <3>3, RightPagesStay
    <3> QED
      BY <3>2, <3>3
  <2> QED
    BY <2>2, <2>3 DEF RequestsAreRight, PagesAreRight
<1>11. WriterIsTold'
  <2>1. ASSUME NEW x \in requests', IsWaitingSave(x), ~crossed'[x.client]
        PROVE  ~WaitsFor(x.client, "get")'
    <3>1. CASE x.client = c
      BY <1>5, <1>6, <2>1, <3>1
    <3>2. CASE x.client # c
      <4>1. x \in requests /\ x.client \in Client
        BY <1>2, <1>3, <1>4, <3>2 DEF TypeOK, Request
      <4> QED
        BY <1>5, <1>6, <2>1, <3>2, <4>1 DEF OrderInv, WriterIsTold
    <3> QED
      BY <3>1, <3>2
  <2>2. ASSUME NEW x \in requests' PROVE IsNews(x)'
    <3>1. CASE x = q
      BY <1>3, <3>1 DEF IsNews
    <3>2. CASE x # q
      <4>1. x \in requests /\ IsNews(x) /\ x \in Request
        BY <1>2, <1>4, <3>2 DEF OrderInv, WriterIsTold, TypeOK
      <4>2. CASE x.client = c
        <5>1. x.waiting => x.kind # "put"
          BY <1>5, <4>1, <4>2 DEF WaitsFor
        <5>2. x.waiting => crossed'[c]
          BY <1>6, <4>1, <4>2, <5>1 DEF WaitsFor, Request
        <5> QED
          BY <4>2, <5>1, <5>2 DEF IsNews
      <4>3. CASE x.client # c
        <5>1. x.client \in Client
          BY <4>1 DEF Request
        <5> QED
          BY <1>4, <1>6, <4>1, <4>3, <5>1 DEF IsNews
      <4> QED
        BY <4>2, <4>3
    <3> QED
      BY <3>1, <3>2
  <2>3. \A x : IsWaitingSave(x)' <=> IsWaitingSave(x)
    BY DEF IsWaitingSave
  <2>4. Told' # Nobody => stored' # NoOrder
    BY <1>4 DEF OrderInv, WriterIsTold
  <2> QED
    BY <2>1, <2>2, <2>3, <2>4 DEF WriterIsTold
<1>12. WriterShows'
  <2>1. SUFFICES ASSUME NEW d \in Client, Told' = d, ~crossed'[d], ~nav'[d].failed,
                        ~WaitsFor(d, "get")', ~WaitsFor(d, "put")'
                 PROVE  Agrees(nav'[d].order, stored')
    BY DEF WriterShows
  <2>2. d # c
    BY <1>5, <2>1
  <2> QED
    BY <1>4, <1>5, <1>6, <2>1, <2>2 DEF OrderInv, WriterShows
<1> QED
  BY <1>7, <1>8, <1>9, <1>10, <1>11, <1>12 DEF OrderInv

LEMMA MoveStep ==
  ASSUME OrderInv, NEW c \in Client, NEW s \in Section,
         NEW from \in DOMAIN Sidebar(c)[s], NEW to \in DOMAIN Sidebar(c)[s], Move(c, s, from, to)
  PROVE  OrderInv'
<1>1. TypeOK
  BY DEF OrderInv
<1>2. PICK order : order = Sidebar(c) /\ order \in Order
  BY <1>1, SidebarType
<1>3. lists[c] \in Lists /\ IsPermutation(order, SidebarRows(lists[c]))
  BY <1>1, <1>2, SidebarType
<1>4. PICK moved : moved = [order EXCEPT ![s] = InsertAt(RemoveAt(order[s], from), to, order[s][from])]
  OBVIOUS
<1>5. moved \in Order /\ IsPermutation(moved, SidebarRows(lists[c]))
  <2>1. from \in DOMAIN order[s] /\ to \in DOMAIN order[s]
    BY <1>2
  <2> QED
    BY <1>2, <1>3, <1>4, <2>1, MovedOrder
<1>6. PICK next : next = [body |-> moved, seen |-> lists[c]]
  OBVIOUS
<1>7. next \in Save /\ IsSave(next)
  BY <1>3, <1>5, <1>6 DEF Save, IsSave, MaybeOrder
<1>8. save(c, next) /\ ~nav[c].saving /\ sends' = sends + 1
  BY <1>2, <1>4, <1>6 DEF Move
<1>9. UNCHANGED <<server, lists, shell, storedEver, declaredEver, Told>>
  BY DEF Move, Told
<1>10. shell' \in [Client -> [ready: BOOLEAN, failed: BOOLEAN, asked: BOOLEAN]]
  BY <1>1, <1>9 DEF TypeOK
<1> QED
  BY <1>7, <1>8, <1>9, <1>10, SaveStep

Page == [order: MaybeOrder, lastSaved: MaybeOrder, retryOrder: Save, saving: BOOLEAN, failed: BOOLEAN]

\* A client that is not saving asks for the order.
LEMMA ReloadStep ==
  ASSUME OrderInv, NEW c \in Client, ~nav[c].saving, reload(c),
         sends' = sends + 1, shell' \in [Client -> [ready: BOOLEAN, failed: BOOLEAN, asked: BOOLEAN]],
         UNCHANGED <<server, lists, storedEver, declaredEver, Told>>
  PROVE  OrderInv'
<1>1. PICK q : q = NewGet(c)
  OBVIOUS
<1>2. TypeOK
  BY DEF OrderInv
<1>3. /\ q \in Request /\ q.client = c /\ q.kind = "get" /\ q.stage = "sent" /\ q.waiting
      /\ q.previous = NoOrder
  <2>1. NoSave \in Save
    BY DEF NoSave, NoLists, Save, Lists, MaybeOrder
  <2> QED
    BY <1>1, <2>1 DEF NewGet, Request, MaybeOrder
<1>4. /\ requests' = requests \cup {q}
      /\ nav' = [nav EXCEPT ![c].failed = FALSE]
      /\ UNCHANGED <<release, registered, stored, crossed>>
  BY <1>1 DEF reload, server
<1>5. ~WaitsFor(c, "put") /\ WaitsFor(c, "get")'
      /\ \A d, kind : d # c \/ kind # "get" => (WaitsFor(d, kind)' <=> WaitsFor(d, kind))
  <2>1. ~WaitsFor(c, "put")
    BY <1>2, SavingWaits
  <2>2. WaitsFor(c, "get")'
    BY <1>3, <1>4 DEF WaitsFor
  <2>3. \A d, kind : d # c \/ kind # "get" => (WaitsFor(d, kind)' <=> WaitsFor(d, kind))
    BY <1>3, <1>4 DEF WaitsFor
  <2> QED
    BY <2>1, <2>2, <2>3
<1>6. /\ \A d \in Client \ {c} : nav'[d] = nav[d]
      /\ nav'[c].order = nav[c].order /\ nav'[c].saving = nav[c].saving
      /\ nav'[c].lastSaved = nav[c].lastSaved /\ nav'[c].retryOrder = nav[c].retryOrder
  BY <1>2, <1>4 DEF TypeOK
<1>7. TypeOK'
  <2>1. nav' \in [Client -> [order: MaybeOrder, lastSaved: MaybeOrder, retryOrder: Save,
                             saving: BOOLEAN, failed: BOOLEAN]]
    <3>1. nav \in [Client -> Page] /\ nav[c] \in Page
      BY <1>2 DEF TypeOK, Page
    <3>2. PICK n : n = [nav[c] EXCEPT !.failed = FALSE]
      OBVIOUS
    <3>3. n \in Page
      BY <3>1, <3>2 DEF Page
    <3>4. nav' = [nav EXCEPT ![c] = n]
      BY <1>4, <3>2
    <3>5. nav' \in [Client -> Page]
      BY <3>1, <3>3, <3>4
    <3> QED
      BY <3>5 DEF Page
  <2>2. \A d \in Client : WaitsFor(d, "put")' <=> nav'[d].saving
    BY <1>2, <1>5, <1>6, SavingWaits
  <2>3. requests' \subseteq Request
    BY <1>2, <1>3, <1>4 DEF TypeOK
  <2> QED
    BY <1>2, <1>4, <2>1, <2>2, <2>3 DEF TypeOK, WaitsFor
<1>8. OneSaveAtATime'
  BY <1>3, <1>4 DEF OrderInv, OneSaveAtATime, IsWaitingSave
<1>9. HistoryIsKept'
  BY <1>4 DEF OrderInv, HistoryIsKept, CurrentLists
<1>10. RequestsAreRight' /\ PagesAreRight'
  <2>1. RequestIsRight(q)
    BY <1>3 DEF RequestIsRight
  <2>2. \A x \in requests' : RequestIsRight(x)'
    BY <1>4, <2>1, RightRequestsStay DEF OrderInv, RequestsAreRight
  <2>3. ASSUME NEW d \in Client PROVE PageIsRight(d)'
    BY <1>6, AnswersRemain DEF OrderInv, PagesAreRight, PageIsRight
  <2> QED
    BY <2>2, <2>3 DEF RequestsAreRight, PagesAreRight
<1>11. WriterIsTold'
  <2>1. ASSUME NEW x \in requests', IsWaitingSave(x), ~crossed'[x.client]
        PROVE  ~WaitsFor(x.client, "get")'
    <3>1. x \in requests /\ x.client # c
      BY <1>3, <1>4, <1>5, <2>1 DEF WaitsFor, IsWaitingSave
    <3> QED
      BY <1>4, <1>5, <2>1, <3>1 DEF OrderInv, WriterIsTold
  <2>2. ASSUME NEW x \in requests' PROVE IsNews(x)'
    BY <1>3, <1>4 DEF OrderInv, WriterIsTold, IsNews
  <2>3. \A x : IsWaitingSave(x)' <=> IsWaitingSave(x)
    BY DEF IsWaitingSave
  <2>4. Told' # Nobody => stored' # NoOrder
    BY <1>4 DEF OrderInv, WriterIsTold
  <2> QED
    BY <2>1, <2>2, <2>3, <2>4 DEF WriterIsTold
<1>12. WriterShows'
  <2>1. SUFFICES ASSUME NEW d \in Client, Told' = d, ~crossed'[d], ~nav'[d].failed,
                        ~WaitsFor(d, "get")', ~WaitsFor(d, "put")'
                 PROVE  Agrees(nav'[d].order, stored')
    BY DEF WriterShows
  <2>2. d # c
    BY <1>5, <2>1
  <2> QED
    BY <1>4, <1>5, <1>6, <2>1, <2>2 DEF OrderInv, WriterShows
<1> QED
  BY <1>7, <1>8, <1>9, <1>10, <1>11, <1>12 DEF OrderInv

LEMMA RetryStep ==
  ASSUME OrderInv, NEW c \in Client, Retry(c)
  PROVE  OrderInv'
<1>1. TypeOK /\ PageIsRight(c)
  BY DEF OrderInv, PagesAreRight
<1>2. /\ sends' = sends + 1 /\ UNCHANGED <<server, lists, storedEver, declaredEver, writer, late, Told>>
      /\ shell' \in [Client -> [ready: BOOLEAN, failed: BOOLEAN, asked: BOOLEAN]]
  <2>1. /\ sends' = sends + 1 /\ UNCHANGED <<server, lists, storedEver, declaredEver, writer, late, Told>>
        /\ shell' = [shell EXCEPT ![c].asked = TRUE]
    BY DEF Retry, Told
  <2>2. shell \in [Client -> [ready: BOOLEAN, failed: BOOLEAN, asked: BOOLEAN]]
    BY <1>1 DEF TypeOK
  <2>3. shell' \in [Client -> [ready: BOOLEAN, failed: BOOLEAN, asked: BOOLEAN]]
    BY <2>1, <2>2
  <2> QED
    BY <2>1, <2>3
<1>3. CASE nav[c].saving
  <2>1. UNCHANGED <<nav, requests, crossed>>
    BY <1>3 DEF Retry, save, reload
  <2>2. TypeOK'
    BY <1>1, <1>2, <2>1 DEF TypeOK, server
  <2> QED
    BY <1>2, <2>1, <2>2, ListsDoNotMatter DEF server, history
<1>4. CASE ~nav[c].saving /\ nav[c].retryOrder # NoSave
  <2>1. PICK next : next = nav[c].retryOrder
    OBVIOUS
  <2>2. next \in Save /\ IsSave(next)
    BY <1>1, <1>4, <2>1 DEF TypeOK, PageIsRight
  <2>3. save(c, next)
    BY <1>4, <2>1 DEF Retry
  <2> QED
    BY <1>2, <1>4, <2>2, <2>3, SaveStep
<1>5. CASE ~nav[c].saving /\ nav[c].retryOrder = NoSave
  <2>1. reload(c)
    BY <1>5 DEF Retry
  <2> QED
    BY <1>2, <1>5, <2>1, ReloadStep
<1> QED
  BY <1>3, <1>4, <1>5

\* A request is over for its client, who goes on with the page n.
LEMMA ReceiveStep ==
  ASSUME OrderInv, NEW r \in requests, r.waiting, NEW n \in Page,
         nav' = [nav EXCEPT ![r.client] = n],
         requests' \subseteq Request, requests \ {r} \subseteq requests',
         \A x \in requests' : x \in requests \ {r} \/ (~x.waiting /\ RequestIsRight(x)),
         n.saving <=> r.kind = "get" /\ nav[r.client].saving,
         n.lastSaved # NoOrder => IsAnswer(n.lastSaved),
         n.retryOrder # NoSave => IsSave(n.retryOrder),
         ~n.saving /\ n.order # NoOrder => IsAnswer(n.order),
         r.client = Told /\ ~crossed[Told] /\ ~n.failed => Agrees(n.order, stored),
         UNCHANGED <<server, lists, shell, sends, history>>
  PROVE  OrderInv'
<1>1. UNCHANGED <<release, registered, stored, lists, shell, sends,
                  storedEver, declaredEver, Told, crossed>>
  BY DEF server, history, Told
<1>2. PICK c \in Client : c = r.client /\ TypeOK /\ nav \in [Client -> Page]
  BY DEF OrderInv, TypeOK, Request, Page
<1>3. nav' \in [Client -> Page] /\ nav'[c] = n /\ \A d \in Client \ {c} : nav'[d] = nav[d]
  BY <1>2
<1>4. /\ \A d, kind : WaitsFor(d, kind)' => WaitsFor(d, kind)
      /\ \A d, kind : d # c \/ kind # r.kind => (WaitsFor(d, kind)' <=> WaitsFor(d, kind))
  <2>1. \A d, kind : WaitsFor(d, kind)' => WaitsFor(d, kind)
    BY DEF WaitsFor
  <2>2. \A d, kind : (d # c \/ kind # r.kind) /\ WaitsFor(d, kind) => WaitsFor(d, kind)'
    BY <1>2 DEF WaitsFor
  <2> QED
    BY <2>1, <2>2
<1>5. r.kind = "put" => ~WaitsFor(c, "put")'
  <2>1. SUFFICES ASSUME r.kind = "put", NEW x \in requests', x.waiting, x.kind = "put", x.client = c
                 PROVE  FALSE
    BY DEF WaitsFor
  <2>2. x \in requests /\ x # r
    BY <2>1
  <2> QED
    BY <1>2, <2>1, <2>2 DEF OrderInv, OneSaveAtATime, IsWaitingSave
<1>6. TypeOK'
  <2>1. ASSUME NEW d \in Client PROVE WaitsFor(d, "put")' <=> nav'[d].saving
    <3>1. WaitsFor(d, "put") <=> nav[d].saving
      BY <1>2, SavingWaits
    <3>2. CASE d # c
      BY <1>3, <1>4, <3>1, <3>2
    <3>3. CASE d = c /\ r.kind = "put"
      BY <1>3, <1>5, <3>3
    <3>4. CASE d = c /\ r.kind = "get"
      BY <1>2, <1>3, <1>4, <3>1, <3>4
    <3>5. r.kind = "put" \/ r.kind = "get"
      BY <1>2 DEF TypeOK, Request
    <3> QED
      BY <3>2, <3>3, <3>4, <3>5
  <2> QED
    BY <1>1, <1>2, <1>3, <2>1 DEF TypeOK, WaitsFor, Page
<1>7. OneSaveAtATime'
  <2>1. \A x \in requests' : x.waiting => x \in requests
    OBVIOUS
  <2> QED
    BY <2>1 DEF OrderInv, OneSaveAtATime, IsWaitingSave
<1>8. HistoryIsKept'
  BY <1>1 DEF OrderInv, HistoryIsKept, CurrentLists
<1>9. RequestsAreRight' /\ PagesAreRight'
  <2>1. \A x \in requests' : RequestIsRight(x)'
    BY <1>1, RightRequestsStay DEF OrderInv, RequestsAreRight
  <2>2. ASSUME NEW d \in Client PROVE PageIsRight(d)'
    <3>1. CASE d = c
      BY <1>1, <1>3, <3>1, AnswersRemain DEF PageIsRight
    <3>2. CASE d # c
      BY <1>1, <1>3, <3>2, RightPagesStay DEF OrderInv, PagesAreRight
    <3> QED
      BY <3>1, <3>2
  <2> QED
    BY <2>1, <2>2 DEF RequestsAreRight, PagesAreRight
<1>10. WriterIsTold'
  <2>1. ASSUME NEW x \in requests', IsWaitingSave(x), ~crossed'[x.client]
        PROVE  ~WaitsFor(x.client, "get")'
    BY <1>1, <1>4, <2>1 DEF OrderInv, WriterIsTold, IsWaitingSave
  <2>2. ASSUME NEW x \in requests' PROVE IsNews(x)'
    BY <1>1 DEF OrderInv, WriterIsTold, IsNews
  <2>3. \A x : IsWaitingSave(x)' <=> IsWaitingSave(x)
    BY DEF IsWaitingSave
  <2>4. Told' # Nobody => stored' # NoOrder
    BY <1>1 DEF OrderInv, WriterIsTold
  <2> QED
    BY <2>1, <2>2, <2>3, <2>4 DEF WriterIsTold
<1>11. WriterShows'
  <2>1. SUFFICES ASSUME NEW d \in Client, Told' = d, ~crossed'[d], ~nav'[d].failed,
                        ~WaitsFor(d, "get")', ~WaitsFor(d, "put")'
                 PROVE  Agrees(nav'[d].order, stored')
    BY DEF WriterShows
  <2>2. CASE d = c
    BY <1>1, <1>2, <1>3, <2>1, <2>2
  <2>3. CASE d # c
    BY <1>1, <1>3, <1>4, <2>1, <2>3 DEF OrderInv, WriterShows
  <2> QED
    BY <2>2, <2>3
<1> QED
  BY <1>6, <1>7, <1>8, <1>9, <1>10, <1>11 DEF OrderInv

LEMMA ReceiveAnswerStep ==
  ASSUME OrderInv, NEW r \in requests, ReceiveGet(r) \/ ReceivePut(r)
  PROVE  OrderInv'
<1>1. /\ r \in Request /\ RequestIsRight(r) /\ IsNews(r) /\ r.waiting /\ r.stage = "answered"
      /\ requests' = requests \ {r} /\ UNCHANGED <<server, lists, shell, sends, history>>
      /\ nav \in [Client -> Page] /\ requests \subseteq Request
  BY DEF OrderInv, TypeOK, RequestsAreRight, WriterIsTold, ReceiveGet, ReceivePut, Page
<1>2. PICK n : n = [order |-> r.answer, lastSaved |-> r.answer, retryOrder |-> NoSave,
                    saving |-> r.kind = "get" /\ nav[r.client].saving,
                    failed |-> nav[r.client].failed]
  OBVIOUS
<1>3. r.client \in Client /\ nav[r.client] \in Page /\ IsAnswer(r.answer) /\ r.answer \in MaybeOrder
  BY <1>1 DEF Request, RequestIsRight
<1>4. nav' = [nav EXCEPT ![r.client] = n]
  <2>1. CASE ReceiveGet(r)
    <3>1. (r.kind = "get" /\ nav[r.client].saving) = nav[r.client].saving
      BY <1>3, <2>1 DEF ReceiveGet, Page
    <3> QED
      BY <1>2, <2>1, <3>1 DEF ReceiveGet, Shown
  <2>2. CASE ReceivePut(r)
    <3>1. (r.kind = "get" /\ nav[r.client].saving) = FALSE
      BY <2>2 DEF ReceivePut
    <3> QED
      BY <1>2, <2>2, <3>1 DEF ReceivePut, Shown
  <2> QED
    BY <2>1, <2>2
<1>5. n \in Page
  <2>1. NoSave \in Save
    BY DEF NoSave, NoLists, Save, Lists, MaybeOrder
  <2> QED
    BY <1>2, <1>3, <2>1 DEF Page
<1>6. ASSUME r.client = Told, ~crossed[Told] PROVE Agrees(n.order, stored)
  <2>1. r.kind = "get" \/ r.kind = "put"
    BY <1>1 DEF Request
  <2>2. stored \in Order /\ NoneTwice(stored)
    BY <1>3, <1>6, OrderAssumption DEF OrderInv, TypeOK, WriterIsTold, HistoryIsKept, MaybeOrder
  <2> QED
    BY <1>1, <1>2, <1>6, <2>1, <2>2, AgreesWithItself DEF IsNews
<1>7. /\ n.saving <=> r.kind = "get" /\ nav[r.client].saving
      /\ n.lastSaved # NoOrder => IsAnswer(n.lastSaved)
      /\ n.retryOrder # NoSave => IsSave(n.retryOrder)
      /\ ~n.saving /\ n.order # NoOrder => IsAnswer(n.order)
  BY <1>2, <1>3
<1>8. /\ requests' \subseteq Request /\ requests \ {r} \subseteq requests'
      /\ \A x \in requests' : x \in requests \ {r} \/ (~x.waiting /\ RequestIsRight(x))
  BY <1>1
<1> QED
  BY <1>1, <1>4, <1>5, <1>6, <1>7, <1>8, ReceiveStep

\* What the page goes back to when a save failed.
LEMMA FailedPage ==
  ASSUME OrderInv, NEW r \in requests, r.waiting, r.kind = "put", NEW kept \in Save,
         kept # NoSave => IsSave(kept), SaveFailed(r, kept),
         requests' \subseteq Request, requests \ {r} \subseteq requests',
         \A x \in requests' : x \in requests \ {r} \/ (~x.waiting /\ RequestIsRight(x)),
         UNCHANGED <<server, lists, shell, sends, history>>
  PROVE  OrderInv'
<1>1. /\ r \in Request /\ RequestIsRight(r) /\ r.client \in Client
      /\ nav \in [Client -> Page] /\ nav[r.client] \in Page /\ PageIsRight(r.client)
  BY DEF OrderInv, TypeOK, RequestsAreRight, PagesAreRight, Page, Request
<1>2. PICK n : n = [nav[r.client] EXCEPT !.order = r.previous, !.failed = TRUE,
                                         !.retryOrder = kept, !.saving = FALSE]
  OBVIOUS
<1>3. nav' = [nav EXCEPT ![r.client] = n]
  BY <1>2 DEF SaveFailed
<1>4. r.previous \in MaybeOrder /\ (r.previous # NoOrder => IsAnswer(r.previous))
  BY <1>1 DEF Request, RequestIsRight
<1>5. /\ n \in Page /\ n.order = r.previous /\ n.failed /\ n.retryOrder = kept /\ ~n.saving
      /\ n.lastSaved = nav[r.client].lastSaved
  BY <1>1, <1>2, <1>4 DEF Page
<1>6. /\ n.saving <=> r.kind = "get" /\ nav[r.client].saving
      /\ n.lastSaved # NoOrder => IsAnswer(n.lastSaved)
      /\ n.retryOrder # NoSave => IsSave(n.retryOrder)
      /\ ~n.saving /\ n.order # NoOrder => IsAnswer(n.order)
  BY <1>1, <1>4, <1>5 DEF PageIsRight
<1> QED
  BY <1>3, <1>5, <1>6, ReceiveStep

LEMMA ReceiveRefusalStep ==
  ASSUME OrderInv, NEW r \in requests, ReceiveRefusal(r)
  PROVE  OrderInv'
<1>1. /\ r \in Request /\ RequestIsRight(r) /\ r.waiting /\ r.stage = "refused"
      /\ requests' = requests \ {r} /\ UNCHANGED <<server, lists, shell, sends, history>>
      /\ SaveFailed(r, NoSave) /\ requests \subseteq Request
  BY DEF OrderInv, TypeOK, RequestsAreRight, ReceiveRefusal
<1>2. NoSave \in Save /\ r.kind = "put"
  BY <1>1 DEF NoSave, NoLists, Save, Lists, MaybeOrder, RequestIsRight
<1>3. /\ requests' \subseteq Request /\ requests \ {r} \subseteq requests'
      /\ \A x \in requests' : x \in requests \ {r} \/ (~x.waiting /\ RequestIsRight(x))
  BY <1>1
<1> QED
  BY <1>1, <1>2, <1>3, FailedPage

LEMMA GiveUpStep ==
  ASSUME OrderInv, NEW r \in requests, GiveUp(r)
  PROVE  OrderInv'
<1>1. /\ r \in Request /\ RequestIsRight(r) /\ r.waiting /\ requests \subseteq Request
      /\ UNCHANGED <<server, lists, shell, sends, history>>
  BY DEF OrderInv, TypeOK, RequestsAreRight, GiveUp
<1>2. PICK q : q = [r EXCEPT !.waiting = FALSE]
  OBVIOUS
<1>3. /\ q \in Request /\ ~q.waiting /\ q.kind = r.kind /\ q.stage = r.stage /\ q.save = r.save
      /\ q.previous = r.previous /\ q.declared = r.declared /\ q.answer = r.answer
  BY <1>1, <1>2 DEF Request
<1>4. RequestIsRight(q)
  BY <1>1, <1>3 DEF RequestIsRight
<1>5. /\ requests' \subseteq Request /\ requests \ {r} \subseteq requests'
      /\ \A x \in requests' : x \in requests \ {r} \/ (~x.waiting /\ RequestIsRight(x))
  <2>1. Becomes(r, q)
    BY <1>2 DEF GiveUp
  <2>2. \A x : x \in requests' =>
          x \in requests \ {r} \/ x = q
    BY <2>1 DEF Becomes
  <2>3. requests \ {r} \subseteq requests'
    BY <2>1 DEF Becomes
  <2> QED
    BY <1>1, <1>3, <1>4, <2>2, <2>3
<1>6. CASE r.kind = "put"
  <2>1. SaveFailed(r, r.save)
    BY <1>6 DEF GiveUp
  <2>2. r.save \in Save /\ IsSave(r.save)
    BY <1>1, <1>6 DEF Request, RequestIsRight
  <2> QED
    BY <1>1, <1>5, <1>6, <2>1, <2>2, FailedPage
<1>7. CASE r.kind = "get"
  <2>1. /\ nav \in [Client -> Page] /\ r.client \in Client /\ nav[r.client] \in Page
        /\ PageIsRight(r.client)
    BY <1>1 DEF OrderInv, TypeOK, PagesAreRight, Page, Request
  <2>2. PICK n : n = [nav[r.client] EXCEPT !.failed = TRUE]
    OBVIOUS
  <2>3. nav' = [nav EXCEPT ![r.client] = n]
    BY <1>7, <2>2 DEF GiveUp
  <2>4. /\ n \in Page /\ n.failed /\ n.order = nav[r.client].order /\ n.saving = nav[r.client].saving
        /\ n.lastSaved = nav[r.client].lastSaved /\ n.retryOrder = nav[r.client].retryOrder
    BY <2>1, <2>2 DEF Page
  <2>5. /\ n.saving <=> r.kind = "get" /\ nav[r.client].saving
        /\ n.lastSaved # NoOrder => IsAnswer(n.lastSaved)
        /\ n.retryOrder # NoSave => IsSave(n.retryOrder)
        /\ ~n.saving /\ n.order # NoOrder => IsAnswer(n.order)
    BY <1>7, <2>1, <2>4 DEF PageIsRight
  <2> QED
    BY <1>1, <1>5, <2>3, <2>4, <2>5, ReceiveStep
<1> QED
  BY <1>1, <1>6, <1>7 DEF Request

(***************************************************************************)
(* The theorems.                                                           *)
(***************************************************************************)
LEMMA InitIsRight ==
  ASSUME OrderInit
  PROVE  OrderInv
<1>1. 1 \in DOMAIN Releases /\ Releases[1] \in Release
  BY OrderAssumption
<1>2. CurrentLists \in Lists /\ DeclaredOrder(CurrentLists) \in Order
      /\ NoneTwice(DeclaredOrder(CurrentLists))
  <2>1. CurrentLists \in Lists
    BY <1>1, ListsType DEF CurrentLists, OrderInit
  <2> QED
    BY <2>1, DeclaredMembers
<1>3. \A c \in Client :
        /\ NewGet(c) \in Request /\ NewGet(c).client = c /\ NewGet(c).kind = "get"
        /\ NewGet(c).stage = "sent" /\ NewGet(c).previous = NoOrder
  <2>1. NoSave \in Save
    BY DEF NoSave, NoLists, Save, Lists, MaybeOrder
  <2> QED
    BY <2>1 DEF NewGet, Request, MaybeOrder
<1>4. \A r \in requests : /\ r \in Request /\ r.kind = "get" /\ r.stage = "sent"
                          /\ r.previous = NoOrder
  BY <1>3 DEF OrderInit
<1>5. TypeOK
  <2>1. registered \subseteq STRING
    <3>1. \A d \in ToSet(Releases[1].feeds) : d \in Definition
      BY <1>1 DEF Release, ToSet
    <3>2. \A d \in ToSet(Releases[1].feeds) : d.id \in STRING
      BY <3>1 DEF Definition
    <3> QED
      BY <3>2 DEF OrderInit
  <2>2. lists \in [Client -> Lists]
    <3>1. PICK l : l = [CurrentLists EXCEPT !.groups = {}]
      OBVIOUS
    <3>2. l \in Lists
      BY <1>2, <3>1 DEF Lists
    <3>3. lists = [c \in Client |-> l]
      BY <3>1 DEF OrderInit
    <3> QED
      BY <3>2, <3>3
  <2>3. nav \in [Client -> Page]
    <3>1. NoSave \in Save
      BY DEF NoSave, NoLists, Save, Lists, MaybeOrder
    <3> QED
      BY <3>1 DEF OrderInit, Page, MaybeOrder
  <2>4. \A c \in Client : ~nav[c].saving
    BY DEF OrderInit
  <2>5. \A c \in Client : nav[c].saving <=>
          \E r \in requests : r.client = c /\ r.kind = "put" /\ r.waiting
    BY <1>4, <2>4
  <2>6. shell \in [Client -> [ready: BOOLEAN, failed: BOOLEAN, asked: BOOLEAN]]
    BY DEF OrderInit
  <2> QED
    BY <1>1, <1>4, <2>1, <2>2, <2>3, <2>5, <2>6 DEF OrderInit, TypeOK, MaybeOrder, Page
<1>6. OneSaveAtATime
  BY <1>4 DEF OneSaveAtATime, IsWaitingSave
<1>7. HistoryIsKept
  BY <1>2 DEF HistoryIsKept, OrderInit, MaybeOrder, Told
<1>8. RequestsAreRight
  BY <1>4 DEF RequestsAreRight, RequestIsRight
<1>9. PagesAreRight
  BY DEF PagesAreRight, PageIsRight, OrderInit
<1>10. WriterIsTold
  BY <1>4 DEF WriterIsTold, IsNews, IsWaitingSave, OrderInit, Told
<1>11. WriterShows
  BY OrderAssumption DEF WriterShows, OrderInit, Told
<1> QED
  BY <1>5, <1>6, <1>7, <1>8, <1>9, <1>10, <1>11 DEF OrderInv

LEMMA OrderStep ==
  ASSUME OrderInv, OrderNext
  PROVE  OrderInv'
<1>1. CASE Deploy \/ Register
  BY <1>1, DeployStep, RegisterStep
<1>2. ASSUME NEW r \in requests,
             \/ ReadDeclared(r) \/ ReadStored(r) \/ WriteStored(r) \/ Vanish(r)
             \/ ReceiveGet(r) \/ ReceivePut(r) \/ ReceiveRefusal(r) \/ GiveUp(r)
      PROVE  OrderInv'
  BY <1>2, ReadDeclaredStep, ReadStoredStep, WriteStoredStep, VanishStep,
     ReceiveAnswerStep, ReceiveRefusalStep, GiveUpStep
<1>3. ASSUME NEW c \in Client, LoadFeeds(c) \/ LoadGroups(c) \/ FailGroups(c) \/ Retry(c)
      PROVE  OrderInv'
  BY <1>3, LoadStep, RetryStep
<1>4. ASSUME NEW c \in Client, NEW s \in Section,
             NEW from \in DOMAIN Sidebar(c)[s], NEW to \in DOMAIN Sidebar(c)[s], Move(c, s, from, to)
      PROVE  OrderInv'
  BY <1>4, MoveStep
<1> QED
  BY <1>1, <1>2, <1>3, <1>4 DEF OrderNext

LEMMA OrderStutters ==
  ASSUME OrderInv, UNCHANGED orderVars
  PROVE  OrderInv'
<1>1. UNCHANGED <<release, registered, stored, lists, shell, nav, requests, sends, history>>
  BY DEF orderVars, server, client
<1>2. TypeOK'
  BY <1>1 DEF OrderInv, TypeOK
<1> QED
  BY <1>1, <1>2, ListsDoNotMatter

\* The inductive invariant of the sidebar's order.
LEMMA OrderIsInvariant == OrderSpec => []OrderInv
<1>1. OrderInit => OrderInv
  BY InitIsRight
<1>2. OrderInv /\ [OrderNext]_orderVars => OrderInv'
  BY OrderStep, OrderStutters
<1> QED
  BY <1>1, <1>2, PTL DEF OrderSpec

\* A client that was told of the save that is stored (PUT /api/feed-navigation-order) shows
\* it, however the requests of any number of pages and the releases cross, but for an error
\* or a request on its way; and what a page shows and does not save is an order the server
\* had.  It says nothing of a page whose save a reload crossed, and nothing of a row
\* written late by a save its client had given up.
THEOREM SavedOrderIsShown == OrderSpec => []SavedIsShown
<1>1. ASSUME OrderInv PROVE SavedIsShown
  <2>1. ASSUME NEW c \in Client, writer = c, ~late, ~crossed[c], ~nav[c].failed,
               ~WaitsFor(c, "get"), ~WaitsFor(c, "put")
        PROVE  \A s \in Section : AgreeOn(nav[c].order[s], stored[s])
    BY <1>1, <2>1 DEF OrderInv, WriterShows, Agrees, Told
  <2>2. ASSUME NEW c \in Client, ~nav[c].saving, nav[c].order # NoOrder
        PROVE  \E order \in storedEver, declared \in declaredEver :
                 nav[c].order = Reconciled(order, declared)
    BY <1>1, <2>2 DEF OrderInv, PagesAreRight, PageIsRight, IsAnswer
  <2> QED
    BY <2>1, <2>2 DEF SavedIsShown
<1> QED
  BY <1>1, OrderIsInvariant, PTL

\* A GET (loadDeclaredOrder, reconcileItems) would answer each declared row once: those
\* of the stored order first and in its order, the others behind as they are declared.
THEOREM AnswersNameEachRow == OrderSpec => []AnswersAreComplete
<1>1. ASSUME OrderInv PROVE AnswersAreComplete
  <2>1. TypeOK /\ stored \in MaybeOrder /\ (stored # NoOrder => NoneTwice(stored))
    BY <1>1 DEF OrderInv, TypeOK, HistoryIsKept
  <2>2. PICK declared : declared = DeclaredOrder(CurrentLists) /\ declared \in Order /\ NoneTwice(declared)
    BY <2>1, DeclaredNow
  <2>3. PICK answer : answer = Reconciled(stored, declared)
    OBVIOUS
  <2>4. IsPermutation(answer, declared)
    BY <2>1, <2>2, <2>3, ReconciledOrder
  <2>5. ASSUME NEW s \in Section, stored # NoOrder
        PROVE  /\ AgreeOn(answer[s], stored[s])
               /\ \A i, j \in DOMAIN answer[s] :
                    i < j /\ ~Contains(stored[s], answer[s][i])
                      => /\ ~Contains(stored[s], answer[s][j])
                         /\ \E k, l \in DOMAIN declared[s] :
                              k < l /\ declared[s][k] = answer[s][i] /\ declared[s][l] = answer[s][j]
    <3>1. stored \in Order
      BY <2>1, <2>5 DEF MaybeOrder
    <3>2. PICK kept, rows : kept = stored[s] /\ rows = declared[s]
      OBVIOUS
    <3>3. kept \in Seq(Item) /\ Once(kept) /\ rows \in Seq(Item) /\ Once(rows)
      BY <2>1, <2>2, <2>5, <3>1, <3>2, OrderSections DEF NoneTwice
    <3>4. answer[s] = reconcileItems(kept, rows)
      BY <2>3, <3>1, <3>2, ReconciledSection
    <3> QED
      BY <3>2, <3>3, <3>4, StoredComeFirst
  <2> QED
    BY <2>1, <2>2, <2>3, <2>4, <2>5 DEF AnswersAreComplete
<1> QED
  BY <1>1, OrderIsInvariant, PTL

\* A save made from what is declared now is a whole order of it, though the page
\* makes the rows in its own way (buildSidebarSections, loadDeclaredOrder).
LEMMA CurrentSavesAreWhole ==
  ASSUME OrderInv, NEW kept, IsSave(kept), kept.seen = CurrentLists
  PROVE  IsPermutation(kept.body, DeclaredOrder(CurrentLists))
<1>1. IsPermutation(SidebarRows(CurrentLists), DeclaredOrder(CurrentLists))
  BY SectionsAgree DEF OrderInv, TypeOK, CurrentLists
<1>2. IsPermutation(kept.body, SidebarRows(CurrentLists))
  BY DEF IsSave
<1> QED
  BY <1>1, <1>2 DEF IsPermutation

LEMMA RefusalStep ==
  ASSUME OrderInv, OrderNext, NEW x \in requests' \ requests, x.stage = "refused"
  PROVE  x.save.seen # CurrentLists
<1>1. CASE Deploy \/ Register
  BY <1>1 DEF Deploy, Register
<1>2. ASSUME NEW r \in requests, ReadDeclared(r) PROVE x.save.seen # CurrentLists
  <2>1. r \in Request /\ RequestIsRight(r)
    BY DEF OrderInv, TypeOK, RequestsAreRight
  <2>2. PICK declared : declared = DeclaredOrder(CurrentLists)
    OBVIOUS
  <2>3. CASE r.kind = "put" /\ ~IsPermutation(r.save.body, declared)
    <3>1. PICK q : q = [r EXCEPT !.stage = "refused"]
      OBVIOUS
    <3>2. Becomes(r, q)
      BY <1>2, <2>2, <2>3, <3>1 DEF ReadDeclared
    <3>3. x = q
      BY <3>2 DEF Becomes
    <3>4. x.save = r.save
      BY <2>1, <3>1, <3>3 DEF Request
    <3>5. IsSave(r.save)
      BY <2>1, <2>3 DEF RequestIsRight
    <3> QED
      BY <2>2, <2>3, <3>4, <3>5, CurrentSavesAreWhole
  <2>4. CASE ~(r.kind = "put" /\ ~IsPermutation(r.save.body, declared))
    <3>1. PICK q : q = [r EXCEPT !.stage = "read", !.declared = declared]
      OBVIOUS
    <3>2. Becomes(r, q)
      BY <1>2, <2>2, <2>4, <3>1 DEF ReadDeclared
    <3>3. x = q /\ q.stage = "read"
      BY <2>1, <3>1, <3>2 DEF Becomes, Request
    <3> QED
      BY <3>3
  <2> QED
    BY <2>3, <2>4
<1>3. ASSUME NEW r \in requests, ReadStored(r) \/ WriteStored(r) PROVE FALSE
  <2>1. r \in Request
    BY DEF OrderInv, TypeOK
  <2>2. PICK answer : Becomes(r, [r EXCEPT !.stage = "answered", !.declared = NoOrder, !.answer = answer])
    BY <1>3 DEF ReadStored, WriteStored
  <2>3. PICK q : q = [r EXCEPT !.stage = "answered", !.declared = NoOrder, !.answer = answer]
    OBVIOUS
  <2>4. q.stage = "answered"
    BY <2>1, <2>3 DEF Request
  <2> QED
    BY <2>2, <2>3, <2>4 DEF Becomes
<1>4. ASSUME NEW r \in requests, Vanish(r) \/ ReceiveGet(r) \/ ReceivePut(r) \/ ReceiveRefusal(r)
      PROVE  FALSE
  BY <1>4 DEF Vanish, ReceiveGet, ReceivePut, ReceiveRefusal
<1>5. ASSUME NEW r \in requests, GiveUp(r) PROVE FALSE
  <2>1. r \in Request
    BY DEF OrderInv, TypeOK
  <2>2. PICK q : q = [r EXCEPT !.waiting = FALSE]
    OBVIOUS
  <2>3. Becomes(r, q) /\ ~q.waiting
    BY <1>5, <2>1, <2>2 DEF GiveUp, Request
  <2> QED
    BY <2>3 DEF Becomes
<1>6. ASSUME NEW c \in Client, LoadFeeds(c) \/ LoadGroups(c) \/ FailGroups(c) PROVE FALSE
  BY <1>6 DEF LoadFeeds, LoadGroups, FailGroups
<1>7. ASSUME NEW c, NEW next, save(c, next) \/ reload(c) PROVE FALSE
  <2>1. NewGet(c).stage = "sent" /\ NewPut(c, next).stage = "sent"
    BY DEF NewGet, NewPut
  <2>2. requests' = requests \/ requests' = requests \cup {NewGet(c)}
        \/ requests' = requests \cup {NewPut(c, next)}
    BY <1>7 DEF save, reload
  <2> QED
    BY <2>1, <2>2
<1>8. ASSUME NEW c \in Client, Retry(c) PROVE FALSE
  <2>1. save(c, nav[c].retryOrder) \/ reload(c)
    BY <1>8 DEF Retry
  <2> QED
    BY <1>7, <2>1
<1>9. ASSUME NEW c \in Client, NEW s, NEW from, NEW to, Move(c, s, from, to) PROVE FALSE
  <2>1. \E next : save(c, next)
    BY <1>9 DEF Move
  <2> QED
    BY <1>7, <2>1
<1> QED
  BY <1>1, <1>2, <1>3, <1>4, <1>5, <1>6, <1>8, <1>9 DEF OrderNext

\* The PUT refuses a whole order (409) only when the page that made it had other lists
\* than the server declares now: the two make the same rows of the same lists.
THEOREM RefusalsAreRight == OrderSpec => RefusedOnlyWhenOutdated
<1>1. OrderInv /\ [OrderNext]_orderVars =>
        [\A r \in requests' \ requests : r.stage = "refused" => r.save.seen # CurrentLists]_requests
  <2>1. ASSUME OrderInv, OrderNext
        PROVE  \A r \in requests' \ requests : r.stage = "refused" => r.save.seen # CurrentLists
    BY <2>1, RefusalStep
  <2>2. UNCHANGED orderVars => UNCHANGED requests
    BY DEF orderVars
  <2> QED
    BY <2>1, <2>2
<1> QED
  BY <1>1, OrderIsInvariant, PTL DEF OrderSpec, RefusedOnlyWhenOutdated

(***************************************************************************)
(* The page and the collector: the list of feeds and the rank table.       *)
(***************************************************************************)
Ask == [served: BOOLEAN, overtaken: BOOLEAN, nextRunAt: Nat, taken: Nat, told: Nat]

ListTypeOK ==
  /\ feedRow \in [nextRunAt: Nat, taken: Nat, told: Nat, running: BOOLEAN, patched: BOOLEAN]
  /\ feeds \in [loaded: BOOLEAN, nextRunAt: Nat, taken: Nat, told: Nat]
  /\ table \in [mounted: BOOLEAN, snapshot: Nat, failed: BOOLEAN, late: BOOLEAN]
  /\ listAsks \in Seq(Ask) /\ tableAsks \in Seq(Ask)

\* What was told at one next_run_at is the same for all who saw it.
SameTold(x, y) == x.nextRunAt = y.nextRunAt => x.told = y.told

\* x is the feed's row, as it was at some time.
IsPast(x) == x.nextRunAt <= feedRow.nextRunAt /\ x.told <= feedRow.told /\ SameTold(x, feedRow)

TimesTell ==
  /\ feedRow.told <= feedRow.taken /\ IsPast(feeds)
  /\ \A x \in ToSet(listAsks) : x.served =>
       /\ IsPast(x) /\ SameTold(x, feeds)
       /\ \A y \in ToSet(listAsks) : y.served => SameTold(x, y)

\* The request of the table that was sent last brings what the list tells, unless the
\* answer of a later one has been there before.
WillKeepUp(ask) == ask.overtaken \/ ~ask.served \/ ask.taken >= feeds.told

TableIsAsked ==
  table.mounted /\ ~table.failed =>
    IF tableAsks = <<>> THEN table.late \/ table.snapshot >= feeds.told
                        ELSE WillKeepUp(tableAsks[Len(tableAsks)])

ListInv == ListTypeOK /\ TimesTell /\ TableIsAsked

LEMMA WithoutOne ==
  ASSUME NEW T, NEW asks \in Seq(T), NEW i \in DOMAIN asks
  PROVE  /\ Without(asks, i) \in Seq(T) /\ Len(Without(asks, i)) = Len(asks) - 1
         /\ \A j \in 1..(Len(asks) - 1) : Without(asks, i)[j] = IF j < i THEN asks[j] ELSE asks[j + 1]
         /\ ToSet(Without(asks, i)) \subseteq ToSet(asks)
<1>1. PICK n \in Nat : n = Len(asks) /\ DOMAIN asks = 1..n
  OBVIOUS
<1>2. PICK rest : rest = Without(asks, i)
  OBVIOUS
<1>3. /\ rest \in Seq(T) /\ Len(rest) = n - 1
      /\ \A j \in 1..(n - 1) : rest[j] = IF j < i THEN asks[j] ELSE asks[j + 1]
  BY <1>1, <1>2, RemovedRow DEF Without
<1>4. ASSUME NEW j \in 1..(n - 1) PROVE rest[j] \in ToSet(asks)
  <2>1. j \in 1..n /\ j + 1 \in 1..n
    BY <1>1
  <2>2. asks[j] \in ToSet(asks) /\ asks[j + 1] \in ToSet(asks)
    BY <1>1, <2>1 DEF ToSet
  <2> QED
    BY <1>3, <2>2
<1>5. ToSet(rest) \subseteq ToSet(asks)
  <2>1. DOMAIN rest = 1..(n - 1)
    BY <1>3
  <2> QED
    BY <1>4, <2>1 DEF ToSet
<1> QED
  BY <1>1, <1>2, <1>3, <1>5

LEMMA OneMore ==
  ASSUME NEW T, NEW asks \in Seq(T), NEW x \in T
  PROVE  /\ Append(asks, x) \in Seq(T) /\ Append(asks, x) # <<>>
         /\ Append(asks, x)[Len(Append(asks, x))] = x
         /\ ToSet(Append(asks, x)) \subseteq ToSet(asks) \cup {x}
<1>1. /\ Append(asks, x) \in Seq(T) /\ Append(asks, x) # <<>>
      /\ Append(asks, x)[Len(Append(asks, x))] = x
      /\ DOMAIN Append(asks, x) = 1..(Len(asks) + 1)
      /\ \A j \in 1..Len(asks) : Append(asks, x)[j] = asks[j]
      /\ Append(asks, x)[Len(asks) + 1] = x
  OBVIOUS
<1>2. ASSUME NEW j \in 1..(Len(asks) + 1) PROVE Append(asks, x)[j] \in ToSet(asks) \cup {x}
  <2>1. CASE j \in 1..Len(asks)
    BY <1>1, <2>1 DEF ToSet
  <2>2. CASE j \notin 1..Len(asks)
    <3>1. j = Len(asks) + 1
      BY <2>2
    <3> QED
      BY <1>1, <3>1
  <2> QED
    BY <2>1, <2>2
<1> QED
  BY <1>1, <1>2 DEF ToSet

LEMMA AnsweredOne ==
  ASSUME ListTypeOK, NEW asks \in Seq(Ask), NEW i \in DOMAIN asks
  PROVE  \E x \in Ask :
           /\ x.served /\ x.overtaken = asks[i].overtaken
           /\ x.nextRunAt = feedRow.nextRunAt /\ x.taken = feedRow.taken /\ x.told = feedRow.told
           /\ Answered(asks, i) = [asks EXCEPT ![i] = x]
           /\ Answered(asks, i) \in Seq(Ask) /\ Len(Answered(asks, i)) = Len(asks)
           /\ ToSet(Answered(asks, i)) \subseteq ToSet(asks) \cup {x}
<1>1. PICK x : x = [asks[i] EXCEPT !.served = TRUE, !.nextRunAt = feedRow.nextRunAt,
                                   !.taken = feedRow.taken, !.told = feedRow.told]
  OBVIOUS
<1>2. asks[i] \in Ask
  OBVIOUS
<1>3. /\ x \in Ask /\ x.served /\ x.overtaken = asks[i].overtaken
      /\ x.nextRunAt = feedRow.nextRunAt /\ x.taken = feedRow.taken /\ x.told = feedRow.told
  BY <1>1, <1>2 DEF Ask, ListTypeOK
<1>4. Answered(asks, i) = [asks EXCEPT ![i] = x]
  BY <1>1 DEF Answered
<1>5. PICK all : all = [asks EXCEPT ![i] = x]
  OBVIOUS
<1>6. all \in Seq(Ask) /\ Len(all) = Len(asks)
  BY <1>3, <1>5
<1>7. DOMAIN all = DOMAIN asks /\ \A j \in DOMAIN asks : all[j] = IF j = i THEN x ELSE asks[j]
  BY <1>5
<1>8. ToSet(all) \subseteq ToSet(asks) \cup {x}
  BY <1>7 DEF ToSet
<1> QED
  BY <1>3, <1>4, <1>5, <1>6, <1>8

LEMMA OvertakingOne ==
  ASSUME NEW asks \in Seq(Ask), NEW i \in DOMAIN asks
  PROVE  LET rest == Overtaking(asks, i)
         IN /\ rest \in Seq(Ask) /\ Len(rest) = Len(asks) - 1
            /\ rest # <<>> => IF i = Len(asks) THEN rest[Len(rest)].overtaken
                              ELSE rest[Len(rest)] = asks[Len(asks)]
<1>1. PICK n \in Nat : n = Len(asks) /\ DOMAIN asks = 1..n
  OBVIOUS
<1>2. PICK flagged : flagged = [j \in DOMAIN asks |-> IF j < i THEN [asks[j] EXCEPT !.overtaken = TRUE] ELSE asks[j]]
  OBVIOUS
<1>3. ASSUME NEW j \in 1..n
      PROVE  /\ flagged[j] \in Ask /\ (j < i => flagged[j].overtaken)
             /\ ~(j < i) => flagged[j] = asks[j]
  <2>1. asks[j] \in Ask
    BY <1>1
  <2> QED
    BY <1>1, <1>2, <2>1 DEF Ask
<1>4. flagged \in Seq(Ask) /\ Len(flagged) = n /\ DOMAIN flagged = 1..n
  <2>1. flagged \in [1..n -> Ask]
    BY <1>1, <1>2, <1>3
  <2> QED
    BY <2>1
<1>5. PICK rest : rest = Overtaking(asks, i)
  OBVIOUS
<1>6. /\ rest \in Seq(Ask) /\ Len(rest) = n - 1
      /\ \A j \in 1..(n - 1) : rest[j] = IF j < i THEN flagged[j] ELSE flagged[j + 1]
  <2>1. rest = RemoveAt(flagged, i)
    BY <1>2, <1>5 DEF Overtaking
  <2>2. i \in DOMAIN flagged
    BY <1>1, <1>4
  <2> QED
    BY <1>4, <2>1, <2>2, RemovedRow
<1>7. ASSUME rest # <<>> PROVE IF i = n THEN rest[n - 1].overtaken ELSE rest[n - 1] = asks[n]
  <2>1. n - 1 \in 1..(n - 1) /\ n - 1 \in 1..n /\ n \in 1..n /\ (n - 1) + 1 = n
    BY <1>6, <1>7
  <2>2. CASE i = n
    BY <1>3, <1>6, <2>1, <2>2
  <2>3. CASE i # n
    <3>1. ~(n - 1 < i) /\ ~(n < i)
      BY <1>1, <2>3
    <3> QED
      BY <1>3, <1>6, <2>1, <2>3, <3>1
  <2> QED
    BY <2>2, <2>3
<1> QED
  BY <1>1, <1>5, <1>6, <1>7

\* The list's requests after a step: those there were, and one that is not answered yet.
LEMMA ListAsksStay ==
  ASSUME ListInv, UNCHANGED <<feedRow, feeds>>,
         \A x \in ToSet(listAsks)' : x.served => x \in ToSet(listAsks)
  PROVE  TimesTell'
<1>1. TimesTell
  BY DEF ListInv
<1>2. feedRow'.told <= feedRow'.taken /\ IsPast(feeds)'
  BY <1>1 DEF TimesTell, IsPast, SameTold
<1>3. ASSUME NEW x \in ToSet(listAsks)', x.served
      PROVE  /\ IsPast(x)' /\ SameTold(x, feeds')
             /\ \A y \in ToSet(listAsks)' : y.served => SameTold(x, y)
  <2>1. x \in ToSet(listAsks) /\ \A y \in ToSet(listAsks)' : y.served => y \in ToSet(listAsks)
    BY <1>3
  <2>2. IsPast(x) /\ SameTold(x, feeds) /\ \A y \in ToSet(listAsks)' : y.served => SameTold(x, y)
    BY <1>1, <1>3, <2>1 DEF TimesTell
  <2> QED
    BY <2>2 DEF IsPast, SameTold
<1> QED
  BY <1>2, <1>3 DEF TimesTell, SameTold

\* A change of next_run_at is one nobody has seen.
LEMMA FeedRowStep ==
  ASSUME ListInv, StartAttempt \/ EndAttempt \/ Patch
  PROVE  ListInv'
<1>1. ListTypeOK /\ TimesTell /\ TableIsAsked
  BY DEF ListInv
<1>2. UNCHANGED <<feeds, listAsks, table, tableAsks>>
  BY DEF StartAttempt, EndAttempt, Patch
<1> DEFINE Row == [nextRunAt: Nat, taken: Nat, told: Nat, running: BOOLEAN, patched: BOOLEAN]
<1>3. feedRow \in Row
  BY <1>1 DEF ListTypeOK
<1>0. feedRow.nextRunAt \in Nat /\ feedRow.taken \in Nat /\ feedRow.told \in Nat
  BY <1>3
<1>4. /\ feedRow' \in Row /\ feedRow'.told <= feedRow'.taken
      /\ \/ feedRow'.nextRunAt = feedRow.nextRunAt /\ feedRow'.told = feedRow.told
         \/ feedRow'.nextRunAt = feedRow.nextRunAt + 1 /\ feedRow'.told >= feedRow.told
  <2>1. feedRow.told <= feedRow.taken
    BY <1>1 DEF TimesTell
  <2>2. CASE StartAttempt
    BY <1>3, <2>1, <2>2 DEF StartAttempt
  <2>3. CASE EndAttempt
    <3>1. PICK succeeds \in BOOLEAN :
            LET ended == [feedRow EXCEPT !.running = FALSE, !.taken = IF succeeds THEN @ + 1 ELSE @]
            IN feedRow' = IF feedRow.patched THEN ended ELSE SetNextRunAt(ended)
      BY <2>3 DEF EndAttempt
    <3>2. PICK ended : ended = [feedRow EXCEPT !.running = FALSE, !.taken = IF succeeds THEN @ + 1 ELSE @]
      OBVIOUS
    <3>0. PICK n \in Nat : n >= feedRow.taken /\ n = IF succeeds THEN feedRow.taken + 1 ELSE feedRow.taken
      BY <1>0
    <3>3. /\ ended \in Row /\ ended.nextRunAt = feedRow.nextRunAt /\ ended.told = feedRow.told
          /\ ended.taken = n
      <4>1. ended = [feedRow EXCEPT !.running = FALSE, !.taken = n]
        BY <3>0, <3>2
      <4> QED
        BY <1>3, <4>1
    <3>4. feedRow' = IF feedRow.patched THEN ended ELSE SetNextRunAt(ended)
      BY <3>1, <3>2
    <3>5. CASE feedRow.patched
      BY <1>0, <1>3, <2>1, <3>0, <3>3, <3>4, <3>5
    <3>6. CASE ~feedRow.patched
      <4>1. PICK k \in Nat : k = feedRow.nextRunAt + 1
        BY <1>0
      <4>2. feedRow' = [ended EXCEPT !.nextRunAt = k, !.told = n]
        BY <3>3, <3>4, <3>6, <4>1 DEF SetNextRunAt
      <4>3. /\ feedRow' \in Row /\ feedRow'.nextRunAt = k /\ feedRow'.told = n
            /\ feedRow'.taken = n
        BY <3>0, <3>3, <4>1, <4>2
      <4> QED
        BY <1>0, <2>1, <3>0, <4>1, <4>3
    <3> QED
      BY <3>5, <3>6
  <2>4. CASE Patch
    <3>1. PICK sets \in BOOLEAN :
            feedRow' = [IF sets THEN SetNextRunAt(feedRow) ELSE feedRow EXCEPT !.patched = TRUE]
      BY <2>4 DEF Patch
    <3>2. PICK row : row = [feedRow EXCEPT !.nextRunAt = feedRow.nextRunAt + 1, !.told = feedRow.taken]
      OBVIOUS
    <3>0. PICK k \in Nat : k = feedRow.nextRunAt + 1
      BY <1>0
    <3>3. /\ row \in Row /\ row.nextRunAt = k /\ row.told = feedRow.taken
          /\ row.taken = feedRow.taken
      <4>1. row = [feedRow EXCEPT !.nextRunAt = k, !.told = feedRow.taken]
        BY <3>0, <3>2
      <4> QED
        BY <1>0, <1>3, <4>1
    <3>4. feedRow' = [IF sets THEN row ELSE feedRow EXCEPT !.patched = TRUE]
      BY <3>1, <3>2 DEF SetNextRunAt
    <3>5. CASE sets
      <4>1. feedRow' = [row EXCEPT !.patched = TRUE]
        BY <3>4, <3>5
      <4>2. /\ feedRow' \in Row /\ feedRow'.nextRunAt = k /\ feedRow'.told = feedRow.taken
            /\ feedRow'.taken = feedRow.taken
        BY <3>3, <4>1
      <4> QED
        BY <1>0, <2>1, <3>0, <4>2
    <3>6. CASE ~sets
      <4>1. feedRow' = [feedRow EXCEPT !.patched = TRUE]
        BY <3>4, <3>6
      <4> QED
        BY <1>3, <2>1, <4>1
    <3> QED
      BY <3>5, <3>6
  <2> QED
    BY <2>2, <2>3, <2>4
<1>5. ASSUME NEW x, x.nextRunAt \in Nat, x.told \in Nat, IsPast(x) PROVE IsPast(x)'
  BY <1>3, <1>4, <1>5 DEF IsPast, SameTold
<1>6. ASSUME NEW x \in ToSet(listAsks) PROVE x.nextRunAt \in Nat /\ x.told \in Nat
  <2>1. x \in Ask
    BY <1>1 DEF ListTypeOK, ToSet
  <2> QED
    BY <2>1 DEF Ask
<1>7. TimesTell'
  <2>1. IsPast(feeds)'
    <3>1. feeds.nextRunAt \in Nat /\ feeds.told \in Nat /\ IsPast(feeds)
      BY <1>1 DEF ListTypeOK, TimesTell
    <3>2. PICK x : x = feeds
      OBVIOUS
    <3>3. IsPast(x)' /\ feeds' = x
      BY <1>2, <1>5, <3>1, <3>2
    <3> QED
      BY <3>3 DEF IsPast, SameTold
  <2>2. \A x \in ToSet(listAsks) : x.served =>
          /\ IsPast(x)' /\ SameTold(x, feeds)
          /\ \A y \in ToSet(listAsks) : y.served => SameTold(x, y)
    BY <1>1, <1>5, <1>6 DEF TimesTell
  <2> QED
    BY <1>2, <1>4, <2>1, <2>2 DEF TimesTell, SameTold
<1>8. ListTypeOK' /\ TableIsAsked'
  BY <1>1, <1>2, <1>4 DEF ListTypeOK, TableIsAsked, WillKeepUp
<1> QED
  BY <1>7, <1>8 DEF ListInv

\* The list's requests are sent, answered and lost.
LEMMA ListAskStep ==
  ASSUME ListInv, refreshFeeds \/ (\E i \in 1..MaxAsked : ServeList(i) \/ FailFeeds(i))
  PROVE  ListInv'
<1>1. ListTypeOK /\ TimesTell /\ TableIsAsked
  BY DEF ListInv
<1>2. UNCHANGED <<feedRow, feeds, table, tableAsks>>
  BY DEF refreshFeeds, ServeList, FailFeeds
<1>3. TableIsAsked'
  BY <1>1, <1>2 DEF TableIsAsked, WillKeepUp
<1>4. Asked \in Ask /\ ~Asked.served
  BY DEF Asked, Ask
<1>5. CASE refreshFeeds
  <2>1. listAsks' = Append(listAsks, Asked)
    BY <1>5 DEF refreshFeeds
  <2>2. listAsks' \in Seq(Ask) /\ ToSet(listAsks)' \subseteq ToSet(listAsks) \cup {Asked}
    BY <1>1, <1>4, <2>1, OneMore DEF ListTypeOK
  <2>3. TimesTell'
    BY <1>2, <1>4, <2>2, ListAsksStay
  <2> QED
    BY <1>1, <1>2, <1>3, <2>2, <2>3 DEF ListInv, ListTypeOK
<1>6. ASSUME NEW i \in 1..MaxAsked, FailFeeds(i) PROVE ListInv'
  <2>1. i \in DOMAIN listAsks /\ listAsks' = Without(listAsks, i)
    BY <1>6 DEF FailFeeds
  <2>2. listAsks' \in Seq(Ask) /\ ToSet(listAsks)' \subseteq ToSet(listAsks)
    BY <1>1, <2>1, WithoutOne DEF ListTypeOK
  <2>3. TimesTell'
    BY <1>2, <2>2, ListAsksStay
  <2> QED
    BY <1>1, <1>2, <1>3, <2>2, <2>3 DEF ListInv, ListTypeOK
<1>7. ASSUME NEW i \in 1..MaxAsked, ServeList(i) PROVE ListInv'
  <2>1. i \in DOMAIN listAsks /\ listAsks' = Answered(listAsks, i)
    BY <1>7 DEF ServeList
  <2>2. PICK x \in Ask :
          /\ x.nextRunAt = feedRow.nextRunAt /\ x.told = feedRow.told
          /\ Answered(listAsks, i) \in Seq(Ask)
          /\ ToSet(Answered(listAsks, i)) \subseteq ToSet(listAsks) \cup {x}
    BY <1>1, <2>1, AnsweredOne DEF ListTypeOK
  <2>3. listAsks' \in Seq(Ask) /\ ToSet(listAsks)' \subseteq ToSet(listAsks) \cup {x}
    BY <2>1, <2>2
  <2>4. feedRow.nextRunAt \in Nat /\ feedRow.told \in Nat
    BY <1>1 DEF ListTypeOK
  <2>5. IsPast(x) /\ \A y : IsPast(y) => SameTold(x, y) /\ SameTold(y, x)
    BY <2>2, <2>4 DEF IsPast, SameTold
  <2>6. \A y \in ToSet(listAsks)' : y.served =>
          /\ IsPast(y) /\ SameTold(y, feeds)
          /\ \A z \in ToSet(listAsks)' : z.served => SameTold(y, z)
    <3>1. IsPast(feeds) /\ \A y \in ToSet(listAsks) : y.served =>
            /\ IsPast(y) /\ SameTold(y, feeds)
            /\ \A z \in ToSet(listAsks) : z.served => SameTold(y, z)
      BY <1>1 DEF TimesTell
    <3>2. SameTold(x, x)
      BY DEF SameTold
    <3> QED
      BY <2>3, <2>5, <3>1, <3>2
  <2>7. TimesTell'
    <3>1. feedRow'.told <= feedRow'.taken /\ IsPast(feeds)'
      BY <1>1, <1>2 DEF TimesTell, IsPast, SameTold
    <3>2. \A y : IsPast(y) => IsPast(y)'
      BY <1>2 DEF IsPast, SameTold
    <3> QED
      BY <1>2, <2>6, <3>1, <3>2 DEF TimesTell, SameTold
  <2> QED
    BY <1>1, <1>2, <1>3, <2>3, <2>7 DEF ListInv, ListTypeOK
<1> QED
  BY <1>5, <1>6, <1>7

\* The table's requests.
LEMMA TableStep ==
  ASSUME ListInv,
         \/ MountTable \/ UnmountTable \/ RetryTable
         \/ \E i \in 1..MaxAsked : ServeTable(i) \/ ReceiveSnapshot(i) \/ FailSnapshot(i)
  PROVE  ListInv'
<1>1. ListTypeOK /\ TimesTell /\ TableIsAsked
  BY DEF ListInv
<1>2. UNCHANGED <<feedRow, feeds, listAsks>>
  BY DEF MountTable, UnmountTable, RetryTable, ServeTable, ReceiveSnapshot, FailSnapshot
<1>3. TimesTell'
  <2>1. \A x \in ToSet(listAsks)' : x.served => x \in ToSet(listAsks)
    BY <1>2
  <2> QED
    BY <1>2, <2>1, ListAsksStay
<1> DEFINE Tables == [mounted: BOOLEAN, snapshot: Nat, failed: BOOLEAN, late: BOOLEAN]
<1>4. ASSUME table' \in Tables, tableAsks' \in Seq(Ask), TableIsAsked' PROVE ListInv'
  BY <1>1, <1>2, <1>3, <1>4 DEF ListInv, ListTypeOK
<1>5. table \in Tables /\ tableAsks \in Seq(Ask)
  BY <1>1 DEF ListTypeOK
<1>6. Asked \in Ask /\ ~Asked.served /\ NoTable \in Tables /\ ~NoTable.mounted
  BY DEF Asked, Ask, NoTable
<1>7. ASSUME NEW t \in Tables, loadSnapshot(t) PROVE ListInv'
  <2>1. table' = [t EXCEPT !.failed = FALSE] /\ tableAsks' = Append(tableAsks, Asked)
    BY <1>7 DEF loadSnapshot
  <2>2. tableAsks' \in Seq(Ask) /\ tableAsks' # <<>> /\ tableAsks'[Len(tableAsks')] = Asked
    BY <1>5, <1>6, <2>1, OneMore
  <2>3. TableIsAsked'
    BY <1>6, <2>2 DEF TableIsAsked, WillKeepUp
  <2> QED
    BY <1>4, <2>1, <2>2, <2>3
<1>8. CASE MountTable
  <2>1. PICK t : t = [NoTable EXCEPT !.mounted = TRUE]
    OBVIOUS
  <2> QED
    BY <1>6, <1>7, <1>8, <2>1 DEF MountTable
<1>9. CASE RetryTable
  BY <1>5, <1>7, <1>9 DEF RetryTable
<1>10. CASE UnmountTable
  <2>1. table' = NoTable /\ tableAsks' = <<>>
    BY <1>10 DEF UnmountTable
  <2> QED
    BY <1>4, <1>6, <2>1 DEF TableIsAsked
<1>11. ASSUME NEW i \in 1..MaxAsked, ServeTable(i) PROVE ListInv'
  <2>1. i \in DOMAIN tableAsks /\ tableAsks' = Answered(tableAsks, i) /\ table' = table
    BY <1>11 DEF ServeTable
  <2>2. PICK x \in Ask :
          /\ x.taken = feedRow.taken /\ Answered(tableAsks, i) \in Seq(Ask)
          /\ Answered(tableAsks, i) = [tableAsks EXCEPT ![i] = x] /\ Len(Answered(tableAsks, i)) = Len(tableAsks)
    BY <1>1, <1>5, <2>1, AnsweredOne
  <2>3. x.taken >= feeds.told
    BY <1>1, <2>2 DEF ListTypeOK, TimesTell, IsPast
  <2>4. tableAsks # <<>> /\ tableAsks' # <<>> /\ Len(tableAsks') = Len(tableAsks)
        /\ Len(tableAsks) \in DOMAIN tableAsks
    BY <1>5, <2>1, <2>2
  <2>5. tableAsks'[Len(tableAsks)] = x \/ tableAsks'[Len(tableAsks)] = tableAsks[Len(tableAsks)]
    BY <2>1, <2>2, <2>4
  <2>6. \A ask : WillKeepUp(ask)' <=> WillKeepUp(ask)
    BY <1>2 DEF WillKeepUp
  <2>7. WillKeepUp(x)
    BY <2>3 DEF WillKeepUp
  <2>8. TableIsAsked'
    BY <1>1, <2>1, <2>4, <2>5, <2>6, <2>7 DEF TableIsAsked
  <2> QED
    BY <1>4, <1>5, <2>1, <2>2, <2>8
<1>12. ASSUME NEW i \in 1..MaxAsked, ReceiveSnapshot(i) PROVE ListInv'
  <2>1. /\ i \in DOMAIN tableAsks /\ tableAsks[i].served /\ tableAsks' = Overtaking(tableAsks, i)
        /\ table' = [table EXCEPT !.snapshot = tableAsks[i].taken, !.late = tableAsks[i].overtaken]
    BY <1>12 DEF ReceiveSnapshot
  <2>2. tableAsks[i] \in Ask
    BY <1>5, <2>1
  <2>3. /\ table' \in Tables /\ table'.mounted = table.mounted /\ table'.failed = table.failed
        /\ table'.snapshot = tableAsks[i].taken /\ table'.late = tableAsks[i].overtaken
    BY <1>5, <2>1, <2>2 DEF Ask
  <2>4. PICK rest : rest = Overtaking(tableAsks, i)
    OBVIOUS
  <2>5. /\ rest \in Seq(Ask) /\ Len(rest) = Len(tableAsks) - 1
        /\ rest # <<>> => IF i = Len(tableAsks) THEN rest[Len(rest)].overtaken
                          ELSE rest[Len(rest)] = tableAsks[Len(tableAsks)]
    BY <1>5, <2>1, <2>4, OvertakingOne
  <2>6. tableAsks # <<>> /\ (rest = <<>> => i = Len(tableAsks))
    BY <1>5, <2>1, <2>5
  <2>7. \A ask : WillKeepUp(ask)' <=> WillKeepUp(ask)
    BY <1>2 DEF WillKeepUp
  <2>8. ASSUME table'.mounted, ~table'.failed
        PROVE  IF rest = <<>> THEN table'.late \/ table'.snapshot >= feeds.told
                              ELSE WillKeepUp(rest[Len(rest)])
    <3>1. WillKeepUp(tableAsks[Len(tableAsks)])
      BY <1>1, <2>3, <2>6, <2>8 DEF TableIsAsked
    <3>2. CASE rest = <<>>
      BY <2>1, <2>3, <2>6, <3>1, <3>2 DEF WillKeepUp
    <3>3. CASE rest # <<>>
      BY <2>5, <3>1, <3>3 DEF WillKeepUp
    <3> QED
      BY <3>2, <3>3
  <2>9. TableIsAsked'
    BY <1>2, <2>1, <2>4, <2>7, <2>8 DEF TableIsAsked
  <2> QED
    BY <1>4, <2>1, <2>3, <2>4, <2>5, <2>9
<1>13. ASSUME NEW i \in 1..MaxAsked, FailSnapshot(i) PROVE ListInv'
  <2>1. /\ i \in DOMAIN tableAsks /\ tableAsks' = Without(tableAsks, i)
        /\ table' = [table EXCEPT !.failed = TRUE]
    BY <1>13 DEF FailSnapshot
  <2>2. tableAsks' \in Seq(Ask)
    BY <1>5, <2>1, WithoutOne
  <2>3. table' \in Tables /\ table'.failed
    BY <1>5, <2>1
  <2> QED
    BY <1>4, <2>2, <2>3 DEF TableIsAsked
<1> QED
  BY <1>8, <1>9, <1>10, <1>11, <1>12, <1>13

\* An answer that tells more than the list so far makes the table ask again.
LEMMA ReceiveFeedsStep ==
  ASSUME ListInv, NEW i \in 1..MaxAsked, ReceiveFeeds(i)
  PROVE  ListInv'
<1>1. ListTypeOK /\ TimesTell /\ TableIsAsked
  BY DEF ListInv
<1>2. PICK answer : answer = listAsks[i]
  OBVIOUS
<1>3. /\ i \in DOMAIN listAsks /\ answer.served /\ listAsks' = Without(listAsks, i)
      /\ feeds' = [loaded |-> TRUE, nextRunAt |-> answer.nextRunAt,
                   taken |-> answer.taken, told |-> answer.told]
      /\ IF TableDepends(answer) THEN loadSnapshot(table) ELSE UNCHANGED <<table, tableAsks>>
      /\ feedRow' = feedRow
  BY <1>2 DEF ReceiveFeeds
<1>4. answer \in Ask /\ answer \in ToSet(listAsks)
  BY <1>1, <1>2, <1>3 DEF ListTypeOK, ToSet
<1>5. /\ feeds' \in [loaded: BOOLEAN, nextRunAt: Nat, taken: Nat, told: Nat]
      /\ feeds'.nextRunAt = answer.nextRunAt /\ feeds'.told = answer.told
  BY <1>3, <1>4 DEF Ask
<1>6. listAsks' \in Seq(Ask) /\ ToSet(listAsks)' \subseteq ToSet(listAsks)
  BY <1>1, <1>3, WithoutOne DEF ListTypeOK
<1>7. IsPast(answer) /\ SameTold(answer, feeds)
      /\ \A y \in ToSet(listAsks) : y.served => SameTold(y, answer) /\ IsPast(y)
  BY <1>1, <1>3, <1>4 DEF TimesTell
<1>8. TimesTell'
  <2>1. IsPast(feeds)'
    BY <1>3, <1>5, <1>7 DEF IsPast, SameTold
  <2>2. \A x : IsPast(x) => IsPast(x)'
    BY <1>3 DEF IsPast, SameTold
  <2>3. \A x : SameTold(x, answer) => SameTold(x, feeds')
    BY <1>5 DEF SameTold
  <2>4. \A x \in ToSet(listAsks)' : x.served =>
          /\ IsPast(x)' /\ SameTold(x, feeds')
          /\ \A y \in ToSet(listAsks)' : y.served => SameTold(x, y)
    BY <1>1, <1>6, <1>7, <2>2, <2>3 DEF TimesTell
  <2>5. feedRow'.told <= feedRow'.taken
    BY <1>1, <1>3 DEF TimesTell
  <2> QED
    BY <2>1, <2>4, <2>5 DEF TimesTell, SameTold
<1> DEFINE Tables == [mounted: BOOLEAN, snapshot: Nat, failed: BOOLEAN, late: BOOLEAN]
<1>9. table \in Tables /\ tableAsks \in Seq(Ask)
  BY <1>1 DEF ListTypeOK
<1>10. CASE TableDepends(answer)
  <2>1. table' = [table EXCEPT !.failed = FALSE] /\ tableAsks' = Append(tableAsks, Asked)
    BY <1>3, <1>10 DEF loadSnapshot
  <2>2. Asked \in Ask /\ ~Asked.served
    BY DEF Asked, Ask
  <2>3. tableAsks' \in Seq(Ask) /\ tableAsks' # <<>> /\ tableAsks'[Len(tableAsks')] = Asked
    BY <1>9, <2>1, <2>2, OneMore
  <2>4. TableIsAsked'
    BY <2>2, <2>3 DEF TableIsAsked, WillKeepUp
  <2>5. table' \in Tables
    BY <1>9, <2>1
  <2> QED
    BY <1>1, <1>3, <1>5, <1>6, <1>8, <2>3, <2>4, <2>5 DEF ListInv, ListTypeOK
<1>11. CASE ~TableDepends(answer)
  <2>1. UNCHANGED <<table, tableAsks>>
    BY <1>3, <1>11
  <2>2. table.mounted => feeds'.told = feeds.told
    BY <1>5, <1>7, <1>11 DEF TableDepends, SameTold
  <2>3. TableIsAsked'
    BY <1>1, <2>1, <2>2 DEF TableIsAsked, WillKeepUp
  <2> QED
    BY <1>1, <1>3, <1>5, <1>6, <1>8, <2>1, <2>3 DEF ListInv, ListTypeOK
<1> QED
  BY <1>10, <1>11

LEMMA ListInitInv ==
  ASSUME ListInit
  PROVE  ListInv
<1>1. Asked \in Ask /\ ~Asked.served
  BY DEF Asked, Ask
<1>2. ListTypeOK
  BY <1>1 DEF ListInit, ListTypeOK, NoFeeds, NoTable
<1>3. \A x \in ToSet(listAsks) : x = Asked
  BY DEF ListInit, ToSet
<1>4. TimesTell
  BY <1>1, <1>3 DEF ListInit, TimesTell, IsPast, SameTold, NoFeeds
<1>5. TableIsAsked
  BY DEF ListInit, TableIsAsked, NoTable
<1> QED
  BY <1>2, <1>4, <1>5 DEF ListInv

LEMMA ListStep ==
  ASSUME ListInv, ListRest \/ (\E i \in 1..MaxAsked : ReceiveFeeds(i)) \/ UNCHANGED listVars
  PROVE  ListInv'
<1>1. CASE UNCHANGED listVars
  BY <1>1 DEF listVars, ListInv, ListTypeOK, TimesTell, TableIsAsked, WillKeepUp, IsPast, SameTold
<1>2. CASE StartAttempt \/ EndAttempt \/ Patch
  BY <1>2, FeedRowStep
<1>3. CASE refreshFeeds \/ (\E i \in 1..MaxAsked : ServeList(i) \/ FailFeeds(i))
  BY <1>3, ListAskStep
<1>4. CASE \/ MountTable \/ UnmountTable \/ RetryTable
           \/ \E i \in 1..MaxAsked : ServeTable(i) \/ ReceiveSnapshot(i) \/ FailSnapshot(i)
  BY <1>4, TableStep
<1>5. CASE \E i \in 1..MaxAsked : ReceiveFeeds(i)
  BY <1>5, ReceiveFeedsStep
<1> QED
  BY <1>1, <1>2, <1>3, <1>4, <1>5 DEF ListRest

LEMMA UserLeavesList ==
  ASSUME UserNext
  PROVE  UNCHANGED listVars
BY DEF UserNext, HashChange, refreshGroups, ReceiveOrder, AnswerSave, OpenOther, ChooseVariant,
       closeEntry, Address, FocusPanel, Resize, SaveOrder, OpenRow, selectEntry, moveToPanel, Step

LEMMA ListIsInvariant == Spec => []ListInv
<1>1. Init => ListInv
  BY ListInitInv DEF Init
<1>2. ASSUME ListInv, [Next]_vars
      PROVE  ListInv'
  <2>1. ListRest \/ (\E i \in 1..MaxAsked : ReceiveFeeds(i)) \/ UNCHANGED listVars
    BY <1>2, UserLeavesList DEF Next, vars, ReceiveListOfFeeds
  <2> QED
    BY <1>2, <2>1, ListStep
<1> QED
  BY <1>1, <1>2, PTL DEF Spec

\* An open rank table whose requests are answered shows a snapshot at least as new as the list
\* of feeds beside it tells (app.tsx, rank-table.tsx): whatever answers of the list are
\* late, lost or overtaken, and whichever of the table's are lost and asked for again.
\* Excepted are a table with an error, one whose last answer was overtaken by that of a
\* later request, and snapshots next_run_at does not tell of: of an attempt that was
\* PATCHed while it ran.
THEOREM TableFollowsList == Spec => []TableKeepsUp
<1>1. ListInv => TableKeepsUp
  BY DEF ListInv, TableIsAsked, TableKeepsUp
<1> QED
  BY <1>1, ListIsInvariant, PTL

(***************************************************************************)
(* The frame of the page.                                                  *)
(***************************************************************************)
\* STRING; the literals are named for the provers.
Segment == STRING \cup {NoEntry, "admin", "bookmarks", "feeds", "entries"}

EntryOrNone == Entry \cup {NoEntry}
PanelOrNone == Panel \cup {NoPanel}
FeedOrNone == Feed \cup {NoFeed}
Kept == Remembered \cup FeedOrNone

\* Only a feed's screen has a feed, and neither an unknown screen nor the admin's an entry.
IsScreen(s) ==
  /\ s \in [kind: {"none", "admin", "bookmarks", "feed"}, feed: Seq(Segment), entry: EntryOrNone]
  /\ s.kind # "feed" => s.feed = NoFeed
  /\ s.kind \in {"none", "admin"} => s.entry = NoEntry

PageType == [groupsReady: BOOLEAN, order: Orders \cup {<<>>}, saving: BOOLEAN, wide: BOOLEAN]
ReadingType == [hidden: EntryOrNone, pending: PanelOrNone, focus: PanelOrNone]
MemoryType == [last: [Group -> Kept], drawn: [Group -> Kept], viewed: [Group -> FeedOrNone]]

ShellTypeOK ==
  /\ hash \in Seq(Segment) /\ IsScreen(screen) /\ steps \in Nat
  /\ page \in PageType /\ reading \in ReadingType /\ memory \in MemoryType

Selected == SelectedFeed(shown, feeds.loaded)

\* Every render has been followed by those it calls for.
FirstIsShown == shown = EffectiveScreen(memory.last)

\* What was viewed last in a group is what localStorage holds for it, and what its link
\* was drawn for, unless the group is the one that is shown.
IsKept(g) ==
  memory.viewed[g] # NoFeed =>
    /\ memory.viewed[g] \in FeedsOf(g) /\ memory.last[g] = memory.viewed[g]
    /\ (Selected # NoFeed => RowOfFeed(Selected) # g) => memory.drawn[g] = memory.viewed[g]

LastViewed ==
  /\ \A g \in Group : IsKept(g)
  /\ Selected # NoFeed /\ RowOfFeed(Selected) \in Group => memory.viewed[RowOfFeed(Selected)] = Selected

FocusIsThere == reading.focus # NoPanel => Operable(reading.focus, shown, page.wide, reading.hidden)

ShellInv == ShellTypeOK /\ FirstIsShown /\ LastViewed /\ FocusIsThere

LEMMA FirstOfRow ==
  ASSUME NEW row \in ToSet(RowOf)
  PROVE  FirstFeedOf(row) \in FeedsOf(row)
<1>1. PICK S : S = {i \in DOMAIN RowOf : RowOf[i] = row}
  OBVIOUS
<1>2. DOMAIN RowOf = DOMAIN Declared /\ DOMAIN Declared = 1..Len(Declared) /\ Len(Declared) \in Nat
  BY ShellAssumption
<1>3. S \in SUBSET Nat /\ S # {}
  BY <1>1, <1>2 DEF ToSet
<1>4. PICK i \in S : i = Min(S)
  BY <1>3, Least DEF Min
<1>5. i \in DOMAIN Declared /\ RowOf[i] = row
  BY <1>1, <1>2, <1>4
<1>6. FirstFeedOf(row) = Declared[i]
  BY <1>1, <1>4 DEF FirstFeedOf
<1>7. (CHOOSE j \in DOMAIN Declared : Declared[j] = Declared[i]) = i
  BY <1>5, ShellAssumption
<1> QED
  BY <1>5, <1>6, <1>7 DEF FeedsOf, RowOfFeed, Feed, ToSet

LEMMA PickedFeed ==
  ASSUME NEW row \in ToSet(RowOf), NEW remembered
  PROVE  pickRowFeed(row, remembered) \in FeedsOf(row)
BY FirstOfRow DEF pickRowFeed

LEMMA Segments ==
  /\ Seq(STRING) \subseteq Seq(Segment) /\ STRING \subseteq Segment
  /\ NoEntry \in Segment /\ "admin" \in Segment /\ "bookmarks" \in Segment
  /\ "feeds" \in Segment /\ "entries" \in Segment
<1>1. STRING \subseteq Segment
  BY DEF Segment
<1>2. \A x \in Seq(STRING) : x \in Seq(Segment)
  BY <1>1, SeqMonotonic
<1> QED
  BY <1>1, <1>2 DEF Segment

LEMMA FeedIds ==
  ASSUME NEW feed \in Feed
  PROVE  feed \in Seq(Segment) /\ feed # NoFeed /\ IsFeedId(feed)
<1>1. PICK Ids : Ids = Seq(STRING)
  OBVIOUS
<1>2. Declared \in Seq(Ids) /\ feed \in ToSet(Declared)
  BY <1>1, ShellAssumption DEF Feed
<1>3. feed \in Ids
  BY <1>2 DEF ToSet
<1>4. IsFeedId(feed)
  BY ShellAssumption DEF Feed
<1> QED
  BY <1>1, <1>3, <1>4, Segments DEF IsFeedId

LEMMA Paths ==
  /\ <<"admin">> \in Seq(Segment) /\ <<"bookmarks">> \in Seq(Segment) /\ <<"feeds">> \in Seq(Segment)
  /\ \A entry \in Segment : <<"entries", entry>> \in Seq(Segment)
BY Segments

LEMMA FeedsAreFeeds ==
  ASSUME NEW row, NEW feed \in FeedsOf(row)
  PROVE  feed \in Feed /\ RowOfFeed(feed) = row
BY DEF FeedsOf

LEMMA EntryIds ==
  ASSUME NEW entry \in EntryOrNone
  PROVE  entry \in Segment /\ (entry \in Entry <=> entry # NoEntry)
<1>1. Entry \subseteq STRING /\ NoEntry \notin Entry
  BY ShellAssumption
<1> QED
  BY <1>1, Segments DEF EntryOrNone

LEMMA ScreensAreScreens ==
  /\ IsScreen(NoScreen) /\ IsScreen(AdminScreen)
  /\ \A entry \in EntryOrNone :
       /\ IsScreen([BookmarksScreen EXCEPT !.entry = entry])
       /\ \A feed \in Seq(Segment) :
            /\ IsScreen([FeedScreen(feed) EXCEPT !.entry = entry])
            /\ IsScreen(FeedScreen(feed))
<1>1. NoFeed \in Seq(Segment) /\ NoEntry \in EntryOrNone
  BY DEF NoFeed, EntryOrNone
<1> QED
  BY <1>1 DEF IsScreen, NoScreen, AdminScreen, BookmarksScreen, FeedScreen

\* The hash of a screen is a hash, and a hash names a screen.
LEMMA HashOfScreen ==
  ASSUME NEW s, IsScreen(s)
  PROVE  makeScreenHash(s) \in Seq(Segment)
<1>1. s.feed \in Seq(Segment) /\ s.entry \in Segment
  BY EntryIds DEF IsScreen
<1>0. /\ <<"admin">> \in Seq(Segment) /\ <<"bookmarks">> \in Seq(Segment)
      /\ <<"feeds">> \o s.feed \in Seq(Segment) /\ <<"entries", s.entry>> \in Seq(Segment)
      /\ <<>> \in Seq(Segment)
  <2>1. <<"feeds">> \in Seq(Segment)
    BY Segments
  <2> QED
    BY <1>1, <2>1, Segments
<1>2. PICK base \in Seq(Segment) : base = IF s.kind = "bookmarks" THEN <<"bookmarks">> ELSE <<"feeds">> \o s.feed
  BY <1>0
<1>3. PICK end \in Seq(Segment) : end = IF s.entry = NoEntry THEN <<>> ELSE <<"entries", s.entry>>
  BY <1>0
<1>4. base \o end \in Seq(Segment)
  OBVIOUS
<1>5. makeScreenHash(s) = IF s.kind = "admin" THEN <<"admin">> ELSE base \o end
  BY <1>2, <1>3 DEF makeScreenHash
<1> QED
  BY <1>0, <1>4, <1>5

LEMMA SplitType ==
  ASSUME NEW path \in Seq(Segment)
  PROVE  SplitEntry(path).base \in Seq(Segment) /\ SplitEntry(path).entry \in EntryOrNone
<1>1. PICK n \in Nat : n = Len(path)
  OBVIOUS
<1>2. n > 2 => SubSeq(path, 1, n - 2) \in Seq(Segment)
  <2>1. ASSUME n > 2 PROVE \A i \in 1..(n - 2) : path[i] \in Segment
    BY <1>1
  <2>2. n - 2 \in Int
    BY <1>1
  <2> QED
    BY <2>1, <2>2, SubSeqProperties
<1>3. \A segment : readEntryId(segment) \in EntryOrNone
  BY DEF readEntryId, EntryOrNone
<1>4. NoEntry \in EntryOrNone
  BY DEF EntryOrNone
<1> QED
  BY <1>1, <1>2, <1>3, <1>4 DEF SplitEntry

LEMMA ScreenOfHash ==
  ASSUME NEW path \in Seq(Segment)
  PROVE  IsScreen(readScreenFromHash(path))
<1>1. PICK split : split = SplitEntry(path)
  OBVIOUS
<1>2. split.base \in Seq(Segment) /\ split.entry \in EntryOrNone
  BY <1>1, SplitType
<1>3. Len(split.base) > 1 => Tail(split.base) \in Seq(Segment)
  BY <1>2
<1>4. \/ readScreenFromHash(path) = AdminScreen
      \/ readScreenFromHash(path) = [BookmarksScreen EXCEPT !.entry = split.entry]
      \/ /\ Len(split.base) > 1
         /\ readScreenFromHash(path) = [FeedScreen(Tail(split.base)) EXCEPT !.entry = split.entry]
      \/ readScreenFromHash(path) = NoScreen
  BY <1>1 DEF readScreenFromHash
<1> QED
  BY <1>2, <1>3, <1>4, ScreensAreScreens

\* A list's path that is followed by an entry's segments is split there again.
LEMMA EntryIsSplit ==
  ASSUME NEW base \in Seq(Segment), NEW entry \in Entry,
         base # <<>>, ~ (Len(base) = 1 /\ base[1] = "feeds")
  PROVE  SplitEntry(base \o <<"entries", entry>>) = [base |-> base, entry |-> entry]
<1>1. entry \in EntryOrNone
  BY DEF EntryOrNone
<1>2. PICK end : end = <<"entries", entry>>
  OBVIOUS
<1>3. PICK n \in Nat : n = Len(base) /\ n > 0
  OBVIOUS
<1>4. PICK path : path = base \o end
  OBVIOUS
<1>5. Len(end) = 2 /\ end[1] = "entries" /\ end[2] = entry /\ end \in Seq(Segment)
  BY <1>1, <1>2, EntryIds, Paths
<1>6. /\ path \in Seq(Segment) /\ Len(path) = n + 2
      /\ \A i \in 1..(n + 2) : path[i] = IF i <= n THEN base[i] ELSE end[i - n]
  <2>1. /\ path \in Seq(Segment) /\ Len(path) = Len(base) + Len(end)
        /\ \A i \in 1..(Len(base) + Len(end)) : path[i] = IF i <= Len(base) THEN base[i] ELSE end[i - Len(base)]
    BY <1>4, <1>5, ConcatProperties
  <2> QED
    BY <1>3, <1>5, <2>1
<1>7. path[n + 1] = end[1] /\ path[n + 2] = end[2] /\ path[1] = base[1]
  <2>1. n + 1 \in 1..(n + 2) /\ n + 2 \in 1..(n + 2) /\ 1 \in 1..(n + 2)
        /\ (n + 1) - n = 1 /\ (n + 2) - n = 2 /\ ~ (n + 1 <= n) /\ ~ (n + 2 <= n) /\ 1 <= n
    BY <1>3
  <2> QED
    BY <1>6, <2>1
<1>8. SubSeq(path, 1, n) = base
  <2>1. PICK part : part = SubSeq(path, 1, n)
    OBVIOUS
  <2>2. \A i \in 1..n : path[i] = base[i]
    BY <1>3, <1>6
  <2>3. part \in Seq(Segment) /\ Len(part) = n - 1 + 1 /\ \A i \in 1..(n - 1 + 1) : part[i] = path[1 + i - 1]
    <3>1. 1 \in 1..(Len(path) + 1) /\ n \in 0..Len(path) /\ 1 <= n + 1
      BY <1>3, <1>6
    <3> QED
      BY <1>6, <2>1, <3>1, PartOf
  <2>4. Len(part) = Len(base) /\ \A i \in 1..Len(part) : part[i] = base[i]
    <3>1. n - 1 + 1 = n /\ \A i \in 1..n : 1 + i - 1 = i
      BY <1>3
    <3> QED
      BY <1>3, <2>2, <2>3, <3>1
  <2> QED
    BY <2>1, <2>3, <2>4, SeqEqual
<1>9. Len(path) > 2 /\ Len(path) - 1 = n + 1 /\ Len(path) - 2 = n
      /\ (Len(path) = 3 => n = 1)
  BY <1>3, <1>6
<1>10. readEntryId(entry) = entry
  BY DEF readEntryId
<1>11. path[Len(path) - 1] = "entries" /\ path[Len(path)] = entry
  BY <1>5, <1>6, <1>7, <1>9
<1>12. ~ (Len(path) = 3 /\ path[1] = "feeds")
  BY <1>3, <1>7, <1>9
<1>13. SubSeq(path, 1, Len(path) - 2) = base
  BY <1>8, <1>9
<1>14. SplitEntry(path) = [base |-> base, entry |-> entry]
  BY <1>9, <1>10, <1>11, <1>12, <1>13 DEF SplitEntry
<1> QED
  BY <1>2, <1>4, <1>14

\* What is to the right of #/feeds/ is the feed, where it is not an entry's.
LEMMA FeedPath ==
  ASSUME NEW feed \in Seq(Segment), feed # NoFeed
  PROVE  \E path \in Seq(Segment) :
           /\ path = <<"feeds">> \o feed /\ Len(path) = Len(feed) + 1 /\ Len(path) > 1
           /\ path[1] = "feeds" /\ Tail(path) = feed
           /\ \A i \in 1..Len(feed) : path[i + 1] = feed[i]
<1>1. PICK root : root = <<"feeds">>
  OBVIOUS
<1>2. PICK n \in Nat : n = Len(feed) /\ n > 0
  BY DEF NoFeed
<1>3. Len(root) = 1 /\ root[1] = "feeds" /\ root \in Seq(Segment)
  BY <1>1, Paths
<1>4. PICK path : path = root \o feed
  OBVIOUS
<1>5. /\ path \in Seq(Segment) /\ Len(path) = 1 + n
      /\ \A i \in 1..(1 + n) : path[i] = IF i <= 1 THEN root[i] ELSE feed[i - 1]
  <2>1. /\ path \in Seq(Segment) /\ Len(path) = Len(root) + Len(feed)
        /\ \A i \in 1..(Len(root) + Len(feed)) : path[i] = IF i <= Len(root) THEN root[i] ELSE feed[i - Len(root)]
    BY <1>3, <1>4, ConcatProperties
  <2> QED
    BY <1>2, <1>3, <2>1
<1>6. path # <<>> /\ Len(path) > 1 /\ path[1] = "feeds"
  BY <1>2, <1>3, <1>5
<1>7. \A i \in 1..n : path[i + 1] = feed[i]
  <2>1. ASSUME NEW i \in 1..n PROVE i + 1 \in 1..(1 + n) /\ ~ (i + 1 <= 1) /\ (i + 1) - 1 = i
    BY <1>2
  <2> QED
    BY <1>5, <2>1
<1>8. Tail(path) = feed
  <2>1. PICK rest : rest = Tail(path)
    OBVIOUS
  <2>2. /\ rest \in Seq(Segment) /\ Len(rest) = Len(path) - 1
        /\ \A i \in 1..Len(rest) : rest[i] = path[i + 1]
    BY <1>5, <1>6, <2>1, HeadTailProperties
  <2>3. Len(rest) = Len(feed) /\ \A i \in 1..Len(rest) : rest[i] = feed[i]
    BY <1>2, <1>5, <1>7, <2>2
  <2> QED
    BY <2>1, <2>2, <2>3, SeqEqual
<1>9. Len(path) = Len(feed) + 1 /\ \A i \in 1..Len(feed) : path[i + 1] = feed[i]
  BY <1>2, <1>5, <1>7
<1> QED
  BY <1>1, <1>4, <1>5, <1>6, <1>8, <1>9

LEMMA FeedIsWhole ==
  ASSUME NEW feed \in Feed, NEW path \in Seq(Segment), path = <<"feeds">> \o feed
  PROVE  SplitEntry(path) = [base |-> path, entry |-> NoEntry]
<1>1. feed \in Seq(Segment) /\ feed # NoFeed /\ IsFeedId(feed)
  BY FeedIds
<1>2. PICK n \in Nat : n = Len(feed) /\ n > 0
  BY <1>1 DEF NoFeed
<1>3. Len(path) = n + 1 /\ path[1] = "feeds" /\ \A i \in 1..n : path[i + 1] = feed[i]
  BY <1>1, <1>2, FeedPath
<1>4. ASSUME Len(path) > 2, path[Len(path) - 1] = "entries"
      PROVE  Len(path) = 3 /\ path[1] = "feeds"
  <2>1. n - 1 \in 1..n /\ (n - 1) + 1 = Len(path) - 1
    BY <1>2, <1>3, <1>4
  <2>2. feed[n - 1] = "entries"
    BY <1>3, <1>4, <2>1
  <2>3. n <= 2
    BY <1>1, <1>2, <2>2 DEF IsFeedId
  <2> QED
    BY <1>2, <1>3, <1>4, <2>3
<1> QED
  BY <1>4 DEF SplitEntry

\* A screen with a list is the one its hash names.
LEMMA HashNamesScreen ==
  ASSUME NEW s, IsScreen(s), s.kind = "bookmarks" \/ (s.kind = "feed" /\ s.feed \in Feed)
  PROVE  readScreenFromHash(makeScreenHash(s)) = s
<1> DEFINE ScreenRecord == [kind: {"none", "admin", "bookmarks", "feed"}, feed: Seq(Segment), entry: EntryOrNone]
<1>1. s \in ScreenRecord /\ s.entry \in EntryOrNone /\ (s.entry # NoEntry => s.entry \in Entry)
  BY EntryIds DEF IsScreen
<1>2. CASE s.kind = "bookmarks"
  <2>1. s.feed = NoFeed
    BY <1>2 DEF IsScreen
  <2>2. PICK root : root = <<"bookmarks">>
    OBVIOUS
  <2>3. Len(root) = 1 /\ root[1] = "bookmarks" /\ root # <<>> /\ root \in Seq(Segment)
    BY <2>2, Paths
  <2>4. PICK path : path = makeScreenHash(s)
    OBVIOUS
  <2>5. path = IF s.entry = NoEntry THEN root ELSE root \o <<"entries", s.entry>>
    <3>1. path = root \o (IF s.entry = NoEntry THEN <<>> ELSE <<"entries", s.entry>>)
      BY <1>2, <2>2, <2>4 DEF makeScreenHash
    <3>2. root \o <<>> = root
      BY <2>3, ConcatEmptySeq
    <3> QED
      BY <3>1, <3>2
  <2>6. SplitEntry(path) = [base |-> root, entry |-> s.entry]
    <3>1. CASE s.entry = NoEntry
      BY <2>3, <2>5, <3>1 DEF SplitEntry
    <3>2. CASE s.entry # NoEntry
      BY <1>1, <2>3, <2>5, <3>2, EntryIsSplit
    <3> QED
      BY <3>1, <3>2
  <2>7. path # <<"admin">>
    <3>1. CASE s.entry = NoEntry
      BY <2>2, <2>5, <3>1
    <3>2. CASE s.entry # NoEntry
      <4>1. <<"entries", s.entry>> \in Seq(Segment) /\ Len(<<"entries", s.entry>>) = 2
        BY <1>1, EntryIds, Paths
      <4>2. Len(path) = Len(root) + Len(<<"entries", s.entry>>)
        BY <2>5, <3>2, <4>1, ConcatProperties
      <4> QED
        BY <2>3, <4>1, <4>2
    <3> QED
      BY <3>1, <3>2
  <2>8. readScreenFromHash(path) = [BookmarksScreen EXCEPT !.entry = s.entry]
    BY <2>2, <2>6, <2>7 DEF readScreenFromHash
  <2>9. [BookmarksScreen EXCEPT !.entry = s.entry] = s
    <3>1. PICK t : t = [BookmarksScreen EXCEPT !.entry = s.entry]
      OBVIOUS
    <3>2. t \in ScreenRecord
      BY <1>1, <3>1, ScreensAreScreens DEF IsScreen
    <3>3. t.kind = "bookmarks" /\ t.feed = NoFeed /\ t.entry = s.entry
      BY <3>1 DEF BookmarksScreen, NoScreen
    <3> QED
      BY <1>1, <1>2, <2>1, <3>1, <3>2, <3>3
  <2> QED
    BY <2>4, <2>8, <2>9
<1>3. CASE s.kind = "feed" /\ s.feed \in Feed
  <2>1. s.feed \in Seq(Segment) /\ s.feed # NoFeed
    BY <1>3, FeedIds
  <2>2. PICK root \in Seq(Segment) :
          /\ root = <<"feeds">> \o s.feed /\ Len(root) > 1
          /\ root[1] = "feeds" /\ Tail(root) = s.feed
    BY <2>1, FeedPath
  <2>3. PICK path : path = makeScreenHash(s)
    OBVIOUS
  <2>4. path = IF s.entry = NoEntry THEN root ELSE root \o <<"entries", s.entry>>
    <3>1. path = root \o (IF s.entry = NoEntry THEN <<>> ELSE <<"entries", s.entry>>)
      BY <1>3, <2>2, <2>3 DEF makeScreenHash
    <3>2. root \o <<>> = root
      BY <2>2, ConcatEmptySeq
    <3> QED
      BY <3>1, <3>2
  <2>5. SplitEntry(path) = [base |-> root, entry |-> s.entry]
    <3>1. CASE s.entry = NoEntry
      BY <1>3, <2>2, <2>4, <3>1, FeedIsWhole
    <3>2. CASE s.entry # NoEntry
      <4>1. root # <<>> /\ ~ (Len(root) = 1 /\ root[1] = "feeds")
        BY <2>2
      <4> QED
        BY <1>1, <2>4, <3>2, <4>1, EntryIsSplit
    <3> QED
      BY <3>1, <3>2
  <2>6. path # <<"admin">> /\ root # <<"bookmarks">>
    <3>1. root # <<"admin">> /\ root # <<"bookmarks">>
      BY <2>2
    <3>2. CASE s.entry # NoEntry
      <4>1. <<"entries", s.entry>> \in Seq(Segment) /\ Len(<<"entries", s.entry>>) = 2
        BY <1>1, EntryIds, Paths
      <4>2. Len(path) = Len(root) + Len(<<"entries", s.entry>>)
        BY <2>4, <3>2, <4>1, ConcatProperties
      <4> QED
        BY <2>2, <3>1, <4>1, <4>2
    <3> QED
      BY <2>4, <3>1, <3>2
  <2>7. readScreenFromHash(path) = [FeedScreen(s.feed) EXCEPT !.entry = s.entry]
    <3>1. PICK split : split = SplitEntry(path)
      OBVIOUS
    <3>2. split.base = root /\ split.entry = s.entry
      BY <2>5, <3>1
    <3> QED
      BY <2>2, <2>6, <3>1, <3>2 DEF readScreenFromHash
  <2>8. [FeedScreen(s.feed) EXCEPT !.entry = s.entry] = s
    <3>1. PICK t : t = [FeedScreen(s.feed) EXCEPT !.entry = s.entry]
      OBVIOUS
    <3>2. t \in ScreenRecord
      BY <1>1, <2>1, <3>1, ScreensAreScreens DEF IsScreen
    <3>3. t.kind = "feed" /\ t.feed = s.feed /\ t.entry = s.entry
      BY <3>1 DEF FeedScreen, NoScreen
    <3> QED
      BY <1>1, <1>3, <3>1, <3>2, <3>3
  <2> QED
    BY <2>3, <2>7, <2>8
<1> QED
  BY <1>2, <1>3

\* ------------------------------------------------------------------ one render
ShownFor(s, loaded, ready, order, remembered) ==
  IF s.kind = "none" /\ loaded /\ ready /\ order # <<>>
  THEN FeedScreen(pickRowFeed(order[1], remembered))
  ELSE s

IsReset(view, feed) == view.entry # shown.entry \/ feed # Selected \/ (page'.wide /\ ~page.wide)

LEMMA EffectiveIs ==
  ASSUME NEW remembered
  PROVE  EffectiveScreen(remembered) = ShownFor(screen, feeds.loaded, page.groupsReady, page.order, remembered)
BY DEF EffectiveScreen, ShownFor

LEMMA RenderIs ==
  ASSUME NEW r, Render(r)
  PROVE  \E view, feed, saved, first :
           /\ view = ShownFor(screen', feeds'.loaded, page'.groupsReady, page'.order, memory.last)
           /\ feed = SelectedFeed(view, feeds'.loaded)
           /\ saved = IF IsSaved(feed, Selected) THEN [memory.last EXCEPT ![RowOfFeed(feed)] = feed]
                                                 ELSE memory.last
           /\ first = Focused(view, page'.wide, r)
           /\ shown' = view
           /\ reading' = IF IsReset(view, feed) /\ r.hidden # NoEntry
                         THEN Focused(view, page'.wide, [first EXCEPT !.hidden = NoEntry]) ELSE first
           /\ memory' = [last |-> saved,
                         drawn |-> IF IsReset(view, feed) /\ r.hidden # NoEntry THEN saved ELSE memory.last,
                         viewed |-> IF feed # NoFeed /\ RowOfFeed(feed) \in Group
                                    THEN [memory.viewed EXCEPT ![RowOfFeed(feed)] = feed]
                                    ELSE memory.viewed]
<1>1. PICK kept : kept = memory.last
  OBVIOUS
<1>2. EffectiveScreen(kept)' = ShownFor(screen', feeds'.loaded, page'.groupsReady, page'.order, kept)
  BY DEF EffectiveScreen, ShownFor
<1>3. PICK view, feed, saved, first :
        /\ view = ShownFor(screen', feeds'.loaded, page'.groupsReady, page'.order, kept)
        /\ feed = SelectedFeed(view, feeds'.loaded)
        /\ saved = IF IsSaved(feed, Selected) THEN [kept EXCEPT ![RowOfFeed(feed)] = feed] ELSE kept
        /\ first = Focused(view, page'.wide, r)
  OBVIOUS
<1>4. /\ shown' = view
      /\ reading' = IF IsReset(view, feed) /\ r.hidden # NoEntry
                    THEN Focused(view, page'.wide, [first EXCEPT !.hidden = NoEntry]) ELSE first
      /\ memory' = [last |-> saved,
                    drawn |-> IF IsReset(view, feed) /\ r.hidden # NoEntry THEN saved ELSE kept,
                    viewed |-> IF feed # NoFeed /\ RowOfFeed(feed) \in Group
                               THEN [memory.viewed EXCEPT ![RowOfFeed(feed)] = feed]
                               ELSE memory.viewed]
  BY <1>1, <1>2, <1>3 DEF Render, IsReset, Selected
<1>5. view = ShownFor(screen', feeds'.loaded, page'.groupsReady, page'.order, memory.last)
  BY <1>1, <1>3
<1>6. saved = IF IsSaved(feed, Selected) THEN [memory.last EXCEPT ![RowOfFeed(feed)] = feed] ELSE memory.last
  BY <1>1, <1>3
<1>7. memory' = [last |-> saved,
                 drawn |-> IF IsReset(view, feed) /\ r.hidden # NoEntry THEN saved ELSE memory.last,
                 viewed |-> IF feed # NoFeed /\ RowOfFeed(feed) \in Group
                            THEN [memory.viewed EXCEPT ![RowOfFeed(feed)] = feed]
                            ELSE memory.viewed]
  BY <1>1, <1>4
<1> WITNESS view, feed, saved, first
<1> QED
  BY <1>3, <1>4, <1>5, <1>6, <1>7

LEMMA FirstRow ==
  ASSUME NEW order \in Orders
  PROVE  order # <<>> /\ order[1] \in ToSet(RowOf)
<1>1. PICK T : T = ToSet(RowOf)
  OBVIOUS
<1>2. order \in Seq(T) /\ order # <<>>
  BY <1>1, ShellAssumption
<1> QED
  BY <1>1, <1>2

LEMMA ShownIsScreen ==
  ASSUME NEW s, IsScreen(s), NEW loaded, NEW ready, NEW order \in Orders \cup {<<>>}, NEW remembered
  PROVE  IsScreen(ShownFor(s, loaded, ready, order, remembered))
<1>1. CASE s.kind = "none" /\ loaded /\ ready /\ order # <<>>
  <2>1. PICK feed : feed = pickRowFeed(order[1], remembered)
    OBVIOUS
  <2>2. feed \in Feed
    BY <1>1, <2>1, FirstRow, PickedFeed, FeedsAreFeeds
  <2>3. IsScreen(FeedScreen(feed))
    BY <2>2, FeedIds, ScreensAreScreens DEF EntryOrNone
  <2> QED
    BY <1>1, <2>1, <2>3 DEF ShownFor
<1>2. CASE ~ (s.kind = "none" /\ loaded /\ ready /\ order # <<>>)
  BY <1>2 DEF ShownFor
<1> QED
  BY <1>1, <1>2

LEMMA SelectedIsFeed ==
  ASSUME NEW view, NEW loaded
  PROVE  \/ SelectedFeed(view, loaded) = NoFeed
         \/ /\ loaded /\ view.kind = "feed" /\ SelectedFeed(view, loaded) = view.feed
            /\ view.feed \in Feed /\ view.feed # NoFeed /\ view.feed \in FeedsOf(RowOfFeed(view.feed))
BY FeedIds DEF SelectedFeed, FeedsOf

\* The first row's feed does not change by being saved as the last of its group.
LEMMA SavedIsPicked ==
  ASSUME NEW row \in ToSet(RowOf), NEW last \in [Group -> Kept],
         NEW feed, feed = pickRowFeed(row, last), NEW saved,
         saved = last \/ (RowOfFeed(feed) \in Group /\ saved = [last EXCEPT ![RowOfFeed(feed)] = feed])
  PROVE  pickRowFeed(row, saved) = feed
<1>1. feed \in FeedsOf(row) /\ RowOfFeed(feed) = row
  BY PickedFeed, FeedsAreFeeds
<1>2. CASE saved = last
  BY <1>2
<1>3. CASE RowOfFeed(feed) \in Group /\ saved = [last EXCEPT ![RowOfFeed(feed)] = feed]
  <2>1. row \in Group /\ saved[row] = feed
    BY <1>1, <1>3
  <2> QED
    BY <1>1, <2>1 DEF pickRowFeed
<1> QED
  BY <1>2, <1>3

LEMMA FocusedIs ==
  ASSUME NEW r \in ReadingType, NEW view, NEW wide
  PROVE  LET f == Focused(view, wide, r)
         IN /\ f \in ReadingType /\ f.hidden = r.hidden
            /\ f.focus # NoPanel => Operable(f.focus, view, wide, r.hidden)
<1>1. r.pending \in PanelOrNone /\ NoPanel \in PanelOrNone
  BY DEF ReadingType, PanelOrNone
<1>2. CASE r.pending # NoPanel /\ Operable(r.pending, view, wide, r.hidden)
  <2>1. PICK f : f = [r EXCEPT !.focus = r.pending, !.pending = NoPanel]
    OBVIOUS
  <2>2. f \in ReadingType /\ f.hidden = r.hidden /\ f.focus = r.pending
    BY <1>1, <2>1 DEF ReadingType
  <2>3. Focused(view, wide, r) = f
    BY <1>2, <2>1 DEF Focused
  <2> QED
    BY <1>2, <2>2, <2>3
<1>3. CASE /\ ~ (r.pending # NoPanel /\ Operable(r.pending, view, wide, r.hidden))
           /\ r.focus # NoPanel /\ ~ Operable(r.focus, view, wide, r.hidden)
  <2>1. PICK f : f = [r EXCEPT !.focus = NoPanel]
    OBVIOUS
  <2>2. f \in ReadingType /\ f.hidden = r.hidden /\ f.focus = NoPanel
    BY <1>1, <2>1 DEF ReadingType
  <2>3. Focused(view, wide, r) = f
    BY <1>3, <2>1 DEF Focused
  <2> QED
    BY <2>2, <2>3
<1>4. CASE /\ ~ (r.pending # NoPanel /\ Operable(r.pending, view, wide, r.hidden))
           /\ ~ (r.focus # NoPanel /\ ~ Operable(r.focus, view, wide, r.hidden))
  <2>1. Focused(view, wide, r) = r
    BY <1>4 DEF Focused
  <2> QED
    BY <1>4, <2>1
<1> QED
  BY <1>2, <1>3, <1>4

\* A render leaves every part of the invariant true.
LEMMA RenderStep ==
  ASSUME ShellInv, NEW r \in ReadingType, Render(r),
         IsScreen(screen'), page' \in PageType, hash' \in Seq(Segment), steps' \in Nat
  PROVE  ShellInv'
<1>1. ShellTypeOK /\ FirstIsShown /\ LastViewed /\ FocusIsThere
  BY DEF ShellInv
<1>2. PICK view, feed, saved, first :
        /\ view = ShownFor(screen', feeds'.loaded, page'.groupsReady, page'.order, memory.last)
        /\ feed = SelectedFeed(view, feeds'.loaded)
        /\ saved = IF IsSaved(feed, Selected) THEN [memory.last EXCEPT ![RowOfFeed(feed)] = feed]
                                              ELSE memory.last
        /\ first = Focused(view, page'.wide, r)
        /\ shown' = view
        /\ reading' = IF IsReset(view, feed) /\ r.hidden # NoEntry
                      THEN Focused(view, page'.wide, [first EXCEPT !.hidden = NoEntry]) ELSE first
        /\ memory' = [last |-> saved,
                      drawn |-> IF IsReset(view, feed) /\ r.hidden # NoEntry THEN saved ELSE memory.last,
                      viewed |-> IF feed # NoFeed /\ RowOfFeed(feed) \in Group
                                 THEN [memory.viewed EXCEPT ![RowOfFeed(feed)] = feed]
                                 ELSE memory.viewed]
  BY RenderIs
<1>3. /\ memory.last \in [Group -> Kept] /\ memory.drawn \in [Group -> Kept]
      /\ memory.viewed \in [Group -> FeedOrNone]
  BY <1>1 DEF ShellTypeOK, MemoryType
<1>4. \/ feed = NoFeed
      \/ feed # NoFeed /\ feed \in Feed /\ feed \in FeedsOf(RowOfFeed(feed)) /\ feed = view.feed /\ view.kind = "feed"
  BY <1>2, SelectedIsFeed
<1>5. feed \in FeedOrNone /\ feed \in Kept
  BY <1>4 DEF FeedOrNone, Kept
<1>6. saved = memory.last \/ (RowOfFeed(feed) \in Group /\ saved = [memory.last EXCEPT ![RowOfFeed(feed)] = feed])
  BY <1>2 DEF IsSaved
<1>7. saved \in [Group -> Kept]
  BY <1>3, <1>5, <1>6
<1>8. PICK viewed \in [Group -> FeedOrNone] :
        viewed = IF feed # NoFeed /\ RowOfFeed(feed) \in Group
                 THEN [memory.viewed EXCEPT ![RowOfFeed(feed)] = feed] ELSE memory.viewed
  BY <1>3, <1>5
<1>9. PICK drawn \in [Group -> Kept] :
        drawn = IF IsReset(view, feed) /\ r.hidden # NoEntry THEN saved ELSE memory.last
  BY <1>3, <1>7
<1>10. memory' = [last |-> saved, drawn |-> drawn, viewed |-> viewed]
  BY <1>2, <1>8, <1>9
<1>11. memory' \in MemoryType /\ memory'.last = saved /\ memory'.drawn = drawn /\ memory'.viewed = viewed
  BY <1>7, <1>8, <1>9, <1>10 DEF MemoryType
<1>12. reading' \in ReadingType /\ FocusIsThere'
  <2>1. first \in ReadingType /\ first.hidden = r.hidden
        /\ (first.focus # NoPanel => Operable(first.focus, view, page'.wide, first.hidden))
    BY <1>2, FocusedIs
  <2>2. PICK next : next = [first EXCEPT !.hidden = NoEntry]
    OBVIOUS
  <2>3. next \in ReadingType /\ next.hidden = NoEntry
    BY <2>1, <2>2 DEF ReadingType, EntryOrNone
  <2>4. PICK second : second = Focused(view, page'.wide, next)
    OBVIOUS
  <2>5. second \in ReadingType /\ second.hidden = next.hidden
        /\ (second.focus # NoPanel => Operable(second.focus, view, page'.wide, second.hidden))
    BY <2>3, <2>4, FocusedIs
  <2>6. reading' = first \/ reading' = second
    BY <1>2, <2>2, <2>4
  <2>7. reading' \in ReadingType
        /\ (reading'.focus # NoPanel => Operable(reading'.focus, shown', page'.wide, reading'.hidden))
    BY <1>2, <2>1, <2>5, <2>6
  <2> QED
    BY <2>7 DEF FocusIsThere, Operable, DetailHidden
<1>13. FirstIsShown'
  <2>1. shown' = ShownFor(screen', feeds'.loaded, page'.groupsReady, page'.order, saved)
    <3>1. CASE screen'.kind = "none" /\ feeds'.loaded /\ page'.groupsReady /\ page'.order # <<>>
      <4>1. PICK row : row = page'.order[1]
        OBVIOUS
      <4>2. row \in ToSet(RowOf)
        BY <3>1, <4>1, FirstRow DEF PageType
      <4>3. PICK f : f = pickRowFeed(row, memory.last)
        OBVIOUS
      <4>4. view = FeedScreen(f)
        BY <1>2, <3>1, <4>1, <4>3 DEF ShownFor
      <4>5. f \in Feed
        BY <4>2, <4>3, PickedFeed, FeedsAreFeeds
      <4>6. view.kind = "feed" /\ view.feed = f
        BY <4>4 DEF FeedScreen, NoScreen
      <4>7. feed = f
        BY <1>2, <3>1, <4>5, <4>6 DEF SelectedFeed
      <4>8. pickRowFeed(row, saved) = f
        BY <1>3, <1>6, <4>2, <4>3, <4>7, SavedIsPicked
      <4> QED
        BY <1>2, <3>1, <4>1, <4>4, <4>8 DEF ShownFor
    <3>2. CASE ~ (screen'.kind = "none" /\ feeds'.loaded /\ page'.groupsReady /\ page'.order # <<>>)
      BY <1>2, <3>2 DEF ShownFor
    <3> QED
      BY <3>1, <3>2
  <2>2. FirstIsShown' <=>
          shown' = ShownFor(screen', feeds'.loaded, page'.groupsReady, page'.order, memory'.last)
    BY DEF FirstIsShown, EffectiveScreen, ShownFor
  <2> QED
    BY <1>11, <2>1, <2>2
<1>14. LastViewed'
  <2>1. Selected' = feed
    BY <1>2 DEF Selected, SelectedFeed
  <2>2. feed # NoFeed /\ RowOfFeed(feed) \in Group => saved[RowOfFeed(feed)] = feed
    <3>1. CASE feed # Selected /\ feed # NoFeed /\ RowOfFeed(feed) \in Group
      <4>1. saved = [memory.last EXCEPT ![RowOfFeed(feed)] = feed]
        BY <1>2, <3>1 DEF IsSaved
      <4> QED
        BY <1>3, <3>1, <4>1
    <3>2. CASE feed = Selected /\ feed # NoFeed /\ RowOfFeed(feed) \in Group
      <4>1. saved = memory.last
        BY <1>2, <3>2 DEF IsSaved
      <4>2. memory.viewed[RowOfFeed(feed)] = feed
        BY <1>1, <3>2 DEF LastViewed
      <4> QED
        BY <1>1, <3>2, <4>1, <4>2 DEF LastViewed, IsKept
    <3> QED
      BY <3>1, <3>2
  <2>3. feed # NoFeed /\ RowOfFeed(feed) \in Group => viewed[RowOfFeed(feed)] = feed
    BY <1>3, <1>8
  <2>4. ASSUME NEW g \in Group, viewed[g] # NoFeed
        PROVE  /\ viewed[g] \in FeedsOf(g) /\ saved[g] = viewed[g]
               /\ (feed # NoFeed => RowOfFeed(feed) # g) => drawn[g] = viewed[g]
    <3>1. CASE feed # NoFeed /\ RowOfFeed(feed) = g
      BY <1>4, <2>2, <2>3, <3>1
    <3>2. CASE ~ (feed # NoFeed /\ RowOfFeed(feed) = g)
      <4>1. viewed[g] = memory.viewed[g]
        BY <1>3, <1>8, <3>2
      <4>2. saved[g] = memory.last[g]
        <5>1. CASE feed = NoFeed
          BY <1>2, <5>1 DEF IsSaved
        <5>2. CASE RowOfFeed(feed) # g
          BY <1>3, <1>6, <5>2
        <5> QED
          BY <3>2, <5>1, <5>2
      <4>3. drawn[g] = memory.last[g]
        BY <1>9, <4>2
      <4> QED
        BY <1>1, <2>4, <4>1, <4>2, <4>3 DEF LastViewed, IsKept
    <3> QED
      BY <3>1, <3>2
  <2>5. \A g \in Group : IsKept(g)'
    BY <1>11, <2>1, <2>4 DEF IsKept
  <2> QED
    BY <1>11, <2>1, <2>3, <2>5 DEF LastViewed
<1> QED
  BY <1>11, <1>12, <1>13, <1>14 DEF ShellInv, ShellTypeOK

\* What leaves the screen only has to leave a focus that can be.
LEMMA QuietStep ==
  ASSUME ShellInv, UNCHANGED <<screen, shown, page, memory>>, feeds'.loaded = feeds.loaded,
         hash' \in Seq(Segment), steps' \in Nat, reading' \in ReadingType,
         reading'.focus # NoPanel => Operable(reading'.focus, shown, page.wide, reading'.hidden)
  PROVE  ShellInv'
<1>1. ShellTypeOK /\ FirstIsShown /\ LastViewed
  BY DEF ShellInv
<1>2. ShellTypeOK'
  BY <1>1 DEF ShellTypeOK, IsScreen
<1>3. FirstIsShown'
  BY <1>1 DEF FirstIsShown, EffectiveScreen
<1>4. LastViewed'
  BY <1>1 DEF LastViewed, IsKept, Selected, SelectedFeed
<1>5. FocusIsThere'
  BY DEF FocusIsThere, Operable, DetailHidden
<1> QED
  BY <1>2, <1>3, <1>4, <1>5 DEF ShellInv

LEMMA ShellTypes ==
  ASSUME ShellInv
  PROVE  /\ hash \in Seq(Segment) /\ IsScreen(screen) /\ IsScreen(shown) /\ steps \in Nat
         /\ page \in PageType /\ page.order \in Orders \cup {<<>>} /\ page.wide \in BOOLEAN
         /\ reading \in ReadingType /\ memory \in MemoryType
<1>1. ShellTypeOK /\ FirstIsShown
  BY DEF ShellInv
<1>2. page.order \in Orders \cup {<<>>} /\ page.wide \in BOOLEAN
  BY <1>1 DEF ShellTypeOK, PageType
<1>3. shown = ShownFor(screen, feeds.loaded, page.groupsReady, page.order, memory.last)
  BY <1>1, EffectiveIs DEF FirstIsShown
<1>4. IsScreen(screen)
  BY <1>1 DEF ShellTypeOK
<1>5. IsScreen(shown)
  BY <1>2, <1>3, <1>4, ShownIsScreen
<1> QED
  BY <1>1, <1>2, <1>4, <1>5 DEF ShellTypeOK

LEMMA PanelTypes ==
  /\ "feeds" \in PanelOrNone /\ "entries" \in PanelOrNone /\ "detail" \in PanelOrNone
  /\ NoPanel \in PanelOrNone /\ NoEntry \in EntryOrNone
  /\ \A panel \in Panel : panel \in PanelOrNone /\ panel # NoPanel
BY DEF PanelOrNone, Panel, NoPanel, EntryOrNone

\* Lists, answers and the hash reach the page.
LEMMA ReceivingStep ==
  ASSUME ShellInv, HashChange \/ refreshGroups \/ ReceiveOrder \/ AnswerSave \/ ReceiveListOfFeeds
  PROVE  ShellInv'
<1>1. /\ hash \in Seq(Segment) /\ IsScreen(screen) /\ steps \in Nat
      /\ page \in PageType /\ reading \in ReadingType
  BY ShellTypes
<1>2. CASE HashChange
  <2>1. IsScreen(screen')
    BY <1>1, <1>2, ScreenOfHash DEF HashChange
  <2> QED
    BY <1>1, <1>2, <2>1, RenderStep DEF HashChange
<1>3. CASE refreshGroups
  <2>1. page' = [page EXCEPT !.groupsReady = TRUE]
    BY <1>3 DEF refreshGroups
  <2>2. page' \in PageType
    BY <1>1, <2>1 DEF PageType
  <2> QED
    BY <1>1, <1>3, <2>2, RenderStep DEF refreshGroups, IsScreen
<1>4. CASE ReceiveOrder
  <2>1. PICK o \in Orders : page' = [page EXCEPT !.order = o]
    BY <1>4 DEF ReceiveOrder
  <2>2. page' \in PageType
    BY <1>1, <2>1 DEF PageType
  <2> QED
    BY <1>1, <1>4, <2>2, RenderStep DEF ReceiveOrder, IsScreen
<1>5. CASE AnswerSave
  <2>1. PICK o \in Orders : page' = [page EXCEPT !.order = o, !.saving = FALSE]
    BY <1>5 DEF AnswerSave
  <2>2. page' \in PageType
    BY <1>1, <2>1 DEF PageType
  <2> QED
    BY <1>1, <1>5, <2>2, RenderStep DEF AnswerSave, IsScreen
<1>6. CASE ReceiveListOfFeeds
  BY <1>1, <1>6, RenderStep DEF ReceiveListOfFeeds, IsScreen
<1> QED
  BY <1>2, <1>3, <1>4, <1>5, <1>6

\* A link is followed from a panel that can have the focus.
LEMMA FollowStep ==
  ASSUME ShellInv, NEW target, IsScreen(target), NEW panel \in Panel, Follow(target, panel),
         Operable(panel, shown, page.wide, reading.hidden),
         UNCHANGED listVars, steps' \in Nat
  PROVE  ShellInv'
<1>1. reading \in ReadingType
  BY ShellTypes
<1>2. hash' \in Seq(Segment)
  BY HashOfScreen DEF Follow
<1>3. reading' = [reading EXCEPT !.focus = panel]
  BY DEF Follow
<1>4. reading' \in ReadingType /\ reading'.focus = panel /\ reading'.hidden = reading.hidden
  BY <1>1, <1>3, PanelTypes DEF ReadingType
<1>5. feeds'.loaded = feeds.loaded
  BY DEF listVars
<1> QED
  BY <1>2, <1>4, <1>5, QuietStep DEF Follow

LEMMA ListOfEntries ==
  ASSUME ShellInv, NEW entry \in EntryOrNone, shown.kind \in {"bookmarks", "feed"}
  PROVE  IsScreen([shown EXCEPT !.entry = entry])
BY ShellTypes DEF IsScreen

LEMMA LinkStep ==
  ASSUME ShellInv, OpenOther \/ ChooseVariant \/ (\E row \in ToSet(RowOf) : OpenRow(row))
  PROVE  ShellInv'
<1>1. steps \in Nat
  BY ShellTypes
<1>2. UNCHANGED listVars /\ steps' \in Nat
  BY <1>1 DEF OpenOther, ChooseVariant, OpenRow, Step
<1>3. "feeds" \in Panel /\ "entries" \in Panel /\ Operable("feeds", shown, page.wide, reading.hidden)
  BY DEF Panel, Operable
<1>4. CASE OpenOther
  <2>1. PICK other \in {AdminScreen, BookmarksScreen} : Follow(other, "feeds")
    BY <1>4 DEF OpenOther
  <2>2. IsScreen(AdminScreen) /\ IsScreen(BookmarksScreen)
    <3>1. NoFeed \in Seq(Segment) /\ NoEntry \in EntryOrNone
      BY DEF NoFeed, EntryOrNone
    <3> QED
      BY <3>1 DEF IsScreen, AdminScreen, BookmarksScreen, NoScreen
  <2> QED
    BY <1>2, <1>3, <2>1, <2>2, FollowStep
<1>5. ASSUME NEW feed \in Feed PROVE IsScreen(FeedScreen(feed))
  BY FeedIds, ScreensAreScreens DEF EntryOrNone
<1>6. ASSUME NEW row \in ToSet(RowOf), OpenRow(row) PROVE ShellInv'
  <2>1. PICK feed : feed = pickRowFeed(row, memory.drawn)
    OBVIOUS
  <2>2. feed \in Feed
    BY <2>1, PickedFeed, FeedsAreFeeds
  <2>3. Follow(FeedScreen(feed), "feeds")
    BY <1>6, <2>1 DEF OpenRow
  <2> QED
    BY <1>2, <1>3, <1>5, <2>2, <2>3, FollowStep
<1>7. CASE ChooseVariant
  <2>1. PICK feed : feed = SelectedFeed(shown, feeds.loaded)
    OBVIOUS
  <2>2. PICK target \in FeedsOf(RowOfFeed(feed)) : Follow(FeedScreen(target), "entries")
    BY <1>7, <2>1 DEF ChooseVariant
  <2>3. target \in Feed
    BY <2>2, FeedsAreFeeds
  <2>4. Operable("entries", shown, page.wide, reading.hidden)
    BY <1>7 DEF ChooseVariant
  <2> QED
    BY <1>2, <1>3, <1>5, <2>2, <2>3, <2>4, FollowStep
<1> QED
  BY <1>4, <1>6, <1>7

LEMMA AddressStep ==
  ASSUME ShellInv, Address \/ FocusPanel \/ closeEntry
  PROVE  ShellInv'
<1>1. /\ hash \in Seq(Segment) /\ IsScreen(shown) /\ steps \in Nat /\ reading \in ReadingType
      /\ reading.focus # NoPanel => Operable(reading.focus, shown, page.wide, reading.hidden)
  BY ShellTypes DEF ShellInv, FocusIsThere
<1>2. steps' \in Nat /\ feeds'.loaded = feeds.loaded
  BY <1>1 DEF Address, FocusPanel, closeEntry, Step, listVars
<1>3. CASE Address
  <2>1. hash' \in Seq(STRING)
    BY <1>3, ShellAssumption DEF Address
  <2>2. hash' \in Seq(Segment)
    BY <2>1, Segments
  <2> QED
    BY <1>1, <1>2, <1>3, <2>2, QuietStep DEF Address
<1>4. CASE FocusPanel
  <2>1. PICK panel \in {NoPanel} \cup {p \in Panel : Operable(p, shown, page.wide, reading.hidden)} :
          reading' = [reading EXCEPT !.focus = panel]
    BY <1>4 DEF FocusPanel
  <2>2. panel \in PanelOrNone /\ (panel # NoPanel => Operable(panel, shown, page.wide, reading.hidden))
    BY <2>1 DEF PanelOrNone
  <2>3. reading' \in ReadingType /\ reading'.focus = panel /\ reading'.hidden = reading.hidden
    BY <1>1, <2>1, <2>2 DEF ReadingType
  <2> QED
    BY <1>1, <1>2, <1>4, <2>2, <2>3, QuietStep DEF FocusPanel
<1>5. CASE closeEntry
  <2>1. Operable("detail", shown, page.wide, reading.hidden)
    BY <1>5 DEF closeEntry
  <2>2. reading' = [reading EXCEPT !.pending = NoPanel, !.focus = "detail"]
    BY <1>5 DEF closeEntry
  <2>3. reading' \in ReadingType /\ reading'.focus = "detail" /\ reading'.hidden = reading.hidden
    BY <1>1, <2>2, PanelTypes DEF ReadingType
  <2>4. shown.kind \in {"bookmarks", "feed"}
    BY <1>1, <2>1 DEF IsScreen, Operable
  <2>5. IsScreen([shown EXCEPT !.entry = NoEntry])
    BY <2>4, PanelTypes, ListOfEntries
  <2>6. hash' \in Seq(Segment)
    BY <1>5, <2>5, HashOfScreen DEF closeEntry
  <2> QED
    BY <1>2, <1>5, <2>1, <2>3, <2>6, QuietStep DEF closeEntry
<1> QED
  BY <1>3, <1>4, <1>5

LEMMA EntryStep ==
  ASSUME ShellInv, NEW entry \in Entry, selectEntry(entry)
  PROVE  ShellInv'
<1>1. hash \in Seq(Segment) /\ IsScreen(screen) /\ steps \in Nat /\ page \in PageType
  BY ShellTypes
<1>2. PICK r : r = [hidden |-> NoEntry, pending |-> "detail", focus |-> "entries"]
  OBVIOUS
<1>3. r \in ReadingType
  BY <1>2, PanelTypes DEF ReadingType
<1>4. shown.kind \in {"bookmarks", "feed"}
  BY DEF selectEntry, SelectedFeed
<1>5. IsScreen([shown EXCEPT !.entry = entry])
  BY <1>4, ListOfEntries DEF EntryOrNone
<1>6. hash' = makeScreenHash([shown EXCEPT !.entry = entry]) \/ hash' = hash
  BY DEF selectEntry
<1>7. hash' \in Seq(Segment)
  BY <1>1, <1>5, <1>6, HashOfScreen
<1>8. Render(r) /\ UNCHANGED <<screen, page>> /\ steps' \in Nat
  BY <1>1, <1>2 DEF selectEntry, Step
<1> QED
  BY <1>1, <1>3, <1>7, <1>8, RenderStep DEF IsScreen

LEMMA ResizeStep ==
  ASSUME ShellInv, Resize
  PROVE  ShellInv'
<1>1. /\ hash \in Seq(Segment) /\ IsScreen(screen) /\ steps \in Nat /\ page \in PageType
      /\ reading \in ReadingType
  BY ShellTypes
<1>2. page' = [page EXCEPT !.wide = ~ page.wide]
  BY DEF Resize
<1>3. page' \in PageType
  BY <1>1, <1>2 DEF PageType
<1>4. Render(reading) /\ UNCHANGED <<screen, hash>> /\ steps' \in Nat
  BY <1>1 DEF Resize, Step
<1> QED
  BY <1>1, <1>3, <1>4, RenderStep DEF IsScreen

LEMMA SaveOrderStep ==
  ASSUME ShellInv, SaveOrder
  PROVE  ShellInv'
<1>1. /\ hash \in Seq(Segment) /\ IsScreen(screen) /\ IsScreen(shown) /\ steps \in Nat
      /\ page \in PageType /\ reading \in ReadingType
  BY ShellTypes
<1>2. PICK o \in Orders : page' = [page EXCEPT !.order = o, !.saving = TRUE]
  BY DEF SaveOrder
<1>3. page' \in PageType
  BY <1>1, <1>2 DEF PageType
<1>4. screen' = screen \/ screen' = shown
  BY DEF SaveOrder, Frozen
<1>5. IsScreen(screen')
  BY <1>1, <1>4
<1>6. hash' \in Seq(Segment)
  BY <1>1, <1>5, HashOfScreen DEF SaveOrder
<1>7. PICK r : r = [reading EXCEPT !.focus = "feeds"]
  OBVIOUS
<1>8. r \in ReadingType
  BY <1>1, <1>7, PanelTypes DEF ReadingType
<1>9. Render(r) /\ steps' \in Nat
  BY <1>1, <1>7 DEF SaveOrder, Step
<1> QED
  BY <1>3, <1>5, <1>6, <1>8, <1>9, RenderStep

LEMMA PanelStep ==
  ASSUME ShellInv, NEW panel \in Panel, moveToPanel(panel)
  PROVE  ShellInv'
<1>1. /\ hash \in Seq(Segment) /\ IsScreen(screen) /\ IsScreen(shown) /\ steps \in Nat
      /\ page \in PageType /\ reading \in ReadingType
      /\ reading.focus # NoPanel => Operable(reading.focus, shown, page.wide, reading.hidden)
  BY ShellTypes DEF ShellInv, FocusIsThere
<1>2. UNCHANGED <<screen, page, hash>> /\ steps' \in Nat /\ feeds'.loaded = feeds.loaded
  BY <1>1 DEF moveToPanel, Step, listVars
<1>3. ASSUME NEW r \in ReadingType, Render(r) PROVE ShellInv'
  BY <1>1, <1>2, <1>3, RenderStep DEF IsScreen
<1>4. PICK r1, r2 : /\ r1 = [reading EXCEPT !.pending = "detail", !.hidden = NoEntry]
                    /\ r2 = [reading EXCEPT !.pending = PanelAfterHiding, !.hidden = shown.entry]
  OBVIOUS
<1>5. r1 \in ReadingType /\ r2 \in ReadingType
  <2>1. shown.entry \in EntryOrNone
    BY <1>1 DEF IsScreen
  <2> QED
    BY <1>1, <1>4, <2>1, PanelTypes DEF ReadingType, PanelAfterHiding
<1>6. \/ Render(r1) \/ Render(r2)
      \/ /\ reading' = IF Operable(panel, shown, page.wide, reading.hidden)
                       THEN [reading EXCEPT !.focus = panel] ELSE reading
         /\ UNCHANGED <<shown, memory>>
  BY <1>4 DEF moveToPanel
<1>7. CASE /\ reading' = IF Operable(panel, shown, page.wide, reading.hidden)
                         THEN [reading EXCEPT !.focus = panel] ELSE reading
           /\ UNCHANGED <<shown, memory>>
  <2>1. panel \in PanelOrNone
    BY PanelTypes
  <2>2. CASE Operable(panel, shown, page.wide, reading.hidden)
    <3>1. reading' = [reading EXCEPT !.focus = panel]
      BY <1>7, <2>2
    <3>2. reading' \in ReadingType /\ reading'.focus = panel /\ reading'.hidden = reading.hidden
      BY <1>1, <2>1, <3>1 DEF ReadingType
    <3> QED
      BY <1>1, <1>2, <1>7, <2>2, <3>2, QuietStep
  <2>3. CASE ~ Operable(panel, shown, page.wide, reading.hidden)
    BY <1>1, <1>2, <1>7, <2>3, QuietStep
  <2> QED
    BY <2>2, <2>3
<1> QED
  BY <1>3, <1>5, <1>6, <1>7

LEMMA ShellStep ==
  ASSUME ShellInv, [Next]_vars
  PROVE  ShellInv'
<1>1. CASE UNCHANGED shellVars /\ feeds'.loaded = feeds.loaded
  <2>1. /\ hash \in Seq(Segment) /\ steps \in Nat /\ reading \in ReadingType
        /\ reading.focus # NoPanel => Operable(reading.focus, shown, page.wide, reading.hidden)
    BY ShellTypes DEF ShellInv, FocusIsThere
  <2> QED
    BY <1>1, <2>1, QuietStep DEF shellVars
<1>2. CASE UNCHANGED vars
  BY <1>1, <1>2 DEF vars, listVars
<1>3. CASE ListRest /\ UNCHANGED shellVars
  <2>1. feeds' = feeds
    BY <1>3 DEF ListRest, StartAttempt, EndAttempt, Patch, MountTable, UnmountTable, RetryTable,
                refreshFeeds, ServeList, ServeTable, ReceiveSnapshot, FailSnapshot, FailFeeds
  <2> QED
    BY <1>1, <1>3, <2>1
<1>4. CASE UserNext
  BY <1>4, ReceivingStep, LinkStep, AddressStep, EntryStep, ResizeStep, SaveOrderStep, PanelStep DEF UserNext
<1>5. CASE ReceiveListOfFeeds
  BY <1>5, ReceivingStep
<1> QED
  BY <1>2, <1>3, <1>4, <1>5 DEF Next

LEMMA ShellStarts ==
  ASSUME Init
  PROVE  ShellInv
<1>1. hash \in Seq(STRING) /\ screen = readScreenFromHash(hash) /\ shown = screen
  BY ShellAssumption DEF Init
<1>2. hash \in Seq(Segment)
  BY <1>1, Segments
<1>3. IsScreen(screen)
  BY <1>1, <1>2, ScreenOfHash
<1>4. ~ feeds.loaded
  BY DEF Init, ListInit, NoFeeds
<1>5. PICK wide \in BOOLEAN, kept \in [Group -> Remembered] :
        /\ page = [groupsReady |-> events = 0, order |-> IF events = 0 THEN CHOOSE o \in Orders : TRUE ELSE <<>>,
                   saving |-> FALSE, wide |-> wide]
        /\ memory = [last |-> kept, drawn |-> kept, viewed |-> [g \in Group |-> NoFeed]]
  BY DEF Init
<1>6. page \in PageType
  <2>1. PICK order \in Orders \cup {<<>>} : order = IF events = 0 THEN CHOOSE o \in Orders : TRUE ELSE <<>>
    BY ShellAssumption
  <2>2. PICK ready \in BOOLEAN : ready <=> events = 0
    BY Zenon
  <2>3. page = [groupsReady |-> ready, order |-> order, saving |-> FALSE, wide |-> wide]
    BY <1>5, <2>1, <2>2
  <2> QED
    BY <2>3 DEF PageType
<1>7. PICK viewed \in [Group -> FeedOrNone] : viewed = [g \in Group |-> NoFeed]
  BY DEF FeedOrNone
<1>8. kept \in [Group -> Kept]
  BY DEF Kept
<1>9. memory \in MemoryType /\ \A g \in Group : memory.viewed[g] = NoFeed
  BY <1>5, <1>7, <1>8 DEF MemoryType
<1>10. reading \in ReadingType /\ reading.focus = NoPanel
  BY PanelTypes DEF Init, ReadingType
<1>11. steps \in Nat
  BY ShellAssumption DEF Init
<1>12. ShellTypeOK
  BY <1>2, <1>3, <1>6, <1>9, <1>10, <1>11 DEF ShellTypeOK
<1>13. FirstIsShown
  BY <1>1, <1>4 DEF FirstIsShown, EffectiveScreen
<1>14. LastViewed
  BY <1>4, <1>9 DEF LastViewed, IsKept, Selected, SelectedFeed
<1>15. FocusIsThere
  BY <1>10 DEF FocusIsThere
<1> QED
  BY <1>12, <1>13, <1>14, <1>15 DEF ShellInv

LEMMA ShellIsInvariant == Spec => []ShellInv
<1>1. Init => ShellInv
  BY ShellStarts
<1>2. ShellInv /\ [Next]_vars => ShellInv'
  BY ShellStep
<1> QED
  BY <1>1, <1>2, PTL DEF Spec

\* However feeds are named, lists arrive and feeds are chosen, a list's links and a reload
\* lead to the screen they were made for, and a group's row to the feed of the group viewed
\* last (screen-route.ts, feed-group.ts, app.tsx).
THEOREM LinksLeadThere == Spec => []LinksLead
<1>1. ASSUME ShellInv
      PROVE  LinksLead
  <2>1. IsScreen(shown) /\ LastViewed
    BY <1>1, ShellTypes DEF ShellInv
  <2>2. LinksReadBack
    <3>1. SUFFICES ASSUME shown.kind = "bookmarks" \/ (shown.kind = "feed" /\ shown.feed \in Feed),
                          NEW entry \in EntryOrNone,
                          NEW target, target = [shown EXCEPT !.entry = entry]
                   PROVE  readScreenFromHash(makeScreenHash(target)) = target
      BY DEF LinksReadBack, EntryOrNone
    <3>2. IsScreen(target)
      BY <1>1, <3>1, ListOfEntries
    <3>3. target.kind = shown.kind /\ target.feed = shown.feed
      BY <2>1, <3>1 DEF IsScreen
    <3> QED
      BY <3>1, <3>2, <3>3, HashNamesScreen
  <2>3. GroupRowOpensLastViewed
    <3>1. SUFFICES ASSUME NEW g \in Group, memory.viewed[g] # NoFeed, Selected # NoFeed => RowOfFeed(Selected) # g
                   PROVE  pickRowFeed(g, memory.drawn) = memory.viewed[g]
      BY DEF GroupRowOpensLastViewed, Selected
    <3>2. memory.viewed[g] \in FeedsOf(g) /\ memory.drawn[g] = memory.viewed[g]
      BY <2>1, <3>1 DEF LastViewed, IsKept
    <3> QED
      BY <3>2 DEF pickRowFeed
  <2> QED
    BY <2>2, <2>3 DEF LinksLead
<1> QED
  BY <1>1, ShellIsInvariant, PTL

LEMMA ScreenAfterRender ==
  ASSUME NEW r, Render(r)
  PROVE  shown' = ShownFor(screen', feeds'.loaded, page'.groupsReady, page'.order, memory.last)
<1>1. PICK kept : kept = memory.last
  OBVIOUS
<1>2. EffectiveScreen(kept)' = ShownFor(screen', feeds'.loaded, page'.groupsReady, page'.order, kept)
  BY DEF EffectiveScreen, ShownFor
<1> QED
  BY <1>1, <1>2 DEF Render

LEMMA LoadedStays ==
  ASSUME ShellInv, Next
  PROVE  feeds.loaded => feeds'.loaded
<1>1. CASE ListRest
  BY <1>1 DEF ListRest, StartAttempt, EndAttempt, Patch, MountTable, UnmountTable, RetryTable,
              refreshFeeds, ServeList, ServeTable, ReceiveSnapshot, FailSnapshot, FailFeeds
<1>2. CASE UserNext
  BY <1>2, UserLeavesList DEF listVars
<1>3. CASE ReceiveListOfFeeds
  BY <1>3 DEF ReceiveListOfFeeds, ReceiveFeeds
<1> QED
  BY <1>1, <1>2, <1>3 DEF Next

\* A step either leaves what is shown or renders it.
LEMMA StepsRender ==
  ASSUME Next
  PROVE  shown' = shown \/ \E r : Render(r)
BY DEF Next, UserNext, ReceiveListOfFeeds, shellVars, HashChange, refreshGroups, ReceiveOrder, AnswerSave,
       OpenOther, ChooseVariant, closeEntry, Address, FocusPanel, Resize, SaveOrder, OpenRow, Follow,
       selectEntry, moveToPanel

\* Whichever list, answer or order reaches the page, the screen that is shown gives way to
\* the one the hash names only (app.tsx).
THEOREM ScreenIsKept == Spec => ScreenStays
<1>1. ASSUME ShellInv, Next, shown.kind # "none", shown' # shown,
             ~ (page.saving /\ ~ page'.saving /\ screen.kind = "none")
      PROVE  screen' # screen /\ screen' = readScreenFromHash(hash)
  <2>1. CASE HashChange
    BY <2>1 DEF HashChange
  <2>2. CASE ~ HashChange
    <3>1. shown = ShownFor(screen, feeds.loaded, page.groupsReady, page.order, memory.last)
      BY <1>1, EffectiveIs DEF ShellInv, FirstIsShown
    <3>2. shown' = ShownFor(screen', feeds'.loaded, page'.groupsReady, page'.order, memory.last)
      BY <1>1, StepsRender, ScreenAfterRender
    <3>3. feeds.loaded => feeds'.loaded
      BY <1>1, LoadedStays
    <3>4. CASE screen.kind # "none"
      <4>1. screen' = screen
        BY <1>1, <2>2, <3>4 DEF Next, UserNext, ReceiveListOfFeeds, shellVars, refreshGroups, ReceiveOrder,
              AnswerSave, OpenOther, ChooseVariant, closeEntry, Address, FocusPanel, Resize, SaveOrder,
              Frozen, OpenRow, Follow, selectEntry, moveToPanel
      <4> QED
        BY <1>1, <3>1, <3>2, <3>4, <4>1 DEF ShownFor
    <3>5. CASE screen.kind = "none"
      <4>1. /\ feeds.loaded /\ page.groupsReady /\ page.order # <<>>
        BY <1>1, <3>1, <3>5 DEF ShownFor
      <4>2. CASE SaveOrder
        <5>1. screen' = shown
          BY <3>5, <4>2 DEF SaveOrder, Frozen
        <5> QED
          BY <1>1, <3>2, <5>1 DEF ShownFor
      <4>3. CASE ~ SaveOrder
        <5>1. screen' = screen
          BY <1>1, <2>2, <4>3 DEF Next, UserNext, ReceiveListOfFeeds, shellVars, refreshGroups, ReceiveOrder,
                AnswerSave, OpenOther, ChooseVariant, closeEntry, Address, FocusPanel, Resize, OpenRow, Follow,
                selectEntry, moveToPanel
        <5>2. page'.groupsReady /\ page'.order = page.order
          <6>1. page \in PageType
            BY <1>1, ShellTypes
          <6>2. CASE AnswerSave
            <7>1. PICK o \in Orders : page.saving /\ page' = [page EXCEPT !.order = o, !.saving = FALSE]
              BY <6>2 DEF AnswerSave
            <7>2. ~ page'.saving
              BY <6>1, <7>1 DEF PageType
            <7> QED
              BY <1>1, <3>5, <7>1, <7>2
          <6>3. CASE Resize
            <7>1. page' = [page EXCEPT !.wide = ~ page.wide]
              BY <6>3 DEF Resize
            <7> QED
              BY <4>1, <6>1, <7>1 DEF PageType
          <6>4. CASE ~ AnswerSave /\ ~ Resize
            <7>1. ~ refreshGroups /\ ~ ReceiveOrder
              BY <4>1 DEF refreshGroups, ReceiveOrder
            <7>2. page' = page
              BY <1>1, <2>2, <4>3, <6>4, <7>1 DEF Next, UserNext, ReceiveListOfFeeds, shellVars, OpenOther,
                    ChooseVariant, closeEntry, Address, FocusPanel, OpenRow, Follow, selectEntry, moveToPanel
            <7> QED
              BY <4>1, <7>2
          <6> QED
            BY <6>2, <6>3, <6>4
        <5> QED
          BY <1>1, <3>1, <3>2, <3>3, <4>1, <5>1, <5>2
      <4> QED
        BY <4>2, <4>3
    <3> QED
      BY <3>4, <3>5
  <2> QED
    BY <2>1, <2>2
<1>2. ASSUME ShellInv, [Next]_vars
      PROVE  [shown.kind # "none" /\ shown' # shown /\ ~ (page.saving /\ ~ page'.saving /\ screen.kind = "none")
                => screen' # screen /\ screen' = readScreenFromHash(hash)]_vars
  BY <1>1, <1>2
<1> QED
  BY <1>2, ShellIsInvariant, PTL DEF Spec, ScreenStays

LEMMA OperableByEntry ==
  ASSUME NEW panel \in Panel, NEW s, NEW t, NEW wide, NEW hidden,
         s.entry = t.entry, s.kind = "admin" <=> t.kind = "admin"
  PROVE  Operable(panel, s, wide, hidden) <=> Operable(panel, t, wide, hidden)
BY DEF Operable, DetailHidden, Panel

LEMMA OperableWithoutEntry ==
  ASSUME NEW panel \in Panel, NEW s, s.entry = NoEntry, NEW wide, NEW hidden, NEW other
  PROVE  Operable(panel, s, wide, hidden) <=> Operable(panel, s, wide, other)
BY DEF Operable, DetailHidden, Panel

\* A focus that can still be is kept, or goes where it was to go.
LEMMA FocusKept ==
  ASSUME NEW r \in ReadingType, NEW view, NEW wide,
         r.focus # NoPanel, Operable(r.focus, view, wide, r.hidden)
  PROVE  \/ Focused(view, wide, r) = r /\ ~ (r.pending # NoPanel /\ Operable(r.pending, view, wide, r.hidden))
         \/ /\ r.pending # NoPanel /\ Focused(view, wide, r).focus = r.pending
            /\ Focused(view, wide, r).pending = NoPanel
            /\ Operable(r.pending, view, wide, r.hidden)
<1>1. CASE r.pending # NoPanel /\ Operable(r.pending, view, wide, r.hidden)
  <2>1. PICK f : f = [r EXCEPT !.focus = r.pending, !.pending = NoPanel]
    OBVIOUS
  <2>2. f.focus = r.pending /\ f.pending = NoPanel
    BY <2>1 DEF ReadingType
  <2>3. Focused(view, wide, r) = f
    BY <1>1, <2>1 DEF Focused
  <2> QED
    BY <1>1, <2>2, <2>3
<1>2. CASE ~ (r.pending # NoPanel /\ Operable(r.pending, view, wide, r.hidden))
  BY <1>2 DEF Focused
<1> QED
  BY <1>1, <1>2

\* The focus during what the page receives: the list it belongs to is the same, or it is
\* the first row's, without an entry.
LEMMA ReceivedFocus ==
  ASSUME ShellInv, Next, Render(reading), UNCHANGED screen, page'.wide = page.wide,
         feeds.loaded, reading.focus # NoPanel
  PROVE  reading'.focus = reading.focus \/ reading'.focus = reading.pending
<1>1. /\ IsScreen(screen) /\ IsScreen(shown) /\ reading \in ReadingType /\ page \in PageType
      /\ Operable(reading.focus, shown, page.wide, reading.hidden)
  BY ShellTypes DEF ShellInv, FocusIsThere
<1>2. PICK view, feed, first :
        /\ view = ShownFor(screen', feeds'.loaded, page'.groupsReady, page'.order, memory.last)
        /\ feed = SelectedFeed(view, feeds'.loaded)
        /\ first = Focused(view, page'.wide, reading)
        /\ reading' = IF IsReset(view, feed) /\ reading.hidden # NoEntry
                      THEN Focused(view, page'.wide, [first EXCEPT !.hidden = NoEntry]) ELSE first
  BY RenderIs
<1>3. shown = ShownFor(screen, feeds.loaded, page.groupsReady, page.order, memory.last)
  BY EffectiveIs DEF ShellInv, FirstIsShown
<1>4. \A f : FeedScreen(f).entry = NoEntry /\ FeedScreen(f).kind = "feed"
  BY DEF FeedScreen, NoScreen
<1>5. /\ view.entry = shown.entry /\ (view.kind = "admin" <=> shown.kind = "admin")
      /\ view = shown \/ view.entry = NoEntry
  <2>1. screen.kind = "none" => screen.entry = NoEntry
    BY <1>1 DEF IsScreen
  <2> QED
    BY <1>2, <1>3, <1>4, <2>1 DEF ShownFor
<1>6. reading.focus \in Panel /\ (reading.pending # NoPanel => reading.pending \in Panel)
  BY <1>1 DEF ReadingType, PanelOrNone
<1>7. Operable(reading.focus, view, page'.wide, reading.hidden)
  BY <1>1, <1>5, <1>6, OperableByEntry
<1>8. \/ first = reading /\ ~ (reading.pending # NoPanel /\ Operable(reading.pending, view, page'.wide, reading.hidden))
      \/ /\ reading.pending # NoPanel /\ first.focus = reading.pending /\ first.pending = NoPanel
         /\ Operable(reading.pending, view, page'.wide, reading.hidden)
  BY <1>1, <1>2, <1>7, FocusKept
<1>9. CASE reading' = first
  BY <1>8, <1>9
<1>10. CASE reading' # first
  <2>1. IsReset(view, feed) /\ reading' = Focused(view, page'.wide, [first EXCEPT !.hidden = NoEntry])
    BY <1>2, <1>10
  <2>2. feeds'.loaded
    BY LoadedStays
  <2>3. view.entry = NoEntry
    <3>1. CASE view = shown
      <4>1. feed = Selected
        BY <1>2, <2>2, <3>1 DEF Selected, SelectedFeed
      <4> QED
        BY <1>1, <1>5, <2>1, <3>1, <4>1 DEF IsReset
    <3> QED
      BY <1>5, <3>1
  <2>4. PICK next : next = [first EXCEPT !.hidden = NoEntry]
    OBVIOUS
  <2>5. first \in ReadingType
    BY <1>1, <1>2, FocusedIs
  <2>6. next \in ReadingType /\ next.focus = first.focus /\ next.pending = first.pending /\ next.hidden = NoEntry
    BY <2>4, <2>5 DEF ReadingType, EntryOrNone
  <2>7. next.focus # NoPanel /\ Operable(next.focus, view, page'.wide, next.hidden)
    BY <1>6, <1>7, <1>8, <2>3, <2>6, OperableWithoutEntry
  <2>8. ~ (next.pending # NoPanel /\ Operable(next.pending, view, page'.wide, next.hidden))
    BY <1>6, <1>8, <2>3, <2>6, OperableWithoutEntry
  <2>9. Focused(view, page'.wide, next) = next
    BY <2>6, <2>7, <2>8, FocusKept
  <2> QED
    BY <1>8, <2>1, <2>4, <2>6, <2>9
<1> QED
  BY <1>9, <1>10

\* A panel that is to be uncovered has the focus after the render.
LEMMA UncoveredFocus ==
  ASSUME ShellInv, NEW r \in ReadingType, Render(r), UNCHANGED <<screen, page, feeds>>,
         shown.entry # NoEntry, r.pending \in Panel,
         Operable(r.pending, shown, page.wide, r.hidden)
  PROVE  reading'.focus = r.pending
<1>1. IsScreen(screen) /\ IsScreen(shown)
  BY ShellTypes
<1>2. PICK view, feed, first :
        /\ view = ShownFor(screen', feeds'.loaded, page'.groupsReady, page'.order, memory.last)
        /\ feed = SelectedFeed(view, feeds'.loaded)
        /\ first = Focused(view, page'.wide, r)
        /\ reading' = IF IsReset(view, feed) /\ r.hidden # NoEntry
                      THEN Focused(view, page'.wide, [first EXCEPT !.hidden = NoEntry]) ELSE first
  BY RenderIs
<1>3. view = shown
  BY <1>2, EffectiveIs DEF ShellInv, FirstIsShown
<1>4. ~ IsReset(view, feed)
  BY <1>2, <1>3 DEF IsReset, Selected
<1>5. PICK f : f = [r EXCEPT !.focus = r.pending, !.pending = NoPanel]
  OBVIOUS
<1>6. f.focus = r.pending
  BY <1>5 DEF ReadingType
<1>7. r.pending # NoPanel
  BY PanelTypes
<1>8. first = f
  BY <1>2, <1>3, <1>5, <1>7 DEF Focused
<1> QED
  BY <1>2, <1>4, <1>6, <1>8

LEMMA KeyLeads ==
  ASSUME ShellInv, NEW panel \in Panel, moveToPanel(panel)
  PROVE  \/ reading'.focus = panel
         \/ panel = "entries" /\ shown.kind = "admin"
         \/ panel = "detail" /\ shown.entry = NoEntry
<1>1. /\ IsScreen(shown) /\ reading \in ReadingType /\ shown.entry \in EntryOrNone
      /\ (shown.entry # NoEntry => shown.kind # "admin")
  BY ShellTypes DEF IsScreen
<1>2. UNCHANGED <<screen, page, feeds>>
  BY DEF moveToPanel, Step, listVars
<1>3. PICK hides : hides = DetailHidden(shown, page.wide, reading.hidden)
  OBVIOUS
<1>4. CASE panel = "detail" /\ hides
  <2>1. PICK r : r = [reading EXCEPT !.pending = "detail", !.hidden = NoEntry]
    OBVIOUS
  <2>2. r \in ReadingType /\ r.pending = "detail" /\ r.hidden = NoEntry
    BY <1>1, <2>1, PanelTypes DEF ReadingType
  <2>3. shown.entry # NoEntry
    BY <1>3, <1>4 DEF DetailHidden
  <2>4. Operable(r.pending, shown, page.wide, r.hidden) /\ r.pending \in Panel
    BY <2>2, <2>3 DEF Operable, DetailHidden, Panel
  <2>5. Render(r)
    BY <1>3, <1>4, <2>1 DEF moveToPanel
  <2>6. reading'.focus = r.pending
    BY <1>2, <2>2, <2>3, <2>4, <2>5, UncoveredFocus
  <2> QED
    BY <1>4, <2>2, <2>6
<1>5. CASE panel = "entries" /\ ~ page.wide /\ shown.entry # NoEntry /\ ~ hides
  <2>1. PICK r : r = [reading EXCEPT !.pending = "entries", !.hidden = shown.entry]
    OBVIOUS
  <2>2. r \in ReadingType /\ r.pending = "entries" /\ r.hidden = shown.entry
    BY <1>1, <2>1, PanelTypes DEF ReadingType
  <2>3. Operable(r.pending, shown, page.wide, r.hidden) /\ r.pending \in Panel
    BY <1>1, <1>5, <2>2 DEF Operable, DetailHidden, Panel
  <2>4. Render(r)
    BY <1>3, <1>5, <2>1 DEF moveToPanel, PanelAfterHiding
  <2>5. reading'.focus = r.pending
    BY <1>2, <1>5, <2>2, <2>3, <2>4, UncoveredFocus
  <2> QED
    BY <1>5, <2>2, <2>5
<1>6. CASE /\ ~ (panel = "detail" /\ hides)
           /\ ~ (panel = "entries" /\ ~ page.wide /\ shown.entry # NoEntry /\ ~ hides)
  <2>1. reading' = IF Operable(panel, shown, page.wide, reading.hidden)
                   THEN [reading EXCEPT !.focus = panel] ELSE reading
    BY <1>3, <1>6 DEF moveToPanel
  <2>2. CASE Operable(panel, shown, page.wide, reading.hidden)
    <3>1. reading' = [reading EXCEPT !.focus = panel]
      BY <2>1, <2>2
    <3> QED
      BY <1>1, <3>1 DEF ReadingType
  <2>3. CASE ~ Operable(panel, shown, page.wide, reading.hidden)
    BY <1>3, <1>6, <2>3 DEF Operable, Panel
  <2> QED
    BY <2>2, <2>3
<1> QED
  BY <1>4, <1>5, <1>6

\* Once the feeds are there, no list, answer or order that arrives takes the focus away, and
\* a panel's key leads to its panel, covered or not (app.tsx).
THEOREM FocusStays == Spec => FocusIsKept
<1>1. ASSUME ShellInv, Next, feeds.loaded, UNCHANGED <<steps, screen>>, reading.focus # NoPanel
      PROVE  reading'.focus = reading.focus \/ reading'.focus = reading.pending
  <2>1. steps \in Nat /\ page \in PageType
    BY <1>1, ShellTypes
  <2>2. ~ Step
    BY <1>1, <2>1 DEF Step
  <2>3. \/ refreshGroups \/ ReceiveOrder \/ AnswerSave \/ ReceiveListOfFeeds
        \/ UNCHANGED shellVars
    BY <1>1, <2>2 DEF Next, UserNext, HashChange, OpenOther, ChooseVariant, closeEntry, Address, FocusPanel,
          Resize, SaveOrder, OpenRow, selectEntry, moveToPanel
  <2>4. ASSUME page'.wide = page.wide, Render(reading)
        PROVE  reading'.focus = reading.focus \/ reading'.focus = reading.pending
    BY <1>1, <2>4, ReceivedFocus
  <2>5. CASE UNCHANGED shellVars
    BY <2>5 DEF shellVars
  <2>6. CASE refreshGroups
    <3>1. page' = [page EXCEPT !.groupsReady = TRUE] /\ Render(reading)
      BY <2>6 DEF refreshGroups
    <3> QED
      BY <2>1, <2>4, <3>1 DEF PageType
  <2>7. CASE ReceiveOrder
    <3>1. Render(reading) /\ \E o \in Orders : page' = [page EXCEPT !.order = o]
      BY <2>7 DEF ReceiveOrder
    <3> QED
      BY <2>1, <2>4, <3>1 DEF PageType
  <2>8. CASE AnswerSave
    <3>1. Render(reading) /\ \E o \in Orders : page' = [page EXCEPT !.order = o, !.saving = FALSE]
      BY <2>8 DEF AnswerSave
    <3> QED
      BY <2>1, <2>4, <3>1 DEF PageType
  <2>9. CASE ReceiveListOfFeeds
    BY <2>4, <2>9 DEF ReceiveListOfFeeds
  <2> QED
    BY <2>3, <2>5, <2>6, <2>7, <2>8, <2>9
<1>2. ASSUME ShellInv, [Next]_vars
      PROVE  [/\ feeds.loaded /\ UNCHANGED <<steps, screen>> /\ reading.focus # NoPanel
                   => reading'.focus = reading.focus \/ reading'.focus = reading.pending
              /\ \A panel \in Panel : moveToPanel(panel) =>
                   \/ reading'.focus = panel
                   \/ panel = "entries" /\ shown.kind = "admin"
                   \/ panel = "detail" /\ shown.entry = NoEntry]_vars
  BY <1>1, <1>2, KeyLeads
<1> QED
  BY <1>2, ShellIsInvariant, PTL DEF Spec, FocusIsKept
=============================================================================
