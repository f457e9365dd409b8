--------------------------- MODULE EntryStore_proofs ---------------------------
(***************************************************************************)
(* Proofs about EntryStore, for any feeds, batches, limits and bounds: the *)
(* order and the counts of entries, the unread sets, the rank table.       *)
(*                                                                         *)
(* The operators on batches fold over sequences.  The folds are recursive  *)
(* functions over finite sets; what they compute is proved by induction on *)
(* sizes, stated for sets of numbers (SizeInduction).                      *)
(***************************************************************************)
EXTENDS EntryStore, FiniteSetTheorems, NaturalsInduction, TLAPS

(***************************************************************************)
(* The inductive invariant.                                                *)
(***************************************************************************)
Attempts(f) == DOMAIN attempts[f]
StartedAt(f, a) == attempts[f][a].startedAt
EntriesFrom(f, a) == {i \in EntriesOf(f) : entries[i].attempt = a}

\* The attempt in hand is the last of its feed, and it is still running.
JobIsRunning ==
  job # NoJob =>
    /\ job.feed \in Feed /\ Len(attempts[job.feed]) > 0
    /\ attempts[job.feed][AttemptCount(job.feed)].status = "running"

\* Attempts of a feed start one after the other.
AttemptsAreInOrder ==
  \A f \in Feed : \A a \in Attempts(f) :
    /\ StartedAt(f, a) <= clock
    /\ \A b \in Attempts(f) : a < b => StartedAt(f, a) < StartedAt(f, b)

\* An entry was stored between the start of its attempt and that of the next.
EntriesAreDated ==
  \A f \in Feed : \A i \in EntriesOf(f) :
    /\ entries[i].attempt \in Attempts(f)
    /\ StartedAt(f, entries[i].attempt) < entries[i].firstSeenAt
    /\ entries[i].firstSeenAt <= clock
    /\ \A b \in Attempts(f) :
         entries[i].attempt < b => entries[i].firstSeenAt < StartedAt(f, b)

\* Only a success stores anything, and it counts what it stored.
OnlySuccessesStore ==
  \A f \in Feed : \A a \in Attempts(f) :
    /\ attempts[f][a].insertedEntryCount = Cardinality(EntriesFrom(f, a))
    /\ attempts[f][a].status # "success" => attempts[f][a].ranks = <<>> /\ EntriesFrom(f, a) = {}

\* A snapshot ranks entries that were stored by then, each once.
RanksAreOfStored ==
  \A f \in Feed : \A a \in Attempts(f) :
    /\ \A p \in DOMAIN attempts[f][a].ranks :
         /\ attempts[f][a].ranks[p] \in EntriesOf(f)
         /\ entries[attempts[f][a].ranks[p]].attempt <= a
    /\ \A p, q \in DOMAIN attempts[f][a].ranks :
         attempts[f][a].ranks[p] = attempts[f][a].ranks[q] => p = q

\* No cursor is ahead of the ids.
CursorsAreStored == \A f \in Feed : cursor[f] <= Len(entries)

StoreInv ==
  /\ TypeOK /\ JobIsRunning /\ AttemptsAreInOrder /\ EntriesAreDated
  /\ OnlySuccessesStore /\ RanksAreOfStored /\ FirstSeenThenPublished /\ CursorsAreStored

(***************************************************************************)
(* Induction on sizes, and the folds it gives a meaning to.                *)
(***************************************************************************)
\* A set of numbers has a least one; what holds of 0 and of n + 1 with n holds
\* of all.
LEMMA Least ==
  ASSUME NEW S \in SUBSET Nat, S # {}
  PROVE  \E x \in S : \A y \in S : x <= y
<1>1. PICK R : R = OpToRel(<, Nat)
  OBVIOUS
<1>2. IsWellFoundedOn(R, Nat)
  BY <1>1, NatLessThanWellFounded
<1>3. PICK x \in S : \A y \in S : ~ (<<y, x>> \in R)
  BY <1>2, WFMin
<1>4. \A y \in Nat : y < x => <<y, x>> \in R
  BY <1>1 DEF OpToRel
<1>5. ASSUME NEW y \in S PROVE x <= y
  <2>1. y \in Nat /\ x \in Nat /\ ~ (y < x)
    BY <1>3, <1>4
  <2> QED
    BY <2>1
<1> QED
  BY <1>5

LEMMA SizeInduction ==
  ASSUME NEW T \in SUBSET Nat, 0 \in T, \A n \in T : n + 1 \in T
  PROVE  T = Nat
<1>1. SUFFICES ASSUME Nat \ T # {} PROVE FALSE
  OBVIOUS
<1>2. PICK x \in Nat \ T : \A y \in Nat \ T : x <= y
  BY <1>1, Least
<1>3. x # 0 /\ x - 1 \in Nat /\ ~ (x <= x - 1)
  BY <1>2
<1>4. x - 1 \in T
  BY <1>2, <1>3
<1> QED
  BY <1>2, <1>3, <1>4

\* Max of FiniteSetsExt, the element folds and snapshots choose.
LEMMA MaxIsGreatest ==
  ASSUME NEW n \in Nat, NEW S \in SUBSET (1..n), S # {}
  PROVE  Max(S) \in S /\ \A y \in S : y <= Max(S)
<1> DEFINE U == {m \in Nat : \A y \in S : y <= m}
<1>1. n \in U
  OBVIOUS
<1>2. PICK u \in U : \A m \in U : u <= m
  <2>1. U \in SUBSET Nat /\ U # {}
    BY <1>1
  <2> HIDE DEF U
  <2> QED
    BY <2>1, Least
<1>3. u \in S
  <2>1. SUFFICES ASSUME u \notin S PROVE FALSE
    OBVIOUS
  <2>2. \A y \in S : y \in Nat /\ y <= u - 1
    BY <2>1
  <2>3. u \in Nat /\ u - 1 \in Nat /\ ~ (u <= u - 1)
    <3>1. PICK y \in S : y \in 1..n /\ y <= u
      OBVIOUS
    <3> QED
      BY <3>1
  <2>4. u - 1 \in U
    BY <2>2, <2>3
  <2> QED
    BY <1>2, <2>3, <2>4
<1>4. \A y \in S : y \in Nat /\ u >= y
  OBVIOUS
<1> QED
  BY <1>3, <1>4 DEF Max

LEMMA Smaller ==
  ASSUME NEW D, IsFiniteSet(D), NEW s \in SUBSET D, NEW x \in s
  PROVE  /\ s \ {x} \in SUBSET D
         /\ Cardinality(s) \in Nat /\ Cardinality(s \ {x}) \in Nat
         /\ Cardinality(s \ {x}) = Cardinality(s) - 1
<1>1. IsFiniteSet(s)
  BY FS_Subset
<1> QED
  BY <1>1, FS_RemoveElement, FS_CardinalityType

\* g folds the subsets of D: c chooses the element to take next, h[x] takes x
\* into the value of the rest.
IsFold(g, D, A, base, h, c) ==
  /\ g \in [SUBSET D -> A]
  /\ \A s \in SUBSET D : g[s] = IF s = {} THEN base ELSE h[c[s]][g[s \ {c[s]}]]

\* The equation by which MapThenFoldSet folds has a solution.
LEMMA FoldExists ==
  ASSUME NEW D, IsFiniteSet(D), NEW A, NEW base \in A, NEW h \in [D -> [A -> A]],
         NEW c, \A s \in SUBSET D : s # {} => c[s] \in s
  PROVE  \E g : IsFold(g, D, A, base, h, c)
<1> DEFINE Upto(m) == {s \in SUBSET D : Cardinality(s) <= m}
           Solves(g, m) ==
             /\ g \in [Upto(m) -> A]
             /\ \A s \in Upto(m) :
                  g[s] = IF s = {} THEN base ELSE h[c[s]][g[s \ {c[s]}]]
           T == {m \in Nat : \E g : Solves(g, m)}
<1>1. \A s \in SUBSET D : Cardinality(s) \in Nat /\ IsFiniteSet(s)
  BY FS_Subset, FS_CardinalityType
<1>2. 0 \in T
  <2>1. \A s \in Upto(0) : s = {}
    BY <1>1, FS_EmptySet
  <2>2. PICK g : g = [s \in Upto(0) |-> base]
    OBVIOUS
  <2>3. Solves(g, 0)
    BY <2>1, <2>2
  <2> QED
    BY <2>3
<1>3. ASSUME NEW m \in T PROVE m + 1 \in T
  <2>1. PICK g : Solves(g, m)
    OBVIOUS
  <2>2. \A s \in Upto(m + 1) : s # {} => c[s] \in s /\ c[s] \in D /\ s \ {c[s]} \in Upto(m)
    BY Smaller
  <2>3. PICK k : k = [s \in Upto(m + 1) |->
                       IF s = {} THEN base ELSE h[c[s]][g[s \ {c[s]}]]]
    OBVIOUS
  <2>4. k \in [Upto(m + 1) -> A]
    <3>1. \A s \in Upto(m + 1) : s # {} => h[c[s]][g[s \ {c[s]}]] \in A
      BY <2>1, <2>2
    <3> QED
      BY <3>1, <2>3
  <2>5. ASSUME NEW s \in Upto(m) PROVE s \in Upto(m + 1) /\ k[s] = g[s]
    <3>1. s \in Upto(m + 1)
      BY <1>1
    <3>2. g[s] = IF s = {} THEN base ELSE h[c[s]][g[s \ {c[s]}]]
      BY <2>1
    <3> QED
      BY <3>1, <3>2, <2>3
  <2>6. ASSUME NEW s \in Upto(m + 1)
        PROVE  k[s] = IF s = {} THEN base ELSE h[c[s]][k[s \ {c[s]}]]
    BY <2>2, <2>3, <2>5
  <2>7. Solves(k, m + 1)
    BY <2>4, <2>6
  <2>8. m + 1 \in Nat
    OBVIOUS
  <2> HIDE DEF Solves
  <2> QED
    BY <2>7, <2>8
<1>4. T = Nat
  <2> HIDE DEF T
  <2>1. T \in SUBSET Nat
    BY DEF T
  <2> QED
    BY <1>2, <1>3, <2>1, SizeInduction
<1>5. Cardinality(D) \in Nat /\ \A s \in SUBSET D : Cardinality(s) <= Cardinality(D)
  BY FS_Subset, FS_CardinalityType
<1>6. PICK g : Solves(g, Cardinality(D))
  BY <1>4, <1>5
<1>7. Upto(Cardinality(D)) = SUBSET D
  BY <1>5
<1> QED
  BY <1>6, <1>7 DEF IsFold

(***************************************************************************)
(* Listing positions in an order.                                          *)
(***************************************************************************)
LinearlyOrders(R, P) ==
  /\ \A p \in P : <<p, p>> \notin R
  /\ \A p, q \in P : p = q \/ <<p, q>> \in R \/ <<q, p>> \in R
  /\ \A p, q, r \in P : <<p, q>> \in R /\ <<q, r>> \in R => <<p, r>> \in R

IsRank(rank, R, P) == rank = [p \in P |-> Cardinality({q \in P : <<q, p>> \in R})]

\* In a finite set ordered by R, every position from 0 on is the rank of one
\* element, and ranks grow along R.
LEMMA RanksAreReached ==
  ASSUME NEW P, IsFiniteSet(P), NEW R,
         LinearlyOrders(R, P), NEW rank, IsRank(rank, R, P)
  PROVE  /\ Cardinality(P) \in Nat
         /\ rank \in [P -> 0..(Cardinality(P) - 1)]
         /\ \A p, q \in P : <<p, q>> \in R => rank[p] < rank[q]
         /\ \A i \in 0..(Cardinality(P) - 1) : \E p \in P : rank[p] = i
<1> DEFINE Before(p) == {q \in P : <<q, p>> \in R}
<1>1. Cardinality(P) \in Nat
  BY FS_CardinalityType
<1>2. ASSUME NEW p \in P PROVE IsFiniteSet(Before(p)) /\ Cardinality(Before(p)) \in Nat
  BY FS_Subset, FS_CardinalityType
<1>3. ASSUME NEW p \in P PROVE rank[p] \in 0..(Cardinality(P) - 1)
  <2>1. Before(p) \in SUBSET P /\ p \notin Before(p)
    BY DEF LinearlyOrders
  <2>2. Cardinality(Before(p)) <= Cardinality(P) /\ Cardinality(Before(p)) # Cardinality(P)
    BY <2>1, FS_Subset
  <2>3. rank[p] = Cardinality(Before(p))
    BY DEF IsRank
  <2> HIDE DEF Before
  <2> QED
    BY <1>1, <1>2, <2>2, <2>3
<1>4. ASSUME NEW p \in P, NEW q \in P, <<p, q>> \in R PROVE rank[p] < rank[q]
  <2>1. Before(p) \in SUBSET Before(q) /\ p \in Before(q) /\ p \notin Before(p)
    BY <1>4 DEF LinearlyOrders
  <2>2. rank[p] = Cardinality(Before(p)) /\ rank[q] = Cardinality(Before(q))
    BY DEF IsRank
  <2>3. Cardinality(Before(p)) <= Cardinality(Before(q))
        /\ Cardinality(Before(p)) # Cardinality(Before(q))
    BY <1>2, <2>1, FS_Subset
  <2> HIDE DEF Before
  <2> QED
    BY <1>2, <2>2, <2>3
<1>5. rank \in [P -> 0..(Cardinality(P) - 1)]
  BY <1>3 DEF IsRank
<1>6. rank \in Injection(P, 0..(Cardinality(P) - 1))
  <2>1. ASSUME NEW p \in P, NEW q \in P, rank[p] = rank[q] PROVE p = q
    <3>1. rank[p] \in Int /\ rank[q] \in Int /\ ~ (rank[p] < rank[q]) /\ ~ (rank[q] < rank[p])
      BY <1>3, <2>1
    <3> QED
      BY <1>4, <3>1 DEF LinearlyOrders
  <2> QED
    BY <1>5, <2>1 DEF Injection, IsInjective
<1>7. /\ IsFiniteSet(0..(Cardinality(P) - 1))
      /\ Cardinality(0..(Cardinality(P) - 1)) = Cardinality(P)
  <2>1. 0 \in Int /\ Cardinality(P) - 1 \in Int
    BY <1>1
  <2>2. (Cardinality(P) - 1) - 0 + 1 = Cardinality(P)
        /\ (0 > Cardinality(P) - 1 => Cardinality(P) = 0)
    BY <1>1
  <2> QED
    BY <2>1, <2>2, FS_Interval
<1>8. rank \in Surjection(P, 0..(Cardinality(P) - 1))
  BY <1>6, <1>7, FS_Injection
<1> QED
  BY <1>1, <1>4, <1>5, <1>8 DEF Surjection

\* So what has rank i - 1 is the i-th: every element is listed, along R.
LEMMA ListingByRank ==
  ASSUME NEW P, IsFiniteSet(P), NEW R,
         LinearlyOrders(R, P), NEW rank, IsRank(rank, R, P),
         NEW order \in [1..Cardinality(P) -> P],
         \A i \in 1..Cardinality(P) : rank[order[i]] = i - 1
  PROVE  /\ \A p \in P : \E i \in 1..Cardinality(P) : order[i] = p
         /\ \A i, j \in 1..Cardinality(P) : i < j => <<order[i], order[j]>> \in R
<1>1. /\ Cardinality(P) \in Nat
      /\ rank \in [P -> 0..(Cardinality(P) - 1)]
      /\ \A p, q \in P : <<p, q>> \in R => rank[p] < rank[q]
  BY RanksAreReached
<1>2. ASSUME NEW p \in P, NEW q \in P, rank[p] = rank[q] PROVE p = q
  <2>1. rank[p] \in Int /\ rank[q] \in Int /\ ~ (rank[p] < rank[q]) /\ ~ (rank[q] < rank[p])
    BY <1>1, <1>2
  <2> QED
    BY <1>1, <2>1 DEF LinearlyOrders
<1>3. ASSUME NEW p \in P PROVE \E i \in 1..Cardinality(P) : order[i] = p
  <2>1. rank[p] \in Int /\ rank[p] >= 0 /\ rank[p] <= Cardinality(P) - 1
    BY <1>1
  <2>2. PICK i : i = rank[p] + 1
    OBVIOUS
  <2>3. i \in 1..Cardinality(P) /\ i - 1 = rank[p]
    BY <1>1, <2>1, <2>2
  <2>4. rank[order[i]] = rank[p] /\ order[i] \in P
    BY <2>3
  <2> QED
    BY <1>2, <2>3, <2>4
<1>4. ASSUME NEW i \in 1..Cardinality(P), NEW j \in 1..Cardinality(P), i < j
      PROVE  <<order[i], order[j]>> \in R
  <2>1. order[i] \in P /\ order[j] \in P /\ rank[order[i]] = i - 1 /\ rank[order[j]] = j - 1
    OBVIOUS
  <2>2. ~ (rank[order[j]] < rank[order[i]]) /\ rank[order[i]] # rank[order[j]]
    BY <1>1, <1>4, <2>1
  <2>3. order[i] # order[j] /\ <<order[j], order[i]>> \notin R
    BY <1>1, <2>1, <2>2
  <2> QED
    BY <2>1, <2>3 DEF LinearlyOrders
<1> QED
  BY <1>3, <1>4

\* The members of s at the positions P, in the order of s.
Picked(s, P) == Arranged(s, P, <)

Lists(list, s, P) ==
  /\ Len(list) = Cardinality(P)
  /\ \E order \in [1..Cardinality(P) -> P] :
       /\ \A i \in 1..Cardinality(P) : list[i] = s[order[i]]
       /\ \A p \in P : \E i \in 1..Cardinality(P) : order[i] = p
       /\ \A i, j \in 1..Cardinality(P) : i < j => order[i] < order[j]

LEMMA PickedInOrder ==
  ASSUME NEW n \in Nat, NEW P \in SUBSET (1..n), NEW T, NEW s, \A p \in P : s[p] \in T
  PROVE  /\ Cardinality(P) \in Nat
         /\ Picked(s, P) \in Seq(T)
         /\ Lists(Picked(s, P), s, P)
<1>1. IsFiniteSet(P) /\ Cardinality(P) \in Nat
  <2>1. IsFiniteSet(1..n)
    BY FS_Interval
  <2> QED
    BY <2>1, FS_Subset, FS_CardinalityType
<1>2. PICK R : R = {e \in P \X P : e[1] < e[2]}
  OBVIOUS
<1>3. \A p, q \in P : <<p, q>> \in R <=> p < q
  BY <1>2
<1>4. PICK rank : IsRank(rank, R, P)
  BY DEF IsRank
<1>5. ASSUME NEW p \in P PROVE rank[p] = Cardinality({q \in P : q < p})
  <2>1. {q \in P : <<q, p>> \in R} = {q \in P : q < p}
    BY <1>3
  <2> QED
    BY <1>4, <2>1 DEF IsRank
<1>6. LinearlyOrders(R, P)
  BY <1>3 DEF LinearlyOrders
<1>7. \A i \in 0..(Cardinality(P) - 1) : \E p \in P : rank[p] = i
  BY <1>1, <1>4, <1>6, RanksAreReached
<1>8. PICK order : order = [i \in 1..Cardinality(P) |->
                              CHOOSE p \in P : Cardinality({q \in P : q < p}) = i - 1]
  OBVIOUS
<1>9. ASSUME NEW i \in 1..Cardinality(P) PROVE order[i] \in P /\ rank[order[i]] = i - 1
  <2>1. i - 1 \in 0..(Cardinality(P) - 1)
    BY <1>1
  <2>2. PICK p \in P : rank[p] = i - 1
    BY <1>7, <2>1
  <2>3. Cardinality({q \in P : q < p}) = i - 1
    BY <1>5, <2>2
  <2>4. order[i] = CHOOSE x \in P : Cardinality({q \in P : q < x}) = i - 1
    BY <1>8
  <2>5. order[i] \in P /\ Cardinality({q \in P : q < order[i]}) = i - 1
    BY <2>3, <2>4
  <2> QED
    BY <1>5, <2>5
<1>10. order \in [1..Cardinality(P) -> P]
  BY <1>8, <1>9
<1>11. \A i \in 1..Cardinality(P) : rank[order[i]] = i - 1
  BY <1>9
<1>12. IsFiniteSet(P)
  BY <1>1
<1>13. /\ \A p \in P : \E i \in 1..Cardinality(P) : order[i] = p
       /\ \A i, j \in 1..Cardinality(P) : i < j => <<order[i], order[j]>> \in R
  BY <1>12, <1>4, <1>6, <1>11, <1>10, ListingByRank
<1>14. Picked(s, P) = [i \in 1..Cardinality(P) |-> s[order[i]]]
  BY <1>8 DEF Picked, Arranged
<1>15. \A i \in 1..Cardinality(P) : order[i] \in P /\ Picked(s, P)[i] = s[order[i]]
  BY <1>10, <1>14
<1>16. Picked(s, P) \in [1..Cardinality(P) -> T]
  BY <1>14, <1>15
<1>17. Picked(s, P) \in Seq(T) /\ Len(Picked(s, P)) = Cardinality(P)
  BY <1>1, <1>16
<1> QED
  BY <1>1, <1>3, <1>10, <1>13, <1>15, <1>17 DEF Lists

(***************************************************************************)
(* What becomes of a batch: cut to the limit, filtered, sorted, inserted.  *)
(***************************************************************************)
LEMMA LimitedType ==
  ASSUME NEW batch \in Batch, job.limit \in Nat
  PROVE  Limited(batch) \in Seq(Draft)
<1>1. batch \in Seq(Draft)
  BY StoreAssumption
<1>2. CASE job.limit = 0 \/ Len(batch) <= job.limit
  BY <1>1, <1>2 DEF Limited
<1>3. CASE ~ (job.limit = 0 \/ Len(batch) <= job.limit)
  <2>1. 1 \in Nat /\ job.limit \in 1..Len(batch)
    BY <1>1, <1>3
  <2>2. SubSeq(batch, 1, job.limit) \in Seq(Draft)
    BY <1>1, <2>1
  <2> QED
    BY <1>3, <2>2 DEF Limited
<1> QED
  BY <1>2, <1>3

LEMMA FilteredType ==
  ASSUME NEW f, NEW drafts \in Seq(Draft)
  PROVE  filterByPublishedSince(f, drafts) \in Seq(Draft)
<1> DEFINE P == {n \in DOMAIN drafts : drafts[n].publishedAt = 0
                                      \/ drafts[n].publishedAt >= PublishedSince[f]}
<1>1. Len(drafts) \in Nat /\ P \in SUBSET (1..Len(drafts))
  OBVIOUS
<1>2. filterByPublishedSince(f, drafts) = Picked(drafts, P)
  BY DEF filterByPublishedSince, Picked, Arranged
<1>3. \A p \in P : drafts[p] \in Draft
  OBVIOUS
<1> HIDE DEF P
<1>4. PICK n \in Nat : P \in SUBSET (1..n)
  BY <1>1
<1>5. Picked(drafts, P) \in Seq(Draft)
  BY <1>3, <1>4, PickedInOrder
<1> QED
  BY <1>2, <1>5

\* Rows are the drafts, earlier published first.
LEMMA RowsAreSorted ==
  ASSUME NEW drafts \in Seq(Draft)
  PROVE  /\ toEntryRows(drafts) \in Seq(Draft)
         /\ Len(toEntryRows(drafts)) = Len(drafts)
         /\ \A n \in 1..Len(drafts) :
              \E k \in 1..Len(drafts) : toEntryRows(drafts)[k] = drafts[n]
         /\ \A i, j \in 1..Len(drafts) :
              i < j => toEntryRows(drafts)[i].publishedAt <= toEntryRows(drafts)[j].publishedAt
<1> DEFINE P == DOMAIN drafts
           Before(i, j) ==
             \/ drafts[i].publishedAt < drafts[j].publishedAt
             \/ drafts[i].publishedAt = drafts[j].publishedAt /\ i < j
<1>1. /\ P = 1..Len(drafts) /\ Len(drafts) \in Nat
      /\ IsFiniteSet(P) /\ Cardinality(P) = Len(drafts)
      /\ \A p \in P : drafts[p] \in Draft /\ drafts[p].publishedAt \in Nat
  <2>1. P = 1..Len(drafts) /\ Len(drafts) \in Nat
    OBVIOUS
  <2>2. \A p \in P : drafts[p] \in Draft
    OBVIOUS
  <2>4. \A p \in P : drafts[p].publishedAt \in Nat
    BY <2>2 DEF Draft
  <2> HIDE DEF P
  <2>3. IsFiniteSet(1..Len(drafts)) /\ Cardinality(1..Len(drafts)) = Len(drafts)
    BY <2>1, FS_Interval
  <2> QED
    BY <2>1, <2>2, <2>3, <2>4
<1> HIDE DEF P
<1>2. PICK R : R = {e \in P \X P : Before(e[1], e[2])}
  OBVIOUS
<1>3. \A p, q \in P : <<p, q>> \in R <=> Before(p, q)
  BY <1>2
<1>4. PICK rank : IsRank(rank, R, P)
  BY DEF IsRank
<1>5. ASSUME NEW p \in P PROVE rank[p] = Cardinality({q \in P : Before(q, p)})
  <2>1. {q \in P : <<q, p>> \in R} = {q \in P : Before(q, p)}
    BY <1>3
  <2> QED
    BY <1>4, <2>1 DEF IsRank
<1>6. LinearlyOrders(R, P)
  <2>1. \A p, q \in P : p \in Nat /\ drafts[p].publishedAt \in Nat
    BY <1>1
  <2>2. \A p \in P : ~ Before(p, p)
    BY <2>1
  <2>3. \A p, q \in P : p = q \/ Before(p, q) \/ Before(q, p)
    BY <2>1
  <2>4. \A p, q, r \in P : Before(p, q) /\ Before(q, r) => Before(p, r)
    BY <2>1
  <2> HIDE DEF Before
  <2> QED
    BY <1>3, <2>2, <2>3, <2>4 DEF LinearlyOrders
<1>7. \A i \in 0..(Cardinality(P) - 1) : \E p \in P : rank[p] = i
  BY <1>1, <1>4, <1>6, RanksAreReached
<1>8. PICK order : order = [i \in 1..Cardinality(P) |->
                              CHOOSE p \in P : Cardinality({q \in P : Before(q, p)}) = i - 1]
  OBVIOUS
<1>9. ASSUME NEW i \in 1..Cardinality(P) PROVE order[i] \in P /\ rank[order[i]] = i - 1
  <2>1. i - 1 \in 0..(Cardinality(P) - 1)
    BY <1>1
  <2>2. PICK p \in P : rank[p] = i - 1
    BY <1>7, <2>1
  <2>3. Cardinality({q \in P : Before(q, p)}) = i - 1
    BY <1>5, <2>2
  <2>4. order[i] = CHOOSE x \in P : Cardinality({q \in P : Before(q, x)}) = i - 1
    BY <1>8
  <2>5. order[i] \in P /\ Cardinality({q \in P : Before(q, order[i])}) = i - 1
    BY <2>3, <2>4
  <2> QED
    BY <1>5, <2>5
<1>10. order \in [1..Cardinality(P) -> P]
  BY <1>8, <1>9
<1>11. \A i \in 1..Cardinality(P) : rank[order[i]] = i - 1
  BY <1>9
<1>12. IsFiniteSet(P)
  BY <1>1
<1>13. /\ \A p \in P : \E i \in 1..Cardinality(P) : order[i] = p
       /\ \A i, j \in 1..Cardinality(P) : i < j => <<order[i], order[j]>> \in R
  BY <1>12, <1>4, <1>6, <1>10, <1>11, ListingByRank
<1>14. toEntryRows(drafts) = [i \in 1..Cardinality(P) |-> drafts[order[i]]]
  BY <1>8 DEF toEntryRows, Arranged, P
<1>15. \A i \in 1..Len(drafts) :
         order[i] \in P /\ toEntryRows(drafts)[i] = drafts[order[i]]
  BY <1>1, <1>10, <1>14
<1>16. toEntryRows(drafts) \in Seq(Draft) /\ Len(toEntryRows(drafts)) = Len(drafts)
  <2>1. toEntryRows(drafts) \in [1..Len(drafts) -> Draft]
    BY <1>1, <1>10, <1>14
  <2> QED
    BY <1>1, <2>1
<1>17. ASSUME NEW n \in 1..Len(drafts)
       PROVE  \E k \in 1..Len(drafts) : toEntryRows(drafts)[k] = drafts[n]
  <2>1. PICK k \in 1..Cardinality(P) : order[k] = n
    BY <1>1, <1>13
  <2> QED
    BY <1>1, <1>15, <2>1
<1>18. ASSUME NEW i \in 1..Len(drafts), NEW j \in 1..Len(drafts), i < j
       PROVE  toEntryRows(drafts)[i].publishedAt <= toEntryRows(drafts)[j].publishedAt
  <2>1. order[i] \in P /\ order[j] \in P /\ Before(order[i], order[j])
    BY <1>1, <1>3, <1>13, <1>15, <1>18
  <2>2. drafts[order[i]].publishedAt \in Nat /\ drafts[order[j]].publishedAt \in Nat
    BY <1>1, <2>1
  <2>3. drafts[order[i]].publishedAt <= drafts[order[j]].publishedAt
    BY <2>1, <2>2
  <2> QED
    BY <1>15, <2>3
<1> QED
  BY <1>16, <1>17, <1>18

\* What INSERT ... ON CONFLICT DO NOTHING makes of one row.
RowInserted(f, table, d) ==
  IF \E i \in DOMAIN table : table[i].feed = f /\ table[i].key = d.key
  THEN table
  ELSE Append(table, [feed |-> f, key |-> d.key, publishedAt |-> d.publishedAt,
                      firstSeenAt |-> clock + 1, attempt |-> AttemptCount(f)])

LEMMA RowInsertedType ==
  ASSUME NEW f \in Feed, clock \in Nat, AttemptCount(f) \in Nat,
         NEW table \in Seq(EntryRow), NEW d \in Draft
  PROVE  RowInserted(f, table, d) \in Seq(EntryRow)
<1>1. d.key \in Key /\ d.publishedAt \in Nat /\ clock + 1 \in Nat
  BY DEF Draft
<1>2. [feed |-> f, key |-> d.key, publishedAt |-> d.publishedAt,
       firstSeenAt |-> clock + 1, attempt |-> AttemptCount(f)] \in EntryRow
  BY <1>1 DEF EntryRow
<1> QED
  BY <1>2 DEF RowInserted

\* The batch is inserted row by row.
LEMMA InsertedRowByRow ==
  ASSUME NEW f \in Feed, clock \in Nat, AttemptCount(f) \in Nat, entries \in Seq(EntryRow),
         NEW drafts, toEntryRows(drafts) \in Seq(Draft)
  PROVE  \E table \in [0..Len(toEntryRows(drafts)) -> Seq(EntryRow)] :
           /\ table[0] = entries
           /\ table[Len(toEntryRows(drafts))] = Inserted(f, drafts)
           /\ \A m \in 1..Len(toEntryRows(drafts)) :
                table[m] = RowInserted(f, table[m - 1], toEntryRows(drafts)[m])
<1> DEFINE rows == toEntryRows(drafts)
           D == DOMAIN rows
           Step(it) == [s \in SUBSET D |->
                          IF s = {} THEN entries
                          ELSE RowInserted(f, it[s \ {Max(s)}], rows[Max(s)])]
<1>1. PICK n \in Nat : n = Len(rows) /\ D = 1..n
  OBVIOUS
<1>2. IsFiniteSet(D)
  BY <1>1, FS_Interval
<1>3. \A s \in SUBSET D : s # {} => Max(s) \in s /\ \A y \in s : y <= Max(s)
  BY <1>1, MaxIsGreatest
<1>4. \A x \in D : rows[x] \in Draft
  OBVIOUS
<1> HIDE DEF D, rows
<1>5. PICK h : h = [x \in D |-> [t \in Seq(EntryRow) |-> RowInserted(f, t, rows[x])]]
  OBVIOUS
<1>6. h \in [D -> [Seq(EntryRow) -> Seq(EntryRow)]]
  BY <1>4, <1>5, RowInsertedType
<1>7. PICK c : c = [s \in SUBSET D |-> Max(s)]
  OBVIOUS
<1>8. \A s \in SUBSET D : s # {} => c[s] \in s
  BY <1>3, <1>7
<1>9. PICK g : IsFold(g, D, Seq(EntryRow), entries, h, c)
  BY <1>2, <1>6, <1>8, FoldExists
<1>10. /\ g \in [SUBSET D -> Seq(EntryRow)]
       /\ \A s \in SUBSET D : g[s] = IF s = {} THEN entries ELSE h[c[s]][g[s \ {c[s]}]]
  BY <1>9 DEF IsFold
<1>11. g = Step(g)
  <2>1. ASSUME NEW s \in SUBSET D
        PROVE  g[s] = IF s = {} THEN entries
                      ELSE RowInserted(f, g[s \ {Max(s)}], rows[Max(s)])
    <3>1. CASE s = {}
      BY <1>10, <3>1
    <3>2. CASE s # {}
      <4>1. c[s] = Max(s) /\ Max(s) \in D /\ s \ {Max(s)} \in SUBSET D
        BY <1>3, <1>7, <3>2
      <4>2. g[s \ {Max(s)}] \in Seq(EntryRow)
        BY <1>10, <4>1
      <4>3. g[s] = h[Max(s)][g[s \ {Max(s)}]]
        BY <1>10, <3>2, <4>1
      <4> QED
        BY <1>5, <3>2, <4>1, <4>2, <4>3
    <3> QED
      BY <3>1, <3>2
  <2>2. PICK k : k = Step(g)
    OBVIOUS
  <2>3. \A s \in SUBSET D : g[s] = k[s]
    BY <2>1, <2>2
  <2>4. g = [s \in SUBSET D |-> g[s]] /\ k = [s \in SUBSET D |-> k[s]]
    BY <1>10, <2>2
  <2>5. g = k
    BY <2>3, <2>4
  <2> QED
    BY <2>2, <2>5
<1>12. PICK it : it = Step(it) /\ Inserted(f, drafts) = it[D]
  <2>1. Inserted(f, drafts) = (CHOOSE it : it = Step(it))[D]
    BY DEF Inserted, FoldLeft, MapThenFoldSet, RowInserted, D, rows
  <2>2. (CHOOSE it : it = Step(it)) = Step(CHOOSE it : it = Step(it))
    BY <1>11
  <2> QED
    BY <2>1, <2>2
<1>13. it[1..0] = entries
  <2>1. 1..0 = {} /\ {} \in SUBSET D
    OBVIOUS
  <2> QED
    BY <1>12, <2>1
<1>14. ASSUME NEW m \in 1..n PROVE it[1..m] = RowInserted(f, it[1..(m - 1)], rows[m])
  <2>1. 1..m \in SUBSET D /\ 1..m # {} /\ m \in 1..m
    BY <1>1
  <2>2. Max(1..m) \in 1..m /\ m <= Max(1..m)
    BY <1>3, <2>1
  <2>3. Max(1..m) = m
    BY <2>2
  <2>4. (1..m) \ {m} = 1..(m - 1)
    OBVIOUS
  <2>5. Step(it)[1..m] = RowInserted(f, it[(1..m) \ {Max(1..m)}], rows[Max(1..m)])
    BY <2>1
  <2> QED
    BY <1>12, <2>3, <2>4, <2>5
<1>15. PICK table : table = [m \in 0..n |-> it[1..m]]
  OBVIOUS
<1>16. ASSUME NEW m \in 1..n PROVE table[m] = RowInserted(f, table[m - 1], rows[m])
  <2>1. m \in 0..n /\ m - 1 \in 0..n
    OBVIOUS
  <2> QED
    BY <1>14, <1>15, <2>1
<1>17. table[0] = entries /\ table[n] = Inserted(f, drafts)
  BY <1>1, <1>12, <1>13, <1>15
<1>18. \A m \in 0..n : table[m] \in Seq(EntryRow)
  <2> DEFINE T == {m \in Nat : m <= n => table[m] \in Seq(EntryRow)}
  <2>1. 0 \in T
    BY <1>17
  <2>2. ASSUME NEW m \in T PROVE m + 1 \in T
    <3>1. SUFFICES ASSUME m + 1 <= n PROVE table[m + 1] \in Seq(EntryRow)
      OBVIOUS
    <3>2. m + 1 \in 1..n /\ (m + 1) - 1 = m /\ table[m] \in Seq(EntryRow)
      BY <3>1
    <3>3. rows[m + 1] \in Draft
      BY <1>1, <1>4, <3>2
    <3>4. table[m + 1] = RowInserted(f, table[m], rows[m + 1])
      BY <1>16, <3>2
    <3> QED
      BY <3>2, <3>3, <3>4, RowInsertedType
  <2>3. T \in SUBSET Nat
    OBVIOUS
  <2> HIDE DEF T
  <2>4. T = Nat
    BY <2>1, <2>2, <2>3, SizeInduction
  <2> QED
    BY <2>4 DEF T
<1>19. table \in [0..n -> Seq(EntryRow)]
  BY <1>15, <1>18
<1> QED
  BY <1>1, <1>16, <1>17, <1>19 DEF rows

(***************************************************************************)
(* What the success transaction leaves in the table: the rows it had, then *)
(* new ones of the feed and the attempt, in the order of publishing, and a *)
(* row for every draft.                                                    *)
(***************************************************************************)
NewRow(f, row) ==
  row.feed = f /\ row.attempt = AttemptCount(f) /\ row.firstSeenAt = clock + 1

Grown(f, table) ==
  /\ table \in Seq(EntryRow)
  /\ Len(entries) \in Nat /\ Len(table) \in Nat /\ Len(entries) <= Len(table)
  /\ \A i \in 1..Len(entries) : table[i] = entries[i]
  /\ \A i \in (Len(entries) + 1)..Len(table) : NewRow(f, table[i])

\* No new row was published later than `at`.
NoneAfter(table, at) ==
  \A i \in (Len(entries) + 1)..Len(table) : table[i].publishedAt <= at

InPublishedOrder(table) ==
  \A i, j \in (Len(entries) + 1)..Len(table) :
    i < j => table[i].publishedAt <= table[j].publishedAt

HasKey(f, table, key) == \E i \in DOMAIN table : table[i].feed = f /\ table[i].key = key

LEMMA RowInsertedGrows ==
  ASSUME NEW f \in Feed, clock \in Nat, AttemptCount(f) \in Nat,
         NEW table, Grown(f, table), NEW d \in Draft,
         InPublishedOrder(table), NoneAfter(table, d.publishedAt)
  PROVE  /\ Grown(f, RowInserted(f, table, d))
         /\ InPublishedOrder(RowInserted(f, table, d))
         /\ NoneAfter(RowInserted(f, table, d), d.publishedAt)
         /\ HasKey(f, RowInserted(f, table, d), d.key)
         /\ \A key : HasKey(f, table, key) => HasKey(f, RowInserted(f, table, d), key)
<1>1. CASE HasKey(f, table, d.key)
  <2>1. RowInserted(f, table, d) = table
    BY <1>1 DEF RowInserted, HasKey
  <2> QED
    BY <1>1, <2>1
<1>2. CASE ~ HasKey(f, table, d.key)
  <2>1. PICK row : row = [feed |-> f, key |-> d.key, publishedAt |-> d.publishedAt,
                          firstSeenAt |-> clock + 1, attempt |-> AttemptCount(f)]
    OBVIOUS
  <2>2. PICK t : t = RowInserted(f, table, d)
    OBVIOUS
  <2>3. t = Append(table, row)
    BY <1>2, <2>1, <2>2 DEF RowInserted, HasKey
  <2>4. row \in EntryRow /\ NewRow(f, row) /\ row.publishedAt = d.publishedAt /\ row.key = d.key
    <3>1. d.key \in Key /\ d.publishedAt \in Nat /\ clock + 1 \in Nat
      BY DEF Draft
    <3> QED
      BY <2>1, <3>1 DEF EntryRow, NewRow
  <2>5. /\ t \in Seq(EntryRow) /\ Len(t) = Len(table) + 1
        /\ \A i \in 1..Len(table) : t[i] = table[i]
        /\ t[Len(table) + 1] = row
    BY <2>3, <2>4 DEF Grown
  <2>6. Grown(f, t)
    BY <2>4, <2>5 DEF Grown
  <2>7. d.publishedAt \in Nat
    BY DEF Draft
  <2>8. NoneAfter(t, d.publishedAt)
    BY <2>4, <2>5, <2>7 DEF Grown, NoneAfter
  <2>9. InPublishedOrder(t)
    BY <2>4, <2>5 DEF Grown, NoneAfter, InPublishedOrder
  <2>10. DOMAIN table = 1..Len(table) /\ DOMAIN t = 1..(Len(table) + 1) /\ Len(table) \in Nat
    BY <2>5 DEF Grown
  <2>11. HasKey(f, t, d.key)
    BY <2>4, <2>5, <2>10 DEF HasKey, NewRow
  <2>12. \A key : HasKey(f, table, key) => HasKey(f, t, key)
    BY <2>5, <2>10 DEF HasKey
  <2> QED
    BY <2>2, <2>6, <2>8, <2>9, <2>11, <2>12
<1> QED
  BY <1>1, <1>2

LEMMA InsertedTable ==
  ASSUME NEW f \in Feed, clock \in Nat, AttemptCount(f) \in Nat, entries \in Seq(EntryRow),
         NEW drafts \in Seq(Draft)
  PROVE  /\ Grown(f, Inserted(f, drafts))
         /\ InPublishedOrder(Inserted(f, drafts))
         /\ \A n \in 1..Len(drafts) : HasKey(f, Inserted(f, drafts), drafts[n].key)
<1> DEFINE rows == toEntryRows(drafts)
<1>1. PICK n \in Nat : n = Len(drafts)
  OBVIOUS
<1>2. /\ rows \in Seq(Draft) /\ Len(rows) = n
      /\ \A i \in 1..n : \E k \in 1..n : rows[k] = drafts[i]
      /\ \A i, j \in 1..n : i < j => rows[i].publishedAt <= rows[j].publishedAt
  BY <1>1, RowsAreSorted
<1>3. PICK table \in [0..Len(rows) -> Seq(EntryRow)] :
        /\ table[0] = entries
        /\ table[Len(rows)] = Inserted(f, drafts)
        /\ \A m \in 1..Len(rows) : table[m] = RowInserted(f, table[m - 1], rows[m])
  BY <1>2, InsertedRowByRow
<1>4. /\ table \in [0..n -> Seq(EntryRow)]
      /\ table[0] = entries
      /\ table[n] = Inserted(f, drafts)
      /\ \A m \in 1..n : table[m] = RowInserted(f, table[m - 1], rows[m])
  BY <1>2, <1>3
<1>5. \A m \in 1..n : rows[m] \in Draft /\ rows[m].publishedAt \in Nat
  <2>1. \A m \in 1..n : rows[m] \in Draft
    BY <1>2
  <2> QED
    BY <2>1 DEF Draft
<1> HIDE DEF rows
<1> DEFINE Good(m) ==
             /\ Grown(f, table[m])
             /\ InPublishedOrder(table[m])
             /\ m > 0 => NoneAfter(table[m], rows[m].publishedAt)
             /\ \A k \in 1..m : HasKey(f, table[m], rows[k].key)
           T == {m \in Nat : m <= n => Good(m)}
<1>6. 0 \in T
  <2>1. Grown(f, entries) /\ InPublishedOrder(entries)
    BY DEF Grown, InPublishedOrder
  <2>2. 1..0 = {} /\ ~ (0 > 0)
    OBVIOUS
  <2> QED
    BY <1>4, <2>1, <2>2
<1>7. ASSUME NEW m \in T PROVE m + 1 \in T
  <2>1. SUFFICES ASSUME m + 1 <= n PROVE Good(m + 1)
    OBVIOUS
  <2>2. m \in Nat /\ m + 1 \in 1..n /\ (m + 1) - 1 = m /\ m <= n
    BY <2>1
  <2>3. Good(m)
    BY <2>2
  <2>4. table[m + 1] = RowInserted(f, table[m], rows[m + 1]) /\ rows[m + 1] \in Draft
    BY <1>4, <1>5, <2>2
  <2>5. NoneAfter(table[m], rows[m + 1].publishedAt)
    <3>1. CASE m = 0
      <4>1. table[m] = entries
        BY <1>4, <3>1
      <4> QED
        BY <4>1 DEF NoneAfter
    <3>2. CASE m > 0
      <4>1. m \in 1..n /\ rows[m].publishedAt <= rows[m + 1].publishedAt
        <5>1. m \in 1..n /\ m < m + 1
          BY <2>2, <3>2
        <5> QED
          BY <1>2, <2>2, <5>1
      <4>2. rows[m].publishedAt \in Nat /\ rows[m + 1].publishedAt \in Nat
        BY <1>5, <2>2, <4>1
      <4>3. table[m] \in Seq(EntryRow) /\ Len(entries) \in Nat /\ Len(table[m]) \in Nat
        BY <2>3 DEF Grown
      <4>4. ASSUME NEW i \in (Len(entries) + 1)..Len(table[m])
            PROVE  table[m][i].publishedAt <= rows[m + 1].publishedAt
        <5>1. table[m][i] \in EntryRow
          BY <4>3
        <5>2. table[m][i].publishedAt \in Nat
          BY <5>1 DEF EntryRow
        <5>3. table[m][i].publishedAt <= rows[m].publishedAt
          BY <2>3, <3>2 DEF NoneAfter
        <5> QED
          BY <4>1, <4>2, <5>2, <5>3, SMTT(30)
      <4> QED
        BY <4>4 DEF NoneAfter
    <3> QED
      BY <2>2, <3>1, <3>2
  <2>6. /\ Grown(f, table[m + 1])
        /\ InPublishedOrder(table[m + 1])
        /\ NoneAfter(table[m + 1], rows[m + 1].publishedAt)
        /\ HasKey(f, table[m + 1], rows[m + 1].key)
        /\ \A key : HasKey(f, table[m], key) => HasKey(f, table[m + 1], key)
    BY <2>3, <2>4, <2>5, RowInsertedGrows
  <2>7. ASSUME NEW k \in 1..(m + 1) PROVE HasKey(f, table[m + 1], rows[k].key)
    <3>1. k \in 1..m \/ k = m + 1
      BY <2>2
    <3> QED
      BY <2>3, <2>6, <3>1
  <2> QED
    BY <2>6, <2>7
<1>8. T \in SUBSET Nat
  OBVIOUS
<1> HIDE DEF T
<1>9. T = Nat
  BY <1>6, <1>7, <1>8, SizeInduction
<1>10. Good(n)
  <2>1. n \in T /\ n <= n
    BY <1>9
  <2> HIDE DEF Good
  <2> QED
    BY <2>1 DEF T
<1>11. ASSUME NEW i \in 1..Len(drafts) PROVE HasKey(f, Inserted(f, drafts), drafts[i].key)
  <2>1. PICK k \in 1..n : rows[k] = drafts[i]
    BY <1>1, <1>2
  <2> QED
    BY <1>4, <1>10, <2>1
<1> QED
  BY <1>4, <1>10, <1>11

(***************************************************************************)
(* The snapshot ranks rows of the feed, each once.                         *)
(***************************************************************************)
LEMMA SnapshotIsOfStored ==
  ASSUME NEW f \in Feed, NEW drafts \in Seq(Draft), NEW table \in Seq(EntryRow),
         \A n \in 1..Len(drafts) : HasKey(f, table, drafts[n].key),
         NEW ranks, ranks = insertRankSnapshot(f, drafts, table)
  PROVE  /\ ranks \in Seq(Nat)
         /\ \A p \in DOMAIN ranks : ranks[p] \in DOMAIN table /\ table[ranks[p]].feed = f
         /\ \A p, q \in DOMAIN ranks : ranks[p] = ranks[q] => p = q
<1> DEFINE ids == EntryIds(f, drafts, table)
           firsts == {n \in DOMAIN ids : \A m \in 1..(n - 1) : ids[m] # ids[n]}
           Rows == {i \in DOMAIN table : table[i].feed = f}
<1>1. PICK n \in Nat : n = Len(drafts) /\ DOMAIN drafts = 1..n
  OBVIOUS
<1>2. DOMAIN ids = 1..n
  BY <1>1 DEF EntryIds
<1>3. ASSUME NEW k \in 1..n PROVE ids[k] \in Rows
  <2>1. \E i \in DOMAIN table : table[i].feed = f /\ table[i].key = drafts[k].key
    BY <1>1 DEF HasKey
  <2>2. ids[k] = CHOOSE i \in DOMAIN table : table[i].feed = f /\ table[i].key = drafts[k].key
    BY <1>1 DEF EntryIds
  <2> HIDE DEF ids
  <2> QED
    BY <2>1, <2>2
<1>4. ranks = Picked(ids, firsts)
  BY DEF insertRankSnapshot, Picked, Arranged
<1> HIDE DEF ids
<1>5. firsts \in SUBSET (1..n)
  BY <1>2
<1>6. ASSUME NEW p \in firsts, NEW q \in firsts, ids[p] = ids[q] PROVE p = q
  <2>1. p \in 1..n /\ q \in 1..n
    BY <1>5
  <2>2. ~ (p \in 1..(q - 1)) /\ ~ (q \in 1..(p - 1))
    BY <1>6
  <2> QED
    BY <2>1, <2>2
<1>7. \A p \in firsts : ids[p] \in Rows
  BY <1>3, <1>5
<1> HIDE DEF firsts, Rows
<1>8. /\ Cardinality(firsts) \in Nat
      /\ Picked(ids, firsts) \in Seq(Rows)
      /\ Lists(Picked(ids, firsts), ids, firsts)
  BY <1>5, <1>7, PickedInOrder
<1>9. /\ Cardinality(firsts) \in Nat
      /\ ranks \in Seq(Rows) /\ Len(ranks) = Cardinality(firsts)
  BY <1>4, <1>8 DEF Lists
<1>10. PICK order \in [1..Cardinality(firsts) -> firsts] :
        /\ \A i \in 1..Cardinality(firsts) : ranks[i] = ids[order[i]]
        /\ \A i, j \in 1..Cardinality(firsts) : i < j => order[i] < order[j]
  BY <1>4, <1>8 DEF Lists
<1>11. ASSUME NEW p \in DOMAIN ranks, NEW q \in DOMAIN ranks, ranks[p] = ranks[q] PROVE p = q
  <2>1. p \in 1..Cardinality(firsts) /\ q \in 1..Cardinality(firsts)
    BY <1>9
  <2>2. order[p] \in firsts /\ order[q] \in firsts /\ order[p] = order[q]
    BY <1>6, <1>10, <1>11, <2>1
  <2>3. order[p] \in Nat
    <3>1. order[p] \in 1..n
      BY <1>5, <2>2
    <3> QED
      BY <3>1
  <2>4. ~ (p < q) /\ ~ (q < p)
    BY <1>10, <2>1, <2>2, <2>3
  <2> QED
    BY <2>1, <2>4
<1>12. ranks \in Seq(Nat)
  <2>1. Rows \subseteq Nat
    BY DEF Rows
  <2>2. PICK k \in Nat : k = Len(ranks)
    BY <1>9
  <2>3. ranks \in [1..k -> Rows]
    BY <1>9, <2>2
  <2>4. ranks \in [1..k -> Nat]
    BY <2>1, <2>3
  <2> QED
    BY <2>4
<1>13. \A p \in DOMAIN ranks : ranks[p] \in Rows
  BY <1>9
<1> QED
  BY <1>11, <1>12, <1>13 DEF Rows

(***************************************************************************)
(* The counts of the attempts add up to the entries stored.                *)
(***************************************************************************)
LEMMA EntriesAreFinite ==
  ASSUME entries \in Seq(EntryRow), NEW S \in SUBSET (DOMAIN entries)
  PROVE  IsFiniteSet(S) /\ Cardinality(S) \in Nat
<1>1. PICK n \in Nat : DOMAIN entries = 1..n
  OBVIOUS
<1>2. IsFiniteSet(1..n)
  BY FS_Interval
<1> QED
  BY <1>1, <1>2, FS_Subset, FS_CardinalityType

CountsAddUp(f) ==
  FoldSet(LAMBDA a, n : n + attempts[f][a].insertedEntryCount, 0, DOMAIN attempts[f])
    = Cardinality(EntriesOf(f))

LEMMA CountsAreSummed ==
  ASSUME entries \in Seq(EntryRow), NEW f \in Feed, attempts[f] \in Seq(AttemptRow),
         \A i \in EntriesOf(f) : entries[i].attempt \in Attempts(f),
         \A a \in Attempts(f) : attempts[f][a].insertedEntryCount = Cardinality(EntriesFrom(f, a))
  PROVE  CountsAddUp(f)
<1> DEFINE D == DOMAIN attempts[f]
           Count(a) == attempts[f][a].insertedEntryCount
           Step(it) == [s \in SUBSET D |->
                          IF s = {} THEN 0
                          ELSE it[s \ {CHOOSE x \in s : TRUE}] + Count(CHOOSE x \in s : TRUE)]
           Stored(s) == {i \in EntriesOf(f) : entries[i].attempt \in s}
<1>1. IsFiniteSet(D)
  <2>1. PICK n \in Nat : D = 1..n
    OBVIOUS
  <2> QED
    BY <2>1, FS_Interval
<1>2. \A a \in D : Count(a) = Cardinality(EntriesFrom(f, a)) /\ Count(a) \in Nat
  <2>1. ASSUME NEW a \in D PROVE Cardinality(EntriesFrom(f, a)) \in Nat
    <3>1. EntriesFrom(f, a) \in SUBSET (DOMAIN entries)
      BY DEF EntriesFrom, EntriesOf
    <3> QED
      BY <3>1, EntriesAreFinite
  <2> QED
    BY <2>1 DEF Attempts
<1>3. \A s : IsFiniteSet(Stored(s)) /\ Cardinality(Stored(s)) \in Nat
  <2>1. ASSUME NEW s PROVE Stored(s) \in SUBSET (DOMAIN entries)
    BY DEF EntriesOf
  <2> HIDE DEF Stored
  <2> QED
    BY <2>1, EntriesAreFinite
<1>4. Stored(D) = EntriesOf(f)
  BY DEF Attempts
<1>5. PICK h : h = [x \in D |-> [n \in Nat |-> n + Count(x)]]
  OBVIOUS
<1>6. h \in [D -> [Nat -> Nat]]
  <2> HIDE DEF D, Count
  <2> QED
    BY <1>2, <1>5
<1>7. PICK c : c = [s \in SUBSET D |-> CHOOSE x \in s : TRUE]
  OBVIOUS
<1>8. \A s \in SUBSET D : s # {} => c[s] \in s /\ c[s] = CHOOSE x \in s : TRUE
  BY <1>7
<1> HIDE DEF D, Count
<1>9. PICK g : IsFold(g, D, Nat, 0, h, c)
  BY <1>1, <1>6, <1>8, FoldExists
<1>10. g = Step(g)
  <2>1. g \in [SUBSET D -> Nat]
    BY <1>9 DEF IsFold
  <2>2. PICK k : k = Step(g)
    OBVIOUS
  <2>3. ASSUME NEW s \in SUBSET D PROVE g[s] = k[s]
    <3>1. g[s] = IF s = {} THEN 0 ELSE h[c[s]][g[s \ {c[s]}]]
      BY <1>9 DEF IsFold
    <3>2. CASE s = {}
      BY <2>2, <3>1, <3>2
    <3>3. CASE s # {}
      <4>1. c[s] \in D /\ s \ {c[s]} \in SUBSET D /\ c[s] = CHOOSE x \in s : TRUE
        BY <1>8, <3>3
      <4>2. g[s \ {c[s]}] \in Nat
        BY <2>1, <4>1
      <4>3. h[c[s]][g[s \ {c[s]}]] = g[s \ {c[s]}] + Count(c[s])
        BY <1>5, <4>1, <4>2
      <4>4. k[s] = g[s \ {c[s]}] + Count(c[s])
        BY <2>2, <3>3, <4>1
      <4> QED
        BY <3>1, <3>3, <4>3, <4>4
    <3> QED
      BY <3>2, <3>3
  <2>4. g = [s \in SUBSET D |-> g[s]] /\ k = [s \in SUBSET D |-> k[s]]
    BY <2>1, <2>2
  <2>5. g = k
    BY <2>3, <2>4
  <2> QED
    BY <2>2, <2>5
<1>11. PICK it : /\ it = Step(it)
                 /\ FoldSet(LAMBDA a, n : n + attempts[f][a].insertedEntryCount, 0,
                            DOMAIN attempts[f]) = it[D]
  <2>1. FoldSet(LAMBDA a, n : n + attempts[f][a].insertedEntryCount, 0, DOMAIN attempts[f])
          = (CHOOSE it : it = Step(it))[D]
    BY DEF FoldSet, MapThenFoldSet, D, Count
  <2>2. (CHOOSE it : it = Step(it)) = Step(CHOOSE it : it = Step(it))
    BY <1>10
  <2> QED
    BY <2>1, <2>2
<1> DEFINE T == {m \in Nat : \A s \in SUBSET D :
                   Cardinality(s) = m => it[s] = Cardinality(Stored(s))}
<1>12. 0 \in T
  <2>1. ASSUME NEW s \in SUBSET D, Cardinality(s) = 0 PROVE it[s] = Cardinality(Stored(s))
    <3>1. s = {}
      BY <1>1, <2>1, FS_Subset, FS_EmptySet
    <3>2. Stored(s) = {}
      BY <3>1
    <3>3. it[s] = 0
      BY <1>11, <3>1
    <3> QED
      BY <3>2, <3>3, FS_EmptySet
  <2> QED
    BY <2>1
<1>13. ASSUME NEW m \in T PROVE m + 1 \in T
  <2>1. ASSUME NEW s \in SUBSET D, Cardinality(s) = m + 1 PROVE it[s] = Cardinality(Stored(s))
    <3>1. s # {}
      <4>1. m + 1 # 0
        OBVIOUS
      <4> QED
        BY <2>1, <4>1, FS_EmptySet
    <3>2. PICK x : x = CHOOSE y \in s : TRUE
      OBVIOUS
    <3>3. x \in s /\ x \in D
      BY <3>1, <3>2
    <3>4. s \ {x} \in SUBSET D /\ Cardinality(s \ {x}) = m
      BY <1>1, <2>1, <3>3, Smaller
    <3>5. it[s \ {x}] = Cardinality(Stored(s \ {x}))
      BY <3>4
    <3>6. it[s] = it[s \ {x}] + Count(x)
      BY <1>11, <3>1, <3>2
    <3>7. /\ Stored(s) = Stored(s \ {x}) \cup EntriesFrom(f, x)
          /\ Stored(s \ {x}) \cap EntriesFrom(f, x) = {}
      BY <3>3 DEF EntriesFrom
    <3>8. IsFiniteSet(EntriesFrom(f, x))
      <4>1. EntriesFrom(f, x) \in SUBSET (DOMAIN entries)
        BY DEF EntriesFrom, EntriesOf
      <4> QED
        BY <4>1, EntriesAreFinite
    <3>9. Cardinality(Stored(s)) = Cardinality(Stored(s \ {x})) + Cardinality(EntriesFrom(f, x))
      <4> HIDE DEF Stored
      <4>1. Cardinality(Stored(s \ {x}) \cap EntriesFrom(f, x)) = 0
        BY <3>7, FS_EmptySet
      <4>2. Cardinality(Stored(s \ {x}) \cup EntriesFrom(f, x)) =
              Cardinality(Stored(s \ {x})) + Cardinality(EntriesFrom(f, x))
                - Cardinality(Stored(s \ {x}) \cap EntriesFrom(f, x))
        BY <1>3, <3>8, FS_Union
      <4>3. Cardinality(Stored(s \ {x})) \in Nat /\ Cardinality(EntriesFrom(f, x)) \in Nat
        BY <1>2, <1>3, <3>3
      <4> QED
        BY <3>7, <4>1, <4>2, <4>3
    <3> QED
      BY <1>2, <3>3, <3>5, <3>6, <3>9
  <2> QED
    BY <2>1
<1>14. T \in SUBSET Nat
  OBVIOUS
<1>15. T = Nat
  <2> HIDE DEF T
  <2> QED
    BY <1>12, <1>13, <1>14, SizeInduction
<1>16. it[D] = Cardinality(Stored(D))
  <2>1. Cardinality(D) \in T /\ D \in SUBSET D
    BY <1>1, <1>15, FS_CardinalityType
  <2> HIDE DEF Stored
  <2> QED
    BY <2>1
<1> QED
  BY <1>4, <1>11, <1>16 DEF CountsAddUp

(***************************************************************************)
(* The invariant holds at first and is kept by every action.               *)
(***************************************************************************)
LEMMA InitStore == Init => StoreInv
<1> SUFFICES ASSUME Init PROVE StoreInv
  OBVIOUS
<1>1. entries = <<>> /\ \A f \in Feed : attempts[f] = <<>> /\ EntriesOf(f) = {} /\ cursor[f] = 0
  BY DEF Init, EntriesOf
<1>2. TypeOK
  <2>1. <<>> \in Seq(EntryRow) /\ <<>> \in Seq(AttemptRow)
    OBVIOUS
  <2>2. \A f \in Feed : DeclaredLimit[f] \in Limits /\ DeclaredLimit[f] # 0
    BY StoreAssumption
  <2>3. rankLimit \in [Feed -> Limits \cup {0}] /\ \A f \in Feed : kind[f] = "ranked" => rankLimit[f] # 0
    BY <2>2 DEF Init
  <2>4. job \in [feed: Feed \cup {NoFeed}, limit: Limits \cup {0}]
    BY DEF Init, NoJob
  <2> QED
    BY <2>1, <2>3, <2>4 DEF Init, TypeOK, Kind
<1>3. JobIsRunning
  BY DEF Init, JobIsRunning
<1>4. AttemptsAreInOrder /\ OnlySuccessesStore /\ RanksAreOfStored
  <2>1. \A f \in Feed : DOMAIN attempts[f] = {}
    BY <1>1
  <2> QED
    BY <2>1 DEF AttemptsAreInOrder, OnlySuccessesStore, RanksAreOfStored, Attempts
<1>5. EntriesAreDated /\ FirstSeenThenPublished
  BY <1>1 DEF EntriesAreDated, FirstSeenThenPublished
<1>6. CursorsAreStored
  BY <1>1 DEF CursorsAreStored
<1> QED
  BY <1>2, <1>3, <1>4, <1>5, <1>6 DEF StoreInv

\* Nothing is stored: rows of attempts change their status at most.
SameRows ==
  /\ entries' = entries /\ clock' = clock
  /\ \A f \in Feed :
       /\ DOMAIN attempts'[f] = DOMAIN attempts[f]
       /\ \A a \in DOMAIN attempts[f] :
            /\ attempts'[f][a].startedAt = attempts[f][a].startedAt
            /\ attempts'[f][a].insertedEntryCount = attempts[f][a].insertedEntryCount
            /\ attempts'[f][a].ranks = attempts[f][a].ranks
            /\ attempts[f][a].status = "success" => attempts'[f][a].status = "success"

History ==
  AttemptsAreInOrder /\ EntriesAreDated /\ OnlySuccessesStore /\ RanksAreOfStored
    /\ FirstSeenThenPublished

LEMMA HistoryKept == History /\ SameRows => History'
<1> SUFFICES ASSUME History, SameRows PROVE History'
  OBVIOUS
<1>1. \A f \in Feed : Attempts(f)' = Attempts(f) /\ EntriesOf(f)' = EntriesOf(f)
  BY DEF SameRows, Attempts, EntriesOf
<1>2. \A f \in Feed : \A a \in Attempts(f) :
        StartedAt(f, a)' = StartedAt(f, a) /\ EntriesFrom(f, a)' = EntriesFrom(f, a)
  BY <1>1 DEF SameRows, Attempts, StartedAt, EntriesFrom
<1>3. AttemptsAreInOrder'
  BY <1>1, <1>2 DEF SameRows, History, AttemptsAreInOrder
<1>4. EntriesAreDated'
  <2>1. ASSUME NEW f \in Feed, NEW i \in EntriesOf(f)
        PROVE  /\ entries[i].attempt \in Attempts(f)
               /\ StartedAt(f, entries[i].attempt) < entries[i].firstSeenAt
               /\ entries[i].firstSeenAt <= clock
               /\ \A b \in Attempts(f) :
                    entries[i].attempt < b => entries[i].firstSeenAt < StartedAt(f, b)
    BY DEF History, EntriesAreDated
  <2> QED
    BY <1>1, <1>2, <2>1 DEF SameRows, EntriesAreDated
<1>5. OnlySuccessesStore'
  BY <1>1, <1>2 DEF SameRows, History, OnlySuccessesStore, Attempts
<1>6. RanksAreOfStored'
  BY <1>1, <1>2 DEF SameRows, History, RanksAreOfStored, Attempts
<1>7. FirstSeenThenPublished'
  BY <1>1 DEF SameRows, History, FirstSeenThenPublished
<1> QED
  BY <1>3, <1>4, <1>5, <1>6, <1>7 DEF History

LEMMA RestartStep ==
  ASSUME StoreInv, NEW newKind \in [Feed -> Kind], Restart(newKind)
  PROVE  StoreInv'
<1>1. TypeOK /\ History /\ CursorsAreStored
  BY DEF StoreInv, History
<1>2. ASSUME NEW row \in AttemptRow
      PROVE  /\ EndOfDeadAttempt(row) \in AttemptRow
             /\ EndOfDeadAttempt(row).startedAt = row.startedAt
             /\ EndOfDeadAttempt(row).insertedEntryCount = row.insertedEntryCount
             /\ EndOfDeadAttempt(row).ranks = row.ranks
             /\ row.status = "success" => EndOfDeadAttempt(row).status = "success"
  BY DEF EndOfDeadAttempt, AttemptRow
<1>3. ASSUME NEW f \in Feed
      PROVE  /\ attempts'[f] \in Seq(AttemptRow)
             /\ DOMAIN attempts'[f] = DOMAIN attempts[f]
             /\ \A a \in DOMAIN attempts[f] : attempts'[f][a] = EndOfDeadAttempt(attempts[f][a])
  <2>1. attempts'[f] = [a \in DOMAIN attempts[f] |-> EndOfDeadAttempt(attempts[f][a])]
    BY DEF Restart
  <2>2. PICK n \in Nat : DOMAIN attempts[f] = 1..n
    BY <1>1 DEF TypeOK
  <2>3. \A a \in 1..n : attempts[f][a] \in AttemptRow
    BY <1>1, <2>2 DEF TypeOK
  <2>4. attempts'[f] \in [1..n -> AttemptRow]
    BY <1>2, <2>1, <2>2, <2>3
  <2> QED
    BY <2>1, <2>2, <2>4
<1>4. \A f \in Feed : \A a \in DOMAIN attempts[f] : attempts[f][a] \in AttemptRow
  BY <1>1 DEF TypeOK
<1>5. SameRows
  BY <1>2, <1>3, <1>4 DEF SameRows, Restart
<1>6. TypeOK'
  <2>1. attempts' \in [Feed -> Seq(AttemptRow)]
    <3>1. attempts' = [f \in Feed |-> [a \in DOMAIN attempts[f] |-> EndOfDeadAttempt(attempts[f][a])]]
      BY DEF Restart
    <3>2. \A f \in Feed : attempts'[f] \in Seq(AttemptRow)
      BY <1>3
    <3> QED
      BY <3>1, <3>2
  <2>2. ASSUME NEW f \in Feed
        PROVE  /\ FilledLimit(f, newKind) \in Limits \cup {0}
               /\ newKind[f] = "ranked" => FilledLimit(f, newKind) # 0
    <3>1. rankLimit[f] \in Limits \cup {0} /\ DeclaredLimit[f] \in Limits /\ DeclaredLimit[f] # 0
      BY <1>1, StoreAssumption DEF TypeOK
    <3> QED
      BY <3>1 DEF FilledLimit
  <2>3. /\ rankLimit' \in [Feed -> Limits \cup {0}]
        /\ \A f \in Feed : kind'[f] = "ranked" => rankLimit'[f] # 0
    BY <2>2 DEF Restart
  <2>4. changes' \in Nat
    BY <1>1 DEF Restart, TypeOK
  <2>5. job' \in [feed: Feed \cup {NoFeed}, limit: Limits \cup {0}]
    BY DEF Restart, NoJob
  <2> QED
    BY <1>1, <2>1, <2>3, <2>4, <2>5 DEF Restart, TypeOK
<1>7. JobIsRunning'
  BY DEF Restart, JobIsRunning, NoJob
<1>8. CursorsAreStored'
  BY <1>1 DEF Restart, CursorsAreStored
<1>9. History'
  BY <1>1, <1>5, HistoryKept
<1> QED
  BY <1>6, <1>7, <1>8, <1>9 DEF StoreInv, History

\* A limit, a cursor, or nothing changes.
LEMMA SameTablesStep ==
  StoreInv /\ UNCHANGED <<entries, attempts, job, clock>> /\ TypeOK' /\ CursorsAreStored'
    => StoreInv'
<1> SUFFICES ASSUME StoreInv, UNCHANGED <<entries, attempts, job, clock>>, TypeOK', CursorsAreStored'
             PROVE  StoreInv'
  OBVIOUS
<1>1. History
  BY DEF StoreInv, History
<1>2. SameRows
  BY DEF SameRows
<1>3. History'
  BY <1>1, <1>2, HistoryKept
<1>4. JobIsRunning'
  BY DEF StoreInv, JobIsRunning, AttemptCount
<1> QED
  BY <1>3, <1>4 DEF StoreInv, History

LEMMA SetRankLimitStep ==
  ASSUME StoreInv, NEW f \in Feed, NEW limit \in Limits, SetRankLimit(f, limit)
  PROVE  StoreInv'
<1>1. TypeOK /\ CursorsAreStored
  BY DEF StoreInv
<1>2. limit # 0
  BY StoreAssumption
<1>3. rankLimit' \in [Feed -> Limits \cup {0}] /\ changes' \in Nat
  BY <1>1 DEF SetRankLimit, TypeOK
<1>4. \A g \in Feed : kind'[g] = "ranked" => rankLimit'[g] # 0
  BY <1>1, <1>2 DEF SetRankLimit, TypeOK
<1>5. TypeOK'
  BY <1>1, <1>3, <1>4 DEF SetRankLimit, TypeOK
<1>6. CursorsAreStored' /\ UNCHANGED <<entries, attempts, job, clock>>
  BY <1>1 DEF SetRankLimit, CursorsAreStored
<1> QED
  BY <1>5, <1>6, SameTablesStep

LEMMA MoveReadCursorStep ==
  ASSUME StoreInv, NEW f \in Feed, NEW id \in 1..(Len(entries) + 1), MoveReadCursor(f, id)
  PROVE  StoreInv'
<1>1. TypeOK /\ CursorsAreStored
  BY DEF StoreInv
<1>2. id \in Nat /\ id <= Len(entries)
  <2>1. id \in DOMAIN entries
    BY DEF MoveReadCursor, EntriesOf
  <2> QED
    BY <1>1, <2>1 DEF TypeOK
<1>3. cursor' = [cursor EXCEPT ![f] = IF id > cursor[f] THEN id ELSE cursor[f]]
  BY DEF MoveReadCursor
<1>4. cursor' \in [Feed -> Nat] /\ CursorsAreStored'
  BY <1>1, <1>2, <1>3 DEF TypeOK, CursorsAreStored, MoveReadCursor
<1>5. TypeOK'
  BY <1>1, <1>4 DEF MoveReadCursor, TypeOK
<1>6. UNCHANGED <<entries, attempts, job, clock>>
  BY DEF MoveReadCursor
<1> QED
  BY <1>4, <1>5, <1>6, SameTablesStep

LEMMA StutterStep == StoreInv /\ UNCHANGED vars => StoreInv'
<1> SUFFICES ASSUME StoreInv, UNCHANGED vars PROVE StoreInv'
  OBVIOUS
<1>1. TypeOK' /\ CursorsAreStored' /\ UNCHANGED <<entries, attempts, job, clock>>
  BY DEF StoreInv, vars, TypeOK, CursorsAreStored
<1> QED
  BY <1>1, SameTablesStep

\* The attempt in hand and its row.
LEMMA JobRow ==
  ASSUME StoreInv, job # NoJob, NEW f, f = job.feed, NEW a, a = AttemptCount(f)
  PROVE  /\ f \in Feed /\ attempts[f] \in Seq(AttemptRow)
         /\ a \in Nat /\ a > 0 /\ DOMAIN attempts[f] = 1..a
         /\ attempts[f][a] \in AttemptRow /\ attempts[f][a].status = "running"
<1>1. f \in Feed /\ Len(attempts[f]) > 0 /\ attempts[f][a].status = "running"
  BY DEF StoreInv, JobIsRunning
<1>2. attempts[f] \in Seq(AttemptRow)
  BY <1>1 DEF StoreInv, TypeOK
<1> QED
  BY <1>1, <1>2 DEF AttemptCount

LEMMA FailStep ==
  ASSUME StoreInv, Fail
  PROVE  StoreInv'
<1>1. TypeOK /\ History /\ CursorsAreStored
  BY DEF StoreInv, History
<1>2. PICK f, a : f = job.feed /\ a = AttemptCount(f)
  OBVIOUS
<1>3. /\ f \in Feed /\ attempts[f] \in Seq(AttemptRow)
      /\ a \in Nat /\ a > 0 /\ DOMAIN attempts[f] = 1..a
      /\ attempts[f][a] \in AttemptRow /\ attempts[f][a].status = "running"
  BY <1>2, JobRow DEF Fail
<1>4. PICK row : row = [attempts[f][a] EXCEPT !.status = "failed"]
  OBVIOUS
<1>5. /\ row \in AttemptRow /\ row.startedAt = attempts[f][a].startedAt
      /\ row.insertedEntryCount = attempts[f][a].insertedEntryCount
      /\ row.ranks = attempts[f][a].ranks
  BY <1>3, <1>4 DEF AttemptRow
<1>6. attempts' = [attempts EXCEPT ![f] = [attempts[f] EXCEPT ![a] = row]]
  BY <1>2, <1>4 DEF Fail
<1>7. /\ attempts'[f] = [attempts[f] EXCEPT ![a] = row]
      /\ \A g \in Feed : g # f => attempts'[g] = attempts[g]
  BY <1>1, <1>3, <1>6 DEF TypeOK
<1>8. /\ attempts'[f] \in Seq(AttemptRow) /\ DOMAIN attempts'[f] = DOMAIN attempts[f]
      /\ attempts'[f][a] = row
      /\ \A b \in DOMAIN attempts[f] : b # a => attempts'[f][b] = attempts[f][b]
  BY <1>3, <1>5, <1>7
<1>9. attempts' \in [Feed -> Seq(AttemptRow)]
  BY <1>1, <1>6, <1>7, <1>8 DEF TypeOK
<1>10. entries' = entries /\ clock' = clock
  BY DEF Fail
<1>11. SameRows
  BY <1>3, <1>5, <1>7, <1>8, <1>10 DEF SameRows
<1>12. History'
  BY <1>1, <1>11, HistoryKept
<1>13. job' \in [feed: Feed \cup {NoFeed}, limit: Limits \cup {0}] /\ JobIsRunning'
  BY DEF Fail, NoJob, JobIsRunning
<1>14. TypeOK' /\ CursorsAreStored'
  BY <1>1, <1>9, <1>13 DEF Fail, TypeOK, CursorsAreStored
<1> QED
  BY <1>12, <1>13, <1>14 DEF StoreInv, History

LEMMA StartStep ==
  ASSUME StoreInv, NEW f \in Feed, StartAttempt(f)
  PROVE  StoreInv'
<1>1. TypeOK /\ History /\ CursorsAreStored
  BY DEF StoreInv, History
<1>2. PICK n \in Nat : n = Len(attempts[f]) /\ DOMAIN attempts[f] = 1..n
  BY <1>1 DEF TypeOK
<1>3. PICK row : row = [status |-> "running", startedAt |-> clock + 1,
                        insertedEntryCount |-> 0, ranks |-> <<>>]
  OBVIOUS
<1>4. /\ row \in AttemptRow /\ row.status = "running" /\ row.startedAt = clock + 1
      /\ row.insertedEntryCount = 0 /\ row.ranks = <<>>
  <2>1. clock + 1 \in Nat /\ 0 \in Nat /\ <<>> \in Seq(Nat)
    BY <1>1 DEF TypeOK
  <2> QED
    BY <1>3, <2>1 DEF AttemptRow
<1>5. clock' = clock + 1 /\ entries' = entries /\ clock \in Nat
      /\ attempts' = [attempts EXCEPT ![f] = Append(attempts[f], row)]
  BY <1>1, <1>3 DEF StartAttempt, TypeOK
<1>6. /\ attempts'[f] = Append(attempts[f], row)
      /\ \A g \in Feed : g # f => attempts'[g] = attempts[g]
  BY <1>1, <1>5 DEF TypeOK
<1>7. /\ attempts'[f] \in Seq(AttemptRow) /\ DOMAIN attempts'[f] = 1..(n + 1)
      /\ Len(attempts'[f]) = n + 1
      /\ attempts'[f][n + 1] = row
      /\ \A a \in 1..n : attempts'[f][a] = attempts[f][a]
  BY <1>1, <1>2, <1>4, <1>6 DEF TypeOK
<1>8. \A g \in Feed :
        /\ Attempts(g) \subseteq Attempts(g)' /\ EntriesOf(g)' = EntriesOf(g)
        /\ \A a \in Attempts(g) :
             attempts'[g][a] = attempts[g][a] /\ StartedAt(g, a)' = StartedAt(g, a)
  BY <1>2, <1>5, <1>6, <1>7 DEF Attempts, EntriesOf, StartedAt
<1>9. \A g \in Feed : \A a \in Attempts(g)' :
        a \in Attempts(g) \/ (g = f /\ a = n + 1 /\ attempts'[g][a] = row)
  <2>1. \A a \in 1..(n + 1) : a \in 1..n \/ a = n + 1
    OBVIOUS
  <2> QED
    BY <1>2, <1>6, <1>7, <2>1 DEF Attempts
<1>10. \A g \in Feed : \A a \in Attempts(g) : StartedAt(g, a) <= clock /\ StartedAt(g, a) \in Nat
  <2>1. ASSUME NEW g \in Feed, NEW a \in Attempts(g) PROVE attempts[g][a] \in AttemptRow
    BY <1>1 DEF TypeOK, Attempts
  <2>2. ASSUME NEW g \in Feed, NEW a \in Attempts(g) PROVE StartedAt(g, a) \in Nat
    BY <2>1 DEF StartedAt, AttemptRow
  <2> QED
    BY <1>1, <2>2 DEF History, AttemptsAreInOrder
<1>11. ASSUME NEW g \in Feed, NEW a \in Attempts(g)'
       PROVE  StartedAt(g, a)' <= clock'
  <2>1. CASE a \in Attempts(g)
    BY <1>5, <1>8, <1>10, <2>1
  <2>2. CASE a \notin Attempts(g)
    <3>1. StartedAt(g, a)' = clock + 1
      BY <1>4, <1>9, <2>2 DEF StartedAt
    <3> QED
      BY <1>5, <3>1
  <2> QED
    BY <2>1, <2>2
<1>12. ASSUME NEW g \in Feed, NEW a \in Attempts(g)', NEW b \in Attempts(g)', a < b
       PROVE  StartedAt(g, a)' < StartedAt(g, b)'
  <2>1. CASE a \in Attempts(g) /\ b \in Attempts(g)
    BY <1>1, <1>8, <1>12, <2>1 DEF History, AttemptsAreInOrder
  <2>2. CASE a \in Attempts(g) /\ b \notin Attempts(g)
    <3>1. StartedAt(g, b)' = clock + 1
      BY <1>4, <1>9, <2>2 DEF StartedAt
    <3> QED
      BY <1>5, <1>8, <1>10, <2>2, <3>1
  <2>3. CASE a \notin Attempts(g)
    <3>1. g = f /\ a = n + 1
      BY <1>9, <2>3
    <3>2. b \in 1..(n + 1)
      BY <1>7, <3>1 DEF Attempts
    <3> QED
      BY <1>12, <3>1, <3>2
  <2> QED
    BY <2>1, <2>2, <2>3
<1>13. AttemptsAreInOrder'
  BY <1>11, <1>12 DEF AttemptsAreInOrder
<1>14. ASSUME NEW g \in Feed, NEW i \in EntriesOf(g)
       PROVE  /\ entries[i].attempt \in Attempts(g)
              /\ StartedAt(g, entries[i].attempt) < entries[i].firstSeenAt
              /\ entries[i].firstSeenAt <= clock /\ entries[i].firstSeenAt \in Nat
              /\ \A b \in Attempts(g) :
                   entries[i].attempt < b => entries[i].firstSeenAt < StartedAt(g, b)
  <2>1. entries[i] \in EntryRow
    BY <1>1 DEF TypeOK, EntriesOf
  <2>2. entries[i].firstSeenAt \in Nat
    BY <2>1 DEF EntryRow
  <2> QED
    BY <1>1, <2>2 DEF History, EntriesAreDated
<1>15. EntriesAreDated'
  <2>1. ASSUME NEW g \in Feed, NEW i \in EntriesOf(g), NEW b \in Attempts(g)', entries[i].attempt < b
        PROVE  entries[i].firstSeenAt < StartedAt(g, b)'
    <3>1. CASE b \in Attempts(g)
      BY <1>8, <1>14, <2>1, <3>1
    <3>2. CASE b \notin Attempts(g)
      <4>1. StartedAt(g, b)' = clock + 1
        BY <1>4, <1>9, <3>2 DEF StartedAt
      <4> QED
        BY <1>5, <1>14, <4>1
    <3> QED
      BY <3>1, <3>2
  <2>2. ASSUME NEW g \in Feed, NEW i \in EntriesOf(g)
        PROVE  /\ entries[i].attempt \in Attempts(g)'
               /\ StartedAt(g, entries[i].attempt)' < entries[i].firstSeenAt
               /\ entries[i].firstSeenAt <= clock'
    BY <1>5, <1>8, <1>14
  <2> QED
    BY <1>5, <1>8, <2>1, <2>2 DEF EntriesAreDated
<1>16. \A g \in Feed : \A a \in Attempts(g) : EntriesFrom(g, a)' = EntriesFrom(g, a)
  BY <1>5, <1>8 DEF EntriesFrom
<1>17. EntriesFrom(f, n + 1)' = {}
  <2>1. n + 1 \notin Attempts(f)
    BY <1>2 DEF Attempts
  <2>2. \A i \in EntriesOf(f) : entries[i].attempt # n + 1
    BY <1>14, <2>1
  <2> QED
    BY <1>5, <1>8, <2>2 DEF EntriesFrom
<1>18. OnlySuccessesStore'
  <2>1. ASSUME NEW g \in Feed, NEW a \in Attempts(g)'
        PROVE  /\ attempts'[g][a].insertedEntryCount = Cardinality(EntriesFrom(g, a)')
               /\ attempts'[g][a].status # "success" =>
                    attempts'[g][a].ranks = <<>> /\ EntriesFrom(g, a)' = {}
    <3>1. CASE a \in Attempts(g)
      BY <1>1, <1>8, <1>16, <3>1 DEF History, OnlySuccessesStore
    <3>2. CASE a \notin Attempts(g)
      BY <1>4, <1>9, <1>17, <3>2, FS_EmptySet
    <3> QED
      BY <3>1, <3>2
  <2> QED
    BY <2>1 DEF OnlySuccessesStore
<1>19. RanksAreOfStored'
  <2>1. ASSUME NEW g \in Feed, NEW a \in Attempts(g)'
        PROVE  /\ \A p \in DOMAIN attempts'[g][a].ranks :
                    /\ attempts'[g][a].ranks[p] \in EntriesOf(g)'
                    /\ entries'[attempts'[g][a].ranks[p]].attempt <= a
               /\ \A p, q \in DOMAIN attempts'[g][a].ranks :
                    attempts'[g][a].ranks[p] = attempts'[g][a].ranks[q] => p = q
    <3>1. CASE a \in Attempts(g)
      <4>1. /\ \A p \in DOMAIN attempts[g][a].ranks :
                 /\ attempts[g][a].ranks[p] \in EntriesOf(g)
                 /\ entries[attempts[g][a].ranks[p]].attempt <= a
            /\ \A p, q \in DOMAIN attempts[g][a].ranks :
                 attempts[g][a].ranks[p] = attempts[g][a].ranks[q] => p = q
        BY <1>1, <3>1 DEF History, RanksAreOfStored
      <4>2. attempts'[g][a] = attempts[g][a] /\ entries' = entries /\ EntriesOf(g)' = EntriesOf(g)
        BY <1>5, <1>8, <3>1
      <4> QED
        BY <4>1, <4>2
    <3>2. CASE a \notin Attempts(g)
      <4>1. DOMAIN attempts'[g][a].ranks = {}
        BY <1>4, <1>9, <3>2
      <4> QED
        BY <4>1
    <3> QED
      BY <3>1, <3>2
  <2> QED
    BY <2>1 DEF RanksAreOfStored
<1>20. FirstSeenThenPublished'
  BY <1>1, <1>5, <1>8 DEF History, FirstSeenThenPublished
<1>21. /\ job' \in [feed: Feed \cup {NoFeed}, limit: Limits \cup {0}]
       /\ job'.feed = f
  <2>1. resolveRankLimit(f) \in Limits \cup {0}
    BY <1>1, StoreAssumption DEF TypeOK, resolveRankLimit
  <2> QED
    BY <2>1 DEF StartAttempt
<1>22. JobIsRunning'
  BY <1>4, <1>7, <1>21 DEF JobIsRunning, AttemptCount
<1>23. attempts' \in [Feed -> Seq(AttemptRow)]
  BY <1>1, <1>5, <1>6, <1>7 DEF TypeOK
<1>24. TypeOK' /\ CursorsAreStored'
  <2>1. UNCHANGED <<kind, rankLimit, cursor, entries, changes>>
    BY DEF StartAttempt
  <2>2. clock' \in Nat
    BY <1>5
  <2>3. TypeOK'
    BY <1>1, <1>21, <1>23, <2>1, <2>2 DEF TypeOK
  <2> QED
    BY <1>1, <2>1, <2>3 DEF CursorsAreStored
<1> QED
  BY <1>13, <1>15, <1>18, <1>19, <1>20, <1>22, <1>24 DEF StoreInv

\* What a success stores, and the row it completes.
Stores(f, a, row) ==
  /\ Grown(f, entries') /\ InPublishedOrder(entries')
  /\ row \in AttemptRow /\ row.status = "success"
  /\ row.startedAt = attempts[f][a].startedAt
  /\ row.insertedEntryCount = Len(entries') - Len(entries)
  /\ \A p \in DOMAIN row.ranks :
       row.ranks[p] \in DOMAIN entries' /\ entries'[row.ranks[p]].feed = f
  /\ \A p, q \in DOMAIN row.ranks : row.ranks[p] = row.ranks[q] => p = q

LEMMA SuccessStores ==
  ASSUME StoreInv, NEW batch \in Batch, Succeed(batch),
         NEW f, f = job.feed, NEW a, a = AttemptCount(f)
  PROVE  \E row : /\ Stores(f, a, row)
                  /\ attempts' = [attempts EXCEPT ![f] = [attempts[f] EXCEPT ![a] = row]]
<1>1. TypeOK
  BY DEF StoreInv
<1>2. /\ f \in Feed /\ attempts[f] \in Seq(AttemptRow) /\ a \in Nat
      /\ attempts[f][a] \in AttemptRow
  BY JobRow DEF Succeed
<1>3. PICK limited : limited = Limited(batch)
  OBVIOUS
<1>4. limited \in Seq(Draft)
  <2>1. job.limit \in Limits \cup {0}
    BY <1>1 DEF TypeOK
  <2>2. job.limit \in Nat
    <3>1. \A l \in Limits \cup {0} : l \in Nat
      BY StoreAssumption
    <3> QED
      BY <2>1, <3>1
  <2> QED
    BY <1>3, <2>2, LimitedType
<1>5. PICK drafts : drafts = filterByPublishedSince(f, limited)
  OBVIOUS
<1>6. drafts \in Seq(Draft)
  BY <1>4, <1>5, FilteredType
<1>7. PICK table : table = Inserted(f, drafts)
  OBVIOUS
<1>8. /\ Grown(f, table) /\ InPublishedOrder(table)
      /\ \A n \in 1..Len(drafts) : HasKey(f, table, drafts[n].key)
  <2>1. clock \in Nat /\ entries \in Seq(EntryRow) /\ AttemptCount(f) \in Nat
    BY <1>1, <1>2 DEF TypeOK
  <2> QED
    BY <1>2, <1>6, <1>7, <2>1, InsertedTable
<1>9. PICK ranks : ranks = IF job.limit = 0 THEN <<>> ELSE insertRankSnapshot(f, drafts, table)
  OBVIOUS
<1>10. /\ ranks \in Seq(Nat)
       /\ \A p \in DOMAIN ranks : ranks[p] \in DOMAIN table /\ table[ranks[p]].feed = f
       /\ \A p, q \in DOMAIN ranks : ranks[p] = ranks[q] => p = q
  <2>1. CASE job.limit = 0
    BY <1>9, <2>1
  <2>2. CASE job.limit # 0
    <3>1. ranks = insertRankSnapshot(f, drafts, table) /\ table \in Seq(EntryRow)
      BY <1>8, <1>9, <2>2 DEF Grown
    <3> QED
      BY <1>2, <1>6, <1>8, <3>1, SnapshotIsOfStored
  <2> QED
    BY <2>1, <2>2
<1>11. PICK row : row = [attempts[f][a] EXCEPT !.status = "success",
                           !.insertedEntryCount = InsertedCount(drafts, table),
                           !.ranks = ranks]
  OBVIOUS
<1>12. entries' = table
  BY <1>3, <1>5, <1>7 DEF Succeed
<1>13. attempts' = [attempts EXCEPT ![f] = [attempts[f] EXCEPT ![a] = row]]
  BY <1>3, <1>5, <1>7, <1>9, <1>11 DEF Succeed
<1>14. InsertedCount(drafts, table) = Len(table) - Len(entries)
       /\ InsertedCount(drafts, table) \in Nat
  BY <1>8 DEF InsertedCount, Grown
<1>15. /\ row \in AttemptRow /\ row.status = "success"
       /\ row.startedAt = attempts[f][a].startedAt
       /\ row.insertedEntryCount = Len(table) - Len(entries)
       /\ row.ranks = ranks
  BY <1>2, <1>10, <1>11, <1>14 DEF AttemptRow
<1>16. Stores(f, a, row)
  BY <1>8, <1>10, <1>12, <1>15 DEF Stores
<1> QED
  BY <1>13, <1>16

LEMMA SucceedStep ==
  ASSUME StoreInv, NEW batch \in Batch, Succeed(batch)
  PROVE  StoreInv'
<1>1. TypeOK /\ History /\ CursorsAreStored
  BY DEF StoreInv, History
<1>2. PICK f, a : f = job.feed /\ a = AttemptCount(f)
  OBVIOUS
<1>3. /\ f \in Feed /\ attempts[f] \in Seq(AttemptRow)
      /\ a \in Nat /\ a > 0 /\ DOMAIN attempts[f] = 1..a
      /\ attempts[f][a] \in AttemptRow /\ attempts[f][a].status = "running"
  BY <1>2, JobRow DEF Succeed
<1>4. PICK row : /\ Stores(f, a, row)
                 /\ attempts' = [attempts EXCEPT ![f] = [attempts[f] EXCEPT ![a] = row]]
  BY <1>2, SuccessStores
<1>5. /\ attempts'[f] = [attempts[f] EXCEPT ![a] = row]
      /\ \A g \in Feed : g # f => attempts'[g] = attempts[g]
  BY <1>1, <1>3, <1>4 DEF TypeOK
<1>6. row \in AttemptRow /\ row.status = "success" /\ row.startedAt = attempts[f][a].startedAt
  BY <1>4 DEF Stores
<1>7. /\ attempts'[f] \in Seq(AttemptRow) /\ DOMAIN attempts'[f] = DOMAIN attempts[f]
      /\ attempts'[f][a] = row
      /\ \A b \in DOMAIN attempts[f] : b # a => attempts'[f][b] = attempts[f][b]
  BY <1>3, <1>5, <1>6
<1>8. \A g \in Feed :
        /\ Attempts(g)' = Attempts(g)
        /\ \A b \in Attempts(g) :
             /\ (g = f /\ b = a) \/ attempts'[g][b] = attempts[g][b]
             /\ StartedAt(g, b)' = StartedAt(g, b)
  BY <1>5, <1>6, <1>7 DEF Attempts, StartedAt
<1>9. PICK n \in Nat, m \in Nat : n = Len(entries) /\ m = Len(entries')
  BY <1>4 DEF Stores, Grown
<1>10. /\ entries' \in Seq(EntryRow) /\ n <= m
       /\ DOMAIN entries = 1..n /\ DOMAIN entries' = 1..m
       /\ \A i \in 1..n : entries'[i] = entries[i]
       /\ \A i \in (n + 1)..m : entries'[i].feed = f /\ entries'[i].attempt = a
                                 /\ entries'[i].firstSeenAt = clock + 1
       /\ \A i, j \in (n + 1)..m : i < j => entries'[i].publishedAt <= entries'[j].publishedAt
  <2>1. entries \in Seq(EntryRow) /\ entries' \in Seq(EntryRow) /\ n <= m
    BY <1>1, <1>4, <1>9 DEF TypeOK, Stores, Grown
  <2>2. DOMAIN entries = 1..n /\ DOMAIN entries' = 1..m
    BY <1>9, <2>1
  <2>3. \A i \in 1..n : entries'[i] = entries[i]
    BY <1>4, <1>9 DEF Stores, Grown
  <2>4. \A i \in (n + 1)..m : NewRow(f, entries'[i])
    BY <1>4, <1>9 DEF Stores, Grown
  <2>5. \A i, j \in (n + 1)..m : i < j => entries'[i].publishedAt <= entries'[j].publishedAt
    BY <1>4, <1>9 DEF Stores, InPublishedOrder
  <2> QED
    BY <1>2, <2>1, <2>2, <2>3, <2>4, <2>5 DEF NewRow
<1>11. ASSUME NEW g \in Feed
       PROVE  EntriesOf(g)' = EntriesOf(g) \cup (IF g = f THEN (n + 1)..m ELSE {})
  <2>1. \A i : i \in 1..m <=> i \in 1..n \/ i \in (n + 1)..m
    BY <1>10
  <2>2. \A i : i \in EntriesOf(g) <=> i \in 1..n /\ entries[i].feed = g
    BY <1>10 DEF EntriesOf
  <2>3. \A i : i \in EntriesOf(g)' <=> i \in 1..m /\ entries'[i].feed = g
    BY <1>10 DEF EntriesOf
  <2>4. \A i : i \in 1..n => i \notin (n + 1)..m
    OBVIOUS
  <2>5. ASSUME NEW i
        PROVE  i \in EntriesOf(g)' <=> i \in EntriesOf(g) \cup (IF g = f THEN (n + 1)..m ELSE {})
    BY <1>10, <2>1, <2>2, <2>3, <2>4
  <2> QED
    BY <2>5
<1>12. clock' = clock + 1 /\ clock \in Nat
  BY <1>1 DEF Succeed, TypeOK
<1>13. ASSUME NEW g \in Feed, NEW i \in EntriesOf(g)
       PROVE  /\ i \in 1..n /\ entries'[i] = entries[i] /\ i \in EntriesOf(g)'
              /\ entries[i].attempt \in Attempts(g)
              /\ StartedAt(g, entries[i].attempt) < entries[i].firstSeenAt
              /\ entries[i].firstSeenAt <= clock /\ entries[i].firstSeenAt \in Nat
              /\ \A b \in Attempts(g) :
                   entries[i].attempt < b => entries[i].firstSeenAt < StartedAt(g, b)
  <2>1. i \in 1..n
    BY <1>10 DEF EntriesOf
  <2>2. entries[i] \in EntryRow
    BY <1>1, <1>10, <2>1 DEF TypeOK
  <2>3. entries[i].firstSeenAt \in Nat
    BY <2>2 DEF EntryRow
  <2>4. i \in EntriesOf(g)'
    BY <1>11
  <2> QED
    BY <1>1, <1>10, <2>1, <2>3, <2>4 DEF History, EntriesAreDated
<1>14. StartedAt(f, a) <= clock /\ StartedAt(f, a) \in Nat /\ a \in Attempts(f)
  <2>1. a \in Attempts(f)
    BY <1>3 DEF Attempts
  <2>2. StartedAt(f, a) \in Nat
    BY <1>3 DEF StartedAt, AttemptRow
  <2> QED
    BY <1>1, <1>3, <2>1, <2>2 DEF History, AttemptsAreInOrder
<1>15. AttemptsAreInOrder'
  <2>1. ASSUME NEW g \in Feed, NEW b \in Attempts(g)
        PROVE  StartedAt(g, b)' <= clock'
    <3>1. attempts[g][b] \in AttemptRow
      BY <1>1 DEF TypeOK, Attempts
    <3>2. StartedAt(g, b) \in Nat
      BY <3>1 DEF StartedAt, AttemptRow
    <3>3. StartedAt(g, b) <= clock
      BY <1>1 DEF History, AttemptsAreInOrder
    <3> QED
      BY <1>8, <1>12, <3>2, <3>3
  <2>2. ASSUME NEW g \in Feed, NEW b \in Attempts(g), NEW d \in Attempts(g), b < d
        PROVE  StartedAt(g, b)' < StartedAt(g, d)'
    BY <1>1, <1>8, <2>2 DEF History, AttemptsAreInOrder
  <2> QED
    BY <1>8, <2>1, <2>2 DEF AttemptsAreInOrder
<1>16. EntriesAreDated'
  <2>1. ASSUME NEW g \in Feed, NEW i \in EntriesOf(g)', NEW e, e = entries'[i].attempt
        PROVE  /\ e \in Attempts(g)
               /\ StartedAt(g, e) < entries'[i].firstSeenAt
               /\ entries'[i].firstSeenAt <= clock'
               /\ \A b \in Attempts(g) : e < b => entries'[i].firstSeenAt < StartedAt(g, b)
    <3>1. CASE i \in EntriesOf(g)
      <4>1. e = entries[i].attempt /\ entries'[i].firstSeenAt = entries[i].firstSeenAt
        BY <1>13, <2>1, <3>1
      <4>2. entries[i].firstSeenAt <= clock'
        BY <1>12, <1>13, <3>1
      <4> QED
        BY <1>13, <3>1, <4>1, <4>2
    <3>2. CASE i \notin EntriesOf(g)
      <4>1. g = f /\ i \in (n + 1)..m
        BY <1>11, <3>2
      <4>2. e = a /\ entries'[i].firstSeenAt = clock + 1
        BY <1>10, <2>1, <4>1
      <4>3. \A b \in Attempts(f) : ~ (a < b)
        BY <1>3 DEF Attempts
      <4>4. StartedAt(f, a) < clock + 1 /\ clock + 1 <= clock'
        BY <1>12, <1>14
      <4> QED
        BY <1>14, <4>1, <4>2, <4>3, <4>4
    <3> QED
      BY <3>1, <3>2
  <2>2. ASSUME NEW g \in Feed, NEW i \in EntriesOf(g)'
        PROVE  /\ entries'[i].attempt \in Attempts(g)'
               /\ attempts'[g][entries'[i].attempt].startedAt < entries'[i].firstSeenAt
               /\ entries'[i].firstSeenAt <= clock'
               /\ \A b \in Attempts(g)' :
                    entries'[i].attempt < b => entries'[i].firstSeenAt < attempts'[g][b].startedAt
    <3>1. PICK e : e = entries'[i].attempt
      OBVIOUS
    <3>2. \A b \in Attempts(g) : attempts'[g][b].startedAt = StartedAt(g, b)
      BY <1>8 DEF StartedAt
    <3>3. Attempts(g)' = Attempts(g)
      BY <1>8
    <3> QED
      BY <2>1, <3>1, <3>2, <3>3
  <2> QED
    BY <2>2 DEF EntriesAreDated, StartedAt
<1>17. ASSUME NEW g \in Feed, NEW b \in Attempts(g), ~ (g = f /\ b = a)
       PROVE  EntriesFrom(g, b)' = EntriesFrom(g, b)
  <2>1. ASSUME NEW i PROVE i \in EntriesFrom(g, b)' <=> i \in EntriesFrom(g, b)
    <3>1. CASE i \in EntriesOf(g)
      BY <1>13, <3>1 DEF EntriesFrom
    <3>2. CASE i \notin EntriesOf(g)
      BY <1>10, <1>11, <1>17, <3>2 DEF EntriesFrom
    <3> QED
      BY <3>1, <3>2
  <2> QED
    BY <2>1
<1>18. EntriesFrom(f, a)' = (n + 1)..m
  <2>1. EntriesFrom(f, a) = {}
    BY <1>1, <1>3, <1>14 DEF History, OnlySuccessesStore
  <2>2. ASSUME NEW i PROVE i \in EntriesFrom(f, a)' <=> i \in (n + 1)..m
    <3>1. CASE i \in EntriesOf(f)
      <4>1. entries'[i].attempt # a /\ i \in 1..n
        BY <1>3, <1>13, <2>1, <3>1 DEF EntriesFrom
      <4> QED
        BY <4>1 DEF EntriesFrom
    <3>2. CASE i \notin EntriesOf(f)
      BY <1>3, <1>10, <1>11, <3>2 DEF EntriesFrom
    <3> QED
      BY <3>1, <3>2
  <2> QED
    BY <2>2
<1>19. Cardinality(EntriesFrom(f, a)') = m - n
  <2>1. n + 1 \in Int /\ m \in Int /\ (n + 1 > m => m - n = 0) /\ m - (n + 1) + 1 = m - n
    BY <1>10
  <2> QED
    BY <1>18, <2>1, FS_Interval
<1>20. OnlySuccessesStore'
  <2>1. ASSUME NEW g \in Feed, NEW b \in Attempts(g)
        PROVE  /\ attempts'[g][b].insertedEntryCount = Cardinality(EntriesFrom(g, b)')
               /\ attempts'[g][b].status # "success" =>
                    attempts'[g][b].ranks = <<>> /\ EntriesFrom(g, b)' = {}
    <3>1. CASE g = f /\ b = a
      BY <1>4, <1>7, <1>9, <1>19, <3>1 DEF Stores
    <3>2. CASE ~ (g = f /\ b = a)
      BY <1>1, <1>8, <1>17, <3>2 DEF History, OnlySuccessesStore
    <3> QED
      BY <3>1, <3>2
  <2> QED
    BY <1>8, <2>1 DEF OnlySuccessesStore
<1>21. RanksAreOfStored'
  <2>1. ASSUME NEW g \in Feed, NEW b \in Attempts(g), NEW ranks, ranks = attempts'[g][b].ranks
        PROVE  /\ \A p \in DOMAIN ranks :
                    ranks[p] \in EntriesOf(g)' /\ entries'[ranks[p]].attempt <= b
               /\ \A p, q \in DOMAIN ranks : ranks[p] = ranks[q] => p = q
    <3>1. CASE g = f /\ b = a
      <4>1. ranks = row.ranks
        BY <1>7, <2>1, <3>1
      <4>2. \A p \in DOMAIN ranks : ranks[p] \in EntriesOf(f)'
        BY <1>4, <4>1 DEF Stores, EntriesOf
      <4>3. \A p \in DOMAIN ranks : entries'[ranks[p]].attempt \in 1..a
        BY <1>3, <1>8, <1>16, <4>2 DEF EntriesAreDated, Attempts
      <4>4. \A p, q \in DOMAIN ranks : ranks[p] = ranks[q] => p = q
        BY <1>4, <4>1 DEF Stores
      <4> QED
        BY <3>1, <4>2, <4>3, <4>4
    <3>2. CASE ~ (g = f /\ b = a)
      <4>1. ranks = attempts[g][b].ranks
        BY <1>8, <2>1, <3>2
      <4>2. /\ \A p \in DOMAIN ranks : ranks[p] \in EntriesOf(g) /\ entries[ranks[p]].attempt <= b
            /\ \A p, q \in DOMAIN ranks : ranks[p] = ranks[q] => p = q
        BY <1>1, <4>1 DEF History, RanksAreOfStored
      <4> QED
        BY <1>13, <4>2
    <3> QED
      BY <3>1, <3>2
  <2> QED
    BY <1>8, <2>1 DEF RanksAreOfStored
<1>22. FirstSeenThenPublished'
  <2>1. ASSUME NEW g \in Feed, NEW i \in EntriesOf(g)', NEW j \in EntriesOf(g)', i < j
        PROVE  \/ entries'[i].firstSeenAt < entries'[j].firstSeenAt
               \/ /\ entries'[i].firstSeenAt = entries'[j].firstSeenAt
                  /\ entries'[i].publishedAt <= entries'[j].publishedAt
    <3>1. CASE i \in EntriesOf(g) /\ j \in EntriesOf(g)
      BY <1>1, <1>13, <2>1, <3>1 DEF History, FirstSeenThenPublished
    <3>2. CASE i \in EntriesOf(g) /\ j \notin EntriesOf(g)
      <4>1. j \in (n + 1)..m /\ entries'[j].firstSeenAt = clock + 1
        BY <1>10, <1>11, <3>2
      <4>2. entries'[i].firstSeenAt <= clock /\ entries'[i].firstSeenAt \in Nat
        BY <1>13, <3>2
      <4> QED
        BY <1>12, <4>1, <4>2
    <3>3. CASE i \notin EntriesOf(g) /\ j \in EntriesOf(g)
      <4>1. i \in (n + 1)..m /\ j \in 1..n
        BY <1>11, <1>13, <3>3
      <4> QED
        BY <2>1, <4>1
    <3>4. CASE i \notin EntriesOf(g) /\ j \notin EntriesOf(g)
      <4>1. i \in (n + 1)..m /\ j \in (n + 1)..m
        BY <1>11, <3>4
      <4> QED
        BY <1>10, <2>1, <4>1
    <3> QED
      BY <3>1, <3>2, <3>3, <3>4
  <2> QED
    BY <2>1 DEF FirstSeenThenPublished
<1>23. UNCHANGED <<kind, rankLimit, cursor, changes>> /\ job' = NoJob
  BY DEF Succeed
<1>24. JobIsRunning'
  BY <1>23 DEF JobIsRunning, NoJob
<1>25. CursorsAreStored'
  <2>1. \A g \in Feed : cursor[g] \in Nat /\ cursor[g] <= n
    BY <1>1, <1>9 DEF TypeOK, CursorsAreStored
  <2>2. \A g \in Feed : cursor'[g] <= m
    BY <1>10, <1>23, <2>1
  <2> QED
    BY <1>9, <2>2 DEF CursorsAreStored
<1>26. TypeOK'
  <2>1. attempts' \in [Feed -> Seq(AttemptRow)]
    BY <1>1, <1>4, <1>5, <1>7 DEF TypeOK
  <2>2. job' \in [feed: Feed \cup {NoFeed}, limit: Limits \cup {0}] /\ clock' \in Nat
    BY <1>12, <1>23 DEF NoJob
  <2> QED
    BY <1>1, <1>10, <1>23, <2>1, <2>2 DEF TypeOK
<1> QED
  BY <1>15, <1>16, <1>20, <1>21, <1>22, <1>24, <1>25, <1>26 DEF StoreInv

LEMMA NextStore == StoreInv /\ [Next]_vars => StoreInv'
<1> SUFFICES ASSUME StoreInv, [Next]_vars PROVE StoreInv'
  OBVIOUS
<1>1. ASSUME NEW newKind \in [Feed -> Kind], Restart(newKind) PROVE StoreInv'
  BY <1>1, RestartStep
<1>2. ASSUME NEW f \in Feed, NEW limit \in Limits, SetRankLimit(f, limit) PROVE StoreInv'
  BY <1>2, SetRankLimitStep
<1>3. ASSUME NEW f \in Feed, StartAttempt(f) PROVE StoreInv'
  BY <1>3, StartStep
<1>4. ASSUME NEW batch \in Batch, Succeed(batch) PROVE StoreInv'
  BY <1>4, SucceedStep
<1>5. CASE Fail
  BY <1>5, FailStep
<1>6. ASSUME NEW f \in Feed, NEW id \in 1..(Len(entries) + 1), MoveReadCursor(f, id)
      PROVE  StoreInv'
  BY <1>6, MoveReadCursorStep
<1>7. CASE UNCHANGED vars
  BY <1>7, StutterStep
<1> QED
  BY <1>1, <1>2, <1>3, <1>4, <1>5, <1>6, <1>7 DEF Next

\* The invariant holds in every state: the tables a restart, a failure and a
\* success of any batch leave (fetch-attempt.ts).
THEOREM StoreInvHolds == Spec => []StoreInv
  BY InitStore, NextStore, PTL DEF Spec

(***************************************************************************)
(* Ids follow first seen and then publishing, and the counts of the        *)
(* attempt history add up to the entries stored, whatever handlers return: *)
(* the order of toEntryRows, the conflict rule of the insert and the count *)
(* of its returning clause (fetch-attempt.ts).                             *)
(***************************************************************************)
THEOREM OrderAndCounts == Spec => []EntriesAreInOrder
<1>1. StoreInv => EntriesAreInOrder
  <2> SUFFICES ASSUME StoreInv PROVE EntriesAreInOrder
    OBVIOUS
  <2>1. ASSUME NEW f \in Feed PROVE CountsAddUp(f)
    <3>1. entries \in Seq(EntryRow) /\ attempts[f] \in Seq(AttemptRow)
      BY DEF StoreInv, TypeOK
    <3>2. \A i \in EntriesOf(f) : entries[i].attempt \in Attempts(f)
      BY DEF StoreInv, EntriesAreDated
    <3>3. \A a \in Attempts(f) : attempts[f][a].insertedEntryCount = Cardinality(EntriesFrom(f, a))
      BY DEF StoreInv, OnlySuccessesStore
    <3> QED
      BY <3>1, <3>2, <3>3, CountsAreSummed
  <2>2. InsertedCountsAddUp
    BY <2>1 DEF InsertedCountsAddUp, CountsAddUp
  <2> QED
    BY <2>2 DEF StoreInv, EntriesAreInOrder
<1> QED
  BY <1>1, StoreInvHolds, PTL

(***************************************************************************)
(* What is passed stays read, what is stored later is unread, and the      *)
(* number shown grows by what is stored and no more (feed-routes.ts), for  *)
(* any ids clients send.                                                   *)
(***************************************************************************)
\* What a step does to the table and to the cursors.
LEMMA TableGrows ==
  ASSUME StoreInv, [Next]_vars
  PROVE  /\ Len(entries) <= Len(entries')
         /\ \A i \in DOMAIN entries : i \in DOMAIN entries' /\ entries'[i] = entries[i]
         /\ \A f \in Feed : cursor[f] \in Nat /\ cursor'[f] \in Nat /\ cursor[f] <= cursor'[f]
         /\ entries' = entries \/ cursor' = cursor
<1>1. entries \in Seq(EntryRow) /\ cursor \in [Feed -> Nat]
  BY DEF StoreInv, TypeOK
<1>2. CASE entries' = entries /\ cursor' = cursor
  BY <1>1, <1>2
<1>3. ASSUME NEW f \in Feed, NEW id \in 1..(Len(entries) + 1), MoveReadCursor(f, id)
      PROVE  /\ entries' = entries
             /\ \A g \in Feed : cursor'[g] \in Nat /\ cursor[g] <= cursor'[g]
  <2>1. id \in Nat /\ entries' = entries
        /\ cursor' = [cursor EXCEPT ![f] = IF id > cursor[f] THEN id ELSE cursor[f]]
    BY <1>1, <1>3 DEF MoveReadCursor
  <2> QED
    BY <1>1, <2>1
<1>4. ASSUME NEW batch \in Batch, Succeed(batch)
      PROVE  /\ Len(entries) <= Len(entries') /\ cursor' = cursor
             /\ \A i \in DOMAIN entries : i \in DOMAIN entries' /\ entries'[i] = entries[i]
  <2>1. PICK f, a : f = job.feed /\ a = AttemptCount(f)
    OBVIOUS
  <2>2. PICK row : Stores(f, a, row)
    BY <1>4, <2>1, SuccessStores
  <2>3. Grown(f, entries')
    BY <2>2 DEF Stores
  <2>4. cursor' = cursor
    BY <1>4 DEF Succeed
  <2> QED
    BY <1>1, <2>3, <2>4 DEF Grown
<1>5. CASE \E batch \in Batch : Succeed(batch)
  BY <1>1, <1>4, <1>5
<1>6. CASE \E f \in Feed, id \in 1..(Len(entries) + 1) : MoveReadCursor(f, id)
  BY <1>1, <1>3, <1>6
<1>7. CASE UNCHANGED vars \/ Fail \/ \E f \in Feed : StartAttempt(f)
  BY <1>2, <1>7 DEF vars, Fail, StartAttempt
<1>8. CASE \/ \E newKind \in [Feed -> Kind] : Restart(newKind)
           \/ \E f \in Feed, limit \in Limits : SetRankLimit(f, limit)
  BY <1>2, <1>8 DEF Restart, SetRankLimit
<1> QED
  BY <1>5, <1>6, <1>7, <1>8 DEF Next

LEMMA UnreadStep ==
  ASSUME StoreInv, [Next]_vars, NEW f \in Feed,
         NEW new, new = EntriesOf(f)' \ EntriesOf(f)
  PROVE  /\ Unread(f)' \ Unread(f) = new
         /\ kind'[f] = kind[f] => unreadCount(f)' <= unreadCount(f) + Cardinality(new)
<1>1. /\ entries \in Seq(EntryRow) /\ entries' \in Seq(EntryRow)
      /\ StoreInv'
  BY NextStore DEF StoreInv, TypeOK
<1>2. PICK n \in Nat : n = Len(entries) /\ DOMAIN entries = 1..n
  BY <1>1
<1>3. /\ \A i \in DOMAIN entries : i \in DOMAIN entries' /\ entries'[i] = entries[i]
      /\ cursor[f] \in Nat /\ cursor'[f] \in Nat /\ cursor[f] <= cursor'[f]
      /\ entries' = entries \/ cursor' = cursor
  BY TableGrows
<1>4. cursor[f] <= n
  BY <1>2 DEF StoreInv, CursorsAreStored
<1>5. PICK m \in Nat : DOMAIN entries' = 1..m
  BY <1>1
<1>6. ASSUME NEW i PROVE i \in EntriesOf(f) => i \in EntriesOf(f)' /\ i \in Nat
  BY <1>2, <1>3 DEF EntriesOf
<1>7. ASSUME NEW i \in new PROVE i \in Unread(f)' /\ i \notin Unread(f)
  <2>1. i \in 1..m /\ i \notin 1..n
    BY <1>2, <1>3, <1>5 DEF EntriesOf
  <2>2. entries' # entries
    BY DEF EntriesOf
  <2>3. cursor'[f] = cursor[f]
    BY <1>3, <2>2
  <2>4. i > cursor'[f]
    BY <1>3, <1>4, <2>1, <2>3
  <2> QED
    BY <2>4 DEF Unread
<1>8. ASSUME NEW i \in Unread(f)', i \notin Unread(f) PROVE i \in new
  <2>1. SUFFICES ASSUME i \in EntriesOf(f) PROVE FALSE
    BY DEF Unread
  <2>2. i \in Nat /\ i > cursor'[f]
    BY <1>6, <2>1 DEF Unread
  <2>3. i > cursor[f]
    BY <1>3, <2>2
  <2> QED
    BY <1>8, <2>1, <2>3 DEF Unread
<1>9. Unread(f)' \ Unread(f) = new
  BY <1>7, <1>8
<1>10. IsFiniteSet(Unread(f)) /\ IsFiniteSet(Unread(f)') /\ IsFiniteSet(new)
  <2>1. IsFiniteSet(1..n) /\ IsFiniteSet(1..m)
    BY FS_Interval
  <2>2. Unread(f) \in SUBSET (1..n) /\ Unread(f)' \in SUBSET (1..m) /\ new \in SUBSET (1..m)
    BY <1>2, <1>5 DEF Unread, EntriesOf
  <2> QED
    BY <2>1, <2>2, FS_Subset
<1>11. Cardinality(Unread(f)') <= Cardinality(Unread(f)) + Cardinality(new)
  <2>1. IsFiniteSet(Unread(f) \cup new)
        /\ Cardinality(Unread(f) \cup new) =
             Cardinality(Unread(f)) + Cardinality(new) - Cardinality(Unread(f) \cap new)
    BY <1>10, FS_Union
  <2>2. Cardinality(Unread(f)') <= Cardinality(Unread(f) \cup new)
    <3>1. Unread(f)' \in SUBSET (Unread(f) \cup new)
      BY <1>9
    <3> QED
      BY <2>1, <3>1, FS_Subset
  <2>3. IsFiniteSet(Unread(f) \cap new)
    BY <1>10, FS_Subset
  <2>4. /\ Cardinality(Unread(f)) \in Nat /\ Cardinality(new) \in Nat
        /\ Cardinality(Unread(f) \cap new) \in Nat /\ Cardinality(Unread(f)') \in Nat
    BY <1>10, <2>3, FS_CardinalityType
  <2> QED
    BY <2>1, <2>2, <2>4
<1>12. ASSUME kind'[f] = kind[f]
       PROVE  unreadCount(f)' <= unreadCount(f) + Cardinality(new)
  <2>1. CASE kind[f] = "ranked"
    <3>1. unreadCount(f) = 0 /\ unreadCount(f)' = 0
      BY <1>12, <2>1 DEF unreadCount
    <3>2. Cardinality(new) \in Nat
      BY <1>10, FS_CardinalityType
    <3> QED
      BY <3>1, <3>2
  <2>2. CASE kind[f] # "ranked"
    <3>1. unreadCount(f) = Cardinality(Unread(f)) /\ unreadCount(f)' = Cardinality(Unread(f)')
      BY <1>12, <2>2 DEF unreadCount
    <3> QED
      BY <1>11, <3>1
  <2> QED
    BY <2>1, <2>2
<1> QED
  BY <1>9, <1>12

THEOREM UnreadGrows == Spec => UnreadGrowsByNewEntriesOnly
<1>1. StoreInv /\ [Next]_vars =>
        [\A f \in Feed :
           LET new == EntriesOf(f)' \ EntriesOf(f)
           IN /\ Unread(f)' \ Unread(f) = new
              /\ kind'[f] = kind[f] => unreadCount(f)' <= unreadCount(f) + Cardinality(new)]_vars
  BY UnreadStep
<1> QED
  BY <1>1, StoreInvHolds, PTL DEF Spec, UnreadGrowsByNewEntriesOnly

(***************************************************************************)
(* The rank table and the NEW badge (rank-snapshot-view.ts, feed-routes.ts)*)
(* tell the history of the attempts, whatever failures, restarts and       *)
(* changes of kind lie between two snapshots.                              *)
(***************************************************************************)
LEMMA SnapshotsCompared ==
  ASSUME StoreInv, NEW f \in Feed, Snapshots(f) # {}
  PROVE  /\ Latest(f) \in Snapshots(f) /\ Latest(f) \in Attempts(f) /\ Latest(f) \in Nat
         /\ HasPrevious(f) =>
              /\ Previous(f) \in Snapshots(f) /\ Previous(f) \in Attempts(f)
              /\ Previous(f) \in Nat /\ Previous(f) < Latest(f)
<1>1. PICK n \in Nat : DOMAIN attempts[f] = 1..n
  BY DEF StoreInv, TypeOK
<1>2. Snapshots(f) \in SUBSET (1..n) /\ Attempts(f) = 1..n
  BY <1>1 DEF Snapshots, Attempts
<1>3. Latest(f) \in Snapshots(f) /\ \A a \in Snapshots(f) : a <= Latest(f)
  BY <1>2, MaxIsGreatest DEF Latest
<1>4. ASSUME HasPrevious(f)
      PROVE  Previous(f) \in Snapshots(f) /\ Previous(f) < Latest(f)
  <2>1. Snapshots(f) \ {Latest(f)} # {}
    <3>1. SUFFICES ASSUME Snapshots(f) = {Latest(f)} PROVE FALSE
      OBVIOUS
    <3>2. Cardinality(Snapshots(f)) = 1
      BY <3>1, FS_Singleton
    <3> QED
      BY <1>4, <3>2 DEF HasPrevious
  <2>2. Snapshots(f) \ {Latest(f)} \in SUBSET (1..n)
    BY <1>2
  <2>3. Previous(f) \in Snapshots(f) \ {Latest(f)}
    BY <2>1, <2>2, MaxIsGreatest DEF Previous
  <2>4. Previous(f) \in 1..n /\ Latest(f) \in 1..n /\ Previous(f) <= Latest(f)
        /\ Previous(f) # Latest(f)
    BY <1>2, <1>3, <2>3
  <2> QED
    BY <2>3, <2>4
<1>5. Latest(f) \in 1..n
  BY <1>2, <1>3
<1>6. HasPrevious(f) => Previous(f) \in 1..n
  BY <1>2, <1>4
<1> QED
  BY <1>2, <1>3, <1>4, <1>5, <1>6

\* Two timestamps of different transactions decide what the table records.
LEMMA NewIsStoredNow ==
  ASSUME StoreInv, NEW f \in Feed, Snapshots(f) # {}, NEW id \in EntriesOf(f),
         entries[id].attempt <= Latest(f)
  PROVE  FirstSeenInLatest(f, id) <=> entries[id].attempt = Latest(f)
<1>1. entries[id] \in EntryRow
  BY DEF StoreInv, TypeOK, EntriesOf
<1>2. PICK e, seen : e = entries[id].attempt /\ seen = entries[id].firstSeenAt
  OBVIOUS
<1>3. e \in Nat /\ seen \in Nat
  BY <1>1, <1>2 DEF EntryRow
<1>4. /\ e \in Attempts(f) /\ StartedAt(f, e) < seen
      /\ \A b \in Attempts(f) : e < b => seen < StartedAt(f, b)
  BY <1>2 DEF StoreInv, EntriesAreDated
<1>5. Latest(f) \in Attempts(f) /\ Latest(f) \in Nat
  BY SnapshotsCompared
<1>6. \A a \in Attempts(f) : StartedAt(f, a) \in Nat
  <2>1. \A a \in Attempts(f) : attempts[f][a] \in AttemptRow
    BY DEF StoreInv, TypeOK, Attempts
  <2> QED
    BY <2>1 DEF StartedAt, AttemptRow
<1>7. FirstSeenInLatest(f, id) <=> seen >= StartedAt(f, Latest(f))
  BY <1>2 DEF FirstSeenInLatest, StartedAt
<1>8. CASE e = Latest(f)
  BY <1>2, <1>3, <1>4, <1>6, <1>7, <1>8
<1>9. CASE e < Latest(f)
  <2>1. seen < StartedAt(f, Latest(f)) /\ StartedAt(f, Latest(f)) \in Nat
    BY <1>4, <1>5, <1>6, <1>9
  <2> QED
    BY <1>2, <1>3, <1>5, <1>7, <1>9, <2>1
<1> QED
  BY <1>2, <1>3, <1>5, <1>8, <1>9

InPrevious(f, id) == HasPrevious(f) /\ id \in ToSet(attempts[f][Previous(f)].ranks)

LEMMA PreviousRankIsFound ==
  ASSUME StoreInv, NEW f \in Feed, Snapshots(f) # {}, NEW id
  PROVE  PreviousRank(f, id) # 0 <=> InPrevious(f, id)
<1>1. CASE InPrevious(f, id)
  <2>1. PICK ranks : ranks = attempts[f][Previous(f)].ranks
    OBVIOUS
  <2>2. attempts[f][Previous(f)] \in AttemptRow
    BY <1>1, SnapshotsCompared DEF InPrevious, StoreInv, TypeOK, Attempts
  <2>3. ranks \in Seq(Nat)
    BY <2>1, <2>2 DEF AttemptRow
  <2>4. PICK p \in DOMAIN ranks : ranks[p] = id
    BY <1>1, <2>1 DEF InPrevious, ToSet
  <2>5. PreviousRank(f, id) = CHOOSE r \in DOMAIN ranks : ranks[r] = id
    BY <1>1, <2>1 DEF PreviousRank, InPrevious
  <2>6. PreviousRank(f, id) \in DOMAIN ranks
    BY <2>4, <2>5
  <2>7. 0 \notin DOMAIN ranks
    BY <2>3
  <2> QED
    BY <1>1, <2>6, <2>7
<1>2. CASE ~ InPrevious(f, id)
  BY <1>2 DEF InPrevious, PreviousRank
<1> QED
  BY <1>1, <1>2

LEMMA MovementIsHistory ==
  ASSUME StoreInv, NEW f \in Feed, Snapshots(f) # {},
         NEW p \in DOMAIN attempts[f][Latest(f)].ranks,
         NEW id, id = attempts[f][Latest(f)].ranks[p]
  PROVE  LET storedNow == entries[id].attempt = Latest(f)
         IN /\ decideMovement(f, id) = "new" <=> storedNow
            /\ decideMovement(f, id) = "stayed" <=> InPrevious(f, id)
            /\ decideMovement(f, id) = "reentered" <=>
                 ~storedNow /\ ~InPrevious(f, id) /\ HasPrevious(f)
            /\ decideMovement(f, id) = "new" <=> FirstSeenInLatest(f, id)
<1> DEFINE storedNow == entries[id].attempt = Latest(f)
<1>1. Latest(f) \in Attempts(f) /\ Latest(f) \in Nat
  BY SnapshotsCompared
<1>2. id \in EntriesOf(f) /\ entries[id].attempt <= Latest(f)
  BY <1>1 DEF StoreInv, RanksAreOfStored
<1>3. FirstSeenInLatest(f, id) <=> storedNow
  BY <1>2, NewIsStoredNow
<1>4. PreviousRank(f, id) # 0 <=> InPrevious(f, id)
  BY PreviousRankIsFound
<1>5. ASSUME InPrevious(f, id) PROVE ~ storedNow
  <2>1. HasPrevious(f) /\ Previous(f) \in Attempts(f) /\ Previous(f) \in Nat /\ Previous(f) < Latest(f)
    BY <1>5, SnapshotsCompared DEF InPrevious
  <2>2. PICK q \in DOMAIN attempts[f][Previous(f)].ranks : attempts[f][Previous(f)].ranks[q] = id
    BY <1>5 DEF InPrevious, ToSet
  <2>3. entries[id].attempt <= Previous(f)
    BY <2>1, <2>2 DEF StoreInv, RanksAreOfStored
  <2> QED
    BY <1>1, <2>1, <2>3
<1>6. InPrevious(f, id) => HasPrevious(f)
  BY DEF InPrevious
<1>7. CASE storedNow
  <2>1. decideMovement(f, id) = "new"
    BY <1>3, <1>7 DEF decideMovement
  <2> QED
    BY <1>3, <1>5, <1>7, <2>1
<1>8. CASE ~ storedNow /\ ~ HasPrevious(f)
  <2>1. decideMovement(f, id) = "none"
    BY <1>3, <1>8 DEF decideMovement
  <2> QED
    BY <1>3, <1>6, <1>8, <2>1
<1>9. CASE ~ storedNow /\ HasPrevious(f)
  <2>1. decideMovement(f, id) = IF InPrevious(f, id) THEN "stayed" ELSE "reentered"
    BY <1>3, <1>4, <1>9 DEF decideMovement
  <2> QED
    BY <1>3, <1>9, <2>1
<1> QED
  BY <1>7, <1>8, <1>9

LEMMA ViewOfLatest ==
  ASSUME NEW f \in Feed, Snapshots(f) # {}, NEW ranks, ranks = attempts[f][Latest(f)].ranks
  PROVE  /\ DOMAIN RankSnapshotView(f).entries = DOMAIN ranks
         /\ \A p \in DOMAIN ranks :
              /\ RankSnapshotView(f).entries[p].entry = ranks[p]
              /\ RankSnapshotView(f).entries[p].movement = decideMovement(f, ranks[p])
<1>1. RankSnapshotView(f).entries =
        [p \in DOMAIN ranks |->
           [entry |-> ranks[p], previousRank |-> PreviousRank(f, ranks[p]),
            movement |-> decideMovement(f, ranks[p])]]
  BY DEF RankSnapshotView
<1> QED
  BY <1>1

LEMMA ViewOfNothing ==
  ASSUME NEW f \in Feed, Snapshots(f) = {}
  PROVE  DOMAIN RankSnapshotView(f).entries = {}
<1>1. RankSnapshotView(f).entries = <<>>
  BY DEF RankSnapshotView
<1> QED
  BY <1>1

LEMMA MovementsHold == StoreInv => MovementsMatchHistory
<1> SUFFICES ASSUME StoreInv, NEW f \in Feed, NEW p \in DOMAIN RankSnapshotView(f).entries,
                    NEW row, row = RankSnapshotView(f).entries[p]
             PROVE  LET latest == Latest(f)
                        before == HasPrevious(f) /\ row.entry \in ToSet(attempts[f][Previous(f)].ranks)
                        storedNow == entries[row.entry].attempt = latest
                    IN /\ row.movement = "new" <=> storedNow
                       /\ row.movement = "stayed" <=> before
                       /\ row.movement = "reentered" <=> ~storedNow /\ ~before /\ HasPrevious(f)
  BY DEF MovementsMatchHistory
<1>1. Snapshots(f) # {}
  BY ViewOfNothing
<1>2. PICK ranks : ranks = attempts[f][Latest(f)].ranks
  OBVIOUS
<1>3. p \in DOMAIN ranks /\ row.entry = ranks[p] /\ row.movement = decideMovement(f, ranks[p])
  BY <1>1, <1>2, ViewOfLatest
<1>4. PICK id : id = ranks[p]
  OBVIOUS
<1>5. /\ decideMovement(f, id) = "new" <=> entries[id].attempt = Latest(f)
      /\ decideMovement(f, id) = "stayed" <=> InPrevious(f, id)
      /\ decideMovement(f, id) = "reentered" <=>
           ~ (entries[id].attempt = Latest(f)) /\ ~InPrevious(f, id) /\ HasPrevious(f)
  BY <1>1, <1>2, <1>3, <1>4, MovementIsHistory
<1> QED
  BY <1>3, <1>4, <1>5 DEF InPrevious

LEMMA NewCountsAgree == StoreInv => NewCountAgreesWithTable
<1> SUFFICES ASSUME StoreInv, NEW f \in Feed
             PROVE  rankSnapshotNewCount(f) =
                      Cardinality({p \in DOMAIN RankSnapshotView(f).entries :
                                     RankSnapshotView(f).entries[p].movement = "new"})
  BY DEF NewCountAgreesWithTable
<1>1. {a \in DOMAIN attempts[f] : Len(attempts[f][a].ranks) > 0} = Snapshots(f)
  <2>1. ASSUME NEW a \in DOMAIN attempts[f]
        PROVE  Len(attempts[f][a].ranks) > 0 <=> attempts[f][a].ranks # <<>>
    <3>1. attempts[f][a] \in AttemptRow
      BY DEF StoreInv, TypeOK
    <3>2. attempts[f][a].ranks \in Seq(Nat)
      BY <3>1 DEF AttemptRow
    <3> QED
      BY <3>2
  <2> QED
    BY <2>1 DEF Snapshots
<1>2. CASE Snapshots(f) = {}
  <2>1. rankSnapshotNewCount(f) = 0
    BY <1>1, <1>2 DEF rankSnapshotNewCount
  <2>2. {p \in DOMAIN RankSnapshotView(f).entries :
           RankSnapshotView(f).entries[p].movement = "new"} = {}
    BY <1>2, ViewOfNothing
  <2> QED
    BY <2>1, <2>2, FS_EmptySet
<1>3. CASE Snapshots(f) # {}
  <2>1. PICK ranks : ranks = attempts[f][Latest(f)].ranks
    OBVIOUS
  <2>2. rankSnapshotNewCount(f) =
          Cardinality({p \in DOMAIN ranks :
                         entries[ranks[p]].firstSeenAt >= attempts[f][Latest(f)].startedAt})
    BY <1>1, <1>3, <2>1 DEF rankSnapshotNewCount, Latest
  <2>3. \A p \in DOMAIN ranks :
          decideMovement(f, ranks[p]) = "new"
            <=> entries[ranks[p]].firstSeenAt >= attempts[f][Latest(f)].startedAt
    BY <1>3, <2>1, MovementIsHistory DEF FirstSeenInLatest
  <2>4. {p \in DOMAIN RankSnapshotView(f).entries :
           RankSnapshotView(f).entries[p].movement = "new"}
          = {p \in DOMAIN ranks :
               entries[ranks[p]].firstSeenAt >= attempts[f][Latest(f)].startedAt}
    BY <1>3, <2>1, <2>3, ViewOfLatest
  <2> QED
    BY <2>2, <2>4
<1> QED
  BY <1>2, <1>3

LEMMA RanksAreDistinct == StoreInv => RanksAreDistinctEntries
<1> SUFFICES ASSUME StoreInv, NEW f \in Feed, NEW a \in Attempts(f),
                    NEW ranks, ranks = attempts[f][a].ranks
             PROVE  /\ IsInjective(ranks)
                    /\ ToSet(ranks) \subseteq EntriesOf(f)
                    /\ ranks # <<>> => attempts[f][a].status = "success"
  BY DEF RanksAreDistinctEntries, Attempts
<1>1. IsInjective(ranks)
  BY DEF StoreInv, RanksAreOfStored, IsInjective
<1>2. ToSet(ranks) \subseteq EntriesOf(f)
  BY DEF StoreInv, RanksAreOfStored, ToSet
<1>3. ranks # <<>> => attempts[f][a].status = "success"
  BY DEF StoreInv, OnlySuccessesStore
<1> QED
  BY <1>1, <1>2, <1>3

THEOREM RankTableTellsHistory == Spec => []RankTableMatchesHistory
<1>1. StoreInv => RankTableMatchesHistory
  BY MovementsHold, NewCountsAgree, RanksAreDistinct DEF RankTableMatchesHistory
<1> QED
  BY <1>1, StoreInvHolds, PTL

================================================================================
