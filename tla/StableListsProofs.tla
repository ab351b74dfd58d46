------------------------- MODULE StableListsProofs -------------------------
(***************************************************************************)
(* What Keep and StableSort return, for every list: a rearrangement of the *)
(* chosen positions that respects the chosen order.                        *)
(***************************************************************************)
EXTENDS StableLists, FiniteSetTheorems, SequenceTheorems, FunctionTheorems,
        WellFoundedInduction, TLAPS

(* A set of natural numbers that is not empty has a least member. *)
LEMMA LeastNumber ==
    ASSUME NEW S \in SUBSET Nat, S # {}
    PROVE  \E n \in S : \A m \in S : n <= m
<1> DEFINE R == OpToRel(<, Nat)
<1>1. IsWellFoundedOn(R, Nat)
  BY NatLessThanWellFounded
<1>2. \A m, n \in Nat : <<m, n>> \in R <=> m < n
  BY DEF OpToRel
<1> HIDE DEF R
<1>3. PICK n \in S : \A m \in S : <<m, n>> \notin R
  BY <1>1, WFMin
<1>4. \A m \in S : m \in Nat /\ n \in Nat /\ ~(m < n)
  BY <1>2, <1>3
<1>5. \A m \in S : n <= m
  BY <1>4
<1> QED
  BY <1>5

StrictOrder(P, R) ==
    /\ \A i \in P : <<i, i>> \notin R
    /\ \A i, j \in P : i = j \/ <<i, j>> \in R \/ <<j, i>> \in R
    /\ \A i, j, k \in P : <<i, j>> \in R /\ <<j, k>> \in R => <<i, k>> \in R

UpTo(i, P, R) == {j \in P : j = i \/ <<j, i>> \in R}

(* A member's rank lies between 1 and the number of members. *)
LEMMA RankRange ==
    ASSUME NEW P, IsFiniteSet(P), NEW R, NEW i \in P
    PROVE  Rank(i, P, R) \in 1..Cardinality(P)
<1>1. UpTo(i, P, R) \in SUBSET P
  BY DEF UpTo
<1>2. /\ IsFiniteSet(UpTo(i, P, R))
      /\ Cardinality(UpTo(i, P, R)) <= Cardinality(P)
  BY <1>1, FS_Subset
<1>3. i \in UpTo(i, P, R)
  BY DEF UpTo
<1>4. Cardinality(UpTo(i, P, R)) # 0
  BY <1>2, <1>3, FS_EmptySet
<1>5. Cardinality(UpTo(i, P, R)) \in Nat /\ Cardinality(P) \in Nat
  BY <1>2, FS_CardinalityType
<1>6. Rank(i, P, R) = Cardinality(UpTo(i, P, R))
  BY DEF Rank, UpTo
<1> QED
  BY <1>2, <1>4, <1>5, <1>6

(* Ranks grow along the order. *)
LEMMA RankGrows ==
    ASSUME NEW P, IsFiniteSet(P), NEW R, StrictOrder(P, R),
           NEW i \in P, NEW j \in P, <<i, j>> \in R
    PROVE  Rank(i, P, R) < Rank(j, P, R)
<1>1. UpTo(i, P, R) \in SUBSET UpTo(j, P, R)
  BY DEF UpTo, StrictOrder
<1>2. j \in UpTo(j, P, R) /\ j \notin UpTo(i, P, R)
  BY DEF UpTo, StrictOrder
<1>3. UpTo(j, P, R) \in SUBSET P
  BY DEF UpTo
<1>4. IsFiniteSet(UpTo(j, P, R))
  BY <1>3, FS_Subset
<1>5. /\ IsFiniteSet(UpTo(i, P, R))
      /\ Cardinality(UpTo(i, P, R)) <= Cardinality(UpTo(j, P, R))
      /\ Cardinality(UpTo(i, P, R)) # Cardinality(UpTo(j, P, R))
  BY <1>1, <1>2, <1>4, FS_Subset
<1>6. /\ Cardinality(UpTo(i, P, R)) \in Nat
      /\ Cardinality(UpTo(j, P, R)) \in Nat
  BY <1>4, <1>5, FS_CardinalityType
<1>7. /\ Rank(i, P, R) = Cardinality(UpTo(i, P, R))
      /\ Rank(j, P, R) = Cardinality(UpTo(j, P, R))
  BY DEF Rank, UpTo
<1> QED
  BY <1>5, <1>6, <1>7

(* Every rank is taken, by the pigeonhole principle. *)
LEMMA RankOnto ==
    ASSUME NEW P, IsFiniteSet(P), NEW R, StrictOrder(P, R),
           NEW k \in 1..Cardinality(P)
    PROVE  \E i \in P : Rank(i, P, R) = k
<1> DEFINE N == 1..Cardinality(P)
           r == [i \in P |-> Rank(i, P, R)]
<1>1. r \in [P -> N]
  BY RankRange
<1>2. ASSUME NEW i \in P, NEW j \in P, i # j
      PROVE  r[i] # r[j]
  <2>1. <<i, j>> \in R \/ <<j, i>> \in R
    BY <1>2 DEF StrictOrder
  <2>2. Rank(i, P, R) < Rank(j, P, R) \/ Rank(j, P, R) < Rank(i, P, R)
    BY <2>1, RankGrows
  <2>3. Rank(i, P, R) \in N /\ Rank(j, P, R) \in N
    BY RankRange
  <2> QED
    BY <2>2, <2>3
<1>3. r \in Injection(P, N)
  BY <1>1, <1>2, Fun_IsInj
<1>4. Cardinality(P) \in Nat
  BY FS_CardinalityType
<1>5. IsFiniteSet(N) /\ Cardinality(N) = Cardinality(P)
  BY <1>4, FS_Interval
<1>6. r \in Surjection(P, N)
  BY <1>3, <1>5, FS_Injection
<1>7. \E i \in P : r[i] = k
  BY <1>6 DEF Surjection
<1> QED
  BY <1>7

(* Listing enumerates P, each member once, in the order R. *)
LEMMA ListingProperties ==
    ASSUME NEW P, IsFiniteSet(P), NEW R, StrictOrder(P, R)
    PROVE  /\ Cardinality(P) \in Nat
           /\ Listing(P, R) \in [1..Cardinality(P) -> P]
           /\ \A i \in P : \E k \in 1..Cardinality(P) : Listing(P, R)[k] = i
           /\ \A a, b \in 1..Cardinality(P) :
                a < b => <<Listing(P, R)[a], Listing(P, R)[b]>> \in R
<1> DEFINE n == Cardinality(P)
           L == Listing(P, R)
<1>0. n \in Nat
  BY FS_CardinalityType
<1>1. ASSUME NEW k \in 1..n
      PROVE  L[k] \in P /\ Rank(L[k], P, R) = k
  <2>1. L[k] = CHOOSE i \in P : Rank(i, P, R) = k
    BY DEF Listing
  <2> QED
    BY <2>1, RankOnto
<1>2. L \in [1..n -> P]
  <2>1. \A k \in 1..n : L[k] \in P
    BY <1>1
  <2> QED
    BY <2>1 DEF Listing
<1>3. ASSUME NEW i \in P, NEW j \in P, Rank(i, P, R) = Rank(j, P, R)
      PROVE  i = j
  <2>1. Rank(i, P, R) \in 1..n /\ Rank(j, P, R) \in 1..n
    BY RankRange
  <2>2. <<i, j>> \notin R /\ <<j, i>> \notin R
    BY <1>3, <2>1, RankGrows, <1>0
  <2> QED
    BY <2>2 DEF StrictOrder
<1>4. ASSUME NEW i \in P
      PROVE  \E k \in 1..n : L[k] = i
  <2>1. Rank(i, P, R) \in 1..n
    BY RankRange
  <2>2. L[Rank(i, P, R)] = i
    BY <1>1, <1>3, <2>1
  <2> QED
    BY <2>1, <2>2
<1>5. ASSUME NEW a \in 1..n, NEW b \in 1..n, a < b
      PROVE  <<L[a], L[b]>> \in R
  <2>1. /\ L[a] \in P /\ Rank(L[a], P, R) = a
        /\ L[b] \in P /\ Rank(L[b], P, R) = b
    BY <1>1
  <2>2. L[a] # L[b]
    BY <2>1, <1>5
  <2>3. <<L[b], L[a]>> \notin R
    BY <2>1, <1>5, <1>0, RankGrows
  <2> QED
    BY <2>1, <2>2, <2>3 DEF StrictOrder
<1> QED
  BY <1>0, <1>2, <1>4, <1>5

(* Pick rearranges: there is a one-to-one map from the places of the result *)
(* to P that follows R and says where each element came from.              *)
LEMMA PickProperties ==
    ASSUME NEW E, NEW s \in Seq(E), NEW P, P \subseteq DOMAIN s,
           NEW R, StrictOrder(P, R)
    PROVE  /\ IsFiniteSet(P)
           /\ Pick(s, P, R) \in Seq(E)
           /\ Len(Pick(s, P, R)) = Cardinality(P)
           /\ DOMAIN Pick(s, P, R) = 1..Cardinality(P)
           /\ Listing(P, R) \in [1..Cardinality(P) -> P]
           /\ \A i \in P : \E k \in 1..Cardinality(P) : Listing(P, R)[k] = i
           /\ \A a, b \in 1..Cardinality(P) :
                a < b => <<Listing(P, R)[a], Listing(P, R)[b]>> \in R
           /\ \A k \in 1..Cardinality(P) : Pick(s, P, R)[k] = s[Listing(P, R)[k]]
<1> DEFINE n == Cardinality(P)
           L == Listing(P, R)
<1>1. DOMAIN s = 1..Len(s) /\ Len(s) \in Nat /\ s \in [1..Len(s) -> E]
  BY LenProperties
<1>2. IsFiniteSet(P)
  <2>1. IsFiniteSet(1..Len(s))
    BY <1>1, FS_Interval
  <2> QED
    BY <1>1, <2>1, FS_Subset
<1>3. /\ n \in Nat
      /\ L \in [1..n -> P]
      /\ \A i \in P : \E k \in 1..n : L[k] = i
      /\ \A a, b \in 1..n : a < b => <<L[a], L[b]>> \in R
  BY <1>2, ListingProperties
<1>4. Pick(s, P, R) = [k \in 1..n |-> s[L[k]]]
  BY DEF Pick
<1>5. \A k \in 1..n : s[L[k]] \in E
  BY <1>1, <1>3
<1>6. Pick(s, P, R) \in [1..n -> E]
  BY <1>4, <1>5
<1>7. Pick(s, P, R) \in Seq(E)
  BY <1>3, <1>6, SeqDef
<1>8. Len(Pick(s, P, R)) = n
  BY <1>3, <1>6, <1>7, LenProperties
<1> QED
  BY <1>2, <1>3, <1>4, <1>6, <1>7, <1>8

(* Places in increasing order are totally ordered. *)
LEMMA UpwardsIsOrder ==
    ASSUME NEW P \in SUBSET Int
    PROVE  StrictOrder(P, Upwards(P))
BY DEF StrictOrder, Upwards

(* Keep returns the elements of s that are in S, in the order they have in  *)
(* s: where[k] is the place in s of the k-th survivor.                     *)
THEOREM KeepFilters ==
    ASSUME NEW E, NEW s \in Seq(E), NEW S
    PROVE  /\ Keep(s, S) \in Seq(E)
           /\ Elems(Keep(s, S)) = Elems(s) \cap S
           /\ \E where \in [DOMAIN Keep(s, S) -> DOMAIN s] :
                /\ \A k \in DOMAIN Keep(s, S) : Keep(s, S)[k] = s[where[k]]
                /\ \A a, b \in DOMAIN Keep(s, S) : a < b => where[a] < where[b]
<1> DEFINE P == Places(s, S)
           R == Upwards(P)
           L == Listing(P, R)
           t == Keep(s, S)
<1>0. P \subseteq DOMAIN s
  BY DEF Places
<1>1. DOMAIN s = 1..Len(s) /\ Len(s) \in Nat
  BY LenProperties
<1>2. StrictOrder(P, R)
  BY <1>0, <1>1, UpwardsIsOrder
<1>3. t = Pick(s, P, R)
  BY DEF Keep
<1> HIDE DEF P, R, L
<1>p. /\ Pick(s, P, R) \in Seq(E)
      /\ DOMAIN Pick(s, P, R) = 1..Cardinality(P)
      /\ Listing(P, R) \in [1..Cardinality(P) -> P]
      /\ \A i \in P : \E k \in 1..Cardinality(P) : Listing(P, R)[k] = i
      /\ \A a, b \in 1..Cardinality(P) :
            a < b => <<Listing(P, R)[a], Listing(P, R)[b]>> \in R
      /\ \A k \in 1..Cardinality(P) : Pick(s, P, R)[k] = s[Listing(P, R)[k]]
  BY <1>0, <1>2, PickProperties
<1>4. /\ t \in Seq(E)
      /\ DOMAIN t = 1..Cardinality(P)
      /\ L \in [DOMAIN t -> P]
      /\ \A i \in P : \E k \in DOMAIN t : L[k] = i
      /\ \A a, b \in DOMAIN t : a < b => <<L[a], L[b]>> \in R
      /\ \A k \in DOMAIN t : t[k] = s[L[k]]
  BY <1>3, <1>p DEF L
<1> HIDE DEF t
<1>5. Elems(t) = Elems(s) \cap S
  <2>1. ASSUME NEW k \in DOMAIN t
        PROVE  t[k] \in Elems(s) /\ t[k] \in S
    BY <1>4 DEF P, Places, Elems
  <2>2. ASSUME NEW i \in DOMAIN s, s[i] \in S
        PROVE  \E k \in DOMAIN t : t[k] = s[i]
    <3>1. i \in P
      BY <2>2 DEF P, Places
    <3> QED
      BY <3>1, <1>4
  <2> QED
    BY <2>1, <2>2 DEF Elems
<1>6. \A a, b \in DOMAIN t : a < b => L[a] < L[b]
  BY <1>4 DEF R, Upwards
<1>7. L \in [DOMAIN t -> DOMAIN s]
  BY <1>0, <1>4
<1>8. \E where \in [DOMAIN t -> DOMAIN s] :
        /\ \A k \in DOMAIN t : t[k] = s[where[k]]
        /\ \A a, b \in DOMAIN t : a < b => where[a] < where[b]
  BY <1>4, <1>6, <1>7
<1> QED
  BY <1>4, <1>5, <1>8 DEF t
-----------------------------------------------------------------------------
(* A sort key's order: strict, and "neither before the other" is a tie.    *)
WeakOrder(E, before) ==
    /\ \A x, y \in E : <<x, y>> \in before => <<y, x>> \notin before
    /\ \A x, y, z \in E :
         <<x, z>> \in before => <<x, y>> \in before \/ <<y, z>> \in before

(* Sorting by a weak order, ties by place, orders the places totally. *)
LEMMA EarlierIsOrder ==
    ASSUME NEW E, NEW s \in Seq(E), NEW before, WeakOrder(E, before)
    PROVE  StrictOrder(DOMAIN s, Earlier(s, before))
<1> DEFINE D == DOMAIN s
           R == Earlier(s, before)
<1>1. \A i \in D : i \in Int /\ s[i] \in E
  BY LenProperties
<1>2. ASSUME NEW i \in D, NEW j \in D
      PROVE  <<i, j>> \in R <=> (<<s[i], s[j]>> \in before \/ (<<s[j], s[i]>> \notin before /\ i < j))
  BY DEF Earlier
<1> HIDE DEF D, R
<1>3. ASSUME NEW i \in D
      PROVE  <<i, i>> \notin R
  <2>1. i \in Int /\ <<s[i], s[i]>> \notin before
    BY <1>1 DEF WeakOrder
  <2> QED
    BY <2>1, <1>2
<1>4. ASSUME NEW i \in D, NEW j \in D
      PROVE  i = j \/ <<i, j>> \in R \/ <<j, i>> \in R
  <2>1. i = j \/ i < j \/ j < i
    BY <1>1
  <2> QED
    BY <2>1, <1>2
<1>5. ASSUME NEW i \in D, NEW j \in D, NEW k \in D, <<i, j>> \in R, <<j, k>> \in R
      PROVE  <<i, k>> \in R
  <2>1. \/ <<s[i], s[j]>> \in before
        \/ <<s[j], s[i]>> \notin before /\ i < j
    BY <1>2, <1>5
  <2>2. \/ <<s[j], s[k]>> \in before
        \/ <<s[k], s[j]>> \notin before /\ j < k
    BY <1>2, <1>5
  <2>3. s[i] \in E /\ s[j] \in E /\ s[k] \in E
    BY <1>1
  <2>4. CASE <<s[i], s[j]>> \in before \/ <<s[j], s[k]>> \in before
    <3>1. <<s[i], s[k]>> \in before
      BY <2>1, <2>2, <2>3, <2>4 DEF WeakOrder
    <3> QED
      BY <3>1, <1>2
  <2>5. CASE /\ <<s[j], s[i]>> \notin before /\ i < j
             /\ <<s[k], s[j]>> \notin before /\ j < k
    <3>1. <<s[k], s[i]>> \notin before
      BY <2>3, <2>5 DEF WeakOrder
    <3>2. i < k
      BY <2>5, <1>1
    <3> QED
      BY <3>1, <3>2, <1>2
  <2> QED
    BY <2>1, <2>2, <2>4, <2>5
<1>6. StrictOrder(D, R)
  BY <1>3, <1>4, <1>5 DEF StrictOrder
<1> QED
  BY <1>6 DEF D, R

(* StableSort returns a permutation of s that `before` orders and in which  *)
(* ties keep their old order: where[k] is the old place of the k-th element. *)
THEOREM StableSortSorts ==
    ASSUME NEW E, NEW s \in Seq(E), NEW before, WeakOrder(E, before)
    PROVE  /\ StableSort(s, before) \in Seq(E)
           /\ DOMAIN StableSort(s, before) = DOMAIN s
           /\ Elems(StableSort(s, before)) = Elems(s)
           /\ \A a, b \in DOMAIN s :
                a < b => <<StableSort(s, before)[b], StableSort(s, before)[a]>> \notin before
           /\ \E where \in [DOMAIN s -> DOMAIN s] :
                /\ \A k \in DOMAIN s : StableSort(s, before)[k] = s[where[k]]
                /\ \A i \in DOMAIN s : \E k \in DOMAIN s : where[k] = i
                /\ \A a, b \in DOMAIN s :
                     a < b => /\ where[a] # where[b]
                              /\ <<s[where[a]], s[where[b]]>> \in before \/ where[a] < where[b]
<1> DEFINE D == DOMAIN s
           R == Earlier(s, before)
           L == Listing(D, R)
           t == StableSort(s, before)
<1>1. D = 1..Len(s) /\ Len(s) \in Nat /\ \A i \in D : s[i] \in E
  BY LenProperties
<1>2. StrictOrder(D, R)
  BY EarlierIsOrder
<1>3. Cardinality(D) = Len(s)
  BY <1>1, FS_Interval
<1>4. t = Pick(s, D, R)
  BY DEF StableSort
<1>5. ASSUME NEW i \in D, NEW j \in D, <<i, j>> \in R
      PROVE  /\ <<s[j], s[i]>> \notin before
             /\ <<s[i], s[j]>> \in before \/ i < j
  BY <1>1, <1>5 DEF Earlier, WeakOrder
<1> HIDE DEF D, R
<1>p. /\ Pick(s, D, R) \in Seq(E)
      /\ DOMAIN Pick(s, D, R) = 1..Cardinality(D)
      /\ Listing(D, R) \in [1..Cardinality(D) -> D]
      /\ \A i \in D : \E k \in 1..Cardinality(D) : Listing(D, R)[k] = i
      /\ \A a, b \in 1..Cardinality(D) :
            a < b => <<Listing(D, R)[a], Listing(D, R)[b]>> \in R
      /\ \A k \in 1..Cardinality(D) : Pick(s, D, R)[k] = s[Listing(D, R)[k]]
  <2>1. D \subseteq DOMAIN s
    BY DEF D
  <2> QED
    BY <1>2, <2>1, PickProperties
<1>6. /\ t \in Seq(E)
      /\ DOMAIN t = D
      /\ L \in [D -> D]
      /\ \A i \in D : \E k \in D : L[k] = i
      /\ \A a, b \in D : a < b => <<L[a], L[b]>> \in R
      /\ \A k \in D : t[k] = s[L[k]]
  BY <1>1, <1>3, <1>4, <1>p DEF L
<1> HIDE DEF L, t
<1>7. Elems(t) = Elems(s)
  <2>1. \A k \in D : t[k] \in Elems(s)
    BY <1>6 DEF Elems, D
  <2>2. ASSUME NEW i \in D
        PROVE  s[i] \in Elems(t)
    <3>1. PICK k \in D : L[k] = i
      BY <1>6
    <3>2. k \in DOMAIN t /\ t[k] = s[i]
      BY <3>1, <1>6
    <3> QED
      BY <3>2 DEF Elems
  <2> QED
    BY <1>6, <2>1, <2>2 DEF Elems, D
<1>8. ASSUME NEW a \in D, NEW b \in D, a < b
      PROVE  /\ <<t[b], t[a]>> \notin before
             /\ L[a] # L[b]
             /\ <<s[L[a]], s[L[b]]>> \in before \/ L[a] < L[b]
  <2>1. L[a] \in D /\ L[b] \in D /\ <<L[a], L[b]>> \in R
    BY <1>6, <1>8
  <2>2. L[a] # L[b]
    BY <2>1, <1>2 DEF StrictOrder
  <2>3. /\ <<s[L[b]], s[L[a]]>> \notin before
        /\ <<s[L[a]], s[L[b]]>> \in before \/ L[a] < L[b]
    BY <2>1, <1>5
  <2> QED
    BY <1>6, <2>2, <2>3
<1>9. \E where \in [D -> D] :
        /\ \A k \in D : t[k] = s[where[k]]
        /\ \A i \in D : \E k \in D : where[k] = i
        /\ \A a, b \in D :
             a < b => /\ where[a] # where[b]
                      /\ <<s[where[a]], s[where[b]]>> \in before \/ where[a] < where[b]
  <2>1. L \in [D -> D]
    BY <1>6
  <2> WITNESS L \in [D -> D]
  <2> QED
    BY <1>6, <1>8
<1> QED
  BY <1>6, <1>7, <1>8, <1>9 DEF D, t

(* Sorting a list without duplicates makes none. *)
LEMMA SortDistinct ==
    ASSUME NEW E, NEW s \in Seq(E), NEW before, WeakOrder(E, before),
           \A i, j \in DOMAIN s : s[i] = s[j] => i = j
    PROVE  \A i, j \in DOMAIN s :
              StableSort(s, before)[i] = StableSort(s, before)[j] => i = j
<1> DEFINE t == StableSort(s, before)
<1> HIDE DEF t
<1>1. PICK where \in [DOMAIN s -> DOMAIN s] :
        /\ \A k \in DOMAIN s : t[k] = s[where[k]]
        /\ \A i \in DOMAIN s : \E k \in DOMAIN s : where[k] = i
        /\ \A a, b \in DOMAIN s :
             a < b => /\ where[a] # where[b]
                      /\ <<s[where[a]], s[where[b]]>> \in before \/ where[a] < where[b]
  BY StableSortSorts DEF t
<1> SUFFICES ASSUME NEW i \in DOMAIN s, NEW j \in DOMAIN s, t[i] = t[j], i # j
             PROVE  FALSE
  BY DEF t
<1>2. where[i] = where[j]
  BY <1>1
<1>3. i < j \/ j < i
  BY LenProperties
<1> QED
  BY <1>1, <1>2, <1>3
-----------------------------------------------------------------------------
(* x comes before y in s. *)
Before(x, y, s) == \E i, j \in DOMAIN s : i < j /\ s[i] = x /\ s[j] = y

(* Leaving elements out does not swap two that stay: t lists the elements   *)
(* that s has at the places where[1], where[2], ...                        *)
LEMMA SublistKeepsOrder ==
    ASSUME NEW E, NEW s \in Seq(E), NEW t \in Seq(E),
           \A i, j \in DOMAIN s : s[i] = s[j] => i = j,
           NEW where \in [DOMAIN t -> DOMAIN s],
           \A k \in DOMAIN t : t[k] = s[where[k]],
           \A a, b \in DOMAIN t : a < b => where[a] < where[b],
           NEW x \in Elems(t), NEW y \in Elems(t), Before(x, y, s)
    PROVE  Before(x, y, t)
<1>1. PICK i \in DOMAIN s, j \in DOMAIN s : i < j /\ s[i] = x /\ s[j] = y
  BY DEF Before
<1>2. PICK a \in DOMAIN t, b \in DOMAIN t : t[a] = x /\ t[b] = y
  BY DEF Elems
<1>3. where[a] = i /\ where[b] = j
  BY <1>1, <1>2
<1>4. (a < b \/ b < a \/ a = b) /\ i \in Int /\ j \in Int
  BY LenProperties
<1>5. a < b
  BY <1>1, <1>3, <1>4
<1> QED
  BY <1>2, <1>5 DEF Before

(* Sorting does not swap two elements that are in order already. *)
LEMMA SortKeepsOrder ==
    ASSUME NEW E, NEW s \in Seq(E), NEW before, WeakOrder(E, before),
           NEW x, NEW y, Before(x, y, s), <<y, x>> \notin before
    PROVE  Before(x, y, StableSort(s, before))
<1> DEFINE t == StableSort(s, before)
<1> HIDE DEF t
<1>1. DOMAIN t = DOMAIN s
  BY StableSortSorts DEF t
<1>2. PICK where \in [DOMAIN s -> DOMAIN s] :
        /\ \A k \in DOMAIN s : t[k] = s[where[k]]
        /\ \A i \in DOMAIN s : \E k \in DOMAIN s : where[k] = i
        /\ \A a, b \in DOMAIN s :
             a < b => /\ where[a] # where[b]
                      /\ <<s[where[a]], s[where[b]]>> \in before \/ where[a] < where[b]
  BY StableSortSorts DEF t
<1>3. PICK i \in DOMAIN s, j \in DOMAIN s : i < j /\ s[i] = x /\ s[j] = y
  BY DEF Before
<1>4. PICK a \in DOMAIN s, b \in DOMAIN s : where[a] = i /\ where[b] = j
  BY <1>2
<1>5. (a < b \/ b < a \/ a = b) /\ i \in Int /\ j \in Int
  BY LenProperties
<1>6. ~(b < a)
  BY <1>2, <1>3, <1>4, <1>5
<1>7. a < b
  BY <1>3, <1>4, <1>5, <1>6
<1>8. t[a] = x /\ t[b] = y
  BY <1>2, <1>3, <1>4
<1>9. Before(x, y, t)
  BY <1>1, <1>7, <1>8 DEF Before
<1> QED
  BY <1>9 DEF t
-----------------------------------------------------------------------------
(* There is no other listing of P that follows R. *)
LEMMA ListingIs ==
    ASSUME NEW P, IsFiniteSet(P), NEW R, StrictOrder(P, R),
           NEW L \in [1..Cardinality(P) -> P],
           \A a, b \in 1..Cardinality(P) : a < b => <<L[a], L[b]>> \in R
    PROVE  Listing(P, R) = L
<1> DEFINE N == 1..Cardinality(P)
           M == Listing(P, R)
<1>1. /\ Cardinality(P) \in Nat
      /\ M \in [N -> P]
      /\ \A i \in P : \E k \in N : M[k] = i
      /\ \A a, b \in N : a < b => <<M[a], M[b]>> \in R
  BY ListingProperties
<1>2. /\ N \subseteq Nat
      /\ \A a, b \in N : a < b \/ b < a \/ a = b
  BY <1>1
<1>3. /\ L \in [N -> P]
      /\ \A a, b \in N : a < b => <<L[a], L[b]>> \in R
  OBVIOUS
<1>4. IsFiniteSet(N) /\ Cardinality(N) = Cardinality(P)
  BY <1>1, FS_Interval
<1> HIDE DEF N, M
<1>5. \A i, j \in P : <<i, j>> \in R => i # j /\ <<j, i>> \notin R
  BY DEF StrictOrder
<1>6. \A i \in P : \E k \in N : L[k] = i
  <2>1. ASSUME NEW a \in N, NEW b \in N, L[a] = L[b]
        PROVE  a = b
    <3>1. L[a] \in P /\ L[b] \in P
      BY <1>3
    <3> QED
      BY <1>2, <1>3, <1>5, <2>1, <3>1
  <2>2. L \in Injection(N, P)
    BY <1>3, <2>1, Fun_IsInj
  <2>3. L \in Surjection(N, P)
    BY <1>4, <2>2, FS_Injection
  <2> QED
    BY <2>3 DEF Surjection
<1> DEFINE differ == {k \in N : M[k] # L[k]}
<1>d. \A k \in N : k \in differ <=> M[k] # L[k]
  OBVIOUS
<1>s. differ \subseteq N
  OBVIOUS
<1> HIDE DEF differ
<1>7. differ = {}
  <2>1. SUFFICES ASSUME differ # {}
                 PROVE  FALSE
    OBVIOUS
  <2>2. PICK k \in differ : \A m \in differ : k <= m
    BY <1>2, <1>s, <2>1, LeastNumber
  <2>0. k \in N /\ \A j \in N : j < k => j \notin differ
    BY <1>2, <1>s, <2>2
  <2>3. /\ k \in N /\ M[k] \in P /\ L[k] \in P /\ M[k] # L[k]
        /\ \A j \in N : j < k => M[j] = L[j]
    BY <1>1, <1>3, <1>d, <2>0, <2>2
  <2>4. PICK i \in N : M[i] = L[k]
    BY <1>1, <2>3
  <2>5. PICK j \in N : L[j] = M[k]
    BY <1>6, <2>3
  <2>6. k < i
    <3>1. i < k => L[i] = L[k]
      BY <2>3, <2>4
    <3>2. ~(i < k)
      BY <1>3, <1>5, <2>3, <3>1
    <3> QED
      BY <1>2, <2>3, <2>4, <3>2
  <2>7. k < j
    <3>1. j < k => M[j] = M[k]
      BY <2>3, <2>5
    <3>2. ~(j < k)
      BY <1>1, <1>5, <2>3, <3>1
    <3> QED
      BY <1>2, <2>3, <2>5, <3>2
  <2>8. <<M[k], L[k]>> \in R /\ <<L[k], M[k]>> \in R
    BY <1>1, <1>3, <2>3, <2>4, <2>5, <2>6, <2>7
  <2> QED
    BY <1>5, <2>3, <2>8
<1>8. M = L
  <2>1. \A k \in N : M[k] = L[k]
    BY <1>7, <1>d
  <2> QED
    BY <1>1, <1>3, <2>1
<1> QED
  BY <1>8 DEF M

(* The list t is what Pick returns if it names the chosen places in order. *)
LEMMA PickIs ==
    ASSUME NEW E, NEW s \in Seq(E), NEW P, P \subseteq DOMAIN s,
           NEW R, StrictOrder(P, R), NEW t \in Seq(E), Len(t) = Cardinality(P),
           NEW L \in [1..Cardinality(P) -> P],
           \A a, b \in 1..Cardinality(P) : a < b => <<L[a], L[b]>> \in R,
           \A k \in 1..Cardinality(P) : t[k] = s[L[k]]
    PROVE  Pick(s, P, R) = t
<1>1. /\ IsFiniteSet(P)
      /\ Pick(s, P, R) \in Seq(E)
      /\ Len(Pick(s, P, R)) = Cardinality(P)
      /\ \A k \in 1..Cardinality(P) : Pick(s, P, R)[k] = s[Listing(P, R)[k]]
  BY PickProperties
<1>2. Listing(P, R) = L
  BY <1>1, ListingIs
<1> DEFINE p == Pick(s, P, R)
<1>3. /\ p \in Seq(E) /\ Len(p) = Len(t)
      /\ \A k \in 1..Len(p) : p[k] = t[k]
  BY <1>1, <1>2
<1> HIDE DEF p
<1>4. p = t
  BY <1>3, SeqEqual
<1> QED
  BY <1>4 DEF p

(* Choosing one more place, behind all the others, appends its element. *)
LEMMA PickAppends ==
    ASSUME NEW E, NEW s \in Seq(E), NEW P, P \subseteq DOMAIN s,
           NEW i \in DOMAIN s, \A j \in P : j < i
    PROVE  Pick(s, P \cup {i}, Upwards(P \cup {i})) = Append(Pick(s, P, Upwards(P)), s[i])
<1> DEFINE n == Cardinality(P)
           Q == P \cup {i}
           M == Listing(P, Upwards(P))
           p == Pick(s, P, Upwards(P))
           L == [k \in 1..(n + 1) |-> IF k <= n THEN M[k] ELSE i]
           t == Append(p, s[i])
<1>1. DOMAIN s = 1..Len(s) /\ Len(s) \in Nat /\ s[i] \in E
  BY LenProperties
<1>2. StrictOrder(P, Upwards(P)) /\ StrictOrder(Q, Upwards(Q)) /\ i \notin P
  BY <1>1, UpwardsIsOrder
<1>3. /\ IsFiniteSet(P)
      /\ p \in Seq(E) /\ Len(p) = n
      /\ M \in [1..n -> P]
      /\ \A a, b \in 1..n : a < b => <<M[a], M[b]>> \in Upwards(P)
      /\ \A k \in 1..n : p[k] = s[M[k]]
  BY <1>2, PickProperties
<1>4. n \in Nat /\ Cardinality(Q) = n + 1
  BY <1>2, <1>3, FS_CardinalityType, FS_AddElement
<1> HIDE DEF n, M, p
<1>5. /\ t \in Seq(E) /\ Len(t) = n + 1
      /\ \A k \in 1..n : t[k] = p[k]
      /\ t[n + 1] = s[i]
  BY <1>1, <1>3, AppendProperties
<1> HIDE DEF t
<1>6. L \in [1..(n + 1) -> Q] /\ \A k \in 1..(n + 1) : t[k] = s[L[k]]
  BY <1>3, <1>4, <1>5
<1>7. ASSUME NEW a \in 1..(n + 1), NEW b \in 1..(n + 1), a < b
      PROVE  <<L[a], L[b]>> \in Upwards(Q)
  <2>1. a \in 1..n /\ L[a] = M[a] /\ M[a] \in P
    BY <1>3, <1>4, <1>7
  <2>2. CASE b \in 1..n
    <3>1. L[b] = M[b] /\ <<M[a], M[b]>> \in Upwards(P)
      BY <1>3, <1>4, <1>7, <2>1, <2>2
    <3> QED
      BY <2>1, <3>1 DEF Upwards
  <2>3. CASE b = n + 1
    <3>1. L[b] = i /\ M[a] < i
      BY <1>4, <2>1, <2>3
    <3> QED
      BY <2>1, <3>1 DEF Upwards
  <2> QED
    BY <1>4, <2>2, <2>3
<1> HIDE DEF L
<1>8. Q \subseteq DOMAIN s
  OBVIOUS
<1> HIDE DEF Q
<1>9. Pick(s, Q, Upwards(Q)) = t
  <2>1. /\ Len(t) = Cardinality(Q)
        /\ L \in [1..Cardinality(Q) -> Q]
        /\ \A a, b \in 1..Cardinality(Q) : a < b => <<L[a], L[b]>> \in Upwards(Q)
        /\ \A k \in 1..Cardinality(Q) : t[k] = s[L[k]]
    BY <1>4, <1>5, <1>6, <1>7
  <2> HIDE DEF n
  <2> QED
    BY ONLY s \in Seq(E), <1>2, <1>5, <1>8, <2>1, PickIs
<1> QED
  BY <1>9 DEF Q, t, p

(* Choosing no place picks nothing. *)
LEMMA PickNothing ==
    ASSUME NEW E, NEW s \in Seq(E)
    PROVE  Pick(s, {}, Upwards({})) = <<>>
<1>1. Cardinality({}) = 0
  BY FS_EmptySet
<1> QED
  BY <1>1 DEF Pick

(* The elements of s that are in S, up to the place i. *)
KeepUpTo(s, S, i) ==
    LET P == {j \in Places(s, S) : j <= i} IN Pick(s, P, Upwards(P))

(* Keep, place by place. *)
LEMMA KeepGrows ==
    ASSUME NEW E, NEW s \in Seq(E), NEW S
    PROVE  /\ KeepUpTo(s, S, 0) = <<>>
           /\ \A i \in 1..Len(s) :
                KeepUpTo(s, S, i) = IF s[i] \in S THEN Append(KeepUpTo(s, S, i - 1), s[i])
                                                  ELSE KeepUpTo(s, S, i - 1)
           /\ KeepUpTo(s, S, Len(s)) = Keep(s, S)
<1> DEFINE P(i) == {j \in Places(s, S) : j <= i}
<1>0. \A i : KeepUpTo(s, S, i) = Pick(s, P(i), Upwards(P(i)))
  BY DEF KeepUpTo
<1>1. Len(s) \in Nat /\ DOMAIN s = 1..Len(s)
  BY LenProperties
<1>2. KeepUpTo(s, S, 0) = <<>>
  <2>1. P(0) = {}
    BY <1>1 DEF Places
  <2> QED
    BY <1>0, <2>1, PickNothing
<1>3. ASSUME NEW i \in 1..Len(s)
      PROVE  KeepUpTo(s, S, i) = IF s[i] \in S THEN Append(KeepUpTo(s, S, i - 1), s[i])
                                               ELSE KeepUpTo(s, S, i - 1)
  <2>1. i \in DOMAIN s /\ P(i - 1) \subseteq DOMAIN s /\ \A j \in P(i - 1) : j < i
    BY <1>1 DEF Places
  <2>2. CASE s[i] \in S
    <3>1. P(i) = P(i - 1) \cup {i}
      BY <1>1, <2>2 DEF Places
    <3> HIDE DEF P
    <3> QED
      BY <1>0, <2>1, <2>2, <3>1, PickAppends
  <2>3. CASE s[i] \notin S
    <3>1. P(i) = P(i - 1)
      BY <1>1, <2>3 DEF Places
    <3> HIDE DEF P
    <3> QED
      BY <1>0, <2>3, <3>1
  <2> QED
    BY <2>2, <2>3
<1>4. KeepUpTo(s, S, Len(s)) = Keep(s, S)
  <2>1. P(Len(s)) = Places(s, S)
    BY <1>1 DEF Places
  <2> QED
    BY <1>0, <2>1 DEF Keep
<1> QED
  BY <1>2, <1>3, <1>4

(* The filter returns what the loop of the sweep computes, for every list   *)
(* and every set of survivors.                                             *)
THEOREM KeepIsLoop ==
    ASSUME NEW E, NEW s \in Seq(E), NEW S
    PROVE  Keep(s, S) = SweepLoop(s, S)
<1> DEFINE n == Len(s)
           Meets(f) == f = [i \in 0..n |->
                               IF i = 0 THEN <<>>
                               ELSE IF s[i] \in S THEN Append(f[i - 1], s[i])
                               ELSE f[i - 1]]
           upTo == [i \in 0..n |-> KeepUpTo(s, S, i)]
<1>1. n \in Nat
  BY LenProperties
<1>2. /\ upTo[0] = <<>>
      /\ \A i \in 1..n : upTo[i] = IF s[i] \in S THEN Append(upTo[i - 1], s[i]) ELSE upTo[i - 1]
      /\ upTo[n] = Keep(s, S)
  <2>1. /\ upTo[0] = KeepUpTo(s, S, 0) /\ upTo[n] = KeepUpTo(s, S, n)
        /\ \A i \in 1..n : upTo[i] = KeepUpTo(s, S, i) /\ upTo[i - 1] = KeepUpTo(s, S, i - 1)
    BY <1>1
  <2>2. /\ KeepUpTo(s, S, 0) = <<>>
        /\ \A i \in 1..n :
             KeepUpTo(s, S, i) = IF s[i] \in S THEN Append(KeepUpTo(s, S, i - 1), s[i])
                                               ELSE KeepUpTo(s, S, i - 1)
        /\ KeepUpTo(s, S, n) = Keep(s, S)
    BY KeepGrows
  <2> HIDE DEF upTo, n
  <2> QED
    BY <2>1, <2>2
<1>3. Meets(upTo)
  <2>1. \A i \in 0..n : i = 0 \/ i \in 1..n
    BY <1>1
  <2>2. \A i \in 0..n : upTo[i] = IF i = 0 THEN <<>>
                                  ELSE IF s[i] \in S THEN Append(upTo[i - 1], s[i])
                                  ELSE upTo[i - 1]
    <3> HIDE DEF upTo
    <3> QED
      BY <1>1, <1>2, <2>1
  <2> QED
    BY <2>2, Zenon
<1>4. ASSUME NEW f, Meets(f)
      PROVE  f[n] = upTo[n]
  <2> DEFINE wrong == {i \in 0..n : f[i] # upTo[i]}
  <2>1. \A i \in 0..n : f[i] = IF i = 0 THEN <<>>
                               ELSE IF s[i] \in S THEN Append(f[i - 1], s[i])
                               ELSE f[i - 1]
    BY <1>4, Zenon
  <2>2. /\ f[0] = <<>>
        /\ \A i \in 1..n : f[i] = IF s[i] \in S THEN Append(f[i - 1], s[i]) ELSE f[i - 1]
    <3>1. 0 \in 0..n /\ \A i \in 1..n : i \in 0..n /\ i # 0
      BY <1>1
    <3> QED
      BY <2>1, <3>1
  <2>3. wrong \in SUBSET Nat /\ wrong \subseteq 0..n
    BY <1>1
  <2>4. \A i \in 0..n : i \in wrong <=> f[i] # upTo[i]
    OBVIOUS
  <2> HIDE DEF wrong, upTo, Meets
  <2>5. wrong = {}
    <3>1. SUFFICES ASSUME wrong # {}
                   PROVE  FALSE
      OBVIOUS
    <3>2. PICK i \in wrong : \A j \in wrong : i <= j
      BY <2>3, <3>1, LeastNumber
    <3>3. i \in 1..n /\ f[i] # upTo[i]
      BY <1>1, <1>2, <2>2, <2>3, <2>4, <3>2
    <3>4. i - 1 \in 0..n /\ i - 1 \notin wrong
      BY <1>1, <3>2, <3>3
    <3> QED
      BY <1>2, <2>2, <2>4, <3>3, <3>4
  <2> QED
    BY <1>1, <2>4, <2>5
<1>5. SweepLoop(s, S) = (CHOOSE f : Meets(f))[n]
  BY DEF SweepLoop
<1> HIDE DEF Meets, upTo
<1> QED
  BY <1>2, <1>3, <1>4, <1>5
-----------------------------------------------------------------------------
(* In a list in order, those a newcomer does not go before stand in front. *)
LEMMA FrontIsPrefix ==
    ASSUME NEW E, NEW s \in Seq(E), NEW x \in E, NEW before, WeakOrder(E, before),
           \A i, j \in DOMAIN s : i < j => <<s[j], s[i]>> \notin before,
           NEW front \in SUBSET DOMAIN s,
           \A i \in DOMAIN s : i \in front <=> <<x, s[i]>> \notin before
    PROVE  /\ Cardinality(front) \in 0..Len(s)
           /\ front = 1..Cardinality(front)
<1> DEFINE n == Len(s)
           rest == {k \in 1..(n + 1) : k \notin front}
<1>1. n \in Nat /\ DOMAIN s = 1..n /\ \A i \in 1..n : s[i] \in E
  BY LenProperties
<1>2. front \subseteq 1..n /\ rest \in SUBSET Nat /\ n + 1 \in rest
  BY <1>1
<1>3. ASSUME NEW i \in front, NEW j \in 1..n, j < i
      PROVE  j \in front
  <2>1. i \in 1..n /\ <<x, s[i]>> \notin before /\ <<s[i], s[j]>> \notin before
    BY <1>1, <1>3
  <2>2. <<x, s[j]>> \notin before
    BY <1>1, <2>1 DEF WeakOrder
  <2> QED
    BY <1>1, <2>2
<1>4. \A k \in 1..(n + 1) : k \in rest <=> k \notin front
  OBVIOUS
<1>5. rest \subseteq 1..(n + 1)
  OBVIOUS
<1> HIDE DEF rest
<1>6. PICK k \in rest : \A j \in rest : k <= j
  BY <1>2, LeastNumber
<1>7. k - 1 \in 0..n /\ front = 1..(k - 1)
  <2>1. k \in 1..(n + 1) /\ k \notin front
    BY <1>4, <1>5, <1>6
  <2>2. ASSUME NEW i \in 1..(k - 1)
        PROVE  i \in front
    <3>1. i \in 1..(n + 1) /\ i \notin rest
      BY <1>1, <1>6, <2>1
    <3> QED
      BY <1>4, <3>1
  <2>3. ASSUME NEW i \in front
        PROVE  i \in 1..(k - 1)
    <3>1. i \in 1..n /\ ~(k < i) /\ k # i
      BY <1>1, <1>2, <1>3, <2>1
    <3> QED
      BY <1>1, <2>1, <3>1
  <2>4. k - 1 \in 0..n
    BY <1>1, <2>1
  <2>5. front = 1..(k - 1)
    BY <2>2, <2>3
  <2> QED
    BY <2>4, <2>5
<1>8. Cardinality(front) = k - 1
  <2> DEFINE m == k - 1
  <2>1. m \in Nat /\ front = 1..m
    BY <1>1, <1>7
  <2> HIDE DEF m
  <2>2. Cardinality(1..m) = m
    BY <2>1, FS_Interval
  <2> QED
    BY <2>1, <2>2 DEF m
<1> QED
  BY <1>7, <1>8

(* Appending x to a list in order and sorting it inserts x behind those it  *)
(* does not go before, and moves nobody else.                              *)
THEOREM SortInserts ==
    ASSUME NEW E, NEW s \in Seq(E), NEW x \in E, NEW before, WeakOrder(E, before),
           \A i, j \in DOMAIN s : i < j => <<s[j], s[i]>> \notin before,
           NEW front \in SUBSET DOMAIN s,
           \A i \in DOMAIN s : i \in front <=> <<x, s[i]>> \notin before
    PROVE  StableSort(Append(s, x), before)
             = SubSeq(s, 1, Cardinality(front)) \o <<x>>
                 \o SubSeq(s, Cardinality(front) + 1, Len(s))
<1> DEFINE n == Cardinality(front)
           N == Len(s)
           a == Append(s, x)
           u == SubSeq(s, 1, n)
           v == SubSeq(s, n + 1, N)
           t == u \o <<x>> \o v
           L == [k \in 1..(N + 1) |-> IF k <= n THEN k ELSE IF k = n + 1 THEN N + 1 ELSE k - 1]
<1>1. N \in Nat /\ DOMAIN s = 1..N /\ \A i \in 1..N : s[i] \in E
  BY LenProperties
<1>2. n \in 0..N /\ front = 1..n
  BY FrontIsPrefix
<1> HIDE DEF n
<1>3. \A i \in 1..N : <<x, s[i]>> \notin before <=> i <= n
  <2>1. \A i \in 1..N : i \in 1..n <=> i <= n
    BY <1>1, <1>2
  <2> QED
    BY <1>1, <1>2, <2>1
<1>4. /\ a \in Seq(E) /\ Len(a) = N + 1
      /\ \A i \in 1..N : a[i] = s[i]
      /\ a[N + 1] = x
  BY AppendProperties
<1>5. DOMAIN a = 1..(N + 1)
  BY <1>4, LenProperties
<1> HIDE DEF a
<1>6. /\ t \in Seq(E) /\ Len(t) = N + 1
      /\ \A k \in 1..(N + 1) : t[k] = IF k <= n THEN s[k] ELSE IF k = n + 1 THEN x ELSE s[k - 1]
  <2>1. /\ u \in Seq(E) /\ Len(u) = n /\ \A k \in 1..n : u[k] = s[k]
    <3>1. \A i \in 1..n : s[i] \in E
      BY <1>1, <1>2
    <3>2. /\ u \in Seq(E) /\ Len(u) = IF 1 <= n THEN n - 1 + 1 ELSE 0
          /\ \A k \in 1..(n - 1 + 1) : u[k] = s[1 + k - 1]
      BY <1>2, <3>1, SubSeqProperties
    <3> HIDE DEF u
    <3> QED
      BY <1>2, <3>2
  <2>2. /\ v \in Seq(E) /\ Len(v) = N - n /\ \A k \in 1..(N - n) : v[k] = s[n + k]
    <3>1. \A i \in (n + 1)..N : s[i] \in E
      BY <1>1, <1>2
    <3>2. /\ v \in Seq(E) /\ Len(v) = IF n + 1 <= N THEN N - (n + 1) + 1 ELSE 0
          /\ \A k \in 1..(N - (n + 1) + 1) : v[k] = s[n + 1 + k - 1]
      BY <1>1, <1>2, <3>1, SubSeqProperties
    <3> HIDE DEF v
    <3>3. \A k \in 1..(N - n) : k \in 1..(N - (n + 1) + 1) /\ n + 1 + k - 1 = n + k
      BY <1>1, <1>2
    <3>4. Len(v) = N - n
      <4> HIDE DEF N
      <4>1. CASE n + 1 <= N
        BY <1>1, <1>2, <3>2, <4>1
      <4>2. CASE ~(n + 1 <= N)
        <5>1. n = N
          BY <1>1, <1>2, <4>2
        <5> QED
          BY <1>1, <3>2, <4>2, <5>1
      <4> QED
        BY <4>1, <4>2
    <3> QED
      BY <3>2, <3>3, <3>4
  <2> DEFINE w == u \o <<x>>
  <2>3. <<x>> \in Seq(E) /\ Len(<<x>>) = 1 /\ <<x>>[1] = x
    OBVIOUS
  <2> HIDE DEF u, v
  <2>4. /\ w \in Seq(E) /\ Len(w) = n + 1
        /\ \A k \in 1..(n + 1) : w[k] = IF k <= n THEN s[k] ELSE x
    <3>1. /\ w \in Seq(E) /\ Len(w) = n + 1
          /\ \A k \in 1..(n + 1) : w[k] = IF k <= n THEN u[k] ELSE <<x>>[k - n]
      BY <2>1, <2>3, ConcatProperties
    <3>2. \A k \in 1..(n + 1) : ~(k <= n) => k - n = 1
      BY <1>2
    <3>3. \A k \in 1..(n + 1) : k <= n => k \in 1..n
      BY <1>2
    <3> HIDE DEF w
    <3> QED
      BY <2>1, <2>3, <3>1, <3>2, <3>3
  <2>5. t = w \o v
    OBVIOUS
  <2> HIDE DEF w, t
  <2>6. /\ t \in Seq(E) /\ Len(t) = (n + 1) + (N - n)
        /\ \A k \in 1..((n + 1) + (N - n)) : t[k] = IF k <= n + 1 THEN w[k] ELSE v[k - (n + 1)]
    <3>1. /\ t \in Seq(E) /\ Len(t) = Len(w) + Len(v)
          /\ \A k \in 1..(Len(w) + Len(v)) : t[k] = IF k <= Len(w) THEN w[k] ELSE v[k - Len(w)]
      BY <2>2, <2>4, <2>5, ConcatProperties
    <3> QED
      BY <2>2, <2>4, <3>1
  <2>7. \A k \in 1..(N + 1) : /\ k \in 1..((n + 1) + (N - n))
                              /\ k <= n + 1 => k \in 1..(n + 1)
                              /\ ~(k <= n + 1) => /\ k - (n + 1) \in 1..(N - n)
                                                  /\ n + (k - (n + 1)) = k - 1
                                                  /\ ~(k <= n) /\ k # n + 1
                              /\ k <= n + 1 /\ ~(k <= n) => k = n + 1
    BY <1>1, <1>2
  <2>8. ASSUME NEW k \in 1..(N + 1)
        PROVE  t[k] = IF k <= n THEN s[k] ELSE IF k = n + 1 THEN x ELSE s[k - 1]
    <3>1. CASE k <= n + 1
      BY <2>4, <2>6, <2>7, <3>1
    <3>2. CASE ~(k <= n + 1)
      BY <2>2, <2>6, <2>7, <3>2
    <3> QED
      BY <3>1, <3>2
  <2> QED
    BY <1>1, <1>2, <2>6, <2>8
<1> HIDE DEF t
<1>7. /\ L \in [1..(N + 1) -> 1..(N + 1)]
      /\ \A k \in 1..(N + 1) : t[k] = a[L[k]]
  <2>1. \A k \in 1..(N + 1) : /\ k <= n => L[k] = k /\ k \in 1..N
                              /\ k = n + 1 => L[k] = N + 1
                              /\ ~(k <= n) /\ k # n + 1 => L[k] = k - 1 /\ k - 1 \in 1..N
    BY <1>1, <1>2
  <2>2. L \in [1..(N + 1) -> 1..(N + 1)]
    BY <1>1, <1>2
  <2> HIDE DEF L
  <2>3. ASSUME NEW k \in 1..(N + 1)
        PROVE  t[k] = a[L[k]]
    <3>1. CASE k <= n
      BY <1>4, <1>6, <2>1, <3>1
    <3>2. CASE k = n + 1
      BY <1>2, <1>4, <1>6, <2>1, <3>2
    <3>3. CASE ~(k <= n) /\ k # n + 1
      BY <1>4, <1>6, <2>1, <3>3
    <3> QED
      BY <3>1, <3>2, <3>3
  <2> QED
    BY <2>2, <2>3
<1>8. ASSUME NEW i \in 1..(N + 1), NEW j \in 1..(N + 1), i < j
      PROVE  <<L[i], L[j]>> \in Earlier(a, before)
  <2>1. \A p, q \in 1..(N + 1) : <<a[q], a[p]>> \notin before /\ p < q => <<p, q>> \in Earlier(a, before)
    BY <1>5 DEF Earlier
  <2>2. \A p, q \in 1..(N + 1) : <<a[p], a[q]>> \in before => <<p, q>> \in Earlier(a, before)
    BY <1>5 DEF Earlier
  <2>3. \A p, q \in 1..N : p < q => <<s[q], s[p]>> \notin before
    BY <1>1
  <2>4. CASE i # n + 1 /\ j # n + 1
    <3>1. L[i] \in 1..N /\ L[j] \in 1..N /\ L[i] < L[j]
      BY <1>1, <1>2, <1>8, <2>4
    <3> HIDE DEF L
    <3>2. <<s[L[j]], s[L[i]]>> \notin before
      BY <2>3, <3>1
    <3>3. a[L[j]] = s[L[j]] /\ a[L[i]] = s[L[i]]
      BY <1>4, <3>1
    <3>4. L[i] \in 1..(N + 1) /\ L[j] \in 1..(N + 1)
      BY <1>1, <3>1
    <3> QED
      BY <2>1, <3>1, <3>2, <3>3, <3>4
  <2>5. CASE i # n + 1 /\ j = n + 1
    <3>1. L[i] = i /\ i \in 1..N /\ i <= n /\ L[j] = N + 1 /\ i < N + 1
      BY <1>1, <1>2, <1>8, <2>5
    <3> HIDE DEF L
    <3>2. a[L[j]] = x /\ a[L[i]] = s[i] /\ <<x, s[i]>> \notin before
      BY <1>3, <1>4, <3>1
    <3>3. L[i] \in 1..(N + 1) /\ L[j] \in 1..(N + 1) /\ L[i] < L[j]
      BY <1>1, <3>1
    <3> QED
      BY <2>1, <3>2, <3>3
  <2>6. CASE i = n + 1 /\ j # n + 1
    <3>1. L[i] = N + 1 /\ L[j] = j - 1 /\ j - 1 \in 1..N /\ ~(j - 1 <= n)
      BY <1>1, <1>2, <1>8, <2>6
    <3> HIDE DEF L
    <3>2. a[L[i]] = x /\ a[L[j]] = s[j - 1] /\ <<x, s[j - 1]>> \in before
      BY <1>3, <1>4, <3>1
    <3>3. L[i] \in 1..(N + 1) /\ L[j] \in 1..(N + 1)
      BY <1>1, <3>1
    <3> QED
      BY <2>2, <3>2, <3>3
  <2> QED
    BY <1>8, <2>4, <2>5, <2>6
<1> HIDE DEF L
<1>9. StableSort(a, before) = t
  <2> DEFINE R == Earlier(a, before)
             D == DOMAIN a
  <2>1. StrictOrder(D, R) /\ D \subseteq DOMAIN a
    BY <1>4, EarlierIsOrder
  <2>2. Cardinality(D) = N + 1 /\ D = 1..(N + 1)
    BY <1>1, <1>5, FS_Interval
  <2> HIDE DEF D
  <2>3. /\ Len(t) = Cardinality(D)
        /\ L \in [1..Cardinality(D) -> D]
        /\ \A i, j \in 1..Cardinality(D) : i < j => <<L[i], L[j]>> \in R
        /\ \A k \in 1..Cardinality(D) : t[k] = a[L[k]]
    BY <1>6, <1>7, <1>8, <2>2
  <2> HIDE DEF R
  <2>4. a \in Seq(E) /\ t \in Seq(E)
    BY <1>4, <1>6
  <2>5. \A P, Q :
          /\ P \subseteq DOMAIN a /\ StrictOrder(P, Q)
          /\ Len(t) = Cardinality(P) /\ L \in [1..Cardinality(P) -> P]
          /\ \A i, j \in 1..Cardinality(P) : i < j => <<L[i], L[j]>> \in Q
          /\ \A k \in 1..Cardinality(P) : t[k] = a[L[k]]
          => Pick(a, P, Q) = t
    BY ONLY <2>4, PickIs
  <2>6. Pick(a, D, R) = t
    BY ONLY <2>1, <2>3, <2>5
  <2> QED
    BY <2>6 DEF StableSort, D, R
<1> QED
  BY <1>9 DEF a, t, n
=============================================================================
