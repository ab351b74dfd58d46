--------------------------- MODULE GpuQueueProofs ---------------------------
(***************************************************************************)
(* GpuQueue for every set of GPUs, leases, priorities and timeouts: the    *)
(* inductive invariant behind its safety, who passes whom, and deadlines.  *)
(***************************************************************************)
EXTENDS GpuQueue, StableListsProofs

USE QueueAssumption

(* Lease.touch on one record, for a given expiry. *)
Stamp(r, ttl, time) == [r EXCEPT !.ttl = ttl, !.expires_at = time]

(* Stamping a lease writes its ttl and expiry, and nothing else. *)
LEMMA StampFacts ==
    ASSUME NEW r, r \in Lease, NEW ttl \in Nat, NEW time \in Nat
    PROVE  /\ Stamp(r, ttl, time) \in Lease
           /\ Stamp(r, ttl, time).expires_at = time
           /\ Stamp(r, ttl, time).ttl = ttl
           /\ Stamp(r, ttl, time).gpu = r.gpu
           /\ Stamp(r, ttl, time).priority = r.priority
           /\ Stamp(r, ttl, time).enqueued_at = r.enqueued_at
<1>1. Stamp(r, ttl, time) \in Lease
  BY DEF Stamp, Lease
<1>2. Stamp(r, ttl, time).expires_at = time
  BY DEF Stamp, Lease
<1>3. Stamp(r, ttl, time).gpu = r.gpu
  BY DEF Stamp, Lease
<1>4. Stamp(r, ttl, time).priority = r.priority
  BY DEF Stamp, Lease
<1>5. Stamp(r, ttl, time).enqueued_at = r.enqueued_at
  BY DEF Stamp, Lease
<1>6. Stamp(r, ttl, time).ttl = ttl
  BY DEF Stamp, Lease
<1> QED
  BY <1>1, <1>2, <1>3, <1>4, <1>5, <1>6

(* Touching a lease changes its ttl and arms its expiry, and nothing else. *)
LEMMA TouchFacts ==
    ASSUME now \in Nat, NEW table \in [LeaseId -> Lease], NEW l \in LeaseId, NEW ttl \in Nat
    PROVE  /\ Touch(table, l, ttl) \in [LeaseId -> Lease]
           /\ Touch(table, l, ttl)[l].expires_at \in Nat
           /\ Touch(table, l, ttl)[l].expires_at = now + ttl
           /\ Touch(table, l, ttl)[l].ttl = ttl
           /\ \A m \in LeaseId :
                /\ m # l => Touch(table, l, ttl)[m] = table[m]
                /\ Touch(table, l, ttl)[m].gpu = table[m].gpu
                /\ Touch(table, l, ttl)[m].priority = table[m].priority
                /\ Touch(table, l, ttl)[m].enqueued_at = table[m].enqueued_at
<1> DEFINE rec == Stamp(table[l], ttl, now + ttl)
           T == Touch(table, l, ttl)
<1>1. T = [table EXCEPT ![l] = rec]
  BY Zenon DEF Touch, Stamp
<1>2. /\ rec \in Lease
      /\ rec.expires_at = now + ttl
      /\ rec.ttl = ttl
      /\ rec.gpu = table[l].gpu
      /\ rec.priority = table[l].priority
      /\ rec.enqueued_at = table[l].enqueued_at
  <2>1. table[l] \in Lease /\ now + ttl \in Nat
    OBVIOUS
  <2> QED
    BY <2>1, StampFacts
<1> HIDE DEF rec, T
<1>3. T \in [LeaseId -> Lease] /\ T[l] = rec /\ \A m \in LeaseId : m # l => T[m] = table[m]
  BY <1>1, <1>2
<1>4. T[l].expires_at \in Nat /\ T[l].expires_at = now + ttl /\ T[l].ttl = ttl
  BY <1>2, <1>3
<1>5. \A m \in LeaseId : /\ T[m].gpu = table[m].gpu
                         /\ T[m].priority = table[m].priority
                         /\ T[m].enqueued_at = table[m].enqueued_at
  BY <1>2, <1>3
<1> QED
  BY <1>3, <1>4, <1>5 DEF T

(* A minted lease is a lease, for a request the program accepts. *)
LEMMA MintFacts ==
    ASSUME TypeOK, NEW g \in Gpu, NEW l \in LeaseId, NEW prio \in Priority,
           NEW ttl \in Ttl, NEW wait \in WaitTimeout
    PROVE  /\ Mint(g, l, prio, ttl, wait) \in [LeaseId -> Lease]
           /\ Mint(g, l, prio, ttl, wait)[l].gpu = g
           /\ \A m \in LeaseId : m # l => Mint(g, l, prio, ttl, wait)[m] = lease[m]
<1> DEFINE rec == [gpu |-> g, priority |-> prio, ttl |-> ttl, wait_timeout |-> wait,
                   enqueued_at |-> now, expires_at |-> NotGranted]
<1>1. rec \in Lease /\ rec.gpu = g
  BY DEF Lease, TypeOK, Time, NotGranted
<1>2. Mint(g, l, prio, ttl, wait) = [lease EXCEPT ![l] = rec]
  BY DEF Mint
<1> HIDE DEF rec
<1> QED
  BY <1>1, <1>2 DEF TypeOK

(* The sort key of the waiting list is one: it compares numbers. *)
LEMMA UrgencyIsWeakOrder ==
    ASSUME NEW table \in [LeaseId -> Lease]
    PROVE  WeakOrder(LeaseId, Urgency(table))
<1>1. \A l \in LeaseId : table[l].priority \in Int /\ table[l].enqueued_at \in Int
  BY DEF Lease, Time
<1>2. ASSUME NEW x \in LeaseId, NEW y \in LeaseId
      PROVE  <<x, y>> \in Urgency(table) <=>
                (table[x].priority > table[y].priority
                 \/ (table[x].priority = table[y].priority
                     /\ table[x].enqueued_at < table[y].enqueued_at))
  BY DEF Urgency
<1>3. ASSUME NEW x \in LeaseId, NEW y \in LeaseId, <<x, y>> \in Urgency(table)
      PROVE  <<y, x>> \notin Urgency(table)
  BY <1>1, <1>2, <1>3
<1>4. ASSUME NEW x \in LeaseId, NEW y \in LeaseId, NEW z \in LeaseId,
             <<x, z>> \in Urgency(table)
      PROVE  <<x, y>> \in Urgency(table) \/ <<y, z>> \in Urgency(table)
  BY <1>1, <1>2, <1>4
<1> QED
  BY <1>3, <1>4 DEF WeakOrder
-----------------------------------------------------------------------------
(* No element of s occurs twice. *)
Distinct(s) == \A i, j \in DOMAIN s : s[i] = s[j] => i = j

(* s is in the order of the sort key, read from `table`. *)
Ordered(s, table) ==
    \A i, j \in DOMAIN s : i < j => <<s[j], s[i]>> \notin Urgency(table)

(* A list without elements is the empty list. *)
LEMMA NoElems ==
    ASSUME NEW s \in Seq(LeaseId)
    PROVE  /\ Elems(s) \subseteq LeaseId
           /\ Elems(s) = {} <=> s = <<>>
<1>1. DOMAIN s = 1..Len(s) /\ Len(s) \in Nat /\ \A i \in DOMAIN s : s[i] \in LeaseId
  BY LenProperties
<1>2. Elems(s) \subseteq LeaseId
  BY <1>1 DEF Elems
<1>3. ASSUME Elems(s) = {}
      PROVE  s = <<>>
  <2>1. 1 \notin DOMAIN s
    BY <1>3 DEF Elems
  <2>2. Len(s) = 0
    BY <2>1, <1>1
  <2> QED
    BY <2>2, EmptySeq
<1>4. ASSUME s = <<>>
      PROVE  Elems(s) = {}
  <2>1. DOMAIN s = {}
    BY <1>4
  <2> QED
    BY <2>1 DEF Elems
<1> QED
  BY <1>2, <1>3, <1>4

(* The empty list has no elements to repeat or to put out of order. *)
LEMMA EmptyLine ==
    ASSUME NEW table
    PROVE  /\ <<>> \in Seq(LeaseId)
           /\ Elems(<<>>) = {}
           /\ Distinct(<<>>)
           /\ Ordered(<<>>, table)
<1>1. DOMAIN <<>> = {} /\ <<>> \in Seq(LeaseId)
  OBVIOUS
<1> QED
  BY <1>1 DEF Elems, Distinct, Ordered

(* Taking the head leaves the others, in their order. *)
LEMMA HeadLeaves ==
    ASSUME NEW s \in Seq(LeaseId), s # <<>>, Distinct(s),
           NEW table, Ordered(s, table)
    PROVE  /\ Head(s) \in Elems(s)
           /\ Tail(s) \in Seq(LeaseId)
           /\ Elems(Tail(s)) = Elems(s) \ {Head(s)}
           /\ Distinct(Tail(s))
           /\ Ordered(Tail(s), table)
<1>1. /\ Head(s) \in LeaseId
      /\ Tail(s) \in Seq(LeaseId)
      /\ Len(Tail(s)) = Len(s) - 1
      /\ \A i \in 1..Len(Tail(s)) : Tail(s)[i] = s[i + 1]
  BY HeadTailProperties
<1>2. /\ DOMAIN s = 1..Len(s) /\ Len(s) \in Nat
      /\ DOMAIN Tail(s) = 1..Len(Tail(s)) /\ Len(Tail(s)) \in Nat
  BY <1>1, LenProperties
<1>3. 1 \in DOMAIN s
  BY <1>1, <1>2
<1>4. Head(s) = s[1]
  BY <1>3
<1> DEFINE t == Tail(s)
<1> HIDE DEF t
<1>5. \A i \in DOMAIN t : i \in Int /\ i + 1 \in DOMAIN s /\ i + 1 # 1 /\ t[i] = s[i + 1]
  BY <1>1, <1>2 DEF t
<1>6. \A i \in DOMAIN s : i # 1 => i - 1 \in DOMAIN t /\ t[i - 1] = s[i]
  <2> SUFFICES ASSUME NEW i \in DOMAIN s, i # 1
               PROVE  i - 1 \in DOMAIN t /\ t[i - 1] = s[i]
    OBVIOUS
  <2>1. i \in Int /\ i - 1 \in DOMAIN t /\ (i - 1) + 1 = i
    BY <1>1, <1>2 DEF t
  <2> QED
    BY <2>1, <1>5
<1>7. Elems(t) = Elems(s) \ {s[1]}
  <2>1. \A i \in DOMAIN t : t[i] \in Elems(s) \ {s[1]}
    BY <1>3, <1>5 DEF Elems, Distinct
  <2>2. \A i \in DOMAIN s : s[i] # s[1] => s[i] \in Elems(t)
    <3> SUFFICES ASSUME NEW i \in DOMAIN s, s[i] # s[1]
                 PROVE  s[i] \in Elems(t)
      OBVIOUS
    <3>1. i - 1 \in DOMAIN t /\ t[i - 1] = s[i]
      BY <1>6
    <3> QED
      BY <3>1 DEF Elems
  <2> QED
    BY <2>1, <2>2 DEF Elems
<1>8. Distinct(t)
  BY <1>5 DEF Distinct
<1>9. Ordered(t, table)
  BY <1>5 DEF Ordered
<1> QED
  BY <1>1, <1>3, <1>4, <1>7, <1>8, <1>9 DEF t, Elems

(* Filtering keeps the survivors in their order. *)
LEMMA KeepLeaves ==
    ASSUME NEW s \in Seq(LeaseId), Distinct(s), NEW table, Ordered(s, table), NEW S
    PROVE  /\ Keep(s, S) \in Seq(LeaseId)
           /\ Elems(Keep(s, S)) = Elems(s) \cap S
           /\ Distinct(Keep(s, S))
           /\ Ordered(Keep(s, S), table)
<1> DEFINE t == Keep(s, S)
<1>1. /\ t \in Seq(LeaseId)
      /\ Elems(t) = Elems(s) \cap S
      /\ \E where \in [DOMAIN t -> DOMAIN s] :
            /\ \A k \in DOMAIN t : t[k] = s[where[k]]
            /\ \A a, b \in DOMAIN t : a < b => where[a] < where[b]
  BY KeepFilters
<1>2. \A i \in DOMAIN t : i \in Int
  BY <1>1, LenProperties
<1>3. \A i \in DOMAIN s : i \in Int
  BY LenProperties
<1> HIDE DEF t
<1>4. PICK where \in [DOMAIN t -> DOMAIN s] :
            /\ \A k \in DOMAIN t : t[k] = s[where[k]]
            /\ \A a, b \in DOMAIN t : a < b => where[a] < where[b]
  BY <1>1
<1>5. Distinct(t)
  <2> SUFFICES ASSUME NEW i \in DOMAIN t, NEW j \in DOMAIN t, t[i] = t[j], i # j
               PROVE  FALSE
    BY DEF Distinct
  <2>1. where[i] = where[j] /\ where[i] \in Int
    BY <1>3, <1>4 DEF Distinct
  <2>2. i < j \/ j < i
    BY <1>2
  <2> QED
    BY <2>1, <2>2, <1>4
<1>6. Ordered(t, table)
  BY <1>4 DEF Ordered
<1> QED
  BY <1>1, <1>5, <1>6 DEF t

(* Joining the line adds the lease and leaves the line sorted. *)
LEMMA JoinLine ==
    ASSUME NEW g, queue[g] \in Seq(LeaseId), Distinct(queue[g]),
           NEW l \in LeaseId, l \notin Queued(g),
           NEW table \in [LeaseId -> Lease]
    PROVE  /\ Line(g, l, table) \in Seq(LeaseId)
           /\ Elems(Line(g, l, table)) = Queued(g) \cup {l}
           /\ Distinct(Line(g, l, table))
           /\ Ordered(Line(g, l, table), table)
<1> DEFINE s == queue[g]
           a == Append(s, l)
           before == Urgency(table)
           t == StableSort(a, before)
<1>1. /\ a \in Seq(LeaseId)
      /\ Len(a) = Len(s) + 1
      /\ \A i \in 1..Len(s) : a[i] = s[i]
      /\ a[Len(s) + 1] = l
  BY AppendProperties
<1>2. /\ DOMAIN s = 1..Len(s) /\ Len(s) \in Nat
      /\ DOMAIN a = 1..Len(a)
  BY <1>1, LenProperties
<1> HIDE DEF s, a, before
<1>3. \A i \in DOMAIN a : i \in Int /\ (i \in DOMAIN s \/ i = Len(s) + 1)
  BY <1>1, <1>2
<1>4. Elems(a) = Elems(s) \cup {l}
  <2>1. \A i \in DOMAIN a : a[i] \in Elems(s) \cup {l}
    BY <1>1, <1>2, <1>3 DEF Elems
  <2>2. \A i \in DOMAIN s : i \in DOMAIN a /\ a[i] = s[i]
    BY <1>1, <1>2
  <2>3. Len(s) + 1 \in DOMAIN a
    BY <1>1, <1>2
  <2>4. Elems(s) \subseteq Elems(a) /\ l \in Elems(a)
    BY <1>1, <2>2, <2>3 DEF Elems
  <2> QED
    BY <2>1, <2>4 DEF Elems
<1>5. \A i, j \in DOMAIN a : a[i] = a[j] => i = j
  <2>1. \A i \in DOMAIN s : s[i] # l
    BY DEF Queued, Elems, s
  <2>2. \A i \in DOMAIN s : a[i] = s[i]
    BY <1>1, <1>2
  <2> QED
    BY <1>1, <1>3, <2>1, <2>2 DEF Distinct, s
<1>6. WeakOrder(LeaseId, before)
  BY UrgencyIsWeakOrder DEF before
<1>7. /\ t \in Seq(LeaseId)
      /\ DOMAIN t = DOMAIN a
      /\ Elems(t) = Elems(a)
      /\ \A i, j \in DOMAIN a : i < j => <<t[j], t[i]>> \notin before
  <2>1. a \in Seq(LeaseId)
    BY <1>1
  <2>2. /\ StableSort(a, before) \in Seq(LeaseId)
        /\ DOMAIN StableSort(a, before) = DOMAIN a
        /\ Elems(StableSort(a, before)) = Elems(a)
        /\ \A i, j \in DOMAIN a :
             i < j => <<StableSort(a, before)[j], StableSort(a, before)[i]>> \notin before
    BY ONLY <2>1, <1>6, StableSortSorts
  <2> QED
    BY <2>2
<1>8. \A i, j \in DOMAIN a : t[i] = t[j] => i = j
  <2>1. a \in Seq(LeaseId)
    BY <1>1
  <2>2. \A i, j \in DOMAIN a : StableSort(a, before)[i] = StableSort(a, before)[j] => i = j
    BY ONLY <2>1, <1>5, <1>6, SortDistinct
  <2> QED
    BY <2>2
<1> HIDE DEF t
<1>9. Distinct(t)
  BY <1>7, <1>8 DEF Distinct
<1>10. Ordered(t, table)
  BY <1>7 DEF Ordered, before
<1>11. t = Line(g, l, table)
  BY DEF Line, t, a, s, before
<1> QED
  BY <1>4, <1>7, <1>9, <1>10, <1>11 DEF Queued, s

(* The order of a line depends on the keys of its members only. *)
LEMMA SameKeys ==
    ASSUME NEW s \in Seq(LeaseId), NEW t1, NEW t2, Ordered(s, t1),
           \A m \in Elems(s) : /\ t1[m].priority = t2[m].priority
                               /\ t1[m].enqueued_at = t2[m].enqueued_at
    PROVE  Ordered(s, t2)
<1>1. \A i \in DOMAIN s : s[i] \in Elems(s) /\ s[i] \in LeaseId
  BY NoElems DEF Elems
<1>2. ASSUME NEW x \in Elems(s), NEW y \in Elems(s), <<x, y>> \in Urgency(t2)
      PROVE  <<x, y>> \in Urgency(t1)
  <2>1. x \in LeaseId /\ y \in LeaseId
    BY NoElems
  <2>2. \/ t2[x].priority > t2[y].priority
        \/ /\ t2[x].priority = t2[y].priority
           /\ t2[x].enqueued_at < t2[y].enqueued_at
    BY <1>2, <2>1 DEF Urgency
  <2>3. \/ t1[x].priority > t1[y].priority
        \/ /\ t1[x].priority = t1[y].priority
           /\ t1[x].enqueued_at < t1[y].enqueued_at
    BY <2>2
  <2> QED
    BY <2>1, <2>3 DEF Urgency
<1> QED
  BY <1>1, <1>2 DEF Ordered
-----------------------------------------------------------------------------
(* The invariant: none of its parts is preserved without the others.  A     *)
(* lease that joins is new to every line and no holder only because the    *)
(* slots tell the truth, and the slots stay true only because a lease is   *)
(* in one place.                                                           *)
IInv == TypeOK /\ OnePlace /\ SlotsTruthful /\ NobodyStranded /\ QueueOrdered

(* A lease that holds or waits at one GPU is a stranger to the others. *)
LEMMA Elsewhere ==
    ASSUME IInv, NEW g \in Gpu, NEW k \in Gpu, k # g,
           NEW m \in LeaseId, m \in Queued(k) \/ m = holder[k]
    PROVE  m \notin Queued(g) /\ m # holder[g]
BY DEF IInv, OnePlace, QueueAssumption

(* A step of one queue.  The queue g ends with holder h, line q and closed  *)
(* flag c; the leases and slots of the other queues are left alone.  What  *)
(* must hold at g for the invariant to survive is listed here; each action *)
(* below only has to meet the list.                                        *)
LEMMA OneQueueStep ==
    ASSUME IInv, NEW g \in Gpu,
           NEW h \in LeaseId \cup {None}, NEW q \in Seq(LeaseId), NEW c \in BOOLEAN,
           now' \in Time,
           holder' = [holder EXCEPT ![g] = h],
           queue' = [queue EXCEPT ![g] = q],
           closed' = [closed EXCEPT ![g] = c],
           lease' \in [LeaseId -> Lease],
           slot' \in [LeaseId -> SlotState],
           Distinct(q), Ordered(q, lease'), h \notin Elems(q),
           h = None \/ c => q = <<>>,
           \A m \in Elems(q) : lease'[m].gpu = g /\ slot'[m] = "waiting",
           h # None => /\ lease'[h].gpu = g
                       /\ slot'[h] = "granted"
                       /\ lease'[h].expires_at # NotGranted,
           \A m \in LeaseId : slot'[m] = "waiting" =>
                m \in Elems(q) \/ (slot[m] = "waiting" /\ m \notin Queued(g)),
           \A k \in Gpu \ {g}, m \in LeaseId :
                m \in Queued(k) \/ m = holder[k] => lease'[m] = lease[m] /\ slot'[m] = slot[m]
    PROVE  IInv'
<1>1. TypeOK'
  BY DEF IInv, TypeOK
<1>2. /\ holder'[g] = h /\ queue'[g] = q /\ closed'[g] = c
      /\ \A k \in Gpu \ {g} : holder'[k] = holder[k] /\ queue'[k] = queue[k] /\ closed'[k] = closed[k]
  BY DEF IInv, TypeOK
<1>3. /\ Queued(g)' = Elems(q)
      /\ \A k \in Gpu \ {g} : Queued(k)' = Queued(k)
  BY <1>2 DEF Queued
<1>4. \A k \in Gpu : queue[k] \in Seq(LeaseId) /\ Queued(k) \subseteq LeaseId
  BY NoElems DEF IInv, TypeOK, Queued
<1>5. OnePlace'
  <2> SUFFICES ASSUME NEW k \in Gpu
               PROVE  /\ Distinct(queue'[k])
                      /\ holder'[k] \notin Queued(k)'
                      /\ \A m \in Queued(k)' : lease'[m].gpu = k
                      /\ holder'[k] # None => lease'[holder'[k]].gpu = k
    BY DEF OnePlace, Distinct
  <2>1. CASE k = g
    BY <2>1, <1>2, <1>3
  <2>2. CASE k # g
    <3>1. /\ Distinct(queue[k])
          /\ holder[k] \notin Queued(k)
          /\ \A m \in Queued(k) : lease[m].gpu = k
          /\ holder[k] # None => lease[holder[k]].gpu = k
      BY DEF IInv, OnePlace, Distinct
    <3>2. holder[k] \in LeaseId \cup {None}
      BY DEF IInv, TypeOK
    <3> QED
      BY <2>2, <3>1, <3>2, <1>2, <1>3, <1>4
  <2> QED
    BY <2>1, <2>2
<1>6. SlotsTruthful'
  <2>1. ASSUME NEW m \in LeaseId
        PROVE  slot'[m] = "waiting" <=> \E k \in Gpu : m \in Queued(k)'
    <3>1. ASSUME slot'[m] = "waiting"
          PROVE  \E k \in Gpu : m \in Queued(k)'
      <4>1. CASE m \in Elems(q)
        BY <4>1, <1>3
      <4>2. CASE slot[m] = "waiting" /\ m \notin Queued(g)
        <5>1. PICK k \in Gpu : m \in Queued(k)
          BY <4>2 DEF IInv, SlotsTruthful
        <5> QED
          BY <4>2, <5>1, <1>3
      <4> QED
        BY <3>1, <4>1, <4>2
    <3>2. ASSUME NEW k \in Gpu, m \in Queued(k)'
          PROVE  slot'[m] = "waiting"
      <4>1. CASE k = g
        BY <3>2, <4>1, <1>3
      <4>2. CASE k # g
        <5>1. m \in Queued(k) /\ slot[m] = "waiting"
          BY <3>2, <4>2, <1>3 DEF IInv, SlotsTruthful
        <5> QED
          BY <4>2, <5>1
      <4> QED
        BY <4>1, <4>2
    <3> QED
      BY <3>1, <3>2
  <2>2. ASSUME NEW k \in Gpu, holder'[k] # None
        PROVE  slot'[holder'[k]] = "granted" /\ lease'[holder'[k]].expires_at # NotGranted
    <3>1. CASE k = g
      BY <2>2, <3>1, <1>2
    <3>2. CASE k # g
      <4>1. holder[k] \in LeaseId /\ holder'[k] = holder[k]
        BY <2>2, <3>2, <1>2 DEF IInv, TypeOK
      <4>2. slot[holder[k]] = "granted" /\ lease[holder[k]].expires_at # NotGranted
        BY <2>2, <4>1 DEF IInv, SlotsTruthful
      <4> QED
        BY <3>2, <4>1, <4>2
    <3> QED
      BY <3>1, <3>2
  <2> QED
    BY <2>1, <2>2 DEF SlotsTruthful
<1>7. NobodyStranded'
  BY <1>2 DEF IInv, NobodyStranded
<1>8. QueueOrdered'
  <2> SUFFICES ASSUME NEW k \in Gpu
               PROVE  Ordered(queue'[k], lease')
    BY DEF QueueOrdered, Ordered, Urgency
  <2>1. CASE k = g
    BY <2>1, <1>2
  <2>2. CASE k # g
    <3>1. Ordered(queue[k], lease)
      BY DEF IInv, QueueOrdered, Ordered
    <3>2. /\ queue[k] \in Seq(LeaseId)
          /\ \A m \in Elems(queue[k]) : /\ lease[m].priority = lease'[m].priority
                                        /\ lease[m].enqueued_at = lease'[m].enqueued_at
      BY <2>2, <1>4 DEF Queued
    <3>3. Ordered(queue[k], lease')
      BY ONLY <3>1, <3>2, SameKeys
    <3> QED
      BY <2>2, <3>3, <1>2
  <2> QED
    BY <2>1, <2>2
<1> QED
  BY <1>1, <1>5, <1>6, <1>7, <1>8 DEF IInv
-----------------------------------------------------------------------------
(* What the invariant says of one queue. *)
LEMMA QueueFacts ==
    ASSUME IInv, NEW g \in Gpu
    PROVE  /\ now \in Time /\ now \in Nat
           /\ lease \in [LeaseId -> Lease] /\ slot \in [LeaseId -> SlotState]
           /\ holder[g] \in LeaseId \cup {None}
           /\ queue[g] \in Seq(LeaseId)
           /\ closed[g] \in BOOLEAN
           /\ Distinct(queue[g]) /\ Ordered(queue[g], lease)
           /\ Queued(g) \subseteq LeaseId
           /\ holder[g] \notin Queued(g)
           /\ \A m \in Queued(g) : lease[m].gpu = g /\ slot[m] = "waiting"
           /\ holder[g] # None => /\ lease[holder[g]].gpu = g
                                  /\ slot[holder[g]] = "granted"
                                  /\ lease[holder[g]].expires_at # NotGranted
           /\ holder[g] = None \/ closed[g] => queue[g] = <<>>
<1>1. /\ now \in Time /\ lease \in [LeaseId -> Lease] /\ slot \in [LeaseId -> SlotState]
      /\ holder[g] \in LeaseId \cup {None}
      /\ queue[g] \in Seq(LeaseId)
      /\ closed[g] \in BOOLEAN
  BY DEF IInv, TypeOK
<1>2. now \in Nat
  BY <1>1 DEF Time, QueueAssumption
<1>3. Distinct(queue[g]) /\ Ordered(queue[g], lease)
  BY DEF IInv, OnePlace, QueueOrdered, Distinct, Ordered
<1>4. Queued(g) \subseteq LeaseId
  BY <1>1, NoElems DEF Queued
<1>5. /\ holder[g] \notin Queued(g)
      /\ \A m \in Queued(g) : lease[m].gpu = g
      /\ holder[g] # None => lease[holder[g]].gpu = g
  BY DEF IInv, OnePlace
<1>6. /\ \A m \in Queued(g) : slot[m] = "waiting"
      /\ holder[g] # None => /\ slot[holder[g]] = "granted"
                             /\ lease[holder[g]].expires_at # NotGranted
  BY <1>4 DEF IInv, SlotsTruthful
<1>7. holder[g] = None \/ closed[g] => queue[g] = <<>>
  BY DEF IInv, NobodyStranded
<1> QED
  BY <1>1, <1>2, <1>3, <1>4, <1>5, <1>6, <1>7

(* _promote_locked: the head of the line takes over, touched; the others   *)
(* stay in line.  Nobody is promoted exactly when nobody waits.            *)
LEMMA PromotionFacts ==
    ASSUME IInv, NEW g \in Gpu
    PROVE  /\ Promoted(g) \in Queued(g) \cup {None}
           /\ Promoted(g) = None => Remaining(g) = <<>> /\ queue[g] = <<>>
           /\ Remaining(g) \in Seq(LeaseId)
           /\ Elems(Remaining(g)) = Queued(g) \ {Promoted(g)}
           /\ Distinct(Remaining(g)) /\ Ordered(Remaining(g), lease)
           /\ Touched(Promoted(g)) \in [LeaseId -> Lease]
           /\ Promoted(g) # None => Touched(Promoted(g))[Promoted(g)].expires_at # NotGranted
           /\ \A m \in LeaseId :
                /\ m # Promoted(g) => Touched(Promoted(g))[m] = lease[m]
                /\ Touched(Promoted(g))[m].gpu = lease[m].gpu
                /\ Touched(Promoted(g))[m].priority = lease[m].priority
                /\ Touched(Promoted(g))[m].enqueued_at = lease[m].enqueued_at
<1> USE QueueFacts
<1>1. CASE queue[g] = <<>>
  <2>1. Promoted(g) = None /\ Remaining(g) = <<>> /\ Queued(g) = {}
    BY <1>1, EmptyLine DEF Promoted, Remaining, Queued
  <2>2. Touched(Promoted(g)) = lease
    BY <2>1 DEF Touched
  <2> QED
    BY <1>1, <2>1, <2>2, EmptyLine
<1>2. CASE queue[g] # <<>>
  <2> DEFINE p == Head(queue[g])
  <2>1. /\ p \in Queued(g)
        /\ Tail(queue[g]) \in Seq(LeaseId)
        /\ Elems(Tail(queue[g])) = Queued(g) \ {p}
        /\ Distinct(Tail(queue[g])) /\ Ordered(Tail(queue[g]), lease)
    BY <1>2, HeadLeaves DEF Queued
  <2> HIDE DEF p
  <2>2. Promoted(g) = p /\ Remaining(g) = Tail(queue[g]) /\ p \in LeaseId /\ p # None
    BY <1>2, <2>1, QueueAssumption DEF Promoted, Remaining, p
  <2>3. Touched(p) = Touch(lease, p, lease[p].ttl)
    BY <2>2 DEF Touched
  <2>4. lease[p].ttl \in Nat /\ now \in Nat /\ lease \in [LeaseId -> Lease] /\ p \in LeaseId
    BY <2>2 DEF Lease
  <2>5. /\ Touched(p) \in [LeaseId -> Lease]
        /\ Touched(p)[p].expires_at \in Nat
        /\ \A m \in LeaseId :
             /\ m # p => Touched(p)[m] = lease[m]
             /\ Touched(p)[m].gpu = lease[m].gpu
             /\ Touched(p)[m].priority = lease[m].priority
             /\ Touched(p)[m].enqueued_at = lease[m].enqueued_at
    BY ONLY <2>3, <2>4, TouchFacts
  <2>6. Touched(p)[p].expires_at # NotGranted
    BY <2>5 DEF NotGranted
  <2> QED
    BY <2>1, <2>2, <2>5, <2>6
<1> QED
  BY <1>1, <1>2
-----------------------------------------------------------------------------
(* A function updated at g with the value it has there is unchanged. *)
LEMMA ClosedSame ==
    ASSUME IInv, NEW g \in Gpu
    PROVE  /\ closed = [closed EXCEPT ![g] = closed[g]]
           /\ holder = [holder EXCEPT ![g] = holder[g]]
           /\ queue = [queue EXCEPT ![g] = queue[g]]
BY DEF IInv, TypeOK

(* A lease that was not minted is nowhere. *)
LEMMA FreshIsNowhere ==
    ASSUME IInv, NEW l \in LeaseId, slot[l] = "none", NEW k \in Gpu
    PROVE  l \notin Queued(k) /\ l # holder[k]
BY QueueAssumption DEF IInv, SlotsTruthful

(* enqueue preserves the invariant, whether it grants or queues. *)
LEMMA EnqueueStep ==
    ASSUME IInv, NEW g \in Gpu, NEW l \in LeaseId, NEW prio \in Priority,
           NEW ttl \in Ttl, NEW wait \in WaitTimeout,
           Enqueue(g, l, prio, ttl, wait)
    PROVE  IInv'
<1> DEFINE table == Mint(g, l, prio, ttl, wait)
<1>1. /\ table \in [LeaseId -> Lease]
      /\ table[l].gpu = g
      /\ \A m \in LeaseId : m # l => table[m] = lease[m]
  BY MintFacts DEF IInv
<1>2. /\ ~closed[g] /\ slot[l] = "none"
      /\ now' = now /\ closed' = closed
  BY DEF Enqueue, Accepts
<1> HIDE DEF table
<1>3. /\ l \notin Queued(g) /\ l # holder[g] /\ l # None
      /\ \A k \in Gpu, m \in LeaseId : m \in Queued(k) \/ m = holder[k] => m # l
  BY <1>2, FreshIsNowhere, QueueAssumption
<1>4. CASE /\ holder[g] = None
           /\ holder' = [holder EXCEPT ![g] = l]
           /\ lease' = Touch(table, l, ttl)
           /\ slot' = [slot EXCEPT ![l] = "granted"]
           /\ queue' = queue
  <2>1. ttl \in Nat /\ now \in Nat
    BY QueueFacts, QueueAssumption
  <2>2. /\ lease' \in [LeaseId -> Lease]
        /\ lease'[l].expires_at \in Nat
        /\ lease'[l].gpu = g
        /\ \A m \in LeaseId : m # l => lease'[m] = lease[m]
    BY <2>1, <1>1, <1>4, TouchFacts
  <2>3. /\ slot' \in [LeaseId -> SlotState]
        /\ slot'[l] = "granted"
        /\ \A m \in LeaseId : m # l => slot'[m] = slot[m]
    BY <1>4, QueueFacts DEF SlotState
  <2>4. queue[g] = <<>> /\ Queued(g) = {}
    BY <1>4, QueueFacts, EmptyLine DEF Queued
  <2> DEFINE q == <<>>
  <2>5. /\ q \in Seq(LeaseId) /\ Elems(q) = {} /\ q = <<>>
        /\ Distinct(q) /\ Ordered(q, lease')
    BY EmptyLine
  <2>6. /\ queue' = [queue EXCEPT ![g] = q]
        /\ closed' = [closed EXCEPT ![g] = FALSE]
    BY <1>2, <1>4, <2>4, ClosedSame, QueueFacts
  <2> HIDE DEF q
  <2>7. lease'[l].expires_at # NotGranted
    BY <2>2 DEF NotGranted
  <2>8. now' \in Time
    BY <1>2, QueueFacts
  <2>9. \A m \in LeaseId : slot'[m] = "waiting" =>
             m \in Elems(q) \/ (slot[m] = "waiting" /\ m \notin Queued(g))
    BY <2>3, <2>4
  <2>10. \A k \in Gpu \ {g}, m \in LeaseId :
             m \in Queued(k) \/ m = holder[k] => lease'[m] = lease[m] /\ slot'[m] = slot[m]
    BY <1>3, <2>2, <2>3
  <2> QED
    BY <1>4, <2>2, <2>3, <2>5, <2>6, <2>7, <2>8, <2>9, <2>10, OneQueueStep
<1>5. CASE /\ holder[g] # None
           /\ queue' = [queue EXCEPT ![g] = Line(g, l, table)]
           /\ lease' = table
           /\ slot' = [slot EXCEPT ![l] = "waiting"]
           /\ holder' = holder
  <2> DEFINE q == Line(g, l, table)
  <2>1. /\ q \in Seq(LeaseId)
        /\ Elems(q) = Queued(g) \cup {l}
        /\ Distinct(q) /\ Ordered(q, table)
    BY <1>1, <1>3, QueueFacts, JoinLine
  <2> HIDE DEF q
  <2>2. /\ slot' \in [LeaseId -> SlotState]
        /\ slot'[l] = "waiting"
        /\ \A m \in LeaseId : m # l => slot'[m] = slot[m]
    BY <1>5, QueueFacts DEF SlotState
  <2>3. /\ holder' = [holder EXCEPT ![g] = holder[g]]
        /\ closed' = [closed EXCEPT ![g] = FALSE]
        /\ queue' = [queue EXCEPT ![g] = q]
    BY <1>2, <1>5, ClosedSame, QueueFacts DEF q
  <2>4. /\ now' \in Time
        /\ holder[g] \in LeaseId \cup {None}
        /\ holder[g] \notin Elems(q)
        /\ lease'[holder[g]].gpu = g
        /\ slot'[holder[g]] = "granted"
        /\ lease'[holder[g]].expires_at # NotGranted
    BY <1>1, <1>2, <1>3, <1>5, <2>1, <2>2, QueueFacts
  <2>5. \A m \in Elems(q) : lease'[m].gpu = g /\ slot'[m] = "waiting"
    BY <1>1, <1>3, <1>5, <2>1, <2>2, QueueFacts
  <2>6. \A m \in LeaseId : slot'[m] = "waiting" =>
             m \in Elems(q) \/ (slot[m] = "waiting" /\ m \notin Queued(g))
    BY <2>1, <2>2
  <2>7. \A k \in Gpu \ {g}, m \in LeaseId :
             m \in Queued(k) \/ m = holder[k] => lease'[m] = lease[m] /\ slot'[m] = slot[m]
    BY <1>1, <1>3, <1>5, <2>2
  <2> QED
    BY <1>1, <1>5, <2>1, <2>2, <2>3, <2>4, <2>5, <2>6, <2>7, OneQueueStep
<1> QED
  BY <1>4, <1>5 DEF Enqueue, table

(* release by the holder preserves the invariant. *)
LEMMA ReleaseHeldStep ==
    ASSUME IInv, NEW g \in Gpu, ReleaseHeld(g)
    PROVE  IInv'
<1> DEFINE p == Promoted(g)
           q == Remaining(g)
           table == Touched(p)
<1>1. /\ p \in Queued(g) \cup {None}
      /\ p = None => q = <<>> /\ queue[g] = <<>>
      /\ q \in Seq(LeaseId)
      /\ Elems(q) = Queued(g) \ {p}
      /\ Distinct(q) /\ Ordered(q, lease)
      /\ table \in [LeaseId -> Lease]
      /\ p # None => table[p].expires_at # NotGranted
      /\ \A m \in LeaseId :
           /\ m # p => table[m] = lease[m]
           /\ table[m].gpu = lease[m].gpu
           /\ table[m].priority = lease[m].priority
           /\ table[m].enqueued_at = lease[m].enqueued_at
  BY PromotionFacts
<1>2. /\ holder' = [holder EXCEPT ![g] = p]
      /\ queue' = [queue EXCEPT ![g] = q]
      /\ lease' = table
      /\ slot' = [m \in LeaseId |-> IF m = p THEN "granted" ELSE slot[m]]
      /\ now' = now /\ closed' = closed
  BY DEF ReleaseHeld
<1> HIDE DEF p, q, table
<1>3. /\ now \in Time /\ slot \in [LeaseId -> SlotState] /\ closed[g] \in BOOLEAN
      /\ Queued(g) \subseteq LeaseId
      /\ \A m \in Queued(g) : lease[m].gpu = g /\ slot[m] = "waiting"
      /\ holder[g] = None \/ closed[g] => queue[g] = <<>>
      /\ closed' = [closed EXCEPT ![g] = closed[g]]
  BY <1>2, QueueFacts, ClosedSame
<1>4. /\ p \in LeaseId \cup {None} /\ p \notin Elems(q) /\ Elems(q) \subseteq LeaseId
  BY <1>1, <1>3, QueueAssumption
<1>5. slot' \in [LeaseId -> SlotState]
  BY <1>2, <1>3 DEF SlotState
<1>6. Ordered(q, lease')
  <2>1. \A m \in Elems(q) : /\ lease[m].priority = lease'[m].priority
                            /\ lease[m].enqueued_at = lease'[m].enqueued_at
    BY <1>1, <1>2, <1>4
  <2>2. q \in Seq(LeaseId) /\ Ordered(q, lease)
    BY <1>1
  <2> QED
    BY ONLY <2>1, <2>2, SameKeys
<1>7. p = None \/ closed[g] => q = <<>>
  <2>1. closed[g] => Queued(g) = {}
    BY <1>3, EmptyLine DEF Queued
  <2> QED
    BY <1>1, <2>1, QueueAssumption
<1>8. \A m \in Elems(q) : lease'[m].gpu = g /\ slot'[m] = "waiting"
  BY <1>1, <1>2, <1>3, <1>4
<1>9. p # None => /\ lease'[p].gpu = g
                  /\ slot'[p] = "granted"
                  /\ lease'[p].expires_at # NotGranted
  BY <1>1, <1>2, <1>3, <1>4
<1>10. \A m \in LeaseId : slot'[m] = "waiting" =>
            m \in Elems(q) \/ (slot[m] = "waiting" /\ m \notin Queued(g))
  BY <1>1, <1>2
<1>11. \A k \in Gpu \ {g}, m \in LeaseId :
            m \in Queued(k) \/ m = holder[k] => lease'[m] = lease[m] /\ slot'[m] = slot[m]
  <2>1. \A k \in Gpu \ {g}, m \in LeaseId : m \in Queued(k) \/ m = holder[k] => m # p
    BY <1>1, Elsewhere, QueueAssumption
  <2> QED
    BY <1>1, <1>2, <2>1
<1>12. /\ q \in Seq(LeaseId) /\ Distinct(q) /\ closed[g] \in BOOLEAN
       /\ now' \in Time /\ lease' \in [LeaseId -> Lease]
       /\ holder' = [holder EXCEPT ![g] = p]
       /\ queue' = [queue EXCEPT ![g] = q]
       /\ closed' = [closed EXCEPT ![g] = closed[g]]
  BY <1>1, <1>2, <1>3
<1> QED
  BY <1>4, <1>5, <1>6, <1>7, <1>8, <1>9, <1>10, <1>11, <1>12, OneQueueStep

(* release of a queued lease preserves the invariant. *)
LEMMA CancelStep ==
    ASSUME IInv, NEW g \in Gpu, NEW l \in LeaseId, Cancel(g, l)
    PROVE  IInv'
<1> DEFINE q == Keep(queue[g], LeaseId \ {l})
<1>1. /\ q \in Seq(LeaseId)
      /\ Elems(q) = Queued(g) \cap (LeaseId \ {l})
      /\ Distinct(q) /\ Ordered(q, lease)
  BY QueueFacts, KeepLeaves DEF Queued
<1>2. /\ l \in Queued(g)
      /\ queue' = [queue EXCEPT ![g] = q]
      /\ slot' = [slot EXCEPT ![l] = "cancelled"]
      /\ now' = now /\ holder' = holder /\ lease' = lease /\ closed' = closed
  BY DEF Cancel
<1> HIDE DEF q
<1>3. /\ holder' = [holder EXCEPT ![g] = holder[g]]
      /\ closed' = [closed EXCEPT ![g] = closed[g]]
      /\ now' \in Time /\ lease' \in [LeaseId -> Lease]
      /\ holder[g] \in LeaseId \cup {None} /\ closed[g] \in BOOLEAN
      /\ holder[g] \notin Elems(q)
  BY <1>1, <1>2, QueueFacts, ClosedSame
<1>4. /\ slot' \in [LeaseId -> SlotState]
      /\ slot'[l] = "cancelled"
      /\ \A m \in LeaseId : m # l => slot'[m] = slot[m]
  BY <1>2, QueueFacts DEF SlotState
<1>5. ~closed[g] /\ holder[g] # None /\ holder[g] # l
  <2>1. queue[g] # <<>>
    BY <1>2, EmptyLine DEF Queued
  <2> QED
    BY <1>2, <2>1, QueueFacts
<1>6. \A m \in Elems(q) : lease'[m].gpu = g /\ slot'[m] = "waiting"
  BY <1>1, <1>2, <1>4, QueueFacts
<1>7. /\ lease'[holder[g]].gpu = g
      /\ slot'[holder[g]] = "granted"
      /\ lease'[holder[g]].expires_at # NotGranted
  BY <1>2, <1>3, <1>4, <1>5, QueueFacts
<1>8. \A m \in LeaseId : slot'[m] = "waiting" =>
           m \in Elems(q) \/ (slot[m] = "waiting" /\ m \notin Queued(g))
  BY <1>1, <1>4
<1>9. \A k \in Gpu \ {g}, m \in LeaseId :
           m \in Queued(k) \/ m = holder[k] => lease'[m] = lease[m] /\ slot'[m] = slot[m]
  BY <1>2, <1>4, Elsewhere
<1> QED
  BY <1>1, <1>2, <1>3, <1>4, <1>5, <1>6, <1>7, <1>8, <1>9, OneQueueStep, ZenonT(40)

(* renew preserves the invariant: the expiry stays armed. *)
LEMMA RenewStep ==
    ASSUME IInv, NEW g \in Gpu, NEW ttl \in Ttl \cup {None}, Renew(g, ttl)
    PROVE  IInv'
<1> DEFINE h == holder[g]
           new == IF ttl = None THEN lease[h].ttl ELSE ttl
<1>1. /\ h # None
      /\ lease' = Touch(lease, h, new)
      /\ now' = now /\ holder' = holder /\ queue' = queue
      /\ slot' = slot /\ closed' = closed
  BY DEF Renew
<1> HIDE DEF h
<1>2. /\ h = holder[g] /\ h \in LeaseId /\ now \in Nat /\ now \in Time
      /\ lease \in [LeaseId -> Lease] /\ slot \in [LeaseId -> SlotState]
      /\ queue[g] \in Seq(LeaseId) /\ closed[g] \in BOOLEAN
      /\ Distinct(queue[g]) /\ Ordered(queue[g], lease)
      /\ h \notin Queued(g) /\ Queued(g) \subseteq LeaseId
      /\ \A m \in Queued(g) : lease[m].gpu = g /\ slot[m] = "waiting"
      /\ lease[h].gpu = g /\ slot[h] = "granted"
      /\ h = None \/ closed[g] => queue[g] = <<>>
  BY <1>1, QueueFacts DEF h
<1>3. new \in Nat
  <2>1. lease[h].ttl \in Nat
    BY <1>2 DEF Lease
  <2> QED
    BY <2>1, QueueAssumption
<1> HIDE DEF new
<1>4. /\ lease' \in [LeaseId -> Lease]
      /\ lease'[h].expires_at \in Nat
      /\ \A m \in LeaseId :
           /\ m # h => lease'[m] = lease[m]
           /\ lease'[m].gpu = lease[m].gpu
           /\ lease'[m].priority = lease[m].priority
           /\ lease'[m].enqueued_at = lease[m].enqueued_at
  <2>1. /\ lease' = Touch(lease, h, new)
        /\ now \in Nat /\ lease \in [LeaseId -> Lease] /\ h \in LeaseId /\ new \in Nat
    BY <1>1, <1>2, <1>3
  <2> QED
    BY ONLY <2>1, TouchFacts
<1>5. Ordered(queue[g], lease')
  <2>1. /\ queue[g] \in Seq(LeaseId) /\ Ordered(queue[g], lease)
        /\ \A m \in Elems(queue[g]) : /\ lease[m].priority = lease'[m].priority
                                      /\ lease[m].enqueued_at = lease'[m].enqueued_at
    BY <1>2, <1>4 DEF Queued
  <2> QED
    BY ONLY <2>1, SameKeys
<1>6. /\ holder' = [holder EXCEPT ![g] = h]
      /\ queue' = [queue EXCEPT ![g] = queue[g]]
      /\ closed' = [closed EXCEPT ![g] = closed[g]]
  BY <1>1, <1>2, ClosedSame
<1>7. \A k \in Gpu \ {g}, m \in LeaseId :
           m \in Queued(k) \/ m = holder[k] => lease'[m] = lease[m] /\ slot'[m] = slot[m]
  <2>1. \A k \in Gpu \ {g}, m \in LeaseId : m \in Queued(k) \/ m = holder[k] => m # h
    BY <1>2, Elsewhere
  <2> QED
    BY <1>1, <1>4, <2>1
<1>8. /\ \A m \in Queued(g) : lease'[m].gpu = g /\ slot'[m] = "waiting"
      /\ lease'[h].gpu = g /\ slot'[h] = "granted" /\ lease'[h].expires_at # NotGranted
      /\ \A m \in LeaseId : slot'[m] = "waiting" =>
           m \in Queued(g) \/ (slot[m] = "waiting" /\ m \notin Queued(g))
  BY <1>1, <1>2, <1>4 DEF NotGranted
<1>9. Queued(g) = Elems(queue[g])
  BY DEF Queued
<1> DEFINE q == queue[g]
           c == closed[g]
<1>10. /\ now' \in Time /\ slot' \in [LeaseId -> SlotState] /\ lease' \in [LeaseId -> Lease]
       /\ h \in LeaseId \cup {None} /\ h # None /\ q \in Seq(LeaseId) /\ c \in BOOLEAN
       /\ Distinct(q) /\ h \notin Elems(q)
       /\ h = None \/ c => q = <<>>
       /\ holder' = [holder EXCEPT ![g] = h]
       /\ queue' = [queue EXCEPT ![g] = q]
       /\ closed' = [closed EXCEPT ![g] = c]
  BY <1>1, <1>2, <1>4, <1>6, <1>9
<1>11. /\ Ordered(q, lease') /\ Queued(g) = Elems(q)
       /\ \A m \in Elems(q) : lease'[m].gpu = g /\ slot'[m] = "waiting"
       /\ \A m \in LeaseId : slot'[m] = "waiting" =>
            m \in Elems(q) \/ (slot[m] = "waiting" /\ m \notin Queued(g))
       /\ lease'[h].gpu = g /\ slot'[h] = "granted" /\ lease'[h].expires_at # NotGranted
  BY <1>5, <1>8, <1>9
<1> HIDE DEF q, c
<1> QED
  BY <1>7, <1>10, <1>11, OneQueueStep, ZenonT(40)

(* The expiry pass preserves the invariant: promotion first, then the sweep *)
(* of what the promotion left in line.                                     *)
LEMMA ExpireNowStep ==
    ASSUME IInv, NEW g \in Gpu, ExpireNow(g)
    PROVE  IInv'
<1> DEFINE next == IF HolderExpired(g) THEN Promoted(g) ELSE holder[g]
           line == IF HolderExpired(g) THEN Remaining(g) ELSE queue[g]
           late == Overdue(line)
           q == Keep(line, LeaseId \ late)
           table == IF HolderExpired(g) THEN Touched(next) ELSE lease
<1>1. /\ ~closed[g]
      /\ holder' = [holder EXCEPT ![g] = next]
      /\ queue' = [queue EXCEPT ![g] = q]
      /\ lease' = table
      /\ slot' = [m \in LeaseId |-> IF m \in late THEN "wait_timeout"
                                    ELSE IF m = next THEN "granted" ELSE slot[m]]
      /\ now' = now /\ closed' = closed
  BY DEF ExpireNow, Due
<1>2. late \subseteq Elems(line)
  BY DEF Overdue
<1> HIDE DEF late, q
<1>3. /\ line \in Seq(LeaseId)
      /\ Elems(line) = Queued(g) \ {next}
      /\ next \in Queued(g) \cup {holder[g], None}
      /\ next # holder[g] => next \in Queued(g) \cup {None}
      /\ next = None => line = <<>>
      /\ Distinct(line) /\ Ordered(line, lease)
      /\ table \in [LeaseId -> Lease]
      /\ next # None => table[next].expires_at # NotGranted
      /\ \A m \in LeaseId :
           /\ m # next => table[m] = lease[m]
           /\ table[m].gpu = lease[m].gpu
           /\ table[m].priority = lease[m].priority
           /\ table[m].enqueued_at = lease[m].enqueued_at
  <2>1. CASE HolderExpired(g)
    <3>1. next = Promoted(g) /\ line = Remaining(g) /\ table = Touched(Promoted(g))
      BY <2>1
    <3> HIDE DEF next, line, table
    <3> QED
      BY <3>1, PromotionFacts
  <2>2. CASE ~HolderExpired(g)
    <3>1. next = holder[g] /\ line = queue[g] /\ table = lease
      BY <2>2
    <3> HIDE DEF next, line, table
    <3> QED
      BY <3>1, QueueFacts DEF Queued
  <2> QED
    BY <2>1, <2>2
<1> HIDE DEF next, line, table
<1>4. /\ now \in Time /\ slot \in [LeaseId -> SlotState]
      /\ closed[g] \in BOOLEAN
      /\ holder[g] \in LeaseId \cup {None}
      /\ Queued(g) \subseteq LeaseId
      /\ \A m \in Queued(g) : lease[m].gpu = g /\ slot[m] = "waiting"
      /\ holder[g] # None => lease[holder[g]].gpu = g /\ slot[holder[g]] = "granted"
      /\ closed' = [closed EXCEPT ![g] = closed[g]]
  BY <1>1, QueueFacts, ClosedSame
<1>5. /\ q \in Seq(LeaseId)
      /\ Elems(q) = Elems(line) \cap (LeaseId \ late)
      /\ Distinct(q) /\ Ordered(q, lease)
  BY <1>3, KeepLeaves DEF q
<1>6. /\ next \in LeaseId \cup {None} /\ next \notin Elems(q) /\ next \notin late
      /\ Elems(q) \subseteq Queued(g) /\ late \subseteq Queued(g)
  BY <1>2, <1>3, <1>4, <1>5
<1>7. slot' \in [LeaseId -> SlotState]
  BY <1>1, <1>4 DEF SlotState
<1>8. Ordered(q, lease')
  <2>1. /\ q \in Seq(LeaseId) /\ Ordered(q, lease)
        /\ \A m \in Elems(q) : /\ lease[m].priority = lease'[m].priority
                               /\ lease[m].enqueued_at = lease'[m].enqueued_at
    BY <1>1, <1>3, <1>4, <1>5, <1>6
  <2> QED
    BY ONLY <2>1, SameKeys
<1>9. next = None \/ closed[g] => q = <<>>
  <2>1. next = None => Elems(line) = {}
    BY <1>3, EmptyLine
  <2>2. next = None => Elems(q) = {}
    BY <2>1, <1>5
  <2> QED
    BY <1>1, <1>5, <2>2, NoElems
<1>10. \A m \in Elems(q) : lease'[m].gpu = g /\ slot'[m] = "waiting"
  BY <1>1, <1>3, <1>4, <1>5, <1>6
<1>11. next # None => /\ lease'[next].gpu = g
                      /\ slot'[next] = "granted"
                      /\ lease'[next].expires_at # NotGranted
  <2> SUFFICES ASSUME next # None
               PROVE  /\ lease'[next].gpu = g
                      /\ slot'[next] = "granted"
                      /\ lease'[next].expires_at # NotGranted
    OBVIOUS
  <2>1. next \in LeaseId /\ lease[next].gpu = g
    BY <1>3, <1>4
  <2> QED
    BY <2>1, <1>1, <1>3, <1>6
<1>12. \A m \in LeaseId : slot'[m] = "waiting" =>
            m \in Elems(q) \/ (slot[m] = "waiting" /\ m \notin Queued(g))
  BY <1>1, <1>3, <1>5
<1>13. \A k \in Gpu \ {g}, m \in LeaseId :
            m \in Queued(k) \/ m = holder[k] => lease'[m] = lease[m] /\ slot'[m] = slot[m]
  <2>1. \A k \in Gpu \ {g}, m \in LeaseId :
             m \in Queued(k) \/ m = holder[k] => m # next /\ m \notin late
    BY <1>3, <1>6, Elsewhere, QueueAssumption
  <2> QED
    BY <1>1, <1>3, <2>1
<1>14. /\ now' \in Time /\ lease' \in [LeaseId -> Lease] /\ slot' \in [LeaseId -> SlotState]
       /\ next \in LeaseId \cup {None} /\ q \in Seq(LeaseId) /\ closed[g] \in BOOLEAN
       /\ Distinct(q) /\ Ordered(q, lease') /\ next \notin Elems(q)
       /\ holder' = [holder EXCEPT ![g] = next]
       /\ queue' = [queue EXCEPT ![g] = q]
       /\ closed' = [closed EXCEPT ![g] = closed[g]]
  BY <1>1, <1>3, <1>4, <1>5, <1>6, <1>7, <1>8
<1> QED
  BY <1>9, <1>10, <1>11, <1>12, <1>13, <1>14, OneQueueStep

(* shutdown preserves the invariant: every waiter leaves, the holder stays. *)
LEMMA ShutdownStep ==
    ASSUME IInv, NEW g \in Gpu, Shutdown(g)
    PROVE  IInv'
<1> DEFINE h == holder[g]
           q == <<>>
           c == TRUE
<1>1. /\ closed' = [closed EXCEPT ![g] = c]
      /\ queue' = [queue EXCEPT ![g] = q]
      /\ slot' = [m \in LeaseId |-> IF m \in Queued(g) THEN "shutdown" ELSE slot[m]]
      /\ now' = now /\ holder' = holder /\ lease' = lease
  BY DEF Shutdown
<1>2. /\ q \in Seq(LeaseId) /\ Elems(q) = {} /\ q = <<>>
      /\ Distinct(q) /\ Ordered(q, lease')
      /\ c \in BOOLEAN
  BY EmptyLine
<1> HIDE DEF h, q, c
<1>3. /\ h \in LeaseId \cup {None}
      /\ h # None => /\ lease[h].gpu = g /\ slot[h] = "granted"
                     /\ lease[h].expires_at # NotGranted /\ h \notin Queued(g)
      /\ holder' = [holder EXCEPT ![g] = h]
      /\ now \in Time /\ lease \in [LeaseId -> Lease] /\ slot \in [LeaseId -> SlotState]
  BY <1>1, QueueFacts, ClosedSame DEF h
<1>4. slot' \in [LeaseId -> SlotState]
  BY <1>1, <1>3 DEF SlotState
<1>5. /\ \A m \in Elems(q) : lease'[m].gpu = g /\ slot'[m] = "waiting"
      /\ \A m \in LeaseId : slot'[m] = "waiting" =>
           m \in Elems(q) \/ (slot[m] = "waiting" /\ m \notin Queued(g))
      /\ h # None => /\ lease'[h].gpu = g
                     /\ slot'[h] = "granted"
                     /\ lease'[h].expires_at # NotGranted
  BY <1>1, <1>2, <1>3
<1>6. \A k \in Gpu \ {g}, m \in LeaseId :
           m \in Queued(k) \/ m = holder[k] => lease'[m] = lease[m] /\ slot'[m] = slot[m]
  BY <1>1, Elsewhere
<1>7. /\ now' \in Time /\ lease' \in [LeaseId -> Lease]
      /\ h \notin Elems(q) /\ (h = None \/ c => q = <<>>)
  BY <1>1, <1>2, <1>3
<1> QED
  BY <1>1, <1>2, <1>3, <1>4, <1>5, <1>6, <1>7, OneQueueStep

(* Time passing, or set back, changes no lease and no line. *)
LEMMA ClockKeeps ==
    ASSUME IInv, now' \in Time, UNCHANGED <<holder, queue, lease, slot, closed>>
    PROVE  IInv'
<1>1. TypeOK'
  BY DEF IInv, TypeOK
<1>2. \A g \in Gpu : Queued(g)' = Queued(g)
  BY DEF Queued
<1>3. OnePlace'
  BY <1>2 DEF IInv, OnePlace
<1>4. SlotsTruthful'
  BY <1>2 DEF IInv, SlotsTruthful
<1>5. NobodyStranded'
  BY DEF IInv, NobodyStranded
<1>6. QueueOrdered'
  BY DEF IInv, QueueOrdered, Urgency
<1> QED
  BY <1>1, <1>3, <1>4, <1>5, <1>6 DEF IInv

(* The invariant holds of the fresh process. *)
LEMMA InitInv == Init => IInv
<1> SUFFICES ASSUME Init
             PROVE  IInv
  OBVIOUS
<1> USE DEF Init
<1>1. TypeOK
  <2>1. Blank \in Lease
    BY QueueAssumption DEF Blank, Lease, Time, NotGranted
  <2> QED
    BY <2>1, QueueAssumption DEF TypeOK, Time, SlotState
<1>2. \A g \in Gpu : queue[g] = <<>> /\ Queued(g) = {} /\ holder[g] = None
  BY EmptyLine DEF Queued
<1>3. \A g \in Gpu : DOMAIN queue[g] = {}
  BY <1>2
<1>4. OnePlace /\ QueueOrdered
  BY <1>2, <1>3 DEF OnePlace, QueueOrdered
<1>5. SlotsTruthful /\ NobodyStranded
  BY <1>2 DEF SlotsTruthful, NobodyStranded
<1> QED
  BY <1>1, <1>4, <1>5 DEF IInv

(* Every operation of the queue preserves the invariant. *)
LEMMA NextInv == IInv /\ [Next]_vars => IInv'
<1> SUFFICES ASSUME IInv, [Next]_vars
             PROVE  IInv'
  OBVIOUS
<1>1. ASSUME NEW g \in Gpu, NEW l \in LeaseId, NEW prio \in Priority, NEW ttl \in Ttl,
             NEW wait \in WaitTimeout, Enqueue(g, l, prio, ttl, wait)
      PROVE  IInv'
  BY <1>1, EnqueueStep
<1>2. ASSUME NEW g \in Gpu, ReleaseHeld(g)
      PROVE  IInv'
  BY <1>2, ReleaseHeldStep
<1>3. ASSUME NEW g \in Gpu, NEW l \in LeaseId, Cancel(g, l)
      PROVE  IInv'
  BY <1>3, CancelStep
<1>4. ASSUME NEW g \in Gpu, NEW ttl \in Ttl \cup {None}, Renew(g, ttl)
      PROVE  IInv'
  BY <1>4, RenewStep
<1>5. ASSUME NEW g \in Gpu, ExpireNow(g)
      PROVE  IInv'
  BY <1>5, ExpireNowStep
<1>6. ASSUME NEW g \in Gpu, Shutdown(g)
      PROVE  IInv'
  BY <1>6, ShutdownStep
<1>7. CASE Tick
  <2>1. now \in Time /\ now < Horizon /\ now' = now + 1
    BY <1>7 DEF Tick, IInv, TypeOK
  <2>2. now' \in Time
    BY <2>1, QueueAssumption DEF Time
  <2> QED
    BY <1>7, <2>2, ClockKeeps DEF Tick
<1>8. CASE ClockStep
  <2>1. now \in Time /\ now' \in 0..(now - 1)
    BY <1>8 DEF ClockStep, IInv, TypeOK
  <2>2. now' \in Time
    BY <2>1, QueueAssumption DEF Time
  <2> QED
    BY <1>8, <2>2, ClockKeeps DEF ClockStep
<1>9. CASE UNCHANGED vars
  <2>1. now' \in Time
    BY <1>9 DEF vars, IInv, TypeOK
  <2> QED
    BY <1>9, <2>1, ClockKeeps DEF vars
<1> QED
  BY <1>1, <1>2, <1>3, <1>4, <1>5, <1>6, <1>7, <1>8, <1>9 DEF Next

(* In every reachable state the invariant holds. *)
THEOREM Invariance == Spec => []IInv
BY InitInv, NextInv, PTL DEF Spec

(* Every variable of the queue keeps its type, for any number of GPUs,     *)
(* leases, priorities and timeouts, and whatever the wall clock does.      *)
THEOREM TypeCorrect == Spec => []TypeOK
<1>1. IInv => TypeOK
  BY DEF IInv
<1> QED
  BY <1>1, Invariance, PTL

(* enqueue, release, _expire_now and shutdown never put a lease in two     *)
(* places, at two GPUs, or twice in one line.                              *)
THEOREM LeaseInOnePlace == Spec => []OnePlace
<1>1. IInv => OnePlace
  BY DEF IInv
<1> QED
  BY <1>1, Invariance, PTL

(* A handler is woken exactly when its lease leaves the line, and a holder *)
(* always has its expiry armed.                                            *)
THEOREM WaitersWoken == Spec => []SlotsTruthful
<1>1. IInv => SlotsTruthful
  BY DEF IInv
<1> QED
  BY <1>1, Invariance, PTL

(* No lease ever waits for an idle GPU or at a closed queue. *)
THEOREM NobodyWaitsInVain == Spec => []NobodyStranded
<1>1. IInv => NobodyStranded
  BY DEF IInv
<1> QED
  BY <1>1, Invariance, PTL

(* Every line is in the order of the sort key, even if the clock is set     *)
(* back while leases wait.                                                 *)
THEOREM LineInOrder == Spec => []QueueOrdered
<1>1. IInv => QueueOrdered
  BY DEF IInv
<1> QED
  BY <1>1, Invariance, PTL

(* A newcomer is put behind everybody who is at least as urgent, whatever   *)
(* the priorities and the clock, and nobody else moves.                    *)
THEOREM NewcomersInserted == Spec => []JoinsByInsertion
<1>1. ASSUME IInv, NEW g \in Gpu, NEW l \in LeaseId, NEW prio \in Priority,
             NEW ttl \in Ttl, NEW wait \in WaitTimeout, slot[l] = "none"
      PROVE  LET s     == queue[g]
                 table == Mint(g, l, prio, ttl, wait)
                 n     == Cardinality({i \in DOMAIN s : <<l, s[i]>> \notin Urgency(table)})
             IN  Line(g, l, table) = SubSeq(s, 1, n) \o <<l>> \o SubSeq(s, n + 1, Len(s))
  <2> DEFINE s == queue[g]
             table == Mint(g, l, prio, ttl, wait)
             before == Urgency(table)
  <2>1. s \in Seq(LeaseId) /\ Ordered(s, lease) /\ l \notin Queued(g)
    BY <1>1, QueueFacts, FreshIsNowhere
  <2>2. /\ table \in [LeaseId -> Lease]
        /\ \A m \in LeaseId : m # l => table[m] = lease[m]
    BY <1>1, MintFacts DEF IInv
  <2> HIDE DEF table
  <2>3. WeakOrder(LeaseId, before)
    BY <2>2, UrgencyIsWeakOrder
  <2>4. Ordered(s, table)
    <3>1. \A m \in Elems(s) : table[m] = lease[m]
      BY <2>1, <2>2, NoElems DEF Queued
    <3> HIDE DEF s
    <3> QED
      BY <2>1, <3>1, SameKeys
  <2>5. \A i, j \in DOMAIN s : i < j => <<s[j], s[i]>> \notin before
    BY <2>4 DEF Ordered
  <2> HIDE DEF before, s
  <2> DEFINE front == {i \in DOMAIN s : <<l, s[i]>> \notin before}
             n == Cardinality(front)
  <2>6. /\ s \in Seq(LeaseId) /\ l \in LeaseId /\ WeakOrder(LeaseId, before)
        /\ \A i, j \in DOMAIN s : i < j => <<s[j], s[i]>> \notin before
        /\ front \in SUBSET DOMAIN s
        /\ \A i \in DOMAIN s : i \in front <=> <<l, s[i]>> \notin before
    BY <1>1, <2>1, <2>3, <2>5
  <2> HIDE DEF front
  <2>7. StableSort(Append(s, l), before) = SubSeq(s, 1, n) \o <<l>> \o SubSeq(s, n + 1, Len(s))
    <3>1. SUFFICES StableSort(Append(s, l), before)
                     = SubSeq(s, 1, Cardinality(front)) \o <<l>>
                         \o SubSeq(s, Cardinality(front) + 1, Len(s))
      OBVIOUS
    <3> QED
      BY ONLY <2>6, SortInserts, ZenonT(30)
  <2> QED
    BY <2>7 DEF Line, s, table, before, front
<1>2. IInv => JoinsByInsertion
  BY <1>1 DEF JoinsByInsertion
<1> QED
  BY <1>2, Invariance, PTL

-----------------------------------------------------------------------------
(* What a method of the queue g other than renew leaves alone: the other    *)
(* queues, every lease granted before, the keys of every lease; and who    *)
(* can be granted or put in place by it.                                   *)
GrantsKept(g) ==
    /\ now' = now
    /\ \A k \in Gpu \ {g} : holder'[k] = holder[k] /\ queue'[k] = queue[k]
    /\ \A m \in LeaseId :
         /\ slot[m] = "granted" => slot'[m] = "granted" /\ lease'[m] = lease[m]
         /\ slot'[m] = "granted" =>
              slot[m] = "granted" \/ (holder'[g] = m /\ lease'[m].expires_at \in Nat)
         /\ slot'[m] = "none" => slot[m] = "none"
         /\ slot[m] # "none" => /\ lease'[m].gpu = lease[m].gpu
                                /\ lease'[m].priority = lease[m].priority
                                /\ lease'[m].enqueued_at = lease[m].enqueued_at
         /\ m = holder'[g] \/ m \in Queued(g)' =>
              m = holder[g] \/ m \in Queued(g) \/ slot[m] = "none"

(* The two branches of enqueue. *)
LEMMA EnqueueKeeps ==
    ASSUME IInv, NEW g \in Gpu, NEW l \in LeaseId, NEW prio \in Priority,
           NEW ttl \in Ttl, NEW wait \in WaitTimeout,
           Enqueue(g, l, prio, ttl, wait)
    PROVE  /\ GrantsKept(g)
           /\ slot[l] = "none" /\ ~closed[g]
           /\ slot'[l] \in {"granted", "waiting"}
           /\ \A m \in LeaseId : m # l => slot'[m] = slot[m] /\ lease'[m] = lease[m]
           /\ holder[g] # None => holder'[g] = holder[g] /\ slot'[l] = "waiting"
           /\ holder[g] = None => holder'[g] = l /\ slot'[l] = "granted"
           /\ l # holder[g] /\ l \notin Queued(g)
<1> DEFINE table == Mint(g, l, prio, ttl, wait)
<1>1. /\ table \in [LeaseId -> Lease]
      /\ \A m \in LeaseId : m # l => table[m] = lease[m]
  BY MintFacts DEF IInv
<1>2. /\ slot[l] = "none" /\ ~closed[g] /\ now' = now
      /\ \/ /\ holder[g] = None
            /\ holder' = [holder EXCEPT ![g] = l]
            /\ lease' = Touch(table, l, ttl)
            /\ slot' = [slot EXCEPT ![l] = "granted"]
            /\ queue' = queue
         \/ /\ holder[g] # None
            /\ queue' = [queue EXCEPT ![g] = Line(g, l, table)]
            /\ lease' = table
            /\ slot' = [slot EXCEPT ![l] = "waiting"]
            /\ holder' = holder
  BY DEF Enqueue, Accepts
<1>3. l \notin Queued(g) /\ l # holder[g]
  BY <1>2, FreshIsNowhere
<1> HIDE DEF table
<1>4. CASE /\ holder[g] = None
           /\ holder' = [holder EXCEPT ![g] = l]
           /\ lease' = Touch(table, l, ttl)
           /\ slot' = [slot EXCEPT ![l] = "granted"]
           /\ queue' = queue
  <2>1. ttl \in Nat /\ now \in Nat
    BY QueueFacts
  <2>2. /\ lease'[l].expires_at \in Nat
        /\ \A m \in LeaseId : m # l => lease'[m] = lease[m]
    BY <2>1, <1>1, <1>4, TouchFacts
  <2>3. /\ slot'[l] = "granted"
        /\ \A m \in LeaseId : m # l => slot'[m] = slot[m]
        /\ holder'[g] = l
        /\ \A k \in Gpu \ {g} : holder'[k] = holder[k]
        /\ Queued(g)' = Queued(g)
    BY <1>4 DEF IInv, TypeOK, Queued
  <2> QED
    BY <1>2, <1>3, <1>4, <2>2, <2>3 DEF GrantsKept
<1>5. CASE /\ holder[g] # None
           /\ queue' = [queue EXCEPT ![g] = Line(g, l, table)]
           /\ lease' = table
           /\ slot' = [slot EXCEPT ![l] = "waiting"]
           /\ holder' = holder
  <2>1. Elems(Line(g, l, table)) = Queued(g) \cup {l}
    BY <1>1, <1>3, QueueFacts, JoinLine
  <2>2. /\ slot'[l] = "waiting"
        /\ \A m \in LeaseId : m # l => slot'[m] = slot[m]
        /\ \A k \in Gpu \ {g} : queue'[k] = queue[k]
        /\ Queued(g)' = Queued(g) \cup {l}
    BY <1>5, <2>1 DEF IInv, TypeOK, Queued
  <2> QED
    BY <1>1, <1>2, <1>3, <1>5, <2>2 DEF GrantsKept
<1> QED
  BY <1>2, <1>4, <1>5

(* The holder leaves and the next takes over. *)
LEMMA ReleaseHeldKeeps ==
    ASSUME IInv, NEW g \in Gpu, ReleaseHeld(g)
    PROVE  /\ GrantsKept(g)
           /\ holder[g] # None
           /\ holder'[g] # holder[g] /\ holder[g] \notin Queued(g)'
<1> DEFINE p == Promoted(g)
<1>1. /\ p \in Queued(g) \cup {None}
      /\ Elems(Remaining(g)) = Queued(g) \ {p}
      /\ p # None => Touched(p)[p].expires_at # NotGranted
      /\ Touched(p) \in [LeaseId -> Lease]
      /\ \A m \in LeaseId :
           /\ m # p => Touched(p)[m] = lease[m]
           /\ Touched(p)[m].gpu = lease[m].gpu
           /\ Touched(p)[m].priority = lease[m].priority
           /\ Touched(p)[m].enqueued_at = lease[m].enqueued_at
  BY PromotionFacts
<1>2. /\ holder[g] # None
      /\ holder' = [holder EXCEPT ![g] = p]
      /\ queue' = [queue EXCEPT ![g] = Remaining(g)]
      /\ lease' = Touched(p)
      /\ slot' = [m \in LeaseId |-> IF m = p THEN "granted" ELSE slot[m]]
      /\ now' = now
  BY DEF ReleaseHeld
<1> HIDE DEF p
<1>3. /\ holder'[g] = p /\ Queued(g)' = Queued(g) \ {p}
      /\ \A k \in Gpu \ {g} : holder'[k] = holder[k] /\ queue'[k] = queue[k]
  BY <1>1, <1>2 DEF IInv, TypeOK, Queued
<1>4. /\ holder[g] \notin Queued(g) /\ Queued(g) \subseteq LeaseId
      /\ \A m \in Queued(g) : slot[m] = "waiting"
  BY QueueFacts
<1>5. p # None => p \in LeaseId /\ Touched(p)[p].expires_at \in Nat
  <2>1. \A m \in LeaseId : Touched(p)[m].expires_at \in Nat \cup {NotGranted}
    BY <1>1 DEF Lease
  <2> QED
    BY <1>1, <1>4, <2>1
<1> QED
  BY <1>1, <1>2, <1>3, <1>4, <1>5 DEF GrantsKept

(* A queued lease leaves the line. *)
LEMMA CancelKeeps ==
    ASSUME IInv, NEW g \in Gpu, NEW l \in LeaseId, Cancel(g, l)
    PROVE  /\ GrantsKept(g)
           /\ l \in Queued(g)
           /\ holder' = holder
           /\ l \notin Queued(g)' /\ l # holder'[g]
<1> DEFINE q == Keep(queue[g], LeaseId \ {l})
<1>1. Elems(q) = Queued(g) \cap (LeaseId \ {l})
  BY QueueFacts, KeepLeaves DEF Queued
<1>2. /\ l \in Queued(g)
      /\ queue' = [queue EXCEPT ![g] = q]
      /\ slot' = [slot EXCEPT ![l] = "cancelled"]
      /\ now' = now /\ holder' = holder /\ lease' = lease
  BY DEF Cancel
<1> HIDE DEF q
<1>3. /\ Queued(g)' = Queued(g) \cap (LeaseId \ {l})
      /\ \A k \in Gpu \ {g} : queue'[k] = queue[k]
      /\ slot'[l] = "cancelled"
      /\ \A m \in LeaseId : m # l => slot'[m] = slot[m]
  BY <1>1, <1>2 DEF IInv, TypeOK, Queued
<1>4. holder[g] # l /\ slot[l] = "waiting"
  BY <1>2, QueueFacts
<1> QED
  BY <1>2, <1>3, <1>4 DEF GrantsKept

(* The ticker removes the holder only when its lease has run out. *)
LEMMA ExpireNowKeeps ==
    ASSUME IInv, NEW g \in Gpu, ExpireNow(g)
    PROVE  /\ GrantsKept(g)
           /\ holder'[g] # holder[g] =>
                holder[g] # None /\ lease[holder[g]].expires_at <= now
<1> DEFINE next == IF HolderExpired(g) THEN Promoted(g) ELSE holder[g]
           line == IF HolderExpired(g) THEN Remaining(g) ELSE queue[g]
           late == Overdue(line)
           q == Keep(line, LeaseId \ late)
           table == IF HolderExpired(g) THEN Touched(next) ELSE lease
<1>1. /\ holder' = [holder EXCEPT ![g] = next]
      /\ queue' = [queue EXCEPT ![g] = q]
      /\ lease' = table
      /\ slot' = [m \in LeaseId |-> IF m \in late THEN "wait_timeout"
                                    ELSE IF m = next THEN "granted" ELSE slot[m]]
      /\ now' = now
  BY DEF ExpireNow
<1>2. late \subseteq Elems(line)
  BY DEF Overdue
<1>3. next # holder[g] => HolderExpired(g)
  OBVIOUS
<1> HIDE DEF late, q
<1>4. /\ line \in Seq(LeaseId) /\ Distinct(line) /\ Ordered(line, lease)
      /\ Elems(line) = Queued(g) \ {next}
      /\ next # holder[g] => next \in Queued(g) \cup {None}
      /\ next # holder[g] /\ next # None => table[next].expires_at # NotGranted
      /\ table \in [LeaseId -> Lease]
      /\ \A m \in LeaseId :
           /\ m \notin Queued(g) => table[m] = lease[m]
           /\ table[m].gpu = lease[m].gpu
           /\ table[m].priority = lease[m].priority
           /\ table[m].enqueued_at = lease[m].enqueued_at
  <2>1. CASE HolderExpired(g)
    <3>1. next = Promoted(g) /\ line = Remaining(g) /\ table = Touched(Promoted(g))
      BY <2>1
    <3> HIDE DEF next, line, table
    <3> QED
      BY <3>1, PromotionFacts
  <2>2. CASE ~HolderExpired(g)
    <3>1. next = holder[g] /\ line = queue[g] /\ table = lease
      BY <2>2
    <3> HIDE DEF next, line, table
    <3> QED
      BY <3>1, QueueFacts DEF Queued
  <2> QED
    BY <2>1, <2>2
<1> HIDE DEF next, line, table
<1>5. Elems(q) = Elems(line) \cap (LeaseId \ late)
  BY <1>4, KeepLeaves DEF q
<1>6. /\ holder[g] \notin Queued(g) /\ Queued(g) \subseteq LeaseId
      /\ holder[g] \in LeaseId \cup {None}
      /\ \A m \in Queued(g) : slot[m] = "waiting"
      /\ holder[g] # None => slot[holder[g]] = "granted"
  BY QueueFacts
<1>7. /\ holder'[g] = next /\ Queued(g)' \subseteq Queued(g)
      /\ \A k \in Gpu \ {g} : holder'[k] = holder[k] /\ queue'[k] = queue[k]
  BY <1>1, <1>4, <1>5 DEF IInv, TypeOK, Queued
<1>8. holder'[g] # holder[g] => holder[g] # None /\ lease[holder[g]].expires_at <= now
  BY <1>3, <1>7 DEF HolderExpired
<1>9. next # holder[g] /\ next # None => next \in LeaseId /\ table[next].expires_at \in Nat
  <2>1. \A m \in LeaseId : table[m].expires_at \in Nat \cup {NotGranted}
    BY <1>4 DEF Lease
  <2> QED
    BY <1>4, <1>6, <2>1
<1>10. \A m \in LeaseId :
         /\ slot[m] = "granted" => slot'[m] = "granted" /\ lease'[m] = lease[m]
         /\ slot'[m] = "granted" =>
              slot[m] = "granted" \/ (holder'[g] = m /\ lease'[m].expires_at \in Nat)
         /\ slot'[m] = "none" => slot[m] = "none"
  <2>1. late \subseteq Queued(g)
    BY <1>2, <1>4
  <2> QED
    BY <2>1, <1>1, <1>4, <1>6, <1>7, <1>9
<1>11. \A m \in LeaseId : m = holder'[g] \/ m \in Queued(g)' => m = holder[g] \/ m \in Queued(g)
  BY <1>4, <1>7
<1> QED
  BY <1>1, <1>4, <1>7, <1>8, <1>10, <1>11 DEF GrantsKept

(* Every waiter leaves, the holder stays. *)
LEMMA ShutdownKeeps ==
    ASSUME IInv, NEW g \in Gpu, Shutdown(g)
    PROVE  /\ GrantsKept(g)
           /\ holder' = holder /\ lease' = lease
<1>1. /\ queue' = [queue EXCEPT ![g] = <<>>]
      /\ slot' = [m \in LeaseId |-> IF m \in Queued(g) THEN "shutdown" ELSE slot[m]]
      /\ now' = now /\ holder' = holder /\ lease' = lease
  BY DEF Shutdown
<1>2. /\ Queued(g)' = {}
      /\ \A k \in Gpu \ {g} : queue'[k] = queue[k]
  BY <1>1, EmptyLine DEF IInv, TypeOK, Queued
<1>3. \A m \in Queued(g) : slot[m] = "waiting"
  BY QueueFacts
<1> QED
  BY <1>1, <1>2, <1>3 DEF GrantsKept

(* renew moves nobody, and changes the expiry of the holder only. *)
LEMMA RenewKeeps ==
    ASSUME IInv, NEW g \in Gpu, NEW ttl \in Ttl \cup {None}, Renew(g, ttl)
    PROVE  /\ holder[g] \in LeaseId
           /\ lease'[holder[g]].expires_at \in Nat
           /\ \A m \in LeaseId :
                /\ m # holder[g] => lease'[m] = lease[m]
                /\ lease'[m].gpu = lease[m].gpu
           /\ UNCHANGED <<now, holder, queue, slot, closed>>
<1> DEFINE h == holder[g]
           new == IF ttl = None THEN lease[h].ttl ELSE ttl
<1>1. /\ h # None
      /\ lease' = Touch(lease, h, new)
      /\ UNCHANGED <<now, holder, queue, slot, closed>>
  BY DEF Renew
<1>2. h \in LeaseId /\ now \in Nat /\ lease \in [LeaseId -> Lease]
  BY <1>1, QueueFacts
<1> HIDE DEF h
<1>3. new \in Nat
  <2>1. lease[h].ttl \in Nat
    BY <1>2 DEF Lease
  <2> QED
    BY <2>1
<1> HIDE DEF new
<1>4. /\ lease'[h].expires_at \in Nat
      /\ \A m \in LeaseId : /\ m # h => lease'[m] = lease[m]
                            /\ lease'[m].gpu = lease[m].gpu
  BY ONLY <1>1, <1>2, <1>3, TouchFacts
<1> QED
  BY <1>1, <1>2, <1>4 DEF h
-----------------------------------------------------------------------------
(* In a line without duplicates, places tell who comes first. *)
LEMMA PlaceIsOrder ==
    ASSUME NEW s \in Seq(LeaseId), Distinct(s), NEW x \in Elems(s), NEW y \in Elems(s)
    PROVE  Place(x, s) < Place(y, s) <=> Before(x, y, s)
<1>1. PICK i \in DOMAIN s, j \in DOMAIN s : s[i] = x /\ s[j] = y
  BY DEF Elems
<1>2. \A k \in DOMAIN s : (s[k] = x => k = i) /\ (s[k] = y => k = j)
  BY <1>1 DEF Distinct
<1>3. Place(x, s) = i /\ Place(y, s) = j
  BY <1>1, <1>2 DEF Place
<1> QED
  BY <1>1, <1>2, <1>3 DEF Before

(* The order of two leases in a line does not change when others leave it, *)
(* by the filter or from its head.                                         *)
LEMMA LeavingKeepsOrder ==
    ASSUME NEW s \in Seq(LeaseId), Distinct(s), NEW x, NEW y, Before(x, y, s)
    PROVE  /\ \A S : {x, y} \subseteq Elems(Keep(s, S)) => Before(x, y, Keep(s, S))
           /\ {x, y} \subseteq Elems(Tail(s)) => Before(x, y, Tail(s))
<1>1. ASSUME NEW S, x \in Elems(Keep(s, S)), y \in Elems(Keep(s, S))
      PROVE  Before(x, y, Keep(s, S))
  <2> DEFINE t == Keep(s, S)
  <2>1. /\ t \in Seq(LeaseId)
        /\ \E where \in [DOMAIN t -> DOMAIN s] :
              /\ \A k \in DOMAIN t : t[k] = s[where[k]]
              /\ \A a, b \in DOMAIN t : a < b => where[a] < where[b]
    BY KeepFilters
  <2>2. x \in Elems(t) /\ y \in Elems(t)
    BY <1>1
  <2> HIDE DEF t
  <2>3. PICK where \in [DOMAIN t -> DOMAIN s] :
              /\ \A k \in DOMAIN t : t[k] = s[where[k]]
              /\ \A a, b \in DOMAIN t : a < b => where[a] < where[b]
    BY <2>1
  <2>4. Before(x, y, t)
    BY <2>1, <2>2, <2>3, SublistKeepsOrder DEF Distinct
  <2> QED
    BY <2>4 DEF t
<1>2. ASSUME x \in Elems(Tail(s)), y \in Elems(Tail(s))
      PROVE  Before(x, y, Tail(s))
  <2> DEFINE t == Tail(s)
             where == [k \in DOMAIN t |-> k + 1]
  <2>1. s # <<>>
    BY DEF Before
  <2>2. /\ t \in Seq(LeaseId)
        /\ Len(t) = Len(s) - 1
        /\ \A i \in 1..Len(t) : t[i] = s[i + 1]
    BY <2>1, HeadTailProperties
  <2>3. /\ DOMAIN s = 1..Len(s) /\ Len(s) \in Nat
        /\ DOMAIN t = 1..Len(t) /\ Len(t) \in Nat
    BY <2>2, LenProperties
  <2>4. x \in Elems(t) /\ y \in Elems(t)
    BY <1>2
  <2> HIDE DEF t
  <2>5. \A k \in DOMAIN t : k \in Int /\ k + 1 \in DOMAIN s
    BY <2>2, <2>3
  <2>6. /\ where \in [DOMAIN t -> DOMAIN s]
        /\ \A k \in DOMAIN t : where[k] = k + 1
    BY <2>5
  <2> HIDE DEF where
  <2>7. /\ \A k \in DOMAIN t : t[k] = s[where[k]]
        /\ \A a, b \in DOMAIN t : a < b => where[a] < where[b]
    BY <2>2, <2>3, <2>5, <2>6
  <2>8. Before(x, y, t)
    BY <2>2, <2>4, <2>6, <2>7, SublistKeepsOrder DEF Distinct
  <2> QED
    BY <2>8 DEF t
<1> QED
  BY <1>1, <1>2

(* The line of g only loses members, and only its head can become holder. *)
OnlyLeaving(g) ==
    /\ holder'[g] \in {holder[g], Promoted(g)}
    /\ \/ queue'[g] \in {queue[g], Tail(queue[g]), <<>>}
       \/ \E S \in SUBSET LeaseId : queue'[g] = Keep(queue[g], S)
       \/ \E S \in SUBSET LeaseId : queue'[g] = Keep(Tail(queue[g]), S)

(* Then two that stay in line do not change places. *)
LEMMA LosingKeepsOrder ==
    ASSUME IInv, NEW g \in Gpu, NEW a, NEW b, Before(a, b, queue[g]), queue[g] # <<>>,
           OnlyLeaving(g), a \in Queued(g)', b \in Queued(g)'
    PROVE  Before(a, b, queue'[g])
<1>1. queue[g] \in Seq(LeaseId) /\ Distinct(queue[g]) /\ Ordered(queue[g], lease)
  BY QueueFacts
<1>2. Queued(g)' = Elems(queue'[g])
  BY DEF Queued
<1>3. CASE queue'[g] = <<>>
  BY <1>2, <1>3, EmptyLine
<1>4. ASSUME NEW S, queue'[g] = Keep(queue[g], S)
      PROVE  Before(a, b, queue'[g])
  BY <1>1, <1>2, <1>4, LeavingKeepsOrder
<1>5. CASE queue'[g] = Tail(queue[g])
  BY <1>1, <1>2, <1>5, LeavingKeepsOrder
<1>6. ASSUME NEW S, queue'[g] = Keep(Tail(queue[g]), S)
      PROVE  Before(a, b, queue'[g])
  <2> DEFINE t == Tail(queue[g])
  <2>1. t \in Seq(LeaseId) /\ Distinct(t) /\ Ordered(t, lease)
    BY <1>1, <1>6, HeadLeaves
  <2>2. Elems(Keep(t, S)) = Elems(t) \cap S
    BY <2>1, KeepLeaves
  <2>3. Before(a, b, t)
    BY <1>1, <1>2, <1>6, <2>2, LeavingKeepsOrder
  <2> QED
    BY <1>2, <1>6, <2>1, <2>3, LeavingKeepsOrder
<1> QED
  BY <1>3, <1>4, <1>5, <1>6 DEF OnlyLeaving

(* Every action but enqueue only lets waiters of g go. *)
LEMMA LineOnlyShrinks ==
    ASSUME IInv, [Next]_vars, NEW g \in Gpu, queue[g] # <<>>,
           \A l \in LeaseId, prio \in Priority, ttl \in Ttl, wait \in WaitTimeout :
              ~Enqueue(g, l, prio, ttl, wait)
    PROVE  OnlyLeaving(g)
<1>1. queue[g] \in Seq(LeaseId)
  BY QueueFacts
<1>2. Promoted(g) = Head(queue[g]) /\ Remaining(g) = Tail(queue[g])
  BY DEF Promoted, Remaining
<1>3. holder'[g] = holder[g] /\ queue'[g] = queue[g] => OnlyLeaving(g)
  BY DEF OnlyLeaving
<1>4. ASSUME NEW k \in Gpu \ {g},
             \/ \E l \in LeaseId, prio \in Priority, ttl \in Ttl, wait \in WaitTimeout :
                   Enqueue(k, l, prio, ttl, wait)
             \/ ReleaseHeld(k)
             \/ \E l \in LeaseId : Cancel(k, l)
             \/ ExpireNow(k)
             \/ Shutdown(k)
      PROVE  OnlyLeaving(g)
  <2>1. GrantsKept(k)
    BY <1>4, EnqueueKeeps, ReleaseHeldKeeps, CancelKeeps, ExpireNowKeeps, ShutdownKeeps
  <2> QED
    BY <1>3, <2>1 DEF GrantsKept
<1>5. ASSUME NEW k \in Gpu, NEW ttl \in Ttl \cup {None}, Renew(k, ttl)
      PROVE  OnlyLeaving(g)
  BY <1>3, <1>5 DEF Renew
<1>6. CASE ReleaseHeld(g)
  <2>1. holder'[g] = Promoted(g) /\ queue'[g] = Tail(queue[g])
    BY <1>2, <1>6 DEF ReleaseHeld, IInv, TypeOK
  <2> QED
    BY <2>1 DEF OnlyLeaving
<1>7. ASSUME NEW l \in LeaseId, Cancel(g, l)
      PROVE  OnlyLeaving(g)
  <2>1. holder'[g] = holder[g] /\ queue'[g] = Keep(queue[g], LeaseId \ {l})
    BY <1>7 DEF Cancel, IInv, TypeOK
  <2>2. LeaseId \ {l} \in SUBSET LeaseId
    OBVIOUS
  <2> QED
    BY <2>1, <2>2 DEF OnlyLeaving
<1>8. CASE ExpireNow(g)
  <2> DEFINE next == IF HolderExpired(g) THEN Promoted(g) ELSE holder[g]
             line == IF HolderExpired(g) THEN Remaining(g) ELSE queue[g]
             stay == LeaseId \ Overdue(line)
  <2>1. holder' = [holder EXCEPT ![g] = next] /\ queue' = [queue EXCEPT ![g] = Keep(line, stay)]
    BY <1>8 DEF ExpireNow
  <2>2. next \in {holder[g], Promoted(g)} /\ (line = queue[g] \/ line = Tail(queue[g]))
    BY <1>2
  <2>3. stay \in SUBSET LeaseId
    OBVIOUS
  <2> HIDE DEF next, line, stay
  <2>4. holder'[g] = next /\ queue'[g] = Keep(line, stay)
    BY <2>1 DEF IInv, TypeOK
  <2> QED
    BY <2>2, <2>3, <2>4 DEF OnlyLeaving
<1>9. CASE Shutdown(g)
  <2>1. holder'[g] = holder[g] /\ queue'[g] = <<>>
    BY <1>9 DEF Shutdown, IInv, TypeOK
  <2> QED
    BY <2>1 DEF OnlyLeaving
<1>10. CASE Tick \/ ClockStep \/ UNCHANGED vars
  BY <1>3, <1>10 DEF Tick, ClockStep, vars
<1> QED
  BY <1>4, <1>5, <1>6, <1>7, <1>8, <1>9, <1>10 DEF Next

(* What NoOvertaking says of one step, one GPU and two leases. *)
NoPassing(g, a, b) ==
    /\ {a, b} \subseteq Queued(g)' => Place(a, queue'[g]) < Place(b, queue'[g])
    /\ b = holder'[g] => a \notin Queued(g)'

(* Leaving swaps nobody, and promotes nobody from behind. *)
LEMMA LeavingPassesNobody ==
    ASSUME IInv, IInv', NEW g \in Gpu, NEW a \in LeaseId, NEW b \in LeaseId,
           InFront(g, a, b), OnlyLeaving(g)
    PROVE  NoPassing(g, a, b)
<1>1. queue[g] \in Seq(LeaseId) /\ Distinct(queue[g]) /\ Ordered(queue[g], lease)
  BY QueueFacts
<1>2. /\ a # b /\ a \in Queued(g) /\ b # holder[g]
      /\ b \in Queued(g) => Before(a, b, queue[g])
  BY <1>1, PlaceIsOrder DEF InFront, Queued
<1>3. queue[g] # <<>>
  BY <1>2, EmptyLine DEF Queued
<1>4. queue'[g] \in Seq(LeaseId) /\ Distinct(queue'[g])
  BY DEF IInv, TypeOK, OnePlace, Distinct
<1>5. Queued(g)' \subseteq Queued(g)
  <2>1. /\ Tail(queue[g]) \in Seq(LeaseId) /\ Distinct(Tail(queue[g]))
        /\ Ordered(Tail(queue[g]), lease)
        /\ Elems(Tail(queue[g])) \subseteq Elems(queue[g])
    BY <1>1, <1>3, HeadLeaves
  <2>2. \A S : /\ Elems(Keep(queue[g], S)) \subseteq Elems(queue[g])
               /\ Elems(Keep(Tail(queue[g]), S)) \subseteq Elems(queue[g])
    BY <1>1, <2>1, KeepLeaves
  <2>3. Elems(queue'[g]) \subseteq Elems(queue[g])
    BY <2>1, <2>2, EmptyLine DEF OnlyLeaving
  <2> QED
    BY <2>3 DEF Queued
<1>6. ASSUME a \in Queued(g)', b \in Queued(g)'
      PROVE  Place(a, queue'[g]) < Place(b, queue'[g])
  <2>1. Before(a, b, queue[g])
    BY <1>2, <1>5, <1>6
  <2>2. Before(a, b, queue'[g])
    BY <1>3, <1>6, <2>1, LosingKeepsOrder
  <2>3. a \in Elems(queue'[g]) /\ b \in Elems(queue'[g])
    BY <1>6 DEF Queued
  <2> QED
    BY ONLY <1>4, <2>2, <2>3, PlaceIsOrder
<1>7. b # holder'[g]
  <2> SUFFICES ASSUME b = holder'[g]
               PROVE  FALSE
    OBVIOUS
  <2>1. b = Head(queue[g])
    BY <1>2, <1>3 DEF OnlyLeaving, Promoted
  <2>2. /\ DOMAIN queue[g] = 1..Len(queue[g]) /\ Len(queue[g]) \in Nat
        /\ 1 \in DOMAIN queue[g] /\ b = queue[g][1]
    BY <1>1, <1>3, <2>1, LenProperties, EmptySeq
  <2>3. b \in Queued(g)
    BY <2>2 DEF Queued, Elems
  <2>4. PICK i \in DOMAIN queue[g], j \in DOMAIN queue[g] :
             i < j /\ queue[g][i] = a /\ queue[g][j] = b
    BY <1>2, <2>3 DEF Before
  <2>5. j = 1
    BY <1>1, <2>2, <2>4 DEF Distinct
  <2> QED
    BY <2>2, <2>4, <2>5
<1> QED
  BY <1>6, <1>7 DEF NoPassing

(* A newcomer passes only those it has a claim to pass, and nobody else is  *)
(* moved: the sort is stable.                                              *)
LEMMA JoiningPassesNobody ==
    ASSUME IInv, IInv', NEW g \in Gpu, NEW a \in LeaseId, NEW b \in LeaseId,
           InFront(g, a, b), NoClaim(a, b),
           NEW l \in LeaseId, NEW prio \in Priority,
           NEW ttl \in Ttl, NEW wait \in WaitTimeout,
           Enqueue(g, l, prio, ttl, wait)
    PROVE  NoPassing(g, a, b)
<1> DEFINE table == Mint(g, l, prio, ttl, wait)
           s == queue[g]
           t == Line(g, l, table)
<1>1. s \in Seq(LeaseId) /\ Distinct(s) /\ Ordered(s, lease)
  BY QueueFacts
<1>2. /\ a # b /\ a \in Queued(g) /\ b # holder[g]
      /\ b \in Queued(g) => Before(a, b, s)
  BY <1>1, PlaceIsOrder DEF InFront, Queued
<1>3. s # <<>> /\ holder[g] # None
  BY <1>2, EmptyLine, QueueFacts DEF Queued
<1>4. slot[l] = "none" /\ queue' = [queue EXCEPT ![g] = t] /\ lease' = table /\ holder' = holder
  BY <1>3 DEF Enqueue
<1>5. table \in [LeaseId -> Lease] /\ \A m \in LeaseId : m # l => table[m] = lease[m]
  BY MintFacts DEF IInv
<1>6. l \notin Queued(g)
  BY <1>4, FreshIsNowhere
<1>7. t \in Seq(LeaseId) /\ Elems(t) = Queued(g) \cup {l} /\ Distinct(t)
  BY <1>1, <1>5, <1>6, JoinLine
<1>8. queue'[g] = t
  BY <1>4 DEF IInv, TypeOK
<1> HIDE DEF table
<1>9. ASSUME b \in Elems(t)
      PROVE  Before(a, b, t)
  <2> DEFINE A == Append(s, l)
  <2>1. /\ A \in Seq(LeaseId)
        /\ Len(A) = Len(s) + 1
        /\ \A i \in 1..Len(s) : A[i] = s[i]
        /\ A[Len(s) + 1] = l
    BY <1>1, AppendProperties
  <2>2. /\ DOMAIN s = 1..Len(s) /\ Len(s) \in Nat /\ DOMAIN A = 1..Len(A)
    BY <1>1, <2>1, LenProperties
  <2> HIDE DEF s, A
  <2>3. CASE b = l
    <3>1. PICK i \in DOMAIN s : s[i] = a
      BY <1>2 DEF Queued, Elems, s
    <3>2. i \in DOMAIN A /\ Len(s) + 1 \in DOMAIN A /\ i < Len(s) + 1 /\ A[i] = a
      BY <2>1, <2>2, <3>1
    <3>3. Before(a, b, A)
      BY <2>1, <2>3, <3>2 DEF Before
    <3>4. <<b, a>> \notin Urgency(table)
      <4>1. /\ table[a].priority >= table[b].priority
            /\ table[a].priority = table[b].priority =>
                 table[a].enqueued_at <= table[b].enqueued_at
        BY <1>2, <1>4, <1>5, <1>6, <2>3 DEF NoClaim
      <4>2. /\ table[a].priority \in Int /\ table[b].priority \in Int
            /\ table[a].enqueued_at \in Int /\ table[b].enqueued_at \in Int
        BY <1>5 DEF Lease, Time
      <4> QED
        BY <4>1, <4>2 DEF Urgency
    <3>5. WeakOrder(LeaseId, Urgency(table))
      BY <1>5, UrgencyIsWeakOrder
    <3>6. Before(a, b, StableSort(A, Urgency(table)))
      BY ONLY <2>1, <3>3, <3>4, <3>5, SortKeepsOrder
    <3> QED
      BY <3>6 DEF Line, A, s
  <2>4. CASE b # l
    <3>1. b \in Queued(g) /\ Before(a, b, s)
      BY <1>2, <1>7, <1>9, <2>4
    <3>2. PICK i \in DOMAIN s, j \in DOMAIN s : i < j /\ s[i] = a /\ s[j] = b
      BY <3>1 DEF Before
    <3>3. i \in DOMAIN A /\ j \in DOMAIN A /\ A[i] = a /\ A[j] = b
      BY <2>1, <2>2, <3>2
    <3>4. Before(a, b, A)
      BY <3>2, <3>3 DEF Before
    <3>5. <<b, a>> \notin Urgency(lease)
      BY <1>1, <3>2 DEF Ordered
    <3>6. <<b, a>> \notin Urgency(table)
      BY <1>2, <1>5, <1>6, <2>4, <3>5 DEF Urgency
    <3>7. WeakOrder(LeaseId, Urgency(table))
      BY <1>5, UrgencyIsWeakOrder
    <3>8. Before(a, b, StableSort(A, Urgency(table)))
      BY ONLY <2>1, <3>4, <3>6, <3>7, SortKeepsOrder
    <3> QED
      BY <3>8 DEF Line, A, s
  <2> QED
    BY <2>3, <2>4
<1> HIDE DEF t
<1>10. ASSUME b \in Elems(t), a \in Elems(t)
       PROVE  Place(a, t) < Place(b, t)
  BY ONLY <1>7, <1>9, <1>10, PlaceIsOrder
<1> QED
  BY <1>2, <1>4, <1>8, <1>10 DEF NoPassing, Queued

(* Nobody is overtaken by a lease that has no claim to pass it. *)
THEOREM NobodyOvertaken == Spec => NoOvertaking
<1> DEFINE Step == \A g \in Gpu, a, b \in LeaseId :
                      InFront(g, a, b) /\ NoClaim(a, b) => NoPassing(g, a, b)
<1>1. ASSUME IInv, IInv', [Next]_vars
      PROVE  Step
  <2> SUFFICES ASSUME NEW g \in Gpu, NEW a \in LeaseId, NEW b \in LeaseId,
                      InFront(g, a, b), NoClaim(a, b)
               PROVE  NoPassing(g, a, b)
    OBVIOUS
  <2>1. ASSUME NEW l \in LeaseId, NEW prio \in Priority, NEW ttl \in Ttl,
               NEW wait \in WaitTimeout, Enqueue(g, l, prio, ttl, wait)
        PROVE  NoPassing(g, a, b)
    BY <1>1, <2>1, JoiningPassesNobody
  <2>2. CASE \A l \in LeaseId, prio \in Priority, ttl \in Ttl, wait \in WaitTimeout :
                ~Enqueue(g, l, prio, ttl, wait)
    <3>1. queue[g] # <<>>
      BY EmptyLine DEF InFront, Queued
    <3>2. OnlyLeaving(g)
      BY <1>1, <2>2, <3>1, LineOnlyShrinks
    <3> QED
      BY <1>1, <3>2, LeavingPassesNobody
  <2> QED
    BY <2>1, <2>2
<1>2. IInv /\ IInv' /\ [Next]_vars => [Step]_vars
  BY <1>1
<1> QED
  BY <1>2, Invariance, PTL DEF Spec, NoOvertaking, NoPassing
-----------------------------------------------------------------------------
(* Every lease that was minted has a ttl. *)
TtlKept == \A l \in LeaseId : lease[l].gpu # None => lease[l].ttl > 0

(* No deadline of k has come. *)
Met(k) ==
    \/ closed[k]
    \/ /\ holder[k] # None => lease[holder[k]].expires_at > now
       /\ \A l \in Queued(k) : lease[l].enqueued_at + lease[l].wait_timeout > now

(* The ticker of k has something to do unless every deadline is met. *)
LEMMA DueUnlessMet ==
    IInv => \A k \in Gpu : Due(k) <=> ~Met(k)
<1> SUFFICES ASSUME IInv, NEW k \in Gpu
             PROVE  Due(k) <=> ~Met(k)
  OBVIOUS
<1>1. /\ holder[k] # None => lease[holder[k]].expires_at # NotGranted
      /\ holder[k] \in LeaseId \cup {None} /\ Queued(k) \subseteq LeaseId
      /\ lease \in [LeaseId -> Lease] /\ now \in Nat /\ closed[k] \in BOOLEAN
  BY QueueFacts DEF IInv, TypeOK, Time
<1>2. \A l \in LeaseId : /\ lease[l].expires_at \in Nat \cup {NotGranted}
                         /\ lease[l].enqueued_at \in Nat /\ lease[l].wait_timeout \in Nat
  BY <1>1 DEF Lease, Time
<1>3. HolderExpired(k) <=> ~(holder[k] # None => lease[holder[k]].expires_at > now)
  BY <1>1, <1>2 DEF HolderExpired, NotGranted
<1>4. Overdue(queue[k]) = {l \in Queued(k) : lease[l].enqueued_at + lease[l].wait_timeout <= now}
  BY DEF Overdue, Queued
<1>5. Overdue(queue[k]) # {} <=>
        ~\A l \in Queued(k) : lease[l].enqueued_at + lease[l].wait_timeout > now
  BY <1>1, <1>2, <1>4
<1> QED
  BY <1>1, <1>3, <1>5 DEF Due, Met

(* A method of the queue g makes no deadline of c come when it writes one   *)
(* lease p at most, one that is nowhere else, and gives p time.            *)
LEMMA MetStep ==
    ASSUME IInv, IInv', NEW c \in Gpu, Met(c), NEW g \in Gpu, NEW p \in LeaseId \cup {None},
           now' = now, closed[g] => closed'[g],
           \A k \in Gpu \ {g} : /\ holder'[k] = holder[k] /\ queue'[k] = queue[k]
                                /\ closed'[k] = closed[k]
                                /\ p # holder[k] \/ p = None
                                /\ p \notin Queued(k),
           \A m \in LeaseId : m # p => lease'[m] = lease[m],
           holder'[g] \in {None, holder[g], p},
           Queued(g)' \subseteq Queued(g) \cup {p},
           p # None /\ p = holder'[g] => lease'[p].expires_at > now,
           p \in Queued(g)' => lease'[p].enqueued_at + lease'[p].wait_timeout > now
    PROVE  Met(c)'
<1> SUFFICES ASSUME ~closed'[c]
             PROVE  /\ holder'[c] # None => lease'[holder'[c]].expires_at > now'
                    /\ \A l \in Queued(c)' :
                         lease'[l].enqueued_at + lease'[l].wait_timeout > now'
  BY DEF Met
<1>1. /\ Queued(c) \subseteq LeaseId /\ holder[c] \in LeaseId \cup {None}
      /\ Queued(g) \subseteq LeaseId /\ holder[g] \in LeaseId \cup {None}
  BY QueueFacts
<1>2. CASE c = g
  <2>1. ~closed[g]
    BY <1>2
  <2> QED
    BY <1>1, <1>2, <2>1 DEF Met
<1>3. CASE c # g
  <2>1. ~closed[c] /\ holder'[c] = holder[c] /\ Queued(c)' = Queued(c)
    BY <1>3 DEF Queued
  <2>2. /\ \A l \in Queued(c) : lease'[l] = lease[l]
        /\ holder[c] # None => lease'[holder[c]] = lease[holder[c]]
    BY <1>1, <1>3
  <2> QED
    BY <2>1, <2>2 DEF Met
<1> QED
  BY <1>2, <1>3

(* A new holder's deadline is its TTL away. *)
LEMMA TouchedLater ==
    ASSUME IInv, TtlKept, NEW g \in Gpu
    PROVE  /\ Promoted(g) # None => Touched(Promoted(g))[Promoted(g)].expires_at > now
           /\ \A m \in LeaseId : Touched(Promoted(g))[m].ttl = lease[m].ttl
<1> DEFINE p == Promoted(g)
<1>1. p # None => p \in LeaseId /\ lease[p].gpu = g
  BY PromotionFacts, QueueFacts
<1> HIDE DEF p
<1>2. now \in Nat /\ lease \in [LeaseId -> Lease]
  BY QueueFacts
<1>3. CASE p = None
  BY <1>3 DEF Touched, p
<1>4. CASE p # None
  <2>1. p \in LeaseId /\ lease[p].ttl \in Nat /\ lease[p].ttl > 0
    BY <1>1, <1>2, <1>4 DEF TtlKept, Lease
  <2>2. Touched(p) = Touch(lease, p, lease[p].ttl)
    BY <1>4 DEF Touched
  <2>3. /\ Touch(lease, p, lease[p].ttl)[p].expires_at = now + lease[p].ttl
        /\ Touch(lease, p, lease[p].ttl)[p].ttl = lease[p].ttl
        /\ \A m \in LeaseId : m # p => Touch(lease, p, lease[p].ttl)[m] = lease[m]
    BY ONLY <1>2, <2>1, TouchFacts
  <2> QED
    BY <1>2, <2>1, <2>2, <2>3 DEF p
<1> QED
  BY <1>3, <1>4

(* Whoever is in line or holds at g is in no other place. *)
LEMMA NowhereElse ==
    ASSUME IInv, NEW g \in Gpu, NEW m \in LeaseId,
           m \in Queued(g) \/ m = holder[g] \/ slot[m] = "none",
           NEW k \in Gpu, k # g
    PROVE  m # holder[k] /\ m \notin Queued(k)
BY Elsewhere, FreshIsNowhere

(* Only the passing of time makes a deadline come. *)
LEMMA DeadlinesCome ==
    ASSUME IInv, IInv', TtlKept, [Next]_vars, NEW c \in Gpu, Met(c), ~(now' > now)
    PROVE  Met(c)'
<1>1. ASSUME NEW g \in Gpu, NEW l \in LeaseId, NEW prio \in Priority,
             NEW ttl \in Ttl, NEW wait \in WaitTimeout, Enqueue(g, l, prio, ttl, wait)
      PROVE  Met(c)'
  <2> DEFINE table == Mint(g, l, prio, ttl, wait)
  <2>1. /\ GrantsKept(g)
        /\ slot[l] = "none"
        /\ \A m \in LeaseId : m # l => lease'[m] = lease[m]
        /\ l # holder[g] /\ l \notin Queued(g)
    BY <1>1, EnqueueKeeps
  <2>2. /\ now \in Nat /\ ttl \in Nat /\ wait \in Nat /\ ttl > 0 /\ wait > 0
        /\ table \in [LeaseId -> Lease]
    BY QueueFacts, MintFacts DEF IInv
  <2>3. closed' = closed
    BY <1>1 DEF Enqueue
  <2>4. table[l].enqueued_at = now /\ table[l].wait_timeout = wait
    BY QueueFacts DEF Mint
  <2>5. CASE holder[g] = None
    <3>1. /\ holder' = [holder EXCEPT ![g] = l] /\ queue' = queue
          /\ lease' = Touch(table, l, ttl)
      BY <1>1, <2>5 DEF Enqueue
    <3> HIDE DEF table
    <3>2. lease'[l].expires_at > now
      <4>1. Touch(table, l, ttl)[l].expires_at = now + ttl
        BY ONLY <2>2, <1>1, TouchFacts
      <4> QED
        BY <2>2, <3>1, <4>1
    <3>3. holder'[g] = l /\ Queued(g)' = Queued(g)
      BY <3>1 DEF Queued, IInv, TypeOK
    <3>4. l \notin Queued(g)'
      BY <2>1, <3>3
    <3>5. \A k \in Gpu \ {g} : /\ holder'[k] = holder[k] /\ queue'[k] = queue[k]
                               /\ closed'[k] = closed[k]
                               /\ l # holder[k] /\ l \notin Queued(k)
      BY <2>1, <2>3, NowhereElse DEF GrantsKept
    <3>6. now' = now /\ closed'[g] = closed[g]
      BY <2>1, <2>3 DEF GrantsKept
    <3> QED
      BY <2>1, <3>2, <3>3, <3>4, <3>5, <3>6, MetStep
  <2>6. CASE holder[g] # None
    <3>1. /\ holder' = holder
          /\ lease' = table
          /\ queue' = [queue EXCEPT ![g] = Line(g, l, table)]
      BY <1>1, <2>6 DEF Enqueue
    <3> HIDE DEF table
    <3>2. Queued(g)' = Queued(g) \cup {l}
      <4>1. Elems(Line(g, l, table)) = Queued(g) \cup {l}
        BY <2>1, <2>2, QueueFacts, JoinLine
      <4> QED
        BY <3>1, <4>1 DEF Queued, IInv, TypeOK
    <3>3. lease'[l].enqueued_at + lease'[l].wait_timeout > now
      BY <2>2, <2>4, <3>1
    <3>5. \A k \in Gpu \ {g} : /\ holder'[k] = holder[k] /\ queue'[k] = queue[k]
                               /\ closed'[k] = closed[k]
                               /\ l # holder[k] /\ l \notin Queued(k)
      BY <2>1, <2>3, NowhereElse DEF GrantsKept
    <3>6. now' = now /\ closed'[g] = closed[g] /\ holder'[g] = holder[g] /\ l # holder'[g]
      BY <2>1, <2>3, <3>1 DEF GrantsKept
    <3> QED
      BY <2>1, <3>2, <3>3, <3>5, <3>6, MetStep
  <2> QED
    BY <2>5, <2>6
<1>2. ASSUME NEW g \in Gpu, ReleaseHeld(g) \/ ExpireNow(g)
      PROVE  Met(c)'
  <2> DEFINE p == IF ReleaseHeld(g) \/ HolderExpired(g) THEN Promoted(g) ELSE None
  <2>1. GrantsKept(g)
    BY <1>2, ReleaseHeldKeeps, ExpireNowKeeps
  <2>2. now' = now /\ closed' = closed
    BY <1>2 DEF ReleaseHeld, ExpireNow
  <2>3. p \in Queued(g) \cup {None} /\ Queued(g) \subseteq LeaseId
    BY PromotionFacts, QueueFacts
  <2>4. \A m \in LeaseId : m # p => lease'[m] = lease[m]
    <3>1. lease' = lease \/ (lease' = Touched(p) /\ p = Promoted(g))
      BY <1>2 DEF ReleaseHeld, ExpireNow
    <3> QED
      BY <3>1, PromotionFacts
  <2>5. holder'[g] \in {holder[g], p}
    BY <1>2 DEF ReleaseHeld, ExpireNow, IInv, TypeOK
  <2>6. p # None => lease'[p].expires_at > now
    <3> SUFFICES ASSUME p # None
                 PROVE  lease'[p].expires_at > now
      OBVIOUS
    <3>1. p = Promoted(g) /\ Promoted(g) # None
      OBVIOUS
    <3>2. lease' = Touched(Promoted(g))
      BY <1>2, <3>1 DEF ReleaseHeld, ExpireNow
    <3> QED
      BY <3>1, <3>2, TouchedLater
  <2>7. Queued(g)' \subseteq Queued(g) /\ p \notin Queued(g)'
    <3>1. CASE ReleaseHeld(g)
      <4>1. queue'[g] = Remaining(g) /\ p = Promoted(g)
        BY <3>1 DEF ReleaseHeld, IInv, TypeOK
      <4>2. Elems(Remaining(g)) = Queued(g) \ {Promoted(g)}
        BY PromotionFacts
      <4> HIDE DEF p
      <4> QED
        BY <4>1, <4>2 DEF Queued
    <3>2. CASE ExpireNow(g) /\ ~ReleaseHeld(g)
      <4> DEFINE line == IF HolderExpired(g) THEN Remaining(g) ELSE queue[g]
                 stay == LeaseId \ Overdue(line)
      <4>1. queue'[g] = Keep(line, stay)
        BY <3>2 DEF ExpireNow, IInv, TypeOK
      <4>2. /\ line \in Seq(LeaseId) /\ Distinct(line) /\ Ordered(line, lease)
            /\ Elems(line) \subseteq Queued(g) /\ p \notin Elems(line)
        <5>1. CASE HolderExpired(g)
          <6>1. line = Remaining(g) /\ p = Promoted(g)
            BY <5>1
          <6> HIDE DEF line, p
          <6> QED
            BY <6>1, PromotionFacts
        <5>2. CASE ~HolderExpired(g)
          <6>1. line = queue[g] /\ p = None
            BY <3>2, <5>2
          <6> HIDE DEF line, p
          <6> QED
            BY <2>3, <6>1, QueueFacts DEF Queued
        <5> QED
          BY <5>1, <5>2
      <4> HIDE DEF line, stay, p
      <4>3. Elems(Keep(line, stay)) = Elems(line) \cap stay
        BY <4>2, KeepLeaves
      <4> QED
        BY <4>1, <4>2, <4>3 DEF Queued
    <3> QED
      BY <1>2, <3>1, <3>2
  <2> HIDE DEF p
  <2>8. \A k \in Gpu \ {g} : p # None => p # holder[k]
    BY <2>3, NowhereElse
  <2>9. \A k \in Gpu \ {g} : /\ holder'[k] = holder[k] /\ queue'[k] = queue[k]
                             /\ closed'[k] = closed[k]
                             /\ p # holder[k] \/ p = None
                             /\ p \notin Queued(k)
    <3>1. \A k \in Gpu : Queued(k) \subseteq LeaseId
      BY QueueFacts
    <3> QED
      BY <2>1, <2>2, <2>3, <2>8, <3>1, NowhereElse DEF GrantsKept
  <2>10. p \in LeaseId \cup {None} /\ holder'[g] \in {None, holder[g], p}
         /\ Queued(g)' \subseteq Queued(g) \cup {p}
    BY <2>3, <2>5, <2>7
  <2> QED
    BY <2>2, <2>4, <2>6, <2>7, <2>9, <2>10, MetStep
<1>3. ASSUME NEW g \in Gpu, NEW l \in LeaseId, Cancel(g, l)
      PROVE  Met(c)'
  <2>1. /\ GrantsKept(g) /\ holder' = holder
        /\ lease' = lease /\ closed' = closed
    BY <1>3, CancelKeeps DEF Cancel
  <2>2. Queued(g)' \subseteq Queued(g)
    <3>1. queue'[g] = Keep(queue[g], LeaseId \ {l})
      BY <1>3 DEF Cancel, IInv, TypeOK
    <3> QED
      BY <3>1, QueueFacts, KeepLeaves DEF Queued
  <2> DEFINE p == None
  <2>3. p \in LeaseId \cup {None} /\ p = None /\ p \notin Queued(g)'
        /\ \A k \in Gpu : p \notin Queued(k)
    BY <2>2, QueueFacts
  <2> HIDE DEF p
  <2> QED
    BY <2>1, <2>2, <2>3, MetStep DEF GrantsKept
<1>4. ASSUME NEW g \in Gpu, Shutdown(g)
      PROVE  Met(c)'
  <2>1. /\ now' = now /\ holder' = holder /\ lease' = lease
        /\ queue' = [queue EXCEPT ![g] = <<>>]
        /\ closed' = [closed EXCEPT ![g] = TRUE]
    BY <1>4 DEF Shutdown
  <2>2. closed'[c] \/ (closed'[c] = closed[c] /\ queue'[c] = queue[c])
    BY <2>1 DEF IInv, TypeOK
  <2> QED
    BY <2>1, <2>2 DEF Met, Queued
<1>5. ASSUME NEW g \in Gpu, NEW ttl \in Ttl \cup {None}, Renew(g, ttl)
      PROVE  Met(c)'
  <2> DEFINE h == holder[g]
             new == IF ttl = None THEN lease[h].ttl ELSE ttl
  <2>1. /\ h \in LeaseId
        /\ \A m \in LeaseId : m # h => lease'[m] = lease[m]
        /\ UNCHANGED <<now, holder, queue, slot, closed>>
    BY <1>5, RenewKeeps
  <2>2. lease' = Touch(lease, h, new)
    BY <1>5 DEF Renew
  <2>3. /\ now \in Nat /\ lease \in [LeaseId -> Lease]
        /\ lease[h].ttl \in Nat /\ lease[h].ttl > 0
    <3>1. lease[h].gpu = g
      BY <2>1, QueueFacts
    <3> QED
      BY <2>1, <3>1, QueueFacts DEF Lease, TtlKept
  <2>4. new \in Nat /\ new > 0
    BY <2>3
  <2> HIDE DEF new, h
  <2>5. lease'[h].expires_at > now
    <3>1. Touch(lease, h, new)[h].expires_at = now + new
      BY ONLY <2>1, <2>3, <2>4, TouchFacts
    <3> QED
      BY <2>2, <2>3, <2>4, <3>1
  <2>6. Queued(g)' = Queued(g) /\ h \notin Queued(g) /\ holder'[g] = h
    BY <2>1, QueueFacts DEF Queued, h
  <2>7. \A k \in Gpu \ {g} : /\ holder'[k] = holder[k] /\ queue'[k] = queue[k]
                             /\ closed'[k] = closed[k]
                             /\ h # holder[k] /\ h \notin Queued(k)
    BY <2>1, NowhereElse DEF h
  <2> QED
    BY <2>1, <2>5, <2>6, <2>7, MetStep
<1>6. ~Tick
  BY QueueFacts DEF Tick, IInv, TypeOK, Time
<1>7. ASSUME ClockStep
      PROVE  Met(c)'
  <2>1. /\ now \in Nat /\ now' \in Nat /\ now' < now
        /\ UNCHANGED <<holder, queue, lease, slot, closed>>
    BY <1>7 DEF ClockStep, IInv, TypeOK, Time
  <2>2. /\ holder[c] # None => lease[holder[c]].expires_at \in Nat
        /\ \A l \in Queued(c) : lease[l].enqueued_at + lease[l].wait_timeout \in Nat
    <3>1. \A l \in LeaseId : /\ lease[l].expires_at \in Nat \cup {NotGranted}
                             /\ lease[l].enqueued_at \in Nat /\ lease[l].wait_timeout \in Nat
      BY DEF IInv, TypeOK, Lease, Time
    <3> QED
      BY <3>1, QueueFacts
  <2> QED
    BY <2>1, <2>2 DEF Met, Queued
<1>8. CASE UNCHANGED vars
  BY <1>8 DEF vars, Met, Queued
<1> QED
  BY <1>1, <1>2, <1>3, <1>4, <1>5, <1>6, <1>7, <1>8 DEF Next

(* A pass of the ticker of g clears every deadline of g that has come. *)
LEMMA PassClears ==
    ASSUME IInv, IInv', TtlKept, NEW g \in Gpu, ExpireNow(g)
    PROVE  Met(g)'
<1> DEFINE next == IF HolderExpired(g) THEN Promoted(g) ELSE holder[g]
           line == IF HolderExpired(g) THEN Remaining(g) ELSE queue[g]
           late == Overdue(line)
<1>1. /\ holder'[g] = next /\ queue'[g] = Keep(line, LeaseId \ late)
      /\ lease' = IF HolderExpired(g) THEN Touched(next) ELSE lease
      /\ now' = now
  BY DEF ExpireNow, IInv, TypeOK
<1>2. /\ line \in Seq(LeaseId) /\ Distinct(line) /\ Ordered(line, lease)
      /\ \A m \in Elems(line) : m \in LeaseId /\ lease'[m] = lease[m]
      /\ next # None => lease'[next].expires_at > now
  <2>1. CASE HolderExpired(g)
    <3>1. next = Promoted(g) /\ line = Remaining(g) /\ lease' = Touched(Promoted(g))
      BY <1>1, <2>1
    <3> HIDE DEF next, line, late
    <3> QED
      BY <3>1, PromotionFacts, TouchedLater, QueueFacts
  <2>2. CASE ~HolderExpired(g)
    <3>1. next = holder[g] /\ line = queue[g] /\ lease' = lease
      BY <1>1, <2>2
    <3>2. \A l \in LeaseId : lease[l].expires_at \in Nat \cup {NotGranted}
      BY DEF IInv, TypeOK, Lease
    <3> HIDE DEF next, line, late
    <3>3. next # None => lease[next].expires_at > now
      BY <2>2, <3>1, <3>2, QueueFacts DEF HolderExpired, NotGranted
    <3> QED
      BY <3>1, <3>3, QueueFacts DEF Queued
  <2> QED
    BY <2>1, <2>2
<1> HIDE DEF next, line
<1>3. \A m \in Elems(line) \ late : lease[m].enqueued_at + lease[m].wait_timeout > now
  <2>1. \A m \in LeaseId : lease[m].enqueued_at \in Nat /\ lease[m].wait_timeout \in Nat /\ now \in Nat
    BY DEF IInv, TypeOK, Lease, Time
  <2> QED
    BY <1>2, <2>1 DEF Overdue
<1> HIDE DEF late
<1>4. Queued(g)' = Elems(line) \cap (LeaseId \ late)
  BY <1>1, <1>2, KeepLeaves DEF Queued
<1> QED
  BY <1>1, <1>2, <1>3, <1>4 DEF Met

(* A lease keeps the ttl it was minted with until it is renewed with another. *)
LEMMA TtlsStay ==
    ASSUME IInv, TtlKept, [Next]_vars
    PROVE  TtlKept'
<1>1. TypeOK /\ lease \in [LeaseId -> Lease] /\ now \in Nat
  BY DEF IInv, TypeOK, Time
<1>2. ASSUME NEW g \in Gpu, NEW l \in LeaseId, NEW prio \in Priority,
             NEW ttl \in Ttl, NEW wait \in WaitTimeout, Enqueue(g, l, prio, ttl, wait)
      PROVE  TtlKept'
  <2> DEFINE table == Mint(g, l, prio, ttl, wait)
  <2>1. /\ table \in [LeaseId -> Lease]
        /\ \A m \in LeaseId : m # l => table[m] = lease[m]
    <3>1. TypeOK /\ Mint(g, l, prio, ttl, wait) = table
      BY <1>1
    <3> HIDE DEF table
    <3> QED
      BY <3>1, MintFacts
  <2>2. ttl \in Nat /\ ttl > 0
    OBVIOUS
  <2>3. table[l].ttl = ttl
    BY <1>1 DEF Mint
  <2>4. lease' = table \/ lease' = Touch(table, l, ttl)
    BY <1>2 DEF Enqueue
  <2> HIDE DEF table
  <2>5. /\ Touch(table, l, ttl)[l].ttl = ttl
        /\ \A m \in LeaseId : m # l => Touch(table, l, ttl)[m] = table[m]
    BY <1>1, <2>1, <2>2, TouchFacts
  <2> QED
    BY <2>1, <2>2, <2>3, <2>4, <2>5 DEF TtlKept
<1>3. ASSUME NEW g \in Gpu, ReleaseHeld(g) \/ ExpireNow(g)
      PROVE  TtlKept'
  <2>1. lease' = lease \/ lease' = Touched(Promoted(g))
    BY <1>3 DEF ReleaseHeld, ExpireNow
  <2>2. \A m \in LeaseId : /\ Touched(Promoted(g))[m].ttl = lease[m].ttl
                           /\ Touched(Promoted(g))[m].gpu = lease[m].gpu
    BY PromotionFacts, TouchedLater
  <2> QED
    BY <2>1, <2>2 DEF TtlKept
<1>4. ASSUME NEW g \in Gpu, NEW ttl \in Ttl \cup {None}, Renew(g, ttl)
      PROVE  TtlKept'
  <2> DEFINE h == holder[g]
             new == IF ttl = None THEN lease[h].ttl ELSE ttl
  <2>1. /\ h \in LeaseId /\ lease[h].gpu = g
        /\ \A m \in LeaseId : m # h => lease'[m] = lease[m]
        /\ lease' = Touch(lease, h, new)
    BY <1>4, RenewKeeps, QueueFacts DEF Renew
  <2>2. new \in Nat /\ new > 0
    <3>1. lease[h].ttl \in Nat /\ lease[h].ttl > 0
      BY <1>1, <2>1 DEF TtlKept, Lease
    <3>2. ttl # None => ttl \in Nat /\ ttl > 0
      OBVIOUS
    <3> QED
      BY <3>1, <3>2
  <2> HIDE DEF h, new
  <2>3. Touch(lease, h, new)[h].ttl = new
    BY <1>1, <2>1, <2>2, TouchFacts
  <2> QED
    BY <2>1, <2>2, <2>3 DEF TtlKept
<1>5. CASE lease' = lease
  BY <1>5 DEF TtlKept
<1> QED
  BY <1>2, <1>3, <1>4, <1>5 DEF Next, Cancel, Shutdown, Tick, ClockStep, vars

(* One pass of the ticker clears every deadline that has come, the promoted *)
(* holder's and those of the waiters behind it included, and until time    *)
(* passes no request makes another one come, whatever the clock does: that *)
(* is why a ticker that makes a pass a second keeps up.                    *)
THEOREM OnePassClears == Spec => OnePassSuffices
<1> DEFINE Step == \A g \in Gpu : /\ ExpireNow(g) => ~Due(g)'
                                  /\ Due(g)' => Due(g) \/ now' > now
<1>1. Init => TtlKept
  BY DEF Init, TtlKept, Blank
<1>2. IInv /\ TtlKept /\ [Next]_vars => TtlKept'
  BY TtlsStay
<1>3. ASSUME IInv, IInv', TtlKept, [Next]_vars
      PROVE  Step
  <2> SUFFICES ASSUME NEW g \in Gpu
               PROVE  /\ ExpireNow(g) => ~Due(g)'
                      /\ Due(g)' => Due(g) \/ now' > now
    OBVIOUS
  <2>1. (IInv => \A k \in Gpu : Due(k) <=> ~Met(k))'
    BY DueUnlessMet, PTL
  <2>2. Due(g) <=> ~Met(g)
    BY <1>3, DueUnlessMet
  <2>3. ExpireNow(g) => Met(g)'
    BY <1>3, PassClears
  <2>4. Met(g) => Met(g)' \/ now' > now
    BY <1>3, DeadlinesCome
  <2> QED
    BY <1>3, <2>1, <2>2, <2>3, <2>4
<1>4. IInv /\ IInv' /\ TtlKept /\ [Next]_vars => [Step]_vars
  BY <1>3
<1> QED
  BY <1>1, <1>2, <1>4, Invariance, PTL DEF Spec, OnePassSuffices
=============================================================================
