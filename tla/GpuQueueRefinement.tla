------------------------- MODULE GpuQueueRefinement -------------------------
(***************************************************************************)
(* GpuQueue implements PriorityMutex, for every set of GPUs and leases:    *)
(* each method is one step of the abstract lock, or none.                  *)
(***************************************************************************)
EXTENDS GpuQueueProofs

USE QueueAssumption

(* The refinement mapping by name: waiters, tickets and ids in use. *)
Waiters == [g \in Gpu |-> Queued(g)]
Key(l) == [priority |-> lease[l].priority, since |-> lease[l].enqueued_at]
Keys == [l \in LeaseId |-> Key(l)]
Used == {l \in LeaseId : slot[l] # "none"}

(* No lease changes its place in the order of urgency. *)
KeysKept ==
    \A m \in LeaseId : /\ lease'[m].priority = lease[m].priority
                       /\ lease'[m].enqueued_at = lease[m].enqueued_at

(* What a method that mints nothing does not touch. *)
LEMMA NothingMinted ==
    ASSUME KeysKept, \A m \in LeaseId : slot'[m] = "none" <=> slot[m] = "none"
    PROVE  Keys' = Keys /\ Used' = Used
<1>1. \A m \in LeaseId : Key(m)' = Key(m)
  BY DEF KeysKept, Key
<1>2. Keys' = Keys
  BY <1>1 DEF Keys
<1>3. Used' = Used
  BY DEF Used
<1> QED
  BY <1>2, <1>3

(* The waiters after a step that changes the queue g only. *)
LEMMA WaitersAfter ==
    ASSUME IInv, NEW g \in Gpu, NEW Q, Queued(g)' = Q,
           \A k \in Gpu \ {g} : queue'[k] = queue[k]
    PROVE  Waiters' = [Waiters EXCEPT ![g] = Q]
<1>1. \A k \in Gpu : Queued(k)' = IF k = g THEN Q ELSE Queued(k)
  BY DEF Queued
<1> QED
  BY <1>1 DEF Waiters

(* The head of the line is as urgent as any waiter. *)
LEMMA HeadIsMostUrgent ==
    ASSUME IInv, NEW g \in Gpu, queue[g] # <<>>
    PROVE  /\ Promoted(g) \in Queued(g)
           /\ \A m \in Queued(g) : <<m, Promoted(g)>> \notin Urgency(lease)
<1>1. queue[g] \in Seq(LeaseId) /\ Ordered(queue[g], lease) /\ lease \in [LeaseId -> Lease]
  BY QueueFacts
<1> DEFINE s == queue[g]
<1>2. /\ DOMAIN s = 1..Len(s) /\ Len(s) \in Nat
      /\ \A i \in DOMAIN s : s[i] \in LeaseId
  BY <1>1, LenProperties
<1>3. 1 \in DOMAIN s
  BY <1>1, <1>2, EmptySeq
<1>4. Promoted(g) = s[1]
  BY <1>3 DEF Promoted
<1> HIDE DEF s
<1>5. ASSUME NEW i \in DOMAIN s
      PROVE  <<s[i], s[1]>> \notin Urgency(lease)
  <2>1. CASE i = 1
    <3>1. s[1] \in LeaseId
      BY <1>2, <1>3
    <3>2. WeakOrder(LeaseId, Urgency(lease))
      BY <1>1, UrgencyIsWeakOrder
    <3> QED
      BY <2>1, <3>1, <3>2 DEF WeakOrder
  <2>2. CASE i # 1
    <3>1. 1 < i
      BY <1>2, <2>2
    <3> QED
      BY <1>1, <1>3, <3>1 DEF Ordered, s
  <2> QED
    BY <2>1, <2>2
<1> QED
  BY <1>3, <1>4, <1>5 DEF Queued, Elems, s
-----------------------------------------------------------------------------
(* enqueue is a fresh lease joining. *)
LEMMA EnqueueJoins ==
    ASSUME IInv, NEW g \in Gpu, NEW l \in LeaseId, NEW prio \in Priority,
           NEW ttl \in Ttl, NEW wait \in WaitTimeout,
           Enqueue(g, l, prio, ttl, wait)
    PROVE  Mutex!Join(g, l)
<1> DEFINE table == Mint(g, l, prio, ttl, wait)
           t == [priority |-> prio, since |-> now]
<1>1. /\ GrantsKept(g)
      /\ slot[l] = "none"
      /\ slot'[l] \in {"granted", "waiting"}
      /\ \A m \in LeaseId : m # l => slot'[m] = slot[m] /\ lease'[m] = lease[m]
  BY EnqueueKeeps
<1>2. /\ table \in [LeaseId -> Lease]
      /\ table[l].priority = prio /\ table[l].enqueued_at = now
  <2>1. table[l] = [gpu |-> g, priority |-> prio, ttl |-> ttl, wait_timeout |-> wait,
                    enqueued_at |-> now, expires_at |-> NotGranted]
    BY QueueFacts DEF Mint
  <2>2. table \in [LeaseId -> Lease]
    BY MintFacts DEF IInv
  <2> QED
    BY <2>1, <2>2
<1> HIDE DEF table
<1>3. lease'[l].priority = prio /\ lease'[l].enqueued_at = now
  <2>1. ttl \in Nat /\ now \in Nat
    BY QueueFacts
  <2>2. lease' = Touch(table, l, ttl) \/ lease' = table
    BY DEF Enqueue, table
  <2> QED
    BY <1>2, <2>1, <2>2, TouchFacts
<1>4. Used' = Used \cup {l} /\ l \notin Used
  BY <1>1 DEF Used
<1>5. t \in [priority : Priority \cup {0}, since : Time]
  BY QueueFacts
<1>6. Keys' = [Keys EXCEPT ![l] = t]
  <2>1. \A m \in LeaseId : Key(m)' = IF m = l THEN t ELSE Key(m)
    BY <1>1, <1>3 DEF Key
  <2> QED
    BY <2>1 DEF Keys
<1>7. CASE holder[g] = None
  <2>1. holder' = [holder EXCEPT ![g] = l] /\ queue' = queue
    BY <1>7 DEF Enqueue
  <2>2. Waiters' = Waiters
    BY <2>1 DEF Waiters, Queued
  <2> QED
    BY <1>4, <1>5, <1>6, <1>7, <2>1, <2>2 DEF Mutex!Join, Used, Keys, Key, Waiters
<1>8. CASE holder[g] # None
  <2>1. holder' = holder /\ queue' = [queue EXCEPT ![g] = Line(g, l, table)]
    BY <1>8 DEF Enqueue, table
  <2>2. l \notin Queued(g)
    BY <1>1, FreshIsNowhere
  <2>3. Elems(Line(g, l, table)) = Queued(g) \cup {l}
    BY <1>2, <2>2, QueueFacts, JoinLine
  <2>4. /\ Queued(g)' = Queued(g) \cup {l}
        /\ \A k \in Gpu \ {g} : queue'[k] = queue[k]
    BY <2>1, <2>3 DEF Queued, IInv, TypeOK
  <2>5. Waiters' = [Waiters EXCEPT ![g] = @ \cup {l}]
    BY <2>4, WaitersAfter DEF Waiters
  <2> QED
    BY <1>4, <1>5, <1>6, <1>8, <2>1, <2>5 DEF Mutex!Join, Used, Keys, Key, Waiters
<1> QED
  BY <1>7, <1>8

(* A lease is most urgent when no waiter goes before it in the sort order. *)
LEMMA UrgentIsMostUrgent ==
    ASSUME IInv, NEW g \in Gpu, NEW p \in Queued(g),
           \A m \in Queued(g) : <<m, p>> \notin Urgency(lease)
    PROVE  p \in Mutex!MostUrgent(g)
<1>1. Queued(g) \subseteq LeaseId
  BY QueueFacts
<1>2. \A m \in Queued(g) : ~Mutex!Ahead(Key(m), Key(p))
  BY <1>1 DEF Urgency, Mutex!Ahead, Key
<1> QED
  BY <1>1, <1>2 DEF Mutex!MostUrgent, Key

(* The holder leaves, the head of the line takes over if there is one, and *)
(* `gone` leave the line: the two forms of that step.                      *)
LEMMA PassOn ==
    ASSUME IInv, NEW g \in Gpu, holder[g] # None, NEW gone \in SUBSET Queued(g),
           Promoted(g) \notin gone,
           holder' = [holder EXCEPT ![g] = Promoted(g)],
           Queued(g)' = Queued(g) \ (gone \cup {Promoted(g)}),
           \A k \in Gpu \ {g} : queue'[k] = queue[k],
           Keys' = Keys, Used' = Used
    PROVE  Mutex!Next
<1>1. CASE queue[g] = <<>>
  <2>1. Promoted(g) = None /\ Queued(g) = {}
    BY <1>1, EmptyLine DEF Promoted, Queued
  <2>2. Waiters' = [Waiters EXCEPT ![g] = {}]
    BY <2>1, WaitersAfter
  <2>3. Waiters' = Waiters
    BY <2>1, <2>2 DEF Waiters
  <2>4. Mutex!Vacate(g)
    BY <2>1, <2>3 DEF Mutex!Vacate, Waiters, Keys, Key, Used
  <2> QED
    BY <2>4 DEF Mutex!Next
<1>2. CASE queue[g] # <<>>
  <2> DEFINE p == Promoted(g)
  <2>1. p \in Queued(g) /\ p \in Mutex!MostUrgent(g)
    BY <1>2, HeadIsMostUrgent, UrgentIsMostUrgent
  <2> HIDE DEF p
  <2>2. Waiters' = [Waiters EXCEPT ![g] = Queued(g) \ (gone \cup {p})]
    BY WaitersAfter DEF p
  <2>3. Waiters' = [Waiters EXCEPT ![g] = @ \ (gone \cup {p})]
    BY <2>2 DEF Waiters
  <2>4. gone \subseteq Queued(g) \ {p}
    BY DEF p
  <2>5. holder' = [holder EXCEPT ![g] = p]
    BY DEF p
  <2>6. Mutex!HandOver(g, p, gone)
    BY <2>1, <2>3, <2>4, <2>5 DEF Mutex!HandOver, Waiters, Keys, Key, Used
  <2> QED
    BY <2>1, <2>6 DEF Mutex!Next
<1> QED
  BY <1>1, <1>2

(* Waiters leave and nothing else happens. *)
LEMMA GiveUp ==
    ASSUME IInv, NEW g \in Gpu, NEW gone \in SUBSET Queued(g),
           holder' = holder,
           Queued(g)' = Queued(g) \ gone,
           \A k \in Gpu \ {g} : queue'[k] = queue[k],
           Keys' = Keys, Used' = Used
    PROVE  Mutex!Next
<1>1. Waiters' = [Waiters EXCEPT ![g] = Queued(g) \ gone]
  BY WaitersAfter
<1>2. Waiters' = [Waiters EXCEPT ![g] = @ \ gone]
  BY <1>1 DEF Waiters
<1>3. Mutex!Leave(g, gone)
  BY <1>2 DEF Mutex!Leave, Waiters, Keys, Key, Used
<1> QED
  BY <1>3 DEF Mutex!Next

(* release by the holder. *)
LEMMA ReleaseHeldPassesOn ==
    ASSUME IInv, NEW g \in Gpu, ReleaseHeld(g)
    PROVE  Mutex!Next
<1> DEFINE p == Promoted(g)
<1>1. /\ holder[g] # None
      /\ holder' = [holder EXCEPT ![g] = p]
      /\ queue' = [queue EXCEPT ![g] = Remaining(g)]
      /\ lease' = Touched(p)
      /\ slot' = [m \in LeaseId |-> IF m = p THEN "granted" ELSE slot[m]]
  BY DEF ReleaseHeld
<1>2. /\ p \in Queued(g) \cup {None}
      /\ Elems(Remaining(g)) = Queued(g) \ {p}
      /\ \A m \in LeaseId : /\ Touched(p)[m].priority = lease[m].priority
                            /\ Touched(p)[m].enqueued_at = lease[m].enqueued_at
  BY PromotionFacts
<1> HIDE DEF p
<1>3. p \in LeaseId => slot[p] = "waiting"
  BY <1>2, QueueFacts
<1>4. Keys' = Keys /\ Used' = Used
  <2>1. KeysKept
    BY <1>1, <1>2 DEF KeysKept
  <2>2. \A m \in LeaseId : slot'[m] = "none" <=> slot[m] = "none"
    BY <1>1, <1>3
  <2> QED
    BY <2>1, <2>2, NothingMinted
<1>5. /\ Queued(g)' = Queued(g) \ ({} \cup {p})
      /\ \A k \in Gpu \ {g} : queue'[k] = queue[k]
  BY <1>1, <1>2 DEF Queued, IInv, TypeOK
<1> DEFINE gone == {}
<1>6. gone \in SUBSET Queued(g) /\ p \notin gone /\ Queued(g)' = Queued(g) \ (gone \cup {p})
  BY <1>5
<1> HIDE DEF gone
<1> QED
  BY <1>1, <1>4, <1>5, <1>6, PassOn DEF p

(* release of a queued lease. *)
LEMMA CancelGivesUp ==
    ASSUME IInv, NEW g \in Gpu, NEW l \in LeaseId, Cancel(g, l)
    PROVE  Mutex!Next
<1> DEFINE q == Keep(queue[g], LeaseId \ {l})
<1>1. Elems(q) = Queued(g) \cap (LeaseId \ {l})
  BY QueueFacts, KeepLeaves DEF Queued
<1>2. /\ l \in Queued(g)
      /\ queue' = [queue EXCEPT ![g] = q]
      /\ slot' = [slot EXCEPT ![l] = "cancelled"]
      /\ holder' = holder /\ lease' = lease
  BY DEF Cancel
<1> HIDE DEF q
<1>3. Queued(g) \subseteq LeaseId /\ slot[l] = "waiting"
  BY <1>2, QueueFacts
<1>4. /\ Queued(g)' = Queued(g) \ {l}
      /\ \A k \in Gpu \ {g} : queue'[k] = queue[k]
  BY <1>1, <1>2, <1>3 DEF Queued, IInv, TypeOK
<1>5. Keys' = Keys /\ Used' = Used
  <2>1. KeysKept
    BY <1>2 DEF KeysKept
  <2>2. \A m \in LeaseId : slot'[m] = "none" <=> slot[m] = "none"
    BY <1>2, <1>3 DEF IInv, TypeOK
  <2> QED
    BY <2>1, <2>2, NothingMinted
<1> DEFINE gone == {l}
<1>6. gone \in SUBSET Queued(g) /\ Queued(g)' = Queued(g) \ gone
  BY <1>2, <1>4
<1> HIDE DEF gone
<1> QED
  BY <1>2, <1>4, <1>5, <1>6, GiveUp

(* shutdown: every waiter leaves. *)
LEMMA ShutdownGivesUp ==
    ASSUME IInv, NEW g \in Gpu, Shutdown(g)
    PROVE  Mutex!Next
<1>1. /\ slot' = [m \in LeaseId |-> IF m \in Queued(g) THEN "shutdown" ELSE slot[m]]
      /\ queue' = [queue EXCEPT ![g] = <<>>]
      /\ holder' = holder /\ lease' = lease
  BY DEF Shutdown
<1>2. \A m \in Queued(g) : slot[m] = "waiting"
  BY QueueFacts
<1>3. /\ Queued(g)' = Queued(g) \ Queued(g)
      /\ \A k \in Gpu \ {g} : queue'[k] = queue[k]
  BY <1>1, EmptyLine DEF Queued, IInv, TypeOK
<1>4. Keys' = Keys /\ Used' = Used
  <2>1. KeysKept
    BY <1>1 DEF KeysKept
  <2>2. \A m \in LeaseId : slot'[m] = "none" <=> slot[m] = "none"
    BY <1>1, <1>2
  <2> QED
    BY <2>1, <2>2, NothingMinted
<1> QED
  BY <1>1, <1>3, <1>4, GiveUp

(* The ticker: one step of the abstract lock, although it removes the       *)
(* holder, promotes and sweeps the line in one go.                         *)
LEMMA ExpireNowPassesOn ==
    ASSUME IInv, NEW g \in Gpu, ExpireNow(g)
    PROVE  Mutex!Next
<1> DEFINE next == IF HolderExpired(g) THEN Promoted(g) ELSE holder[g]
           line == IF HolderExpired(g) THEN Remaining(g) ELSE queue[g]
           late == Overdue(line)
           q == Keep(line, LeaseId \ late)
           table == IF HolderExpired(g) THEN Touched(next) ELSE lease
<1>1. /\ holder' = [holder EXCEPT ![g] = next]
      /\ queue' = [queue EXCEPT ![g] = q]
      /\ lease' = table
      /\ slot' = [m \in LeaseId |-> IF m \in late THEN "wait_timeout"
                                    ELSE IF m = next THEN "granted" ELSE slot[m]]
  BY DEF ExpireNow
<1>2. late \subseteq Elems(line)
  BY DEF Overdue
<1> HIDE DEF late, q
<1>3. /\ line \in Seq(LeaseId) /\ Distinct(line) /\ Ordered(line, lease)
      /\ Elems(line) = Queued(g) \ {next}
      /\ HolderExpired(g) => next = Promoted(g) /\ next \in Queued(g) \cup {None}
      /\ ~HolderExpired(g) => next = holder[g]
      /\ \A m \in LeaseId : /\ table[m].priority = lease[m].priority
                            /\ table[m].enqueued_at = lease[m].enqueued_at
  <2>1. CASE HolderExpired(g)
    <3>1. next = Promoted(g) /\ line = Remaining(g) /\ table = Touched(Promoted(g))
      BY <2>1
    <3> HIDE DEF next, line, table
    <3> QED
      BY <2>1, <3>1, PromotionFacts
  <2>2. CASE ~HolderExpired(g)
    <3>1. next = holder[g] /\ line = queue[g] /\ table = lease
      BY <2>2
    <3> HIDE DEF next, line, table
    <3> QED
      BY <2>2, <3>1, QueueFacts DEF Queued
  <2> QED
    BY <2>1, <2>2
<1> HIDE DEF next, line, table
<1>4. Elems(q) = Elems(line) \cap (LeaseId \ late)
  BY <1>3, KeepLeaves DEF q
<1>5. /\ Queued(g) \subseteq LeaseId
      /\ \A m \in Queued(g) : slot[m] = "waiting"
      /\ holder[g] # None => slot[holder[g]] = "granted"
      /\ holder[g] \notin Queued(g)
  BY QueueFacts
<1>6. late \in SUBSET Queued(g) /\ next \notin late
  BY <1>2, <1>3
<1>7. /\ Queued(g)' = Queued(g) \ (late \cup {next})
      /\ \A k \in Gpu \ {g} : queue'[k] = queue[k]
  BY <1>1, <1>3, <1>4, <1>5 DEF Queued, IInv, TypeOK
<1>8. Keys' = Keys /\ Used' = Used
  <2>1. KeysKept
    BY <1>1, <1>3 DEF KeysKept
  <2>2. \A m \in LeaseId : slot'[m] = "none" <=> slot[m] = "none"
    BY <1>1, <1>3, <1>5, <1>6
  <2> QED
    BY <2>1, <2>2, NothingMinted
<1>9. CASE HolderExpired(g)
  <2>1. holder[g] # None /\ next = Promoted(g)
    BY <1>3, <1>9 DEF HolderExpired
  <2> QED
    BY <1>1, <1>6, <1>7, <1>8, <2>1, PassOn
<1>10. CASE ~HolderExpired(g)
  <2>1. next = holder[g] /\ holder' = holder
    BY <1>1, <1>3, <1>10, ClosedSame
  <2>2. Queued(g)' = Queued(g) \ late
    BY <1>5, <1>7, <2>1
  <2> QED
    BY <1>6, <1>7, <1>8, <2>1, <2>2, GiveUp
<1> QED
  BY <1>9, <1>10

(* renew, and the clock: the abstract lock does not move. *)
LEMMA RenewStutters ==
    ASSUME IInv, NEW g \in Gpu, NEW ttl \in Ttl \cup {None}, Renew(g, ttl)
    PROVE  UNCHANGED Mutex!vars
<1> DEFINE h == holder[g]
           new == IF ttl = None THEN lease[h].ttl ELSE ttl
<1>1. /\ h # None
      /\ lease' = Touch(lease, h, new)
      /\ UNCHANGED <<now, holder, queue, slot, closed>>
  BY DEF Renew
<1>2. h \in LeaseId /\ now \in Nat /\ lease \in [LeaseId -> Lease]
  BY <1>1, QueueFacts
<1> HIDE DEF h
<1>3. new \in Nat
  <2>1. lease[h].ttl \in Nat
    BY <1>2 DEF Lease
  <2> QED
    BY <2>1
<1> HIDE DEF new
<1>4. KeysKept
  BY ONLY <1>1, <1>2, <1>3, TouchFacts DEF KeysKept
<1>5. Keys' = Keys /\ Used' = Used
  BY <1>1, <1>4, NothingMinted
<1>6. Waiters' = Waiters
  BY <1>1 DEF Waiters, Queued
<1> QED
  BY <1>1, <1>5, <1>6 DEF Mutex!vars, Waiters, Keys, Key, Used

(* Nothing the abstract lock knows of has changed. *)
LEMMA ClockStutters ==
    ASSUME UNCHANGED <<holder, queue, lease, slot>>
    PROVE  UNCHANGED Mutex!vars
BY DEF Mutex!vars, Queued
-----------------------------------------------------------------------------
(* Every step of the queues is a step of the abstract lock or a stutter. *)
LEMMA StepImplements ==
    ASSUME IInv, [Next]_vars
    PROVE  [Mutex!Next]_Mutex!vars
<1>1. ASSUME NEW g \in Gpu, NEW l \in LeaseId, NEW prio \in Priority,
             NEW ttl \in Ttl, NEW wait \in WaitTimeout,
             Enqueue(g, l, prio, ttl, wait)
      PROVE  Mutex!Next
  BY <1>1, EnqueueJoins DEF Mutex!Next
<1>2. ASSUME NEW g \in Gpu, ReleaseHeld(g)
      PROVE  Mutex!Next
  BY <1>2, ReleaseHeldPassesOn
<1>3. ASSUME NEW g \in Gpu, NEW l \in LeaseId, Cancel(g, l)
      PROVE  Mutex!Next
  BY <1>3, CancelGivesUp
<1>4. ASSUME NEW g \in Gpu, NEW ttl \in Ttl \cup {None}, Renew(g, ttl)
      PROVE  UNCHANGED Mutex!vars
  BY <1>4, RenewStutters
<1>5. ASSUME NEW g \in Gpu, ExpireNow(g)
      PROVE  Mutex!Next
  BY <1>5, ExpireNowPassesOn
<1>6. ASSUME NEW g \in Gpu, Shutdown(g)
      PROVE  Mutex!Next
  BY <1>6, ShutdownGivesUp
<1>7. ASSUME Tick \/ ClockStep \/ UNCHANGED vars
      PROVE  UNCHANGED Mutex!vars
  BY <1>7, ClockStutters DEF Tick, ClockStep, vars
<1> QED
  BY <1>1, <1>2, <1>3, <1>4, <1>5, <1>6, <1>7 DEF Next

(* A fleet that has just started is the abstract lock at its start. *)
LEMMA InitImplements == Init => Mutex!Init
<1> SUFFICES ASSUME Init
             PROVE  Mutex!Init
  OBVIOUS
<1>1. Waiters = [g \in Gpu |-> {}]
  BY EmptyLine DEF Init, Waiters, Queued
<1>2. \A l \in LeaseId : Key(l) = [priority |-> 0, since |-> 0]
  BY DEF Init, Key, Blank
<1>3. Keys \in [LeaseId -> [priority : Priority \cup {0}, since : Time]]
  BY <1>2 DEF Keys, Time
<1>4. Used = {}
  BY DEF Init, Used
<1>5. holder = [g \in Gpu |-> None]
  BY DEF Init
<1> QED
  BY <1>1, <1>3, <1>4, <1>5 DEF Mutex!Init, Waiters, Keys, Key, Used

(* The queues of manager.py are a lock with one holder per GPU, passed on   *)
(* only when its holder leaves and then, in the same step, to a most urgent *)
(* waiter; a lease that has left never comes back.                         *)
THEOREM QueuesImplementMutex == Spec => ImplementsMutex
<1>1. Init => Mutex!Init
  BY InitImplements
<1>2. IInv /\ [Next]_vars => [Mutex!Next]_Mutex!vars
  BY StepImplements
<1> QED
  BY <1>1, <1>2, Invariance, PTL DEF Spec, ImplementsMutex, Mutex!Spec
=============================================================================
