------------------------------ MODULE GpuQueue ------------------------------
(***************************************************************************)
(* class GpuQueue of manager.py, one instance per managed GPU, with the    *)
(* Lease and _WaitSlot objects it works on.  Everything a method does runs *)
(* between two awaits of the one event loop (its `async with self._lock`   *)
(* bodies await nothing), so every method is one action.                   *)
(***************************************************************************)
EXTENDS Integers, Sequences, FiniteSets, StableLists

CONSTANTS
    Gpu,            \* the GPUs that have a queue
    LeaseId,        \* the ids new_lease_id() can mint, each at most once
    None,           \* Python's None
    Priority,       \* subset of 0..3: LOW, NORMAL, HIGH, IMMEDIATE
    Ttl,            \* ttl values requests carry
    WaitTimeout,    \* wait_timeout values requests carry
    Horizon,        \* bound: the clock stops here
    LastCall,       \* bound: no acquire or renew after this time
    ClockSteps,     \* may the wall clock be set back?
    PromptTicker    \* does the ticker run before the clock passes a deadline?

ASSUME QueueAssumption ==
    /\ None \notin LeaseId
    /\ None \notin Gpu
    /\ Priority \subseteq Nat
    /\ Ttl \subseteq Nat \ {0}
    /\ WaitTimeout \subseteq Nat \ {0}
    /\ Horizon \in Nat
    /\ ClockSteps \in BOOLEAN
    /\ PromptTicker \in BOOLEAN

VARIABLES
    now,     \* time.time()
    holder,  \* _holder of each queue
    queue,   \* _queue of each queue: the lease ids of its slots
    lease,   \* the Lease object of each id
    slot,    \* the _WaitSlot of each id: its reason, "waiting" before event.set()
    closed   \* _closed of each queue

vars == <<now, holder, queue, lease, slot, closed>>

NotGranted == -1      \* expires_at is None
Time == 0..Horizon

Lease == [gpu : Gpu \cup {None}, priority : Nat, ttl : Nat, wait_timeout : Nat,
          enqueued_at : Time, expires_at : Nat \cup {NotGranted}]

(* What lease[l] is before l is minted. *)
Blank == [gpu |-> None, priority |-> 0, ttl |-> 0, wait_timeout |-> 0,
          enqueued_at |-> 0, expires_at |-> NotGranted]

(* "none": not minted yet; "gone": the process that held the slot has ended. *)
SlotState == {"none", "waiting", "granted", "wait_timeout", "shutdown",
              "cancelled", "gone"}

(* One type invariant for the whole module. *)
TypeOK ==
    /\ now \in Time
    /\ holder \in [Gpu -> LeaseId \cup {None}]
    /\ queue \in [Gpu -> Seq(LeaseId)]
    /\ lease \in [LeaseId -> Lease]
    /\ slot \in [LeaseId -> SlotState]
    /\ closed \in [Gpu -> BOOLEAN]

Queued(g) == Elems(queue[g])

(* Mutation: the TTL is subtracted. *)
TouchBackwards(table, l, ttl) ==
    [table EXCEPT ![l].ttl = ttl, ![l].expires_at = now - ttl]

(* Lease.touch on the lease l of `table`. *)
Touch(table, l, ttl) ==
    [table EXCEPT ![l].ttl = ttl, ![l].expires_at = now + ttl]

(* Mutation: within a priority the newest goes first. *)
UrgencyNewestFirst(table) ==
    {p \in LeaseId \X LeaseId :
        \/ table[p[1]].priority > table[p[2]].priority
        \/ /\ table[p[1]].priority = table[p[2]].priority
           /\ table[p[1]].enqueued_at > table[p[2]].enqueued_at}

(* The sort key (-priority, enqueued_at), as the pairs it puts in order. *)
Urgency(table) ==
    {p \in LeaseId \X LeaseId :
        \/ table[p[1]].priority > table[p[2]].priority
        \/ /\ table[p[1]].priority = table[p[2]].priority
           /\ table[p[1]].enqueued_at < table[p[2]].enqueued_at}

(* Mutation: the sort is forgotten. *)
LineUnsorted(g, l, table) == Append(queue[g], l)

(* The queue of g after `append` and `sort`. *)
Line(g, l, table) == StableSort(Append(queue[g], l), Urgency(table))
-----------------------------------------------------------------------------
Init ==
    /\ now = 0
    /\ holder = [g \in Gpu |-> None]
    /\ queue = [g \in Gpu |-> <<>>]
    /\ lease = [l \in LeaseId |-> Blank]
    /\ slot = [l \in LeaseId |-> "none"]
    /\ closed = [g \in Gpu |-> FALSE]

(* Mutation: a queue that was shut down goes on accepting. *)
AcceptsAlways(g) == TRUE

(* `if self._closed: raise ShutdownError`. *)
Accepts(g) == ~closed[g]

(* The table of leases once GpuLockManager.acquire has built the lease l. *)
Mint(g, l, prio, ttl, wait) ==
    [lease EXCEPT ![l] =
        [gpu |-> g, priority |-> prio, ttl |-> ttl, wait_timeout |-> wait,
         enqueued_at |-> now, expires_at |-> NotGranted]]

(* enqueue: a fresh lease takes an idle GPU at once, else it joins the line. *)
Enqueue(g, l, prio, ttl, wait) ==
    /\ Accepts(g)
    /\ slot[l] = "none"
    /\ now <= LastCall
    /\ \/ /\ holder[g] = None
          /\ holder' = [holder EXCEPT ![g] = l]
          /\ lease' = Touch(Mint(g, l, prio, ttl, wait), l, ttl)
          /\ slot' = [slot EXCEPT ![l] = "granted"]
          /\ UNCHANGED queue
       \/ /\ holder[g] # None
          /\ queue' = [queue EXCEPT ![g] = Line(g, l, Mint(g, l, prio, ttl, wait))]
          /\ lease' = Mint(g, l, prio, ttl, wait)
          /\ slot' = [slot EXCEPT ![l] = "waiting"]
          /\ UNCHANGED holder
    /\ UNCHANGED <<now, closed>>

(* Mutations: the last in line is promoted; the promoted lease stays in line. *)
PromotedLast(g) == IF queue[g] = <<>> THEN None ELSE queue[g][Len(queue[g])]
RemainingAll(g) == queue[g]

(* _promote_locked: who holds g next, what is left of its line, and the    *)
(* leases after the new holder is touched.                                 *)
Promoted(g) == IF queue[g] = <<>> THEN None ELSE Head(queue[g])
Remaining(g) == IF queue[g] = <<>> THEN <<>> ELSE Tail(queue[g])
Touched(l) == IF l = None THEN lease ELSE Touch(lease, l, lease[l].ttl)

(* release, by the holder: the GPU passes to the head of the line. *)
ReleaseHeld(g) ==
    /\ holder[g] # None
    /\ holder' = [holder EXCEPT ![g] = Promoted(g)]
    /\ queue' = [queue EXCEPT ![g] = Remaining(g)]
    /\ lease' = Touched(Promoted(g))
    /\ slot' = [l \in LeaseId |-> IF l = Promoted(g) THEN "granted" ELSE slot[l]]
    /\ UNCHANGED <<now, closed>>

(* Mutation: the waiter is not woken. *)
CancelSilently(g, l) ==
    /\ l \in Queued(g)
    /\ queue' = [queue EXCEPT ![g] = Keep(@, LeaseId \ {l})]
    /\ UNCHANGED <<now, holder, lease, slot, closed>>

(* release, of a queued lease: it leaves the line and its waiter is woken. *)
Cancel(g, l) ==
    /\ l \in Queued(g)
    /\ queue' = [queue EXCEPT ![g] = Keep(@, LeaseId \ {l})]
    /\ slot' = [slot EXCEPT ![l] = "cancelled"]
    /\ UNCHANGED <<now, holder, lease, closed>>

(* renew: only the holder; an expired lease the ticker has not seen yet is *)
(* renewed like any other.  `ttl` is None when the request omits it.       *)
Renew(g, ttl) ==
    /\ holder[g] # None
    /\ now <= LastCall
    /\ lease' = Touch(lease, holder[g], IF ttl = None THEN lease[holder[g]].ttl ELSE ttl)
    /\ UNCHANGED <<now, holder, queue, slot, closed>>
-----------------------------------------------------------------------------
(* Mutation: a lease expires only when somebody waits for it. *)
HolderExpiredIfWanted(g) ==
    /\ holder[g] # None
    /\ queue[g] # <<>>
    /\ lease[holder[g]].expires_at <= now

HolderExpired(g) ==
    /\ holder[g] # None
    /\ lease[holder[g]].expires_at # NotGranted
    /\ lease[holder[g]].expires_at <= now

(* Mutation: a deadline that has just come does not count. *)
OverdueStrictly(s) ==
    {l \in Elems(s) : lease[l].enqueued_at + lease[l].wait_timeout < now}

(* The members of the line s whose wait deadline has come. *)
Overdue(s) == {l \in Elems(s) : lease[l].enqueued_at + lease[l].wait_timeout <= now}

Due(g) == ~closed[g] /\ (HolderExpired(g) \/ Overdue(queue[g]) # {})

(* Mutation: after a promotion the line is not swept. *)
ExpireOrSweep(g) ==
    \/ HolderExpired(g) /\ ~closed[g] /\ ReleaseHeld(g)
    \/ /\ Due(g) /\ ~HolderExpired(g)
       /\ queue' = [queue EXCEPT ![g] = Keep(@, LeaseId \ Overdue(@))]
       /\ slot' = [l \in LeaseId |-> IF l \in Overdue(queue[g]) THEN "wait_timeout" ELSE slot[l]]
       /\ UNCHANGED <<now, holder, lease, closed>>

(* _expire_now: the holder's TTL first, with the promotion it causes, and  *)
(* then the wait deadlines of those who are still in line.                 *)
ExpireNow(g) ==
    LET next == IF HolderExpired(g) THEN Promoted(g) ELSE holder[g]
        line == IF HolderExpired(g) THEN Remaining(g) ELSE queue[g]
        late == Overdue(line)
    IN  /\ Due(g)
        /\ holder' = [holder EXCEPT ![g] = next]
        /\ queue' = [queue EXCEPT ![g] = Keep(line, LeaseId \ late)]
        /\ lease' = IF HolderExpired(g) THEN Touched(next) ELSE lease
        /\ slot' = [l \in LeaseId |-> IF l \in late THEN "wait_timeout"
                                      ELSE IF l = next THEN "granted" ELSE slot[l]]
        /\ UNCHANGED <<now, closed>>

(* shutdown: waiters are turned away, the holder stays. *)
Shutdown(g) ==
    /\ ~closed[g]
    /\ closed' = [closed EXCEPT ![g] = TRUE]
    /\ slot' = [l \in LeaseId |-> IF l \in Queued(g) THEN "shutdown" ELSE slot[l]]
    /\ queue' = [queue EXCEPT ![g] = <<>>]
    /\ UNCHANGED <<now, holder, lease>>

(* The wall clock.  The ticker polls once a second; under PromptTicker it   *)
(* has made a pass of every queue since the last tick, and one pass is     *)
(* enough (OnePassSuffices).                                               *)
Tick ==
    /\ now < Horizon
    /\ PromptTicker => \A g \in Gpu : ~Due(g)
    /\ now' = now + 1
    /\ UNCHANGED <<holder, queue, lease, slot, closed>>

(* time.time() is not monotonic: it can be set back. *)
ClockStep ==
    /\ ClockSteps
    /\ \E t \in 0..(now - 1) : now' = t
    /\ UNCHANGED <<holder, queue, lease, slot, closed>>

Next ==
    \/ \E g \in Gpu :
        \/ \E l \in LeaseId, prio \in Priority, ttl \in Ttl, wait \in WaitTimeout :
              Enqueue(g, l, prio, ttl, wait)
        \/ ReleaseHeld(g)
        \/ \E l \in LeaseId : Cancel(g, l)
        \/ \E ttl \in Ttl \cup {None} : Renew(g, ttl)
        \/ ExpireNow(g)
        \/ Shutdown(g)
    \/ Tick
    \/ ClockStep

Spec == Init /\ [][Next]_vars
-----------------------------------------------------------------------------
(* A lease is in at most one place of the fleet: it holds one GPU, or it   *)
(* waits once in one line, and always at the GPU it was minted for.        *)
(* (manager.py: enqueue, release and _expire_now move leases by hand       *)
(* between _holder and _queue, and GpuLockManager looks a lease up by      *)
(* asking each queue in turn.)                                             *)
OnePlace ==
    \A g \in Gpu :
        /\ \A i, j \in DOMAIN queue[g] : queue[g][i] = queue[g][j] => i = j
        /\ holder[g] \notin Queued(g)
        /\ \A l \in Queued(g) : lease[l].gpu = g
        /\ holder[g] # None => lease[holder[g]].gpu = g

(* The event a handler sleeps on tells the truth: it is unset exactly while *)
(* the lease is in line, and a holder's was set with `granted` and its      *)
(* expiry armed.                                                            *)
SlotsTruthful ==
    /\ \A l \in LeaseId : slot[l] = "waiting" <=> \E g \in Gpu : l \in Queued(g)
    /\ \A g \in Gpu : holder[g] # None =>
          slot[holder[g]] = "granted" /\ lease[holder[g]].expires_at # NotGranted

(* Nobody waits for an idle GPU, nor at a queue that was shut down: there,  *)
(* nothing would ever promote or time out the waiter.                       *)
NobodyStranded ==
    \A g \in Gpu : holder[g] = None \/ closed[g] => queue[g] = <<>>

(* The line is ordered by priority, then by enqueued_at (README: queue      *)
(* order is priority desc, enqueued_at asc), whatever the clock did.        *)
QueueOrdered ==
    \A g \in Gpu : \A i, j \in DOMAIN queue[g] :
        i < j => <<queue[g][j], queue[g][i]>> \notin Urgency(lease)

(* `append` and `sort` put a newcomer where insertion would: behind         *)
(* everybody who is at least as urgent, ties included, and nobody else     *)
(* moves (manager.py:102-103 sorts the whole line again).                  *)
JoinsByInsertion ==
    \A g \in Gpu, l \in LeaseId, prio \in Priority, ttl \in Ttl, wait \in WaitTimeout :
        slot[l] = "none" =>
            LET s     == queue[g]
                table == Mint(g, l, prio, ttl, wait)
                n     == Cardinality({i \in DOMAIN s : <<l, s[i]>> \notin Urgency(table)})
            IN  Line(g, l, table) = SubSeq(s, 1, n) \o <<l>> \o SubSeq(s, n + 1, Len(s))

Place(l, s) == CHOOSE i \in DOMAIN s : s[i] = l

(* a waits at g, and b is behind it in line or not there yet. *)
InFront(g, a, b) ==
    /\ a # b
    /\ a \in Queued(g)
    /\ b # holder[g]
    /\ b \in Queued(g) => Place(a, queue[g]) < Place(b, queue[g])

(* b has no claim to pass a: its priority is no higher and, if it is the    *)
(* same, its enqueued_at no earlier.                                       *)
NoClaim(a, b) ==
    /\ lease[a].priority >= lease'[b].priority
    /\ lease[a].priority = lease'[b].priority =>
          lease[a].enqueued_at <= lease'[b].enqueued_at

(* No lease overtakes one that was in front of it and that it has no claim  *)
(* to pass, neither when it joins the line nor when others leave it         *)
(* (README: FIFO within a priority; when both asked within one tick of the  *)
(* clock, the order of arrival decides).  Where the clock is not set back   *)
(* no latecomer has a claim to pass its own priority.                       *)
NoOvertaking ==
    [][\A g \in Gpu, a, b \in LeaseId :
         InFront(g, a, b) /\ NoClaim(a, b) =>
           /\ {a, b} \subseteq Queued(g)' => Place(a, queue'[g]) < Place(b, queue'[g])
           /\ b = holder'[g] => a \notin Queued(g)'
      ]_vars

(* What the class promises: PriorityMutex, waiting being the members of the *)
(* line and a ticket the key the line is sorted by.                         *)
Mutex == INSTANCE PriorityMutex WITH
    Ticket  <- [priority : Priority \cup {0}, since : Time],
    waiting <- [g \in Gpu |-> Queued(g)],
    ticket  <- [l \in LeaseId |-> [priority |-> lease[l].priority,
                                   since |-> lease[l].enqueued_at]],
    used    <- {l \in LeaseId : slot[l] # "none"}

ImplementsMutex == Mutex!Spec

(* One pass of the ticker clears every deadline that has come: the holder's, *)
(* the new holder's after the promotion, and those of whoever waited behind *)
(* it.  After that only the passing of time makes one come, no request does *)
(* (manager.py:314-345: the sweep runs over what the promotion left).       *)
OnePassSuffices ==
    [][\A g \in Gpu :
         /\ ExpireNow(g) => ~Due(g)'
         /\ Due(g)' => Due(g) \/ now' > now
      ]_vars

(* Once clients stop calling, every holder of an open queue is removed: a   *)
(* crashed client blocks its GPU for one TTL, not for good.                 *)
HoldersExpire ==
    \A g \in Gpu, l \in LeaseId :
        holder[g] = l /\ now <= LastCall ~> holder[g] # l \/ closed[g]
=============================================================================
