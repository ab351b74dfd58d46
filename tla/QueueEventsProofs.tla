-------------------------- MODULE QueueEventsProofs --------------------------
(***************************************************************************)
(* The history of every fleet tells where every lease is whose latest event *)
(* was written.                                                            *)
(***************************************************************************)
EXTENDS QueueEvents, GpuQueueProofs

USE QueueAssumption

Holds(l) == \E g \in Gpu : holder[g] = l
InLine(l) == \E g \in Gpu : l \in Queued(g)

(* The invariant: the log is not truthful for its own sake, but because the *)
(* queues it reports are as IInv says.                                     *)
EventsInv == IInv /\ LogTruthful

(* Logging is no part of the queues: with the log they do what they do     *)
(* without it.                                                             *)
LEMMA EventsAreSteps == [EventsNext]_eventVars => [Next]_vars
BY DEF EventsNext, Next, eventVars

(* A lease at g is held, or in line, exactly when it is so at g. *)
LEMMA AtOneQueue ==
    ASSUME IInv, NEW g \in Gpu, NEW m \in LeaseId,
           m \in Queued(g) \/ m = holder[g] \/ slot[m] = "none",
           \A k \in Gpu \ {g} : holder'[k] = holder[k] /\ queue'[k] = queue[k]
    PROVE  /\ Holds(m)' <=> m = holder'[g]
           /\ InLine(m)' <=> m \in Queued(g)'
<1>1. \A k \in Gpu \ {g} : m # holder[k] /\ m \notin Queued(k)
  BY NowhereElse
<1>2. \A k \in Gpu \ {g} : m # holder'[k] /\ m \notin Queued(k)'
  BY <1>1 DEF Queued
<1> QED
  BY <1>2 DEF Holds, InLine

(* A lease g neither takes in nor lets go is where it was. *)
LEMMA NotAtThisQueue ==
    ASSUME NEW g \in Gpu, NEW m \in LeaseId,
           m = holder'[g] <=> m = holder[g],
           m \in Queued(g)' <=> m \in Queued(g),
           \A k \in Gpu \ {g} : holder'[k] = holder[k] /\ queue'[k] = queue[k]
    PROVE  /\ Holds(m)' <=> Holds(m)
           /\ InLine(m)' <=> InLine(m)
<1>1. \A k \in Gpu : /\ holder'[k] = m <=> holder[k] = m
                     /\ m \in Queued(k)' <=> m \in Queued(k)
  BY DEF Queued
<1> QED
  BY <1>1 DEF Holds, InLine

(* The log stays truthful when a method of g reports each lease it moves,   *)
(* as granted or renewed exactly if it ends as holder, and as enqueued     *)
(* exactly if it ends in line.                                             *)
LEMMA ReportsKeepTruth ==
    ASSUME EventsInv, NEW g \in Gpu, NEW events,
           DOMAIN events \subseteq LeaseId, Log(events),
           \A k \in Gpu \ {g} : holder'[k] = holder[k] /\ queue'[k] = queue[k],
           closed' = closed,
           \A m \in DOMAIN events :
              /\ m \in Queued(g) \/ m = holder[g] \/ slot[m] = "none"
              /\ events[m] \in EventName
              /\ m = holder'[g] <=> events[m] \in {"grant", "renew"}
              /\ m \in Queued(g)' <=> events[m] = "enqueue",
           \A m \in LeaseId \ DOMAIN events :
              /\ m = holder'[g] <=> m = holder[g]
              /\ m \in Queued(g)' <=> m \in Queued(g)
              /\ lease'[m].gpu = lease[m].gpu
    PROVE  LogTruthful'
<1>1. \A l \in LeaseId :
        /\ last[l] \in Record
        /\ l \notin lost =>
              /\ Holds(l) <=> last[l].event \in {"grant", "renew"}
              /\ InLine(l) => last[l].event = "enqueue"
              /\ last[l].event = "enqueue" => InLine(l) \/ closed[lease[l].gpu]
  BY DEF EventsInv, LogTruthful, Holds, InLine
<1>2. PICK written \in SUBSET DOMAIN events :
        /\ last' = [l \in LeaseId |->
              IF l \in written THEN [event |-> events[l], ts |-> now] ELSE last[l]]
        /\ lost' = (lost \cup DOMAIN events) \ written
  BY DEF Log
<1>3. ASSUME NEW m \in LeaseId
      PROVE  /\ last'[m] \in Record
             /\ m \notin lost' =>
                   /\ Holds(m)' <=> last'[m].event \in {"grant", "renew"}
                   /\ InLine(m)' => last'[m].event = "enqueue"
                   /\ last'[m].event = "enqueue" => InLine(m)' \/ closed'[lease'[m].gpu]
  <2>1. CASE m \in written
    <3>1. last'[m] = [event |-> events[m], ts |-> now] /\ now \in Time
      BY <1>2, <2>1, QueueFacts DEF EventsInv, IInv, TypeOK
    <3>2. last'[m].event = events[m] /\ last'[m] \in Record
      BY <2>1, <3>1 DEF Record
    <3>3. /\ Holds(m)' <=> m = holder'[g]
          /\ InLine(m)' <=> m \in Queued(g)'
      BY <2>1, AtOneQueue DEF EventsInv
    <3> QED
      BY <2>1, <3>2, <3>3
  <2>2. CASE m \in DOMAIN events \ written
    BY <1>1, <1>2, <2>2
  <2>3. CASE m \notin DOMAIN events
    <3>1. last'[m] = last[m] /\ (m \in lost' <=> m \in lost)
      BY <1>2, <2>3
    <3>2. (Holds(m)' <=> Holds(m)) /\ (InLine(m)' <=> InLine(m))
      BY <2>3, NotAtThisQueue
    <3> QED
      BY <1>1, <2>3, <3>1, <3>2
  <2> QED
    BY <1>2, <2>1, <2>2, <2>3
<1> QED
  BY <1>3 DEF LogTruthful, Holds, InLine
-----------------------------------------------------------------------------
(* The records of enqueue. *)
LEMMA EnqueueReports ==
    ASSUME EventsInv, NEW g \in Gpu, NEW l \in LeaseId, NEW prio \in Priority,
           NEW ttl \in Ttl, NEW wait \in WaitTimeout,
           Enqueue(g, l, prio, ttl, wait),
           Log([m \in {l} |-> IF holder[g] = None THEN "grant" ELSE "enqueue"])
    PROVE  LogTruthful'
<1> DEFINE events == [m \in {l} |-> IF holder[g] = None THEN "grant" ELSE "enqueue"]
           table == Mint(g, l, prio, ttl, wait)
<1>1. IInv
  BY DEF EventsInv
<1>2. /\ GrantsKept(g)
      /\ slot[l] = "none"
      /\ \A m \in LeaseId : m # l => lease'[m] = lease[m]
      /\ l # holder[g] /\ l \notin Queued(g)
  BY <1>1, EnqueueKeeps
<1>3. /\ holder[g] = None => holder'[g] = l /\ Queued(g)' = Queued(g)
      /\ holder[g] # None => holder'[g] = holder[g] /\ Queued(g)' = Queued(g) \cup {l}
  <2>1. table \in [LeaseId -> Lease]
    BY <1>1, MintFacts DEF IInv
  <2>2. Elems(Line(g, l, table)) = Queued(g) \cup {l}
    BY <1>1, <1>2, <2>1, QueueFacts, JoinLine
  <2> HIDE DEF table
  <2>3. ASSUME holder[g] # None
        PROVE  holder'[g] = holder[g] /\ queue'[g] = Line(g, l, table)
    BY <1>1, <2>3 DEF Enqueue, IInv, TypeOK, table
  <2>4. ASSUME holder[g] = None
        PROVE  holder'[g] = l /\ queue'[g] = queue[g]
    BY <1>1, <2>4 DEF Enqueue, IInv, TypeOK
  <2> QED
    BY <2>2, <2>3, <2>4 DEF Queued
<1>4. \A k \in Gpu \ {g} : holder'[k] = holder[k] /\ queue'[k] = queue[k]
  BY <1>2 DEF GrantsKept
<1>5. /\ DOMAIN events = {l}
      /\ events[l] = IF holder[g] = None THEN "grant" ELSE "enqueue"
      /\ Log(events)
  OBVIOUS
<1> HIDE DEF events
<1>6. /\ events[l] \in EventName
      /\ l = holder'[g] <=> events[l] \in {"grant", "renew"}
      /\ l \in Queued(g)' <=> events[l] = "enqueue"
  BY <1>2, <1>3, <1>5 DEF EventName
<1>7. \A m \in LeaseId \ {l} :
        /\ m = holder'[g] <=> m = holder[g]
        /\ m \in Queued(g)' <=> m \in Queued(g)
        /\ lease'[m].gpu = lease[m].gpu
  BY <1>2, <1>3
<1>8. closed' = closed
  BY DEF Enqueue
<1> QED
  BY <1>2, <1>4, <1>5, <1>6, <1>7, <1>8, ReportsKeepTruth

(* The records of a hand-over name the holder that leaves and the one that  *)
(* takes over.                                                             *)
LEMMA HandOverNames ==
    ASSUME IInv, NEW g \in Gpu, holder[g] # None, NEW why
    PROVE  /\ DOMAIN HandOverEvents(g, why) = {holder[g], Promoted(g)} \ {None}
           /\ DOMAIN HandOverEvents(g, why) \subseteq LeaseId
           /\ HandOverEvents(g, why)[holder[g]] = why
           /\ Promoted(g) # None =>
                Promoted(g) # holder[g] /\ HandOverEvents(g, why)[Promoted(g)] = "grant"
<1>1. /\ holder[g] \in LeaseId /\ holder[g] \notin Queued(g)
      /\ Queued(g) \subseteq LeaseId /\ Promoted(g) \in Queued(g) \cup {None}
  BY QueueFacts, PromotionFacts
<1> QED
  BY <1>1 DEF HandOverEvents

(* The records of a release by the holder. *)
LEMMA ReleaseReports ==
    ASSUME EventsInv, NEW g \in Gpu, ReleaseHeld(g), Log(HandOverEvents(g, "release"))
    PROVE  LogTruthful'
<1> DEFINE p == Promoted(g)
           events == HandOverEvents(g, "release")
<1>1. IInv /\ holder[g] # None
  BY DEF EventsInv, ReleaseHeld
<1>2. /\ GrantsKept(g)
      /\ closed' = closed
  BY <1>1, ReleaseHeldKeeps DEF ReleaseHeld
<1>3. /\ p \in Queued(g) \cup {None}
      /\ Elems(Remaining(g)) = Queued(g) \ {p}
      /\ \A m \in LeaseId : Touched(p)[m].gpu = lease[m].gpu
  BY <1>1, PromotionFacts
<1>4. /\ holder'[g] = p /\ queue'[g] = Remaining(g) /\ lease' = Touched(p)
  BY <1>1 DEF ReleaseHeld, IInv, TypeOK
<1>5. /\ DOMAIN events = {holder[g], p} \ {None}
      /\ DOMAIN events \subseteq LeaseId
      /\ events[holder[g]] = "release"
      /\ p # None => p # holder[g] /\ events[p] = "grant"
  BY <1>1, HandOverNames
<1>6. holder[g] \in LeaseId /\ holder[g] \notin Queued(g) /\ Queued(g) \subseteq LeaseId
  BY <1>1, QueueFacts
<1> HIDE DEF p, events
<1>7. Queued(g)' = Queued(g) \ {p}
  BY <1>3, <1>4 DEF Queued
<1>8. ASSUME NEW m \in DOMAIN events
      PROVE  /\ m \in Queued(g) \/ m = holder[g] \/ slot[m] = "none"
             /\ events[m] \in EventName
             /\ m = holder'[g] <=> events[m] \in {"grant", "renew"}
             /\ m \in Queued(g)' <=> events[m] = "enqueue"
  <2>1. CASE m = holder[g]
    BY <1>3, <1>4, <1>5, <1>6, <1>7, <2>1 DEF EventName
  <2>2. CASE m = p /\ p # None
    BY <1>3, <1>4, <1>5, <1>7, <2>2 DEF EventName
  <2> QED
    BY <1>5, <2>1, <2>2
<1>9. \A m \in LeaseId \ DOMAIN events :
        /\ m = holder'[g] <=> m = holder[g]
        /\ m \in Queued(g)' <=> m \in Queued(g)
        /\ lease'[m].gpu = lease[m].gpu
  BY <1>1, <1>3, <1>4, <1>5, <1>6, <1>7
<1>10. Log(events) /\ \A k \in Gpu \ {g} : holder'[k] = holder[k] /\ queue'[k] = queue[k]
  BY <1>2 DEF GrantsKept, events
<1> QED
  BY <1>2, <1>5, <1>8, <1>9, <1>10, ReportsKeepTruth

(* The record of a cancelled wait. *)
LEMMA CancelReports ==
    ASSUME EventsInv, NEW g \in Gpu, NEW l \in LeaseId, Cancel(g, l),
           Log([m \in {l} |-> "cancel"])
    PROVE  LogTruthful'
<1> DEFINE events == [m \in {l} |-> "cancel"]
<1>1. IInv
  BY DEF EventsInv
<1>2. /\ GrantsKept(g) /\ l \in Queued(g)
      /\ holder' = holder /\ lease' = lease /\ closed' = closed
      /\ l \notin Queued(g)' /\ l # holder'[g]
  BY <1>1, CancelKeeps DEF Cancel
<1>3. Queued(g)' = Queued(g) \ {l}
  <2>1. queue'[g] = Keep(queue[g], LeaseId \ {l})
    BY <1>1 DEF Cancel, IInv, TypeOK
  <2>2. Elems(Keep(queue[g], LeaseId \ {l})) = Queued(g) \cap (LeaseId \ {l})
    BY <1>1, QueueFacts, KeepLeaves DEF Queued
  <2> QED
    BY <1>1, <2>1, <2>2, QueueFacts DEF Queued
<1>4. DOMAIN events = {l} /\ events[l] = "cancel" /\ Log(events)
  OBVIOUS
<1> HIDE DEF events
<1>5. /\ events[l] \in EventName
      /\ l = holder'[g] <=> events[l] \in {"grant", "renew"}
      /\ l \in Queued(g)' <=> events[l] = "enqueue"
  BY <1>2, <1>4 DEF EventName
<1>6. \A m \in LeaseId \ {l} :
        /\ m = holder'[g] <=> m = holder[g]
        /\ m \in Queued(g)' <=> m \in Queued(g)
        /\ lease'[m].gpu = lease[m].gpu
  BY <1>2, <1>3
<1>7. \A k \in Gpu \ {g} : holder'[k] = holder[k] /\ queue'[k] = queue[k]
  BY <1>2 DEF GrantsKept
<1> QED
  BY <1>2, <1>4, <1>5, <1>6, <1>7, ReportsKeepTruth

(* The record of a renewal. *)
LEMMA RenewReports ==
    ASSUME EventsInv, NEW g \in Gpu, NEW ttl \in Ttl \cup {None}, Renew(g, ttl),
           Log([m \in {holder[g]} |-> "renew"])
    PROVE  LogTruthful'
<1> DEFINE events == [m \in {holder[g]} |-> "renew"]
<1>1. IInv
  BY DEF EventsInv
<1>2. /\ holder[g] \in LeaseId
      /\ \A m \in LeaseId : lease'[m].gpu = lease[m].gpu
      /\ UNCHANGED <<now, holder, queue, slot, closed>>
  BY <1>1, RenewKeeps
<1>3. holder[g] \notin Queued(g) /\ Queued(g)' = Queued(g)
  BY <1>1, <1>2, QueueFacts DEF Queued
<1>4. DOMAIN events = {holder[g]} /\ events[holder[g]] = "renew" /\ Log(events)
  OBVIOUS
<1> HIDE DEF events
<1>5. \A m \in DOMAIN events :
        /\ m \in Queued(g) \/ m = holder[g] \/ slot[m] = "none"
        /\ events[m] \in EventName
        /\ m = holder'[g] <=> events[m] \in {"grant", "renew"}
        /\ m \in Queued(g)' <=> events[m] = "enqueue"
  BY <1>2, <1>3, <1>4 DEF EventName
<1>6. \A m \in LeaseId \ DOMAIN events :
        /\ m = holder'[g] <=> m = holder[g]
        /\ m \in Queued(g)' <=> m \in Queued(g)
        /\ lease'[m].gpu = lease[m].gpu
  BY <1>2, <1>3
<1>7. /\ DOMAIN events \subseteq LeaseId /\ closed' = closed
      /\ \A k \in Gpu \ {g} : holder'[k] = holder[k] /\ queue'[k] = queue[k]
  BY <1>2, <1>4
<1> QED
  BY <1>4, <1>5, <1>6, <1>7, ReportsKeepTruth

(* The records of one pass of the ticker: of the hand-over, if the holder's *)
(* lease had run out, and of each waiter it swept.                         *)
LEMMA ExpireReports ==
    ASSUME EventsInv, NEW g \in Gpu, ExpireNow(g), Log(ExpireEvents(g))
    PROVE  LogTruthful'
<1> DEFINE next == IF HolderExpired(g) THEN Promoted(g) ELSE holder[g]
           line == IF HolderExpired(g) THEN Remaining(g) ELSE queue[g]
           late == Overdue(line)
           q == Keep(line, LeaseId \ late)
           table == IF HolderExpired(g) THEN Touched(next) ELSE lease
           events == ExpireEvents(g)
           moved == IF HolderExpired(g) THEN {holder[g], Promoted(g)} \ {None} ELSE {}
<1>1. IInv
  BY DEF EventsInv
<1>2. holder'[g] = next /\ queue'[g] = q /\ lease' = table /\ closed' = closed
  BY <1>1 DEF ExpireNow, IInv, TypeOK
<1>3. GrantsKept(g)
  BY <1>1, ExpireNowKeeps
<1>4. late \subseteq Elems(line)
  BY DEF Overdue
<1>5. /\ line \in Seq(LeaseId) /\ Distinct(line) /\ Ordered(line, lease)
      /\ Elems(line) = Queued(g) \ {next}
      /\ \A m \in LeaseId : table[m].gpu = lease[m].gpu
      /\ HolderExpired(g) => next = Promoted(g) /\ next \in Queued(g) \cup {None}
      /\ ~HolderExpired(g) => next = holder[g]
  <2>1. CASE HolderExpired(g)
    <3>1. next = Promoted(g) /\ line = Remaining(g) /\ table = Touched(Promoted(g))
      BY <2>1
    <3> HIDE DEF next, line, table
    <3> QED
      BY <1>1, <2>1, <3>1, PromotionFacts
  <2>2. CASE ~HolderExpired(g)
    <3>1. next = holder[g] /\ line = queue[g] /\ table = lease
      BY <2>2
    <3> HIDE DEF next, line, table
    <3> QED
      BY <1>1, <2>2, <3>1, QueueFacts DEF Queued
  <2> QED
    BY <2>1, <2>2
<1>6. /\ Queued(g) \subseteq LeaseId /\ holder[g] \notin Queued(g)
      /\ holder[g] \in LeaseId \cup {None}
  BY <1>1, QueueFacts
<1>7. /\ moved \cap late = {}
      /\ DOMAIN events = moved \cup late
      /\ \A m \in late : events[m] = "wait_timeout"
      /\ \A m \in moved : events[m] = IF m = holder[g] THEN "ttl_expire" ELSE "grant"
  <2>1. CASE HolderExpired(g)
    <3>1. holder[g] # None
      BY <2>1 DEF HolderExpired
    <3>2. /\ moved = {holder[g], Promoted(g)} \ {None} /\ line = Remaining(g)
          /\ late = Overdue(Remaining(g))
      BY <2>1
    <3>3. moved \cap late = {}
      BY <1>4, <1>5, <1>6, <2>1, <3>2
    <3> HIDE DEF moved, late, line, next
    <3>4. /\ DOMAIN HandOverEvents(g, "ttl_expire") = moved
          /\ \A m \in moved : HandOverEvents(g, "ttl_expire")[m] =
                                IF m = holder[g] THEN "ttl_expire" ELSE "grant"
      BY <3>2 DEF HandOverEvents
    <3>5. DOMAIN SweepEvents(late) = late /\ \A m \in late : SweepEvents(late)[m] = "wait_timeout"
      BY DEF SweepEvents
    <3>6. events = [l \in moved \cup late |->
                       IF l \in moved THEN HandOverEvents(g, "ttl_expire")[l]
                       ELSE SweepEvents(late)[l]]
      BY <2>1, <3>2, <3>4, <3>5 DEF ExpireEvents
    <3> HIDE DEF events
    <3> QED
      BY <3>3, <3>4, <3>5, <3>6
  <2>2. CASE ~HolderExpired(g)
    BY <2>2 DEF ExpireEvents, SweepEvents
  <2> QED
    BY <2>1, <2>2
<1>8. /\ HolderExpired(g) => moved = {holder[g], next} \ {None} /\ holder[g] # None
      /\ ~HolderExpired(g) => moved = {}
  BY DEF HolderExpired
<1> HIDE DEF next, line, late, table, events, moved
<1>9. Elems(q) = Elems(line) \cap (LeaseId \ late)
  BY <1>5, KeepLeaves
<1> HIDE DEF q
<1>10. Queued(g)' = Queued(g) \ (late \cup {next})
  BY <1>2, <1>5, <1>6, <1>9 DEF Queued
<1>11. ASSUME NEW m \in DOMAIN events
       PROVE  /\ m \in LeaseId
              /\ m \in Queued(g) \/ m = holder[g] \/ slot[m] = "none"
              /\ events[m] \in EventName
              /\ m = holder'[g] <=> events[m] \in {"grant", "renew"}
              /\ m \in Queued(g)' <=> events[m] = "enqueue"
  <2>1. CASE m \in late
    <3>1. m \in Queued(g) /\ m # next /\ events[m] = "wait_timeout"
      BY <1>4, <1>5, <1>7, <2>1
    <3> QED
      BY <1>2, <1>6, <1>10, <2>1, <3>1 DEF EventName
  <2>2. CASE m \in moved /\ m = holder[g]
    <3>1. HolderExpired(g) /\ m # next /\ m \notin Queued(g) /\ events[m] = "ttl_expire"
      BY <1>5, <1>6, <1>7, <1>8, <2>2
    <3> QED
      BY <1>2, <1>6, <1>8, <1>10, <2>2, <3>1 DEF EventName
  <2>3. CASE m \in moved /\ m # holder[g]
    <3>1. m = next /\ m \in Queued(g) /\ events[m] = "grant"
      BY <1>5, <1>7, <1>8, <2>3
    <3> QED
      BY <1>2, <1>6, <1>10, <3>1 DEF EventName
  <2> QED
    BY <1>7, <2>1, <2>2, <2>3
<1>12. ASSUME NEW m \in LeaseId \ DOMAIN events
       PROVE  /\ m = holder'[g] <=> m = holder[g]
              /\ m \in Queued(g)' <=> m \in Queued(g)
              /\ lease'[m].gpu = lease[m].gpu
  <2>1. m \notin moved /\ m \notin late /\ m # None
    BY <1>7
  <2>2. CASE HolderExpired(g)
    BY <1>2, <1>5, <1>8, <1>10, <2>1, <2>2
  <2>3. CASE ~HolderExpired(g)
    BY <1>2, <1>5, <1>6, <1>8, <1>10, <2>1, <2>3
  <2> QED
    BY <2>2, <2>3
<1>13. Log(events) /\ \A k \in Gpu \ {g} : holder'[k] = holder[k] /\ queue'[k] = queue[k]
  BY <1>3 DEF GrantsKept, events
<1> QED
  BY <1>2, <1>11, <1>12, <1>13, ReportsKeepTruth

(* A shutdown reports nothing: whoever it turned away stays "enqueued" at a *)
(* queue that is closed.                                                   *)
LEMMA ShutdownReports ==
    ASSUME EventsInv, NEW g \in Gpu, Shutdown(g), UNCHANGED <<last, lost>>
    PROVE  LogTruthful'
<1>1. IInv
  BY DEF EventsInv
<1>2. /\ holder' = holder /\ lease' = lease
      /\ queue' = [queue EXCEPT ![g] = <<>>]
      /\ closed' = [closed EXCEPT ![g] = TRUE]
  BY DEF Shutdown
<1>3. \A k \in Gpu \ {g} : Queued(k)' = Queued(k) /\ closed'[k] = closed[k]
  BY <1>1, <1>2 DEF Queued, IInv, TypeOK
<1>4. closed'[g] /\ Queued(g)' = {}
  BY <1>1, <1>2, EmptyLine DEF Queued, IInv, TypeOK
<1>5. \A m \in Queued(g) : m \in LeaseId /\ lease[m].gpu = g
  BY <1>1, QueueFacts
<1>6. \A l \in LeaseId :
        /\ last[l] \in Record
        /\ l \notin lost =>
              /\ Holds(l) <=> last[l].event \in {"grant", "renew"}
              /\ InLine(l) => last[l].event = "enqueue"
              /\ last[l].event = "enqueue" => InLine(l) \/ closed[lease[l].gpu]
  BY DEF EventsInv, LogTruthful, Holds, InLine
<1>7. ASSUME NEW l \in LeaseId
      PROVE  /\ Holds(l)' <=> Holds(l)
             /\ InLine(l)' => InLine(l)
             /\ InLine(l) => InLine(l)' \/ closed'[lease[l].gpu]
             /\ closed[lease[l].gpu] => closed'[lease[l].gpu]
  <2>1. (Holds(l)' <=> Holds(l)) /\ (InLine(l)' => InLine(l))
    BY <1>2, <1>3, <1>4 DEF Holds, InLine
  <2>2. InLine(l) => InLine(l)' \/ closed'[lease[l].gpu]
    BY <1>3, <1>4, <1>5 DEF InLine
  <2>3. closed[lease[l].gpu] => closed'[lease[l].gpu]
    BY <1>1, <1>2 DEF IInv, TypeOK, Lease
  <2> QED
    BY <2>1, <2>2, <2>3
<1>8. \A l \in LeaseId :
        /\ last'[l] \in Record
        /\ l \notin lost' =>
              /\ Holds(l)' <=> last'[l].event \in {"grant", "renew"}
              /\ InLine(l)' => last'[l].event = "enqueue"
              /\ last'[l].event = "enqueue" => InLine(l)' \/ closed'[lease'[l].gpu]
  BY <1>2, <1>6, <1>7
<1> QED
  BY <1>8 DEF LogTruthful, Holds, InLine
-----------------------------------------------------------------------------
(* The log of a fleet that has just started is empty, and so is the fleet. *)
LEMMA EventsInitInv == EventsInit => EventsInv
<1> SUFFICES ASSUME EventsInit
             PROVE  EventsInv
  OBVIOUS
<1>1. Init /\ IInv
  BY InitInv DEF EventsInit
<1>2. \A l \in LeaseId : ~Holds(l) /\ ~InLine(l)
  BY <1>1, EmptyLine DEF Init, Holds, InLine, Queued
<1>3. \A l \in LeaseId : last[l] = [event |-> "none", ts |-> 0]
  BY DEF EventsInit
<1>4. [event |-> "none", ts |-> 0] \in Record
  BY DEF Record, EventName, Time
<1> QED
  BY <1>1, <1>2, <1>3, <1>4 DEF EventsInv, LogTruthful, Holds, InLine

(* The log stays truthful, action by action. *)
LEMMA EventsNextInv ==
    ASSUME EventsInv, [EventsNext]_eventVars
    PROVE  EventsInv'
<1>1. IInv'
  BY EventsAreSteps, NextInv DEF EventsInv
<1>2. ASSUME NEW g \in Gpu, NEW l \in LeaseId, NEW prio \in Priority,
             NEW ttl \in Ttl, NEW wait \in WaitTimeout,
             Enqueue(g, l, prio, ttl, wait),
             Log([m \in {l} |-> IF holder[g] = None THEN "grant" ELSE "enqueue"])
      PROVE  LogTruthful'
  BY <1>2, EnqueueReports
<1>3. ASSUME NEW g \in Gpu, ReleaseHeld(g), Log(HandOverEvents(g, "release"))
      PROVE  LogTruthful'
  BY <1>3, ReleaseReports
<1>4. ASSUME NEW g \in Gpu, NEW l \in LeaseId, Cancel(g, l), Log([m \in {l} |-> "cancel"])
      PROVE  LogTruthful'
  BY <1>4, CancelReports
<1>5. ASSUME NEW g \in Gpu, NEW ttl \in Ttl \cup {None}, Renew(g, ttl),
             Log([m \in {holder[g]} |-> "renew"])
      PROVE  LogTruthful'
  BY <1>5, RenewReports
<1>6. ASSUME NEW g \in Gpu, ExpireNow(g), Log(ExpireEvents(g))
      PROVE  LogTruthful'
  BY <1>6, ExpireReports
<1>7. ASSUME NEW g \in Gpu, Shutdown(g), UNCHANGED <<last, lost>>
      PROVE  LogTruthful'
  BY <1>7, ShutdownReports
<1>8. ASSUME (Tick /\ UNCHANGED <<last, lost>>) \/ UNCHANGED eventVars
      PROVE  LogTruthful'
  <2>1. UNCHANGED <<holder, queue, lease, closed, last, lost>>
    BY <1>8 DEF Tick, eventVars, vars
  <2> QED
    BY <2>1 DEF EventsInv, LogTruthful, Queued
<1>9. LogTruthful'
  BY <1>2, <1>3, <1>4, <1>5, <1>6, <1>7, <1>8 DEF EventsNext
<1> QED
  BY <1>1, <1>9 DEF EventsInv

(* Reporting does not change what the queues do. *)
THEOREM ReportingIsPassive == EventsSpec => Spec
<1>1. EventsInit => Init
  BY DEF EventsInit
<1> QED
  BY <1>1, EventsAreSteps, PTL DEF EventsSpec, Spec

(* The invariant of the fleet with its log. *)
THEOREM EventsInvariance == EventsSpec => []EventsInv
  BY EventsInitInv, EventsNextInv, PTL DEF EventsSpec

(* Whoever reads the log knows where every lease is whose latest event is   *)
(* in it, whichever records were lost on the way.                          *)
THEOREM LogIsTruthful == EventsSpec => []LogTruthful
<1>1. EventsInv => LogTruthful
  BY DEF EventsInv
<1> QED
  BY <1>1, EventsInvariance, PTL
=============================================================================
