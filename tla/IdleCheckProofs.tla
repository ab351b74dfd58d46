--------------------------- MODULE IdleCheckProofs ---------------------------
(***************************************************************************)
(* A verdict of is_idle that rests on a history is right about everybody    *)
(* whose records were written, whatever they do between the two calls.     *)
(***************************************************************************)
EXTENDS IdleCheck, QueueEventsProofs

USE QueueAssumption, IdleAssumption

InPlaceAt(l, g) == holder[g] = l \/ l \in Queued(g)

(* Who leaves a GPU, and who comes to one, leaves a record of that moment,  *)
(* or is lost to the log; a check that found nobody is younger than        *)
(* CallLimit.                                                              *)
IdleInv ==
    /\ EventsInv
    /\ check \in Check
    /\ heldAt \in [LeaseId -> Time \cup {NotHeld}]
    /\ \A l \in LeaseId : last[l].ts <= now /\ heldAt[l] <= now
    /\ \A l \in LeaseId \ lost : ~Holds(l) =>
          heldAt[l] = NotHeld \/ (last[l].event # "none" /\ heldAt[l] <= last[l].ts)
    /\ check.verdict = "empty" =>
          /\ check.asked <= now /\ now <= check.asked + CallLimit
          /\ \A g \in check.scope, l \in LeaseId \ lost :
                InPlaceAt(l, g) => last[l].ts >= check.asked

(* Asking does not change what the queues and their log do. *)
LEMMA IdleStepsAreSteps == [IdleNext]_idleVars => [EventsNext]_eventVars
BY DEF IdleNext, Others, AskQueue, AskHistory, NoHistory, idleVars

(* Only enqueue mints a lease. *)
LEMMA NobodyMinted ==
    ASSUME IInv, NEW g \in Gpu,
           ReleaseHeld(g) \/ (\E l \in LeaseId : Cancel(g, l)) \/ ExpireNow(g) \/ Shutdown(g),
           NEW m \in LeaseId, slot[m] = "none"
    PROVE  slot'[m] = "none"
<1>1. /\ m \notin Queued(g) /\ m # holder[g]
      /\ Promoted(g) \in Queued(g) \cup {None}
      /\ Elems(Remaining(g)) = Queued(g) \ {Promoted(g)}
  BY FreshIsNowhere, PromotionFacts
<1>2. CASE ReleaseHeld(g)
  BY <1>1, <1>2 DEF ReleaseHeld
<1>3. ASSUME NEW l \in LeaseId, Cancel(g, l)
      PROVE  slot'[m] = "none"
  BY <1>1, <1>3 DEF Cancel, IInv, TypeOK
<1>4. CASE ExpireNow(g)
  <2>1. /\ m \notin Overdue(Remaining(g)) /\ m \notin Overdue(queue[g])
        /\ m # Promoted(g)
    BY <1>1 DEF Overdue, Queued
  <2>2. slot'[m] = "none"
    BY <1>1, <1>4, <2>1 DEF ExpireNow
  <2> QED
    BY <2>2
<1>5. CASE Shutdown(g)
  BY <1>1, <1>5 DEF Shutdown
<1> QED
  BY <1>2, <1>3, <1>4, <1>5

(* The ticker's records are never the record "none". *)
LEMMA ExpireEventsNamed ==
    ASSUME NEW g \in Gpu
    PROVE  \A m \in DOMAIN ExpireEvents(g) : ExpireEvents(g)[m] # "none"
<1>1. \A m \in DOMAIN HandOverEvents(g, "ttl_expire") :
        HandOverEvents(g, "ttl_expire")[m] # "none"
  BY DEF HandOverEvents
<1>2. \A late : \A m \in DOMAIN SweepEvents(late) : SweepEvents(late)[m] # "none"
  BY DEF SweepEvents
<1> DEFINE A == HandOverEvents(g, "ttl_expire")
           B == SweepEvents(Overdue(Remaining(g)))
           C == SweepEvents(Overdue(queue[g]))
           AB == [l \in DOMAIN A \cup DOMAIN B |-> IF l \in DOMAIN A THEN A[l] ELSE B[l]]
<1>3. /\ \A m \in DOMAIN A : A[m] # "none"
      /\ \A m \in DOMAIN B : B[m] # "none"
      /\ \A m \in DOMAIN C : C[m] # "none"
  BY <1>1, <1>2
<1>4. ExpireEvents(g) = IF HolderExpired(g) THEN AB ELSE C
  BY DEF ExpireEvents
<1> HIDE DEF A, B, C
<1>5. \A m \in DOMAIN AB : AB[m] # "none"
  BY <1>3
<1> HIDE DEF AB
<1> QED
  BY <1>3, <1>4, <1>5

(* A record of this moment is written about l. *)
Fresh(l) == now' = now /\ last'[l].ts = now /\ last'[l].event # "none" /\ l \notin lost'

(* Nothing is written about l, and if it was lost to the log it still is. *)
Unwritten(l) == last'[l] = last[l] /\ (l \in lost => l \in lost')

(* What a method that reports `events` does to the log. *)
LEMMA LogGrows ==
    ASSUME NEW events, Log(events), \A m \in DOMAIN events : events[m] # "none",
           now' = now, NEW l \in LeaseId
    PROVE  /\ Fresh(l) \/ Unwritten(l)
           /\ l \in DOMAIN events => Fresh(l) \/ l \in lost'
BY DEF Log, Fresh, Unwritten

(* One step of the queues: the log only grows, time does not run back, and  *)
(* a newcomer is reported, or lost to the log.                             *)
LEMMA StepReports ==
    ASSUME EventsInv, EventsInv', [EventsNext]_eventVars
    PROVE  /\ now <= now'
           /\ \A l \in LeaseId : Fresh(l) \/ Unwritten(l)
           /\ \A g \in Gpu, l \in LeaseId :
                InPlaceAt(l, g)' => InPlaceAt(l, g) \/ Fresh(l) \/ l \in lost'
<1>1. IInv /\ IInv' /\ now \in Nat
  BY QueueFacts DEF EventsInv, IInv, TypeOK, Time
<1>2. ASSUME NEW k \in Gpu,
             ReleaseHeld(k) \/ (\E l \in LeaseId : Cancel(k, l)) \/ ExpireNow(k) \/ Shutdown(k),
             NEW g \in Gpu, NEW l \in LeaseId, InPlaceAt(l, g)'
      PROVE  InPlaceAt(l, g)
  <2>1. GrantsKept(k)
    BY <1>1, <1>2, ReleaseHeldKeeps, CancelKeeps, ExpireNowKeeps, ShutdownKeeps
  <2>2. slot'[l] # "none"
    BY <1>1, <1>2 DEF InPlaceAt, IInv, SlotsTruthful
  <2>3. slot[l] # "none"
    BY <1>1, <1>2, <2>2, NobodyMinted
  <2> QED
    BY <1>2, <2>1, <2>3 DEF GrantsKept, InPlaceAt, Queued
<1>3. ASSUME NEW k \in Gpu, NEW m \in LeaseId, NEW prio \in Priority,
             NEW ttl \in Ttl, NEW wait \in WaitTimeout, Enqueue(k, m, prio, ttl, wait),
             Log([x \in {m} |-> IF holder[k] = None THEN "grant" ELSE "enqueue"])
      PROVE  /\ now' = now
             /\ \A l \in LeaseId : Fresh(l) \/ Unwritten(l)
             /\ \A g \in Gpu, l \in LeaseId :
                  InPlaceAt(l, g)' => InPlaceAt(l, g) \/ Fresh(l) \/ l \in lost'
  <2> DEFINE events == [x \in {m} |-> IF holder[k] = None THEN "grant" ELSE "enqueue"]
  <2>1. Log(events) /\ DOMAIN events = {m} /\ events[m] # "none"
    BY <1>3
  <2> HIDE DEF events
  <2>2. \A l \in LeaseId : Fresh(l) \/ Unwritten(l)
    BY <1>3, <2>1, LogGrows DEF Enqueue
  <2>3. Fresh(m) \/ m \in lost'
    BY <1>3, <2>1, LogGrows DEF Enqueue
  <2>4. GrantsKept(k) /\ \A l \in LeaseId : l # m => slot'[l] = slot[l]
    <3>1. IInv /\ Enqueue(k, m, prio, ttl, wait)
      BY <1>1, <1>3
    <3> QED
      BY ONLY <3>1, EnqueueKeeps, QueueAssumption
  <2>5. ASSUME NEW g \in Gpu, NEW l \in LeaseId, InPlaceAt(l, g)', l # m
        PROVE  InPlaceAt(l, g)
    <3>1. slot'[l] # "none"
      BY <1>1, <2>5 DEF InPlaceAt, IInv, SlotsTruthful
    <3> QED
      BY <2>4, <2>5, <3>1 DEF GrantsKept, InPlaceAt, Queued
  <2> QED
    BY <2>2, <2>3, <2>4, <2>5 DEF GrantsKept
<1>4. ASSUME NEW k \in Gpu, ReleaseHeld(k), Log(HandOverEvents(k, "release"))
      PROVE  /\ now' = now
             /\ \A l \in LeaseId : Fresh(l) \/ Unwritten(l)
  <2>1. \A m \in DOMAIN HandOverEvents(k, "release") : HandOverEvents(k, "release")[m] # "none"
    BY DEF HandOverEvents
  <2> QED
    BY <1>4, <2>1, LogGrows DEF ReleaseHeld
<1>5. ASSUME NEW k \in Gpu, NEW m \in LeaseId, Cancel(k, m), Log([x \in {m} |-> "cancel"])
      PROVE  /\ now' = now
             /\ \A l \in LeaseId : Fresh(l) \/ Unwritten(l)
  <2>1. \A e \in DOMAIN [x \in {m} |-> "cancel"] : [x \in {m} |-> "cancel"][e] # "none"
    OBVIOUS
  <2> QED
    BY <1>5, <2>1, LogGrows DEF Cancel
<1>6. ASSUME NEW k \in Gpu, NEW ttl \in Ttl \cup {None}, Renew(k, ttl),
             Log([x \in {holder[k]} |-> "renew"])
      PROVE  /\ now' = now /\ UNCHANGED <<holder, queue>>
             /\ \A l \in LeaseId : Fresh(l) \/ Unwritten(l)
  <2>1. \A e \in DOMAIN [x \in {holder[k]} |-> "renew"] : [x \in {holder[k]} |-> "renew"][e] # "none"
    OBVIOUS
  <2> QED
    BY <1>6, <2>1, LogGrows DEF Renew
<1>7. ASSUME NEW k \in Gpu, ExpireNow(k), Log(ExpireEvents(k))
      PROVE  /\ now' = now
             /\ \A l \in LeaseId : Fresh(l) \/ Unwritten(l)
  BY <1>7, ExpireEventsNamed, LogGrows DEF ExpireNow
<1>8. ASSUME NEW k \in Gpu, Shutdown(k), UNCHANGED <<last, lost>>
      PROVE  now' = now /\ \A l \in LeaseId : Unwritten(l)
  BY <1>8 DEF Shutdown, Unwritten
<1>9. ASSUME (Tick /\ UNCHANGED <<last, lost>>) \/ UNCHANGED eventVars
      PROVE  /\ now <= now' /\ UNCHANGED <<holder, queue>>
             /\ \A l \in LeaseId : Unwritten(l)
  BY <1>1, <1>9 DEF Tick, eventVars, vars, Unwritten
<1>10. UNCHANGED <<holder, queue>> => \A g \in Gpu, l \in LeaseId : InPlaceAt(l, g)' => InPlaceAt(l, g)
  BY DEF InPlaceAt, Queued
<1>11. now \in Int /\ (now' = now => now <= now')
  BY <1>1
<1> QED
  BY <1>2, <1>3, <1>4, <1>5, <1>6, <1>7, <1>8, <1>9, <1>10, <1>11 DEF EventsNext
-----------------------------------------------------------------------------
(* What the others do keeps the invariant of the check. *)
LEMMA OthersKeep ==
    ASSUME IdleInv, EventsInv', Others
    PROVE  IdleInv'
<1>1. /\ EventsInv /\ IInv /\ IInv' /\ LogTruthful /\ LogTruthful'
      /\ now \in Time /\ now' \in Time /\ now \in Nat /\ now' \in Nat
  BY DEF IdleInv, EventsInv, IInv, TypeOK, Time
<1>2. /\ check' = check
      /\ check.verdict = "empty" => now' <= check.asked + CallLimit
      /\ heldAt' = [l \in LeaseId |->
            IF \E g \in Gpu : l \in {holder[g], holder'[g]} THEN now' ELSE heldAt[l]]
  BY DEF Others
<1>3. /\ now <= now'
      /\ \A l \in LeaseId : Fresh(l) \/ Unwritten(l)
      /\ \A g \in Gpu, l \in LeaseId :
           InPlaceAt(l, g)' => InPlaceAt(l, g) \/ Fresh(l) \/ l \in lost'
  BY <1>1, StepReports DEF Others
<1>4. \A l \in LeaseId :
        /\ last[l].ts \in Nat /\ last'[l].ts \in Nat
        /\ l \notin lost => (Holds(l) <=> last[l].event \in {"grant", "renew"})
        /\ l \notin lost' => (Holds(l)' <=> last'[l].event \in {"grant", "renew"})
  BY <1>1 DEF LogTruthful, Holds, Record, Time
<1>5. heldAt' \in [LeaseId -> Time \cup {NotHeld}]
  BY <1>1, <1>2 DEF IdleInv
<1>6. \A l \in LeaseId : last'[l].ts <= now' /\ heldAt'[l] <= now'
  <2>1. \A l \in LeaseId : last'[l].ts <= now'
    BY <1>1, <1>3, <1>4 DEF IdleInv, Fresh, Unwritten
  <2>2. \A l \in LeaseId : heldAt[l] \in Int /\ heldAt[l] <= now
    BY DEF IdleInv, Time, NotHeld
  <2>3. \A l \in LeaseId : heldAt'[l] \in {now', heldAt[l]}
    BY <1>2
  <2> QED
    BY <1>1, <1>3, <2>1, <2>2, <2>3
<1>7. ASSUME NEW l \in LeaseId \ lost', ~Holds(l)'
      PROVE  heldAt'[l] = NotHeld \/ (last'[l].event # "none" /\ heldAt'[l] <= last'[l].ts)
  <2>1. heldAt'[l] = IF Holds(l) THEN now' ELSE heldAt[l]
    BY <1>2, <1>7 DEF Holds
  <2>2. heldAt'[l] <= now'
    BY <1>6
  <2>3. CASE Fresh(l)
    <3>1. now' = now /\ last'[l].ts = now /\ last'[l].event # "none"
      BY <2>3 DEF Fresh
    <3> QED
      BY <1>1, <2>1, <2>2, <3>1
  <2>4. CASE Unwritten(l)
    <3>1. last'[l] = last[l] /\ l \notin lost
      BY <1>7, <2>4 DEF Unwritten
    <3>2. ~Holds(l)
      BY <1>4, <1>7, <3>1
    <3>3. heldAt[l] = NotHeld \/ (last[l].event # "none" /\ heldAt[l] <= last[l].ts)
      BY <3>1, <3>2 DEF IdleInv
    <3> QED
      BY <2>1, <3>1, <3>2, <3>3
  <2> QED
    BY <1>3, <2>3, <2>4
<1>8. ASSUME check'.verdict = "empty"
      PROVE  /\ check'.asked <= now' /\ now' <= check'.asked + CallLimit
             /\ \A g \in check'.scope, l \in LeaseId \ lost' :
                   InPlaceAt(l, g)' => last'[l].ts >= check'.asked
  <2>1. /\ check.asked <= now /\ check.asked \in Nat /\ check.scope \in SUBSET Gpu
        /\ \A g \in check.scope, l \in LeaseId \ lost :
                InPlaceAt(l, g) => last[l].ts >= check.asked
    BY <1>2, <1>8 DEF IdleInv, Check, Time
  <2>2. ASSUME NEW g \in check.scope, NEW l \in LeaseId \ lost', InPlaceAt(l, g)'
        PROVE  last'[l].ts >= check.asked
    <3>1. CASE Fresh(l)
      BY <1>1, <2>1, <3>1 DEF Fresh
    <3>2. CASE ~Fresh(l)
      <4>1. InPlaceAt(l, g) /\ last'[l] = last[l] /\ l \notin lost
        BY <1>3, <2>1, <2>2, <3>2 DEF Unwritten
      <4> QED
        BY <2>1, <4>1
    <3> QED
      BY <3>1, <3>2
  <2>3. check.asked <= now'
    BY <1>1, <1>3, <2>1
  <2> QED
    BY <1>2, <1>8, <2>2, <2>3
<1>9. check' \in Check
  BY <1>2 DEF IdleInv
<1> QED
  BY <1>5, <1>6, <1>7, <1>8, <1>9 DEF IdleInv

(* The queue is empty for the check exactly when nobody is there. *)
LEMMA EmptyMeansNobody ==
    ASSUME IInv, NEW scope \in SUBSET Gpu, QueueIsEmpty(scope)
    PROVE  \A g \in scope, l \in LeaseId : ~InPlaceAt(l, g)
<1> SUFFICES ASSUME NEW g \in scope, NEW l \in LeaseId
             PROVE  ~InPlaceAt(l, g)
  OBVIOUS
<1>1. holder[g] = None /\ Len(queue[g]) = 0
  BY DEF QueueIsEmpty, QueueInfo
<1>2. queue[g] = <<>>
  BY <1>1, QueueFacts, EmptySeq
<1>3. Queued(g) = {}
  BY <1>2, EmptyLine DEF Queued
<1> QED
  BY <1>1, <1>3 DEF InPlaceAt

(* A check that has ended leaves nothing to say of it. *)
LEMMA EndedKeeps ==
    ASSUME IdleInv, NEW v \in {"none", "idle", "unheard"}, check' = Ended(v),
           UNCHANGED <<eventVars, heldAt>>
    PROVE  IdleInv'
<1>1. /\ check'.verdict = v /\ check' \in Check
  BY DEF Ended, Check, Time
<1>2. UNCHANGED <<now, holder, queue, lease, slot, closed, last, lost, heldAt>>
  BY DEF eventVars, vars
<1>3. EventsInv'
  BY <1>2 DEF IdleInv, EventsInv, IInv, TypeOK, OnePlace, SlotsTruthful, NobodyStranded,
              QueueOrdered, Urgency, LogTruthful, Queued
<1> QED
  BY <1>1, <1>2, <1>3 DEF IdleInv, Holds

(* The calls of the check keep its invariant. *)
LEMMA CallsKeep ==
    ASSUME IdleInv, EventsInv',
           \/ \E scope \in Scopes : AskQueue(scope)
           \/ AskHistory
           \/ NoHistory
    PROVE  IdleInv'
<1>1. ASSUME NEW scope \in Scopes, AskQueue(scope)
      PROVE  IdleInv'
  <2>1. CASE check' = Ended("none")
    BY <1>1, <2>1, EndedKeeps DEF AskQueue
  <2>2. CASE /\ QueueIsEmpty(scope)
             /\ check' = [verdict |-> "empty", scope |-> scope, asked |-> now]
    <3>1. scope \in SUBSET Gpu
      BY DEF Scopes
    <3>2. now \in Time /\ now \in Nat /\ IInv
      BY DEF IdleInv, EventsInv, IInv, TypeOK, Time
    <3>3. /\ check' \in Check
          /\ check'.verdict = "empty" /\ check'.scope = scope /\ check'.asked = now
      BY <2>2, <3>1, <3>2 DEF Check
    <3>4. UNCHANGED <<now, holder, queue, last, lost, heldAt>>
      BY <1>1 DEF AskQueue, eventVars, vars
    <3>5. \A g \in scope, l \in LeaseId : ~InPlaceAt(l, g)'
      BY <2>2, <3>1, <3>2, <3>4, EmptyMeansNobody DEF InPlaceAt, Queued
    <3>6. now <= now /\ now <= now + CallLimit
      BY <3>2
    <3> QED
      BY <3>3, <3>4, <3>5, <3>6 DEF IdleInv, Holds
  <2> QED
    BY <1>1, <2>1, <2>2 DEF AskQueue
<1>2. CASE AskHistory
  <2>1. PICK v \in {"idle", "none", "unheard"} : check' = Ended(v)
    BY <1>2 DEF AskHistory
  <2> QED
    BY <1>2, <2>1, EndedKeeps DEF AskHistory
<1>3. CASE NoHistory
  BY <1>3, EndedKeeps DEF NoHistory
<1> QED
  BY <1>1, <1>2, <1>3

(* When the history is read and names nobody, everybody else who is in it   *)
(* has been away from these GPUs since the first second of the window.     *)
LEMMA SilenceIsQuiet ==
    ASSUME IdleInv, check.verdict = "empty", Certain(check.scope) = {}
    PROVE  Quiet(check.scope)
<1>1. /\ IInv /\ LogTruthful /\ now \in Nat
      /\ check.scope \in SUBSET Gpu /\ check.asked \in Nat
      /\ check.asked <= now /\ now <= check.asked + CallLimit
      /\ \A g \in check.scope, l \in LeaseId \ lost :
            InPlaceAt(l, g) => last[l].ts >= check.asked
  BY DEF IdleInv, EventsInv, IInv, TypeOK, Check, Time
<1> SUFFICES ASSUME NEW l \in LeaseId \ (Mine \cup lost), lease[l].gpu \in check.scope
             PROVE  /\ \A g \in Gpu : ~InPlaceAt(l, g)
                    /\ heldAt[l] # NotHeld => heldAt[l] < now - Window + Second
  BY DEF Quiet, InPlaceAt
<1>2. last[l].ts \in Nat /\ heldAt[l] \in Nat \cup {NotHeld}
  BY <1>1 DEF LogTruthful, Record, Time, IdleInv
<1>3. last[l].event # "none" => last[l].ts < now - Window + Second
  BY <1>1, <1>2 DEF Certain, Records
<1>4. ASSUME NEW g \in Gpu, InPlaceAt(l, g)
      PROVE  FALSE
  <2>1. lease[l].gpu = g
    BY <1>1, <1>4, QueueFacts DEF InPlaceAt
  <2>2. last[l].event # "none"
    BY <1>1, <1>4 DEF LogTruthful, InPlaceAt
  <2>3. last[l].ts >= check.asked
    BY <1>1, <1>4, <2>1
  <2> QED
    BY <1>1, <1>2, <1>3, <2>2, <2>3
<1>5. ~Holds(l)
  BY <1>4 DEF Holds, InPlaceAt
<1>6. heldAt[l] = NotHeld \/ (last[l].event # "none" /\ heldAt[l] <= last[l].ts)
  BY <1>5 DEF IdleInv
<1> QED
  BY <1>1, <1>2, <1>3, <1>4, <1>6
-----------------------------------------------------------------------------
(* The invariant of a check among the others' traffic. *)
LEMMA IdleInitInv == IdleInit => IdleInv
<1> SUFFICES ASSUME IdleInit
             PROVE  IdleInv
  OBVIOUS
<1>1. EventsInv
  BY EventsInitInv DEF IdleInit
<1>2. /\ check.verdict = "none" /\ check \in Check
  BY DEF IdleInit, Ended, Check, Time
<1>3. /\ heldAt \in [LeaseId -> Time \cup {NotHeld}]
      /\ \A l \in LeaseId : heldAt[l] = NotHeld
  BY DEF IdleInit
<1>4. \A l \in LeaseId : last[l].ts <= now /\ heldAt[l] <= now
  BY DEF IdleInit, EventsInit, Init, NotHeld
<1> QED
  BY <1>1, <1>2, <1>3, <1>4 DEF IdleInv

(* Every step keeps it. *)
LEMMA IdleNextInv == IdleInv /\ [IdleNext]_idleVars => IdleInv'
<1> SUFFICES ASSUME IdleInv, [IdleNext]_idleVars
             PROVE  IdleInv'
  OBVIOUS
<1>1. EventsInv'
  BY IdleStepsAreSteps, EventsNextInv DEF IdleInv
<1>2. CASE UNCHANGED idleVars
  BY <1>1, <1>2 DEF idleVars, eventVars, vars, IdleInv, Holds, InPlaceAt, Queued
<1> QED
  BY <1>1, <1>2, OthersKeep, CallsKeep DEF IdleNext

(* The invariant behind IdleIsQuiet. *)
THEOREM IdleInvariance == IdleSpec => []IdleInv
BY IdleInitInv, IdleNextInv, PTL DEF IdleSpec

(* is_idle changes nothing on the server. *)
THEOREM AskingIsPassive == IdleSpec => EventsSpec
<1>1. IdleInit => EventsInit
  BY DEF IdleInit
<1> QED
  BY <1>1, IdleStepsAreSteps, PTL DEF IdleSpec, EventsSpec

(* is_idle says True on a history it could read only when, of the GPUs it   *)
(* asked about, nobody else whose latest event was written holds or awaits  *)
(* one, nor held one in the window after its first second.                 *)
THEOREM IdleVerdictHolds == IdleSpec => IdleIsQuiet
<1>1. IdleInv /\ [IdleNext]_idleVars =>
        [check.verdict = "empty" /\ check'.verdict = "idle" => Quiet(check.scope)]_idleVars
  <2> SUFFICES ASSUME IdleInv, IdleNext, check.verdict = "empty", check'.verdict = "idle"
               PROVE  Quiet(check.scope)
    OBVIOUS
  <2>1. ~Others
    BY DEF Others
  <2>2. \A scope \in Scopes : ~AskQueue(scope)
    BY DEF AskQueue
  <2>3. ~NoHistory
    BY DEF NoHistory, Ended
  <2>4. AskHistory
    BY <2>1, <2>2, <2>3 DEF IdleNext
  <2>5. Certain(check.scope) = {}
    BY <2>4 DEF AskHistory, Ended
  <2> QED
    BY <2>5, SilenceIsQuiet
<1> QED
  BY <1>1, IdleInvariance, PTL DEF IdleSpec, IdleIsQuiet

(* Asking leaves the log as truthful as it is. *)
THEOREM LogTruthfulToChecks == IdleSpec => []LogTruthful
BY AskingIsPassive, LogIsTruthful, PTL
=============================================================================
