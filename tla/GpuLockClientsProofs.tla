------------------------ MODULE GpuLockClientsProofs ------------------------
(***************************************************************************)
(* The clients for every number of processes, TTL and delay: heartbeats a  *)
(* third of the TTL apart keep the GPU, so no two processes work on one.   *)
(***************************************************************************)
EXTENDS GpuLockClients, GpuLockServerProofs

USE QueueAssumption, ServerAssumption, ClientAssumption

(* A lease that is touched runs out one TTL from now. *)
LEMMA TouchedExpiry ==
    ASSUME now \in Nat, NEW table \in [LeaseId -> Lease], NEW l \in LeaseId, NEW ttl \in Nat
    PROVE  /\ Touch(table, l, ttl)[l].ttl = ttl
           /\ Touch(table, l, ttl)[l].expires_at = now + ttl
           /\ \A m \in LeaseId : m # l => Touch(table, l, ttl)[m] = table[m]
<1> DEFINE rec == Stamp(table[l], ttl, now + ttl)
<1>1. Touch(table, l, ttl) = [table EXCEPT ![l] = rec]
  BY Zenon DEF Touch, Stamp
<1>2. rec.ttl = ttl /\ rec.expires_at = now + ttl
  <2>1. table[l] \in Lease
    OBVIOUS
  <2> QED
    BY <2>1 DEF Stamp, Lease
<1> HIDE DEF rec
<1> QED
  BY <1>1, <1>2

(* What a method of a queue does to the lease m: its TTL is the one it was  *)
(* minted with, and if it comes to hold its GPU, it does so for that long. *)
Timed(m) ==
    /\ slot[m] # "none" => slot'[m] # "none" /\ lease'[m].ttl = lease[m].ttl
    /\ slot[m] = "none" /\ slot'[m] # "none" => lease'[m].ttl \in Ttl
    /\ slot'[m] = "granted" =>
         \/ slot[m] = "granted" /\ lease'[m] = lease[m]
         \/ lease'[m].expires_at = now + lease'[m].ttl

LEMMA EnqueueTimed ==
    ASSUME IInv, NEW g \in Gpu, NEW l \in LeaseId, NEW prio \in Priority,
           NEW ttl \in Ttl, NEW wait \in WaitTimeout, Enqueue(g, l, prio, ttl, wait)
    PROVE  /\ now' = now /\ \A m \in LeaseId : Timed(m)
           /\ slot[l] = "none"
           /\ \A m \in LeaseId : m # l => slot'[m] = slot[m] /\ lease'[m] = lease[m]
<1>1. /\ GrantsKept(g) /\ slot[l] = "none"
      /\ \A m \in LeaseId : m # l => slot'[m] = slot[m] /\ lease'[m] = lease[m]
      /\ holder[g] # None => slot'[l] = "waiting"
  BY ONLY IInv, Enqueue(g, l, prio, ttl, wait), EnqueueKeeps, QueueAssumption
<1>2. /\ lease'[l].ttl = ttl
      /\ holder[g] = None => lease'[l].expires_at = now + lease'[l].ttl
  <2>1. /\ now \in Nat /\ ttl \in Nat
        /\ Mint(g, l, prio, ttl, wait) \in [LeaseId -> Lease]
    BY QueueFacts, MintFacts DEF IInv
  <2>2. CASE holder[g] = None
    <3>1. lease' = Touch(Mint(g, l, prio, ttl, wait), l, ttl)
      BY <2>2 DEF Enqueue
    <3> QED
      BY <2>1, <3>1, TouchedExpiry
  <2>3. CASE holder[g] # None
    <3>1. lease' = Mint(g, l, prio, ttl, wait) /\ lease \in [LeaseId -> Lease]
      BY <2>3, QueueFacts DEF Enqueue
    <3> QED
      BY <2>3, <3>1 DEF Mint
  <2> QED
    BY <2>2, <2>3
<1>3. \A m \in LeaseId : Timed(m)
  BY <1>1, <1>2 DEF Timed, GrantsKept
<1> QED
  BY <1>1, <1>3 DEF GrantsKept

(* The leases after a promotion at g. *)
LEMMA PromotedTimed ==
    ASSUME IInv, NEW g \in Gpu, NEW m \in LeaseId
    PROVE  /\ Touched(Promoted(g))[m].ttl = lease[m].ttl
           /\ m = Promoted(g) =>
                Touched(Promoted(g))[m].expires_at = now + Touched(Promoted(g))[m].ttl
<1>1. CASE m # Promoted(g)
  BY <1>1, PromotionFacts
<1>2. CASE m = Promoted(g)
  <2>1. /\ now \in Nat /\ lease \in [LeaseId -> Lease] /\ lease[m].ttl \in Nat
    BY QueueFacts DEF Lease
  <2>2. Touched(Promoted(g)) = Touch(lease, m, lease[m].ttl)
    BY <1>2 DEF Touched
  <2> DEFINE ttl == lease[m].ttl
  <2>3. ttl \in Nat
    BY <2>1
  <2> HIDE DEF ttl
  <2>4. Touch(lease, m, ttl)[m].ttl = ttl /\ Touch(lease, m, ttl)[m].expires_at = now + ttl
    BY <2>1, <2>3, TouchedExpiry
  <2> QED
    BY <1>2, <2>2, <2>4 DEF ttl
<1> QED
  BY <1>1, <1>2

LEMMA MethodTimed ==
    ASSUME IInv, NEW g \in Gpu,
           \/ ReleaseHeld(g)
           \/ \E l \in LeaseId : Cancel(g, l)
           \/ ExpireNow(g)
           \/ Shutdown(g)
    PROVE  now' = now /\ \A m \in LeaseId : Timed(m)
<1>0. /\ \A m \in Queued(g) : slot[m] # "none"
      /\ Promoted(g) \in Queued(g) \cup {None}
      /\ Elems(Remaining(g)) \subseteq Queued(g)
      /\ holder[g] # None => slot[holder[g]] = "granted"
  <2>1. \A m \in Queued(g) : slot[m] # "none"
    BY QueueFacts
  <2>2. holder[g] # None => slot[holder[g]] = "granted"
    BY QueueFacts
  <2>3. /\ Promoted(g) \in Queued(g) \cup {None}
        /\ Elems(Remaining(g)) = Queued(g) \ {Promoted(g)}
    BY PromotionFacts
  <2> QED
    BY <2>1, <2>2, <2>3
<1>1. CASE ReleaseHeld(g)
  <2>1. /\ GrantsKept(g) /\ lease' = Touched(Promoted(g))
        /\ slot' = [l \in LeaseId |-> IF l = Promoted(g) THEN "granted" ELSE slot[l]]
    BY <1>1, ReleaseHeldKeeps DEF ReleaseHeld
  <2>2. \A m \in LeaseId : Timed(m)
    BY <1>0, <2>1, PromotedTimed DEF Timed, GrantsKept
  <2> QED
    BY <2>1, <2>2 DEF GrantsKept
<1>2. CASE \E l \in LeaseId : Cancel(g, l)
  <2>1. PICK l \in LeaseId : Cancel(g, l)
    BY <1>2
  <2>2. GrantsKept(g) /\ lease' = lease
    BY <2>1, CancelKeeps DEF Cancel
  <2>3. /\ slot' = [slot EXCEPT ![l] = "cancelled"] /\ slot \in [LeaseId -> SlotState]
        /\ slot[l] # "none"
    BY <1>0, <2>1, QueueFacts DEF Cancel
  <2> QED
    BY <2>2, <2>3 DEF Timed, GrantsKept
<1>3. CASE ExpireNow(g)
  <2> DEFINE next == IF HolderExpired(g) THEN Promoted(g) ELSE holder[g]
             line == IF HolderExpired(g) THEN Remaining(g) ELSE queue[g]
             overdue == Overdue(line)
  <2>1. /\ GrantsKept(g)
        /\ lease' = IF HolderExpired(g) THEN Touched(Promoted(g)) ELSE lease
        /\ slot' = [l \in LeaseId |-> IF l \in overdue THEN "wait_timeout"
                                      ELSE IF l = next THEN "granted" ELSE slot[l]]
    BY <1>3, ExpireNowKeeps DEF ExpireNow
  <2>2. \A m \in overdue : slot[m] # "none"
    BY <1>0 DEF Overdue, Queued
  <2> HIDE DEF overdue
  <2>3. ASSUME NEW m \in LeaseId
        PROVE  Timed(m)
    <3>1. lease'[m].ttl = lease[m].ttl
      BY <2>1, PromotedTimed
    <3>2. ASSUME slot'[m] = "granted", slot[m] # "granted"
          PROVE  HolderExpired(g) /\ m = Promoted(g)
      BY <1>0, <2>1, <3>2
    <3>3. slot[m] = "none" => slot'[m] = "none"
      BY <1>0, <2>1, <2>2
    <3>4. ASSUME slot'[m] = "granted", slot[m] # "granted"
          PROVE  lease'[m].expires_at = now + lease'[m].ttl
      BY <2>1, <3>2, <3>4, PromotedTimed
    <3>5. /\ slot[m] = "granted" => lease'[m] = lease[m]
          /\ slot[m] # "none" => slot'[m] # "none"
      BY <2>1 DEF GrantsKept
    <3> QED
      BY <3>1, <3>3, <3>4, <3>5 DEF Timed
  <2> QED
    BY <2>1, <2>3 DEF GrantsKept
<1>4. CASE Shutdown(g)
  <2>1. /\ now' = now /\ lease' = lease
        /\ slot' = [l \in LeaseId |-> IF l \in Queued(g) THEN "shutdown" ELSE slot[l]]
    BY <1>4 DEF Shutdown
  <2> QED
    BY <1>0, <2>1 DEF Timed
<1> QED
  BY <1>1, <1>2, <1>3, <1>4

(* A renewal without a TTL of its own. *)
LEMMA RenewTimed ==
    ASSUME IInv, NEW g \in Gpu, Renew(g, None)
    PROVE  /\ now' = now /\ \A m \in LeaseId : Timed(m)
           /\ holder[g] \in LeaseId
           /\ lease'[holder[g]].expires_at = now + lease'[holder[g]].ttl
           /\ \A m \in LeaseId : m # holder[g] => lease'[m] = lease[m]
<1>1. /\ holder[g] \in LeaseId /\ slot' = slot /\ now' = now
      /\ \A m \in LeaseId : m # holder[g] => lease'[m] = lease[m]
  BY RenewKeeps
<1>2. lease' = Touch(lease, holder[g], lease[holder[g]].ttl)
  BY DEF Renew
<1>3. now \in Nat /\ lease \in [LeaseId -> Lease] /\ lease[holder[g]].ttl \in Nat
  BY <1>1, QueueFacts DEF Lease
<1>4. /\ lease'[holder[g]].ttl = lease[holder[g]].ttl
      /\ lease'[holder[g]].expires_at = now + lease'[holder[g]].ttl
  BY <1>1, <1>2, <1>3, TouchedExpiry
<1> QED
  BY <1>1, <1>4 DEF Timed
-----------------------------------------------------------------------------
(* The leases in the file have the TTL they have in memory. *)
FileTtl ==
    file # None => \A m \in LeaseId :
        file.lease[m] # Blank => slot[m] # "none" /\ file.lease[m].ttl = lease[m].ttl

(* A handler that is to tell its client of a grant does so at once. *)
Fresh(m) ==
    request[m] = "waiting" /\ slot[m] = "granted" =>
        lease[m].expires_at = now + lease[m].ttl

(* What a step of the server means for the client of m: it may be told of a *)
(* whole TTL from this moment, and nothing that it was told is taken back. *)
Effect(m) ==
    /\ now' = now
    /\ slot[m] # "none" => slot'[m] # "none" /\ lease'[m].ttl = lease[m].ttl
    /\ slot[m] = "none" /\ slot'[m] # "none" => lease'[m].ttl \in Ttl
    /\ Fresh(m)'
    /\ request[m] = "granted" => request'[m] = "granted"
    /\ request'[m] = "granted" =>
         \/ request[m] = "granted" /\ told'[m] = told[m]
         \/ told'[m] = now + lease'[m].ttl

LEMMA SnapshotTtl ==
    IInv => \A m \in LeaseId : Snapshot.lease[m] # Blank =>
                slot[m] # "none" /\ Snapshot.lease[m].ttl = lease[m].ttl
BY DEF Snapshot, SavedLeases, InPlace, IInv, SlotsTruthful

(* A write, or none, leaves the TTLs of the file in agreement with memory. *)
LEMMA FileTtlKeeps ==
    ASSUME FileTtl, IInv, IInv',
           \A m \in LeaseId : slot[m] # "none" => slot'[m] # "none" /\ lease'[m].ttl = lease[m].ttl,
           file' \in {file, Snapshot, Snapshot'}
    PROVE  FileTtl'
<1>1. (IInv => \A m \in LeaseId : Snapshot.lease[m] # Blank =>
                slot[m] # "none" /\ Snapshot.lease[m].ttl = lease[m].ttl)'
  BY SnapshotTtl, PTL
<1>2. CASE file' = file
  BY <1>2 DEF FileTtl
<1>3. CASE file' = Snapshot
  BY <1>3, SnapshotTtl DEF FileTtl
<1>4. CASE file' = Snapshot'
  BY <1>1, <1>4 DEF FileTtl
<1> QED
  BY <1>2, <1>3, <1>4

(* A method of a queue, seen by a client it answers nothing. *)
LEMMA TimedEffect ==
    ASSUME NEW m \in LeaseId, Fresh(m), Timed(m), now' = now, told'[m] = told[m],
           \/ request'[m] = request[m]
           \/ request[m] # "granted" /\ request'[m] \notin {"waiting", "granted"}
    PROVE  Effect(m)
BY DEF Fresh, Timed, Effect

(* What the server does of its own accord, the passing of time excepted. *)
Alone ==
    \/ \E l \in LeaseId : HandlerResume(l) \/ HandlerTimeout(l)
    \/ \E g \in Gpu : Expire(g) \/ CloseQueue(g)
    \/ Sigterm
    \/ Exit
    \/ Crash
    \/ Restart

LEMMA ResumeEffect ==
    ASSUME SInv, NEW l \in LeaseId, HandlerResume(l), \A m \in LeaseId : Fresh(m)
    PROVE  \A m \in LeaseId : Effect(m)
<1>1. /\ request[l] = "waiting" /\ request \in [LeaseId -> RequestState]
      /\ request' = [request EXCEPT ![l] = AnswerTo(slot[l])]
      /\ told' = IF slot[l] = "granted" THEN [told EXCEPT ![l] = lease[l].expires_at] ELSE told
      /\ told \in [LeaseId -> Nat]
      /\ now' = now /\ lease' = lease /\ slot' = slot
  BY DEF HandlerResume, SInv
<1>2. ASSUME NEW m \in LeaseId, m # l
      PROVE  Effect(m)
  <2>1. request'[m] = request[m] /\ told'[m] = told[m] /\ Timed(m)
    BY <1>1, <1>2 DEF Timed
  <2> QED
    BY <1>1, <2>1, TimedEffect
<1>3. Effect(l)
  <2>1. request'[l] = AnswerTo(slot[l]) /\ AnswerTo(slot[l]) # "waiting"
    BY <1>1 DEF AnswerTo
  <2>2. AnswerTo(slot[l]) = "granted" => slot[l] = "granted"
    BY DEF AnswerTo
  <2>3. slot[l] = "granted" => told'[l] = now + lease[l].ttl
    BY <1>1 DEF Fresh
  <2> QED
    BY <1>1, <2>1, <2>2, <2>3 DEF Effect, Fresh
<1> QED
  BY <1>2, <1>3

LEMMA AloneEffect ==
    ASSUME WordAssumption, SInv, SInv', FileTtl, \A m \in LeaseId : Fresh(m), Alone
    PROVE  FileTtl' /\ \A m \in LeaseId : Effect(m)
<1>1. IInv /\ IInv' /\ request \in [LeaseId -> RequestState]
  BY DEF SInv
<1>2. SUFFICES (\A m \in LeaseId : Effect(m)) /\ file' \in {file, Snapshot, Snapshot'}
  <2>1. ASSUME \A m \in LeaseId : Effect(m), file' \in {file, Snapshot, Snapshot'}
        PROVE  FileTtl'
    BY <1>1, <2>1, FileTtlKeeps DEF Effect
  <2> QED
    BY <2>1
<1>3. ASSUME NEW l \in LeaseId, HandlerResume(l)
      PROVE  (\A m \in LeaseId : Effect(m)) /\ file' = file
  BY <1>3, ResumeEffect DEF HandlerResume
<1>4. ASSUME NEW l \in LeaseId, HandlerTimeout(l)
      PROVE  (\A m \in LeaseId : Effect(m)) /\ file' \in {file, Snapshot'}
  <2>1. /\ ReleaseLease(l) /\ told' = told /\ request[l] = "waiting"
        /\ request' = [request EXCEPT ![l] = "timeout"]
    BY <1>4 DEF HandlerTimeout
  <2>2. now' = now /\ (\A m \in LeaseId : Timed(m)) /\ file' \in {file, Snapshot'}
    <3>1. ASSUME NEW g \in Gpu, ReleaseHeld(g) \/ Cancel(g, l), Flush
          PROVE  now' = now /\ (\A m \in LeaseId : Timed(m)) /\ file' \in {file, Snapshot'}
      BY <1>1, <3>1, MethodTimed DEF Flush, WriteFile
    <3>2. CASE UNCHANGED <<now, holder, queue, lease, slot, closed, file>>
      BY <3>2 DEF Timed
    <3> QED
      BY <2>1, <3>1, <3>2 DEF ReleaseLease
  <2>3. \A m \in LeaseId : request'[m] = IF m = l THEN "timeout" ELSE request[m]
    BY <1>1, <2>1
  <2> QED
    BY <2>1, <2>2, <2>3, TimedEffect
<1>5. ASSUME NEW g \in Gpu, Expire(g) \/ CloseQueue(g)
      PROVE  (\A m \in LeaseId : Effect(m)) /\ file' \in {file, Snapshot'}
  <2>1. now' = now /\ \A m \in LeaseId : Timed(m)
    BY <1>1, <1>5, MethodTimed DEF Expire, CloseQueue
  <2>2. request' = request /\ told' = told /\ file' \in {file, Snapshot'}
    BY <1>5 DEF Expire, CloseQueue, Flush, WriteFile
  <2> QED
    BY <2>1, <2>2, TimedEffect
<1>6. CASE Sigterm
  <2>1. \A m \in LeaseId : Timed(m)
    BY <1>6 DEF Sigterm, Timed
  <2> QED
    BY <1>6, <2>1, TimedEffect DEF Sigterm
<1>7. CASE Exit \/ Crash
  <2>1. LoseMemory /\ file' \in {file, Snapshot}
    BY <1>7 DEF Exit, Crash, FinalWrite, WriteFile
  <2>2. ASSUME NEW m \in LeaseId
        PROVE  Effect(m)
    <3>1. /\ now' = now /\ lease' = lease /\ told' = told
          /\ slot'[m] = IF slot[m] = "none" THEN "none" ELSE "gone"
          /\ request'[m] = IF request[m] = "waiting" THEN "lost" ELSE request[m]
      BY <2>1 DEF LoseMemory
    <3> QED
      BY <3>1 DEF Effect, Fresh
  <2> QED
    BY <2>1, <2>2
<1>8. CASE Restart
  <2>1. /\ ~Up /\ now' = now /\ request' = request /\ told' = told /\ file' = file
        /\ \/ file # None /\ Restore(file)
           \/ file = None /\ UNCHANGED <<lease, slot>>
    BY <1>8 DEF Restart, LoadFile, WordAssumption
  <2>2. ASSUME NEW m \in LeaseId
        PROVE  Effect(m)
    <3>1. request'[m] # "waiting"
      BY <2>1 DEF SInv, NothingInMemory
    <3>2. slot[m] # "none" => slot'[m] # "none" /\ lease'[m].ttl = lease[m].ttl
      BY <2>1 DEF Restore, RestoredLeases, FileTtl
    <3>3. slot[m] = "none" => slot'[m] = "none"
      <4>1. file # None => \A g \in Gpu :
                /\ \A l \in Elems(file.queue[g]) : l \in Minted
                /\ file.holder[g] # None => file.holder[g] \in Minted
        BY DEF SInv, Restorable
      <4> QED
        BY <2>1, <4>1 DEF Restore, Minted
    <3> QED
      BY <2>1, <3>1, <3>2, <3>3 DEF Effect, Fresh
  <2> QED
    BY <2>1, <2>2
<1> QED
  BY <1>3, <1>4, <1>5, <1>6, <1>7, <1>8 DEF Alone, Sigterm

(* A request: the answer, if it is a grant, names a whole TTL. *)
LEMMA AcquireEffect ==
    ASSUME SInv, SInv', FileTtl, \A m \in LeaseId : Fresh(m),
           NEW l \in LeaseId, NEW want \in Wanted, NEW prio \in Priority,
           NEW ttl \in Ttl, NEW wait \in WaitTimeout, Acquire(l, want, prio, ttl, wait)
    PROVE  FileTtl' /\ \A m \in LeaseId : Effect(m)
<1> DEFINE g == ResolveGpu(want)
<1>1. g \in Gpu
  BY ResolvedIsGpu DEF SInv, IInv
<1>2. /\ Enqueue(g, l, prio, ttl, wait) /\ Flush
      /\ IF slot'[l] = "granted"
         THEN /\ request' = [request EXCEPT ![l] = "granted"]
              /\ told' = [told EXCEPT ![l] = lease'[l].expires_at]
         ELSE /\ request' = [request EXCEPT ![l] = "waiting"]
              /\ told' = told
  BY DEF Acquire
<1>3. IInv /\ IInv' /\ request \in [LeaseId -> RequestState] /\ told \in [LeaseId -> Nat]
  BY DEF SInv
<1> HIDE DEF g
<1>4. /\ now' = now /\ \A m \in LeaseId : Timed(m)
      /\ slot[l] = "none"
      /\ \A m \in LeaseId : m # l => slot'[m] = slot[m] /\ lease'[m] = lease[m]
  BY <1>1, <1>2, <1>3, EnqueueTimed
<1>5. ASSUME NEW m \in LeaseId, m # l
      PROVE  Effect(m)
  <2>1. request'[m] = request[m] /\ told'[m] = told[m]
    BY <1>2, <1>3, <1>5
  <2> QED
    BY <1>4, <2>1, TimedEffect
<1>6. Effect(l)
  <2>1. request[l] = "none"
    BY <1>4 DEF SInv
  <2>2. CASE slot'[l] = "granted"
    <3>1. request'[l] = "granted" /\ told'[l] = lease'[l].expires_at
      BY <1>2, <1>3, <2>2
    <3> QED
      BY <1>4, <2>1, <2>2, <3>1 DEF Effect, Fresh, Timed
  <2>3. CASE slot'[l] # "granted"
    <3>1. request'[l] = "waiting"
      BY <1>2, <1>3, <2>3
    <3> QED
      BY <1>4, <2>1, <2>3, <3>1 DEF Effect, Fresh, Timed
  <2> QED
    BY <2>2, <2>3
<1>7. file' \in {file, Snapshot'}
  BY <1>2 DEF Flush, WriteFile
<1> QED
  BY <1>3, <1>5, <1>6, <1>7, FileTtlKeeps DEF Effect

(* A renewal: its client is told of a whole TTL. *)
LEMMA RenewEffect ==
    ASSUME WordAssumption, SInv, SInv', FileTtl, \A m \in LeaseId : Fresh(m),
           NEW g \in Gpu, RenewCall(g, None)
    PROVE  /\ FileTtl' /\ \A m \in LeaseId : Effect(m)
           /\ told'[holder[g]] = now + lease'[holder[g]].ttl
<1>1. /\ Renew(g, None) /\ Flush /\ request' = request
      /\ request[holder[g]] = "granted"
      /\ told' = [told EXCEPT ![holder[g]] = lease'[holder[g]].expires_at]
  BY DEF RenewCall, WordAssumption
<1>2. IInv /\ IInv' /\ told \in [LeaseId -> Nat]
  BY DEF SInv
<1>3. /\ now' = now /\ \A m \in LeaseId : Timed(m)
      /\ holder[g] \in LeaseId
      /\ lease'[holder[g]].expires_at = now + lease'[holder[g]].ttl
      /\ \A m \in LeaseId : m # holder[g] => lease'[m] = lease[m]
  BY <1>1, <1>2, RenewTimed
<1>4. told'[holder[g]] = now + lease'[holder[g]].ttl
  BY <1>1, <1>2, <1>3
<1>5. ASSUME NEW m \in LeaseId
      PROVE  Effect(m)
  <2>1. CASE m # holder[g]
    BY <1>1, <1>2, <1>3, <2>1, TimedEffect
  <2>2. CASE m = holder[g]
    BY <1>1, <1>3, <1>4, <2>2 DEF Effect, Fresh, Timed
  <2> QED
    BY <2>1, <2>2
<1>6. file' \in {file, Snapshot'}
  BY <1>1 DEF Flush, WriteFile
<1> QED
  BY <1>2, <1>4, <1>5, <1>6, FileTtlKeeps DEF Effect

(* A release: nobody but its own client is concerned. *)
LEMMA ReleaseEffect ==
    ASSUME WordAssumption, SInv, SInv', FileTtl, \A m \in LeaseId : Fresh(m),
           NEW l \in LeaseId, ReleaseCall(l)
    PROVE  /\ FileTtl' /\ now' = now
           /\ \A m \in LeaseId : m # l => Effect(m)
           /\ Fresh(l)' /\ request'[l] = request[l] /\ lease'[l].ttl = lease[l].ttl
<1>1. /\ ReleaseLease(l) /\ request' = request /\ request[l] = "granted"
      /\ told' = [told EXCEPT ![l] = 0]
  BY DEF ReleaseCall, WordAssumption
<1>2. IInv /\ IInv' /\ told \in [LeaseId -> Nat]
  BY DEF SInv
<1>3. now' = now /\ (\A m \in LeaseId : Timed(m)) /\ file' \in {file, Snapshot'}
  <2>1. ASSUME NEW g \in Gpu, ReleaseHeld(g) \/ Cancel(g, l), Flush
        PROVE  now' = now /\ (\A m \in LeaseId : Timed(m)) /\ file' \in {file, Snapshot'}
    BY <1>2, <2>1, MethodTimed DEF Flush, WriteFile
  <2>2. CASE UNCHANGED <<now, holder, queue, lease, slot, closed, file>>
    BY <2>2 DEF Timed
  <2> QED
    BY <1>1, <2>1, <2>2 DEF ReleaseLease
<1>4. \A m \in LeaseId : m # l => Effect(m)
  BY <1>1, <1>2, <1>3, TimedEffect
<1>5. FileTtl'
  BY <1>2, <1>3, FileTtlKeeps DEF Timed
<1>6. lease'[l].ttl = lease[l].ttl
  BY <1>1, <1>3 DEF SInv, Timed
<1> QED
  BY <1>1, <1>3, <1>4, <1>5, <1>6 DEF Fresh
-----------------------------------------------------------------------------
(* What a step of the system means for the server: one of its own.          *)
LEMMA StepIsServers == [SystemNext]_systemVars => [ServerNext]_serverVars
<1> SUFFICES ASSUME SystemNext
             PROVE  [ServerNext]_serverVars
  BY DEF systemVars
<1>1. CASE ServerStep
  BY <1>1 DEF ServerStep, ServerNext, WaitAll
<1>2. ASSUME NEW l \in LeaseId, NEW want \in Wanted, NEW prio \in Priority,
             NEW ttl \in Ttl, NEW wait \in WaitTimeout, CallAcquire(l, want, prio, ttl, wait)
      PROVE  ServerNext
  BY <1>2 DEF CallAcquire, ServerNext
<1>3. ASSUME NEW l \in LeaseId, HandleBeat(l) \/ LateBeat(l)
      PROVE  [ServerNext]_serverVars
  BY <1>3 DEF HandleBeat, LateBeat, ServerNext
<1>4. ASSUME NEW l \in LeaseId, Release(l)
      PROVE  [ServerNext]_serverVars
  BY <1>4 DEF Release, ServerNext
<1>5. ASSUME NEW l \in LeaseId,
             \/ Granted(l) \/ GoUnlocked(l) \/ SendBeat(l) \/ BeatHeard(l)
             \/ BeatFails(l) \/ Finish(l) \/ Die(l)
      PROVE  UNCHANGED serverVars
  BY <1>5 DEF Granted, GoUnlocked, SendBeat, BeatHeard, BeatFails, Finish, Die
<1> QED
  BY <1>1, <1>2, <1>3, <1>4, <1>5 DEF SystemNext

(* The server of the system is the server of GpuLockServer: whatever was   *)
(* proved of that one, for clients that call as they like, holds of it.    *)
THEOREM ServerWithin == SystemSpec => ServerSpec
<1>1. SystemInit => ServerInit
  BY DEF SystemInit
<1> QED
  BY <1>1, StepIsServers, PTL DEF SystemSpec, ServerSpec

LEMMA MaxMinOfTwo ==
    \A a, b \in Nat : /\ Max({a, b}) = IF a >= b THEN a ELSE b
                      /\ Min({a, b}) = IF a <= b THEN a ELSE b
<1>1. \A a, b \in Nat : Max({a, b}) = IF a >= b THEN a ELSE b
  BY DEF Max
<1>2. \A a, b \in Nat : Min({a, b}) = IF a <= b THEN a ELSE b
  BY DEF Min
<1> QED
  BY <1>1, <1>2

(* The interval of the heartbeat is at most a third of the TTL, unless the  *)
(* floor of 10 s is more than that.                                        *)
LEMMA IntervalFacts ==
    ASSUME NEW ttl \in Nat
    PROVE  /\ Interval(ttl) \in Nat
           /\ 3 * Floor <= ttl => 3 * Interval(ttl) <= ttl
<1> DEFINE third == ttl \div 3
<1>1. third \in Nat /\ 3 * third <= ttl
  OBVIOUS
<1> HIDE DEF third
<1>2. Interval(ttl) = Max({Floor, Min({third, Ceiling})})
  BY DEF Interval, third
<1>3. /\ Min({third, Ceiling}) \in Nat
      /\ Min({third, Ceiling}) <= third
  <2>1. Ceiling \in Nat
    OBVIOUS
  <2>2. Min({third, Ceiling}) = IF third <= Ceiling THEN third ELSE Ceiling
    BY <1>1, <2>1, MaxMinOfTwo
  <2> QED
    BY <1>1, <2>1, <2>2
<1> DEFINE low == Min({third, Ceiling})
<1>4. Max({Floor, low}) = IF Floor >= low THEN Floor ELSE low
  BY <1>3, MaxMinOfTwo
<1> QED
  BY <1>1, <1>2, <1>3, <1>4
-----------------------------------------------------------------------------
(* A grant that was answered is not taken back by another answer. *)
LEMMA GrantedStays ==
    ASSUME SInv, [ServerNext]_serverVars, NEW l \in LeaseId, request[l] = "granted"
    PROVE  request'[l] = "granted"
<1>0. slot[l] # "none" /\ request \in [LeaseId -> RequestState]
  BY DEF SInv
<1>1. CASE UNCHANGED serverVars
  BY <1>1 DEF serverVars
<1>2. ASSUME NEW m \in LeaseId, NEW want \in Wanted, NEW prio \in Priority,
             NEW ttl \in Ttl, NEW wait \in WaitTimeout, Acquire(m, want, prio, ttl, wait)
      PROVE  request'[l] = "granted"
  <2>1. m # l
    BY <1>0, <1>2 DEF Acquire, Enqueue
  <2> QED
    BY <1>0, <1>2, <2>1 DEF Acquire
<1>3. ASSUME NEW m \in LeaseId, HandlerResume(m) \/ HandlerTimeout(m) \/ ReleaseCall(m)
      PROVE  request'[l] = "granted"
  BY <1>0, <1>3 DEF HandlerResume, HandlerTimeout, ReleaseCall
<1>4. ASSUME NEW g \in Gpu,
             \/ \E ttl \in Ttl \cup {None} : RenewCall(g, ttl)
             \/ Expire(g) \/ CloseQueue(g)
      PROVE  request' = request
  BY <1>4 DEF RenewCall, Expire, CloseQueue
<1>5. CASE Sigterm \/ Restart \/ Wait
  BY <1>5 DEF Sigterm, Restart, Wait
<1>6. CASE Exit \/ Crash
  BY <1>0, <1>6 DEF Exit, Crash, LoseMemory
<1> QED
  BY <1>1, <1>2, <1>3, <1>4, <1>5, <1>6 DEF ServerNext

(* One more failure is counted, up to the bound. *)
LEMMA MissedStep ==
    ASSUME NEW n \in 0..MaxMissed
    PROVE  /\ Min({n + 1, MaxMissed}) \in 0..MaxMissed
           /\ Min({n + 1, MaxMissed}) = IF n < MaxMissed THEN n + 1 ELSE MaxMissed
<1>1. n + 1 \in Nat /\ MaxMissed \in Nat
  OBVIOUS
<1>2. Min({n + 1, MaxMissed}) = IF n + 1 <= MaxMissed THEN n + 1 ELSE MaxMissed
  BY <1>1, MaxMinOfTwo
<1> QED
  BY <1>2

(* So does the counter of renewals left behind. *)
LEMMA LateStep ==
    ASSUME NEW l \in LeaseId, late \in [LeaseId -> 0..MaxLate], LeaveBehind(l)
    PROVE  late' \in [LeaseId -> 0..MaxLate]
<1>1. late[l] + 1 \in Nat /\ MaxLate \in Nat
  BY ClientAssumption
<1>2. Min({late[l] + 1, MaxLate}) = IF late[l] + 1 <= MaxLate THEN late[l] + 1 ELSE MaxLate
  BY <1>1, MaxMinOfTwo
<1>3. Min({late[l] + 1, MaxLate}) \in 0..MaxLate
  BY <1>1, <1>2
<1> QED
  BY <1>3 DEF LeaveBehind

(* Every step of the system keeps the clients in states they can be in. *)
LEMMA ClientTypeStep ==
    ASSUME SInv, SInv', ClientTypeOK, [SystemNext]_systemVars
    PROVE  ClientTypeOK'
<1>1. \A l \in LeaseId : request[l] = "granted" => request'[l] = "granted"
  BY StepIsServers, GrantedStays
<1>2. now \in Time /\ 0 \in Time
  BY DEF SInv, IInv, TypeOK, Time
<1>3. CASE UNCHANGED clientVars
  BY <1>1, <1>3 DEF ClientTypeOK, clientVars
<1> SUFFICES ASSUME NEW l \in LeaseId,
                    \/ \E want \in Wanted, prio \in Priority, ttl \in Ttl, wait \in WaitTimeout :
                          CallAcquire(l, want, prio, ttl, wait)
                    \/ Granted(l) \/ GoUnlocked(l)
                    \/ SendBeat(l) \/ HandleBeat(l) \/ BeatHeard(l)
                    \/ BeatFails(l) \/ LateBeat(l)
                    \/ Finish(l) \/ Release(l) \/ Die(l)
             PROVE  ClientTypeOK'
  BY <1>3 DEF SystemNext, systemVars, clientVars
<1>4. CASE \E want \in Wanted, prio \in Priority, ttl \in Ttl, wait \in WaitTimeout :
             CallAcquire(l, want, prio, ttl, wait)
  BY <1>1, <1>4 DEF CallAcquire, ClientTypeOK, ClientState
<1>5. CASE Granted(l) \/ GoUnlocked(l)
  BY <1>1, <1>2, <1>5 DEF Granted, GoUnlocked, Beat, ClientTypeOK, ClientState, BeatState
<1>6. CASE SendBeat(l) \/ HandleBeat(l)
  BY <1>1, <1>2, <1>6 DEF SendBeat, HandleBeat, Beat, ClientTypeOK, ClientState, BeatState
<1>7. CASE BeatHeard(l)
  BY <1>1, <1>2, <1>7 DEF BeatHeard, Beat, ClientTypeOK, ClientState, BeatState
<1>8. CASE BeatFails(l)
  <2>1. Min({missed[l] + 1, MaxMissed}) \in 0..MaxMissed
    BY MissedStep DEF ClientTypeOK
  <2>2. late' \in [LeaseId -> 0..MaxLate]
    BY <1>8, LateStep DEF BeatFails, ClientTypeOK
  <2> QED
    BY <1>1, <1>2, <1>8, <2>1, <2>2 DEF BeatFails, Beat, ClientTypeOK, ClientState, BeatState
<1>9. CASE LateBeat(l)
  <2>1. late[l] \in 0..MaxLate /\ late[l] > 0
    BY <1>9 DEF LateBeat, ClientTypeOK
  <2>2. late[l] - 1 \in 0..MaxLate
    BY <2>1
  <2> QED
    BY <1>1, <1>9, <2>2 DEF LateBeat, ClientTypeOK
<1>10. CASE Finish(l) \/ Die(l)
  <2>1. /\ \E s \in ClientState : client' = [client EXCEPT ![l] = s]
        /\ Beat(l, "none")
        /\ missed' = [missed EXCEPT ![l] = 0]
        /\ LeaveBehind(l)
    BY <1>10 DEF Finish, Die, ClientState
  <2>2. /\ client' \in [LeaseId -> ClientState]
        /\ missed' \in [LeaseId -> 0..MaxMissed]
        /\ late' \in [LeaseId -> 0..MaxLate]
    BY <2>1, LateStep DEF ClientTypeOK
  <2>3. /\ beat' \in [LeaseId -> BeatState] /\ beat'[l] = "none"
        /\ since' \in [LeaseId -> Time]
        /\ \A m \in LeaseId : m # l => beat'[m] = beat[m] /\ client'[m] = client[m]
    BY <1>2, <2>1 DEF Beat, ClientTypeOK, BeatState
  <2> QED
    BY <1>1, <2>2, <2>3 DEF ClientTypeOK
<1>11. CASE Release(l)
  BY <1>1, <1>11 DEF Release, ClientTypeOK, ClientState
<1> QED
  BY <1>4, <1>5, <1>6, <1>7, <1>8, <1>9, <1>10, <1>11

(* In every reachable state a heartbeat beats only while its client works,  *)
(* under a lease it was granted, however calls are lost and clients die.    *)
THEOREM ClientTypeCorrect == SystemSpec => []ClientTypeOK
<1>1. SystemInit => ClientTypeOK
  BY DEF SystemInit, ClientTypeOK, ClientState, BeatState, Time
<1>2. SystemSpec => []SInv
  BY ServerWithin, ServerInvariance, PTL
<1> QED
  BY <1>1, <1>2, ClientTypeStep, PTL DEF SystemSpec
-----------------------------------------------------------------------------
(* The server keeps its word, clients and handlers act when their time has  *)
(* come, and no TTL is so short that the floor of the interval exceeds a    *)
(* third of it.  MaxMissed, the bound of the counter, lies beyond the two   *)
(* failures that can be borne.                                             *)
PaceAssumption ==
    /\ WordAssumption
    /\ PromptClients
    /\ MaxMissed >= 2
    /\ \A ttl \in Ttl : 3 * Floor <= ttl

(* The heartbeat interval of l, and how much of it lies behind its beat. *)
Step(l) == Interval(lease[l].ttl)
Slept(l) == IF beat[l] = "asleep" THEN 0 ELSE Step(l)

(* How old the last answer can be that the client of l was given: one answer *)
(* under way, one interval, and an interval and an answer for each failure. *)
Paced(l) ==
    /\ Fresh(l)
    /\ slot[l] # "none" => lease[l].ttl \in Ttl
    /\ since[l] <= now
    /\ client[l] = "working" => request[l] = "granted" /\ beat[l] # "none"
    /\ client[l] = "calling" /\ request[l] = "granted" =>
         now + lease[l].ttl <= told[l] + HttpDelay
    /\ beat[l] = "asleep" => now <= since[l] + Step(l)
    /\ beat[l] \in {"sent", "renewed"} => now <= since[l] + HttpDelay
    /\ beat[l] = "renewed" => since[l] + lease[l].ttl <= told[l]
    /\ client[l] = "working" /\ missed[l] = 0 =>
         since[l] + lease[l].ttl <= told[l] + HttpDelay + Slept(l)
    /\ client[l] = "working" /\ missed[l] = 1 =>
         since[l] + lease[l].ttl <= told[l] + 2 * HttpDelay + Step(l) + Slept(l)

(* The invariant behind HeartbeatsSuffice. *)
PaceInv == FileTtl /\ \A l \in LeaseId : Paced(l)

(* The numbers the clocks of a client are made of. *)
LEMMA PaceNumbers ==
    ASSUME SInv, ClientTypeOK, NEW l \in LeaseId
    PROVE  /\ now \in Nat /\ told[l] \in Nat /\ since[l] \in Nat /\ missed[l] \in Nat
           /\ lease[l].ttl \in Nat /\ Step(l) \in Nat /\ Slept(l) \in Nat
           /\ HttpDelay \in Nat
           /\ request[l] = "granted" => slot[l] # "none"
<1>1. lease[l] \in Lease /\ now \in Nat /\ told[l] \in Nat
  BY DEF SInv, IInv, TypeOK, Time
<1>2. lease[l].ttl \in Nat
  BY <1>1 DEF Lease
<1>3. since[l] \in Nat /\ missed[l] \in Nat
  BY DEF ClientTypeOK, Time
<1>4. Step(l) \in Nat /\ Slept(l) \in Nat
  BY <1>2, IntervalFacts DEF Step, Slept
<1> QED
  BY <1>1, <1>2, <1>3, <1>4 DEF SInv

(* A client that does nothing itself in a step of the server. *)
LEMMA BystanderPaced ==
    ASSUME SInv, SInv', ClientTypeOK, ClientTypeOK', NEW m \in LeaseId, Paced(m), Effect(m),
           client'[m] = client[m], beat'[m] = beat[m],
           since'[m] = since[m], missed'[m] = missed[m]
    PROVE  Paced(m)'
<1>1. /\ now \in Nat /\ told[m] \in Nat /\ told'[m] \in Nat /\ since[m] \in Nat
      /\ lease[m].ttl \in Nat /\ lease'[m].ttl \in Nat
      /\ Step(m) \in Nat /\ Slept(m) \in Nat /\ HttpDelay \in Nat
      /\ request[m] = "granted" => slot[m] # "none"
  BY PaceNumbers DEF SInv, IInv, TypeOK, Lease
<1>2. /\ now' = now /\ Fresh(m)'
      /\ slot[m] # "none" => slot'[m] # "none" /\ lease'[m].ttl = lease[m].ttl
      /\ slot[m] = "none" /\ slot'[m] # "none" => lease'[m].ttl \in Ttl
      /\ request[m] = "granted" => request'[m] = "granted"
      /\ request'[m] = "granted" =>
           \/ request[m] = "granted" /\ told'[m] = told[m]
           \/ told'[m] = now + lease'[m].ttl
  BY DEF Effect
<1>3. CASE beat[m] # "none" \/ client[m] = "working"
  <2>1. request[m] = "granted" /\ client[m] = "working" /\ slot[m] # "none"
    BY <1>1, <1>3 DEF ClientTypeOK, Paced
  <2>2. lease'[m].ttl = lease[m].ttl /\ Step(m)' = Step(m) /\ Slept(m)' = Slept(m)
    BY <1>2, <2>1 DEF Step, Slept
  <2>3. told'[m] = told[m] \/ told'[m] = now + lease[m].ttl
    BY <1>2, <2>1, <2>2
  <2> QED
    BY <1>1, <1>2, <2>1, <2>2, <2>3 DEF Paced
<1>4. CASE beat[m] = "none" /\ client[m] # "working"
  BY <1>1, <1>2, <1>4 DEF Paced
<1> QED
  BY <1>3, <1>4

(* A client that is not at work when the step is over. *)
LEMMA IdlePaced ==
    ASSUME SInv, SInv', ClientTypeOK, ClientTypeOK', NEW m \in LeaseId, Paced(m), Effect(m),
           client'[m] # "working", beat'[m] = "none",
           client'[m] = "calling" => client[m] = "calling" \/ request[m] # "granted"
    PROVE  since'[m] <= now' => Paced(m)'
<1>1. /\ now \in Nat /\ told[m] \in Nat /\ told'[m] \in Nat
      /\ lease[m].ttl \in Nat /\ lease'[m].ttl \in Nat /\ HttpDelay \in Nat
      /\ request[m] = "granted" => slot[m] # "none"
  BY PaceNumbers DEF SInv, IInv, TypeOK, Lease
<1>2. /\ now' = now /\ Fresh(m)'
      /\ slot[m] # "none" => slot'[m] # "none" /\ lease'[m].ttl = lease[m].ttl
      /\ slot[m] = "none" /\ slot'[m] # "none" => lease'[m].ttl \in Ttl
      /\ request'[m] = "granted" =>
           \/ request[m] = "granted" /\ told'[m] = told[m]
           \/ told'[m] = now + lease'[m].ttl
  BY DEF Effect
<1> QED
  BY <1>1, <1>2 DEF Paced

(* A step of a client alone leaves the server as it is. *)
LEMMA StutterEffect ==
    ASSUME FileTtl, \A m \in LeaseId : Fresh(m), UNCHANGED serverVars
    PROVE  FileTtl' /\ \A m \in LeaseId : Effect(m)
BY DEF FileTtl, Fresh, Effect, serverVars
-----------------------------------------------------------------------------
(* What each step of the client l does to its own pace. *)
LEMMA GrantedPaced ==
    ASSUME SInv, SInv', ClientTypeOK, ClientTypeOK', PaceInv, NEW l \in LeaseId, Granted(l)
    PROVE  Paced(l)'
<1>1. /\ now \in Nat /\ told[l] \in Nat /\ lease[l].ttl \in Nat /\ Step(l) \in Nat
      /\ HttpDelay \in Nat
  BY PaceNumbers
<1>2. /\ request'[l] = request[l] /\ told' = told /\ now' = now /\ slot' = slot
      /\ lease' = lease /\ Fresh(l)' = Fresh(l) /\ Step(l)' = Step(l)
      /\ client[l] = "calling" /\ request[l] = "granted"
      /\ beat'[l] = "asleep" /\ since'[l] = now /\ missed' = missed
  BY DEF Granted, Beat, serverVars, ClientTypeOK, Fresh, Step
<1>3. Slept(l)' = 0
  BY <1>2 DEF Slept
<1> QED
  BY <1>1, <1>2, <1>3 DEF PaceInv, Paced

LEMMA SendBeatPaced ==
    ASSUME SInv, SInv', ClientTypeOK, ClientTypeOK', PaceInv, NEW l \in LeaseId, SendBeat(l)
    PROVE  Paced(l)'
<1>1. /\ now \in Nat /\ told[l] \in Nat /\ since[l] \in Nat
      /\ lease[l].ttl \in Nat /\ Step(l) \in Nat /\ HttpDelay \in Nat
  BY PaceNumbers
<1>2. /\ request'[l] = request[l] /\ told' = told /\ now' = now /\ slot' = slot
      /\ lease' = lease /\ Fresh(l)' = Fresh(l) /\ Step(l)' = Step(l)
      /\ client' = client /\ beat[l] = "asleep" /\ now >= since[l] + Step(l)
      /\ beat'[l] = "sent" /\ since'[l] = now /\ missed' = missed
  BY DEF SendBeat, Beat, serverVars, ClientTypeOK, Fresh, Step
<1>3. /\ Slept(l) = 0 /\ Slept(l)' = Step(l)
      /\ client[l] = "working" /\ request[l] = "granted"
  BY <1>2 DEF Slept, ClientTypeOK
<1> QED
  BY <1>1, <1>2, <1>3 DEF PaceInv, Paced

LEMMA HandleBeatPaced ==
    ASSUME WordAssumption, SInv, SInv', ClientTypeOK, ClientTypeOK', PaceInv,
           NEW l \in LeaseId, HandleBeat(l)
    PROVE  FileTtl' /\ (\A m \in LeaseId : Effect(m)) /\ Paced(l)'
<1>1. PICK g \in Gpu : holder[g] = l /\ RenewCall(g, None)
  BY DEF HandleBeat
<1>2. FileTtl' /\ (\A m \in LeaseId : Effect(m)) /\ told'[l] = now + lease'[l].ttl
  BY <1>1, RenewEffect DEF PaceInv, Paced
<1>3. /\ now \in Nat /\ since[l] \in Nat /\ lease[l].ttl \in Nat
      /\ Step(l) \in Nat /\ HttpDelay \in Nat
      /\ request[l] = "granted" => slot[l] # "none"
  BY PaceNumbers
<1>4. /\ beat[l] = "sent" /\ beat'[l] = "renewed"
      /\ since' = since /\ client' = client /\ missed' = missed
      /\ client[l] = "working" /\ request[l] = "granted"
  BY DEF HandleBeat, ClientTypeOK
<1>5. /\ now' = now /\ Fresh(l)' /\ request'[l] = "granted"
      /\ slot'[l] # "none" /\ lease'[l].ttl = lease[l].ttl
  BY <1>2, <1>3, <1>4 DEF Effect
<1>6. Step(l)' = Step(l) /\ Slept(l)' = Step(l)
  BY <1>4, <1>5 DEF Step, Slept
<1> QED
  BY <1>2, <1>3, <1>4, <1>5, <1>6 DEF PaceInv, Paced

LEMMA BeatHeardPaced ==
    ASSUME SInv, SInv', ClientTypeOK, ClientTypeOK', PaceInv, NEW l \in LeaseId, BeatHeard(l)
    PROVE  Paced(l)'
<1>1. /\ now \in Nat /\ told[l] \in Nat /\ since[l] \in Nat
      /\ lease[l].ttl \in Nat /\ Step(l) \in Nat /\ HttpDelay \in Nat
  BY PaceNumbers
<1>2. /\ request'[l] = request[l] /\ told' = told /\ now' = now /\ slot' = slot
      /\ lease' = lease /\ Fresh(l)' = Fresh(l) /\ Step(l)' = Step(l)
      /\ client' = client /\ beat[l] = "renewed"
      /\ beat'[l] = "asleep" /\ since'[l] = now /\ missed'[l] = 0
  BY DEF BeatHeard, Beat, serverVars, ClientTypeOK, Fresh, Step
<1>3. Slept(l)' = 0 /\ client[l] = "working" /\ request[l] = "granted"
  BY <1>2 DEF Slept, ClientTypeOK
<1> QED
  BY <1>1, <1>2, <1>3 DEF PaceInv, Paced

(* A failure costs one interval and one answer under way. *)
LEMMA BeatFailsPaced ==
    ASSUME PaceAssumption, SInv, SInv', ClientTypeOK, ClientTypeOK', PaceInv,
           NEW l \in LeaseId, BeatFails(l)
    PROVE  Paced(l)'
<1>1. /\ now \in Nat /\ told[l] \in Nat /\ since[l] \in Nat /\ missed[l] \in 0..MaxMissed
      /\ lease[l].ttl \in Nat /\ Step(l) \in Nat /\ HttpDelay \in Nat
  BY PaceNumbers DEF ClientTypeOK
<1>2. /\ request'[l] = request[l] /\ told' = told /\ now' = now /\ slot' = slot
      /\ lease' = lease /\ Fresh(l)' = Fresh(l) /\ Step(l)' = Step(l)
      /\ client' = client /\ beat[l] \in {"sent", "renewed"}
      /\ beat'[l] = "asleep" /\ since'[l] = now
      /\ missed'[l] = Min({missed[l] + 1, MaxMissed})
  BY DEF BeatFails, Beat, serverVars, ClientTypeOK, Fresh, Step
<1>3. /\ Slept(l) = Step(l) /\ Slept(l)' = 0
      /\ client[l] = "working" /\ request[l] = "granted"
  BY <1>2 DEF Slept, ClientTypeOK
<1>4. missed'[l] # 0 /\ (missed'[l] = 1 => missed[l] = 0)
  BY <1>1, <1>2, MissedStep DEF PaceAssumption
<1> QED
  BY <1>1, <1>2, <1>3, <1>4 DEF PaceInv, Paced

(* Time passes: nothing that is due waits any longer. *)
LEMMA WaitAllPaced ==
    ASSUME PaceAssumption, SInv, SInv', ClientTypeOK, ClientTypeOK', PaceInv,
           WaitAll, UNCHANGED clientVars, NEW l \in LeaseId
    PROVE  Paced(l)'
<1>1. /\ now \in Nat /\ told[l] \in Nat /\ since[l] \in Nat /\ missed[l] \in Nat
      /\ lease[l].ttl \in Nat /\ Step(l) \in Nat /\ Slept(l) \in Nat /\ HttpDelay \in Nat
  BY PaceNumbers
<1>2. OnTime(l) /\ Wait /\ ~ClockSteps
  BY DEF WaitAll, PaceAssumption, WordAssumption
<1>3. /\ now' = now + 1
      /\ UNCHANGED <<holder, queue, lease, slot, closed, phase, request, told, file>>
  BY <1>2 DEF Wait, Tick, ClockStep
<1>4. /\ UNCHANGED <<client, beat, since, missed>>
      /\ Step(l)' = Step(l) /\ Slept(l)' = Slept(l)
  BY <1>3 DEF clientVars, Step, Slept
<1>5. Fresh(l)'
  <2>1. ~(request[l] = "waiting" /\ slot[l] = "granted")
    BY <1>2 DEF OnTime, SInv, NothingInMemory
  <2> QED
    BY <1>3, <2>1 DEF Fresh
<1>6. /\ client[l] = "calling" /\ request[l] = "granted" =>
            now < told[l] - lease[l].ttl + HttpDelay
      /\ beat[l] = "asleep" => now < since[l] + Step(l)
      /\ beat[l] \in {"sent", "renewed"} => now < since[l] + HttpDelay
  BY <1>2 DEF OnTime, Step
<1> QED
  BY <1>1, <1>3, <1>4, <1>5, <1>6 DEF PaceInv, Paced
-----------------------------------------------------------------------------
(* Every step of the system keeps the pace of every client. *)
LEMMA PaceStep ==
    ASSUME PaceAssumption, SInv, SInv', ClientTypeOK, ClientTypeOK', PaceInv,
           [SystemNext]_systemVars
    PROVE  PaceInv'
<1>0. WordAssumption /\ FileTtl /\ \A m \in LeaseId : Fresh(m) /\ Paced(m)
  BY DEF PaceAssumption, PaceInv, Paced
<1>1. now \in Nat /\ \A m \in LeaseId : since[m] <= now
  BY <1>0 DEF SInv, IInv, TypeOK, Time, Paced
(* A step in which the clients other than l are bystanders. *)
<1>2. ASSUME NEW l \in LeaseId, FileTtl', Paced(l)', \A m \in LeaseId : m # l => Effect(m),
             \A m \in LeaseId : m # l => /\ client'[m] = client[m] /\ beat'[m] = beat[m]
                                        /\ since'[m] = since[m] /\ missed'[m] = missed[m]
      PROVE  PaceInv'
  BY <1>0, <1>2, BystanderPaced DEF PaceInv
<1>3. ASSUME UNCHANGED clientVars, FileTtl', \A m \in LeaseId : Effect(m)
      PROVE  PaceInv'
  BY <1>0, <1>3, BystanderPaced DEF PaceInv, clientVars
<1>4. CASE UNCHANGED systemVars
  <2>1. FileTtl' /\ \A m \in LeaseId : Effect(m)
    BY <1>0, <1>4, StutterEffect DEF systemVars
  <2> QED
    BY <1>3, <1>4, <2>1 DEF systemVars
<1>5. CASE ServerStep /\ UNCHANGED clientVars
  <2>1. CASE Alone
    BY <1>0, <1>3, <1>5, <2>1, AloneEffect
  <2>2. CASE WaitAll
    <3>1. \A m \in LeaseId : Paced(m)'
      BY <1>5, <2>2, WaitAllPaced
    <3>2. FileTtl'
      BY <1>0, <2>2 DEF WaitAll, Wait, Tick, ClockStep, FileTtl
    <3> QED
      BY <3>1, <3>2 DEF PaceInv
  <2> QED
    BY <1>5, <2>1, <2>2 DEF ServerStep, Alone
<1>6. ASSUME NEW l \in LeaseId, NEW want \in Wanted, NEW prio \in Priority,
             NEW ttl \in Ttl, NEW wait \in WaitTimeout, CallAcquire(l, want, prio, ttl, wait)
      PROVE  PaceInv'
  <2>1. FileTtl' /\ \A m \in LeaseId : Effect(m)
    BY <1>0, <1>6, AcquireEffect DEF CallAcquire
  <2>2. /\ client[l] \in {"idle", "unlocked"} /\ slot[l] = "none"
        /\ client' = [client EXCEPT ![l] = IF @ = "idle" THEN "calling" ELSE @]
        /\ UNCHANGED <<beat, since, missed>>
    BY <1>6 DEF CallAcquire, Acquire, Enqueue
  <2>3. /\ request[l] # "granted" /\ client'[l] # "working" /\ beat'[l] = "none"
        /\ since'[l] <= now'
    BY <1>1, <2>1, <2>2 DEF SInv, ClientTypeOK, Effect
  <2>4. Paced(l)'
    BY <1>0, <2>1, <2>3, IdlePaced
  <2> QED
    BY <1>2, <2>1, <2>2, <2>4 DEF ClientTypeOK
<1>7. ASSUME NEW l \in LeaseId,
             Granted(l) \/ SendBeat(l) \/ BeatHeard(l) \/ BeatFails(l)
      PROVE  PaceInv'
  <2>1. FileTtl' /\ \A m \in LeaseId : Effect(m)
    <3>1. UNCHANGED serverVars
      BY <1>7 DEF Granted, SendBeat, BeatHeard, BeatFails
    <3> QED
      BY <1>0, <3>1, StutterEffect
  <2>2. \A m \in LeaseId : m # l => /\ client'[m] = client[m] /\ beat'[m] = beat[m]
                                   /\ since'[m] = since[m] /\ missed'[m] = missed[m]
    BY <1>7 DEF Granted, SendBeat, BeatHeard, BeatFails, Beat, ClientTypeOK
  <2>3. Paced(l)'
    BY <1>7, GrantedPaced, SendBeatPaced, BeatHeardPaced, BeatFailsPaced
  <2> QED
    BY <1>2, <2>1, <2>2, <2>3
<1>8. ASSUME NEW l \in LeaseId, HandleBeat(l)
      PROVE  PaceInv'
  <2>1. \A m \in LeaseId : m # l => /\ client'[m] = client[m] /\ beat'[m] = beat[m]
                                   /\ since'[m] = since[m] /\ missed'[m] = missed[m]
    BY <1>8 DEF HandleBeat, ClientTypeOK
  <2> QED
    BY <1>0, <1>2, <1>8, <2>1, HandleBeatPaced
<1>9. ASSUME NEW l \in LeaseId, LateBeat(l)
      PROVE  PaceInv'
  <2>1. FileTtl' /\ \A m \in LeaseId : Effect(m)
    BY <1>0, <1>9, RenewEffect, StutterEffect DEF LateBeat
  <2>2. UNCHANGED <<client, beat, since, missed>>
    BY <1>9 DEF LateBeat
  <2>3. \A m \in LeaseId : Paced(m)'
    BY <1>0, <2>1, <2>2, BystanderPaced
  <2> QED
    BY <2>1, <2>3 DEF PaceInv
<1>10. ASSUME NEW l \in LeaseId, GoUnlocked(l) \/ Finish(l) \/ Die(l)
       PROVE  PaceInv'
  <2>1. FileTtl' /\ \A m \in LeaseId : Effect(m)
    <3>1. UNCHANGED serverVars
      BY <1>10 DEF GoUnlocked, Finish, Die
    <3> QED
      BY <1>0, <3>1, StutterEffect
  <2>2. \A m \in LeaseId : m # l => /\ client'[m] = client[m] /\ beat'[m] = beat[m]
                                   /\ since'[m] = since[m] /\ missed'[m] = missed[m]
    BY <1>10 DEF GoUnlocked, Finish, Die, Beat, ClientTypeOK
  <2>3. client'[l] \notin {"working", "calling"} /\ beat'[l] = "none"
    BY <1>10 DEF GoUnlocked, Finish, Die, Beat, ClientTypeOK
  <2>4. since'[l] <= now'
    <3>1. since'[l] \in {since[l], 0} /\ now' = now
      BY <1>10, <2>1 DEF GoUnlocked, Finish, Die, Beat, ClientTypeOK, Effect
    <3> QED
      BY <1>1, <3>1
  <2>5. Paced(l)'
    BY <1>0, <2>1, <2>3, <2>4, IdlePaced
  <2> QED
    BY <1>2, <2>1, <2>2, <2>5
<1>11. ASSUME NEW l \in LeaseId, Release(l)
       PROVE  PaceInv'
  <2>1. /\ client[l] = "leaving" /\ client' = [client EXCEPT ![l] = "done"]
        /\ UNCHANGED <<beat, since, missed>>
    BY <1>11 DEF Release
  <2>2. client'[l] = "done" /\ beat[l] = "none"
    BY <2>1 DEF ClientTypeOK
  <2>3. CASE UNCHANGED serverVars
    <3>1. FileTtl' /\ \A m \in LeaseId : Effect(m)
      BY <1>0, <2>3, StutterEffect
    <3>2. Paced(l)'
      BY <1>0, <1>1, <2>1, <2>2, <3>1, IdlePaced DEF Effect
    <3> QED
      BY <1>2, <2>1, <3>1, <3>2 DEF ClientTypeOK
  <2>4. CASE ReleaseCall(l)
    <3>1. /\ FileTtl' /\ now' = now
          /\ \A m \in LeaseId : m # l => Effect(m)
          /\ Fresh(l)' /\ request'[l] = request[l] /\ lease'[l].ttl = lease[l].ttl
      BY <1>0, <2>4, ReleaseEffect
    <3>2. slot[l] # "none"
      BY <1>0, <2>4, PaceNumbers DEF ReleaseCall, WordAssumption
    <3>3. Paced(l)'
      BY <1>0, <1>1, <2>1, <2>2, <3>1, <3>2 DEF Paced
    <3> QED
      BY <1>2, <2>1, <3>1, <3>3 DEF ClientTypeOK
  <2> QED
    BY <1>11, <2>3, <2>4 DEF Release
<1> QED
  BY <1>4, <1>5, <1>6, <1>7, <1>8, <1>9, <1>10, <1>11 DEF SystemNext

LEMMA PaceInit == SystemInit => PaceInv
BY DEF SystemInit, ServerInit, Init, PaceInv, Paced, FileTtl, Fresh

(* In every reachable state the last answer of a client at work is as fresh *)
(* as its failures allow.                                                  *)
THEOREM PaceInvariance ==
    ASSUME PaceAssumption
    PROVE  SystemSpec => []PaceInv
<1>1. SystemSpec => []SInv
  BY ServerWithin, ServerInvariance, PTL
<1> QED
  BY <1>1, PaceInit, PaceStep, ClientTypeCorrect, PTL DEF SystemSpec

(* With two failures at most in a row, and answers that are not too slow,   *)
(* the client was told of a time that is still to come.                    *)
LEMMA InTimeRelies ==
    ASSUME PaceAssumption, SInv, ClientTypeOK, PaceInv,
           NEW l \in LeaseId, client[l] = "working", BeatsInTime(l)
    PROVE  Relies(l)
<1> DEFINE ttl == lease[l].ttl
<1>1. /\ now \in Nat /\ told[l] \in Nat /\ since[l] \in Nat /\ missed[l] \in Nat
      /\ ttl \in Nat /\ Step(l) \in Nat /\ Slept(l) \in Nat /\ HttpDelay \in Nat
      /\ request[l] = "granted" => slot[l] # "none"
  BY PaceNumbers
<1>2. ttl \in Ttl /\ 3 * Step(l) <= ttl
  BY <1>1, IntervalFacts DEF PaceInv, Paced, PaceAssumption, Step
<1>3. (missed[l] + 1) * ttl + 3 * (missed[l] + 2) * HttpDelay < 3 * ttl
  BY DEF BeatsInTime
<1>4. /\ now <= since[l] + (IF beat[l] = "asleep" THEN Step(l) ELSE HttpDelay)
      /\ Slept(l) = IF beat[l] = "asleep" THEN 0 ELSE Step(l)
  BY DEF PaceInv, Paced, Slept, ClientTypeOK, BeatState
<1>5. /\ missed[l] = 0 => since[l] + ttl <= told[l] + HttpDelay + Slept(l)
      /\ missed[l] = 1 => since[l] + ttl <= told[l] + 2 * HttpDelay + Step(l) + Slept(l)
  BY DEF PaceInv, Paced
<1> HIDE DEF ttl
<1>6. CASE missed[l] = 0
  <2>1. ttl + 6 * HttpDelay < 3 * ttl
    BY <1>1, <1>3, <1>6
  <2> QED
    BY <1>1, <1>2, <1>4, <1>5, <1>6, <2>1 DEF Relies
<1>7. CASE missed[l] = 1
  <2>1. 2 * ttl + 9 * HttpDelay < 3 * ttl
    BY <1>1, <1>3, <1>7
  <2> QED
    BY <1>1, <1>2, <1>4, <1>5, <1>7, <2>1 DEF Relies
<1>8. CASE missed[l] >= 2
  <2>1. (missed[l] + 1) * ttl >= 3 * ttl
    <3>1. PICK k \in Nat : missed[l] + 1 = k + 3
      <4>1. missed[l] - 2 \in Nat /\ missed[l] + 1 = (missed[l] - 2) + 3
        BY <1>1, <1>8
      <4> QED
        BY <4>1
    <3>2. (k + 3) * ttl = k * ttl + 3 * ttl /\ k * ttl \in Nat
      BY <1>1
    <3> QED
      BY <1>1, <3>1, <3>2
  <2>2. 3 * (missed[l] + 2) * HttpDelay \in Nat
    BY <1>1
  <2>3. (missed[l] + 1) * ttl \in Nat
    BY <1>1
  <2> QED
    BY <1>1, <1>3, <2>1, <2>2, <2>3
<1> QED
  BY <1>1, <1>6, <1>7, <1>8

(* Heartbeats a third of the TTL apart keep the GPU of a client at work,    *)
(* through lost renewals, crashes and restarts.                            *)
THEOREM HeartbeatsKeep ==
    ASSUME PaceAssumption
    PROVE  SystemSpec => []HeartbeatsSuffice
<1>1. SystemSpec => [](SInv /\ WordInv)
  BY ServerWithin, ServerInvariance, WordInvariance, PTL DEF PaceAssumption
<1>2. SInv /\ WordInv /\ ClientTypeOK /\ PaceInv => HeartbeatsSuffice
  <2> SUFFICES ASSUME SInv, WordInv, ClientTypeOK, PaceInv, Up,
                      NEW l \in LeaseId, client[l] = "working", BeatsInTime(l)
               PROVE  \E g \in Gpu : holder[g] = l
    BY DEF HeartbeatsSuffice
  <2>1. Relies(l)
    BY InTimeRelies
  <2> QED
    BY <2>1 DEF WordInv, Promise
<1> QED
  BY <1>1, <1>2, PaceInvariance, ClientTypeCorrect, PTL

(* No two processes work under a lease on one GPU, whether the server is up *)
(* or not.                                                                 *)
THEOREM WorkersExcludeEachOther ==
    ASSUME PaceAssumption
    PROVE  SystemSpec => []NoTwoWork
<1>1. SystemSpec => []SInv
  BY ServerWithin, ServerInvariance, PTL
<1>2. SystemSpec => []NoTwoRely
  BY ServerWithin, MutualExclusion, PTL DEF PaceAssumption
<1>3. SInv /\ ClientTypeOK /\ PaceInv /\ NoTwoRely => NoTwoWork
  BY InTimeRelies DEF NoTwoRely, NoTwoWork
<1> QED
  BY <1>1, <1>2, <1>3, PaceInvariance, ClientTypeCorrect, PTL
-----------------------------------------------------------------------------
(* The moment by which the handler of m owes its client an answer. *)
Deadline(m) == lease[m].enqueued_at + lease[m].wait_timeout

(* A lease that is touched keeps the terms it was minted with. *)
LEMMA TouchedTerms ==
    ASSUME now \in Nat, NEW table \in [LeaseId -> Lease], NEW l \in LeaseId, NEW ttl \in Nat,
           NEW m \in LeaseId
    PROVE  /\ Touch(table, l, ttl)[m].enqueued_at = table[m].enqueued_at
           /\ Touch(table, l, ttl)[m].wait_timeout = table[m].wait_timeout
<1> DEFINE rec == Stamp(table[l], ttl, now + ttl)
<1>1. Touch(table, l, ttl) = [table EXCEPT ![l] = rec]
  BY Zenon DEF Touch, Stamp
<1>2. rec.enqueued_at = table[l].enqueued_at /\ rec.wait_timeout = table[l].wait_timeout
  <2>1. table[l] \in Lease
    OBVIOUS
  <2> QED
    BY <2>1 DEF Stamp, Lease
<1> HIDE DEF rec
<1> QED
  BY <1>1, <1>2

(* No promotion, renewal, cancellation or expiry moves anybody's deadline. *)
LEMMA MethodDeadlines ==
    ASSUME IInv, NEW g \in Gpu,
           \/ ReleaseHeld(g)
           \/ \E l \in LeaseId : Cancel(g, l)
           \/ \E ttl \in Ttl \cup {None} : Renew(g, ttl)
           \/ ExpireNow(g)
           \/ Shutdown(g)
    PROVE  now' = now /\ \A m \in LeaseId : Deadline(m)' = Deadline(m)
<1>1. /\ now \in Nat /\ lease \in [LeaseId -> Lease]
      /\ holder[g] \in LeaseId \cup {None}
      /\ Promoted(g) \in LeaseId \cup {None}
  BY QueueFacts, PromotionFacts
<1>2. \A l \in LeaseId : lease[l].ttl \in Nat
  BY <1>1 DEF Lease
<1>3. \A m \in LeaseId : /\ Touched(Promoted(g))[m].enqueued_at = lease[m].enqueued_at
                         /\ Touched(Promoted(g))[m].wait_timeout = lease[m].wait_timeout
  BY <1>1, <1>2, TouchedTerms DEF Touched
<1>4. CASE ReleaseHeld(g)
  BY <1>3, <1>4 DEF ReleaseHeld, Deadline
<1>5. CASE \E l \in LeaseId : Cancel(g, l)
  BY <1>5 DEF Cancel, Deadline
<1>6. ASSUME NEW ttl \in Ttl \cup {None}, Renew(g, ttl)
      PROVE  now' = now /\ \A m \in LeaseId : Deadline(m)' = Deadline(m)
  <2> DEFINE long == IF ttl = None THEN lease[holder[g]].ttl ELSE ttl
  <2>1. /\ now' = now /\ holder[g] \in LeaseId
        /\ lease' = Touch(lease, holder[g], long)
    BY <1>1, <1>6 DEF Renew
  <2>2. long \in Nat
    BY <1>2, <2>1
  <2> HIDE DEF long
  <2> QED
    BY <1>1, <2>1, <2>2, TouchedTerms DEF Deadline
<1>7. CASE ExpireNow(g)
  <2>1. now' = now /\ (lease' = Touched(Promoted(g)) \/ lease' = lease)
    BY <1>7 DEF ExpireNow
  <2> QED
    BY <1>3, <2>1 DEF Deadline
<1>8. CASE Shutdown(g)
  BY <1>8 DEF Shutdown, Deadline
<1> QED
  BY <1>4, <1>5, <1>6, <1>7, <1>8

(* A request is open for wait_timeout from its arrival. *)
LEMMA EnqueueDeadline ==
    ASSUME IInv, NEW g \in Gpu, NEW l \in LeaseId, NEW prio \in Priority,
           NEW ttl \in Ttl, NEW wait \in WaitTimeout, Enqueue(g, l, prio, ttl, wait)
    PROVE  /\ now' = now
           /\ slot'[l] # "granted" => now <= Deadline(l)'
           /\ \A m \in LeaseId : m # l => Deadline(m)' = Deadline(m)
<1>1. /\ now' = now /\ slot[l] = "none"
      /\ \A m \in LeaseId : m # l => lease'[m] = lease[m]
  BY EnqueueTimed
<1>2. /\ now \in Nat /\ wait \in Nat
      /\ lease \in [LeaseId -> Lease] /\ slot \in [LeaseId -> SlotState]
  BY QueueFacts
<1>3. CASE slot'[l] # "granted"
  <2>1. lease' = Mint(g, l, prio, ttl, wait)
    BY <1>2, <1>3 DEF Enqueue
  <2>2. lease'[l].enqueued_at = now /\ lease'[l].wait_timeout = wait
    BY <1>2, <2>1 DEF Mint
  <2> QED
    BY <1>1, <1>2, <2>2 DEF Deadline
<1> QED
  BY <1>1, <1>3 DEF Deadline

(* Only the clock can make an answer late, and it stands still in every     *)
(* other step.                                                             *)
LEMMA AnswersStand ==
    ASSUME SInv, AnsweredInTime, ServerNext, now' = now
    PROVE  AnsweredInTime'
<1>0. IInv /\ request \in [LeaseId -> RequestState]
  BY DEF SInv
<1>1. SUFFICES ASSUME NEW l \in LeaseId, Up', request'[l] = "waiting"
               PROVE  now <= Deadline(l)'
  BY DEF AnsweredInTime, Deadline
<1>2. SUFFICES ASSUME ~(now <= Deadline(l)')
               PROVE  Up /\ request[l] = "waiting" /\ Deadline(l)' = Deadline(l)
  BY DEF AnsweredInTime, Deadline
<1>3. ASSUME NEW k \in LeaseId, NEW want \in Wanted, NEW prio \in Priority,
             NEW ttl \in Ttl, NEW wait \in WaitTimeout, Acquire(k, want, prio, ttl, wait)
      PROVE  Up /\ request[l] = "waiting" /\ Deadline(l)' = Deadline(l)
  <2>1. /\ Up /\ Enqueue(ResolveGpu(want), k, prio, ttl, wait)
        /\ \/ slot'[k] = "granted" /\ request' = [request EXCEPT ![k] = "granted"]
           \/ slot'[k] # "granted" /\ request' = [request EXCEPT ![k] = "waiting"]
    BY <1>3 DEF Acquire, Serving, Up
  <2>2. ResolveGpu(want) \in Gpu
    BY <1>0, ResolvedIsGpu DEF IInv
  <2>3. /\ slot'[k] # "granted" => now <= Deadline(k)'
        /\ \A m \in LeaseId : m # k => Deadline(m)' = Deadline(m)
    BY <1>0, <2>1, <2>2, EnqueueDeadline
  <2> QED
    BY <1>0, <1>1, <1>2, <2>1, <2>3
<1>4. ASSUME NEW k \in LeaseId, HandlerResume(k)
      PROVE  Up /\ request[l] = "waiting" /\ Deadline(l)' = Deadline(l)
  BY <1>0, <1>1, <1>4 DEF HandlerResume, AnswerTo, Deadline
<1>5. ASSUME NEW k \in LeaseId, HandlerTimeout(k) \/ ReleaseCall(k)
      PROVE  Up /\ request[l] = "waiting" /\ Deadline(l)' = Deadline(l)
  <2>1. /\ Up /\ ReleaseLease(k)
        /\ request' = request \/ request' = [request EXCEPT ![k] = "timeout"]
    BY <1>5 DEF HandlerTimeout, ReleaseCall, Serving, Up
  <2>2. Deadline(l)' = Deadline(l)
    <3>1. ASSUME NEW g \in Gpu, ReleaseHeld(g) \/ Cancel(g, k)
          PROVE  Deadline(l)' = Deadline(l)
      BY <1>0, <3>1, MethodDeadlines
    <3> QED
      BY <2>1, <3>1 DEF ReleaseLease, Deadline
  <2> QED
    BY <1>0, <1>1, <2>1, <2>2
<1>6. ASSUME NEW g \in Gpu,
             \/ \E ttl \in Ttl \cup {None} : RenewCall(g, ttl)
             \/ Expire(g) \/ CloseQueue(g)
      PROVE  Up /\ request[l] = "waiting" /\ Deadline(l)' = Deadline(l)
  <2>1. /\ Up /\ request' = request
        /\ \/ \E ttl \in Ttl \cup {None} : Renew(g, ttl)
           \/ ExpireNow(g) \/ Shutdown(g)
    BY <1>6 DEF RenewCall, Expire, CloseQueue, Serving, Drained, Up
  <2>2. Deadline(l)' = Deadline(l)
    BY <1>0, <2>1, MethodDeadlines
  <2> QED
    BY <1>1, <2>1, <2>2
<1>7. CASE Sigterm \/ Wait
  BY <1>1, <1>7 DEF Sigterm, Wait, Tick, ClockStep, Up, Deadline
<1>8. CASE Exit \/ Crash
  BY <1>1, <1>8 DEF Exit, Crash, Up
<1>9. CASE Restart
  BY <1>1, <1>9 DEF Restart, SInv, NothingInMemory
<1> QED
  BY <1>3, <1>4, <1>5, <1>6, <1>7, <1>8, <1>9 DEF ServerNext

(* Time passes only when every open request is in line, and the ticker has  *)
(* dealt with every line.                                                  *)
LEMMA AnswersWait ==
    ASSUME PromptTicker, PromptClients, SInv, AnsweredInTime, WaitAll
    PROVE  AnsweredInTime'
<1>1. SUFFICES ASSUME NEW l \in LeaseId, Up, request[l] = "waiting", Tick \/ ClockStep
               PROVE  now' <= Deadline(l)
  BY DEF AnsweredInTime, Deadline, WaitAll, Wait, Tick, ClockStep, Up
<1>2. /\ now \in Nat /\ lease[l] \in Lease
      /\ lease[l].enqueued_at \in Nat /\ lease[l].wait_timeout \in Nat
      /\ now <= Deadline(l)
  BY <1>1 DEF SInv, IInv, TypeOK, Time, Lease, AnsweredInTime, Deadline
<1>3. slot[l] = "waiting"
  BY <1>1 DEF WaitAll, OnTime
<1>4. PICK g \in Gpu : l \in Queued(g) /\ ~closed[g]
  <2>1. PICK g \in Gpu : l \in Queued(g)
    BY <1>3 DEF SInv, IInv, SlotsTruthful
  <2>2. closed[g] => Queued(g) = {}
    BY EmptyLine DEF SInv, IInv, NobodyStranded, Queued
  <2> QED
    BY <2>1, <2>2
<1>5. CASE Tick
  <2>1. ~Due(g) /\ now' = now + 1
    BY <1>5 DEF Tick
  <2>2. l \notin Overdue(queue[g])
    BY <1>4, <2>1 DEF Due
  <2>3. ~(Deadline(l) <= now)
    BY <1>4, <2>2 DEF Overdue, Queued, Deadline
  <2> QED
    BY <1>2, <2>1, <2>3 DEF Deadline
<1>6. CASE ClockStep
  <2>1. now' <= now /\ now' \in Nat
    BY <1>2, <1>6 DEF ClockStep
  <2> QED
    BY <1>2, <2>1 DEF Deadline
<1> QED
  BY <1>1, <1>5, <1>6

(* No other step of the system takes time. *)
LEMMA OnlyWaitingTakesTime == [SystemNext]_systemVars => WaitAll \/ now' = now
<1> SUFFICES ASSUME SystemNext
             PROVE  WaitAll \/ now' = now
  BY DEF systemVars, serverVars
<1>1. ASSUME NEW l \in LeaseId, ReleaseLease(l)
      PROVE  now' = now
  BY <1>1 DEF ReleaseLease, ReleaseHeld, Cancel
<1>2. CASE ServerStep
  BY <1>1, <1>2 DEF ServerStep, HandlerResume, HandlerTimeout, Expire, ExpireNow,
       CloseQueue, Shutdown, Sigterm, Exit, Crash, LoseMemory, Restart
<1>3. ASSUME NEW l \in LeaseId, NEW want \in Wanted, NEW prio \in Priority,
             NEW ttl \in Ttl, NEW wait \in WaitTimeout, CallAcquire(l, want, prio, ttl, wait)
      PROVE  now' = now
  BY <1>3 DEF CallAcquire, Acquire, Enqueue
<1>4. ASSUME NEW l \in LeaseId, HandleBeat(l) \/ LateBeat(l) \/ Release(l)
      PROVE  now' = now
  BY <1>1, <1>4 DEF HandleBeat, LateBeat, Release, RenewCall, Renew, ReleaseCall, serverVars
<1>5. ASSUME NEW l \in LeaseId,
             \/ Granted(l) \/ GoUnlocked(l) \/ SendBeat(l) \/ BeatHeard(l)
             \/ BeatFails(l) \/ Finish(l) \/ Die(l)
      PROVE  now' = now
  BY <1>5 DEF Granted, GoUnlocked, SendBeat, BeatHeard, BeatFails, Finish, Die, serverVars
<1> QED
  BY <1>2, <1>3, <1>4, <1>5 DEF SystemNext

(* A ticker and handlers that act on time answer every request by its       *)
(* deadline, through starvation by urgent requests, renewals without end,  *)
(* cancellations, shutdown and restarts: a deadline by the server's clock,  *)
(* which is the client's as long as nobody sets it back.                   *)
THEOREM EveryAnswerInTime ==
    ASSUME PromptTicker, PromptClients
    PROVE  SystemSpec => []AnsweredInTime
<1>1. SystemSpec => []SInv
  BY ServerWithin, ServerInvariance, PTL
<1>2. SystemInit => AnsweredInTime
  BY DEF SystemInit, ServerInit, AnsweredInTime
<1>3. ASSUME SInv, AnsweredInTime, [SystemNext]_systemVars
      PROVE  AnsweredInTime'
  <2>1. [ServerNext]_serverVars
    BY <1>3, StepIsServers
  <2>2. CASE UNCHANGED serverVars
    BY <1>3, <2>2 DEF AnsweredInTime, Up, serverVars
  <2>3. CASE ServerNext /\ now' = now
    BY <1>3, <2>3, AnswersStand
  <2>4. CASE WaitAll
    BY <1>3, <2>4, AnswersWait
  <2> QED
    BY <1>3, <2>1, <2>2, <2>3, <2>4, OnlyWaitingTakesTime
<1> QED
  BY <1>1, <1>2, <1>3, PTL DEF SystemSpec
=============================================================================
