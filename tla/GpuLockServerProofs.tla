------------------------ MODULE GpuLockServerProofs ------------------------
(***************************************************************************)
(* The server for every set of GPUs, leases and timeouts: the queues keep  *)
(* their invariant through handlers, shutdown, crashes and restarts, the   *)
(* service keeps the word it gave to its clients, and whoever it refused   *)
(* leaves nothing behind.                                                  *)
(***************************************************************************)
EXTENDS GpuLockServer, GpuQueueRefinement

USE QueueAssumption, ServerAssumption

(* load() is a number. *)
LEMMA LoadIsNumber ==
    ASSUME TypeOK, NEW g \in Gpu
    PROVE  Load(g) \in Nat
<1>1. Len(queue[g]) \in Nat
  BY LenProperties DEF TypeOK
<1> DEFINE n == Len(queue[g])
           one == IF holder[g] # None THEN 1 ELSE 0
<1>2. Load(g) = n + one /\ one \in Nat /\ n \in Nat
  BY <1>1 DEF Load
<1> HIDE DEF n, one
<1> QED
  BY <1>2

(* gpu=auto resolves to a managed GPU, and none has less load. *)
LEMMA LeastLoadedIsLeast ==
    ASSUME TypeOK
    PROVE  /\ LeastLoaded \in Gpu
           /\ \A h \in Gpu : Load(LeastLoaded) <= Load(h)
<1> DEFINE best(g) == \A h \in Gpu : Load(g) < Load(h) \/ (Load(g) = Load(h) /\ g <= h)
           loads == {Load(g) : g \in Gpu}
<1>1. \A g \in Gpu : Load(g) \in Nat /\ g \in Nat
  BY LoadIsNumber
<1>2. \E g \in Gpu : best(g)
  <2>1. loads \in SUBSET Nat /\ loads # {}
    BY <1>1
  <2>2. PICK n \in loads : \A m \in loads : n <= m
    BY <2>1, LeastNumber
  <2> DEFINE least == {g \in Gpu : Load(g) = n}
  <2>3. least \in SUBSET Nat /\ least # {}
    BY <2>2
  <2>4. PICK g \in least : \A h \in least : g <= h
    BY <2>3, LeastNumber
  <2>5. \A h \in Gpu : Load(g) <= Load(h) /\ (Load(h) = Load(g) => h \in least)
    BY <2>2, <2>4
  <2> QED
    BY <1>1, <2>4, <2>5
<1>3. LeastLoaded \in Gpu /\ best(LeastLoaded)
  <2> HIDE DEF best
  <2>1. LeastLoaded = CHOOSE g \in Gpu : best(g)
    BY DEF LeastLoaded, best
  <2> QED
    BY <1>2, <2>1
<1> QED
  BY <1>1, <1>3

(* The parameter `gpu` of a request resolves to a managed GPU. *)
LEMMA ResolvedIsGpu ==
    ASSUME TypeOK, NEW want \in Wanted
    PROVE  ResolveGpu(want) \in Gpu
BY LeastLoadedIsLeast DEF ResolveGpu
-----------------------------------------------------------------------------
(* The leases the program has handed out. *)
Minted == {l \in LeaseId : slot[l] # "none"}

(* Whoever was woken with `granted` had its expiry armed at that moment. *)
GrantsArmed ==
    \A l \in LeaseId : slot[l] = "granted" => lease[l].expires_at # NotGranted

(* A snapshot from which the queues can be restored: what IInv says of each *)
(* queue, said of the file, and no lease in it is still to be minted.      *)
Restorable(saved, minted) ==
    \A g \in Gpu :
        LET line == saved.queue[g]
            held == saved.holder[g]
        IN  /\ Distinct(line) /\ Ordered(line, saved.lease)
            /\ held \notin Elems(line)
            /\ held = None => line = <<>>
            /\ \A l \in Elems(line) : l \in minted /\ saved.lease[l].gpu = g
            /\ held # None => /\ held \in minted
                              /\ saved.lease[held].gpu = g
                              /\ saved.lease[held].expires_at # NotGranted

(* A process that is down holds no queue and runs no handler. *)
NothingInMemory ==
    /\ \A g \in Gpu : holder[g] = None /\ queue[g] = <<>> /\ ~closed[g]
    /\ \A l \in LeaseId : slot[l] \in {"none", "gone"} /\ request[l] # "waiting"

(* The invariant of the server, whatever its host, disk, clock and clients *)
(* do: the queues are as GpuQueue promises, and so is what a restart finds. *)
SInv ==
    /\ IInv
    /\ GrantsArmed
    /\ phase \in Phase
    /\ request \in [LeaseId -> RequestState]
    /\ told \in [LeaseId -> Nat]
    /\ file \in Snapshots \cup {None}
    /\ file # None => Restorable(file, Minted)
    /\ ~Up => NothingInMemory
    /\ \A l \in LeaseId : slot[l] = "none" => request[l] = "none"
    /\ \A l \in LeaseId : told[l] # 0 => request[l] = "granted"

(* What snapshot() returns can be restored. *)
LEMMA SnapshotRestorable == IInv => Snapshot \in Snapshots /\ Restorable(Snapshot, Minted)
<1> SUFFICES ASSUME IInv
             PROVE  Snapshot \in Snapshots /\ Restorable(Snapshot, Minted)
  OBVIOUS
<1> DEFINE table == SavedLeases
<1>1. Snapshot.holder = holder /\ Snapshot.queue = queue /\ Snapshot.lease = table
  BY DEF Snapshot
<1>2. Blank \in Lease
  BY DEF Blank, Lease, Time, NotGranted
<1>3. table \in [LeaseId -> Lease] /\ \A l \in LeaseId : InPlace(l) => table[l] = lease[l]
  BY <1>2 DEF SavedLeases, IInv, TypeOK
<1> HIDE DEF table
<1>4. Snapshot \in Snapshots
  BY <1>1, <1>3 DEF Snapshot, Snapshots, IInv, TypeOK
<1>5. ASSUME NEW g \in Gpu
      PROVE  /\ Distinct(queue[g]) /\ Ordered(queue[g], table)
             /\ holder[g] \notin Elems(queue[g])
             /\ holder[g] = None => queue[g] = <<>>
             /\ \A l \in Elems(queue[g]) : l \in Minted /\ table[l].gpu = g
             /\ holder[g] # None => /\ holder[g] \in Minted
                                    /\ table[holder[g]].gpu = g
                                    /\ table[holder[g]].expires_at # NotGranted
  <2>1. /\ queue[g] \in Seq(LeaseId) /\ Queued(g) \subseteq LeaseId
        /\ Distinct(queue[g]) /\ Ordered(queue[g], lease)
        /\ holder[g] \in LeaseId \cup {None}
        /\ holder[g] \notin Queued(g)
        /\ \A m \in Queued(g) : lease[m].gpu = g /\ slot[m] = "waiting"
        /\ holder[g] # None => /\ lease[holder[g]].gpu = g
                               /\ slot[holder[g]] = "granted"
                               /\ lease[holder[g]].expires_at # NotGranted
        /\ holder[g] = None \/ closed[g] => queue[g] = <<>>
    BY QueueFacts
  <2>2. \A l \in Queued(g) : table[l] = lease[l]
    BY <1>3, <2>1 DEF InPlace
  <2>3. holder[g] # None => table[holder[g]] = lease[holder[g]]
    BY <1>3, <2>1 DEF InPlace
  <2>4. Ordered(queue[g], table)
    <3>1. /\ queue[g] \in Seq(LeaseId) /\ Ordered(queue[g], lease)
          /\ \A m \in Elems(queue[g]) : /\ lease[m].priority = table[m].priority
                                        /\ lease[m].enqueued_at = table[m].enqueued_at
      BY <2>1, <2>2 DEF Queued
    <3> QED
      BY ONLY <3>1, SameKeys
  <2> QED
    BY <2>1, <2>2, <2>3, <2>4 DEF Queued, Minted
<1>6. Restorable(Snapshot, Minted)
  BY <1>1, <1>5 DEF Restorable
<1> QED
  BY <1>4, <1>6

(* Leases that are minted later do not spoil a snapshot. *)
LEMMA StaysRestorable ==
    ASSUME NEW saved, NEW A, NEW B, A \subseteq B, Restorable(saved, A)
    PROVE  Restorable(saved, B)
BY DEF Restorable

(* A flush after a change, or none, leaves a file that can be restored. *)
LEMMA FileKeeps ==
    ASSUME SInv, IInv', Minted \subseteq Minted', Flush \/ UNCHANGED file
    PROVE  /\ file' \in Snapshots \cup {None}
           /\ file' # None => Restorable(file', Minted')
<1>1. (IInv => Snapshot \in Snapshots /\ Restorable(Snapshot, Minted))'
  BY SnapshotRestorable, PTL
<1>2. CASE file' = Snapshot'
  BY <1>1, <1>2
<1>3. CASE file' = file
  <2>1. file # None => Restorable(file, Minted')
    BY StaysRestorable DEF SInv
  <2> QED
    BY <1>3, <2>1 DEF SInv
<1> QED
  BY <1>2, <1>3 DEF Flush, WriteFile

(* What every stretch of a handler or ticker that changes a queue has to   *)
(* show for the invariant of the server.                                   *)
LEMMA HandlerStep ==
    ASSUME SInv, IInv', GrantsArmed', Minted \subseteq Minted',
           Flush \/ UNCHANGED file,
           Up, phase' \in {"running", "draining", "closing"},
           request' \in [LeaseId -> RequestState],
           told' \in [LeaseId -> Nat],
           \A l \in LeaseId : request'[l] # request[l] => l \in Minted',
           \A l \in LeaseId : told'[l] # 0 => request'[l] = "granted"
    PROVE  SInv'
<1>1. /\ file' \in Snapshots \cup {None}
      /\ file' # None => Restorable(file', Minted')
  BY FileKeeps
<1>2. \A l \in LeaseId : slot'[l] = "none" => request'[l] = "none"
  BY DEF SInv, Minted
<1>3. phase' \in Phase /\ Up'
  BY DEF Phase, Up
<1> QED
  BY <1>1, <1>2, <1>3 DEF SInv

(* Methods keep the expiry of granted leases armed, and minted ids minted. *)
LEMMA ArmedStays ==
    ASSUME IInv, GrantsArmed, NEW g \in Gpu,
           GrantsKept(g) \/ \E ttl \in Ttl \cup {None} : Renew(g, ttl)
    PROVE  GrantsArmed' /\ Minted \subseteq Minted'
<1>1. CASE GrantsKept(g)
  BY <1>1 DEF GrantsKept, GrantsArmed, Minted, NotGranted
<1>2. ASSUME NEW ttl \in Ttl \cup {None}, Renew(g, ttl)
      PROVE  GrantsArmed' /\ Minted \subseteq Minted'
  <2>1. /\ lease'[holder[g]].expires_at \in Nat
        /\ \A m \in LeaseId : m # holder[g] => lease'[m] = lease[m]
        /\ slot' = slot
    BY <1>2, RenewKeeps
  <2>2. lease'[holder[g]].expires_at # NotGranted
    BY <2>1 DEF NotGranted
  <2> QED
    BY <2>1, <2>2 DEF GrantsArmed, Minted
<1> QED
  BY <1>1, <1>2

(* The memory of the process is lost. *)
LEMMA LoseMemoryStep ==
    ASSUME SInv, LoseMemory, phase' \in {"stopped", "crashed"},
           \/ UNCHANGED file
           \/ WriteFile(Snapshot)
    PROVE  SInv'
<1> USE DEF SInv
<1>1. /\ holder' = [g \in Gpu |-> None]
      /\ queue' = [g \in Gpu |-> <<>>]
      /\ slot' = [l \in LeaseId |-> IF slot[l] = "none" THEN "none" ELSE "gone"]
      /\ closed' = [g \in Gpu |-> FALSE]
      /\ request' = [l \in LeaseId |-> IF request[l] = "waiting" THEN "lost" ELSE request[l]]
      /\ now' = now /\ lease' = lease /\ told' = told
  BY DEF LoseMemory
<1>2. \A g \in Gpu : queue'[g] = <<>> /\ holder'[g] = None /\ ~closed'[g] /\ Queued(g)' = {}
  BY <1>1, EmptyLine DEF Queued
<1>3. \A l \in LeaseId : /\ slot'[l] \in {"none", "gone"}
                         /\ slot'[l] = "none" <=> slot[l] = "none"
  BY <1>1
<1>4. IInv'
  <2>1. TypeOK'
    BY <1>1, EmptyLine DEF IInv, TypeOK, SlotState
  <2>2. OnePlace' /\ QueueOrdered'
    <3>1. \A g \in Gpu : DOMAIN queue'[g] = {}
      BY <1>2
    <3> QED
      BY <1>2, <3>1 DEF OnePlace, QueueOrdered
  <2>3. SlotsTruthful' /\ NobodyStranded'
    BY <1>2, <1>3 DEF SlotsTruthful, NobodyStranded
  <2> QED
    BY <2>1, <2>2, <2>3 DEF IInv
<1>5. Minted' = Minted
  BY <1>3 DEF Minted
<1>6. /\ file' \in Snapshots \cup {None}
      /\ file' # None => Restorable(file', Minted')
  BY <1>5, SnapshotRestorable DEF WriteFile
<1>7. /\ request' \in [LeaseId -> RequestState]
      /\ \A l \in LeaseId : /\ request'[l] # "waiting"
                            /\ request[l] # "waiting" => request'[l] = request[l]
  BY <1>1 DEF RequestState
<1>8. NothingInMemory' /\ GrantsArmed'
  BY <1>2, <1>3, <1>7 DEF NothingInMemory, GrantsArmed
<1>9. phase' \in Phase
  BY DEF Phase
<1>10. \A l \in LeaseId : slot'[l] = "none" => request'[l] = "none"
  BY <1>3, <1>7
<1>11. \A l \in LeaseId : told'[l] # 0 => request'[l] = "granted"
  BY <1>1, <1>7
<1> QED
  BY <1>1, <1>4, <1>6, <1>7, <1>8, <1>9, <1>10, <1>11

(* restore() puts the leases of the file back in place, as they were saved. *)
LEMMA RestoreFacts ==
    ASSUME NothingInMemory, IInv, NEW saved \in Snapshots, Restorable(saved, Minted),
           Restore(saved), UNCHANGED <<now, closed>>
    PROVE  /\ IInv' /\ GrantsArmed'
           /\ Minted' = Minted
           /\ holder' = saved.holder /\ queue' = saved.queue
           /\ \A g \in Gpu, l \in LeaseId :
                l = saved.holder[g] \/ l \in Elems(saved.queue[g]) => lease'[l] = saved.lease[l]
           /\ \A l \in LeaseId : saved.lease[l] = Blank => lease'[l] = lease[l]
<1> DEFINE h == saved.holder
           q == saved.queue
           table == saved.lease
           lined(l) == \E g \in Gpu : l \in Elems(q[g])
           held(l) == \E g \in Gpu : l = h[g]
<1>1. /\ h \in [Gpu -> LeaseId \cup {None}]
      /\ q \in [Gpu -> Seq(LeaseId)]
      /\ table \in [LeaseId -> Lease]
  BY DEF Snapshots
<1>2. /\ holder' = h /\ queue' = q
      /\ lease' = [l \in LeaseId |-> IF table[l] # Blank THEN table[l] ELSE lease[l]]
      /\ slot' = [l \in LeaseId |-> IF lined(l) THEN "waiting"
                                    ELSE IF held(l) THEN "granted" ELSE slot[l]]
      /\ now' = now /\ closed' = closed
  BY DEF Restore, RestoredLeases
<1>3. \A g \in Gpu :
         /\ Distinct(q[g]) /\ Ordered(q[g], table)
         /\ h[g] \notin Elems(q[g])
         /\ h[g] = None => q[g] = <<>>
         /\ \A l \in Elems(q[g]) : l \in Minted /\ table[l].gpu = g
         /\ h[g] # None => /\ h[g] \in Minted
                           /\ table[h[g]].gpu = g
                           /\ table[h[g]].expires_at # NotGranted
  BY DEF Restorable
<1>4. \A g \in Gpu : Elems(q[g]) \subseteq LeaseId
  BY <1>1, NoElems
<1> HIDE DEF h, q, table
<1>5. \A g \in Gpu, l \in LeaseId : l = h[g] \/ l \in Elems(q[g]) => lease'[l] = table[l]
  <2>1. Blank.gpu = None
    BY DEF Blank
  <2>2. \A g \in Gpu, l \in LeaseId : l = h[g] \/ l \in Elems(q[g]) => table[l] # Blank
    BY <1>3, <2>1
  <2> QED
    BY <1>2, <2>2
<1>6. \A l \in LeaseId : ~lined(l) /\ ~held(l) => slot'[l] \in {"none", "gone"}
  BY <1>2 DEF NothingInMemory
<1>7. \A g \in Gpu : holder'[g] = h[g] /\ queue'[g] = q[g] /\ Queued(g)' = Elems(q[g])
  BY <1>2 DEF Queued
<1>8. TypeOK'
  <2>1. lease \in [LeaseId -> Lease] /\ slot \in [LeaseId -> SlotState]
    BY DEF IInv, TypeOK
  <2>2. lease' \in [LeaseId -> Lease]
    BY <1>1, <1>2, <2>1
  <2>3. slot' \in [LeaseId -> SlotState]
    <3> HIDE DEF lined, held
    <3> QED
      BY <1>2, <2>1 DEF SlotState
  <2> QED
    BY <1>1, <1>2, <2>2, <2>3 DEF IInv, TypeOK
<1>9. OnePlace'
  <2> SUFFICES ASSUME NEW g \in Gpu
               PROVE  /\ Distinct(q[g])
                      /\ h[g] \notin Elems(q[g])
                      /\ \A l \in Elems(q[g]) : lease'[l].gpu = g
                      /\ h[g] # None => lease'[h[g]].gpu = g
    BY <1>7, ZenonT(40) DEF OnePlace, Distinct
  <2>1. h[g] \in LeaseId \cup {None}
    BY <1>1
  <2> QED
    BY <1>3, <1>4, <1>5, <2>1
<1>10. SlotsTruthful'
  <2>1. \A l \in LeaseId : slot'[l] = "waiting" <=> \E g \in Gpu : l \in Queued(g)'
    BY <1>2, <1>6, <1>7
  <2>2. ASSUME NEW g \in Gpu, h[g] # None
        PROVE  slot'[h[g]] = "granted" /\ lease'[h[g]].expires_at # NotGranted
    <3>1. h[g] \in LeaseId
      BY <1>1, <2>2
    <3>2. ~lined(h[g])
      BY <1>3, <2>2
    <3>3. held(h[g])
      OBVIOUS
    <3> HIDE DEF lined, held
    <3>4. slot'[h[g]] = "granted"
      BY <1>2, <3>1, <3>2, <3>3
    <3> QED
      BY <1>3, <1>5, <2>2, <3>1, <3>4
  <2> QED
    BY <1>7, <2>1, <2>2 DEF SlotsTruthful
<1>11. NobodyStranded'
  BY <1>2, <1>3, <1>7 DEF NobodyStranded, NothingInMemory
<1>12. QueueOrdered'
  <2> SUFFICES ASSUME NEW g \in Gpu
               PROVE  Ordered(q[g], lease')
    BY <1>7 DEF QueueOrdered, Ordered, Urgency
  <2>1. /\ q[g] \in Seq(LeaseId) /\ Ordered(q[g], table)
        /\ \A m \in Elems(q[g]) : /\ table[m].priority = lease'[m].priority
                                  /\ table[m].enqueued_at = lease'[m].enqueued_at
    BY <1>1, <1>3, <1>4, <1>5
  <2> QED
    BY ONLY <2>1, SameKeys
<1>13. GrantsArmed'
  <2> SUFFICES ASSUME NEW l \in LeaseId, slot'[l] = "granted"
               PROVE  lease'[l].expires_at # NotGranted
    BY DEF GrantsArmed
  <2>1. PICK g \in Gpu : l = h[g]
    BY <1>2, <1>6
  <2> QED
    BY <1>3, <1>5, <2>1
<1>14. Minted' = Minted
  <2>1. \A l \in LeaseId : lined(l) \/ held(l) => l \in Minted
    BY <1>3
  <2>2. \A l \in LeaseId : slot'[l] # "none" <=> lined(l) \/ held(l) \/ slot[l] # "none"
    <3> HIDE DEF lined, held
    <3> QED
      BY <1>2
  <2> QED
    BY <2>1, <2>2 DEF Minted
<1>15. IInv'
  BY <1>8, <1>9, <1>10, <1>11, <1>12 DEF IInv
<1>16. \A l \in LeaseId : table[l] = Blank => lease'[l] = lease[l]
  BY <1>2
<1> QED
  BY <1>2, <1>5, <1>13, <1>14, <1>15, <1>16 DEF h, q, table
-----------------------------------------------------------------------------
(* GrantsKept, seen from the fleet. *)
FleetKept ==
    /\ now' = now
    /\ \A m \in LeaseId :
         /\ slot[m] = "granted" => slot'[m] = "granted" /\ lease'[m] = lease[m]
         /\ slot'[m] = "granted" => slot[m] = "granted" \/ \E g \in Gpu : holder'[g] = m
         /\ slot'[m] = "none" => slot[m] = "none"
         /\ InPlace(m)' => InPlace(m) \/ slot[m] = "none"

LEMMA GrantsToFleet ==
    ASSUME NEW g \in Gpu, GrantsKept(g)
    PROVE  FleetKept
<1>1. \A k \in Gpu : k # g => Queued(k)' = Queued(k) /\ holder'[k] = holder[k]
  BY DEF GrantsKept, Queued
<1>2. ASSUME NEW m \in LeaseId, InPlace(m)'
      PROVE  InPlace(m) \/ slot[m] = "none"
  <2>1. PICK k \in Gpu : holder'[k] = m \/ m \in Queued(k)'
    BY <1>2 DEF InPlace
  <2>2. CASE k = g
    BY <2>1, <2>2 DEF GrantsKept, InPlace
  <2>3. CASE k # g
    BY <2>1, <2>3, <1>1 DEF InPlace
  <2> QED
    BY <2>2, <2>3
<1> QED
  BY <1>2 DEF GrantsKept, FleetKept

(* Every method of a queue keeps the invariant of the queues. *)
LEMMA MethodKeeps ==
    ASSUME IInv, NEW g \in Gpu,
           \/ \E l \in LeaseId, prio \in Priority, ttl \in Ttl, wait \in WaitTimeout :
                 Enqueue(g, l, prio, ttl, wait)
           \/ ReleaseHeld(g)
           \/ \E l \in LeaseId : Cancel(g, l)
           \/ \E ttl \in Ttl \cup {None} : Renew(g, ttl)
           \/ ExpireNow(g)
           \/ Shutdown(g)
    PROVE  IInv'
<1>1. Next
  BY DEF Next
<1> QED
  BY <1>1, NextInv

(* release(): the lease is gone from the fleet, and only its GPU, if it     *)
(* held one, has passed on.                                                *)
LEMMA ReleaseLeaseFacts ==
    ASSUME IInv, GrantsArmed, NEW l \in LeaseId, ReleaseLease(l)
    PROVE  /\ IInv' /\ GrantsArmed' /\ Minted \subseteq Minted'
           /\ FleetKept
           /\ ~InPlace(l)'
           /\ \A g \in Gpu : holder'[g] # holder[g] => holder[g] = l
           /\ \/ Flush
              \/ UNCHANGED file /\ ~InPlace(l) /\ \A m \in LeaseId : InPlace(m)' = InPlace(m)
<1>1. ASSUME NEW g \in Gpu, holder[g] = l, ReleaseHeld(g), Flush
      PROVE  /\ IInv' /\ GrantsArmed' /\ Minted \subseteq Minted'
             /\ FleetKept
             /\ ~InPlace(l)'
             /\ \A k \in Gpu : holder'[k] # holder[k] => holder[k] = l
             /\ Flush
  <2>1. /\ GrantsKept(g)
        /\ holder'[g] # l /\ l \notin Queued(g)'
    BY <1>1, ReleaseHeldKeeps
  <2>2. IInv' /\ GrantsArmed' /\ Minted \subseteq Minted' /\ FleetKept
    BY <1>1, <2>1, MethodKeeps, ArmedStays, GrantsToFleet
  <2>3. \A k \in Gpu : k # g => /\ holder'[k] = holder[k] /\ Queued(k)' = Queued(k)
                                /\ l # holder[k] /\ l \notin Queued(k)
    BY <1>1, <2>1, Elsewhere DEF GrantsKept, Queued
  <2>4. ~InPlace(l)'
    BY <2>1, <2>3 DEF InPlace
  <2> QED
    BY <1>1, <2>2, <2>3, <2>4
<1>2. ASSUME NEW g \in Gpu, Cancel(g, l), Flush
      PROVE  /\ IInv' /\ GrantsArmed' /\ Minted \subseteq Minted'
             /\ FleetKept
             /\ ~InPlace(l)'
             /\ \A k \in Gpu : holder'[k] # holder[k] => holder[k] = l
             /\ Flush
  <2>1. /\ GrantsKept(g)
        /\ holder' = holder
        /\ l \in Queued(g) /\ holder'[g] # l /\ l \notin Queued(g)'
    BY <1>2, CancelKeeps
  <2>2. IInv' /\ GrantsArmed' /\ Minted \subseteq Minted' /\ FleetKept
    BY <1>2, <2>1, MethodKeeps, ArmedStays, GrantsToFleet
  <2>3. \A k \in Gpu : k # g => /\ Queued(k)' = Queued(k)
                                /\ l # holder[k] /\ l \notin Queued(k)
    BY <2>1, Elsewhere DEF GrantsKept, Queued
  <2>4. ~InPlace(l)'
    BY <2>1, <2>3 DEF InPlace
  <2> QED
    BY <1>2, <2>1, <2>2, <2>4
<1>3. CASE ~InPlace(l) /\ UNCHANGED <<now, holder, queue, lease, slot, closed, file>>
  <2>1. IInv'
    BY <1>3, NextInv DEF vars
  <2>2. \A m \in LeaseId : InPlace(m)' = InPlace(m)
    BY <1>3 DEF InPlace, Queued
  <2> QED
    BY <1>3, <2>1, <2>2 DEF GrantsArmed, Minted, FleetKept
<1> QED
  BY <1>1, <1>2, <1>3 DEF ReleaseLease

(* POST /acquire keeps the invariant. *)
LEMMA AcquireServes ==
    ASSUME SInv, NEW l \in LeaseId, NEW want \in Wanted, NEW prio \in Priority,
           NEW ttl \in Ttl, NEW wait \in WaitTimeout, Acquire(l, want, prio, ttl, wait)
    PROVE  SInv'
<1> DEFINE g == ResolveGpu(want)
<1>1. g \in Gpu
  BY ResolvedIsGpu DEF SInv, IInv
<1>2. Enqueue(g, l, prio, ttl, wait) /\ IInv /\ GrantsArmed
  BY DEF Acquire, SInv
<1> HIDE DEF g
<1>3. /\ GrantsKept(g)
      /\ slot'[l] \in {"granted", "waiting"} /\ slot[l] = "none"
  BY <1>1, <1>2, EnqueueKeeps
<1>4. IInv' /\ GrantsArmed' /\ Minted \subseteq Minted'
  BY <1>1, <1>2, <1>3, MethodKeeps, ArmedStays
<1>5. /\ l \in Minted'
      /\ slot'[l] = "granted" => lease'[l].expires_at \in Nat
      /\ request[l] = "none" /\ told[l] = 0
  BY <1>3 DEF Minted, GrantsKept, SInv
<1>6. /\ request \in [LeaseId -> RequestState] /\ told \in [LeaseId -> Nat]
      /\ \A m \in LeaseId : told[m] # 0 => request[m] = "granted"
  BY DEF SInv
<1>7. /\ request' \in [LeaseId -> RequestState] /\ told' \in [LeaseId -> Nat]
      /\ \A m \in LeaseId : m # l => request'[m] = request[m] /\ told'[m] = told[m]
      /\ told'[l] # 0 => request'[l] = "granted"
  <2>1. CASE slot'[l] = "granted"
    <3>1. /\ request' = [request EXCEPT ![l] = "granted"]
          /\ told' = [told EXCEPT ![l] = lease'[l].expires_at]
      BY <2>1 DEF Acquire
    <3> QED
      BY <2>1, <3>1, <1>5, <1>6 DEF RequestState
  <2>2. CASE slot'[l] # "granted"
    <3>1. request' = [request EXCEPT ![l] = "waiting"] /\ told' = told
      BY <2>2 DEF Acquire
    <3> QED
      BY <3>1, <1>5, <1>6 DEF RequestState
  <2> QED
    BY <2>1, <2>2
<1>8. Up /\ Flush /\ phase' = phase
  BY DEF Acquire, Serving, Up
<1> QED
  BY <1>4, <1>5, <1>6, <1>7, <1>8, HandlerStep DEF Up

(* A handler that wakes up keeps the invariant. *)
LEMMA ResumeServes ==
    ASSUME SInv, NEW l \in LeaseId, HandlerResume(l)
    PROVE  SInv'
<1>1. /\ Up /\ request[l] = "waiting" /\ slot[l] # "waiting"
      /\ request' = [request EXCEPT ![l] = AnswerTo(slot[l])]
      /\ told' = IF slot[l] = "granted" THEN [told EXCEPT ![l] = lease[l].expires_at] ELSE told
      /\ UNCHANGED <<now, holder, queue, lease, slot, closed, phase, file>>
  BY DEF HandlerResume
<1>2. IInv' /\ GrantsArmed' /\ Minted' = Minted
  BY <1>1, NextInv DEF vars, SInv, GrantsArmed, Minted
<1>3. /\ request \in [LeaseId -> RequestState] /\ told \in [LeaseId -> Nat]
      /\ lease \in [LeaseId -> Lease]
      /\ \A m \in LeaseId : told[m] # 0 => request[m] = "granted"
      /\ slot[l] = "granted" => lease[l].expires_at # NotGranted
      /\ l \in Minted
  BY <1>1 DEF SInv, IInv, TypeOK, GrantsArmed, Minted
<1>4. told[l] = 0
  BY <1>1, <1>3
<1>5. AnswerTo(slot[l]) \in RequestState /\ (slot[l] = "granted" => AnswerTo(slot[l]) = "granted")
  BY DEF AnswerTo, RequestState
<1>6. slot[l] = "granted" => lease[l].expires_at \in Nat
  BY <1>3 DEF Lease
<1>7. request' \in [LeaseId -> RequestState] /\ told' \in [LeaseId -> Nat]
  BY <1>1, <1>3, <1>5, <1>6
<1>8. /\ \A m \in LeaseId : request'[m] # request[m] => m \in Minted'
      /\ \A m \in LeaseId : told'[m] # 0 => request'[m] = "granted"
  BY <1>1, <1>2, <1>3, <1>4, <1>5
<1> QED
  BY <1>1, <1>2, <1>7, <1>8, HandlerStep DEF Up

(* So does one whose timer fires. *)
LEMMA TimeoutServes ==
    ASSUME SInv, NEW l \in LeaseId, HandlerTimeout(l)
    PROVE  SInv'
<1>1. /\ Up /\ request[l] = "waiting" /\ ReleaseLease(l)
      /\ request' = [request EXCEPT ![l] = "timeout"]
      /\ phase' = phase /\ told' = told
  BY DEF HandlerTimeout
<1>2. IInv' /\ GrantsArmed' /\ Minted \subseteq Minted' /\ (Flush \/ UNCHANGED file)
  BY <1>1, ReleaseLeaseFacts DEF SInv
<1>3. /\ request \in [LeaseId -> RequestState] /\ told \in [LeaseId -> Nat]
      /\ \A m \in LeaseId : told[m] # 0 => request[m] = "granted"
      /\ l \in Minted
  BY <1>1 DEF SInv, Minted
<1>4. /\ request' \in [LeaseId -> RequestState]
      /\ \A m \in LeaseId : request'[m] # request[m] => m \in Minted'
      /\ \A m \in LeaseId : told'[m] # 0 => request'[m] = "granted"
  BY <1>1, <1>2, <1>3 DEF RequestState
<1> QED
  BY <1>1, <1>2, <1>3, <1>4, HandlerStep DEF Up

(* POST /release keeps the invariant. *)
LEMMA ReleaseCallServes ==
    ASSUME SInv, NEW l \in LeaseId, ReleaseCall(l)
    PROVE  SInv'
<1>1. /\ Up /\ ReleaseLease(l)
      /\ told' = [told EXCEPT ![l] = 0]
      /\ phase' = phase /\ request' = request
  BY DEF ReleaseCall, Serving, Up
<1>2. IInv' /\ GrantsArmed' /\ Minted \subseteq Minted' /\ (Flush \/ UNCHANGED file)
  BY <1>1, ReleaseLeaseFacts DEF SInv
<1>3. /\ request \in [LeaseId -> RequestState] /\ told \in [LeaseId -> Nat]
      /\ \A m \in LeaseId : told[m] # 0 => request[m] = "granted"
  BY DEF SInv
<1>4. told' \in [LeaseId -> Nat] /\ \A m \in LeaseId : told'[m] # 0 => request'[m] = "granted"
  BY <1>1, <1>3
<1> QED
  BY <1>1, <1>2, <1>3, <1>4, HandlerStep DEF Up

(* POST /renew keeps the invariant. *)
LEMMA RenewCallServes ==
    ASSUME SInv, NEW g \in Gpu, NEW ttl \in Ttl \cup {None}, RenewCall(g, ttl)
    PROVE  SInv'
<1>1. /\ Up /\ Renew(g, ttl) /\ Flush
      /\ \/ /\ request[holder[g]] = "granted"
            /\ told' = [told EXCEPT ![holder[g]] = lease'[holder[g]].expires_at]
         \/ told' = told
      /\ phase' = phase /\ request' = request
  BY DEF RenewCall, Serving, Up
<1>2. IInv /\ GrantsArmed
  BY DEF SInv
<1>3. IInv' /\ GrantsArmed' /\ Minted \subseteq Minted'
  BY <1>1, <1>2, MethodKeeps, ArmedStays
<1>4. holder[g] \in LeaseId /\ lease'[holder[g]].expires_at \in Nat
  BY <1>1, <1>2, RenewKeeps
<1>5. /\ request \in [LeaseId -> RequestState] /\ told \in [LeaseId -> Nat]
      /\ \A m \in LeaseId : told[m] # 0 => request[m] = "granted"
  BY DEF SInv
<1>6. told' \in [LeaseId -> Nat] /\ \A m \in LeaseId : told'[m] # 0 => request'[m] = "granted"
  BY <1>1, <1>4, <1>5
<1> QED
  BY <1>1, <1>3, <1>5, <1>6, HandlerStep DEF Up

(* The ticker keeps the invariant. *)
LEMMA ExpireServes ==
    ASSUME SInv, NEW g \in Gpu, Expire(g)
    PROVE  SInv'
<1>1. /\ Up /\ ExpireNow(g) /\ Flush
      /\ phase' = phase /\ request' = request /\ told' = told
  BY DEF Expire
<1>2. IInv /\ GrantsArmed
  BY DEF SInv
<1>3. IInv' /\ GrantsArmed' /\ Minted \subseteq Minted'
  BY <1>1, <1>2, MethodKeeps, ArmedStays, ExpireNowKeeps
<1> QED
  BY <1>1, <1>3, HandlerStep DEF Up, SInv

(* manager.shutdown keeps the invariant. *)
LEMMA CloseQueueServes ==
    ASSUME SInv, NEW g \in Gpu, CloseQueue(g)
    PROVE  SInv'
<1>1. /\ Up /\ Shutdown(g) /\ phase' = "closing"
      /\ UNCHANGED <<request, told, file>>
  BY DEF CloseQueue, Drained, Up
<1>2. IInv /\ GrantsArmed
  BY DEF SInv
<1>3. IInv' /\ GrantsArmed' /\ Minted \subseteq Minted'
  BY <1>1, <1>2, MethodKeeps, ArmedStays, ShutdownKeeps
<1> QED
  BY <1>1, <1>3, HandlerStep DEF SInv

(* The clock, and a change of the phase between two that are up, keep it. *)
LEMMA QuietServes ==
    ASSUME SInv, now' \in Time, UNCHANGED <<holder, queue, lease, slot, closed>>,
           UNCHANGED <<request, told, file>>,
           phase' = phase \/ (Up /\ Up' /\ phase' \in Phase)
    PROVE  SInv'
<1> USE DEF SInv
<1>1. IInv'
  BY ClockKeeps
<1>2. GrantsArmed' /\ Minted' = Minted
  BY DEF GrantsArmed, Minted
<1>3. ~Up' => ~Up
  BY DEF Up
<1>4. ~Up' => NothingInMemory'
  BY <1>3 DEF NothingInMemory
<1> QED
  BY <1>1, <1>2, <1>4

(* A start from the file, or without one, keeps the invariant. *)
LEMMA RestartServes ==
    ASSUME SInv, Restart
    PROVE  SInv'
<1>1. /\ ~Up /\ phase' = "running"
      /\ UNCHANGED <<now, closed, request, told, file>>
  BY DEF Restart
<1>2. PICK saved \in {file, None} :
        \/ saved # None /\ Restore(saved)
        \/ saved = None /\ UNCHANGED <<holder, queue, lease, slot>>
  BY DEF Restart, LoadFile
<1>3. NothingInMemory /\ IInv /\ GrantsArmed
  BY <1>1 DEF SInv
<1>4. IInv' /\ GrantsArmed' /\ Minted' = Minted
  <2>1. CASE saved # None /\ Restore(saved)
    <3>1. saved \in Snapshots /\ Restorable(saved, Minted)
      BY <1>2, <2>1 DEF SInv
    <3>2. UNCHANGED <<now, closed>>
      BY <1>1
    <3> QED
      BY <1>3, <2>1, <3>1, <3>2, RestoreFacts
  <2>2. CASE UNCHANGED <<holder, queue, lease, slot>>
    BY <1>1, <1>3, <2>2, NextInv DEF vars, GrantsArmed, Minted
  <2> QED
    BY <1>2, <2>1, <2>2
<1>5. Up' /\ phase' \in Phase
  BY <1>1 DEF Up, Phase
<1>6. \A l \in LeaseId : slot'[l] = "none" => request'[l] = "none"
  BY <1>1, <1>4 DEF SInv, Minted
<1> QED
  BY <1>1, <1>4, <1>5, <1>6 DEF SInv

(* The invariant holds of the first process, which finds no file. *)
LEMMA ServerInitInv == ServerInit => SInv
<1> SUFFICES ASSUME ServerInit
             PROVE  SInv
  OBVIOUS
<1>1. IInv
  BY InitInv DEF ServerInit
<1>2. /\ phase = "running" /\ file = None
      /\ request = [l \in LeaseId |-> "none"]
      /\ told = [l \in LeaseId |-> 0]
      /\ slot = [l \in LeaseId |-> "none"]
  BY DEF ServerInit, Init
<1>3. GrantsArmed /\ phase \in Phase /\ Up
  BY <1>2 DEF GrantsArmed, Phase, Up
<1>4. request \in [LeaseId -> RequestState]
  BY <1>2 DEF RequestState
<1> QED
  BY <1>1, <1>2, <1>3, <1>4 DEF SInv

(* The time of the server stays within its bounds. *)
LEMMA WaitFacts ==
    ASSUME TypeOK, Wait
    PROVE  /\ now' \in Time
           /\ ~ClockSteps => now <= now'
           /\ UNCHANGED <<holder, queue, lease, slot, closed>>
           /\ UNCHANGED <<phase, request, told, file>>
<1>1. CASE Tick
  BY <1>1 DEF Tick, Wait, TypeOK, Time
<1>2. CASE ClockStep
  <2>1. now \in Time /\ now' \in 0..(now - 1)
    BY <1>2 DEF ClockStep, TypeOK
  <2> QED
    BY <1>2, <2>1 DEF ClockStep, Wait, Time
<1> QED
  BY <1>1, <1>2 DEF Wait

(* Every step of the server keeps the invariant. *)
LEMMA ServerNextInv == SInv /\ [ServerNext]_serverVars => SInv'
<1> SUFFICES ASSUME SInv, [ServerNext]_serverVars
             PROVE  SInv'
  OBVIOUS
<1>1. ASSUME NEW l \in LeaseId, NEW want \in Wanted, NEW prio \in Priority,
             NEW ttl \in Ttl, NEW wait \in WaitTimeout, Acquire(l, want, prio, ttl, wait)
      PROVE  SInv'
  BY <1>1, AcquireServes
<1>2. ASSUME NEW l \in LeaseId, HandlerResume(l)
      PROVE  SInv'
  BY <1>2, ResumeServes
<1>3. ASSUME NEW l \in LeaseId, HandlerTimeout(l)
      PROVE  SInv'
  BY <1>3, TimeoutServes
<1>4. ASSUME NEW l \in LeaseId, ReleaseCall(l)
      PROVE  SInv'
  BY <1>4, ReleaseCallServes
<1>5. ASSUME NEW g \in Gpu, NEW ttl \in Ttl \cup {None}, RenewCall(g, ttl)
      PROVE  SInv'
  BY <1>5, RenewCallServes
<1>6. ASSUME NEW g \in Gpu, Expire(g)
      PROVE  SInv'
  BY <1>6, ExpireServes
<1>7. ASSUME NEW g \in Gpu, CloseQueue(g)
      PROVE  SInv'
  BY <1>7, CloseQueueServes
<1>8. now \in Time
  BY DEF SInv, IInv, TypeOK
<1>9. CASE Sigterm
  BY <1>8, <1>9, QuietServes DEF Sigterm, Up, Phase
<1>10. CASE Exit
  BY <1>10, LoseMemoryStep DEF Exit, FinalWrite
<1>11. CASE Crash
  BY <1>11, LoseMemoryStep DEF Crash
<1>12. CASE Restart
  BY <1>12, RestartServes
<1>13. CASE Wait
  <2>1. TypeOK
    BY DEF SInv, IInv
  <2> QED
    BY <1>13, <2>1, WaitFacts, QuietServes
<1>14. CASE UNCHANGED serverVars
  BY <1>8, <1>14, QuietServes DEF serverVars
<1> QED
  BY <1>1, <1>2, <1>3, <1>4, <1>5, <1>6, <1>7, <1>9, <1>10, <1>11, <1>12, <1>13, <1>14
  DEF ServerNext

(* In every reachable state of the server its invariant holds, whatever the *)
(* host, the disk, the clock and the clients do.                           *)
THEOREM ServerInvariance == ServerSpec => []SInv
BY ServerInitInv, ServerNextInv, PTL DEF ServerSpec

(* Every variable of the server keeps its type, whatever becomes of the     *)
(* process, its file and its clock.                                        *)
THEOREM ServerTypeCorrect == ServerSpec => []ServerTypeOK
<1>1. SInv => ServerTypeOK
  BY DEF SInv, IInv, ServerTypeOK
<1> QED
  BY <1>1, ServerInvariance, PTL

(* The queues of the server are as GpuQueue promises, through shutdowns,    *)
(* crashes and restarts: every lease in one place, slots that tell the      *)
(* truth, lines in order.  What a restart puts back was so when it was     *)
(* saved.                                                                  *)
THEOREM ServerQueuesIntact == ServerSpec => []IInv
<1>1. SInv => IInv
  BY DEF SInv
<1> QED
  BY <1>1, ServerInvariance, PTL

(* No lease of the server, restored or not, waits for an idle GPU or at a   *)
(* closed queue.                                                           *)
THEOREM ServerNobodyStranded == ServerSpec => []NobodyStranded
<1>1. SInv => NobodyStranded
  BY DEF SInv, IInv
<1> QED
  BY <1>1, ServerInvariance, PTL
-----------------------------------------------------------------------------
(* The server keeps its word, if its file can be written, the clock is not  *)
(* set back and only its client releases or renews a lease.                *)
WordAssumption == Persistent /\ ~DiskFaults /\ ~Strangers /\ ~ClockSteps

(* A crash at this moment would lose no holder and no expiry. *)
Synced ==
    \A g \in Gpu : holder[g] # None =>
        /\ file # None
        /\ file.holder[g] = holder[g]
        /\ file.lease[holder[g]] = lease[holder[g]]

(* A handler that was woken with `granted` and has not run yet will tell    *)
(* its client the truth: its lease still holds its GPU or has run out.     *)
Pending(l) ==
    request[l] = "waiting" /\ slot[l] = "granted" =>
        (\E g \in Gpu : holder[g] = l) \/ lease[l].expires_at <= now

(* What the client of l was told is what the server has in memory, or in    *)
(* its file when it is down.                                               *)
Promise(l) ==
    Relies(l) =>
        \E g \in Gpu :
            /\ lease[l].gpu = g
            /\ Up => holder[g] = l /\ told[l] = lease[l].expires_at
            /\ ~Up => /\ file # None
                      /\ file.holder[g] = l
                      /\ told[l] = file.lease[l].expires_at

(* The invariant behind LeaseHonoured and NoTwoRely. *)
WordInv ==
    /\ Up => Synced
    /\ \A l \in LeaseId : Promise(l) /\ (Up => Pending(l))

(* A snapshot names every holder, with its lease. *)
LEMMA SnapshotNamesHolders ==
    IInv => \A g \in Gpu : holder[g] # None =>
              /\ Snapshot.holder[g] = holder[g]
              /\ Snapshot.lease[holder[g]] = lease[holder[g]]
<1> SUFFICES ASSUME IInv, NEW g \in Gpu, holder[g] # None
             PROVE  /\ Snapshot.holder[g] = holder[g]
                    /\ Snapshot.lease[holder[g]] = lease[holder[g]]
  OBVIOUS
<1>1. holder[g] \in LeaseId
  BY QueueFacts
<1> QED
  BY <1>1 DEF Snapshot, SavedLeases, InPlace

(* A flush that succeeds brings the file up to date. *)
LEMMA FlushSyncs ==
    ASSUME WordAssumption, IInv', Flush
    PROVE  Synced'
<1>1. (IInv => \A g \in Gpu : holder[g] # None =>
              /\ Snapshot.holder[g] = holder[g]
              /\ Snapshot.lease[holder[g]] = lease[holder[g]])'
  BY SnapshotNamesHolders, PTL
<1>2. (IInv => Snapshot \in Snapshots /\ Restorable(Snapshot, Minted))'
  BY SnapshotRestorable, PTL
<1>3. file' = Snapshot'
  BY DEF Flush, WriteFile, WordAssumption
<1>4. file' # None
  BY <1>2, <1>3, NoneIsNoSnapshot
<1> QED
  BY <1>1, <1>3, <1>4 DEF Synced

(* A lease that a step does not concern keeps its promise: it is still the  *)
(* holder, unless it had run out.                                          *)
LEMMA Bystander ==
    ASSUME SInv, IInv', WordInv, Up, Up', NEW m \in LeaseId,
           now' \in Nat, now <= now',
           request'[m] = request[m], told'[m] = told[m],
           slot[m] = "granted" => lease'[m] = lease[m],
           slot'[m] = "granted" => slot[m] = "granted" \/ \E g \in Gpu : holder'[g] = m,
           \A g \in Gpu : holder[g] = m /\ holder'[g] # m => lease[m].expires_at <= now
    PROVE  Promise(m)' /\ Pending(m)'
<1>1. /\ now \in Nat /\ told[m] \in Nat
      /\ lease[m].expires_at \in Nat \cup {NotGranted}
  <2>1. now \in Time /\ lease[m] \in Lease /\ told[m] \in Nat
    BY DEF SInv, IInv, TypeOK
  <2> QED
    BY <2>1 DEF Time, Lease
<1>2. ASSUME Relies(m)'
      PROVE  \E g \in Gpu : lease'[m].gpu = g /\ holder'[g] = m /\ told'[m] = lease'[m].expires_at
  <2>1. told[m] > now
    BY <1>1, <1>2 DEF Relies
  <2>2. PICK g \in Gpu : holder[g] = m /\ told[m] = lease[m].expires_at
    BY <2>1 DEF WordInv, Promise, Relies
  <2>3. ~(lease[m].expires_at <= now)
    BY <1>1, <2>1, <2>2
  <2>4. holder'[g] = m /\ slot[m] = "granted"
    BY <2>2, <2>3 DEF SInv, IInv, SlotsTruthful
  <2>5. lease'[m] = lease[m] /\ lease'[m].gpu = g
    BY <2>4 DEF IInv, OnePlace
  <2> QED
    BY <2>2, <2>4, <2>5
<1>3. Promise(m)'
  BY <1>2 DEF Promise
<1>4. Pending(m)'
  <2> SUFFICES ASSUME request'[m] = "waiting", slot'[m] = "granted",
                      \A g \in Gpu : holder'[g] # m
               PROVE  lease'[m].expires_at <= now'
    BY DEF Pending
  <2>1. slot[m] = "granted" /\ lease'[m] = lease[m] /\ request[m] = "waiting"
    OBVIOUS
  <2>2. lease[m].expires_at <= now
    BY <2>1 DEF WordInv, Pending
  <2> QED
    BY <1>1, <2>1, <2>2 DEF NotGranted
<1> QED
  BY <1>3, <1>4

(* The client of l is answered with the expiry of the lease it holds, or it *)
(* relies on nothing.                                                      *)
LEMMA ToldTheTruth ==
    ASSUME IInv', Up', NEW l \in LeaseId, now' \in Nat, told'[l] \in Nat,
           request'[l] # "waiting" \/ slot'[l] # "granted",
           \/ told'[l] = 0
           \/ told'[l] = lease'[l].expires_at /\ lease'[l].expires_at <= now'
           \/ told'[l] = lease'[l].expires_at /\ \E g \in Gpu : holder'[g] = l
    PROVE  Promise(l)' /\ Pending(l)'
<1>1. ASSUME Relies(l)'
      PROVE  \E g \in Gpu : lease'[l].gpu = g /\ holder'[g] = l /\ told'[l] = lease'[l].expires_at
  <2>1. told'[l] > now'
    BY <1>1 DEF Relies
  <2>2. told'[l] # 0
    BY <2>1
  <2>3. ~(told'[l] = lease'[l].expires_at /\ lease'[l].expires_at <= now')
    BY <2>1
  <2>4. PICK g \in Gpu : holder'[g] = l /\ told'[l] = lease'[l].expires_at
    BY <2>2, <2>3
  <2> QED
    BY <2>4 DEF IInv, OnePlace
<1> QED
  BY <1>1 DEF Promise, Pending

(* A request that is granted, or queued, at once. *)
LEMMA AcquireWord ==
    ASSUME WordAssumption, SInv, SInv', WordInv,
           NEW l \in LeaseId, NEW want \in Wanted, NEW prio \in Priority,
           NEW ttl \in Ttl, NEW wait \in WaitTimeout, Acquire(l, want, prio, ttl, wait)
    PROVE  WordInv'
<1> DEFINE g == ResolveGpu(want)
<1>1. g \in Gpu
  BY ResolvedIsGpu DEF SInv, IInv
<1>2. /\ Enqueue(g, l, prio, ttl, wait) /\ Flush /\ phase' = phase /\ Up
      /\ IInv /\ IInv'
  BY DEF Acquire, SInv, Serving, Up
<1>3. IF slot'[l] = "granted"
      THEN /\ request' = [request EXCEPT ![l] = "granted"]
           /\ told' = [told EXCEPT ![l] = lease'[l].expires_at]
      ELSE /\ request' = [request EXCEPT ![l] = "waiting"]
           /\ told' = told
  BY DEF Acquire
<1> HIDE DEF g
<1>4. /\ GrantsKept(g)
      /\ slot[l] = "none"
      /\ slot'[l] \in {"granted", "waiting"}
      /\ \A m \in LeaseId : m # l => slot'[m] = slot[m] /\ lease'[m] = lease[m]
      /\ holder[g] # None => holder'[g] = holder[g] /\ slot'[l] = "waiting"
      /\ holder[g] = None => holder'[g] = l /\ slot'[l] = "granted"
  BY ONLY <1>1, <1>2, EnqueueKeeps, QueueAssumption
<1>5. /\ now' = now /\ now \in Nat
      /\ \A k \in Gpu : holder[k] # None => holder'[k] = holder[k]
  <2>1. now' = now /\ \A k \in Gpu \ {g} : holder'[k] = holder[k]
    BY <1>4 DEF GrantsKept
  <2>2. now \in Nat
    BY <1>2 DEF IInv, TypeOK, Time
  <2> QED
    BY <1>1, <1>4, <2>1, <2>2
<1>6. Up'
  BY <1>2 DEF Up
<1>7. Synced'
  BY <1>2, FlushSyncs
<1>8. ASSUME NEW m \in LeaseId, m # l
      PROVE  Promise(m)' /\ Pending(m)'
  <2>1. request'[m] = request[m] /\ told'[m] = told[m]
    BY <1>3, <1>8 DEF SInv
  <2>2. \A k \in Gpu : ~(holder[k] = m /\ holder'[k] # m)
    BY <1>5
  <2> QED
    BY <1>2, <1>4, <1>5, <1>6, <1>8, <2>1, <2>2, Bystander
<1>9. Promise(l)' /\ Pending(l)'
  <2>1. told[l] = 0 /\ told \in [LeaseId -> Nat] /\ request \in [LeaseId -> RequestState]
    BY <1>4 DEF SInv
  <2>2. CASE slot'[l] = "granted"
    <3>1. holder'[g] = l /\ told'[l] = lease'[l].expires_at /\ request'[l] = "granted"
      BY <1>3, <1>4, <2>1, <2>2
    <3>2. told'[l] \in Nat
      BY DEF SInv
    <3> QED
      BY <1>1, <1>2, <1>5, <1>6, <3>1, <3>2, ToldTheTruth
  <2>3. CASE slot'[l] # "granted"
    <3>1. told'[l] = 0
      BY <1>3, <2>1, <2>3
    <3> QED
      BY <1>2, <1>5, <1>6, <2>3, <3>1, ToldTheTruth
  <2> QED
    BY <2>2, <2>3
<1> QED
  BY <1>6, <1>7, <1>8, <1>9 DEF WordInv

(* A handler that wakes up: between the promotion and this moment nothing   *)
(* took the GPU away but the end of the lease.                             *)
LEMMA ResumeWord ==
    ASSUME SInv, SInv', WordInv, NEW l \in LeaseId, HandlerResume(l)
    PROVE  WordInv'
<1>1. /\ Up /\ request[l] = "waiting" /\ slot[l] # "waiting"
      /\ request' = [request EXCEPT ![l] = AnswerTo(slot[l])]
      /\ told' = IF slot[l] = "granted" THEN [told EXCEPT ![l] = lease[l].expires_at] ELSE told
      /\ now' = now /\ holder' = holder /\ lease' = lease /\ slot' = slot
      /\ phase' = phase /\ file' = file
  BY DEF HandlerResume
<1>2. /\ IInv' /\ Up' /\ now \in Nat
      /\ request \in [LeaseId -> RequestState] /\ told \in [LeaseId -> Nat]
      /\ told' \in [LeaseId -> Nat]
  <2>1. now \in Time
    BY DEF SInv, IInv, TypeOK
  <2> QED
    BY <1>1, <2>1 DEF SInv, Up, Time
<1>3. Synced'
  BY <1>1 DEF WordInv, Synced
<1>4. ASSUME NEW m \in LeaseId, m # l
      PROVE  Promise(m)' /\ Pending(m)'
  <2>1. request'[m] = request[m] /\ told'[m] = told[m]
    BY <1>1, <1>2, <1>4
  <2> QED
    BY <1>1, <1>2, <2>1, Bystander
<1>5. Promise(l)' /\ Pending(l)'
  <2>1. AnswerTo(slot[l]) # "waiting"
    BY DEF AnswerTo
  <2>2. request'[l] # "waiting"
    BY <1>1, <1>2, <2>1
  <2>3. CASE slot[l] = "granted"
    <3>1. told'[l] = lease'[l].expires_at
      BY <1>1, <1>2, <2>3
    <3>2. (\E g \in Gpu : holder'[g] = l) \/ lease'[l].expires_at <= now'
      BY <1>1, <2>3 DEF WordInv, Pending
    <3> QED
      BY <1>1, <1>2, <2>2, <3>1, <3>2, ToldTheTruth
  <2>4. CASE slot[l] # "granted"
    <3>1. told'[l] = 0
      BY <1>1, <2>4 DEF SInv
    <3> QED
      BY <1>1, <1>2, <2>2, <3>1, ToldTheTruth
  <2> QED
    BY <2>3, <2>4
<1> QED
  BY <1>2, <1>3, <1>4, <1>5 DEF WordInv

(* A lease that is given back, by the handler's timer or by its client:     *)
(* its client relies on nothing, and nobody else's GPU changed hands.      *)
LEMMA GiveBackWord ==
    ASSUME WordAssumption, SInv, SInv', WordInv, NEW l \in LeaseId, Up, ReleaseLease(l),
           phase' = phase, told'[l] = 0, request'[l] # "waiting",
           \A m \in LeaseId : m # l => request'[m] = request[m] /\ told'[m] = told[m]
    PROVE  WordInv'
<1>1. /\ FleetKept
      /\ \A g \in Gpu : holder'[g] # holder[g] => holder[g] = l
      /\ IInv'
  BY ReleaseLeaseFacts DEF SInv
<1>2. /\ Up' /\ now' = now /\ now \in Nat
  <2>1. now \in Time
    BY DEF SInv, IInv, TypeOK
  <2> QED
    BY <1>1, <2>1 DEF Up, Time, FleetKept
<1>3. Synced'
  <2>1. CASE Flush
    BY <1>1, <2>1, FlushSyncs
  <2>2. CASE UNCHANGED <<now, holder, queue, lease, slot, closed, file>>
    BY <2>2 DEF WordInv, Synced
  <2> QED
    BY <2>1, <2>2 DEF ReleaseLease
<1>4. ASSUME NEW m \in LeaseId, m # l
      PROVE  Promise(m)' /\ Pending(m)'
  <2>1. /\ slot[m] = "granted" => lease'[m] = lease[m]
        /\ slot'[m] = "granted" => slot[m] = "granted" \/ \E g \in Gpu : holder'[g] = m
    BY <1>1 DEF FleetKept
  <2>2. \A g \in Gpu : ~(holder[g] = m /\ holder'[g] # m)
    BY <1>1, <1>4
  <2> QED
    BY <1>1, <1>2, <1>4, <2>1, <2>2, Bystander
<1>5. Promise(l)' /\ Pending(l)'
  BY <1>1, <1>2, ToldTheTruth
<1> QED
  BY <1>2, <1>3, <1>4, <1>5 DEF WordInv

LEMMA TimeoutWord ==
    ASSUME WordAssumption, SInv, SInv', WordInv, NEW l \in LeaseId, HandlerTimeout(l)
    PROVE  WordInv'
<1>1. /\ Up /\ ReleaseLease(l) /\ phase' = phase /\ told' = told
      /\ request[l] = "waiting"
      /\ request' = [request EXCEPT ![l] = "timeout"]
  BY DEF HandlerTimeout
<1>2. /\ told'[l] = 0 /\ request'[l] = "timeout"
      /\ \A m \in LeaseId : m # l => request'[m] = request[m] /\ told'[m] = told[m]
  BY <1>1 DEF SInv
<1> QED
  BY <1>1, <1>2, GiveBackWord

LEMMA ReleaseCallWord ==
    ASSUME WordAssumption, SInv, SInv', WordInv, NEW l \in LeaseId, ReleaseCall(l)
    PROVE  WordInv'
<1>1. /\ Up /\ ReleaseLease(l) /\ phase' = phase /\ request' = request
      /\ request[l] = "granted"
      /\ told' = [told EXCEPT ![l] = 0]
  BY DEF ReleaseCall, Serving, Up, WordAssumption
<1>2. /\ told'[l] = 0 /\ request'[l] = "granted"
      /\ \A m \in LeaseId : m # l => request'[m] = request[m] /\ told'[m] = told[m]
  BY <1>1 DEF SInv
<1> QED
  BY <1>1, <1>2, GiveBackWord

(* A renewal: its client is told the new expiry, and the file has it. *)
LEMMA RenewCallWord ==
    ASSUME WordAssumption, SInv, SInv', WordInv,
           NEW g \in Gpu, NEW ttl \in Ttl \cup {None}, RenewCall(g, ttl)
    PROVE  WordInv'
<1>0. PICK l \in LeaseId : l = holder[g]
  BY RenewKeeps DEF RenewCall, SInv
<1>1. /\ Up /\ Renew(g, ttl) /\ Flush /\ phase' = phase /\ request' = request
      /\ request[l] = "granted"
      /\ told' = [told EXCEPT ![l] = lease'[l].expires_at]
  BY <1>0 DEF RenewCall, Serving, Up, WordAssumption
<1>2. IInv /\ IInv' /\ told \in [LeaseId -> Nat] /\ told' \in [LeaseId -> Nat]
  BY DEF SInv
<1>3. /\ \A m \in LeaseId : m # l => lease'[m] = lease[m]
      /\ now' = now /\ holder' = holder /\ slot' = slot
  BY <1>0, <1>1, <1>2, RenewKeeps
<1>4. holder'[g] = l
  BY <1>0, <1>3
<1>5. Up' /\ now \in Nat
  <2>1. now \in Time
    BY <1>2 DEF IInv, TypeOK
  <2> QED
    BY <1>1, <2>1 DEF Up, Time
<1>6. Synced'
  BY <1>1, <1>2, FlushSyncs
<1>7. ASSUME NEW m \in LeaseId, m # l
      PROVE  Promise(m)' /\ Pending(m)'
  <2>1. told'[m] = told[m]
    BY <1>1, <1>2, <1>7
  <2> QED
    BY <1>1, <1>2, <1>3, <1>5, <1>7, <2>1, Bystander
<1>8. Promise(l)' /\ Pending(l)'
  <2>1. /\ told'[l] = lease'[l].expires_at /\ request'[l] # "waiting"
        /\ \E k \in Gpu : holder'[k] = l
    BY <1>1, <1>2, <1>3, <1>4
  <2> QED
    BY <1>2, <1>3, <1>5, <2>1, ToldTheTruth
<1> QED
  BY <1>3, <1>5, <1>6, <1>7, <1>8 DEF WordInv

(* The ticker takes a GPU away only from a client whose lease has run out. *)
LEMMA ExpireWord ==
    ASSUME WordAssumption, SInv, SInv', WordInv, NEW g \in Gpu, Expire(g)
    PROVE  WordInv'
<1>1. /\ Up /\ ExpireNow(g) /\ Flush /\ phase' = phase /\ request' = request /\ told' = told
  BY DEF Expire
<1>2. IInv /\ IInv'
  BY DEF SInv
<1>3. /\ GrantsKept(g)
      /\ holder'[g] # holder[g] => lease[holder[g]].expires_at <= now
  BY <1>1, <1>2, ExpireNowKeeps
<1>4. \A k \in Gpu : holder'[k] # holder[k] => lease[holder[k]].expires_at <= now
  <2>1. \A k \in Gpu : k # g => holder'[k] = holder[k]
    BY <1>3 DEF GrantsKept
  <2> QED
    BY <1>3, <2>1
<1>5. Up' /\ now \in Nat /\ now' = now
  <2>1. now \in Time
    BY <1>2 DEF IInv, TypeOK
  <2> QED
    BY <1>1, <1>3, <2>1 DEF Up, Time, GrantsKept
<1>6. Synced'
  BY <1>1, <1>2, FlushSyncs
<1>7. ASSUME NEW m \in LeaseId
      PROVE  Promise(m)' /\ Pending(m)'
  <2>1. /\ slot[m] = "granted" => lease'[m] = lease[m]
        /\ slot'[m] = "granted" => slot[m] = "granted" \/ \E k \in Gpu : holder'[k] = m
    BY <1>3 DEF GrantsKept
  <2>2. \A k \in Gpu : holder[k] = m /\ holder'[k] # m => lease[m].expires_at <= now
    BY <1>4
  <2>3. request'[m] = request[m] /\ told'[m] = told[m]
    BY <1>1
  <2> QED
    BY <1>1, <1>2, <1>5, <2>1, <2>2, <2>3, Bystander
<1> QED
  BY <1>5, <1>6, <1>7 DEF WordInv

(* shutdown, SIGTERM and time leave holders and what they were told alone. *)
LEMMA HoldersStayWord ==
    ASSUME SInv, SInv', WordInv, Up, Up', now' \in Nat, now <= now',
           UNCHANGED <<holder, lease, request, told, file>>,
           \A m \in LeaseId : slot'[m] = "granted" => slot[m] = "granted" \/ \E k \in Gpu : holder'[k] = m
    PROVE  WordInv'
<1>1. IInv'
  BY DEF SInv
<1>2. Synced'
  BY DEF WordInv, Synced
<1>3. ASSUME NEW m \in LeaseId
      PROVE  Promise(m)' /\ Pending(m)'
  BY <1>1, Bystander
<1> QED
  BY <1>2, <1>3 DEF WordInv

(* The end of the process: what it held is in the file. *)
LEMMA EndWord ==
    ASSUME WordAssumption, SInv, SInv', WordInv, Up, ~Up', LoseMemory,
           file' = Snapshot \/ file' = file
    PROVE  WordInv'
<1>1. /\ now' = now /\ lease' = lease /\ told' = told
      /\ IInv
  BY DEF LoseMemory, SInv
<1>2. ASSUME NEW m \in LeaseId
      PROVE  Promise(m)'
  <2> SUFFICES ASSUME told[m] > now
               PROVE  \E g \in Gpu : /\ lease[m].gpu = g
                                     /\ file' # None
                                     /\ file'.holder[g] = m
                                     /\ told[m] = file'.lease[m].expires_at
    BY <1>1 DEF Promise, Relies
  <2>1. PICK g \in Gpu : lease[m].gpu = g /\ holder[g] = m /\ told[m] = lease[m].expires_at
    BY DEF WordInv, Promise, Relies
  <2>2. holder[g] # None
    BY <2>1
  <2>3. CASE file' = Snapshot
    <3>1. Snapshot \in Snapshots
      BY <1>1, SnapshotRestorable
    <3>2. Snapshot.holder[g] = m /\ Snapshot.lease[m] = lease[m]
      BY <1>1, <2>1, <2>2, SnapshotNamesHolders
    <3> QED
      BY <2>1, <2>3, <3>1, <3>2, NoneIsNoSnapshot
  <2>4. CASE file' = file
    BY <2>1, <2>2, <2>4 DEF WordInv, Synced
  <2> QED
    BY <2>3, <2>4
<1> QED
  BY <1>2 DEF WordInv

(* A restart honours what the last process promised. *)
LEMMA RestartWord ==
    ASSUME WordAssumption, SInv, SInv', WordInv, Restart
    PROVE  WordInv'
<1>1. /\ ~Up /\ phase' = "running"
      /\ now' = now /\ closed' = closed /\ request' = request /\ told' = told /\ file' = file
      /\ \/ file # None /\ Restore(file)
         \/ file = None /\ UNCHANGED <<holder, queue, lease, slot>>
  BY DEF Restart, LoadFile, WordAssumption
<1>2. Up' /\ NothingInMemory /\ IInv /\ IInv'
  BY <1>1 DEF Up, SInv
<1>3. \A m \in LeaseId : request'[m] # "waiting"
  BY <1>1, <1>2 DEF NothingInMemory
<1>4. CASE file # None /\ Restore(file)
  <2>1. /\ file \in Snapshots /\ Restorable(file, Minted) /\ UNCHANGED <<now, closed>>
    BY <1>1, <1>4 DEF SInv
  <2>2. /\ holder' = file.holder
        /\ \A g \in Gpu, m \in LeaseId : m = file.holder[g] => lease'[m] = file.lease[m]
    BY <1>2, <1>4, <2>1, RestoreFacts
  <2>3. Synced'
    <3>1. \A g \in Gpu : holder'[g] # None => holder'[g] \in LeaseId
      BY <1>2 DEF IInv, TypeOK
    <3> QED
      BY <1>1, <1>4, <2>2, <3>1 DEF Synced
  <2>4. ASSUME NEW m \in LeaseId
        PROVE  Promise(m)'
    <3> SUFFICES ASSUME told[m] > now
                 PROVE  \E g \in Gpu : /\ lease'[m].gpu = g
                                       /\ holder'[g] = m
                                       /\ told[m] = lease'[m].expires_at
      BY <1>1, <1>2 DEF Promise, Relies
    <3>1. PICK g \in Gpu : file.holder[g] = m /\ told[m] = file.lease[m].expires_at
      BY <1>1 DEF WordInv, Promise, Relies
    <3>2. holder'[g] = m /\ lease'[m] = file.lease[m]
      BY <2>2, <3>1
    <3>3. lease'[m].gpu = g
      BY <1>2, <3>2 DEF IInv, OnePlace
    <3> QED
      BY <3>1, <3>2, <3>3
  <2> QED
    BY <1>3, <2>3, <2>4 DEF WordInv, Pending
<1>5. CASE file = None /\ UNCHANGED <<holder, queue, lease, slot>>
  <2>1. \A m \in LeaseId : ~Relies(m)
    BY <1>1, <1>5 DEF WordInv, Promise
  <2>2. \A m \in LeaseId : Promise(m)'
    BY <1>1, <2>1 DEF Promise, Relies
  <2>3. Synced'
    BY <1>2, <1>5 DEF Synced, NothingInMemory
  <2> QED
    BY <1>3, <2>2, <2>3 DEF WordInv, Pending
<1> QED
  BY <1>1, <1>4, <1>5

(* Every step keeps the word. *)
LEMMA WordStep ==
    ASSUME WordAssumption, SInv, SInv', WordInv, [ServerNext]_serverVars
    PROVE  WordInv'
<1>1. ASSUME NEW l \in LeaseId, NEW want \in Wanted, NEW prio \in Priority,
             NEW ttl \in Ttl, NEW wait \in WaitTimeout, Acquire(l, want, prio, ttl, wait)
      PROVE  WordInv'
  BY <1>1, AcquireWord
<1>2. ASSUME NEW l \in LeaseId, HandlerResume(l)
      PROVE  WordInv'
  BY <1>2, ResumeWord
<1>3. ASSUME NEW l \in LeaseId, HandlerTimeout(l)
      PROVE  WordInv'
  BY <1>3, TimeoutWord
<1>4. ASSUME NEW l \in LeaseId, ReleaseCall(l)
      PROVE  WordInv'
  BY <1>4, ReleaseCallWord
<1>5. ASSUME NEW g \in Gpu, NEW ttl \in Ttl \cup {None}, RenewCall(g, ttl)
      PROVE  WordInv'
  BY <1>5, RenewCallWord
<1>6. ASSUME NEW g \in Gpu, Expire(g)
      PROVE  WordInv'
  BY <1>6, ExpireWord
<1>7. now \in Nat /\ TypeOK /\ IInv
  <2>1. now \in Time /\ TypeOK /\ IInv
    BY DEF SInv, IInv, TypeOK
  <2> QED
    BY <2>1 DEF Time
<1>8. ASSUME NEW g \in Gpu, CloseQueue(g)
      PROVE  WordInv'
  <2>1. /\ Up /\ Up' /\ Shutdown(g) /\ UNCHANGED <<request, told, file>>
    BY <1>8 DEF CloseQueue, Drained, Up
  <2>2. GrantsKept(g) /\ holder' = holder /\ lease' = lease
    BY <1>7, <2>1, ShutdownKeeps
  <2>3. /\ now' = now
        /\ \A m \in LeaseId : slot'[m] = "granted" =>
             slot[m] = "granted" \/ \E k \in Gpu : holder'[k] = m
    BY <2>2 DEF GrantsKept
  <2>4. now' \in Nat /\ now <= now' /\ UNCHANGED <<holder, lease, request, told, file>>
    BY <1>7, <2>1, <2>2, <2>3
  <2> QED
    BY <2>1, <2>3, <2>4, HoldersStayWord
<1>9. CASE /\ phase' = phase \/ (Up /\ Up')
           /\ UNCHANGED <<holder, queue, lease, slot, closed, request, told, file>>
           /\ now' \in Nat /\ now <= now'
  <2>1. CASE Up
    <3>1. Up'
      BY <1>9, <2>1 DEF Up
    <3> QED
      BY <1>9, <2>1, <3>1, HoldersStayWord
  <2>2. CASE ~Up
    <3>1. ~Up' /\ \A m \in LeaseId : told[m] \in Nat
      BY <1>9, <2>2 DEF Up, SInv
    <3>2. \A m \in LeaseId : Relies(m)' => Relies(m)
      BY <1>7, <1>9, <3>1 DEF Relies
    <3>3. \A m \in LeaseId : Promise(m)'
      BY <1>9, <2>2, <3>1, <3>2 DEF WordInv, Promise
    <3> QED
      BY <3>1, <3>3 DEF WordInv
  <2> QED
    BY <2>1, <2>2
<1>10. CASE Sigterm
  <2>1. Up /\ Up' /\ now' = now /\ now <= now'
    BY <1>7, <1>10 DEF Sigterm, Up
  <2> QED
    BY <1>7, <1>9, <1>10, <2>1 DEF Sigterm
<1>11. CASE Exit
  BY <1>11, EndWord DEF Exit, ShutdownOver, Drained, FinalWrite, WriteFile, WordAssumption, Up
<1>12. CASE Crash
  BY <1>12, EndWord DEF Crash, Up
<1>13. CASE Restart
  BY <1>13, RestartWord
<1>14. CASE Wait
  <2>1. /\ now' \in Time /\ now <= now'
        /\ UNCHANGED <<holder, queue, lease, slot, closed, phase, request, told, file>>
    BY <1>7, <1>14, WaitFacts DEF WordAssumption
  <2> QED
    BY <1>9, <2>1 DEF Time
<1>15. CASE UNCHANGED serverVars
  <2>1. now <= now /\ now' = now
    BY <1>7, <1>15 DEF serverVars
  <2> QED
    BY <1>7, <1>9, <1>15, <2>1 DEF serverVars
<1> QED
  BY <1>1, <1>2, <1>3, <1>4, <1>5, <1>6, <1>8, <1>10, <1>11, <1>12, <1>13, <1>14, <1>15
  DEF ServerNext

(* The first process has promised nothing. *)
LEMMA WordInit == ServerInit => WordInv
<1> SUFFICES ASSUME ServerInit
             PROVE  WordInv
  OBVIOUS
<1>1. /\ \A l \in LeaseId : told[l] = 0 /\ slot[l] = "none"
      /\ now = 0 /\ \A g \in Gpu : holder[g] = None
  BY DEF ServerInit, Init
<1> QED
  BY <1>1 DEF WordInv, Synced, Promise, Relies, Pending

(* What handlers, file and memory must agree on, in every reachable state. *)
THEOREM WordInvariance ==
    ASSUME WordAssumption
    PROVE  ServerSpec => []WordInv
<1>1. ServerInit => WordInv
  BY WordInit
<1>2. SInv /\ SInv' /\ WordInv /\ [ServerNext]_serverVars => WordInv'
  BY WordStep
<1> QED
  BY <1>1, <1>2, ServerInvariance, PTL DEF ServerSpec

(* The server keeps its word: whoever relies on an answer is the holder     *)
(* whenever the server is up, however often it crashed in between.         *)
THEOREM WordKept ==
    ASSUME WordAssumption
    PROVE  ServerSpec => []LeaseHonoured
<1>1. WordInv => LeaseHonoured
  <2> SUFFICES ASSUME WordInv, Up, NEW l \in LeaseId, Relies(l)
               PROVE  holder[lease[l].gpu] = l
    BY DEF LeaseHonoured
  <2> QED
    BY DEF WordInv, Promise
<1> QED
  BY <1>1, WordInvariance, PTL

(* Never do two clients rely on the same GPU. *)
THEOREM MutualExclusion ==
    ASSUME WordAssumption
    PROVE  ServerSpec => []NoTwoRely
<1>1. WordInv => NoTwoRely
  <2> SUFFICES ASSUME WordInv, NEW l \in LeaseId, NEW m \in LeaseId,
                      l # m, Relies(l), Relies(m), lease[l].gpu = lease[m].gpu
               PROVE  FALSE
    BY DEF NoTwoRely
  <2>1. PICK g \in Gpu : /\ lease[l].gpu = g
                         /\ Up => holder[g] = l
                         /\ ~Up => file.holder[g] = l
    BY DEF WordInv, Promise
  <2>2. PICK h \in Gpu : /\ lease[m].gpu = h
                         /\ Up => holder[h] = m
                         /\ ~Up => file.holder[h] = m
    BY DEF WordInv, Promise
  <2> QED
    BY <2>1, <2>2
<1> QED
  BY <1>1, WordInvariance, PTL
-----------------------------------------------------------------------------
(* A step that ends in a stopped process is the last flush, or the process  *)
(* was stopped before and its file is as it was.                           *)
LEMMA OnlyExitStops ==
    ASSUME SInv, [ServerNext]_serverVars, phase' = "stopped"
    PROVE  Exit \/ (phase = "stopped" /\ file' = file)
<1> USE DEF Up, Serving
<1>1. ASSUME NEW l \in LeaseId, NEW want \in Wanted, NEW prio \in Priority,
             NEW ttl \in Ttl, NEW wait \in WaitTimeout, Acquire(l, want, prio, ttl, wait)
      PROVE  FALSE
  BY <1>1 DEF Acquire
<1>2. ASSUME NEW l \in LeaseId, HandlerResume(l)
      PROVE  FALSE
  BY <1>2 DEF HandlerResume
<1>3. ASSUME NEW l \in LeaseId, HandlerTimeout(l)
      PROVE  FALSE
  BY <1>3 DEF HandlerTimeout
<1>4. ASSUME NEW l \in LeaseId, ReleaseCall(l)
      PROVE  FALSE
  BY <1>4 DEF ReleaseCall
<1>5. ASSUME NEW g \in Gpu, NEW ttl \in Ttl \cup {None}, RenewCall(g, ttl)
      PROVE  FALSE
  BY <1>5 DEF RenewCall
<1>6. ASSUME NEW g \in Gpu, Expire(g)
      PROVE  FALSE
  BY <1>6 DEF Expire
<1>7. ASSUME NEW g \in Gpu, CloseQueue(g)
      PROVE  FALSE
  BY <1>7 DEF CloseQueue
<1>8. ~Sigterm /\ ~Crash /\ ~Restart
  BY DEF Sigterm, Crash, Restart
<1>9. Wait => phase' = phase /\ file' = file
  BY DEF Wait
<1>10. UNCHANGED serverVars => phase' = phase /\ file' = file
  BY DEF serverVars
<1> QED
  BY <1>1, <1>2, <1>3, <1>4, <1>5, <1>6, <1>7, <1>8, <1>9, <1>10 DEF ServerNext

(* A stopped server has no line in its file. *)
StoppedEmpty == phase = "stopped" /\ file # None => \A g \in Gpu : file.queue[g] = <<>>

LEMMA StoppedEmptyStep ==
    ASSUME WordAssumption, ~ZeroDrain, SInv, StoppedEmpty, [ServerNext]_serverVars
    PROVE  StoppedEmpty'
<1> SUFFICES ASSUME phase' = "stopped", file' # None, NEW g \in Gpu
             PROVE  file'.queue[g] = <<>>
  BY DEF StoppedEmpty
<1>1. CASE Exit
  <2>1. file' = Snapshot /\ closed[g]
    BY <1>1 DEF Exit, FinalWrite, WriteFile, ShutdownOver, WordAssumption
  <2> QED
    BY <2>1 DEF Snapshot, SInv, IInv, NobodyStranded
<1>2. CASE phase = "stopped" /\ file' = file
  BY <1>2 DEF StoppedEmpty
<1> QED
  BY <1>1, <1>2, OnlyExitStops

(* A graceful stop leaves a file with every lease a client relies on, and   *)
(* with no waiter.                                                         *)
THEOREM StopSaves ==
    ASSUME WordAssumption, ~ZeroDrain
    PROVE  ServerSpec => []StopSavesHolders
<1>1. ServerInit => StoppedEmpty
  BY DEF ServerInit, StoppedEmpty
<1>2. SInv /\ StoppedEmpty /\ [ServerNext]_serverVars => StoppedEmpty'
  BY StoppedEmptyStep
<1>3. StoppedEmpty /\ WordInv => StopSavesHolders
  BY DEF StoppedEmpty, WordInv, StopSavesHolders, Promise, Up
<1> QED
  BY <1>1, <1>2, <1>3, ServerInvariance, WordInvariance, PTL DEF ServerSpec
-----------------------------------------------------------------------------
(* Refused requests leave nothing behind, if the host drains and the file   *)
(* can be written.  The clock may do what it wants, and strangers too.     *)
GoneAssumption == HostDrains /\ ~DiskFaults

Refused(l) == request[l] \in {"timeout", "shutdown", "error"}

(* The invariant behind RefusedIsGone: until the shutdown begins the file   *)
(* names nobody who is not in place, and then nobody waits for an answer.  *)
GoneInv ==
    /\ RefusedIsGone
    /\ phase \in {"running", "draining"} => \A l \in LeaseId : Saved(l) => InPlace(l)
    /\ phase = "closing" => \A l \in LeaseId : request[l] # "waiting"
    /\ ~Persistent => file = None

(* A flush that does not fail saves nobody who is not in place. *)
LEMMA FlushSavesPlaced ==
    ASSUME GoneAssumption, Flush, ~Persistent => file = None
    PROVE  /\ \A l \in LeaseId : Saved(l)' => InPlace(l)'
           /\ ~Persistent => file' = None
<1>1. CASE Persistent
  <2>1. file' = Snapshot'
    BY <1>1 DEF Flush, WriteFile, GoneAssumption
  <2> QED
    BY <1>1, <2>1 DEF Saved, InPlace, Queued, Snapshot
<1>2. CASE ~Persistent
  <2>1. file' = None
    BY <1>2 DEF Flush, WriteFile, GoneAssumption
  <2> QED
    BY <2>1 DEF Saved
<1> QED
  BY <1>1, <1>2

(* What a step of a server that is up has to show. *)
LEMMA GoneStep ==
    ASSUME GoneAssumption, SInv, GoneInv, phase' = phase,
           Flush \/ (file' = file /\ \A m \in LeaseId : InPlace(m)' = InPlace(m)),
           \A m \in LeaseId : InPlace(m)' => InPlace(m) \/ slot[m] = "none",
           \A m \in LeaseId : Refused(m)' =>
              Refused(m) \/ (~InPlace(m)' /\ phase \in {"running", "draining"}),
           phase = "closing" => \A m \in LeaseId : request'[m] # "waiting"
    PROVE  GoneInv'
<1>1. /\ phase \in {"running", "draining"} => \A m \in LeaseId : Saved(m)' => InPlace(m)'
      /\ ~Persistent => file' = None
      /\ Flush => \A m \in LeaseId : Saved(m)' => InPlace(m)'
      /\ ~Flush => \A m \in LeaseId : Saved(m)' = Saved(m)
  <2>1. CASE Flush
    BY <2>1, FlushSavesPlaced DEF GoneInv
  <2>2. CASE ~Flush
    BY <2>2 DEF GoneInv, Saved
  <2> QED
    BY <2>1, <2>2
<1>2. ASSUME NEW m \in LeaseId, Refused(m)'
      PROVE  ~InPlace(m)' /\ ~Saved(m)'
  <2>1. CASE Refused(m)
    <3>1. ~InPlace(m) /\ ~Saved(m)
      BY <2>1 DEF GoneInv, RefusedIsGone, Refused
    <3>2. slot[m] # "none"
      BY <2>1 DEF SInv, Refused
    <3> QED
      BY <1>1, <3>1, <3>2
  <2>2. CASE ~InPlace(m)' /\ phase \in {"running", "draining"}
    BY <1>1, <2>2
  <2> QED
    BY <1>2, <2>1, <2>2
<1>3. RefusedIsGone'
  BY <1>2 DEF RefusedIsGone, Refused
<1> QED
  BY <1>1, <1>3 DEF GoneInv

(* Whoever is in place waits in line or was granted. *)
LEMMA PlacedSlots ==
    ASSUME IInv, NEW l \in LeaseId, InPlace(l)
    PROVE  slot[l] \in {"waiting", "granted"}
BY DEF InPlace, IInv, SlotsTruthful

LEMMA AcquireGone ==
    ASSUME GoneAssumption, SInv, GoneInv,
           NEW l \in LeaseId, NEW want \in Wanted, NEW prio \in Priority,
           NEW ttl \in Ttl, NEW wait \in WaitTimeout, Acquire(l, want, prio, ttl, wait)
    PROVE  GoneInv'
<1> DEFINE g == ResolveGpu(want)
<1>1. g \in Gpu
  BY ResolvedIsGpu DEF SInv, IInv
<1>2. /\ Enqueue(g, l, prio, ttl, wait) /\ Flush /\ phase' = phase
      /\ phase = "running" /\ IInv
  BY DEF Acquire, SInv, Serving, GoneAssumption
<1>3. \A m \in LeaseId : request'[m] = request[m] \/ request'[m] \in {"granted", "waiting"}
  BY DEF Acquire, SInv
<1> HIDE DEF g
<1>4. FleetKept
  BY <1>1, <1>2, EnqueueKeeps, GrantsToFleet
<1> QED
  BY <1>2, <1>3, <1>4, GoneStep DEF FleetKept, Refused

LEMMA ResumeGone ==
    ASSUME GoneAssumption, SInv, GoneInv, NEW l \in LeaseId, HandlerResume(l)
    PROVE  GoneInv'
<1>1. /\ Up /\ request[l] = "waiting" /\ slot[l] # "waiting"
      /\ request' = [request EXCEPT ![l] = AnswerTo(slot[l])]
      /\ UNCHANGED <<holder, queue, phase, file>>
  BY DEF HandlerResume
<1>2. phase \in {"running", "draining"}
  BY <1>1 DEF GoneInv, Up
<1>3. \A m \in LeaseId : InPlace(m)' = InPlace(m)
  BY <1>1 DEF InPlace, Queued
<1>4. ~InPlace(l) \/ AnswerTo(slot[l]) = "granted"
  BY <1>1, PlacedSlots DEF AnswerTo, SInv
<1>5. \A m \in LeaseId : Refused(m)' => Refused(m) \/ ~InPlace(m)'
  BY <1>1, <1>3, <1>4 DEF Refused, SInv
<1> QED
  BY <1>1, <1>2, <1>3, <1>5, GoneStep

(* Both ways to give a lease back: release() takes it out of memory and the *)
(* file, or finds that it had left before.                                 *)
LEMMA GiveBackGone ==
    ASSUME GoneAssumption, SInv, GoneInv, NEW l \in LeaseId, ReleaseLease(l),
           phase' = phase, phase \in {"running", "draining"},
           \A m \in LeaseId : Refused(m)' => Refused(m) \/ m = l
    PROVE  GoneInv'
<1>1. /\ FleetKept /\ ~InPlace(l)'
      /\ Flush \/ (file' = file /\ \A m \in LeaseId : InPlace(m)' = InPlace(m))
  BY ReleaseLeaseFacts DEF SInv
<1>2. \A m \in LeaseId : InPlace(m)' => InPlace(m) \/ slot[m] = "none"
  BY <1>1 DEF FleetKept
<1> QED
  BY <1>1, <1>2, GoneStep

LEMMA GoneNext ==
    ASSUME GoneAssumption, SInv, GoneInv, [ServerNext]_serverVars
    PROVE  GoneInv'
<1>1. ASSUME NEW l \in LeaseId, NEW want \in Wanted, NEW prio \in Priority,
             NEW ttl \in Ttl, NEW wait \in WaitTimeout, Acquire(l, want, prio, ttl, wait)
      PROVE  GoneInv'
  BY <1>1, AcquireGone
<1>2. ASSUME NEW l \in LeaseId, HandlerResume(l)
      PROVE  GoneInv'
  BY <1>2, ResumeGone
<1>3. ASSUME NEW l \in LeaseId, HandlerTimeout(l)
      PROVE  GoneInv'
  <2>1. /\ Up /\ request[l] = "waiting" /\ ReleaseLease(l) /\ phase' = phase
        /\ request' = [request EXCEPT ![l] = "timeout"]
    BY <1>3 DEF HandlerTimeout
  <2>2. phase \in {"running", "draining"}
    BY <2>1 DEF GoneInv, Up
  <2>3. \A m \in LeaseId : Refused(m)' => Refused(m) \/ m = l
    BY <2>1 DEF Refused, SInv
  <2> QED
    BY <2>1, <2>2, <2>3, GiveBackGone
<1>4. ASSUME NEW l \in LeaseId, ReleaseCall(l)
      PROVE  GoneInv'
  <2>1. phase = "running" /\ ReleaseLease(l) /\ phase' = phase /\ request' = request
    BY <1>4 DEF ReleaseCall, Serving, GoneAssumption
  <2> QED
    BY <2>1, GiveBackGone DEF Refused
<1>5. ASSUME NEW g \in Gpu, NEW ttl \in Ttl \cup {None}, RenewCall(g, ttl)
      PROVE  GoneInv'
  <2>1. /\ phase = "running" /\ Renew(g, ttl) /\ Flush /\ phase' = phase /\ request' = request
        /\ IInv
    BY <1>5 DEF RenewCall, Serving, GoneAssumption, SInv
  <2>2. \A m \in LeaseId : InPlace(m)' = InPlace(m)
    BY <2>1, RenewKeeps DEF InPlace, Queued
  <2> QED
    BY <2>1, <2>2, GoneStep DEF Refused
<1>6. ASSUME NEW g \in Gpu, Expire(g)
      PROVE  GoneInv'
  <2>1. ExpireNow(g) /\ Flush /\ phase' = phase /\ request' = request /\ IInv
    BY <1>6 DEF Expire, SInv
  <2>2. FleetKept
    BY <2>1, ExpireNowKeeps, GrantsToFleet
  <2>3. phase = "closing" => \A m \in LeaseId : request'[m] # "waiting"
    BY <2>1 DEF GoneInv
  <2> QED
    BY <2>1, <2>2, <2>3, GoneStep DEF FleetKept, Refused
<1>7. ASSUME NEW g \in Gpu, CloseQueue(g)
      PROVE  GoneInv'
  <2>1. /\ Shutdown(g) /\ phase' = "closing" /\ request' = request /\ file' = file /\ IInv
        /\ \A m \in LeaseId : request[m] # "waiting"
    BY <1>7 DEF CloseQueue, Drained, GoneAssumption, GoneInv, SInv
  <2>2. FleetKept
    BY <2>1, ShutdownKeeps, GrantsToFleet
  <2>3. ASSUME NEW m \in LeaseId, Refused(m)
        PROVE  ~InPlace(m)' /\ ~Saved(m)'
    <3>1. ~InPlace(m) /\ ~Saved(m)
      BY <2>3 DEF GoneInv, RefusedIsGone, Refused
    <3>2. slot[m] # "none"
      BY <2>3 DEF SInv, Refused
    <3>3. Saved(m)' = Saved(m)
      BY <2>1 DEF Saved
    <3> QED
      BY <2>2, <3>1, <3>2, <3>3 DEF FleetKept
  <2>4. RefusedIsGone'
    BY <2>1, <2>3 DEF RefusedIsGone, Refused
  <2> QED
    BY <2>1, <2>4 DEF GoneInv
<1>8. CASE LoseMemory /\ ~Up' /\ (file' = Snapshot \/ file' = file) /\ (~Persistent => file' = file)
  <2>1. \A m \in LeaseId : ~InPlace(m)'
    <3>1. \A g \in Gpu : queue'[g] = <<>> /\ holder'[g] = None /\ Queued(g)' = {}
      BY <1>8, EmptyLine DEF LoseMemory, Queued
    <3> QED
      BY <3>1 DEF InPlace
  <2>2. \A m \in LeaseId : Refused(m)' => Refused(m)
    BY <1>8 DEF LoseMemory, Refused
  <2>3. \A m \in LeaseId : Saved(m)' => Saved(m) \/ InPlace(m)
    BY <1>8 DEF Saved, InPlace, Snapshot, Queued
  <2>4. RefusedIsGone'
    BY <2>1, <2>2, <2>3 DEF GoneInv, RefusedIsGone, Refused
  <2> QED
    BY <1>8, <2>4 DEF GoneInv, Up
<1>9. CASE Exit
  BY <1>8, <1>9 DEF Exit, FinalWrite, WriteFile, GoneAssumption, Up
<1>10. CASE Crash
  BY <1>8, <1>10 DEF Crash, Up
<1>11. CASE Restart
  <2>1. /\ ~Up /\ phase' = "running"
        /\ now' = now /\ closed' = closed /\ request' = request /\ file' = file
        /\ \/ file # None /\ Restore(file)
           \/ file = None /\ UNCHANGED <<holder, queue, lease, slot>>
    BY <1>11 DEF Restart, LoadFile, GoneAssumption
  <2>2. NothingInMemory
    BY <2>1 DEF SInv
  <2>3. \A m \in LeaseId : InPlace(m)' = Saved(m)
    <3>1. CASE file # None /\ Restore(file)
      BY <3>1 DEF Restore, InPlace, Saved, Queued
    <3>2. CASE file = None /\ UNCHANGED <<holder, queue, lease, slot>>
      <4>1. \A g \in Gpu : holder'[g] = None /\ queue'[g] = <<>> /\ Queued(g)' = {}
        BY <2>2, <3>2, EmptyLine DEF NothingInMemory, Queued
      <4> QED
        BY <3>2, <4>1 DEF InPlace, Saved
    <3> QED
      BY <2>1, <3>1, <3>2
  <2>4. \A m \in LeaseId : Saved(m)' = Saved(m)
    BY <2>1 DEF Saved
  <2>5. RefusedIsGone'
    BY <2>1, <2>3, <2>4 DEF GoneInv, RefusedIsGone
  <2> QED
    BY <2>1, <2>3, <2>4, <2>5 DEF GoneInv
<1>12. CASE UNCHANGED <<holder, queue, request, file>> /\ (phase' = phase \/ Sigterm)
  <2>1. \A m \in LeaseId : InPlace(m)' = InPlace(m) /\ Saved(m)' = Saved(m)
    BY <1>12 DEF InPlace, Saved, Queued
  <2>2. RefusedIsGone'
    BY <1>12, <2>1 DEF GoneInv, RefusedIsGone
  <2> QED
    BY <1>12, <2>1, <2>2 DEF GoneInv, Sigterm
<1>13. CASE Sigterm \/ Wait \/ UNCHANGED serverVars
  <2>1. UNCHANGED <<holder, queue, request, file>> /\ (phase' = phase \/ Sigterm)
    BY <1>13 DEF Sigterm, Wait, Tick, ClockStep, serverVars
  <2> QED
    BY <1>12, <2>1
<1> QED
  BY <1>1, <1>2, <1>3, <1>4, <1>5, <1>6, <1>7, <1>9, <1>10, <1>11, <1>13 DEF ServerNext

(* A request that was refused holds and awaits nothing, in this process or  *)
(* in one that starts from its file.                                       *)
THEOREM RefusedLeaveNothing ==
    ASSUME GoneAssumption
    PROVE  ServerSpec => []RefusedIsGone
<1>1. ServerInit => GoneInv
  <2> SUFFICES ASSUME ServerInit
               PROVE  GoneInv
    OBVIOUS
  <2>1. /\ file = None /\ phase = "running"
        /\ \A l \in LeaseId : request[l] = "none"
    BY DEF ServerInit
  <2> QED
    BY <2>1 DEF GoneInv, RefusedIsGone, Saved
<1>2. SInv /\ GoneInv /\ [ServerNext]_serverVars => GoneInv'
  BY GoneNext
<1>3. GoneInv => RefusedIsGone
  BY DEF GoneInv
<1> QED
  BY <1>1, <1>2, <1>3, ServerInvariance, PTL DEF ServerSpec
-----------------------------------------------------------------------------
(* A state file is configured, and it can be written and read.  The clock   *)
(* may do what it wants, and strangers, host and handlers too.             *)
DiskAssumption == Persistent /\ ~DiskFaults

(* Holder and line of g in the file. *)
SavedHolder(g) == IF file = None THEN None ELSE file.holder[g]
SavedLine(g) == IF file = None THEN <<>> ELSE file.queue[g]

(* The file has the leases it names, and of no other lease it has anything; *)
(* their place in the order of urgency is the one they were minted with.   *)
FileExact ==
    file # None => \A l \in LeaseId :
        /\ file.lease[l] # Blank <=> Saved(l)
        /\ Saved(l) => /\ file.lease[l].priority = lease[l].priority
                       /\ file.lease[l].enqueued_at = lease[l].enqueued_at

(* Whoever is in a line of the file and no longer in line was turned away   *)
(* by the shutdown.                                                        *)
LeftInFile ==
    Up => \A g \in Gpu : \A l \in Elems(SavedLine(g)) \ Queued(g) : slot[l] = "shutdown"

(* The invariant behind NothingToLose: once the shutdown has begun the file *)
(* is behind in one thing only, the lines of the queues that were closed.  *)
DiskInv ==
    /\ NothingToLose
    /\ FileExact
    /\ LeftInFile
    /\ phase \in {"running", "draining"} => \A g \in Gpu : ~closed[g]
    /\ Up => \A g \in Gpu : /\ SavedHolder(g) = holder[g]
                            /\ closed[g] \/ SavedLine(g) = queue[g]

(* What a snapshot says of a lease. *)
LEMMA SnapshotExact ==
    ASSUME IInv, NEW l \in LeaseId
    PROVE  /\ Snapshot.lease[l] # Blank <=> InPlace(l)
           /\ InPlace(l) => Snapshot.lease[l] = lease[l]
<1>1. InPlace(l) => lease[l].gpu \in Gpu
  BY DEF InPlace, IInv, OnePlace
<1>2. InPlace(l) => lease[l] # Blank
  BY <1>1 DEF Blank
<1> QED
  BY <1>2 DEF Snapshot, SavedLeases

(* A write brings the file up to date in everything. *)
LEMMA WrittenIsExact ==
    ASSUME IInv, file = Snapshot
    PROVE  /\ FileExact
           /\ \A l \in LeaseId : Saved(l) = InPlace(l)
           /\ \A g \in Gpu : SavedHolder(g) = holder[g] /\ SavedLine(g) = queue[g]
<1>1. file # None
  BY SnapshotRestorable, NoneIsNoSnapshot
<1>2. file.holder = holder /\ file.queue = queue
  BY DEF Snapshot
<1>3. \A l \in LeaseId : Saved(l) = InPlace(l)
  BY <1>1, <1>2 DEF Saved, InPlace, Queued
<1>4. FileExact
  BY <1>3, SnapshotExact DEF FileExact
<1> QED
  BY <1>1, <1>2, <1>3, <1>4 DEF SavedHolder, SavedLine

(* A change that is flushed. *)
LEMMA FlushDisk ==
    ASSUME DiskAssumption, IInv', DiskInv, Flush, phase' = phase, closed' = closed
    PROVE  DiskInv'
<1>1. (IInv /\ file = Snapshot =>
          /\ FileExact
          /\ \A l \in LeaseId : Saved(l) = InPlace(l)
          /\ \A g \in Gpu : SavedHolder(g) = holder[g] /\ SavedLine(g) = queue[g])'
  BY WrittenIsExact, PTL
<1>2. file' = Snapshot'
  BY DEF Flush, WriteFile, DiskAssumption
<1>3. LeftInFile'
  BY <1>1, <1>2 DEF LeftInFile, Queued
<1> QED
  BY <1>1, <1>2, <1>3 DEF DiskInv, NothingToLose

(* A step that moves no lease and writes nothing. *)
LEMMA QuietDisk ==
    ASSUME DiskInv, UNCHANGED <<holder, queue, lease, slot, closed, file>>,
           phase' = phase \/ (phase = "running" /\ phase' = "draining")
    PROVE  DiskInv'
<1>1. /\ FileExact' = FileExact
      /\ Snapshot' = Snapshot
      /\ \A l \in LeaseId : InPlace(l)' = InPlace(l)
      /\ \A g \in Gpu : SavedHolder(g)' = SavedHolder(g) /\ SavedLine(g)' = SavedLine(g)
  BY DEF FileExact, Saved, Snapshot, SavedLeases, InPlace, Queued, SavedHolder, SavedLine
<1>2. LeftInFile'
  BY <1>1 DEF DiskInv, LeftInFile, Queued, Up
<1> QED
  BY <1>1, <1>2 DEF DiskInv, NothingToLose, Up

(* release() is flushed, or finds nothing to let go. *)
LEMMA ReleaseDisk ==
    ASSUME DiskAssumption, IInv', DiskInv, NEW l \in LeaseId, ReleaseLease(l), phase' = phase
    PROVE  DiskInv'
<1>1. CASE Flush /\ closed' = closed
  BY <1>1, FlushDisk
<1>2. CASE UNCHANGED <<now, holder, queue, lease, slot, closed, file>>
  BY <1>2, QuietDisk
<1> QED
  BY <1>1, <1>2 DEF ReleaseLease, ReleaseHeld, Cancel

(* A queue is closed: its line is gone from memory, and still in the file. *)
LEMMA CloseQueueDisk ==
    ASSUME SInv, DiskInv, NEW g \in Gpu, CloseQueue(g)
    PROVE  DiskInv'
<1>1. /\ phase' = "closing" /\ UNCHANGED <<holder, lease, file>>
      /\ closed' = [closed EXCEPT ![g] = TRUE]
      /\ queue' = [queue EXCEPT ![g] = <<>>]
      /\ Up
  BY DEF CloseQueue, Shutdown, Drained, Up
<1>2. FileExact'
  BY <1>1 DEF DiskInv, FileExact, Saved
<1>3. \A k \in Gpu : /\ SavedHolder(k)' = SavedHolder(k) /\ SavedLine(k)' = SavedLine(k)
                     /\ closed'[k] \/ (~closed[k] /\ queue'[k] = queue[k])
  BY <1>1 DEF SavedHolder, SavedLine, SInv, IInv, TypeOK
<1>4. LeftInFile'
  <2>1. slot' = [m \in LeaseId |-> IF m \in Queued(g) THEN "shutdown" ELSE slot[m]]
    BY DEF CloseQueue, Shutdown
  <2>2. \A k \in Gpu : /\ SavedLine(k)' = SavedLine(k)
                       /\ k # g => Queued(k)' = Queued(k)
                       /\ Elems(SavedLine(k)) \subseteq LeaseId
    <3>1. \A k \in Gpu : k # g => queue'[k] = queue[k]
      BY <1>1 DEF SInv, IInv, TypeOK
    <3>2. \A k \in Gpu : k # g => Queued(k)' = Queued(k)
      BY <3>1 DEF Queued
    <3>3. \A k \in Gpu : SavedLine(k) \in Seq(LeaseId)
      <4>1. file \in Snapshots \cup {None} /\ <<>> \in Seq(LeaseId)
        BY EmptySeq DEF SInv
      <4>2. \A f \in Snapshots, k \in Gpu : f.queue[k] \in Seq(LeaseId)
        BY DEF Snapshots
      <4> QED
        BY <4>1, <4>2 DEF SavedLine
    <3>4. \A k \in Gpu : Elems(SavedLine(k)) \subseteq LeaseId
      BY <3>3, NoElems
    <3> QED
      BY <1>3, <3>2, <3>4
  <2>3. \A k \in Gpu : \A l \in Elems(SavedLine(k)) \ Queued(k) : slot[l] = "shutdown"
    BY <1>1 DEF DiskInv, LeftInFile
  <2> QED
    BY <2>1, <2>2, <2>3 DEF LeftInFile
<1> QED
  BY <1>1, <1>2, <1>3, <1>4 DEF DiskInv, NothingToLose

(* The process ends, with a last write or without. *)
LEMMA EndDisk ==
    ASSUME IInv, DiskInv, LoseMemory, phase' \in {"stopped", "crashed"},
           file' = file \/ file' = Snapshot
    PROVE  DiskInv'
<1>1. FileExact'
  <2>1. lease' = lease
    BY DEF LoseMemory
  <2>2. CASE file' = file
    BY <2>1, <2>2 DEF DiskInv, FileExact, Saved
  <2>3. CASE file' = Snapshot
    <3>1. \A l \in LeaseId : Saved(l)' = InPlace(l)
      <4>1. file' # None
        BY <2>3, SnapshotRestorable, NoneIsNoSnapshot
      <4> QED
        BY <2>3, <4>1 DEF Saved, InPlace, Queued, Snapshot
    <3> QED
      BY <2>1, <2>3, <3>1, SnapshotExact DEF FileExact
  <2> QED
    BY <2>2, <2>3
<1> QED
  BY <1>1 DEF DiskInv, NothingToLose, LeftInFile, Up

(* A start: what is restored is what the file has. *)
LEMMA RestartDisk ==
    ASSUME DiskAssumption, SInv, SInv', DiskInv, Restart
    PROVE  /\ DiskInv' /\ KeysKept
           /\ \A l \in LeaseId : slot'[l] = "none" <=> slot[l] = "none"
<1>1. /\ ~Up /\ phase' = "running" /\ file' = file
      /\ now' = now /\ closed' = closed
      /\ \/ file # None /\ Restore(file)
         \/ file = None /\ UNCHANGED <<holder, queue, lease, slot>>
  BY DEF Restart, LoadFile, DiskAssumption
<1>2. NothingInMemory /\ IInv /\ \A g \in Gpu : ~closed'[g]
  BY <1>1 DEF SInv, NothingInMemory
<1>3. CASE file = None /\ UNCHANGED <<holder, queue, lease, slot>>
  <2>1. \A g \in Gpu : holder'[g] = None /\ queue'[g] = <<>> /\ Queued(g)' = {}
    BY <1>2, <1>3, EmptyLine DEF NothingInMemory, Queued
  <2>2. \A l \in LeaseId : ~InPlace(l)'
    BY <2>1 DEF InPlace
  <2>3. \A g \in Gpu : SavedLine(g)' = <<>> /\ Elems(SavedLine(g)') = {}
    BY <1>1, <1>3, EmptyLine DEF SavedLine
  <2> QED
    BY <1>1, <1>2, <1>3, <2>1, <2>2, <2>3
       DEF DiskInv, NothingToLose, FileExact, LeftInFile, SavedHolder, SavedLine, KeysKept
<1>4. CASE file # None /\ Restore(file)
  <2>1. file \in Snapshots /\ Restorable(file, Minted)
    BY <1>1, <1>4 DEF SInv
  <2>2. /\ Minted' = Minted
        /\ holder' = file.holder /\ queue' = file.queue
        /\ \A g \in Gpu, l \in LeaseId :
             l = file.holder[g] \/ l \in Elems(file.queue[g]) => lease'[l] = file.lease[l]
        /\ \A l \in LeaseId : file.lease[l] = Blank => lease'[l] = lease[l]
    BY <1>1, <1>2, <1>4, <2>1, RestoreFacts
  <2>3. \A l \in LeaseId : /\ InPlace(l)' = Saved(l)
                           /\ Saved(l) => lease'[l] = file.lease[l]
                           /\ ~Saved(l) => lease'[l] = lease[l] /\ file.lease[l] = Blank
    BY <1>4, <2>2 DEF InPlace, Queued, Saved, DiskInv, FileExact
  <2>4. file = Snapshot'
    <3>1. file.lease = SavedLeases'
      <4>1. file.lease \in [LeaseId -> Lease]
        BY <2>1 DEF Snapshots
      <4> QED
        BY <2>3, <4>1 DEF SavedLeases
    <3> QED
      BY <2>1, <2>2, <3>1 DEF Snapshots, Snapshot
  <2>5. KeysKept
    BY <1>4, <2>3 DEF KeysKept, DiskInv, FileExact
  <2>6. (IInv /\ file = Snapshot =>
            /\ FileExact
            /\ \A l \in LeaseId : Saved(l) = InPlace(l)
            /\ \A g \in Gpu : SavedHolder(g) = holder[g] /\ SavedLine(g) = queue[g])'
    BY WrittenIsExact, PTL
  <2>7. IInv' /\ file' = Snapshot'
    BY <1>1, <2>4 DEF SInv
  <2> QED
    BY <1>1, <1>2, <2>2, <2>5, <2>6, <2>7 DEF DiskInv, NothingToLose, LeftInFile, Queued, Minted
<1> QED
  BY <1>1, <1>3, <1>4

(* Every step keeps the file up to date. *)
LEMMA DiskStep ==
    ASSUME DiskAssumption, SInv, SInv', DiskInv, [ServerNext]_serverVars
    PROVE  DiskInv'
<1>0. IInv /\ IInv'
  BY DEF SInv
<1>1. ASSUME NEW l \in LeaseId, NEW want \in Wanted, NEW prio \in Priority,
             NEW ttl \in Ttl, NEW wait \in WaitTimeout, Acquire(l, want, prio, ttl, wait)
      PROVE  DiskInv'
  BY <1>0, <1>1, FlushDisk DEF Acquire, Enqueue
<1>2. ASSUME NEW l \in LeaseId, HandlerResume(l) \/ HandlerTimeout(l) \/ ReleaseCall(l)
      PROVE  DiskInv'
  BY <1>0, <1>2, QuietDisk, ReleaseDisk DEF HandlerResume, HandlerTimeout, ReleaseCall
<1>3. ASSUME NEW g \in Gpu, (\E ttl \in Ttl \cup {None} : RenewCall(g, ttl)) \/ Expire(g)
      PROVE  DiskInv'
  BY <1>0, <1>3, FlushDisk DEF RenewCall, Renew, Expire, ExpireNow
<1>4. ASSUME NEW g \in Gpu, CloseQueue(g)
      PROVE  DiskInv'
  BY <1>4, CloseQueueDisk
<1>5. CASE Exit \/ Crash
  BY <1>0, <1>5, EndDisk DEF Exit, Crash, FinalWrite, WriteFile
<1>6. CASE Restart
  BY <1>6, RestartDisk
<1>7. CASE Sigterm \/ Wait \/ UNCHANGED serverVars
  BY <1>7, QuietDisk DEF Sigterm, Wait, Tick, ClockStep, serverVars
<1> QED
  BY <1>1, <1>2, <1>3, <1>4, <1>5, <1>6, <1>7 DEF ServerNext

(* There is no file at first, and nothing that should be in it. *)
LEMMA DiskInit == ServerInit => DiskInv
<1> SUFFICES ASSUME ServerInit
             PROVE  DiskInv
  OBVIOUS
<1>1. /\ file = None
      /\ \A g \in Gpu : holder[g] = None /\ queue[g] = <<>> /\ ~closed[g] /\ Queued(g) = {}
  BY EmptyLine DEF ServerInit, Init, Queued
<1>2. \A g \in Gpu : Elems(SavedLine(g)) = {}
  BY <1>1, EmptyLine DEF SavedLine
<1> QED
  BY <1>1, <1>2 DEF DiskInv, NothingToLose, FileExact, LeftInFile, SavedHolder, SavedLine, InPlace

(* In every reachable state the file is behind in closed lines only. *)
THEOREM DiskInvariance ==
    ASSUME DiskAssumption
    PROVE  ServerSpec => []DiskInv
<1>1. SInv /\ SInv' /\ DiskInv /\ [ServerNext]_serverVars => DiskInv'
  BY DiskStep
<1> QED
  BY <1>1, DiskInit, ServerInvariance, PTL DEF ServerSpec

(* A process that dies between any two steps loses no holder, no line and   *)
(* no expiry, if its file can be written: _flush runs before anybody can    *)
(* learn of the change, whatever clock, strangers and hosts do.            *)
THEOREM CrashLosesNothing ==
    ASSUME DiskAssumption
    PROVE  ServerSpec => []NothingToLose
<1>1. DiskInv => NothingToLose
  BY DEF DiskInv
<1> QED
  BY <1>1, DiskInvariance, PTL
-----------------------------------------------------------------------------
(* The file as the abstract lock sees it. *)
SavedHolders == [g \in Gpu |-> SavedHolder(g)]
SavedWaiters == [g \in Gpu |-> Elems(SavedLine(g))]
Turned == {l \in LeaseId : slot[l] \in Refusals}

(* A step of the queues in which nobody joins, seen from each GPU. *)
LEMMA MovesInMemory ==
    ASSUME IInv, [Next]_vars, Used' = Used
    PROVE  /\ Keys' = Keys
           /\ \A g \in Gpu :
                /\ Queued(g)' \subseteq Queued(g)
                /\ \/ holder'[g] = holder[g]
                   \/ holder'[g] = None /\ Queued(g)' = {}
                   \/ holder[g] # None /\ holder'[g] \in Mutex!MostUrgent(g) \ Queued(g)'
<1>1. [Mutex!Next]_Mutex!vars
  BY StepImplements
<1>2. holder \in [Gpu -> LeaseId \cup {None}]
  BY DEF IInv, TypeOK
<1>3. /\ \A g \in Gpu : Waiters[g] = Queued(g) /\ Waiters'[g] = Queued(g)'
      /\ DOMAIN Waiters = Gpu
  BY DEF Waiters
<1>4. CASE UNCHANGED Mutex!vars
  <2>1. holder' = holder /\ Waiters' = Waiters /\ Keys' = Keys
    BY <1>4 DEF Mutex!vars, Waiters, Keys, Key
  <2> QED
    BY <1>3, <2>1
<1>5. ASSUME NEW g \in Gpu, NEW l \in LeaseId, Mutex!Join(g, l)
      PROVE  FALSE
  BY <1>5 DEF Mutex!Join, Used
<1>6. ASSUME NEW g \in Gpu, NEW gone \in SUBSET Queued(g), Mutex!Leave(g, gone)
      PROVE  /\ holder' = holder /\ Keys' = Keys
             /\ Waiters' = [Waiters EXCEPT ![g] = @ \ gone]
  BY <1>6 DEF Mutex!Leave, Waiters, Keys, Key
<1>7. ASSUME NEW g \in Gpu, Mutex!Vacate(g)
      PROVE  /\ holder' = [holder EXCEPT ![g] = None] /\ Keys' = Keys
             /\ Waiters' = Waiters /\ Queued(g) = {}
  BY <1>7 DEF Mutex!Vacate, Waiters, Keys, Key
<1>8. ASSUME NEW g \in Gpu, NEW p \in Queued(g), NEW gone \in SUBSET Queued(g),
             Mutex!HandOver(g, p, gone)
      PROVE  /\ holder' = [holder EXCEPT ![g] = p] /\ Keys' = Keys
             /\ Waiters' = [Waiters EXCEPT ![g] = @ \ (gone \cup {p})]
             /\ holder[g] # None /\ p \in Mutex!MostUrgent(g)
  BY <1>8 DEF Mutex!HandOver, Waiters, Keys, Key
<1> DEFINE Moved(g) ==
             /\ Queued(g)' \subseteq Queued(g)
             /\ \/ holder'[g] = holder[g]
                \/ holder'[g] = None /\ Queued(g)' = {}
                \/ holder[g] # None /\ holder'[g] \in Mutex!MostUrgent(g) \ Queued(g)'
<1>9. ASSUME NEW g \in Gpu, NEW gone \in SUBSET Queued(g), Mutex!Leave(g, gone)
      PROVE  Keys' = Keys /\ \A k \in Gpu : Moved(k)
  <2>1. /\ holder' = holder /\ Keys' = Keys
        /\ Waiters' = [Waiters EXCEPT ![g] = @ \ gone]
    BY <1>6, <1>9
  <2>2. \A k \in Gpu : Waiters'[k] \subseteq Waiters[k]
    BY <1>3, <2>1
  <2> QED
    BY <1>3, <2>1, <2>2
<1>10. ASSUME NEW g \in Gpu, Mutex!Vacate(g)
       PROVE  Keys' = Keys /\ \A k \in Gpu : Moved(k)
  <2>1. \A k \in Gpu : holder'[k] = IF k = g THEN None ELSE holder[k]
    BY <1>2, <1>7, <1>10
  <2> QED
    BY <1>3, <1>7, <1>10, <2>1
<1>11. ASSUME NEW g \in Gpu, NEW p \in Queued(g), NEW gone \in SUBSET Queued(g),
              Mutex!HandOver(g, p, gone)
       PROVE  Keys' = Keys /\ \A k \in Gpu : Moved(k)
  <2>1. /\ holder' = [holder EXCEPT ![g] = p] /\ Keys' = Keys
        /\ Waiters' = [Waiters EXCEPT ![g] = @ \ (gone \cup {p})]
        /\ holder[g] # None /\ p \in Mutex!MostUrgent(g)
    BY <1>8, <1>11
  <2>2. \A k \in Gpu : holder'[k] = IF k = g THEN p ELSE holder[k]
    BY <1>2, <2>1
  <2>3. \A k \in Gpu : Waiters'[k] = IF k = g THEN Waiters[k] \ (gone \cup {p}) ELSE Waiters[k]
    BY <1>3, <2>1
  <2> QED
    BY <1>3, <2>1, <2>2, <2>3
<1>12. CASE Mutex!Next
  <2>1. ASSUME NEW g \in Gpu PROVE Waiters[g] = Queued(g)
    BY DEF Waiters
  <2> QED
    BY <1>5, <1>9, <1>10, <1>11, <1>12, <2>1 DEF Mutex!Next, Waiters
<1> QED
  BY <1>1, <1>4, <1>12

(* In memory nobody leaves a line but to hold the GPU, or to be woken with  *)
(* a refusal, and no one else is.                                          *)
LEMMA LeaversWoken ==
    ASSUME IInv, NEW g \in Gpu,
           \/ ReleaseHeld(g) \/ ExpireNow(g)
           \/ \E ttl \in Ttl \cup {None} : Renew(g, ttl)
           \/ \E l \in LeaseId : Cancel(g, l)
    PROVE  /\ \A k \in Gpu : Queued(k) \ Queued(k)' \subseteq Turned' \cup {holder'[k]}
           /\ Turned' \ Turned \subseteq Queued(g)
<1>1. /\ \A k \in Gpu : Queued(k) \subseteq LeaseId
      /\ Elems(Remaining(g)) = Queued(g) \ {Promoted(g)}
  BY QueueFacts, PromotionFacts
<1>2. \A k \in Gpu \ {g} : queue'[k] = queue[k]
  BY DEF ReleaseHeld, ExpireNow, Renew, Cancel, IInv, TypeOK
<1>3. CASE ReleaseHeld(g)
  <2>1. /\ holder'[g] = Promoted(g) /\ queue'[g] = Remaining(g)
        /\ \A m \in LeaseId : slot'[m] = "granted" \/ slot'[m] = slot[m]
    BY <1>3 DEF ReleaseHeld, IInv, TypeOK
  <2>2. Turned' \subseteq Turned
    BY <2>1 DEF Turned, Refusals
  <2> QED
    BY <1>1, <1>2, <2>1, <2>2 DEF Queued
<1>4. CASE ExpireNow(g)
  <2> DEFINE next == IF HolderExpired(g) THEN Promoted(g) ELSE holder[g]
             line == IF HolderExpired(g) THEN Remaining(g) ELSE queue[g]
             late == Overdue(line)
  <2>1. /\ holder'[g] = next /\ queue'[g] = Keep(line, LeaseId \ late)
        /\ slot' = [l \in LeaseId |-> IF l \in late THEN "wait_timeout"
                                      ELSE IF l = next THEN "granted" ELSE slot[l]]
    BY <1>4 DEF ExpireNow, IInv, TypeOK
  <2>2. /\ line \in Seq(LeaseId) /\ Distinct(line) /\ Ordered(line, lease)
        /\ Elems(line) \subseteq Queued(g) /\ Queued(g) \ Elems(line) \subseteq {next}
    <3>1. CASE HolderExpired(g)
      <4>1. line = Remaining(g) /\ next = Promoted(g)
        BY <3>1
      <4>2. /\ Remaining(g) \in Seq(LeaseId)
            /\ Distinct(Remaining(g)) /\ Ordered(Remaining(g), lease)
            /\ Elems(Remaining(g)) = Queued(g) \ {Promoted(g)}
        BY PromotionFacts
      <4> HIDE DEF line, next
      <4> QED
        BY <4>1, <4>2
    <3>2. CASE ~HolderExpired(g)
      <4>1. line = queue[g]
        BY <3>2
      <4> HIDE DEF line, next
      <4> QED
        BY <4>1, QueueFacts DEF Queued
    <3> QED
      BY <3>1, <3>2
  <2>3. late \subseteq Elems(line)
    BY DEF Overdue
  <2> HIDE DEF line, next, late
  <2>4. Queued(g)' = Elems(line) \cap (LeaseId \ late)
    BY <2>1, <2>2, KeepLeaves DEF Queued
  <2>5. late \subseteq Turned' /\ Turned' \subseteq Turned \cup late
    BY <1>1, <2>1, <2>2, <2>3 DEF Turned, Refusals
  <2> QED
    BY <1>1, <1>2, <2>1, <2>2, <2>3, <2>4, <2>5 DEF Queued
<1>5. CASE \E ttl \in Ttl \cup {None} : Renew(g, ttl)
  BY <1>5 DEF Renew, Queued, Turned
<1>6. ASSUME NEW l \in LeaseId, Cancel(g, l)
      PROVE  /\ \A k \in Gpu : Queued(k) \ Queued(k)' \subseteq Turned' \cup {holder'[k]}
             /\ Turned' \ Turned \subseteq Queued(g)
  <2>1. /\ l \in Queued(g) /\ queue'[g] = Keep(queue[g], LeaseId \ {l})
        /\ slot' = [slot EXCEPT ![l] = "cancelled"] /\ slot \in [LeaseId -> SlotState]
    BY <1>6 DEF Cancel, IInv, TypeOK
  <2>2. Queued(g)' = Queued(g) \cap (LeaseId \ {l})
    BY <2>1, QueueFacts, KeepLeaves DEF Queued
  <2>3. l \in Turned' /\ Turned' \subseteq Turned \cup {l}
    BY <2>1 DEF Turned, Refusals
  <2> QED
    BY <1>1, <1>2, <2>1, <2>2, <2>3 DEF Queued
<1> QED
  BY <1>3, <1>4, <1>5, <1>6

(* The file between two writes: it holds the holders, and at least whoever  *)
(* waits in memory.                                                        *)
LEMMA FileAhead ==
    ASSUME IInv, DiskInv, Up, NEW g \in Gpu
    PROVE  /\ SavedHolders[g] = holder[g]
           /\ Queued(g) \subseteq SavedWaiters[g]
           /\ Queued(g) = {} \/ SavedWaiters[g] = Queued(g)
           /\ \A l \in SavedWaiters[g] \ Queued(g) : slot[l] \in Refusals
<1>1. closed[g] => Queued(g) = {}
  BY EmptyLine DEF IInv, NobodyStranded, Queued
<1>2. \A l \in SavedWaiters[g] \ Queued(g) : slot[l] \in Refusals
  BY DEF DiskInv, LeftInFile, SavedWaiters, Refusals
<1> QED
  BY <1>1, <1>2 DEF DiskInv, SavedHolders, SavedWaiters, Queued

(* Just after a write it holds nobody else. *)
LEMMA FileWritten ==
    ASSUME IInv, file = Snapshot
    PROVE  SavedHolders = holder /\ SavedWaiters = Waiters
<1>1. holder \in [Gpu -> LeaseId \cup {None}]
  BY DEF IInv, TypeOK
<1> QED
  BY <1>1, WrittenIsExact DEF SavedHolders, SavedWaiters, Waiters, Queued

(* The lines of the file are lines of leases. *)
LEMMA LinesInFile ==
    ASSUME SInv
    PROVE  /\ \A g \in Gpu : SavedWaiters[g] \subseteq LeaseId
           /\ SavedHolders \in [Gpu -> LeaseId \cup {None}]
BY NoElems, EmptyLine DEF SInv, Snapshots, SavedWaiters, SavedHolders, SavedLine, SavedHolder

(* A change other than a newcomer, once it is saved. *)
LEMMA FlushMovesOn ==
    ASSUME DiskAssumption, SInv, IInv', DiskInv, Up, Flush, [Next]_vars, Used' = Used,
           \A g \in Gpu : Queued(g) \ Queued(g)' \subseteq Turned' \cup {holder'[g]},
           Turned' \ Turned \subseteq UNION {Queued(g) : g \in Gpu}
    PROVE  Durable!LeaveOrPassOn
<1>0. IInv
  BY DEF SInv
<1>1. (IInv /\ file = Snapshot => SavedHolders = holder /\ SavedWaiters = Waiters)'
  BY FileWritten, PTL
<1>2. SavedHolders' = holder' /\ SavedWaiters' = Waiters'
  BY <1>1 DEF Flush, WriteFile, DiskAssumption
<1>3. /\ Keys' = Keys
      /\ \A g \in Gpu :
           /\ Queued(g)' \subseteq Queued(g)
           /\ \/ holder'[g] = holder[g]
              \/ holder'[g] = None /\ Queued(g)' = {}
              \/ holder[g] # None /\ holder'[g] \in Mutex!MostUrgent(g) \ Queued(g)'
  BY <1>0, MovesInMemory
<1>4. ASSUME NEW g \in Gpu
      PROVE  Durable!MovesOn(g)
  <2>1. /\ SavedHolders[g] = holder[g]
        /\ Queued(g) \subseteq SavedWaiters[g]
        /\ Queued(g) = {} \/ SavedWaiters[g] = Queued(g)
        /\ \A l \in SavedWaiters[g] \ Queued(g) : slot[l] \in Refusals
    BY <1>0, FileAhead
  <2>2. SavedHolders'[g] = holder'[g] /\ SavedWaiters'[g] = Queued(g)'
    BY <1>2 DEF Waiters
  <2>3. Mutex!MostUrgent(g) \subseteq Queued(g)
    BY DEF Mutex!MostUrgent
  <2>4. SavedWaiters[g] = Queued(g) => Durable!MostUrgent(g) = Mutex!MostUrgent(g)
    BY EmptyLine DEF Durable!MostUrgent, Mutex!MostUrgent, Durable!Ahead, Mutex!Ahead,
                     SavedWaiters, SavedLine
  <2>5. /\ SavedWaiters'[g] \subseteq SavedWaiters[g]
        /\ \/ SavedHolders'[g] = SavedHolders[g]
           \/ SavedHolders'[g] = None /\ SavedWaiters'[g] = {}
           \/ /\ SavedHolders[g] # None
              /\ SavedHolders'[g] \in Durable!MostUrgent(g) \ SavedWaiters'[g]
    BY <1>3, <2>1, <2>2, <2>3, <2>4
  <2>6. SavedWaiters[g] \ SavedWaiters'[g] \subseteq Turned \cup Turned' \cup {SavedHolders'[g]}
    <3>1. SavedWaiters[g] \subseteq LeaseId
      BY LinesInFile
    <3>2. SavedWaiters[g] \ Queued(g) \subseteq Turned
      BY <2>1, <3>1 DEF Turned
    <3> QED
      BY <2>2, <3>2
  <2> QED
    BY <2>5, <2>6, EmptyLine
       DEF Durable!MovesOn, SavedHolders, SavedWaiters, SavedHolder, SavedLine, Turned
<1>6. Turned' \in SUBSET LeaseId /\ Turned' \ Turned \subseteq UNION {SavedWaiters[g] : g \in Gpu}
  <2>1. \A g \in Gpu : Queued(g) \subseteq SavedWaiters[g]
    BY <1>0, FileAhead
  <2> QED
    BY <2>1 DEF Turned
<1>7. Durable!TurnAway
  BY <1>6, EmptyLine DEF Durable!TurnAway, Turned, SavedWaiters, SavedLine
<1>5. /\ SavedHolders' \in [Gpu -> LeaseId \cup {None}]
      /\ SavedWaiters' \in [Gpu -> SUBSET LeaseId]
  BY <1>2, NoElems DEF IInv, TypeOK, Waiters, Queued
<1> QED
  BY <1>3, <1>4, <1>5, <1>7, EmptyLine
     DEF Durable!LeaveOrPassOn, SavedHolders, SavedWaiters, SavedHolder, SavedLine, Keys, Key, Used

(* A newcomer is in the file when its request is answered or put to sleep. *)
LEMMA AcquireJoinsFile ==
    ASSUME DiskAssumption, SInv, SInv', DiskInv,
           NEW l \in LeaseId, NEW want \in Wanted, NEW prio \in Priority,
           NEW ttl \in Ttl, NEW wait \in WaitTimeout, Acquire(l, want, prio, ttl, wait)
    PROVE  Durable!DurableNext
<1> DEFINE g == ResolveGpu(want)
<1>1. g \in Gpu /\ IInv /\ IInv'
  BY ResolvedIsGpu DEF SInv, IInv
<1>2. /\ Enqueue(g, l, prio, ttl, wait) /\ Flush
      /\ Up /\ phase \in {"running", "draining"}
  BY DEF Acquire, Serving, Up
<1> HIDE DEF g
<1>3. Mutex!Join(g, l)
  BY <1>1, <1>2, EnqueueJoins
<1>4. SavedHolders = holder /\ SavedWaiters = Waiters
  <2>1. holder \in [Gpu -> LeaseId \cup {None}]
    BY <1>1 DEF IInv, TypeOK
  <2> QED
    BY <1>2, <2>1 DEF DiskInv, SavedHolders, SavedWaiters, Waiters, Queued
<1>5. (IInv /\ file = Snapshot => SavedHolders = holder /\ SavedWaiters = Waiters)'
  BY FileWritten, PTL
<1>6. SavedHolders' = holder' /\ SavedWaiters' = Waiters'
  BY <1>1, <1>2, <1>5 DEF Flush, WriteFile, DiskAssumption
<1>7. /\ l \notin Used /\ Used' = Used \cup {l}
      /\ \E t \in [priority : Priority \cup {0}, since : Time] : Keys' = [Keys EXCEPT ![l] = t]
      /\ \/ holder[g] = None /\ holder' = [holder EXCEPT ![g] = l] /\ Waiters' = Waiters
         \/ holder[g] # None /\ Waiters' = [Waiters EXCEPT ![g] = @ \cup {l}] /\ holder' = holder
  BY <1>3 DEF Mutex!Join, Used, Keys, Key, Waiters
<1>8. /\ \/ /\ SavedHolders[g] = None
            /\ SavedHolders' = [SavedHolders EXCEPT ![g] = l]
            /\ SavedWaiters' = SavedWaiters
         \/ /\ SavedHolders[g] # None
            /\ SavedWaiters' = [SavedWaiters EXCEPT ![g] = @ \cup {l}]
            /\ SavedHolders' = SavedHolders
  BY <1>4, <1>6, <1>7
<1>9. /\ SavedHolders = [k \in Gpu |-> IF file = None THEN None ELSE file.holder[k]]
      /\ SavedHolders' = [k \in Gpu |-> IF file' = None THEN None ELSE file'.holder[k]]
  BY DEF SavedHolders, SavedHolder
<1>10. /\ SavedWaiters = [k \in Gpu |-> IF file = None THEN {} ELSE Elems(file.queue[k])]
       /\ SavedWaiters' = [k \in Gpu |-> IF file' = None THEN {} ELSE Elems(file'.queue[k])]
  BY EmptyLine DEF SavedWaiters, SavedLine
<1>11. Durable!Join(g, l)
  BY <1>7, <1>8, <1>9, <1>10 DEF Durable!Join, Used, Keys, Key
<1>12. Turned' = Turned
  <2>1. slot[l] = "none" /\ slot'[l] \in {"granted", "waiting"} /\ slot \in [LeaseId -> SlotState]
    BY <1>1, <1>2 DEF Enqueue, IInv, TypeOK
  <2>2. \A m \in LeaseId : m # l => slot'[m] = slot[m]
    BY <1>2, <2>1 DEF Enqueue
  <2> QED
    BY <2>1, <2>2 DEF Turned, Refusals
<1> QED
  BY <1>1, <1>11, <1>12 DEF Durable!DurableNext, Turned

(* Nothing is written, nobody is minted: the file's lock does not move. *)
LEMMA FileStutters ==
    ASSUME file' = file, slot' = slot, KeysKept
    PROVE  UNCHANGED Durable!durableVars
<1>1. Keys' = Keys /\ Used' = Used
  BY NothingMinted
<1> QED
  BY <1>1 DEF Durable!durableVars, Durable!vars, Keys, Key, Used

(* Nothing is written, but waiters are turned away, or forgotten. *)
LEMMA FileTurnsAway ==
    ASSUME SInv, file' = file, KeysKept,
           \A m \in LeaseId : slot'[m] = "none" <=> slot[m] = "none",
           Turned' \ Turned \subseteq UNION {SavedWaiters[g] : g \in Gpu}
    PROVE  Durable!LeaveOrPassOn
<1>1. Keys' = Keys /\ Used' = Used
  BY NothingMinted
<1>2. SavedHolders' = SavedHolders /\ SavedWaiters' = SavedWaiters
  BY DEF SavedHolders, SavedWaiters, SavedHolder, SavedLine
<1>3. Turned' \in SUBSET LeaseId
  BY DEF Turned
<1>4. Durable!TurnAway
  BY <1>3, EmptyLine DEF Durable!TurnAway, Turned, SavedWaiters, SavedLine
<1>5. ASSUME NEW g \in Gpu
      PROVE  Durable!MovesOn(g)
  BY <1>2, EmptyLine DEF Durable!MovesOn, SavedHolders, SavedWaiters, SavedHolder, SavedLine
<1>6. /\ SavedHolders' \in [Gpu -> LeaseId \cup {None}]
      /\ SavedWaiters' \in [Gpu -> SUBSET LeaseId]
  <2>1. DOMAIN SavedWaiters = Gpu /\ SavedWaiters = [g \in Gpu |-> SavedWaiters[g]]
    BY DEF SavedWaiters
  <2> QED
    BY <1>2, <2>1, LinesInFile
<1> QED
  BY <1>1, <1>4, <1>5, <1>6, EmptyLine
     DEF Durable!LeaveOrPassOn, SavedHolders, SavedWaiters, SavedHolder, SavedLine, Keys, Key, Used

(* The last write of a process saves who was turned away. *)
LEMMA EndMovesOn ==
    ASSUME SInv, DiskInv, Up, LoseMemory, file' = file \/ file' = Snapshot
    PROVE  Durable!LeaveOrPassOn
<1>0. IInv /\ slot \in [LeaseId -> SlotState]
  BY DEF SInv, IInv, TypeOK
<1>1. /\ KeysKept /\ \A m \in LeaseId : slot'[m] = "none" <=> slot[m] = "none"
      /\ Turned' = {}
  BY DEF LoseMemory, KeysKept, Turned, Refusals
<1>2. CASE file' = Snapshot
  <2>1. Keys' = Keys /\ Used' = Used
    BY <1>1, NothingMinted
  <2>2. /\ file' # None /\ file'.holder = holder /\ file'.queue = queue
    BY <1>0, <1>2, SnapshotRestorable, NoneIsNoSnapshot DEF Snapshot
  <2>3. SavedHolders' = [g \in Gpu |-> holder[g]] /\ SavedWaiters' = Waiters
    BY <2>2 DEF SavedHolders, SavedWaiters, SavedHolder, SavedLine, Waiters, Queued
  <2>4. ASSUME NEW g \in Gpu
        PROVE  /\ SavedHolders'[g] = SavedHolders[g]
               /\ SavedWaiters'[g] \subseteq SavedWaiters[g]
               /\ SavedWaiters[g] \ SavedWaiters'[g] \subseteq Turned
    <3>1. SavedWaiters[g] \subseteq LeaseId /\ SavedWaiters'[g] = Queued(g)
      BY <2>3, LinesInFile DEF Waiters
    <3>2. /\ SavedHolders[g] = holder[g]
          /\ Queued(g) \subseteq SavedWaiters[g]
          /\ \A l \in SavedWaiters[g] \ Queued(g) : slot[l] \in Refusals
      BY <1>0, FileAhead
    <3> QED
      BY <2>3, <3>1, <3>2 DEF Turned
  <2>5. \A g \in Gpu : Durable!MovesOn(g)
    BY <2>4, EmptyLine
       DEF Durable!MovesOn, SavedHolders, SavedWaiters, SavedHolder, SavedLine, Turned
  <2>6. /\ SavedHolders' \in [Gpu -> LeaseId \cup {None}]
        /\ SavedWaiters' \in [Gpu -> SUBSET LeaseId]
    BY <1>0, <2>3, NoElems DEF IInv, TypeOK, Waiters, Queued
  <2>7. Durable!TurnAway
    BY <1>1 DEF Durable!TurnAway, Turned
  <2> QED
    BY <2>1, <2>5, <2>6, <2>7, EmptyLine
       DEF Durable!LeaveOrPassOn, SavedHolders, SavedWaiters, SavedHolder, SavedLine, Keys, Key, Used
<1> QED
  BY <1>1, <1>2, FileTurnsAway

(* A method that mints nothing leaves every id as minted as it was. *)
LEMMA SlotsStayMinted ==
    ASSUME IInv, NEW g \in Gpu,
           \/ ReleaseHeld(g) \/ ExpireNow(g)
           \/ \E ttl \in Ttl \cup {None} : Renew(g, ttl)
           \/ \E l \in LeaseId : Cancel(g, l)
    PROVE  \A m \in LeaseId : slot'[m] = "none" <=> slot[m] = "none"
<1>1. /\ slot \in [LeaseId -> SlotState]
      /\ \A m \in LeaseId : slot[m] = "none" => m \notin Queued(g) /\ m # holder[g]
  BY QueueFacts
<1>2. Promoted(g) \in Queued(g) \cup {None} /\ Elems(Remaining(g)) \subseteq Queued(g)
  BY PromotionFacts
<1>3. CASE ReleaseHeld(g)
  BY <1>1, <1>2, <1>3 DEF ReleaseHeld
<1>4. CASE ExpireNow(g)
  BY <1>1, <1>2, <1>4 DEF ExpireNow, Overdue, Queued
<1>5. CASE \E ttl \in Ttl \cup {None} : Renew(g, ttl)
  BY <1>5 DEF Renew
<1>6. CASE \E l \in LeaseId : Cancel(g, l)
  BY <1>1, <1>6 DEF Cancel
<1> QED
  BY <1>3, <1>4, <1>5, <1>6

(* Every step of the server is a step of the lock in its file, or none. *)
LEMMA FileStepImplements ==
    ASSUME DiskAssumption, SInv, SInv', DiskInv, [ServerNext]_serverVars
    PROVE  [Durable!DurableNext]_Durable!durableVars
<1>0. IInv /\ IInv'
  BY DEF SInv
<1>1. ASSUME Up, Flush, \/ \E g \in Gpu : ReleaseHeld(g) \/ ExpireNow(g)
                        \/ \E g \in Gpu, ttl \in Ttl \cup {None} : Renew(g, ttl)
                        \/ \E g \in Gpu, l \in LeaseId : Cancel(g, l)
      PROVE  Durable!DurableNext
  <2>1. Next
    BY <1>1 DEF Next
  <2>2. Used' = Used
    <3>1. slot \in [LeaseId -> SlotState]
      BY <1>0 DEF IInv, TypeOK
    <3>2. \A m \in LeaseId : slot'[m] = "none" <=> slot[m] = "none"
      BY <1>0, <1>1, <3>1, SlotsStayMinted
    <3> QED
      BY <3>2 DEF Used
  <2>3. /\ \A g \in Gpu : Queued(g) \ Queued(g)' \subseteq Turned' \cup {holder'[g]}
        /\ Turned' \ Turned \subseteq UNION {Queued(g) : g \in Gpu}
    BY <1>0, <1>1, LeaversWoken
  <2> QED
    BY <1>0, <1>1, <2>1, <2>2, <2>3, FlushMovesOn DEF Durable!DurableNext
<1>2. ASSUME NEW l \in LeaseId, NEW want \in Wanted, NEW prio \in Priority,
             NEW ttl \in Ttl, NEW wait \in WaitTimeout, Acquire(l, want, prio, ttl, wait)
      PROVE  Durable!DurableNext
  BY <1>2, AcquireJoinsFile
<1>3. ASSUME NEW l \in LeaseId, Up, ReleaseLease(l)
      PROVE  Durable!DurableNext \/ UNCHANGED Durable!durableVars
  <2>1. CASE Flush /\ ((\E g \in Gpu : ReleaseHeld(g)) \/ \E g \in Gpu : Cancel(g, l))
    BY <1>1, <1>3, <2>1
  <2>2. CASE UNCHANGED <<now, holder, queue, lease, slot, closed, file>>
    BY <2>2, FileStutters DEF KeysKept
  <2> QED
    BY <1>3, <2>1, <2>2 DEF ReleaseLease
<1>4. ASSUME NEW l \in LeaseId, HandlerResume(l) \/ HandlerTimeout(l) \/ ReleaseCall(l)
      PROVE  Durable!DurableNext \/ UNCHANGED Durable!durableVars
  <2>1. CASE HandlerResume(l)
    BY <2>1, FileStutters DEF HandlerResume, KeysKept
  <2>2. CASE HandlerTimeout(l) \/ ReleaseCall(l)
    BY <1>3, <2>2 DEF HandlerTimeout, ReleaseCall, Serving, Up
  <2> QED
    BY <1>4, <2>1, <2>2
<1>5. ASSUME NEW g \in Gpu, (\E ttl \in Ttl \cup {None} : RenewCall(g, ttl)) \/ Expire(g)
      PROVE  Durable!DurableNext
  BY <1>1, <1>5 DEF RenewCall, Expire, Serving, Up
<1>6. ASSUME NEW g \in Gpu, CloseQueue(g)
      PROVE  Durable!DurableNext
  <2>1. /\ file' = file /\ lease' = lease /\ ~closed[g] /\ Up
        /\ slot' = [m \in LeaseId |-> IF m \in Queued(g) THEN "shutdown" ELSE slot[m]]
    BY <1>6 DEF CloseQueue, Shutdown, Drained, Up
  <2>2. \A m \in LeaseId : slot'[m] = "none" <=> slot[m] = "none"
    BY <1>0, <2>1, QueueFacts
  <2>3. Turned' \ Turned \subseteq Queued(g) /\ Queued(g) \subseteq SavedWaiters[g]
    BY <1>0, <2>1, FileAhead DEF Turned
  <2> QED
    BY <2>1, <2>2, <2>3, FileTurnsAway DEF KeysKept, Durable!DurableNext
<1>7. CASE Exit \/ Crash
  <2>1. Up /\ LoseMemory /\ (file' = file \/ file' = Snapshot)
    BY <1>7 DEF Exit, Crash, ShutdownOver, Drained, Up, FinalWrite, WriteFile
  <2> QED
    BY <1>0, <2>1, EndMovesOn DEF Durable!DurableNext
<1>8. CASE Restart
  <2>1. /\ KeysKept /\ file' = file
        /\ \A m \in LeaseId : slot'[m] = "none" <=> slot[m] = "none"
    BY <1>8, RestartDisk DEF Restart
  <2>2. \A m \in LeaseId : slot'[m] = slot[m] \/ slot'[m] \in {"waiting", "granted"}
    BY <1>8 DEF Restart, Restore
  <2>3. Turned' \ Turned = {}
    BY <2>2 DEF Turned, Refusals
  <2> QED
    BY <2>1, <2>3, FileTurnsAway DEF Durable!DurableNext
<1>9. CASE Sigterm \/ Wait \/ UNCHANGED serverVars
  BY <1>9, FileStutters DEF Sigterm, Wait, Tick, ClockStep, serverVars, KeysKept
<1> QED
  BY <1>2, <1>4, <1>5, <1>6, <1>7, <1>8, <1>9 DEF ServerNext

(* No file is a lock at its start. *)
LEMMA NoFileInit == ServerInit => Durable!DurableInit
<1> SUFFICES ASSUME ServerInit
             PROVE  Durable!DurableInit
  OBVIOUS
<1>1. Mutex!Init /\ file = None /\ \A l \in LeaseId : slot[l] = "none"
  BY InitImplements DEF ServerInit, Init
<1>2. Turned = {}
  BY <1>1 DEF Turned, Refusals
<1> QED
  BY <1>1, <1>2 DEF Mutex!Init, Durable!Init, Durable!DurableInit, Turned

(* What the file holds behaves as one lock over all crashes and restarts:   *)
(* a GPU has one holder, who is followed by a most urgent waiter only when  *)
(* it has left, a lease that has left is never brought back, and a waiter   *)
(* leaves its line in the file only for the GPU or after a refusal.        *)
THEOREM FileIsMutex ==
    ASSUME DiskAssumption
    PROVE  ServerSpec => FileImplementsMutex
<1>1. SInv /\ SInv' /\ DiskInv /\ [ServerNext]_serverVars => [Durable!DurableNext]_Durable!durableVars
  BY FileStepImplements
<1> QED
  BY <1>1, NoFileInit, ServerInvariance, DiskInvariance, PTL
     DEF ServerSpec, FileImplementsMutex, Durable!DurableSpec
-----------------------------------------------------------------------------
(* Only an enqueue makes a fresh lease wait. *)
LEMMA OnlyAcquireWaits ==
    ASSUME SInv, [ServerNext]_serverVars,
           NEW l \in LeaseId, slot[l] = "none", slot'[l] = "waiting"
    PROVE  \E want \in Wanted, prio \in Priority, ttl \in Ttl, wait \in WaitTimeout :
             Acquire(l, want, prio, ttl, wait)
<1> SUFFICES ASSUME \A want \in Wanted, prio \in Priority, ttl \in Ttl, wait \in WaitTimeout :
                      ~Acquire(l, want, prio, ttl, wait)
             PROVE  FALSE
  OBVIOUS
<1>1. IInv /\ slot \in [LeaseId -> SlotState]
  BY DEF SInv, IInv, TypeOK
<1>2. ASSUME NEW m \in LeaseId, NEW want \in Wanted, NEW prio \in Priority,
             NEW ttl \in Ttl, NEW wait \in WaitTimeout, Acquire(m, want, prio, ttl, wait)
      PROVE  FALSE
  <2>1. m # l
    BY <1>2
  <2>2. Enqueue(ResolveGpu(want), m, prio, ttl, wait) /\ ResolveGpu(want) \in Gpu
    BY <1>1, <1>2, ResolvedIsGpu DEF Acquire, IInv
  <2>3. \A k \in LeaseId : k # m => slot'[k] = slot[k]
    BY <1>1, <2>2, EnqueueKeeps DEF Enqueue, TypeOK
  <2> QED
    BY <2>1, <2>3
<1>3. \A g \in Gpu : ~ReleaseHeld(g)
  BY DEF ReleaseHeld
<1>4. \A g \in Gpu, m \in LeaseId : ~Cancel(g, m)
  BY <1>1 DEF Cancel
<1>5. \A g \in Gpu : ~ExpireNow(g) /\ ~Shutdown(g)
  BY DEF ExpireNow, Shutdown
<1>6. slot' # slot
  OBVIOUS
<1>7. \A m \in LeaseId : ~ReleaseLease(m)
  BY <1>3, <1>4, <1>6 DEF ReleaseLease
<1>8. \A m \in LeaseId : ~HandlerResume(m) /\ ~HandlerTimeout(m) /\ ~ReleaseCall(m)
  BY <1>6, <1>7 DEF HandlerResume, HandlerTimeout, ReleaseCall
<1>9. \A g \in Gpu : /\ \A ttl \in Ttl \cup {None} : ~RenewCall(g, ttl)
                     /\ ~Expire(g) /\ ~CloseQueue(g)
  BY <1>5, <1>6 DEF RenewCall, Renew, Expire, CloseQueue
<1>10. ~Sigterm /\ ~Wait /\ ~UNCHANGED serverVars
  BY <1>6 DEF Sigterm, Wait, Tick, ClockStep, serverVars
<1>11. ~LoseMemory
  BY DEF LoseMemory
<1>12. ~Restart
  <2> SUFFICES ASSUME Restart
               PROVE  FALSE
    OBVIOUS
  <2>1. /\ ~Up /\ UNCHANGED <<now, closed>>
        /\ file # None /\ Restore(file)
    BY <1>6 DEF Restart, LoadFile
  <2>2. NothingInMemory /\ file \in Snapshots /\ Restorable(file, Minted)
    BY <2>1 DEF SInv
  <2>3. Minted' = Minted
    BY <1>1, <2>1, <2>2, RestoreFacts
  <2> QED
    BY <2>3 DEF Minted
<1> QED
  BY <1>2, <1>8, <1>9, <1>10, <1>11, <1>12 DEF ServerNext, Exit, Crash

(* A request that says gpu=auto and has to wait finds no GPU idle. *)
LEMMA AutoWaitsForBusy ==
    ASSUME IInv, NEW l \in LeaseId, NEW prio \in Priority, NEW ttl \in Ttl,
           NEW wait \in WaitTimeout, Acquire(l, AutoGpu, prio, ttl, wait),
           slot'[l] = "waiting", NEW h \in Gpu
    PROVE  holder[h] # None
<1> DEFINE g == LeastLoaded
<1>1. TypeOK
  BY DEF IInv
<1>2. Enqueue(g, l, prio, ttl, wait)
  BY DEF Acquire, ResolveGpu
<1>3. g \in Gpu /\ Load(g) <= Load(h)
  BY <1>1, LeastLoadedIsLeast
<1> HIDE DEF g
<1>4. holder[g] # None
  BY <1>2, <1>3, EnqueueKeeps
<1>5. Load(g) >= 1
  <2>1. Len(queue[g]) \in Nat
    BY <1>1, <1>3, LenProperties DEF TypeOK
  <2> QED
    BY <1>4, <2>1 DEF Load
<1>6. holder[h] = None => Load(h) = 0
  <2>1. holder[h] = None => queue[h] = <<>>
    BY DEF IInv, NobodyStranded
  <2> QED
    BY <2>1 DEF Load
<1>7. Load(g) \in Nat /\ Load(h) \in Nat
  BY <1>1, <1>3, LoadIsNumber
<1> QED
  BY <1>3, <1>5, <1>6, <1>7

(* Whatever other requests name their GPU themselves: one that says         *)
(* gpu=auto is put in line only when no GPU is idle.                       *)
THEOREM AutoNeverWaitsBesideIdle ==
    ServerSpec =>
        [][\A l \in LeaseId, prio \in Priority, ttl \in Ttl, wait \in WaitTimeout :
             Acquire(l, AutoGpu, prio, ttl, wait) /\ slot'[l] = "waiting" =>
               \A g \in Gpu : holder[g] # None
          ]_serverVars
<1>1. SInv /\ [ServerNext]_serverVars =>
        [\A l \in LeaseId, prio \in Priority, ttl \in Ttl, wait \in WaitTimeout :
           Acquire(l, AutoGpu, prio, ttl, wait) /\ slot'[l] = "waiting" =>
             \A g \in Gpu : holder[g] # None
        ]_serverVars
  BY AutoWaitsForBusy DEF SInv
<1> QED
  BY <1>1, ServerInvariance, PTL DEF ServerSpec

(* When every request says gpu=auto nobody waits while a GPU is idle. *)
THEOREM AutoPrefersIdle ==
    ASSUME Wanted \cap Gpu = {}
    PROVE  ServerSpec => AutoFindsIdle
<1>1. ASSUME SInv, [ServerNext]_serverVars,
             NEW l \in LeaseId, slot[l] = "none", slot'[l] = "waiting", NEW h \in Gpu
      PROVE  holder[h] # None
  <2>1. PICK want \in Wanted, prio \in Priority, ttl \in Ttl, wait \in WaitTimeout :
          Acquire(l, want, prio, ttl, wait)
    BY <1>1, OnlyAcquireWaits
  <2>2. want = AutoGpu
    OBVIOUS
  <2> QED
    BY <1>1, <2>1, <2>2, AutoWaitsForBusy DEF SInv
<1>2. SInv /\ [ServerNext]_serverVars =>
        [\A l \in LeaseId :
           slot[l] = "none" /\ slot'[l] = "waiting" => \A g \in Gpu : holder[g] # None
        ]_serverVars
  BY <1>1
<1> QED
  BY <1>2, ServerInvariance, PTL DEF ServerSpec, AutoFindsIdle
=============================================================================
