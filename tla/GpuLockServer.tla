--------------------------- MODULE GpuLockServer ---------------------------
(***************************************************************************)
(* The server process: the fleet of GpuQueues behind GpuLockManager, the   *)
(* HTTP handlers of app.py that sleep on wait slots, the state file, and   *)
(* the process life cycle (SIGTERM, drain, shutdown, exit, crash, restart). *)
(* A handler runs atomically between two awaits, so each of its stretches  *)
(* is one action; every change of a queue also flushes the state file.     *)
(***************************************************************************)
EXTENDS GpuQueue

CONSTANTS
    AutoGpu,     \* the request parameter gpu=auto
    Wanted,      \* the gpu parameters requests carry: subset of Gpu \cup {AutoGpu}
    Persistent,  \* is GPU_LOCK_STATE_FILE set?
    DiskFaults,  \* may writing or loading the state file fail?
    Strangers,   \* does anybody but its client release or renew a lease?  (/status
                 \* shows the ids; README: release, or cancel a queued one)
    HostDrains,  \* does the HTTP host finish open requests before it runs the
                 \* shutdown half of `lifespan` (uvicorn) or not (tests)?
    ZeroDrain    \* may GPU_LOCK_SHUTDOWN_DRAIN be 0?

ASSUME ServerAssumption ==
    /\ Gpu \subseteq Nat /\ Gpu # {}
    /\ AutoGpu \notin Gpu
    /\ Wanted \subseteq Gpu \cup {AutoGpu}
    /\ {Persistent, DiskFaults, Strangers, HostDrains, ZeroDrain} \subseteq BOOLEAN

VARIABLES
    phase,    \* of the process; see Phase
    request,  \* the /acquire handler of each lease; see RequestState
    told,     \* expires_at in the last 200 answer its client got, 0 if none
    file      \* the state file: a snapshot, or None

serverVars == <<now, holder, queue, lease, slot, closed, phase, request, told, file>>

Phase == {"running", "draining", "closing", "stopped", "crashed"}
Up == phase \in {"running", "draining", "closing"}

(* "granted": 200, "timeout": 408, "shutdown": 503, "error": 500, "lost":   *)
(* the process ended under the handler.                                    *)
RequestState == {"none", "waiting", "granted", "timeout", "shutdown", "error", "lost"}

Snapshots == [holder : [Gpu -> LeaseId \cup {None}],
              queue : [Gpu -> Seq(LeaseId)],
              lease : [LeaseId -> Lease]]

(* A file that is absent is not a snapshot. *)
ASSUME NoneIsNoSnapshot == None \notin Snapshots

(* One type invariant for the server: a request is in a state its client    *)
(* can see, the file is a snapshot or absent.                              *)
ServerTypeOK ==
    /\ TypeOK
    /\ phase \in Phase
    /\ request \in [LeaseId -> RequestState]
    /\ told \in [LeaseId -> Nat]
    /\ file \in Snapshots \cup {None}

(* Requests reach the handlers: the host accepts them. *)
Serving == phase = "running" \/ (Up /\ ~HostDrains)

InPlace(l) == \E g \in Gpu : holder[g] = l \/ l \in Queued(g)

(* Lease.to_snapshot of the leases some queue owns. *)
SavedLeases == [l \in LeaseId |-> IF InPlace(l) THEN lease[l] ELSE Blank]

(* GpuLockManager.snapshot: holder and line of every queue, with the leases *)
(* they name; the rest of the process is not saved.                        *)
Snapshot == [holder |-> holder, queue |-> queue, lease |-> SavedLeases]

(* StateFile.write: a temporary file takes the place of the old one, whole, *)
(* or the write fails and leaves the old one.                              *)
WriteFile(data) ==
    \/ Persistent /\ file' = data
    \/ (~Persistent \/ DiskFaults) /\ UNCHANGED file

(* StateFile.load: None when there is no file, or none that can be read. *)
LoadFile == {file} \cup (IF DiskFaults THEN {None} ELSE {})

(* _flush, after every change; a write that fails is only logged. *)
Flush == WriteFile(Snapshot')

(* Mutation: the holder does not count as load. *)
LoadOfLine(g) == Len(queue[g])

Load(g) == Len(queue[g]) + (IF holder[g] # None THEN 1 ELSE 0)

(* resolve_gpu: auto is the least loaded GPU, the lowest id among equals. *)
LeastLoaded ==
    CHOOSE g \in Gpu : \A h \in Gpu :
        Load(g) < Load(h) \/ (Load(g) = Load(h) /\ g <= h)
ResolveGpu(want) == IF want = AutoGpu THEN LeastLoaded ELSE want

(* Mutation: the handler passes the reason on. *)
AnswerRaw(reason) == reason

(* The answer of the handler of l, woken for the given reason. *)
AnswerTo(reason) ==
    CASE reason = "granted"      -> "granted"
      [] reason = "wait_timeout" -> "timeout"
      [] reason = "shutdown"     -> "shutdown"
      [] OTHER                   -> "error"
-----------------------------------------------------------------------------
ServerInit ==
    /\ Init
    /\ phase = "running"
    /\ request = [l \in LeaseId |-> "none"]
    /\ told = [l \in LeaseId |-> 0]
    /\ file = None

(* POST /acquire up to its first suspension: a grant is answered at once,   *)
(* otherwise the handler starts to sleep on the slot.                      *)
Acquire(l, want, prio, ttl, wait) ==
    /\ Serving
    /\ phase # "closing"
    /\ Enqueue(ResolveGpu(want), l, prio, ttl, wait)
    /\ IF slot'[l] = "granted"
       THEN /\ request' = [request EXCEPT ![l] = "granted"]
            /\ told' = [told EXCEPT ![l] = lease'[l].expires_at]
       ELSE /\ request' = [request EXCEPT ![l] = "waiting"]
            /\ UNCHANGED told
    /\ Flush
    /\ UNCHANGED phase

(* The handler wakes up because the event was set, and answers with the    *)
(* reason it finds in the slot.                                            *)
HandlerResume(l) ==
    /\ Up
    /\ request[l] = "waiting"
    /\ slot[l] # "waiting"
    /\ request' = [request EXCEPT ![l] = AnswerTo(slot[l])]
    /\ told' = IF slot[l] = "granted"
               THEN [told EXCEPT ![l] = lease[l].expires_at] ELSE told
    /\ UNCHANGED <<now, holder, queue, lease, slot, closed, phase, file>>

(* manager.release: whichever queue owns the lease lets it go. *)
ReleaseLease(l) ==
    \/ /\ \E g \in Gpu : (holder[g] = l /\ ReleaseHeld(g)) \/ Cancel(g, l)
       /\ Flush
    \/ /\ ~InPlace(l)
       /\ UNCHANGED <<now, holder, queue, lease, slot, closed, file>>

(* Mutation: the handler sleeps without a timeout of its own. *)
TimerNever(l) == FALSE

(* Its own timer, one second behind the ticker's, fires first: the handler *)
(* gives the lease back, granted or not, and answers 408.                  *)
TimerDue(l) == ClockSteps \/ now > lease[l].enqueued_at + lease[l].wait_timeout

(* Mutation: the handler answers 408 and leaves the lease where it is. *)
HandlerTimeoutOnly(l) ==
    /\ Up
    /\ request[l] = "waiting"
    /\ TimerDue(l)
    /\ request' = [request EXCEPT ![l] = "timeout"]
    /\ UNCHANGED <<now, holder, queue, lease, slot, closed, phase, told, file>>

HandlerTimeout(l) ==
    /\ Up
    /\ request[l] = "waiting"
    /\ TimerDue(l)
    /\ ReleaseLease(l)
    /\ request' = [request EXCEPT ![l] = "timeout"]
    /\ UNCHANGED <<phase, told>>

(* POST /release, by the client that was granted the lease or by a stranger. *)
(* From then on the client does not rely on what it was told before.       *)
ReleaseCall(l) ==
    /\ Serving
    /\ Strangers \/ request[l] = "granted"
    /\ InPlace(l)
    /\ ReleaseLease(l)
    /\ told' = [told EXCEPT ![l] = 0]
    /\ UNCHANGED <<phase, request>>

(* Mutation: a renewal is not saved. *)
RenewCallUnsaved(g, ttl) ==
    /\ Serving
    /\ Renew(g, ttl)
    /\ \/ /\ request[holder[g]] = "granted"
          /\ told' = [told EXCEPT ![holder[g]] = lease'[holder[g]].expires_at]
       \/ Strangers /\ UNCHANGED told
    /\ UNCHANGED <<phase, request, file>>

(* POST /renew of the held lease, by its client or by a stranger. *)
RenewCall(g, ttl) ==
    /\ Serving
    /\ Renew(g, ttl)
    /\ \/ /\ request[holder[g]] = "granted"
          /\ told' = [told EXCEPT ![holder[g]] = lease'[holder[g]].expires_at]
       \/ Strangers /\ UNCHANGED told
    /\ Flush
    /\ UNCHANGED <<phase, request>>

(* Mutation: what the ticker does is not saved. *)
ExpireUnsaved(g) ==
    /\ Up
    /\ ExpireNow(g)
    /\ UNCHANGED <<phase, request, told, file>>

(* The ticker of g, until its queue is shut down. *)
Expire(g) ==
    /\ Up
    /\ ExpireNow(g)
    /\ Flush
    /\ UNCHANGED <<phase, request, told>>
-----------------------------------------------------------------------------
(* SIGTERM: uvicorn closes its sockets and waits for the open requests. *)
Sigterm ==
    /\ phase = "running"
    /\ phase' = "draining"
    /\ UNCHANGED <<now, holder, queue, lease, slot, closed, request, told, file>>

Drained ==
    /\ phase = "draining"
    /\ HostDrains => \A l \in LeaseId : request[l] # "waiting"

(* manager.shutdown: the manager and its first queue close in one step, the *)
(* next queue when the ticker of the one before has been reaped.  Nothing  *)
(* is flushed.                                                             *)
CloseQueue(g) ==
    /\ Drained \/ phase = "closing"
    /\ Shutdown(g)
    /\ phase' = "closing"
    /\ UNCHANGED <<request, told, file>>

(* The memory of the process is gone, with the handlers that ran in it. *)
LoseMemory ==
    /\ holder' = [g \in Gpu |-> None]
    /\ queue' = [g \in Gpu |-> <<>>]
    /\ slot' = [l \in LeaseId |-> IF slot[l] = "none" THEN "none" ELSE "gone"]
    /\ closed' = [g \in Gpu |-> FALSE]
    /\ request' = [l \in LeaseId |-> IF request[l] = "waiting" THEN "lost" ELSE request[l]]
    /\ UNCHANGED <<now, lease, told>>

(* Mutation: the process ends without its last flush. *)
FinalWriteSkipped == UNCHANGED file

(* The _flush of `lifespan`, of what the queues hold before memory goes. *)
FinalWrite == WriteFile(Snapshot)

(* manager.shutdown has finished; with a timeout of 0 `wait_for` cancels it *)
(* before it starts.  Any other timeout does not stop it: q.shutdown, where *)
(* it suspends, swallows the cancellation.                                 *)
ShutdownOver ==
    \/ phase = "closing" /\ \A g \in Gpu : closed[g]
    \/ ZeroDrain /\ Drained

(* The end of `lifespan`: the last flush, and the process ends. *)
Exit ==
    /\ ShutdownOver
    /\ FinalWrite
    /\ phase' = "stopped"
    /\ LoseMemory

(* SIGKILL, the OOM killer: at any moment, nothing is written.  (The file   *)
(* survives the process; persistence.py does not sync the directory, so    *)
(* after a power failure the file may be an older one.)                    *)
Crash ==
    /\ Up
    /\ phase' = "crashed"
    /\ LoseMemory
    /\ UNCHANGED file

(* Mutations: only the lines are restored; only the holders are restored;  *)
(* expires_at is not restored.                                             *)
RestoreLines(saved) ==
    /\ queue' = saved.queue
    /\ slot' = [l \in LeaseId |->
                   IF \E g \in Gpu : l \in Elems(saved.queue[g]) THEN "waiting" ELSE slot[l]]
    /\ UNCHANGED <<holder, lease>>

RestoreHolders(saved) ==
    /\ holder' = saved.holder
    /\ lease' = [l \in LeaseId |-> IF saved.lease[l] # Blank THEN saved.lease[l] ELSE lease[l]]
    /\ slot' = [l \in LeaseId |->
                   IF \E g \in Gpu : l = saved.holder[g] THEN "granted" ELSE slot[l]]
    /\ UNCHANGED queue

RestoreUnarmed(saved) ==
    /\ holder' = saved.holder
    /\ queue' = saved.queue
    /\ lease' = [l \in LeaseId |->
                    IF saved.lease[l] # Blank
                    THEN [saved.lease[l] EXCEPT !.expires_at = NotGranted] ELSE lease[l]]
    /\ slot' = [l \in LeaseId |->
                   IF \E g \in Gpu : l \in Elems(saved.queue[g]) THEN "waiting"
                   ELSE IF \E g \in Gpu : l = saved.holder[g] THEN "granted"
                   ELSE slot[l]]

(* Lease.from_snapshot of the leases in the file. *)
RestoredLeases(saved) ==
    [l \in LeaseId |-> IF saved.lease[l] # Blank THEN saved.lease[l] ELSE lease[l]]

(* GpuLockManager.restore.  The slots of a restored line are new; nobody   *)
(* waits on them.                                                          *)
Restore(saved) ==
    /\ holder' = saved.holder
    /\ queue' = saved.queue
    /\ lease' = RestoredLeases(saved)
    /\ slot' = [l \in LeaseId |->
                   IF \E g \in Gpu : l \in Elems(saved.queue[g]) THEN "waiting"
                   ELSE IF \E g \in Gpu : l = saved.holder[g] THEN "granted"
                   ELSE slot[l]]

(* create_app: load the file, restore the queues from what was loaded. *)
Restart ==
    /\ ~Up
    /\ phase' = "running"
    /\ \E saved \in LoadFile :
          \/ saved # None /\ Restore(saved)
          \/ saved = None /\ UNCHANGED <<holder, queue, lease, slot>>
    /\ UNCHANGED <<now, closed, request, told, file>>

(* Time passes for everybody, whether the process runs or not. *)
Wait == (Tick \/ ClockStep) /\ UNCHANGED <<phase, request, told, file>>

ServerNext ==
    \/ \E l \in LeaseId :
        \/ \E want \in Wanted, prio \in Priority, ttl \in Ttl, wait \in WaitTimeout :
              Acquire(l, want, prio, ttl, wait)
        \/ HandlerResume(l)
        \/ HandlerTimeout(l)
        \/ ReleaseCall(l)
    \/ \E g \in Gpu :
        \/ \E ttl \in Ttl \cup {None} : RenewCall(g, ttl)
        \/ Expire(g)
        \/ CloseQueue(g)
    \/ Sigterm
    \/ Exit
    \/ Crash
    \/ Restart
    \/ Wait

ServerSpec == ServerInit /\ [][ServerNext]_serverVars

(* Open requests are worked on: time passes and the loop runs ready        *)
(* handlers.  The ticker is not needed for that, nor is anything owed after *)
(* a crash.                                                                *)
HandlerFairness ==
    /\ WF_serverVars(Wait)
    /\ \A l \in LeaseId : WF_serverVars(HandlerResume(l)) /\ WF_serverVars(HandlerTimeout(l))

HandlerFairSpec == ServerSpec /\ HandlerFairness
-----------------------------------------------------------------------------
(* The client of l was told it holds the GPU until a time still to come. *)
Relies(l) == told[l] > now

(* The reason the service exists (README: two processes fight for one      *)
(* VRAM): never do two clients rely on the same GPU, whatever releases,     *)
(* expiries, crashes and restarts lie between their answers.               *)
NoTwoRely ==
    \A l, m \in LeaseId :
        l # m /\ Relies(l) /\ Relies(m) => lease[l].gpu # lease[m].gpu

(* The server keeps its word: a lease a client relies on is the holder of   *)
(* its GPU whenever the server is up, after a restart too.                 *)
LeaseHonoured ==
    Up => \A l \in LeaseId : Relies(l) => holder[lease[l].gpu] = l

Saved(l) ==
    file # None /\ \E g \in Gpu : file.holder[g] = l \/ l \in Elems(file.queue[g])

(* A client that was refused leaves nothing behind: no GPU is or will be   *)
(* given to a lease whose request ended in 408, 503 or 500, neither by this *)
(* process nor by one that starts from the file.  It needs a host that     *)
(* drains: a waiter turned away by `shutdown` is in the file until the end. *)
RefusedIsGone ==
    \A l \in LeaseId :
        request[l] \in {"timeout", "shutdown", "error"} => ~InPlace(l) /\ ~Saved(l)

(* Every open request is answered, or dies with the process, even when the  *)
(* ticker never runs.                                                      *)
EveryRequestEnds ==
    \A l \in LeaseId : request[l] = "waiting" ~> request[l] # "waiting"

(* A graceful stop saves every lease a client relies on and no waiter.     *)
(* (README: it preserves holders in the state file and notifies waiters.)  *)
StopSavesHolders ==
    phase = "stopped" /\ file # None =>
        /\ \A g \in Gpu : file.queue[g] = <<>>
        /\ \A l \in LeaseId : Relies(l) => file.holder[lease[l].gpu] = l

(* A process that dies between any two steps loses nothing: until the       *)
(* shutdown begins, the file holds every holder, line and expiry there is   *)
(* (persistence.py:14-17; README: state is snapshot on every change).      *)
NothingToLose ==
    phase \in {"running", "draining"} =>
        file = Snapshot \/ (file = None /\ \A l \in LeaseId : ~InPlace(l))

(* The reasons that tell a waiter it will not get the GPU. *)
Refusals == {"cancelled", "wait_timeout", "shutdown"}

(* What the file promises whoever starts from it: DurableMutex.  No crash   *)
(* and no restart brings back a lease that has left, passes on a GPU whose  *)
(* holder stays, or drops a waiter from its line unless the waiter got the *)
(* GPU or its handler was woken with a refusal.  (That no holder a client  *)
(* relies on is dropped is LeaseHonoured.)                                 *)
Durable == INSTANCE DurableMutex WITH
    Ticket  <- [priority : Priority \cup {0}, since : Time],
    holder  <- [g \in Gpu |-> IF file = None THEN None ELSE file.holder[g]],
    waiting <- [g \in Gpu |-> IF file = None THEN {} ELSE Elems(file.queue[g])],
    ticket  <- [l \in LeaseId |-> [priority |-> lease[l].priority,
                                   since |-> lease[l].enqueued_at]],
    used    <- {l \in LeaseId : slot[l] # "none"},
    turned  <- {l \in LeaseId : slot[l] \in Refusals}

FileImplementsMutex == Durable!DurableSpec

(* gpu=auto never makes a request wait while a GPU is idle. *)
AutoFindsIdle ==
    [][\A l \in LeaseId :
         slot[l] = "none" /\ slot'[l] = "waiting" => \A g \in Gpu : holder[g] # None
      ]_serverVars
=============================================================================
