---------------------------- MODULE DurableMutex ----------------------------
(***************************************************************************)
(* What the state file promises: PriorityMutex across crashes and restarts. *)
(* One write can save what several queues did since the last one (shutdown  *)
(* turns waiters away without writing), so in one step waiters may leave    *)
(* any of the GPUs, and the last waiters together with the holder.  But    *)
(* nobody is dropped from a line in silence: whoever leaves it is the next *)
(* holder, or has been told so.                                            *)
(***************************************************************************)
EXTENDS PriorityMutex

VARIABLE turned   \* the leases whose waiters were told that they will get nothing

durableVars == <<vars, turned>>

DurableInit == Init /\ turned = {}

(* A step in which nobody joins, at g: waiters leave who are turned away or *)
(* promoted; the holder stays, or leaves when nobody waits any more, or a   *)
(* most urgent waiter follows.                                             *)
MovesOn(g) ==
    /\ waiting'[g] \subseteq waiting[g]
    /\ waiting[g] \ waiting'[g] \subseteq turned \cup turned' \cup {holder'[g]}
    /\ \/ holder'[g] = holder[g]
       \/ holder'[g] = None /\ waiting'[g] = {}
       \/ holder[g] # None /\ holder'[g] \in MostUrgent(g) \ waiting'[g]

(* Only waiters are turned away.  Who was, is forgotten in time: an id is   *)
(* never used again.                                                       *)
TurnAway ==
    /\ turned' \in SUBSET LeaseId
    /\ turned' \ turned \subseteq UNION {waiting[g] : g \in Gpu}

LeaveOrPassOn ==
    /\ holder' \in [Gpu -> LeaseId \cup {None}]
    /\ waiting' \in [Gpu -> SUBSET LeaseId]
    /\ TurnAway
    /\ \A g \in Gpu : MovesOn(g)
    /\ UNCHANGED <<ticket, used>>

DurableNext ==
    \/ \E g \in Gpu, l \in LeaseId : Join(g, l) /\ UNCHANGED turned
    \/ LeaveOrPassOn

DurableSpec == DurableInit /\ [][DurableNext]_durableVars
=============================================================================
