----------------------------- MODULE IdleCheck -----------------------------
(***************************************************************************)
(* is_idle_async and is_idle_sync of _client.py: "may a background task    *)
(* use the GPU now?", asked of the server in two calls, GET /queue and then *)
(* GET /history, while others enqueue, hold and release leases.            *)
(***************************************************************************)
EXTENDS QueueEvents

CONSTANTS
    Mine,            \* the leases of exclude_owners
    Window,          \* idle_minutes, within the retention of the history
    Second,          \* what the name of a history file cuts off its opening
    CallLimit,       \* bound: the second answer comes this soon after the first
    HistoryEnabled,  \* is GPU_LOCK_HISTORY_DIR set?
    Lossy            \* may a call fail in transit?

ASSUME IdleAssumption ==
    /\ Mine \subseteq LeaseId
    /\ Second \in Nat \ {0} /\ CallLimit \in Nat
    /\ Window \in Nat /\ CallLimit + Second <= Window
    /\ {HistoryEnabled, Lossy} \subseteq BOOLEAN

VARIABLES
    check,   \* the check under way, or the last one; see Check
    heldAt   \* when each lease last held a GPU, NotHeld if it never did

idleVars == <<eventVars, check, heldAt>>

NotHeld == -1

(* "empty": /queue was read at `asked`, and nobody was there; "idle": the   *)
(* last check said True, after it heard the history, or "unheard" without   *)
(* the history, or a file of it.                                           *)
Check == [verdict : {"none", "empty", "idle", "unheard"}, scope : SUBSET Gpu, asked : Time]

(* No check is under way, and the last one ended so. *)
Ended(verdict) == [verdict |-> verdict, scope |-> {}, asked |-> 0]

IdleInit ==
    /\ EventsInit
    /\ check = Ended("none")
    /\ heldAt = [l \in LeaseId |-> NotHeld]

(* What the server does meanwhile, and who holds a GPU at that moment. *)
Others ==
    /\ EventsNext
    /\ heldAt' = [l \in LeaseId |->
          IF \E g \in Gpu : l \in {holder[g], holder'[g]} THEN now' ELSE heldAt[l]]
    /\ check.verdict = "empty" => now' <= check.asked + CallLimit
    /\ UNCHANGED check

(* What GET /queue tells of a GPU. *)
QueueInfo(g) == [queue_length |-> Len(queue[g]), busy |-> holder[g] # None]

(* _queue_is_empty, of the GPUs asked about: one, or all. *)
QueueIsEmpty(scope) ==
    \A g \in scope : ~QueueInfo(g).busy /\ QueueInfo(g).queue_length = 0

Scopes == {{g} : g \in Gpu} \cup {Gpu}

(* GET /queue: somebody there, or no answer, and the check says False. *)
AskQueue(scope) ==
    /\ check.verdict # "empty"
    /\ \/ /\ QueueIsEmpty(scope)
          /\ check' = [verdict |-> "empty", scope |-> scope, asked |-> now]
       \/ /\ ~QueueIsEmpty(scope) \/ Lossy
          /\ check' = Ended("none")
    /\ UNCHANGED <<eventVars, heldAt>>

(* Mutation: only grants are asked for. *)
GrantRecords(scope, since) ==
    {l \in LeaseId \ Mine :
        last[l].event = "grant" /\ lease[l].gpu \in scope /\ last[l].ts >= since}

(* The leases with a record of that time or later. *)
Records(scope, since) ==
    {l \in LeaseId \ Mine :
        last[l].event # "none" /\ lease[l].gpu \in scope /\ last[l].ts >= since}

(* Which of them GET /history returns depends, in the first second of the  *)
(* window, on the file they are in: one that ends there by its name is not *)
(* opened.                                                                 *)
Recent(scope) == Records(scope, now - Window)
Certain(scope) == Records(scope, now - Window + Second)

(* GET /history is answered; from a file that cannot be read it returns     *)
(* nothing, and does not say so.                                           *)
AskHistory ==
    /\ check.verdict = "empty"
    /\ HistoryEnabled
    /\ \/ Recent(check.scope) # {} /\ check' = Ended("none")
       \/ Certain(check.scope) = {} /\ check' = Ended("idle")
       \/ LogFaults /\ check' = Ended("unheard")
    /\ UNCHANGED <<eventVars, heldAt>>

(* GET /history fails, or there is no history (404): idle all the same. *)
NoHistory ==
    /\ check.verdict = "empty"
    /\ Lossy \/ ~HistoryEnabled
    /\ check' = Ended("unheard")
    /\ UNCHANGED <<eventVars, heldAt>>

IdleNext ==
    \/ Others
    \/ \E scope \in Scopes : AskQueue(scope)
    \/ AskHistory
    \/ NoHistory

IdleSpec == IdleInit /\ [][IdleNext]_idleVars
-----------------------------------------------------------------------------
(* Of those whose latest event is in the log, nobody else holds or awaits a *)
(* GPU of `scope`, nor held one in the window, its first second excepted.   *)
Quiet(scope) ==
    \A l \in LeaseId \ (Mine \cup lost) : lease[l].gpu \in scope =>
        /\ \A g \in Gpu : l # holder[g] /\ l \notin Queued(g)
        /\ heldAt[l] # NotHeld => heldAt[l] < now - Window + Second

(* A verdict that rests on all files of the history is right when they are *)
(* read, whoever came and went between the two calls, and whichever other   *)
(* records were lost: who came and went left a record in the window, which *)
(* is longer than the calls take.                                          *)
IdleIsQuiet ==
    [][check.verdict = "empty" /\ check'.verdict = "idle" => Quiet(check.scope)]_idleVars

(* _client.py:214-215: on transport error the check fails closed; that there *)
(* is no history at all is another case.                                   *)
FailsClosed ==
    [][check.verdict = "empty" /\ check'.verdict \in {"idle", "unheard"} /\ HistoryEnabled
          => Quiet(check.scope)]_idleVars
=============================================================================
