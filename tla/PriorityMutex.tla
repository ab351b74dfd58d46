--------------------------- MODULE PriorityMutex ---------------------------
(***************************************************************************)
(* What the lock service promises, without its clock, queues, handlers and *)
(* files: every GPU has at most one holder, a GPU is passed on only when   *)
(* its holder leaves, then to the most urgent waiter, in the same step, and *)
(* a lease that has left never comes back.                                 *)
(***************************************************************************)
EXTENDS Integers, FiniteSets

CONSTANTS Gpu,      \* the managed GPUs
          LeaseId,  \* lease ids; a request mints a fresh one
          None,     \* the holder of an idle GPU
          Ticket    \* what decides the order: [priority, since] records

VARIABLES holder,   \* [Gpu -> LeaseId or None]
          waiting,  \* [Gpu -> set of LeaseId]
          ticket,   \* [LeaseId -> Ticket], meaningful once the lease joined
          used      \* the lease ids ever minted

vars == <<holder, waiting, ticket, used>>

TypeOK ==
    /\ holder \in [Gpu -> LeaseId \cup {None}]
    /\ waiting \in [Gpu -> SUBSET LeaseId]
    /\ ticket \in [LeaseId -> Ticket]
    /\ used \in SUBSET LeaseId

Ahead(t, u) ==
    \/ t.priority > u.priority
    \/ t.priority = u.priority /\ t.since < u.since

MostUrgent(g) ==
    {l \in waiting[g] : \A m \in waiting[g] : ~Ahead(ticket[m], ticket[l])}

Init ==
    /\ holder = [g \in Gpu |-> None]
    /\ waiting = [g \in Gpu |-> {}]
    /\ ticket \in [LeaseId -> Ticket]
    /\ used = {}

(* A fresh lease takes the idle GPU or joins its waiters. *)
Join(g, l) ==
    /\ l \notin used
    /\ used' = used \cup {l}
    /\ \E t \in Ticket : ticket' = [ticket EXCEPT ![l] = t]
    /\ \/ /\ holder[g] = None
          /\ holder' = [holder EXCEPT ![g] = l]
          /\ UNCHANGED waiting
       \/ /\ holder[g] # None
          /\ waiting' = [waiting EXCEPT ![g] = @ \cup {l}]
          /\ UNCHANGED holder

(* Waiters give up; the holder is not disturbed. *)
Leave(g, gone) ==
    /\ gone \subseteq waiting[g]
    /\ waiting' = [waiting EXCEPT ![g] = @ \ gone]
    /\ UNCHANGED <<holder, ticket, used>>

(* The holder leaves and nobody waits. *)
Vacate(g) ==
    /\ holder[g] # None
    /\ waiting[g] = {}
    /\ holder' = [holder EXCEPT ![g] = None]
    /\ UNCHANGED <<waiting, ticket, used>>

(* The holder leaves, a most urgent waiter takes over in the same step, and *)
(* others may give up in that step too.                                    *)
HandOver(g, next, gone) ==
    /\ holder[g] # None
    /\ next \in MostUrgent(g)
    /\ gone \subseteq waiting[g] \ {next}
    /\ holder' = [holder EXCEPT ![g] = next]
    /\ waiting' = [waiting EXCEPT ![g] = @ \ (gone \cup {next})]
    /\ UNCHANGED <<ticket, used>>

Next ==
    \E g \in Gpu :
        \/ \E l \in LeaseId : Join(g, l)
        \/ \E gone \in SUBSET waiting[g] : Leave(g, gone)
        \/ Vacate(g)
        \/ \E next \in waiting[g] :
              \E gone \in SUBSET waiting[g] : HandOver(g, next, gone)

Spec == Init /\ [][Next]_vars
=============================================================================
