---------------------------- MODULE QueueEvents ----------------------------
(***************************************************************************)
(* The events GpuQueue hands to its history hook (`on_event`, manager.py), *)
(* each behind the change it reports, and what HistoryWriter makes of them: *)
(* a record, or none when the file cannot be written.  Of the log only the *)
(* latest record of each lease is kept: the clock is not set back here, so *)
(* some record of a lease lies in a window that ends now exactly if its    *)
(* latest one does.                                                        *)
(***************************************************************************)
EXTENDS GpuQueue

CONSTANT LogFaults    \* may the files of the history fail?

ASSUME LogAssumption == LogFaults \in BOOLEAN

VARIABLES
    last,    \* the latest record about each lease
    lost     \* the leases whose latest event has no record

eventVars == <<vars, last, lost>>

EventName == {"none", "enqueue", "grant", "renew", "release", "cancel",
              "ttl_expire", "wait_timeout"}

Record == [event : EventName, ts : Time]

EventsInit ==
    /\ Init
    /\ last = [l \in LeaseId |-> [event |-> "none", ts |-> 0]]
    /\ lost = {}

(* One record for each lease of the function `events` whose line is written *)
(* and readable: an OSError is logged and the record is gone, and the line  *)
(* behind a torn one is no JSON.                                           *)
Log(events) ==
    \E written \in SUBSET DOMAIN events :
        /\ LogFaults \/ written = DOMAIN events
        /\ last' = [l \in LeaseId |->
              IF l \in written THEN [event |-> events[l], ts |-> now] ELSE last[l]]
        /\ lost' = (lost \cup DOMAIN events) \ written

(* Mutation: the promotion a release causes is not reported. *)
HandOverEventsOnce(g, why) == [l \in {holder[g]} |-> why]

(* The holder leaves, the head of the line, if any, is granted. *)
HandOverEvents(g, why) ==
    [l \in {holder[g], Promoted(g)} \ {None} |-> IF l = holder[g] THEN why ELSE "grant"]

SweepEvents(late) == [l \in late |-> "wait_timeout"]

(* The records of a pass of the ticker. *)
ExpireEvents(g) ==
    IF HolderExpired(g)
    THEN LET passed == HandOverEvents(g, "ttl_expire")
             swept  == SweepEvents(Overdue(Remaining(g)))
         IN  [l \in DOMAIN passed \cup DOMAIN swept |->
                 IF l \in DOMAIN passed THEN passed[l] ELSE swept[l]]
    ELSE SweepEvents(Overdue(queue[g]))

EventsNext ==
    \/ \E g \in Gpu :
        \/ \E l \in LeaseId, prio \in Priority, ttl \in Ttl, wait \in WaitTimeout :
              /\ Enqueue(g, l, prio, ttl, wait)
              /\ Log([m \in {l} |-> IF holder[g] = None THEN "grant" ELSE "enqueue"])
        \/ ReleaseHeld(g) /\ Log(HandOverEvents(g, "release"))
        \/ \E l \in LeaseId : Cancel(g, l) /\ Log([m \in {l} |-> "cancel"])
        \/ \E ttl \in Ttl \cup {None} : Renew(g, ttl) /\ Log([m \in {holder[g]} |-> "renew"])
        \/ ExpireNow(g) /\ Log(ExpireEvents(g))
        \/ Shutdown(g) /\ UNCHANGED <<last, lost>>
    \/ Tick /\ UNCHANGED <<last, lost>>

EventsSpec == EventsInit /\ [][EventsNext]_eventVars
-----------------------------------------------------------------------------
(* Whoever reads the log knows where every lease is whose latest event is   *)
(* in it: it holds a GPU if that was a grant or a renewal, it is in line if *)
(* that was an enqueue and no shutdown turned it away since (which is not   *)
(* reported), it is nowhere otherwise.                                     *)
LogTruthful ==
    \A l \in LeaseId :
        LET held   == \E g \in Gpu : holder[g] = l
            inLine == \E g \in Gpu : l \in Queued(g)
        IN  /\ last[l] \in Record
            /\ l \notin lost =>
                  /\ held <=> last[l].event \in {"grant", "renew"}
                  /\ inLine => last[l].event = "enqueue"
                  /\ last[l].event = "enqueue" => inLine \/ closed[lease[l].gpu]
=============================================================================
