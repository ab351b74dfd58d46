--------------------------- MODULE GpuLockClients ---------------------------
(***************************************************************************)
(* The clients of the server: the context managers of _client.py and       *)
(* `gpu-lock run` of _cli.py, which acquire a lease, work under it while a *)
(* background task renews it, and release it, over a network that delays   *)
(* and loses calls, while clients die and the server crashes and restarts. *)
(* A client asks for one lease, so clients are named by their lease ids.   *)
(***************************************************************************)
EXTENDS GpuLockServer, FiniteSetsExt

CONSTANTS
    Floor, Ceiling,  \* of the heartbeat interval: 10 s and 300 s
    HttpDelay,       \* the longest an answer takes; the timeout of a renewal
    PromptClients,   \* do clients and handlers act when their time has come?
    MaxMissed,       \* bound: missed renewals are counted up to here
    MaxLate          \* bound: so many renewals at most are on the wire, left behind

ASSUME ClientAssumption ==
    /\ {Floor, Ceiling} \subseteq Nat \ {0}
    /\ {HttpDelay, MaxMissed, MaxLate} \subseteq Nat
    /\ PromptClients \in BOOLEAN

VARIABLES
    client,  \* the process that asks for the lease; see ClientState
    beat,    \* its heartbeat; see BeatState
    since,   \* when the heartbeat entered its present state
    missed,  \* renewals in a row of which it heard no success
    late     \* how many renewals it has left behind on the wire

clientVars == <<client, beat, since, missed, late>>
systemVars == <<serverVars, clientVars>>

(* "unlocked": it went on without a lease; "leaving": its work is over and *)
(* its release on the way; "done": finished, or dead.                      *)
ClientState == {"idle", "calling", "working", "unlocked", "leaving", "done"}

(* "sent": a renewal is under way; "renewed": the server has handled it. *)
BeatState == {"none", "asleep", "sent", "renewed"}

(* One type invariant for the clients: a heartbeat beats only while its      *)
(* client works, under a lease it was granted.                             *)
ClientTypeOK ==
    /\ client \in [LeaseId -> ClientState]
    /\ beat \in [LeaseId -> BeatState]
    /\ since \in [LeaseId -> Time]
    /\ missed \in [LeaseId -> 0..MaxMissed]
    /\ late \in [LeaseId -> 0..MaxLate]
    /\ \A l \in LeaseId :
        beat[l] # "none" => client[l] = "working" /\ request[l] = "granted"

(* _heartbeat_interval *)
Interval(ttl) == Max({Floor, Min({ttl \div 3, Ceiling})})

SystemInit ==
    /\ ServerInit
    /\ client = [l \in LeaseId |-> "idle"]
    /\ beat = [l \in LeaseId |-> "none"]
    /\ since = [l \in LeaseId |-> 0]
    /\ missed = [l \in LeaseId |-> 0]
    /\ late = [l \in LeaseId |-> 0]

(* Heartbeat of l enters state s at this moment. *)
Beat(l, s) ==
    /\ beat' = [beat EXCEPT ![l] = s]
    /\ since' = [since EXCEPT ![l] = IF s = "none" THEN 0 ELSE now]

(* Nobody waits any more for a renewal that is under way. *)
LeaveBehind(l) ==
    late' = [late EXCEPT ![l] = IF beat[l] = "sent" THEN Min({@ + 1, MaxLate}) ELSE @]
-----------------------------------------------------------------------------
(* The request reaches the server, perhaps when its client has given up.   *)
CallAcquire(l, want, prio, ttl, wait) ==
    /\ client[l] \in {"idle", "unlocked"}
    /\ Acquire(l, want, prio, ttl, wait)
    /\ client' = [client EXCEPT ![l] = IF @ = "idle" THEN "calling" ELSE @]
    /\ UNCHANGED <<beat, since, missed, late>>

(* The 200 answer arrives: the heartbeat starts and the work begins. *)
Granted(l) ==
    /\ client[l] = "calling"
    /\ request[l] = "granted"
    /\ client' = [client EXCEPT ![l] = "working"]
    /\ Beat(l, "asleep")
    /\ UNCHANGED <<missed, late>>
    /\ UNCHANGED serverVars

(* No 200 answer: the server refused, did not exist, or its answer was lost *)
(* or came too late.  All of it is caught and means "without lock".        *)
GoUnlocked(l) ==
    /\ client[l] \in {"idle", "calling"}
    /\ client' = [client EXCEPT ![l] = "unlocked"]
    /\ UNCHANGED <<beat, since, missed, late>>
    /\ UNCHANGED serverVars

(* The heartbeat wakes up and sends its renewal. *)
SendBeat(l) ==
    /\ beat[l] = "asleep"
    /\ now >= since[l] + Interval(lease[l].ttl)
    /\ Beat(l, "sent")
    /\ UNCHANGED <<client, missed, late>>
    /\ UNCHANGED serverVars

(* The renewal reaches the server while the lease holds its GPU. *)
HandleBeat(l) ==
    /\ beat[l] = "sent"
    /\ \E g \in Gpu : holder[g] = l /\ RenewCall(g, None)
    /\ beat' = [beat EXCEPT ![l] = "renewed"]
    /\ UNCHANGED <<client, since, missed, late>>

(* The client hears that the renewal succeeded. *)
BeatHeard(l) ==
    /\ beat[l] = "renewed"
    /\ Beat(l, "asleep")
    /\ missed' = [missed EXCEPT ![l] = 0]
    /\ UNCHANGED <<client, late>>
    /\ UNCHANGED serverVars

(* Mutation: the loop ends at the first failure. *)
BeatFailsForGood(l) ==
    /\ beat[l] \in {"sent", "renewed"}
    /\ Beat(l, "none")
    /\ missed' = [missed EXCEPT ![l] = Min({@ + 1, MaxMissed})]
    /\ LeaveBehind(l)
    /\ UNCHANGED client
    /\ UNCHANGED serverVars

(* The renewal fails (404, no server, no answer in time): renew_* logs it   *)
(* and the loop goes on.  The request may still be on the wire.            *)
BeatFails(l) ==
    /\ beat[l] \in {"sent", "renewed"}
    /\ Beat(l, "asleep")
    /\ missed' = [missed EXCEPT ![l] = Min({@ + 1, MaxMissed})]
    /\ LeaveBehind(l)
    /\ UNCHANGED client
    /\ UNCHANGED serverVars

(* A renewal nobody waits for any more reaches the server, or never does. *)
LateBeat(l) ==
    /\ late[l] > 0
    /\ late' = [late EXCEPT ![l] = @ - 1]
    /\ \/ \E g \in Gpu : holder[g] = l /\ RenewCall(g, None)
       \/ UNCHANGED serverVars
    /\ UNCHANGED <<client, beat, since, missed>>

(* Mutation: the lease is released before the work is over. *)
FinishEarly(l) ==
    /\ client[l] = "working"
    /\ ReleaseCall(l)
    /\ UNCHANGED clientVars

(* Mutation: the heartbeat is not stopped. *)
FinishBeating(l) ==
    /\ client[l] = "working"
    /\ client' = [client EXCEPT ![l] = "leaving"]
    /\ UNCHANGED <<beat, since, missed, late>>
    /\ UNCHANGED serverVars

(* The work is over: the heartbeat is stopped (a renewal under way is      *)
(* cancelled, or left behind after 5 s), then the lease is released.       *)
Finish(l) ==
    /\ client[l] = "working"
    /\ client' = [client EXCEPT ![l] = "leaving"]
    /\ Beat(l, "none")
    /\ LeaveBehind(l)
    /\ missed' = [missed EXCEPT ![l] = 0]
    /\ UNCHANGED serverVars

(* The release reaches the server, or fails: release_* only logs it. *)
Release(l) ==
    /\ client[l] = "leaving"
    /\ client' = [client EXCEPT ![l] = "done"]
    /\ ReleaseCall(l) \/ UNCHANGED serverVars
    /\ UNCHANGED <<beat, since, missed, late>>

(* The client process dies, wherever it is. *)
Die(l) ==
    /\ client[l] \in {"calling", "working"}
    /\ client' = [client EXCEPT ![l] = "done"]
    /\ Beat(l, "none")
    /\ LeaveBehind(l)
    /\ missed' = [missed EXCEPT ![l] = 0]
    /\ UNCHANGED serverVars

(* Nothing of l is overdue: its handler runs when its event is set, answers *)
(* take at most HttpDelay, sleeps end on time.                             *)
OnTime(l) ==
    /\ ~(Up /\ request[l] = "waiting" /\ slot[l] # "waiting")
    /\ client[l] = "calling" /\ request[l] = "granted" =>
          now < told[l] - lease[l].ttl + HttpDelay
    /\ beat[l] = "asleep" => now < since[l] + Interval(lease[l].ttl)
    /\ beat[l] \in {"sent", "renewed"} => now < since[l] + HttpDelay

WaitAll ==
    /\ PromptClients => \A l \in LeaseId : OnTime(l)
    /\ Wait

(* What the server does of its own accord. *)
ServerStep ==
    \/ \E l \in LeaseId : HandlerResume(l) \/ HandlerTimeout(l)
    \/ \E g \in Gpu : Expire(g) \/ CloseQueue(g)
    \/ Sigterm
    \/ Exit
    \/ Crash
    \/ Restart
    \/ WaitAll

SystemNext ==
    \/ ServerStep /\ UNCHANGED clientVars
    \/ \E l \in LeaseId :
        \/ \E want \in Wanted, prio \in Priority, ttl \in Ttl, wait \in WaitTimeout :
              CallAcquire(l, want, prio, ttl, wait)
        \/ Granted(l)
        \/ GoUnlocked(l)
        \/ SendBeat(l)
        \/ HandleBeat(l)
        \/ BeatHeard(l)
        \/ BeatFails(l)
        \/ LateBeat(l)
        \/ Finish(l)
        \/ Release(l)
        \/ Die(l)

SystemSpec == SystemInit /\ [][SystemNext]_systemVars

(* The server's loop runs and time passes; nothing is owed by clients. *)
SystemFairness ==
    /\ WF_systemVars(WaitAll /\ UNCHANGED clientVars)
    /\ \A l \in LeaseId :
        /\ WF_systemVars(HandlerResume(l) /\ UNCHANGED clientVars)
        /\ WF_systemVars(HandlerTimeout(l) /\ UNCHANGED clientVars)
    /\ \A g \in Gpu :
        /\ WF_systemVars(Expire(g) /\ UNCHANGED clientVars)
        /\ WF_systemVars(CloseQueue(g) /\ UNCHANGED clientVars)
    /\ WF_systemVars(Exit /\ UNCHANGED clientVars)

SystemFairSpec == SystemSpec /\ SystemFairness
-----------------------------------------------------------------------------
(* Renewals a third of the TTL apart, each up to HttpDelay under way, reach *)
(* the server in time although the last missed[l] of them failed.          *)
BeatsInTime(l) ==
    (missed[l] + 1) * lease[l].ttl + 3 * (missed[l] + 2) * HttpDelay < 3 * lease[l].ttl

(* A client at work still holds its GPU, whatever happened to the server    *)
(* meanwhile, unless so many of its renewals failed that one every third of *)
(* the TTL cannot be enough (_client.py:16-17: the context managers renew   *)
(* the lease at ~ttl/3 intervals; README: long jobs need no huge TTL).      *)
HeartbeatsSuffice ==
    Up => \A l \in LeaseId :
        client[l] = "working" /\ BeatsInTime(l) => \E g \in Gpu : holder[g] = l

(* No two processes work under a lease on one GPU, whether the server is up *)
(* or not, unless the heartbeat of one of them has failed too often.        *)
NoTwoWork ==
    \A l, m \in LeaseId :
        /\ l # m
        /\ client[l] = "working" /\ BeatsInTime(l)
        /\ client[m] = "working" /\ BeatsInTime(m)
        => lease[l].gpu # lease[m].gpu

(* Every open request is answered by its deadline, whoever is in front of   *)
(* it and however often the holder renews, through shutdown, cancellations  *)
(* and restarts.  The deadline is one of the server's clock; unless that is *)
(* set back, the client's own wait_timeout + 5 s (_client.py) ends later.  *)
AnsweredInTime ==
    Up => \A l \in LeaseId : request[l] = "waiting" =>
        now <= lease[l].enqueued_at + lease[l].wait_timeout

(* The server's lease outlives its client: the client died, its release was *)
(* lost, or it never learnt of the grant and went on without.              *)
Orphan(l) == client[l] \in {"unlocked", "done"} /\ InPlace(l)

(* Orphans do not keep a GPU, or a place in line, for good: not after a     *)
(* restart that restores them, and not when a late renewal reaches them.    *)
OrphansLeave ==
    \A l \in LeaseId : Orphan(l) /\ now <= LastCall ~> ~InPlace(l)
=============================================================================
