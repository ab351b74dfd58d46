------------------------------ MODULE History ------------------------------
(***************************************************************************)
(* HistoryWriter of history.py: an append-only log cut into files by time, *)
(* named by the second they were opened in, swept when a new one is opened, *)
(* and queried by time window.  Time is in ticks, Second of them a second: *)
(* events carry the time of day, file names only its whole seconds.        *)
(***************************************************************************)
EXTENDS Integers, FiniteSets

CONSTANTS
    Owner,         \* owner labels events carry
    Never,         \* no file is open: `_current_path is None`
    Second,        \* ticks in a second
    RotateSec,     \* rotate_sec, in ticks
    RetentionSec,  \* retention_sec, in ticks
    Horizon,       \* bound: the clock stops here
    MaxEvents,     \* bound: events written
    MaxRestarts    \* bound: restarts of the server

(* __init__ raises retention_sec to rotate_sec, both are whole seconds. *)
ASSUME HistoryAssumption ==
    /\ {Second, RotateSec, RetentionSec} \subseteq Nat \ {0}
    /\ RotateSec % Second = 0 /\ RetentionSec % Second = 0
    /\ RotateSec <= RetentionSec
    /\ {Horizon, MaxEvents, MaxRestarts} \subseteq Nat
    /\ Never \notin Nat

VARIABLES
    now,       \* time.time()
    files,     \* the events in each file of the directory, by the file's stamp
    opened,    \* _current_open_ts; _current_path is the file of its stamp
    written,   \* every event ever written, swept or not
    restarts   \* how many times the writer was built anew

vars == <<now, files, opened, written, restarts>>

Time == 0..Horizon
Event == [ts : Time, owner : Owner]

(* Mutation: the name keeps the fraction of a second. *)
StampExact(t) == t

(* strftime to whole seconds, and _filename_ts back. *)
Stamp(t) == t - (t % Second)

(* One type invariant for the module: file names are whole seconds. *)
TypeOK ==
    /\ now \in Time
    /\ \A s \in DOMAIN files : s \in Time /\ s % Second = 0 /\ files[s] \subseteq Event
    /\ opened \in Time \cup {Never}
    /\ written \subseteq Event
    /\ restarts \in 0..MaxRestarts

Init ==
    /\ now = 0
    /\ files = [s \in {} |-> {}]
    /\ opened = Never
    /\ written = {}
    /\ restarts = 0

(* _ensure_current_locked opens a new file. *)
Rotating == opened = Never \/ now - opened >= RotateSec

(* Mutation: nothing is swept. *)
SurvivorsAll == DOMAIN files

(* The files _sweep_old_locked keeps, if every unlink succeeds. *)
Survivors == {s \in DOMAIN files : s + RotateSec >= now - RetentionSec}

(* The directory once _ensure_current_locked has swept it, if it does. *)
Kept == IF Rotating THEN [s \in Survivors |-> files[s]] ELSE files
Current == Stamp(IF Rotating THEN now ELSE opened)

InFile(s) == IF s \in DOMAIN Kept THEN Kept[s] ELSE {}

(* write: the event goes to the current file, which it may create. *)
Write(owner) ==
    LET event == [ts |-> now, owner |-> owner]
    IN  /\ Cardinality(written) < MaxEvents
        /\ event \notin written
        /\ files' = [s \in DOMAIN Kept \cup {Current} |->
                        IF s = Current THEN InFile(s) \cup {event} ELSE Kept[s]]
        /\ opened' = IF Rotating THEN now ELSE opened
        /\ written' = written \cup {event}
        /\ UNCHANGED <<now, restarts>>

(* write, when the file cannot be opened: the event is lost, but the writer *)
(* has rotated and swept already.                                          *)
WriteFails ==
    /\ files' = Kept
    /\ opened' = IF Rotating THEN now ELSE opened
    /\ UNCHANGED <<now, written, restarts>>

(* A new process builds a new writer over the old directory. *)
Restart ==
    /\ restarts < MaxRestarts
    /\ opened' = Never
    /\ restarts' = restarts + 1
    /\ UNCHANGED <<now, files, written>>

Tick ==
    /\ now < Horizon
    /\ now' = now + 1
    /\ UNCHANGED <<files, opened, written, restarts>>

Next == (\E owner \in Owner : Write(owner)) \/ WriteFails \/ Restart \/ Tick

Spec == Init /\ [][Next]_vars
-----------------------------------------------------------------------------
(* Mutation: only the files opened in the window are read. *)
OverlappingOpened(since, until) ==
    {s \in DOMAIN files : s >= since /\ s <= until}

(* _files_overlapping *)
Overlapping(since, until) ==
    {s \in DOMAIN files : s + RotateSec >= since /\ s <= until}

(* query, up to the order of the answer and its limit. *)
Query(since, until, excluded) ==
    {e \in UNION {files[s] : s \in Overlapping(since, until)} :
        e.ts >= since /\ e.ts <= until /\ e.owner \notin excluded}

(* GET /history: the last `window` ticks. *)
HistoryEndpoint(window, excluded) == Query(now - window, now, excluded)

(* What a query from `since` to now should return. *)
Wanted(since, excluded) ==
    {e \in written : e.ts >= since /\ e.owner \notin excluded}

(* A query for a window within the retention returns the events it asks    *)
(* for, over rotations, sweeps, restarts and failed writes: never one it    *)
(* should not, and every one that lies a second or more inside the window.  *)
QueryFindsEvents ==
    \A window \in 0..RetentionSec, excluded \in SUBSET Owner :
        LET answer == HistoryEndpoint(window, excluded)
        IN  /\ answer \subseteq Wanted(now - window, excluded)
            /\ Wanted(now - window + Second, excluded) \subseteq answer

(* Disk usage stays bounded without a cron job (history.py:17): the files   *)
(* of one retention window, one on either side of it, and one per restart, *)
(* as long as old files can be removed.                                    *)
FilesBounded ==
    Cardinality(DOMAIN files) <= RetentionSec \div RotateSec + 2 + restarts

(* history.py:167-170: a file is dropped only when even the latest possible *)
(* event in it would be older than the cutoff.                             *)
RetentionKept ==
    \A e \in written : e.ts >= now - RetentionSec =>
        \E s \in DOMAIN files : e \in files[s]
=============================================================================
