# Verification of gpu-lock

TLA+ models of the gpu-lock server and its clients, the TLC runs that check them and the TLAPS
proofs about them. gpu-lock is a lock service for GPUs: containers ask for a GPU
over HTTP, wait in line, are granted a *lease* with a time to live, renew it by
heartbeat and release it. Paths are relative to the repository root;
`manager.py`, `app.py` and the like are under `src/server/gpu_lock_server/`, `_client.py` and
`_cli.py` under `src/client/gpu_lock_client/`.

## 1. The system

| Component | State | Operations | What makes it correct |
|---|---|---|---|
| `GpuQueue` (manager.py), one per GPU, with `Lease`, `_WaitSlot` | `_holder`, `_queue` (sorted list of slots), `_closed`, a ticker task | `enqueue`, `release` (holder or queued), `renew`, `_expire_now`, `shutdown`, `restore` | one holder; a lease in one place; the line in order; nobody waits in vain; a slot's event is set exactly when its lease leaves the line |
| `GpuLockManager` (manager.py) | the queues, `_closed` | dispatch by lease id, `resolve_gpu` (`auto`), sequential `shutdown`, `snapshot`, `restore` | `auto` finds an idle GPU; all queues are closed and saved |
| HTTP handlers (app.py) | one sleeping coroutine per open `/acquire` | answer a grant at once, or sleep on the slot and answer with its reason, or time out and release | what a client is told is true when told and stays true until it expires; a refused request leaves nothing behind; every request ends |
| Process life cycle (`create_app`, `lifespan`) | running, draining, shutting down, down | load and restore, SIGTERM, drain, shutdown, last flush, crash, restart | holders survive a stop and a crash, waiters do not survive a stop |
| `StateFile` (persistence.py) | one snapshot file | atomic `write`, `load` | the file is a snapshot that was true after some operation |
| `HistoryWriter` (history.py), `GET /history` | files named by the second they were opened in, the current file | `write`, rotation, sweep, `query` | a window query finds the events of the window; the directory stays bounded; nothing is swept early |
| Python client (`_client.py`) | per process: the lease it was granted, a heartbeat task or thread | `acquire` (every failure means "without lock"), `renew`, `release`, the context managers around them | a client at work still holds its GPU; no two work on one GPU; what a client leaves behind on the server goes away |
| `is_idle` (`_client.py`) | none; two calls, `/queue` then `/history` | one verdict | "idle" only if nobody else uses, awaits or recently used the GPU |
| CLI (`_cli.py`) | child process, heartbeat thread | `run`; `acquire`, `renew`, `release`, `status`, `queue` | as for the client: the command runs under the lease |
| Settings, auth, logging, `/status`, `/health`, packaging | none of their own | | not modelled |

The parts interact by calls on one asyncio event loop. A handler or a ticker runs
without interruption from one `await` that suspends to the next; `async with
self._lock` never suspends, because no lock body awaits anything. So a method of
`GpuQueue` together with the flush it triggers through `on_state_change` is one
atomic step, and the interleavings that matter are between
*handlers that sleep on a slot*, *the tickers*, *other requests*, *the shutdown
sequence* (which awaits between two queues) and *crashes*. Clients are processes of their
own, some with a heartbeat thread; between them and the server are calls that can be
slow, be lost, or arrive when nobody waits for the answer any more.

Hard behaviours: a handler's own timer races the grant (app.py:126); a lease
changes hands between `event.set()` and the handler's resumption (app.py:131); the
process dies between a change, its flush and the answer; a restart restores waiters
whose connections are gone; the wall clock is used for order and deadlines and may
be set back; history files are named by whole seconds and rotated by exact time; a client
dies, or goes on without the lease it was granted; a renewal fails, or arrives after the
release; `is_idle` combines two answers about two different moments.
`PROJECT.json` lists each hazard at its line, with the properties that cover it.

## 2. The modules

| Module | Models | Remarks |
|---|---|---|
| `StableLists` | `list.sort(key=...)` and the filter of the sweep | by rank instead of by recursion, so that it can be proved about; `SweepLoop` is the filter as the loop of the code, and `KeepIsLoop` proves them equal |
| `PriorityMutex` | the abstract specification: what the service promises of its GPUs | no clock, handlers or files |
| `DurableMutex` | the abstract specification of the state file; EXTENDS `PriorityMutex` | one write may save what several queues did; whoever leaves a line is the next holder or was turned away |
| `GpuQueue` | class `GpuQueue`, `Lease`, `_WaitSlot`, the clock | one action per method; `ImplementsMutex` is the refinement of `PriorityMutex` |
| `GpuLockServer` | handlers, manager, life cycle, state file; EXTENDS `GpuQueue` | each action is a stretch of a handler between two suspensions, with its flush; `FileImplementsMutex` is the refinement of `DurableMutex` |
| `GpuLockClients` | the context managers and `gpu-lock run`, the network; EXTENDS `GpuLockServer` | the composition of clients and server |
| `QueueEvents` | the events the queues hand to the history; EXTENDS `GpuQueue` | keeps the latest record of each lease; writes may fail |
| `IdleCheck` | `is_idle`; EXTENDS `QueueEvents` | the two calls with the queues at work in between, and what the choice of files does to the answer |
| `History` | `HistoryWriter` and `GET /history` | the files that hold the events |
| `MCGpuQueue`, `MCGpuLockServer`, `MCGpuLockClients`, `MCIdleCheck` | symmetry sets for TLC | |
| `StableListsProofs`, `GpuQueueProofs`, `GpuQueueRefinement`, `GpuLockServerProofs`, `GpuLockClientsProofs`, `QueueEventsProofs`, `IdleCheckProofs`, `HistoryProofs` | theorems and proofs about the module of that name | section 5; `GpuQueueRefinement` is about `ImplementsMutex` |

How state and actions correspond to the code:

* `holder[g]`, `queue[g]`, `closed[g]` are `_holder`, `_queue`, `_closed` of the queue
  of GPU `g`. `queue` lists lease ids; `lease[l]` is the `Lease` object and `slot[l]`
  the `reason` of its `_WaitSlot`, `"waiting"` while its event is unset. Owner labels
  and `granted_at` are left out (reports only). `new_lease_id` is a fresh member of `LeaseId`.
* `Enqueue`, `ReleaseHeld`, `Cancel`, `Renew`, `ExpireNow`, `Shutdown` are the methods.
  `release` is two actions because its two branches share nothing; a `release` or
  `renew` of an unknown lease changes nothing and is a stutter, and so is a pass of
  `_expire_now` that finds nothing due.
* `Tick` and `ClockStep` are `time.time()`. `PromptTicker` is the assumption that the
  ticker, which polls each second, acts on every deadline before time passes it. It is
  TRUE in the client runs and in `idle_quiet`; the server runs do without it.
* In `GpuLockServer`, `request[l]` is the `/acquire` handler of `l` and its answer,
  `told[l]` the `expires_at` in the last 200 answer its client has (0 once it
  released), `file` the state file, `phase` the process. `HandlerResume` and
  `HandlerTimeout` are the two ways the sleeping handler wakes up: by the event or by
  its own timer, which can win even when the event has been set meanwhile
  (`asyncio.wait_for` has cancelled the wait by then).
* `HostDrains` distinguishes hosts: uvicorn finishes open requests before it runs the
  second half of `lifespan`; the in-process transport of the tests does not.
  `Strangers` lets anybody release or renew a lease (ids are shown by `/status`, and
  the README documents cancelling). `DiskFaults` lets writes and loads fail.
  `ZeroDrain` lets `GPU_LOCK_SHUTDOWN_DRAIN` be 0, which skips the manager's shutdown
  (`wait_for` cancels it unstarted); a longer drain time never cuts it short, because `GpuQueue.shutdown`
  swallows the cancellation (manager.py:259-263).
* In `GpuLockClients` a client asks for one lease and is named by it. `client[l]` says where
  the process is in the context manager, `beat[l]` where its heartbeat is (`asleep`; a
  renewal `sent`; handled by the server but not heard of, `renewed`), `since[l]` when it got
  there, `missed[l]` how many renewals in a row failed, `late[l]` how many were left on the
  wire (up to `MaxLate`). A call and its answer are separate actions, so either can be lost: `CallAcquire` and
  `Granted`, `HandleBeat` and `BeatHeard`. `GoUnlocked` is every way to get no lease out of
  `acquire`: refused, no server, timeout, answer lost; its request may still arrive
  (`CallAcquire` in state `unlocked`). `Finish` stops the heartbeat and `Release` calls
  `/release`, which may fail. `Die` is the end of the process at any point, a cancelled
  `acquire_async` included. `gpu-lock run` goes through the same states.
* `PromptClients` is the assumption that clients, handlers and the network keep time: a
  ready handler runs and an answer arrives within `HttpDelay`, a sleep ends when it should
  (`OnTime`). It is needed to say that heartbeats suffice. Failures are not restricted by it.
* `QueueEvents` writes each event with the change it reports. The code writes it right behind
  the change, with no suspension in between. Only the latest record of a lease is
  kept: `is_idle` asks whether any record lies in a window that ends now. With `LogFaults` any record
  may fail to be written (history.py:79 logs the `OSError` and goes on) or to be read back (a line behind a
  torn one is no JSON); `lost` has the leases whose latest event has no record.
* In `IdleCheck`, `check` is the check under way or its verdict, `heldAt` (a history variable)
  when each lease last held a GPU. `Mine` stands for `exclude_owners`. The server selects files by their
  names: a record of the window's first second is found or not, depending on the file it is in, so `AskHistory` may
  find `Recent` and must find `Certain`. That this is what the files do is `QueryFindsEvents` of `History`.
  The verdict is `idle` if it heard a history, `unheard` if it did not, or if a file could not be read
  (history.py:135 skips it, with `LogFaults`).
* In `History`, time is in ticks, `Second` of them a second, so that the cut to whole
  seconds in a file name is visible. `files` maps stamps to events, `opened` is
  `_current_open_ts` (the stamp of `_current_path` follows from it).

`Next` of `GpuQueue` lets any method run at any time; `GpuLockServer` uses the same actions
where handlers, tickers and the shutdown call them, and `GpuLockClients` uses the server's
actions where clients call the handlers.

## 3. The runs

Every run takes a few minutes at most with two workers. `CHECK_DEADLOCK FALSE` is set
throughout because the bounds stop the system: the clock ends at `Horizon`, ids run out,
and a stopped process may stay down.

| Run | Question | Bounds |
|---|---|---|
| `queue_safety` | the invariants of the queue; who passes whom; whether one pass of the ticker is enough; refinement of `PriorityMutex` | 1 GPU, 4 leases (a holder and three in line), 2 priorities, the clock set back at will |
| `server_safety` | what clients were told stays true; stop saves holders; a restored line has a holder; a crash loses nothing; the file behaves as a lock that drops no waiter in silence | 2 GPUs, 3 leases, crash and restart any number of times |
| `server_answers` | every request ends | 1 GPU, 3 leases, disk faults, strangers, draining host, drain time 0 allowed, no fairness for the tickers |
| `server_drained` | refused means gone; `auto` finds idle GPUs | 2 GPUs, 3 leases, all `auto`, clock set back at will, drain time 0 allowed |
| `clients_safety` | heartbeats suffice; no two clients work on one GPU; requests are answered in time | 1 GPU, 2 clients, TTL 10 ticks of 10 s, answers up to 1 tick late, a host that drains (uvicorn), crash and restart any number of times, clients that die, lost calls, up to 2 renewals each left on the wire |
| `clients_orphans` | what clients leave behind goes away | 1 GPU, 2 clients, TTL 1 tick, no assumption on clients' timing, up to 2 renewals each left on the wire, crash and restart |
| `idle_quiet` | what is in the log is true; `is_idle` is right when it could read the history | 2 GPUs, 2 leases of which one is excluded, a window of 2 ticks of a second, any record lost, calls that fail |
| `history_window` | window queries and the number of files | rotation 1 s, retention 2 s, 3 ticks a second, 5 events, 1 restart, failing writes |
| `cancel_race` | (finding) one holder per GPU, when waiters are cancelled | 1 GPU, 3 leases |
| `history_retention` | (finding) is nothing swept early? | as `history_window` |
| `heartbeat_floor` | (finding) heartbeats suffice, with the smallest TTL | 1 GPU, 2 clients, TTL 1 tick of 10 s, answers without delay |
| `idle_fail_open` | (finding) does `is_idle` fail closed? | 1 GPU, 3 leases |

The properties:

* `OnePlace`, `SlotsTruthful`, `NobodyStranded`, `QueueOrdered`: the relation of holders,
  lines and events that every method, and `restore` after a restart, must re-establish.
* `JoinsByInsertion`: on every line the queue can have, sorting it again puts a
  newcomer exactly where insertion would.
* `NoOvertaking` (action): a lease stays in front of another that has no claim to pass it,
  when the other joins and when others leave. A claim is a higher priority or an earlier
  `enqueued_at`; the latter exists only when the wall clock is set back, so without that this
  is FIFO within a priority, down to the order of arrival within one tick.
* `OnePassSuffices` (action): after a pass of the ticker nothing of its queue is due, neither the holder nor
  the one just promoted (whose own deadline may have passed while it waited) nor anybody left in line, and
  whatever requests come, nothing becomes due until time passes. This is what makes
  `PromptTicker` a statement about the ticker's pace alone.
* `ImplementsMutex`: waiters are the members of the line, tickets their sort keys;
  a GPU changes hands only when the holder leaves, to a most urgent waiter, in one step.
* `NoTwoRely`: no two clients were told of the same GPU for a time still to come. This is
  what the service is for, across crashes and restarts. `LeaseHonoured`: the server
  agrees with what it told.
* `NothingToLose`: until a shutdown begins the file *is* the state of the queues, so a crash
  between any two steps loses nothing. `FileImplementsMutex`: what the file says, from one
  process to the next, is a behaviour of `DurableMutex`; nothing a crash or a restart does
  brings a lease back or passes on a GPU whose holder stays, and a waiter leaves its line in the file
  only as the next holder, or once its handler was woken with a refusal (`Refusals`). It does
  not say that a holder stays until it is released; of holders a client relies on, `LeaseHonoured` does.
* `StopSavesHolders`, `RefusedIsGone`: what a stop leaves in the file.
* `EveryRequestEnds`: liveness of handlers. `AnsweredInTime` is its quantitative side where
  tickers and handlers keep up: no `/acquire` is open past its `wait_timeout`, however many urgent
  requests go first. The handler's own timer (`wait_timeout + 1`, app.py:125) and the client's
  (`wait_timeout + 5`, _client.py:304) are later, so neither is needed then. The deadline is one
  of the server's clock: a clock that is set back makes the wait longer by as much, up to those timers. `clients_safety` has one
  priority and no strangers; the theorem has any. What the handler's own timer does is
  checked by `server_answers` and `server_drained`, where the ticker may be late.
* `AutoFindsIdle` (action): `gpu=auto` never queues behind a busy GPU beside an idle one.
* `HeartbeatsSuffice`: a client at work is the holder whenever the server is up, unless so
  many of its renewals failed in a row that renewals a third of the TTL apart cannot be
  enough (`BeatsInTime`, which states what the documentation promises and not what the
  interval is). `NoTwoWork`: no two clients work on one GPU, unless one of them has missed
  so many. Unlike `NoTwoRely` this speaks of what processes do, not of what they were told.
* `OrphansLeave`, `HoldersExpire`: a lease whose client died, gave up waiting for the answer
  or failed to release it leaves its GPU or line, and so does every holder once calls cease.
* `LogTruthful`: of each lease whose latest event was written, the record says whether it holds, waits or
  is gone, whichever other records were lost, in the same release or pass of the ticker too.
* `IdleIsQuiet` (action): when a check that could read the history says "idle", nobody else holds or
  awaits the GPUs it asked about, nor held one in the window after its first second. It is claimed of
  those whose latest event was written: of a lease whose record is lost nobody can know.
* `QueryFindsEvents`, `FilesBounded`: the history. `QueryFindsEvents` is stated to within
  one second at the old end of the window, because of finding 2, `FilesBounded` for a directory
  whose old files can be removed (history.py:174 only warns when one cannot).

Why the bounds are enough. The queue is symmetric in its leases, and what its methods
distinguish is the holder, the head, somebody behind the head and a newcomer, which four
leases cover; what one queue's operation does to another GPU is checked by the server
runs and by `idle_quiet`, with two GPUs, and proved for any number. In
the server three leases give a holder, a waiter and a latecomer, the shape of every race
known here. In `idle_quiet` the excluded lease and the other can hand GPUs to each other, and either can be
lost to the log. Two clients are the least that can collide, and collisions are between two.
Times matter only by comparison, so TTLs and timeouts of one to three ticks
with all interleavings of `Tick` reach "before", "at" and "after" each deadline.
`clients_safety` needs a finer clock to tell the interval, the delay of an answer and the
TTL apart. A tick is 10 s there: the delay of one tick is the timeout of a renewal, the floor of
the interval one tick, and TTL 10 (100 s) is the smallest that tolerates one missed renewal with such
delays. The interval is then a third of the TTL,
cut to 3 whole ticks. The floor is what `heartbeat_floor` is about; the ceiling of 300 s only
matters for TTLs above 900 s, where renewals come earlier than a third of the TTL.
The horizon of `clients_safety` is one TTL
after the first grant: a heartbeat goes through three intervals, and a lease
that is not renewed comes to its end. For
`History` the window shows the current file, its predecessors in and out of the
retention, and the restart in the middle. The real minimum of `rotate_sec` is 60 s; one
second in the model only makes rotations frequent, as nothing else depends on it.
What the runs show within these bounds is in addition proved without any bound on GPUs, leases,
clients, events or time values, liveness and the findings excepted (section 5).

Symmetry is used only in runs without liveness properties. GPUs are never
permuted where `auto` compares their ids.

Fairness. The event loop runs every ready task, and time passes: hence weak fairness of
`Wait`, `HandlerResume` and `HandlerTimeout`, and where a property needs them of the tickers'
`Expire` and of the shutdown (`CloseQueue`, `Exit`). Once continuously enabled each of these
actions stays so until it is taken, so weak fairness is enough. Nothing is assumed of
clients, strangers, SIGTERM, crash or restart: in `clients_orphans` a client may stop at any
point and for ever, which is why only the TTL and the ticker can remove what it left.
`EveryRequestEnds` does without the tickers on purpose: the handler's own timer exists for
the case that they fail.
`OrphansLeave` and `HoldersExpire` speak of leases held up to `LastCall`, the last moment at which
anybody calls, so that `Horizon` leaves time for the deadlines in question.

## 4. Findings

1. `cancel_race` (app.py:131). A handler woken with `granted` answers 200 without looking
   whether its lease still holds the GPU. If somebody else released the
   lease after its promotion (a documented "cancel" of a queued lease that arrives one
   loop turn late), the next in line holds the GPU and both clients have a 200 answer.
   With releases only by a lease's own client (`Strangers = FALSE`) `NoTwoRely` holds.
2. `history_retention` (history.py:171). Rotation is measured from the exact opening time,
   sweep and query from the whole second in the file's name: events in the last fraction of a
   second of a file's life are swept, or missed by a query, up to a second early.
3. `heartbeat_floor` (_client.py:410). `/acquire` accepts a TTL of 10 s, and the interval of
   the heartbeat is never below 10 s: the first renewal is sent when the lease expires, and
   the ticker may be first. The client then works on, and its renewals are answered 404, while
   the GPU is given to the next. With the interval a third of the TTL, as documented,
   `HeartbeatsSuffice` holds.
4. `idle_fail_open` (_client.py:233). A history call that fails in transit is taken for a
   server without history, and the verdict rests on `/queue` alone, read before; the docstring
   promises to fail closed. The comment at the line knows of the flake, but not that the
   queue may have changed since it was read.

Noted beside them: manager.py:21 and CHANGELOG.md:60 say that shutdown releases the active
leases; the code, its own docstring (manager.py:239) and README.md keep them, which
`StopSavesHolders` checks. A waiter whose lease is cancelled is answered 500 "unexpected wait
reason" (app.py:137), as `AnswerTo` says. With a failing disk the service prefers
availability, and `NoTwoRely` is not claimed for it. `gpu-lock run --wait-timeout` is
documented as "Max seconds to wait in queue before failing" (_cli.py:83), but on a 408 the
command runs without a lock (_cli.py:117-119). The docstring of `is_idle_async` speaks of
acquires and grants (_client.py:208), while any record in the window counts, a renewal or a
timeout included (_client.py:239); `IdleIsQuiet` needs just that, as its mutant shows.

## 5. The proofs

Every safety invariant, action property and refinement the passing runs check is proved for all
values of the constants; liveness is not. The runs
and the proofs share the definitions: a theorem names the very property a run checks.

| Theorem | Says of | Property | Under |
|---|---|---|---|
| `TypeCorrect`, `LeaseInOnePlace`, `WaitersWoken`, `NobodyWaitsInVain`, `LineInOrder` | `Spec` of `GpuQueue` | `TypeOK`, `OnePlace`, `SlotsTruthful`, `NobodyStranded`, `QueueOrdered` | |
| `NewcomersInserted` | | `JoinsByInsertion` | |
| `NobodyOvertaken` | | `NoOvertaking` | |
| `OnePassClears` | | `OnePassSuffices` | |
| `QueuesImplementMutex` | | `ImplementsMutex` | |
| `ServerTypeCorrect`, `ServerQueuesIntact`, `ServerNobodyStranded` | `ServerSpec` | `ServerTypeOK`, `IInv`, `NobodyStranded` | |
| `WordKept`, `MutualExclusion` | | `LeaseHonoured`, `NoTwoRely` | `WordAssumption` |
| `CrashLosesNothing`, `FileIsMutex` | | `NothingToLose`, `FileImplementsMutex` | `DiskAssumption` |
| `StopSaves` | | `StopSavesHolders` | `WordAssumption`, `~ZeroDrain` |
| `RefusedLeaveNothing` | | `RefusedIsGone` | `GoneAssumption` |
| `AutoPrefersIdle` | | `AutoFindsIdle` | every request says `auto` |
| `AutoNeverWaitsBesideIdle` | | the same of each single request that says `auto` | |
| `ServerWithin` | `SystemSpec` | implies `ServerSpec` | |
| `ClientTypeCorrect` | | `ClientTypeOK` | |
| `HeartbeatsKeep`, `WorkersExcludeEachOther` | | `HeartbeatsSuffice`, `NoTwoWork` | `PaceAssumption` |
| `EveryAnswerInTime` | | `AnsweredInTime` | `PromptTicker`, `PromptClients` |
| `ReportingIsPassive`, `AskingIsPassive` | `EventsSpec`, `IdleSpec` | implies `Spec`, `EventsSpec` | |
| `LogIsTruthful`, `LogTruthfulToChecks` | `EventsSpec`, `IdleSpec` | `LogTruthful` | |
| `IdleVerdictHolds` | `IdleSpec` | `IdleIsQuiet` | |
| `HistoryTypeCorrect`, `QueriesFindEvents`, `DiskIsBounded` | `Spec` of `History` | `TypeOK`, `QueryFindsEvents`, `FilesBounded` | |
| `StableSortSorts`, `KeepFilters`, `SortInserts`, `KeepIsLoop` | `StableSort`, `Keep` | | |

### Assumptions

The `ASSUME`s of the modules say what configuration and validation guarantee: `None` is no lease id
and no GPU, TTLs, timeouts and priorities are numbers in the accepted ranges, GPU ids are numbers and
there is one at least (config.py:43 refuses an empty `GPU_IDS`), `auto` is not the name of a GPU. `NoneIsNoSnapshot` says
that an absent file differs from every file. `IdleAssumption` says that the two answers `is_idle` hears
lie closer together than its window less one second (`CallLimit + Second <= Window`; the default window is 30 minutes), `HistoryAssumption` that rotation and retention are whole
seconds and the retention is not shorter (`__init__` raises it). The clock of `QueueEvents`, `IdleCheck`
and `History` only advances (section 6). No theorem fixes a number
of GPUs, leases or ticks; `Horizon` is any natural number.

The hypotheses of single theorems are part of what the service promises:

* `PromptTicker`: the ticker polls every second and is not starved, so that it has made a pass since the clock
  last advanced; `OnePassSuffices` is why one is enough. Without it deadlines are missed.
* `WordAssumption`: a state file is configured and can be written and read, the wall clock is not set
  back, and only its own client releases or renews a lease. Without any of the first three a
  restarted or misled server gives a GPU away that somebody was promised (app.py:266 chooses
  availability over safety); without the last, finding 1 is a counterexample.
  No ticker need run, no handler be prompt, and the process may stop, crash and restart at any time.
* `DiskAssumption`: a state file is configured and can be written and read. Nothing is assumed of the
  clock, of strangers, of the host or of the drain time.
* `~ZeroDrain`: with a drain time of 0 `manager.shutdown` never runs, and waiters are saved.
* `GoneAssumption`: the host finishes open requests before `lifespan` ends, and writes succeed
  (or no file is configured at all). The clock may be set back, and strangers may release.
* `PaceAssumption`: `WordAssumption`; clients, handlers and answers are on time (`PromptClients`);
  each TTL is three floors (30 s) or more, which excludes finding 3; the bound on the counter of
  failures lies beyond what `BeatsInTime` tolerates. It does not say that any renewal succeeds.
* `PromptTicker` and `PromptClients` for `AnsweredInTime`: a deadline is acted upon, and a handler that
  was woken runs, before time passes. Without them only `EveryRequestEnds` is left.

### Arguments

*The queue.* `IInv == TypeOK /\ OnePlace /\ SlotsTruthful /\ NobodyStranded /\ QueueOrdered`.
The parts are inductive only together. That a promotion leaves the lease in one place
needs that it was in no other line (`OnePlace`) and, for its slot, that it was waiting
(`SlotsTruthful`); that a cancelled lease is no longer waiting anywhere needs that it
stood once in one line; that an enqueue is right to append needs that a line behind an
idle GPU is empty (`NobodyStranded`); and that the order survives needs that a step
changes no key of a waiting lease, which again is `OnePlace`. One lemma per action
(`EnqueueStep` ... `ShutdownStep`, `ClockKeeps`) shows that it keeps all five; they rest on
`OneQueueStep` (an operation on one queue leaves the facts about the others alone),
`QueueFacts`, `PromotionFacts` and on lemmas about lines: `HeadLeaves`, `KeepLeaves`,
`JoinLine`. `NobodyOvertaken` follows the places of two waiters through a step: a stable sort
keeps their order unless the keys say otherwise, taking the head and filtering keep it always.
`OnePassClears` needs one more invariant, that the TTL of a minted lease is positive (`TtlKept`), so that whoever is
promoted or renewed gets a deadline still to come (`PassClears`, `DeadlinesCome`).

*The lists.* `StableSortSorts` (same elements, as many, ordered, ties in their old order) and
`KeepFilters` (exactly the survivors, in order) hold for every list. Both rest on `RankOnto`: in a
finite strict total order the ranks are exactly `1..n`. It is proved by cardinality, since induction
over data is out of the prover's reach. `ListingIs` adds that a strict total order has one
listing only, by way of the first place at which two would differ (`LeastNumber`, from the
well-foundedness of `<`). It is what proves that an operator returns a *given* list: `SortInserts` shows that
the line with the newcomer inserted is such a listing, and `KeepIsLoop` that the recursive
function of the loop is `Keep` of every prefix (`KeepGrows`). There too the induction is replaced: `Keep` of the
prefixes is a witness that a function with the recursive equation exists, and the first
number at which two such functions differ shows that there is only one.

*The refinement.* Waiters map to the members of the line, tickets to the sort keys, used ids to slots
that are not `"none"`. Each method is one step of `PriorityMutex`: `Enqueue` joins; `ReleaseHeld` and
a pass of the ticker that ends a lease pass the GPU on (`PassOn`), the ticker with the swept waiters in
the same step; `Cancel`, `Shutdown` and a sweep without expiry give up (`GiveUp`); renewals and
the clock are stutters. That the head of the line is a most urgent waiter is `QueueOrdered`.

*The server.* `SInv` adds to `IInv` what makes it survive a restart: the file is absent or
`Restorable` (what `IInv` says of the queues, said of the file), a process that is down has nothing in memory
(`NothingInMemory`), granted slots are armed. `Restorable` speaks of minted leases only,
and leases once minted stay so, hence an old file remains restorable however far the server has moved on.

`WordInv` is the reason for `LeaseHonoured` and `NoTwoRely`. `Synced`: while the process is up, the file
agrees with memory on every holder and its lease, since every change is flushed before the next suspension.
`Promise`: whoever relies on an answer holds its GPU with that expiry, in memory or, when the process is down, in
the file. `Pending`: a handler that was woken with `granted` and has not run yet finds a lease that still
holds the GPU or has run out. This is where `WordAssumption` enters:
a stranger may release the lease in between, and then the handler tells its client something
false. `NoTwoRely` follows because a GPU has one holder.

`GoneInv` strengthens `RefusedIsGone`: until the shutdown begins the file names only leases that are in
place, and once it has begun no request is open, so what later stays in the file is nobody's who was
refused. `StoppedEmpty` says that the file of a stopped server has no line, and that it names the holders
is `WordInv`.

`DiskInv` is the reason for `NothingToLose`. Until the shutdown begins the file is the snapshot of the queues;
afterwards it is behind in one thing only, the lines of the queues already closed
(`GpuQueue.shutdown` writes nothing), which is why waiters of a stop that is killed half-way are
restored although they were turned away. That these, and no others, are missing from memory
is a part of `DiskInv` (`LeftInFile`), and it is why `FileIsMutex` can say that nobody is dropped from a line unless turned away. `FileIsMutex` maps the contents of the file. A flush saves what the
queue's method did, and that this is a step of the mutex is `StepImplements` of the queues' own
refinement, used again (`MovesInMemory`). What differs from `PriorityMutex` is that one
write may save the closing of several queues together with what the next method does: waiters of
several GPUs disappear in one step, and the last waiters together with the holder. A restart changes nothing in
the file's contents, and keeps the keys of every lease it brings back.

*The clients.* Each step of the system is a step of the server or leaves it alone (`StepIsServers`), so all
theorems above hold among clients. `PaceInv` bounds, by cases of where the heartbeat is, how old the last answer can be:
`since + ttl <= told + HttpDelay + Slept` with no failure, one interval and one answer more after one. It rests on
`Fresh` (a handler that was woken answers in the same instant, so the client is told of a whole TTL) and on
`FileTtl` (a restart does not change the TTL of a lease). `Effect` is what any step of
the server may do to a client, proved once per server action. With three intervals in a TTL
linear arithmetic gives `told > now` whenever `BeatsInTime`: one failure fits when
`9 * HttpDelay < ttl`, a second never does. `HeartbeatsKeep` then is `WordInv`, and
`WorkersExcludeEachOther` is `MutualExclusion`.

`AnsweredInTime` is inductive with the invariants of the server. A handler that waits has its slot
waiting (`PromptClients`: a woken one answers at once); such a lease is in a line (`SlotsTruthful`)
of a queue that is open (`NobodyStranded`), where the ticker sees its deadline; time does not pass a deadline the
ticker sees, and no method moves the deadline of a waiting lease (`MethodDeadlines`), a renewal
included, which changes `expires_at` but neither `enqueued_at` nor `wait_timeout`.

*The log and `is_idle`.* `EventsInv` is `IInv` and `LogTruthful` together: a record is right about where a lease went
only because the lease was in one place before. Each method needs to report exactly the leases it moves (`ReportsKeepTruth`).
`LogTruthful` is about one lease at a time, so the loss of one lease's record harms that of no other, and the next record
of a lease makes good for a lost one.
`IdleInv` adds, of leases not in `lost`, that nobody leaves a GPU without a later record, and that whoever came to a GPU since the
first call was recorded at or after it (`StepReports`: a record of this very moment, or the lease is lost). So a window silent after its first second (`SilenceIsQuiet`) means that nobody was there, provided
that the second and the time between the two calls fit into it, which is `IdleAssumption`.

*The history.* `HInv`: a file holds events from its own stamp to `RotateSec` and a second later, and every event within the
retention, less one second, is in some file. The second is finding 2. `FilesBounded` is a counting argument: the stamps fall into a set `A`,
`RotateSec` apart and within one retention window of the last opening, and a set `B` of at most one per
restart (`Spread`). `SpacedAreFew` maps `A` one to one into the whole multiples of `RotateSec` in that window.

### Only model-checked

* `EveryRequestEnds`, `OrphansLeave`, `HoldersExpire`: liveness under fairness, for which
  the proof system has no support (`ENABLED`).
* The findings: a violation is a trace.

No module declares a `RECURSIVE` operator. The one recursive definition, `SweepLoop`, is a function, and what is
proved of it (`KeepIsLoop`) goes without an induction theorem, as said above.

## 6. Not modelled

* Settings, authentication, logging, `/status` and `/health`: no state of their own.
* Request validation: the constants stand for values that passed it.
* A changed `GPU_IDS` at restart.
* Event filters and `limit` in the history; a file that cannot be removed (history.py:174); a clock set back while it
  is written. `QueueEvents` and `History` are not composed: the first keeps the latest record
  of a lease, unless its write failed; the second shows that of the events that were written, files and queries lose only those in the
  first second of the window (failed writes lose events anywhere, in both). `IdleCheck` takes that second from
  `History`, and supposes a window of `is_idle` within the retention: older records are swept.
  Restarts are not in `QueueEvents` either: `restore` emits no events, so the log of a
  crashed server still names the leases that were held, and waiters that were in line.
* Passthrough mode (no `GPU_LOCK_URL`), in which the client never calls.
* `heartbeat=False` and `--no-heartbeat`: to the server this is a client all of whose
  renewals are lost, which `clients_orphans` includes; no promise is made to such a client.
* A renewal with another TTL while a heartbeat runs, whose interval was computed from the
  first one (_client.py:428). Only heartbeats renew in `GpuLockClients`.
* A client whose server was restored from an older file (disk faults): see `NoTwoRely`.
* Power failures. `Crash` is the end of the process (SIGKILL, the OOM killer): the file system lives on. `StateFile.write`
  syncs the file and renames it (persistence.py:68-69) but does not sync the directory, so after a power failure
  an older snapshot may be found, which is a disk fault in the sense above.
* More than `MaxLate` renewals of one client left on the wire at a time: those beyond never arrive.

## 7. Plan

Open after the safety properties, in this order:

1. A composition of the server with the log (`GpuLockServer` and `QueueEvents`), in which `restore` emits no events: what
   `is_idle` may conclude after a restart.
2. Renewals with another TTL in `GpuLockClients` (_client.py:428), and the hypothesis on TTLs that `HeartbeatsKeep` then needs.
3. A disk that fails for a while: what `NothingToLose` and `NoTwoRely` still say once a later write has succeeded.

Not to be had: `WordKept` with renewals by strangers. A renewal may name a shorter TTL and so move `expires_at`
back, before the time the lease's own client was told; foreign calls of both kinds have to be excluded.
