# TLA+ specifications of the IP camera firmware

Specifications of the firmware's framework, services and lifecycle,
model-checked with TLC and, for their safety, proved with TLAPS for every value
of the constants. Every definition is translated from the C++
source; `PROJECT.json` maps each one to its lines, lists the runs, the mutants
that show each property can fail, the hazards of the code, the findings and the
theorems.

## The system

The firmware is one Linux process. A lifecycle object (`app/`) owns the
process; the framework (`framework/`) provides threads, a queue, timers, an
event bus, a watchdog and local IPC; services (`services/`) build on it.

| Component | State it keeps | Operations | Interacts with |
|---|---|---|---|
| Queue | items, RUNNING/DRAINING/SHUTDOWN, two condition variables | Push, PushFor, Pop, PopFor, Shutdown | any producer and consumer threads; the send queue of a connection |
| ThreadManager, StopToken | running, worker_finished, the std::thread, the stop flag | Start, Stop, Join, Join(timeout), Detach | the callers and the worker; used by the accept thread and the watchdog's monitor |
| TimerScheduler | timer entries, running_, reschedule_needed_ | Start, Stop, Join, ScheduleOneShot, SchedulePeriodic, Cancel, SchedulerLoop | clients on any thread, callbacks on the scheduler thread |
| EventBus, Subscription | lists by event type, a counter, handles, a thread-local flag | Subscribe, Publish, Cancel, move, destruction | callbacks run on the publisher's thread and may call the bus again |
| NetworkServer, NetworkConnection, NetworkClient | connections_, the subscription; per connection the descriptor, atomics, send queue, sender thread | Start, Stop, AcceptLoop, OnDisconnected, Send, Recv, Close, Teardown, SendLoop, Connect | EventBus, ThreadManager, Queue, the kernel, the services that hold shared_ptrs |
| Watchdog, device | checkers, running_, timeout, the open device | RegisterChecker, Start, Stop, Join, MonitorLoop | ThreadManager, health checkers, the hardware timer |
| FirmwareApp | atomic state, a shutdown flag | Initialize, Run, RequestShutdown, Shutdown, the destructor | Logger, SignalHandler, any thread that asks for a shutdown |
| SignalHandler | a static sig_atomic_t flag, the old sigactions | Initialize, Shutdown, the callback | FirmwareApp, the kernel |
| IPC (IpcSocket, IpcServer, IpcClient) | sockets, lock file, socket file | Start, Accept, Connect, ConnectWithRetry, Send, Recv, Disconnect, Stop | other processes, through the file system and byte streams |
| Config | a map of full keys to values and lines | Load, Clear, GetX, RequireX | everyone, read only |
| Logger | level, output, initialised | Initialize, Log, Shutdown | everyone |

What is hard in it: notifications of single waiters under timeouts; a worker
restarted under callers that still join its predecessor; timers cancelled
while their batch runs; subscribers that come and go during a dispatch;
connections torn down by four kinds of thread at once, with the last reference
dropped anywhere; a hardware timer against a late monitor thread; a state word
that Run stores into while Shutdown exchanges it; signals between any two
system calls; frames cut anywhere by a full stream or a deadline; server
processes that die between their lock, unlink and bind. The `hazards` of `PROJECT.json` list each at its line.

## Modules

Each component module declares its state as VARIABLES named after the members
and locals of the class, with history variables marked `history` in the
declaration, and has one action per operation or per step between two points
where the code gives up a lock. Mutants (definitions commented
`\* Mutant:`) stand before the definition they change; no specification uses
them.

* **Queue** - one step per call that need not wait, otherwise a step up to the
  wait and one from the reacquired mutex on. A parked thread is `blocked`,
  `expired` (timed out, not yet holding the mutex, still able to absorb a
  notification) or `signalled`. `notify_one` may release any waiter.
  **FifoLog** is what the queue promises: a log of accepted items of which a
  prefix has been delivered, and a phase. `ImplementsFifo` instantiates it with
  `log <- pushed, delivered <- taken, phase <- state`.
* **ThreadManager** - callers race Start, Stop, Join and Join(timeout); workers
  are numbered by the Start that made them; the join() after CompleteJoin's
  unlock is a step of its own. **ThreadSelfDestroy** adds Detach and the
  destructor inside the worker.
* **TimerScheduler** - the five phases of SchedulerLoop: `LoopTop` and
  `LoopWakes` go up to a wait or through the collection of due timers;
  `BeginCallback`/`EndCallback` run the batch without the lock; `Reconcile` is
  phase 5. A one-shot's delay is kept in `period`, for the property on bursts.
* **EventBus** - Publish is a snapshot, a `Call`/`CallReturns` or
  `CallThrows` pair per subscriber, and a return; between `Call` and return the
  thread may use the bus like any caller. Subscribe's result is a temporary
  until it is assigned, as in the code.
* **Network** - composes the connection, server and client with EventBus
  (`INSTANCE EventBus` on the same variables; every Publish, Subscribe and
  Cancel is the bus's own action). `td[t]` is thread t's activation of
  Teardown, in six steps; `Dropped` runs the destructor on the thread that
  drops the last reference; `table` is the kernel's descriptor table, which
  hands out the lowest free number. The send queue is abstracted to its length
  (Queue shows what it does), the ThreadManager of the accept thread to its
  token and exit (ThreadManager shows what it does). A handler may itself call Close()
  (`AppClosesInHandler`). **MCNetwork** adds the symmetry of connections.
* **Watchdog** - the monitor, the owner and the hardware timer. A unit of
  time covers the 50 ms sleep of the monitor and its overrun; the run takes
  200 ms (`Second = 5`), a monitor four times slower than nominal. Remaining
  delays are kept instead of a clock, so no bound on time is needed. Up to `MaxLag` units
  pass between two steps of the monitor.
* **SignalHandler** - each sigaction and each assignment of the static flag is
  a step, so that a signal can arrive between any two. The dispositions the
  process inherited are part of the initial state.
* **FirmwareApp** - extends SignalHandler. Main makes apps one after the other
  and drives each through Initialize, Run, Shutdown and the destructor in any
  order the code allows, while helpers call RequestShutdown and Shutdown. The
  load and the store of `state` in Initialize and Run are separate steps; the
  exchange of Shutdown is one. The Logger singleton is its initialised flag.
* **IpcSocket** - a connection is two byte streams of bounded size. A Send or
  Recv is a sequence of system calls, each of which moves what fits or what is
  there, and may give up at any of them once the stream blocks. Headers are
  encoded and decoded as bytes.
* **IpcServer** - extends IpcSocket with server processes, the lock, the socket
  path, the backlog and the clients. Every system call of Start and Stop is a
  step, and a server may crash before and after each. **MCIpc** gives the
  messages.
* **Config** - Load line by line over a sequence of classified lines, the
  parsers and the reads as operators, and a definition of what each read must
  give over the file as a whole. Dotted names are sequences of parts, so that
  section `a.b` with key `k` and section `a` with key `b.k` collide as they do
  in the code. **MCConfig** gives the lines.
* **QueueProofs**, **ThreadManagerProofs**, **TimerSchedulerProofs**,
  **EventBusProofs**, **WatchdogProofs**, **FirmwareAppProofs**,
  **IpcServerProofs** - the theorems about the module each is named after, the
  last with those about IpcSocket. **ServicesProofs** - the theorems about
  Config and Network.

## Runs

| Run | Bounds | Shows |
|---|---|---|
| `queue` | 2 producers, 2 consumers, 3 items, capacity 2 | no lost wakeup, end of stream is final, refinement of FifoLog, both shutdowns release all waiters, no stall |
| `thread_manager` | 2 callers, 3 workers | one worker, consistent handle, stop requests kept, brief joins, joiners released |
| `thread_self_destroy` | 1 caller, 1 worker | **violation**: the worker uses the manager it destroyed |
| `timer` | 3 timers, 2 slots, period 1, clock to 3 | no stuck entry, no early or burst firing, final cancel, due timers are picked up, Stop ends the loop |
| `event_bus` | 2 threads, 2 types, 2 handles, limit 3, 4 subscriptions | registrations are what handles own, nobody skipped, delivery in order, only nested publishes rejected |
| `network` | 2 connections, 1 start, send queue 1 | descriptor closed once by its owner, one disconnect event, Stop closes all, no use after free |
| `network_live` | 1 connection, 2 starts | Stop returns, senders end |
| `network_destroyed` | 1 connection, 1 start | **violation**: the server's handler runs after the server is destroyed |
| `watchdog` | 2 checkers, timeouts 2, 3 and 5 s, lag 1 | fires only for a cause, quiet when down, a sick system resets |
| `firmware_app` | main, 2 helpers, 2 apps | one cleanup, dispositions and logger as before, Run ends after a request or a signal |
| `ipc` | 2 servers, 2 connections, messages of 0 to 2 bytes with a limit of 1, streams of 4 bytes, 1 connect attempt, 3 Sends, Starts and crashes together | the lock guards the path across crashes, no connection outlives its server, messages whole and in order, every call returns |
| `config` | files of up to 4 lines, 2 sections, 2 keys, 5 values, ints from -8 to 7 | reads agree with the file as a whole, no line lost without a log |

Why the bounds are enough for the interesting cases: two threads on each side
of the queue and capacity two give barging, absorbed signals, a full and an
empty queue; the theorems cover the rest. Three workers let a joiner be
overtaken by two restarts. Two timers make a batch with something in front of
and behind a callback, a third meets the capacity, and a clock to 3 lets a
period-1 timer fall behind by two periods. In the bus run two threads dispatch
at once with a subscriber before and after each snapshot, and the limit is
below the number of subscriptions that the handles and temporaries could own.
Two connections make a descriptor number come back under a connection that is
still being torn down; a second start is in the liveness run. Timeouts 2, 3 and
5 cover an even timeout, an odd one, and one whose half exceeds a second. Two
helpers and main make three Shutdowns race; a second app meets what the first
left in the process. A stream of four bytes holds a header and nothing else, so
that every frame with a body is written and read in parts and both directions
can be full at once; the budget of three events allows two starts and the crash
between them, a start with two Sends, or a start, a Send and a crash during it.
Four lines are two headers and two pairs, the least in which one full key is
made in two ways under two sections.

Deadlock is checked for the queue, the thread manager and the timer. It is
switched off where the model really ends: once the ids or connections of a
bounded run are used up (bus, network, IPC), when the watchdog has reset the
system, when a signal has killed the process or its last app is destroyed
(firmware_app), and in the violation run that ends in a destroyed object.

### Fairness

Weak fairness only, and only for what the code or the kernel guarantees: a
released thread gets the mutex (nobody keeps it), a started thread runs, a
wait whose deadline has passed ends, polls time out, callbacks, checkers and
handlers return, a worker told to stop returns (the contract of StopToken), the
sleeps of the run loop end, a thread inside an IPC Send or Recv makes its next
system call or meets its deadline, and the kernel finishes closing a dead
process. No call by a client, no timeout before its deadline, and no spurious wakeup is
ever assumed to happen.

### Disagreements with the documentation

The two violation runs are described under `findings` in `PROJECT.json` with
the lines they contradict: `Detach()` does not make it safe to destroy a
ThreadManager in its own worker, and `Stop` in the server's destructor does not
wait for a dispatch that already holds the server's handler.

The models also contain, and the properties name as exceptions, behaviour that
a reader of the documents would not expect:

* `Cancel` of a timer that waits in a running batch returns SUCCESS and the
  timer still fires once (`timer_scheduler.cpp:267`, against
  `tests/timer/test_timer_scheduler.cpp:332` and `README.md:278-279`).
* A connection closed inside a NetworkConnected handler publishes nothing, since
  the nested Publish is rejected, and stays in `connections_`
  (`network.cpp:188`, against `network.h:31-32`): `Rejected` in Network.
* A Recv interrupted by a local Close returns PEER_CLOSED (`network.cpp:338`)
  where `network.h:177` says SHUTDOWN.
* An app destroyed in the state RUNNING is not cleaned up, even if Run has
  returned: the logger stays up and the next app cannot initialize
  (`firmware_app.cpp:36-59`): `abandoned` in FirmwareApp.
* The stores of Initialize and Run can overwrite the SHUTDOWN of another thread,
  a state that `tests/firmware_app/test_firmware_app.cpp:59-61` calls terminal:
  `revived`. Shutdown on another thread clears the signal flag and does not end
  Run: the `~installed` of `RunEnds`.
* A SIGINT caught before the installation of SIGTERM fails is swallowed.
* A TIMEOUT inside an IPC frame leaves the stream between frames, and the next
  call reads a body as a header (`ipc.h:83-85`): `torn`. A message that is too
  large is MESSAGE_TOO_LARGE where `ipc.h:118` and `ipc.h:142` name
  INVALID_ARGUMENT and PROTOCOL_ERROR.
* In Config a malformed section header leaves the previous section in force,
  and a read error is taken for the end of the file, so that Load returns
  SUCCESS with a part of it (`config.h:73-74`).

## Proofs

`QueueProofs` proves, for any finite sets of producers and consumers, any
payloads and any capacity (`QueueAssumption`), that `Spec` implies `[]TypeOK`,
`[]NoLostWakeup`, `[]DrainHasWork`, `[]EndOfStreamIsFinal`, `[]FifoOrder`, and
that it implements FifoLog. The inductive invariant is the conjunction of
these with `OffersItem` (a waiting producer offers an item), which the type
correctness of a push after a wait needs. `NoLostWakeup` is inductive because
it counts: while someone is parked, there are at least as many released
threads as items (or free slots), so a push or pop that adds one also releases
one, and a released thread that leaves, having taken one, restores the
inequality; the lemmas `ReleaseOne`, `LeaveOne` and `ReleaseMore` state the
counting once. The refinement needs `FifoOrder` to know that the item popped
is the next of the log.

`ThreadManagerProofs` proves, for any callers and any number of workers
(`ThreadManagerAssumption`), `TypeOK`, `HandleMatchesRunning`, `WorkerIsHeld`,
`StopIsNotLost` and `JoinsAreBrief`. They are not inductive alone: the
invariant adds that workers are created in order and only created ones are
held or told to stop (`CreatedInOrder`), that `worker_finished` speaks of the
worker that is held (`FinishedIsCurrent`) and that a caller inside join() has
a thread (`HasThreadToJoin`).

`TimerSchedulerProofs` proves, for any capacity, number of timers, delays and
length of time, `TypeOK`, `BatchOwnsActive`, `CancelIsFinal` and the action
property `NoBurst`. The invariant adds that unused ids are blank (`FreshIds`),
that the running callback belongs to the batch (`CurrentInBatch`) and, for
`NoBurst`, `Paced`: the age of a timer is at least a period for every callback
that has begun, and its deadline a period more while the next one has yet to
begin. That a late FIXED_RATE deadline is moved past `now` needs that the least
multiple exists (`LeastOf`, from the well-foundedness of the naturals).

`EventBusProofs` proves, for any threads, event types, handles and limit,
`TypeOK`, `HandlesOwnEntries`, `NobodyIsSkipped`, `DeliveryInOrder` and
`RejectsOnlyNested`. The invariant adds that the lists are increasing and
disjoint (`Lists`), that ids in use are below `next_id` (`Fresh`) and that no
two handles hold one id (`UniqueOwner`): only then does erasing the first entry
with an id remove it from the bus, and does `total_subscribers` stay the number
of entries. `RemoveIncreasing` is the lemma about the erasure.

`WatchdogProofs` proves, for any finite set of checkers, any timeouts and any
lag the kick interval leaves room for, `TypeOK`, `FiresForCause` and
`QuietWhenDown`. The invariant adds `OnTime`, how far the hardware timer can
have counted at each place of the monitor's loop while nobody has refused and
no stop was requested. The assumption it needs is `PunctualAssumption`: timeouts
of at least 2 seconds, and `Cardinality(Checkers) + 3` lags within what the
interval `timeout / 2` leaves of the timeout. It is the real-time condition
under which the code's choice of interval is sound, and fails at a timeout of 1.

`FirmwareAppProofs` proves, for any helper threads and any number of apps,
`OneCleanup` and `EndsAsItBegan`. The invariant says which places of the
SignalHandler go with which call (`InStep`), that a saved disposition is the
inherited one whenever it may be restored (`SavedIsInherited`), that a signal
not replaced does what it did before (`Restitution`), and that a logger that is
up has somebody who will bring it down (`LoggerHasAnOwner`).

`IpcServerProofs` proves, for any servers, connections, messages and buffers,
`LockGuardsPath`, `NoOrphans` and `WholeMessages`. For the first two the
invariant says who holds the lock
(`LockIsHeld`), whom the path leads to (`PathIsOwned`), that a listener, a
backlog and a client belong to a server that has yet to close them
(`HeldUntilClosed`) and that an open connection has exactly one holder
(`OneHolder`). For `WholeMessages` it is `SocketInv`: a closed end is in no call
and a connection without open ends is empty (`ClosedIsEmpty`), and a stream that
is not torn and has a reader is in step with the calls at its ends (`InStep`).
That is said without parsing the stream, which would need induction over it:
the frames of all messages are laid out on one line of numbered bytes, frame i
from `off[i]` on, and the stream holds the consecutive bytes between the
reader's place and the writer's (`Flow`). A ::send moves the writer's place, a
::recv the reader's (`FlowWrites`, `FlowSends`, `FlowReads`, `FlowReceives`);
`Sender` and `Receiver` tie the places to what the calls hold and want.
`HeaderAssumption` says that the largest length fits the four bytes of the
header, which a `kIpcMaxMessageSize` of 1 MB does with room to spare;
`HeaderDecodes` shows that under it DecodeHeader undoes EncodeHeader.

`ServicesProofs` proves of Config, for any lines, any number of them and any
range of int, `ReadsSeeTheFile` and `NothingDroppedSilently`. The invariant says
what Load has of the lines it has read: the section in force, and for each key
the line and value of its last assignment (`LoadInStep`); and what it has
logged: the malformed lines, and for each overridden assignment the pair of it
and the next (`LogInStep`). `Grown`, `NewSection` and `NewKey` say what one more
line does to the definitions over the whole file, which mention the greatest
line of a set (`MaxOf`, from the well-foundedness of the naturals).

It proves of Network, for any finite set of connections, any number of
restarts and any queue capacity, `ClosesOwnSocket`, `OneDisconnect`,
`EndIsPublished`, `ClosedIsForgotten`, `StopClosesAll` and `NoUseAfterFree`. The
invariant has three kinds of parts. Why a thread may be in a Teardown: it is
the sender, it runs the destructor, or it holds a reference for as long as it
is there (`SenderFrames`, `ServiceFrames`, `OwnerFrames`, `AcceptFrames`,
`DestructorAlone`, `Lives`); from these follows that no object is used after it
is destroyed. What the exchange of `connected_` decides: one winner
(`OneWinner`), whose descriptor stays its own until it closes it
(`Descriptors`, `SocketIsOwn`) and who alone publishes (`Counted`, `Pursued`).
And what the server knows: an open connection of its own is listed, or in the
hands of the accept thread (`OpenIsKnown`, `Unannounced`, `AcceptedIsNew`), and
a listed one whose end was published is in a dispatch that has yet to run the
server's handler (`HandlerWillRun`, with `HandlerIsListed`). `FrameDropped`,
`DropInv`, `MoveInv`, `EnterInv` and `MakeInv` say once what dropping a
reference, a step within a Teardown, entering one and making a connection
leave alone. The proof needs that no connection is named like one of the other
threads, which `NetworkAssumption` states.

`DrainHasWork`, `FifoOrder` and the `TypeOK` of ThreadManager are left to their
theorems and not checked again by the runs.

Of `TypeOK` of Network the proof establishes the parts that the properties rest
on (`BusTypes`, `ServerTypes`, `ConnTypes`).

Only model-checked: all liveness, since TLAPS proves neither fairness arguments
nor ENABLED. The two violations are counterexamples and have nothing to prove.
Every safety property of a passing run has its theorem. No module declares a
RECURSIVE operator, so that all can be proved about.

## Not modelled

* Log levels, formatting and output, thread names, addresses, socket options,
  and bytes on the network connections: data no property tells apart.
* A TimerScheduler started again without Join (the process terminates), and
  its destructor.
* The epilogue of a worker that was detached before its manager was started
  again: ThreadSelfDestroy has one worker.
* NetworkServer::Start refused for want of a bus subscription, and Stop called
  from a handler of the accept thread (it would join itself).
* A Watchdog with `timeout_seconds` of 1, for which the kick interval is the
  whole timeout (`PunctualAssumption` excludes it), a Kick whose ioctl fails,
  and NullWatchdogDevice, the test double. An Open that fails after it armed the
  timer is modelled (`StartLeaks`) and set aside in `QuietWhenDown`.
* In IPC the delays between connect attempts, the permissions of the socket
  file, the move constructors, and a socket shared between threads.
* In Config trimming and tokenising: a line is one of the classes Load
  distinguishes. A character that is no digit after a number makes a `text`.
* The helgrind annotations, the tests and the Makefile.

## Plan

1. Return values of Recv, and reads from a descriptor that has changed hands,
   in Network.
2. Proofs: `TypeOK` of Network, with the bus's part of it.
