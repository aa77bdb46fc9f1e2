# The concurrent runtime of M9, modelled in TLA+

M9 is a language with `MONITOR`, `WAIT`, `SIGNAL`, `THREAD` and `TASK`. Its
runtime (`runtime/m9rt.c`, `runtime/m9rt.h`) runs many tasks on a few OS
threads, and its library (`corpus/`) builds channels, crews of workers,
supervisors and a web server on its monitors. These modules model that part:
what a test meets once in a million runs. Each definition is translated from
the code; `PROJECT.json` maps it to its lines.

## 1. The system and its parts

| Part | Source | State it keeps | Modules |
|---|---|---|---|
| Monitor | `m9rt.h` 820-887, `m9rt.c` 4685-4901 | a pthread mutex, `tq` (tasks to enter), `wq` (in WAIT), `pend` (THREADs to wake), a spin lock | `MonitorSpec`, `Monitor`, `MonitorProofs` |
| Task scheduler | `m9rt.c` 3206-4386 | per carrier: a run queue, the `runnext` slot, the running task, `sleeping`; counters `m9_nidle`, `m9_nspin`, `m9_ncars`, `m9_pending` | `Sched`, `SchedProofs` |
| Poller | `m9rt.c` 4388-4683 | the timer heap, epoll's registrations, `m9_pending` | `PollerSpec`, `Poller`, `PollerProofs`; parking and the counter also in `Sched` |
| Channel | `corpus/Chan.m9` | a ring of 256, its cap, `closed` | `ChanSpec`, `Chan`, `ChanProofs` |
| Supervisor | `corpus/Sup.m9` | the board: each child's order and state, a ring of restart times | `Sup`, `SupProofs` |
| Crew of workers | `corpus/Tsk.m9` | `Go` (the round), `Done` (the counts), each worker's `Seat` | `Tsk`, `TskProofs` |
| Web server | `corpus/HttpServer.m9`, `runtime/tcpshim.c` 235-342 | the ring `Q`, the free worker numbers and connection slots, the stop flag, the counts | `HttpServer`, `HttpProofs` |
| Memory | `m9rt.c` 205-580, 1379-1454 | pools, kept blocks, counts of shared values | none yet |
| Poison, held list, gates, Exec slots | `m9rt.c` 96-112, 3010-3055, 5341-5362, 5988-6058 | marks, registries | none yet |
| Logger, network clients, collections, data formats, numerics, compiler, Pascal host | `corpus/`, `host/`, `runtime/gen/` | sequential code and I/O | none; `PROJECT.json` gives the reason for each |

How they interact. A bound procedure of a `MONITOR` record runs inside
`m9_mon_enter` and `m9_mon_leave`; `WAIT` is `m9_mon_wait`, `SIGNAL` is
`m9_mon_signal`. A task that must wait parks by `m9_task_sched`; who wakes it
calls `m9_task_ready`. So the library stands on the monitor, and the monitor
on the scheduler:

    Chan  Sup  Tsk  HttpServer    one step = from entry or WAIT's return
        \   |    |   /             to the next WAIT or the end
          MonitorSpec             what a MONITOR promises
              ^ implements
           Monitor                mutex, queues, spin lock, words
              | parks and readies a task (runq)
            Sched                 run queues, stealing, sleep, deadlock test
              | parks on a timer or a descriptor (Poll, Fire)
          PollerSpec              woken once, by whichever comes first
              ^ implements
           Poller                 heap, registrations, the poller's thread

`Monitor` shows that `MonitorSpec` holds, and that is why `Chan`, `Sup` and
`Tsk` may take one stretch inside a monitor as one step; so may `HttpServer`.
`Poller` shows that `PollerSpec` holds; `Sched`'s `Fire` is its wake with the
reason left out, and `NeverNeither` is what `Sched`'s deadlock test takes from
it. `Monitor` takes from
`Sched` that a task put in a run queue is run once (`QueuedOnce`,
`NoneStranded`) and on one stack (`OneStack`).

What is hard here: two queues and a mutex that no single lock covers; a fence
pair; tasks that move between threads while their registers are being saved;
carriers that decide to sleep while others decide whom to wake; counters read
one after another; rounds of workers that overlap; reports that come late; a
timer and an event that race; a server that is stopped while it accepts, reads,
handles and answers.

## 2. The modules

**Monitor.** `pc[p]` says where a process is between two accesses to shared
memory: `spin`, `link`, `try` and `parked` are `m9_mon_take`; `look`, `pop`,
`ready`, `wake` are the end of `m9_mon_leave` and of the first half of
`m9_mon_wait`; `sleep` is in WAIT, `cond` is the fallback without memory. `tq`
is a sequence, `wq` and `pend` are sets: SIGNAL takes the whole of `wq`, and
the order inside is not observed. `runq[t]` counts how often `t` stands in run
queues, which should be once at most. `Unlock` is shared by `Leave` and `Wait`
as in the code. `MonitorSpec` knows four states of a process: out, wants,
waiting, in. The mapping is `Seen`: a process is "waiting" while it is on `wq`
and "wants" from its release.

**Chan, ChanSpec.** Each procedure of `Chan.Ints`; a call that waits leaves its
locals in `at[p]` and comes back by `SendAgain` or `ReceiveAgain`. `Send` keeps
the `room` it read first. `ChanSpec` is a queue with an answer for each call:
an answer that says full, empty, ended or Closed must be true of the queue.

**Sup.** The board's procedures; the loop of `Watch` over the children takes a
step for each child, while the clock runs. A child follows the loop that the
DEFINITION of Sup prescribes. `log` is a history of the restarts, without the
ring, so that the ring is checked against it.

**Tsk.** `Next` is `Report`, `Await`, and at the end `Leave`, each a stretch
inside one of the two monitors. `LastLook` is the last read that `m9_mon_leave`
makes after its unlock. `did` counts how often each index was run.

**Sched.** Carrier 1 is the main thread and its root task the module body.
A section under a carrier's mutex is one step; `m9_carrier_sleep` keeps its
mutex over the deadlock test, so its steps are apart, and `MutexFree` stops the
others. Every read of an atomic counter outside a lock is a step. Time is
absent: "stuck for 3 us" and "no switch in two looks" become "the victim's task
runs on". The code of a task is arbitrary: it wakes, starts, waits, parks,
yields and ends as it likes, within a bound on the operations. The poller
wakes any parked task at any time; one THREAD wakes or starts tasks, and ends.

A carrier is started by the monitor thread's hand-off, or by a THREAD's TASK
statement when there is no worker (`Hire`); either start may fail
(`StartWorker`, `m9rt.c:4158`). `StealMax` is `M9_STEAL_MAX`, 2 in the runs,
where a queue is too short for it to bind; the theorems hold for any.

Left out there: spurious wakes of a condition variable (they do what a stale
`m9_wake_idle` already does), `m9_deal`, how the first carriers join
(`Joined` of them are there), and the failed park, which changes
nothing. The read of `m9_nidle` and the scan for a sleeper after it are one step
(`PickSleeper`, and the same in `HandOnBlocked` and `HandOnBusy`): the sleeper
may wake before it is signalled, and all may wake between read and scan, which
both end in no signal.

**Poller, PollerSpec.** A task's call is `Call` (as far as the lock) and then
`Park`, `NoMemory` or `NoEpoll`, each one section under `m9_poll_mu`. The
poller's round is `Plan`, `Wait`, `Lock`, an `Event` for each of the batch,
`EventsDone`, a `Timer` for each deadline passed; `Wake` is the end of
`m9_poll_wake`, cut in two since a woken task runs on while the poller still
counts it. The heap is the sequence that the code keeps, with `m9_heap_up` and
`m9_heap_down` as the moves along one path (`Path`, `Sift`): a timer goes up
while its parent is later, or down while its earlier child is earlier; `hidx` is
kept apart from it, as in the code, so that the two may disagree. `reg` is
epoll's table: one registration for each descriptor, with the task it was made
for. `robbed` and `over` are history: who has lost an event to another task, and
a wait that is endless for an overflow. `PollerSpec` knows a call only as
waiting or woken, with a reason that must be true of that call: its descriptor
was ready at some time since it began, or its deadline has passed.

**HttpServer.** `main.pc` is where `Run` is, `pc[w]` where a worker THREAD or a
connection's task is. A procedure of the monitor `Q`, from its entry or a WAIT's
return, is one step. A request is what it leads to: nothing came, the client is
gone, it is refused by `One`, or it goes to the handler and asks to be kept or
not. `Idler` is a fresh `Worker` with the locals of `Serve1` and `Idle`.
`conns` and `answered` are history, with which the counts that `Run` returns are
compared. Left out: the parsing and writing, the log, kept memory blocks, and
the worker's last look at the monitor after its unlock (see `Tsk`).

## 3. The runs

| Run | Question | Bounds | Result |
|---|---|---|---|
| MonitorSafe | mutual exclusion, no lost entrant or waiter, made ready once | 2 tasks, 2 THREADs, 2 operations each, memory may run out | holds |
| MonitorLive | implements `MonitorSpec`; whoever wants in gets in | 2 tasks, 1 THREAD, 2 operations each, memory does not run out | holds |
| Chan | a queue; no lost wake; calls that can end do | 3 callers, 2 values, ring of 2 | holds |
| Sup | restarts within the limit, reports heard, return only when done, all stopped | 3 children, 2 seats, 2 policies, clock to 3, ring of 1 | holds |
| SupRing | gives up only when it must, with maxRestarts above the ring | 1 child, ring of 2, maxRestarts 3 | violated |
| Tsk | each index once in its round; For and Stop return | 3 workers, 2 rounds of 1 or 3 indices, 2 operations | holds |
| Sched | one stack, one place for each ready task, counters right | 4 tasks, 1 to 2 carriers, 4 operations, or 2 with a THREAD that starts the first worker | holds |
| SchedLive | no ready task stranded, pinned stays, deadlock found | 2 tasks, 2 carriers; with 2 operations and no THREAD, or 1 operation, 1 park and a THREAD | holds |
| SchedAbort | the deadlock test stops only a deadlock | 2 tasks, 2 carriers, 2 operations | violated |
| Http | every connection served or refused; one handler for each worker number; two answers at most after a stop; a stop ends Run; the counts | 3 connections, ring of 1; 1 or 2 THREADs, or 2 connection tasks with 1 or 2 numbers; 1 to 3 requests on a connection | holds |
| HttpEnds | "Everything Run starts has ended before it returns, by any path" | 2 THREADs, 1 connection | violated |
| Poller | the heap and each task's place in it; never neither queued nor pending; implements `PollerSpec`; nobody due for ever | 3 tasks, 2 descriptors, delays of 1 and 2, clock to 3, heap from 2, an int that overflows at 3 | holds |

Why the bounds are enough to meet the cases. Two tasks and two THREADs put a
task on `tq` behind another, a THREAD on `pend` in another's WAIT, and another
who takes the mutex in between; the proofs remove the bound. A ring of two slots
wraps after two values. A ring of one restart, a limit of one and a clock of
three steps reach both sides of the window's end. Three tasks beside the body
let a slot, a queue of two (a loot of one of two) and a thief's hands be filled
at once. A ring of one connection is full after one, and a third connection
meets it full while a worker is busy; two slots and one worker number make a
task wait for the number; two requests on a connection let a stop fall before,
within and after a handler. Three timers are the least from whose heap one is
taken with two left to put in order; two tasks on one descriptor rob each other,
and a next call on a second one meets an event of the first. `Spins` is 3, the
least value at which a carrier has an early look, a late look, and a last look.
Every run's mutant (a plausible slip in the code: a dropped reset, a swapped
order, `<=` for `<`) is found under the same bounds; the mutants stand in the
modules before the definition they change.

Fairness. *Monitor*: a body ends, a carrier runs what is queued on it, the
kernel runs every thread; nothing is assumed of what programs choose to do. Weak
fairness is enough for `EveryoneGetsIn` only because `MaxOps` bounds the
entries: a task retries by itself after each wake, and in the end nobody is left
to come before it. With entrants that barge in for ever the code promises no
more than that the monitor goes to one of them. *Chan, Sup, Tsk*: a released
process gets the monitor back, which is `EveryoneGetsIn` of `Monitor` with that
same proviso; in Sup and Tsk a child's work and a worker's body end. *Sched*:
each carrier, the poller and the THREAD's pushes are strongly fair, because they
wait for a mutex that its holder keeps for a moment only; the monitor thread's
looks are weakly fair. A task's code may run for ever, a timer may be far off,
the THREAD may do nothing. *Poller*: the kernel runs the poller's thread, and
time passes; nothing is assumed of programs and descriptors, nor of the
carriers. `PollerRuns` is weak fairness of the poller's steps with its ENABLED
written out: it goes on, or is again and again in an `epoll_wait` that has
nothing to answer. *HttpServer*: `Run` and each worker go on: a slice of the
wait ends (`tcp_accept_wait`, `Idle`), a handler ends, a client takes its answer
or is gone. Clients need not connect or send, and nobody need stop the server.
The last conjunct of `FairSpec` is an assumption on clients, for the code does
not see to it: none sends empty lines, and nothing else, for ever (section 4).

`NoneStranded` has three ways out besides being run: the program was stopped,
every carrier that may run the task is in a task's code, or a stall's one
hand-off had been spent, or could start no carrier (`short`). The spending is a
limit of the code: `handed` is cleared only when a look sees the carrier
switched, asleep or with nothing queued (`m9rt.c:4233-4236`).

`Woken` has two ways out besides the wake: `over`, an endless wait, and
`robbed`. Both are limits of the code (section 4). `Served` and `StopEnds` have
one: `refused`, a TASK that could not be started.

What `LastAnswers` says of a stop is narrower than one reading of the doc of
`Stop` (`HttpServer.m9:350`): "every request already read or queued is
answered". The models read "queued" as the connections in the ring, each of
which is served (`Served`). A client may also have sent several requests at
once; those still in its connection's buffer when an answer says close are
dropped with the connection, which `Answer1` (`HttpServer.m9:2204`) does on
purpose. Whether the doc means them is open, so no run speaks of it.

`NoLostEntrant` and `NoLostWaiter` are stated for an orderly monitor: no THREAD
has had to WAIT without memory for its record. After `WaitNoMemory`
(`m9rt.c:4828`) that THREAD sleeps on a condition variable nobody signals any
more, and its unlock looks at neither `tq` nor `pend`, so an entrant can be left
behind: the code's comment, "no memory: as before", is not so since SIGNAL no
longer reads the condition.

## 4. What the runs found

1. **SchedAbort** (`m9rt.c:3912`). The deadlock test reads `m9_nidle` and then
   the queues. A signalled carrier counts as idle until it runs, so it may wake
   and take its task between the two reads; the program is stopped although a
   task is ready. The same holds of `m9_pending`, read before `m9_nidle`.
2. **SupRing** (`Sup.m9:257`). `maxRestarts` above 64 is accepted, but the
   ring holds 64 times: `Watch` gives up too early.
3. **HttpEnds** (`HttpServer.m9:2652`). `Run` starts its THREADs before the
   block whose FINALLY shuts the ring and waits for them. When one cannot be
   started, `Run` raises with the others asleep in `Take`, in a ring that is
   freed with `Run`'s pool.

What the models show besides, without a run of its own:

- *Poller, `over`* (`m9rt.c:4538`). The poller's timeout is an `(int)` of
  milliseconds. A deadline 2^31 ms away (24.9 days) gives a negative one, and
  `epoll_wait` waits for ever; the sleeper wakes only if another event ends that
  wait in its time. `m9_poll_ms` (`tcpshim.c:289`) mends the same slip for
  `poll`.
- *Poller, `robbed`* (`m9rt.c:4638`). Of two tasks that wait for one descriptor
  the first loses its event to the second, and the deadline of one deletes the
  registration of the other.
- *HttpServer, `refused`* (`HttpServer.m9:2672`). A connection is counted by
  `Opened` before its TASK statement. If that raises, `AwaitClosed` waits for a
  task that never ran, and `Run` does not return.
- *HttpServer, `EmptyLines`* (`HttpServer.m9:2236-2259`). Each empty line before
  a request starts the idle wait anew, as often as it comes, and before a
  connection's first request that wait does not look at the stop: a client that
  sends nothing else holds its worker and `Run`'s return for ever. So
  does one that never reads its answer, since a THREAD's write has no limit.
  `Served` and `StopEnds` assume that clients do neither.
- *Accepting* (`tcpshim.c:341`). After `poll` has seen a connection,
  `tcp_accept` may block without limit when the client has reset it meanwhile:
  the stop is then not seen. The model's slice always ends.
- *Chan, `CapKept`* (`Chan.m9:107`). A sender that waits in a full channel keeps
  the room it read; after a drain and a smaller `SetCap` it passes the cap.
- *Tsk, `LastLook`* (`m9rt.h:876`). `Stop` may return while a worker's
  `m9_mon_leave` still reads the monitor, which is a field of the job record.

## 5. What is proved

The proof modules prove, for every value of the constants under the one named
assumption of each component (`MonitorAssumption`, `ChanAssumption`,
`SupAssumption`, `TskAssumption`, `HttpAssumption`, `SchedAssumption`,
`PollerAssumption`: sizes are positive numbers, sets of processes are finite
where the code counts them, the threads of the runtime are different from each
other, no task or descriptor is the value that stands for none, and a sleep has
a limit):

| Theorem | Says |
|---|---|
| `MonitorProofs!TypeCorrect`, `MutualExclusionHolds`, `NoEntrantIsLost`, `NoWaiterIsLost`, `ReadyOnceHolds` | the invariants of MonitorSafe |
| `MonitorProofs!MonitorRefinement` | `~MayRunOut` (a THREAD always finds memory for its record) and `Spec` imply `ImplementsMonitor` |
| `ChanProofs!TypeCorrect`, `NoWakeIsLost`, `CapKeptHolds` | the safety properties of Chan |
| `ChanProofs!ChanRefinement` | `Spec => ImplementsQueue` |
| `SupProofs!TypeCorrect`, `RestartLimitHolds`, `ReturnsRightly` | the types, the limit on restarts and when `Watch` returns, for any ring and any policies |
| `SupProofs!GivesUpRight` | if no policy's `maxRestarts` is above `Ring`, `Spec => GivesUpRightly` |
| `TskProofs!TypeCorrect`, `BodiesStayInRound`, `RoundIsComplete` | the types, and the two safety properties of Tsk, for any crew and any n |
| `HttpProofs!TypeCorrect`, `OneHolderHolds`, `RunCountedOut`, `LastAnswersHold` | the four invariants of Http, for THREADs and for tasks, with any ring, slots, numbers and limits |
| `SchedProofs!TypeCorrect`, `OneStackHolds`, `QueuedOnceHolds` | the invariants of Sched, the counters' meaning among them, for any tasks and any number of carriers |
| `SchedProofs!PinnedStaysHold` | `Spec => PinnedStays` |
| `PollerProofs!TypeCorrect`, `HeapStaysRight`, `NeverNeitherHolds` | the invariants of Poller, for any tasks, descriptors, delays and first size of the heap |
| `PollerProofs!PollerRefinement` | `Spec => ImplementsPoller` |

The monitor's inductive invariant `Ind` has five parts beside the types, and
each is needed. `PlaceInv`: only tasks queue and park, only THREADs block on the
mutex; what a leaver has taken off the queues (`got`, `mine`) it holds between
its unlock and its wakes. `MuInv`: the mutex is held exactly by who is inside.
`TqInv`: a task stands on `tq` at most once, and the task in `try` is its tail
and holds the spin lock (since it linked, which is why `Unlinked` may cut the
tail). `RunInv`: a task in a run queue is parked or in WAIT, is on no other
queue and in no leaver's hand. `WaitInv`: who is on `wq`, on `pend` or in a
leaver's list. On these rest the three invariants that matter, one lemma for
each (`ParkedNext`, `ComingNext`, `WaitersNext`), with one step for every
action. The fence pair appears in `ComingNext`: a leaver that has unlocked is
"coming" until it has looked at `tq`, an entrant from before it links until
after its second try, so that one of the two is always there.

The channel's invariant `Ind` joins the types with `NoLostWake` and says which
locals a waiting call has. The refinement rests on two lemmas about the ring,
`RingPush` and `RingPull`: seen from `head`, writing at `Slot(n)` appends, and
moving `head` on takes the first, also across the wrap.

The Board's invariant `IInv` has three parts. `Types` adds that who asks `Run`
for a start, or works, has a seat. `Remembered` relates the ring to the history
`log`: each slot is at least as new as every restart that had it (`Newer`), and
each of the last `Ring` restarts still has its own (`Kept`, which needs that
indices less than a ring apart have different slots). The limit needs `Newer`
alone, so it holds for a `maxRestarts` above 64 too; that giving up is right
needs `Kept`, so it holds up to 64 only, and `SupRing` (finding 2) is the case
beyond. `Told` says that, until the stop, a child the Board calls finished has
run its last order, and that what `Watch` has counted so far was finished.

The crew's `IInv` has six parts beside the types. `IdsRight`: the numbers that
`Join` gave are 0 to `ids - 1`, one each. `Phases`: what `main` tells of `go`.
`SeatRight`: a worker that has the round's number has its own chunk of this
round's n, and outside a round nobody is behind. `CountsRight`: `finished` and
`left` are the number of workers that have reported and gone. `DidRight`: an
index was run just when the worker in whose chunk it lies has run. `FailedRight`:
a failure not yet counted is still with its worker. A round that ends has
`finished` = the whole crew, so every worker has run its chunk; that each index
lies in exactly one chunk is arithmetic, proved once for every n and every
number of workers (`ChunksDisjoint`, `ChunksCover`): the end of chunk k is the
start of chunk k + 1 (`Cut`), which grows from 0 to n.

The server's `IInv` has ten parts beside the types. The hard one is
`ConnsRight`: each open connection is in one place, in `Run`'s hands, in the
ring, or with a worker. So what a step does to a connection disturbs nobody
else's. The ring is seen from its head (`Queued(i)` is the i-th waiting
connection), as with the channel. `TokensRight` and `SlotsRight` say the same of
the worker numbers and the slots of tasks: the first `nfree` of `free`, and the
first `Spare` of `slots`, are different, are nobody's, and with the holders' are
all there are. `MainRight` and `ThreadsRight` say how far `Run` is: a THREAD
leaves only when the ring is shut and empty, and `exited` counts those gone.
`ServeRight` is the argument for two answers: a reply that asks to be kept was
read with no answer sent after the stop, so after one such answer the next is
the last. `CountsRight` adds the workers' own counts one after another (`Sums`),
since a worker hands its count over only when it ends; that sum is zero when all
have ended (`NothingLeft`, by `UpTo`, which replaces induction by the fact that a
finite set has no one-to-one map into itself that misses an element).

The scheduler's `IInv` has seven parts, and none is inductive alone.
`PointsRight` says where each thread may be and that a carrier sleeps just when
it stands between `Sleep` and `Wake`. `HandsRight`: how many tasks a thread has
in hand there; only a thief has more than one. `PlacesRight` is the hard one:
each task is in one queue, one slot, one hand or nowhere, and that place fits its
state (`Fits`): in a queue or slot it is READY and at home, in a slot it may
move, in the poller's hands it is still in POLL, in a waker's still in WAIT. The
thief's hand is the case between: until `Chain` only the first of its loot is
at its new home, and all of it may move. Its last conjunct says that a carrier
that looks further than its own slot has an empty slot, which it must, for
`PutBack` writes the slot without a look: no task is lost there because
nobody but the carrier fills it. `StacksRight`: the stacks that two
carriers are on, or have just left, are different; a running task is on its
own carrier, and one that may not move is at home. `OneStack` rests on it,
and so does the fact that a pinned task is never put back (`PutBackMoves`):
it would have to be on another carrier's stack, away from home. `DifferRight`:
no queue and no loot has a task twice; the two halves that a theft makes of a
queue have the elements of the whole, each once (`SplitIs`, from `PickIs` and
`RankIs`). `CountsRight`: each of the three counters is the size of a set. Most
of the steps of the model move no task; they are proved once, as `SmallStep`.

The poller's proofs have two halves. The first is about the heap alone: what
`HeapAdd` and `HeapDel` answer is a heap in which each task knows its place
(`HeapIs`), with one timer more (`HeapAddIs`) or with all but one
(`HeapDelIs`), for every heap. `Path(i, step)` is the least set that holds i and
is closed under `step`; `UpTo` and `Ends` say, without induction, that a path
that always falls, or always rises within bounds, comes to one end, and `SiftIs`
that moving a timer to that end permutes the timers and the places alike.
`UpOrders` and `DownOrders` give the order: each needs to know that the heap is
right but at one place, which is what `HeapDel` leaves after it has filled the
gap with the last timer and sifted up; whichever way that timer must go, the
other move leaves it alone. The second half is the invariant `IInv`, of seven
parts beside the types. `HeapInv` relates the heap to who is parked; the
exception is the task being woken, whose timer is gone while it still counts as
parked. `PendingInv` says that `m9_pending` is the calls under way and a woken
task not settled yet, and `NeverNeither` rests on it. `WakingInv`: the task in
the poller's hands is parked, with a reason that is true (`Reason`), until it is
ready. That reason is true of this very call and not of an earlier one, which
needs three more: `ArmedInv`, an armed registration is of a parked task and for
what it waits for; `EvsInv`, a task in the batch has not been woken since; and
`CameInv`, a descriptor that is ready has been seen by whoever waits for it.
`PfdInv` makes a deadline delete the registration of its own descriptor, without
which `ArmedInv` would not survive it. The refinement then
maps the first half of `Wake` to an `Event` or a `Deadline`, `Park` to `Wait`,
and every other step of the poller to a stutter.

With this every type invariant, safety invariant, action property and refinement
that a passing run checks is a theorem. Only model-checked are the liveness
properties, since the provers do not do liveness under fairness:
`EveryoneGetsIn`, `WaitersEnd`, `ReportsHeard`, `ChildrenStop`, `ForReturns`,
`CrewEnds`, `NoneStranded` (no wake-up of a sleeper is lost), `DeadlockFound`,
`Served`, `StopEnds` and `Woken` (nobody is due for ever).

## 6. Not modelled

- *Memory* (pools, kept blocks, counts of shared values), *the poison and reset
  of a monitor, the held list, the gates, the slots of `Exec`, the Logger*: they
  have state that threads share and are the next to be modelled.
- *Parsing and writing* (HTTP, the data formats), *the compiler and its Pascal
  host, numerics, plots*: sequential programs over text and numbers. What could
  be wrong in them is a matter of data, too large for a model checker, and the
  repository tests it. They are most of the repository's lines, with the C
  generated from them (`runtime/gen/`), so these modules cover little of the
  whole and most of what runs concurrently.
- *kqueue, Windows*: the models follow the Linux branches.

## 7. The plan from here

1. Memory: pools, kept blocks, the count of a shared record; the poison and
   reset of a monitor; the registry of gates; the slots of `Exec`.
2. Pure algorithms against a reference: the sort, the hash table.
3. Proofs: the safety of what these add, with the lemmas on rings and heaps that
   are there; what of `ImplementsMonitor` is left when memory may run out.
