------------------------------- MODULE Sched -------------------------------
(***************************************************************************)
(* The task scheduler of the runtime (runtime/m9rt.c, "TASK: many small    *)
(* tasks on a few carriers").  A carrier is an OS thread that runs tasks:  *)
(* carrier 1 is the main thread, the others are workers.  A task that      *)
(* waits calls m9_task_sched on its own stack, which picks the next task   *)
(* from the carrier's runnext slot, its queue, or another carrier's queue, *)
(* and otherwise switches to the carrier's idle task g0, which spins for   *)
(* work and then sleeps.  Tasks are made ready by tasks, by the poller     *)
(* thread (timers, descriptors) and by a THREAD; the monitor thread hands  *)
(* on the work queued behind a carrier that does not switch, and runs the  *)
(* deadlock test while every carrier sleeps.                               *)
(*                                                                         *)
(* Atomicity: a section under a carrier's mutex is one step, but           *)
(* m9_carrier_sleep keeps its own mutex over several (Locked).  Each       *)
(* atomic counter read outside a lock is a step of its own.                *)
(***************************************************************************)
EXTENDS Integers, FiniteSets, Sequences, FiniteSetsExt, SequencesExt

CONSTANTS
  Tasks,          \* the tasks, Root among them
  Root,           \* the module body: a task on the main thread's own stack
  Holders,        \* the tasks that may hold a locked monitor while they wait
  Joined,         \* how many carriers have joined at the start
  MaxCarriers,    \* M9_CARRIERS_MAX
  Spins,          \* M9_TASK_SPINS
  StealMax,       \* M9_STEAL_MAX
  Budgets,        \* bounds: operations (wakes, starts, yields, parks in the
                  \* poller), of them parks, and whether a THREAD is alive
  Poller, Thread, Overseer,   \* m9_poller, one THREAD, m9_monitor
  None

ASSUME SchedAssumption ==
  /\ IsFiniteSet(Tasks) /\ Root \in Tasks /\ Holders \subseteq Tasks /\ None \notin Tasks
  /\ Joined \in 1 .. MaxCarriers /\ MaxCarriers \in Nat
  /\ Spins \in Nat /\ Spins >= 3 /\ StealMax \in Nat \ {0}
  /\ Budgets \subseteq [ops : Nat, polls : Nat, thread : BOOLEAN]
  /\ Poller # Thread /\ Poller # Overseer /\ Thread # Overseer
  /\ {Poller, Thread, Overseer} \cap (1 .. MaxCarriers) = {}

Carriers == 1 .. MaxCarriers
Procs == Carriers \cup {Poller, Thread, Overseer}
Pushers == Procs \ {Overseer}

VARIABLES
  state, home, pinned, onstack,        \* of each m9_task
  rq, runnext, cur, left, sleeping,    \* of each m9_carrier; g0 is None in cur
  spins,          \* m9_task_sched's count of looks, of each carrier's g0
  handed,         \* m9_carrier.handed: its stall has been handed on
  ncars, nidle, nspin, pending,        \* the counters of those names
  alive,          \* m9_threads_alive # 0: the THREAD has not ended
  quiet,          \* m9_monitor's count of quiet looks
  pc,             \* where each OS thread is
  hand,           \* the tasks it holds in locals: taken, not yet queued or run
  look,           \* the carriers it has still to look at in a loop
  aim,            \* the sleeper m9_wake_idle has picked
  ops,            \* operations left (bound)
  polls,          \* parks in the poller left (bound)
  aborted,        \* m9_task_deadlock has stopped the program
  short           \* history: a stall's one hand-off was spent, or failed

taskVars == <<state, home, pinned, onstack>>
queues == <<rq, runnext>>
stacks == <<cur, left>>
counters == <<ncars, nidle, nspin, pending>>
bounds == <<ops, polls>>
rest == <<alive, quiet, aborted, short>>
vars == <<taskVars, queues, stacks, sleeping, spins, handed, counters, pc, hand,
          look, aim, bounds, rest>>

Goto(p, where) == pc' = [pc EXCEPT ![p] = where]

\* m9_cars[0 .. m9_ncars - 1].
Cars == 1 .. ncars

\* A root, or a task that holds a locked monitor: no other carrier takes it.
Stays(t) == t = Root \/ pinned[t]

\* m9_carrier_sleep holds its carrier's mutex while it asks m9_all_quiet.
Locked == {"pending", "count", "cars"}
MutexFree(c) == pc[c] \notin Locked

Sleepers == {c \in Cars : sleeping[c]}

\* m9_queued.
Queued(c) == rq[c] # <<>> \/ runnext[c] # None

\* A task in WAIT or at a monitor's entrance, or not yet started, that no
\* waker has taken yet.
Wakeable(t) ==
  /\ state[t] \in {"WAIT", "NEW"}
  /\ \A p \in Procs : ~Contains(hand[p], t)

\* Where a thread goes on when m9_rq_push returns.
Back(p) ==
  CASE p = Poller -> "settle"
    [] p = Thread -> "free"
    [] p = Overseer -> "watch"
    [] OTHER -> IF state[cur[p]] = "RUN" THEN "user" ELSE "sched"

Init ==
  /\ state = [t \in Tasks |-> IF t = Root THEN "RUN" ELSE "NEW"]
  /\ home = [t \in Tasks |-> 1]
  /\ pinned = [t \in Tasks |-> FALSE]
  /\ onstack = [t \in Tasks |-> t = Root]
  /\ rq = [c \in Carriers |-> <<>>] /\ runnext = [c \in Carriers |-> None]
  /\ cur = [c \in Carriers |-> IF c = 1 THEN Root ELSE None]
  /\ left = [c \in Carriers |-> None]
  /\ sleeping = [c \in Carriers |-> FALSE] /\ handed = [c \in Carriers |-> FALSE]
  /\ ncars = Joined /\ nidle = 0 /\ nspin = 0 /\ pending = 0
  /\ spins = [c \in Carriers |-> 0]
  /\ look = [p \in Procs |-> {}] /\ aim = [p \in Procs |-> None]
  /\ \E b \in Budgets : ops = b.ops /\ polls = b.polls /\ alive = b.thread
  /\ quiet = 0
  /\ pc = [p \in Procs |-> CASE p = 1 -> "user"
                             [] p \in 2 .. Joined -> "sched"
                             [] p \in Joined + 1 .. MaxCarriers -> "unborn"
                             [] p = Overseer -> "watch"
                             [] OTHER -> "free"]
  /\ hand = [p \in Procs |-> <<>>]
  /\ aborted = FALSE /\ short = FALSE

-----------------------------------------------------------------------------
(* The code of a task.  It may run for ever; what it calls here it calls   *)
(* while it is the running task of c.  `held` is m9_nheld > 0.              *)

InTask(c) == pc[c] = "user" /\ cur[c] # None

\* m9_task_ready from a task: the woken task takes the carrier's runnext
\* slot, and the one it displaces is queued; one that may not move is
\* queued at home.  A TASK statement (m9_task_start2) readies a new task so.
Ready(c, t) ==
  /\ InTask(c) /\ ops > 0 /\ Wakeable(t)
  /\ ops' = ops - 1
  /\ short' = (short \/ handed[c])
  /\ IF Stays(t)
     THEN /\ hand' = [hand EXCEPT ![c] = <<t>>]
          /\ Goto(c, "push")
          /\ UNCHANGED <<state, home, runnext>>
     ELSE /\ state' = [state EXCEPT ![t] = "READY"]
          /\ home' = [home EXCEPT ![t] = c]
          /\ runnext' = [runnext EXCEPT ![c] = t]
          /\ IF runnext[c] = None
             THEN UNCHANGED <<hand, pc>>
             ELSE hand' = [hand EXCEPT ![c] = <<runnext[c]>>] /\ Goto(c, "push")
  /\ UNCHANGED <<pinned, onstack, rq, stacks, sleeping, spins, handed, counters,
                 look, aim, polls, alive, quiet, aborted>>

\* The running task parks in WAIT or at a monitor's entrance (m9_mon_wait,
\* m9_mon_take): it is on the monitor's queue before it leaves its stack.
Wait(c, held) ==
  /\ InTask(c)
  /\ state' = [state EXCEPT ![cur[c]] = "WAIT"]
  /\ pinned' = [pinned EXCEPT ![cur[c]] = held]
  /\ Goto(c, "sched")
  /\ UNCHANGED <<home, onstack, queues, stacks, sleeping, spins, handed, counters,
                 hand, look, aim, bounds, rest>>

\* m9_task_park_poll: a task that sleeps or waits for a descriptor.
Poll(c, held) ==
  /\ InTask(c) /\ ops > 0 /\ polls > 0
  /\ ops' = ops - 1 /\ polls' = polls - 1
  /\ state' = [state EXCEPT ![cur[c]] = "POLL"]
  /\ pinned' = [pinned EXCEPT ![cur[c]] = held]
  /\ pending' = pending + 1
  /\ Goto(c, "sched")
  /\ UNCHANGED <<home, onstack, queues, stacks, sleeping, spins, handed, ncars,
                 nidle, nspin, hand, look, aim, rest>>

\* m9_task_yield: to the back of its own carrier's queue.
Yield(c, held) ==
  /\ InTask(c) /\ ops > 0
  /\ ops' = ops - 1
  /\ state' = [state EXCEPT ![cur[c]] = "READY"]
  /\ pinned' = [pinned EXCEPT ![cur[c]] = held]
  /\ hand' = [hand EXCEPT ![c] = <<cur[c]>>]
  /\ Goto(c, "push")
  /\ UNCHANGED <<home, onstack, queues, stacks, sleeping, spins, handed, counters,
                 look, aim, polls, rest>>

\* The end of m9_task_body: the task ends on its own stack.
End(c) ==
  /\ InTask(c) /\ cur[c] # Root
  /\ state' = [state EXCEPT ![cur[c]] = "DONE"]
  /\ Goto(c, "sched")
  /\ UNCHANGED <<home, pinned, onstack, queues, stacks, sleeping, spins, handed,
                 counters, hand, look, aim, bounds, rest>>

-----------------------------------------------------------------------------
(* m9_rq_push and m9_wake_idle, by a carrier, the poller or a THREAD.      *)

\* Under the mutex of the task's home: append, and signal a sleeper.
Push(p) ==
  LET t == hand[p][1]
      c == home[t]
  IN /\ pc[p] = "push" /\ MutexFree(c)
     /\ rq' = [rq EXCEPT ![c] = Append(@, t)]
     /\ state' = [state EXCEPT ![t] = "READY"]
     /\ hand' = [hand EXCEPT ![p] = <<>>]
     /\ pc' = IF sleeping[c]
              THEN [pc EXCEPT ![p] = Back(p), ![c] = "woken"]
              ELSE [pc EXCEPT ![p] = IF Stays(t) THEN Back(p) ELSE "ask"]
     /\ UNCHANGED <<home, pinned, onstack, runnext, stacks, sleeping, spins, handed,
                    counters, look, aim, bounds, rest>>

\* Nobody is woken while a carrier spins: it will find the task.
AskSpinners(p) ==
  /\ pc[p] = "ask"
  /\ Goto(p, IF nspin = 0 THEN "pick" ELSE Back(p))
  /\ UNCHANGED <<taskVars, queues, stacks, sleeping, spins, handed, counters, hand,
                 look, aim, bounds, rest>>

PickSleeper(p) ==
  /\ pc[p] = "pick"
  /\ IF nidle > 0 /\ Sleepers # {}
     THEN aim' = [aim EXCEPT ![p] = Min(Sleepers)] /\ Goto(p, "signal")
     ELSE aim' = aim /\ Goto(p, Back(p))
  /\ UNCHANGED <<taskVars, queues, stacks, sleeping, spins, handed, counters, hand,
                 look, bounds, rest>>

\* The sleeper may have woken meanwhile; then nobody is signalled.
Signal(p) ==
  LET v == aim[p]
  IN /\ pc[p] = "signal" /\ MutexFree(v)
     /\ pc' = IF sleeping[v] THEN [pc EXCEPT ![p] = Back(p), ![v] = "woken"]
                             ELSE [pc EXCEPT ![p] = Back(p)]
     /\ aim' = [aim EXCEPT ![p] = None]
     /\ UNCHANGED <<taskVars, queues, stacks, sleeping, spins, handed, counters,
                    hand, look, bounds, rest>>

-----------------------------------------------------------------------------
(* m9_task_sched.                                                          *)

\* The slot first, then the queue (m9_rq_pop).  Only c fills its slot, so
\* that the slot is still empty when the queue is read.
Take(c) ==
  /\ pc[c] \in {"sched", "last"}
  /\ IF pc[c] = "sched" /\ runnext[c] # None
     THEN /\ hand' = [hand EXCEPT ![c] = <<runnext[c]>>]
          /\ runnext' = [runnext EXCEPT ![c] = None]
          /\ Goto(c, "found")
          /\ UNCHANGED <<rq, look>>
     ELSE IF rq[c] # <<>>
     THEN /\ hand' = [hand EXCEPT ![c] = <<Head(rq[c])>>]
          /\ rq' = [rq EXCEPT ![c] = Tail(@)]
          /\ Goto(c, "found")
          /\ UNCHANGED <<runnext, look>>
     ELSE /\ look' = [look EXCEPT ![c] = Cars \ {c}]
          /\ Goto(c, IF pc[c] = "sched" THEN "steal" ELSE "laststeal")
          /\ UNCHANGED <<hand, rq, runnext>>
  /\ UNCHANGED <<taskVars, stacks, sleeping, spins, handed, counters, aim, bounds, rest>>

\* The elements of s at the positions in I, in their order.
Rank(i, I) == Cardinality({j \in I : j <= i})
Pick(s, I) == [k \in 1 .. Cardinality(I) |-> s[CHOOSE i \in I : Rank(i, I) = k]]

\* What m9_steal may take of v's queue, and what it takes: half as many as
\* are queued, and at most StealMax.
CanMove_Pinned(t) == t # Root /\ ~onstack[t]

CanMove(t) == ~Stays(t) /\ ~onstack[t]

Movable(v) == {i \in 1 .. Len(rq[v]) : CanMove(rq[v][i])}
Grab(v) == {i \in Movable(v) : Rank(i, Movable(v)) <= Min({(Len(rq[v]) + 1) \div 2, StealMax})}
Loot(v) == Pick(rq[v], Grab(v))

Left_All(v) == rq[v]

Left(v) == Pick(rq[v], (1 .. Len(rq[v])) \ Grab(v))

Late_Never(c) == spins[c] > Spins

Late(c) == spins[c] > Spins \div 2

\* A late look takes the slot of v, when v keeps the task there for 3 us.
StealSlot(c, v) ==
  /\ pc[c] = "steal" /\ v \in look[c]
  /\ Late(c) /\ runnext[v] # None
  /\ hand' = [hand EXCEPT ![c] = <<runnext[v]>>]
  /\ home' = [home EXCEPT ![runnext[v]] = c]
  /\ runnext' = [runnext EXCEPT ![v] = None]
  /\ Goto(c, "found")
  /\ UNCHANGED <<state, pinned, onstack, rq, stacks, sleeping, spins, handed, counters,
                 look, aim, bounds, rest>>

\* Else half of the queue.  A late look passes a filled slot by only when v
\* is about to switch.
StealQueue(c, v) ==
  /\ pc[c] \in {"steal", "laststeal"} /\ v \in look[c]
  /\ pc[c] = "steal" /\ Late(c) /\ runnext[v] # None => pc[v] # "user"
  /\ IF Loot(v) = <<>>
     THEN look' = [look EXCEPT ![c] = @ \ {v}] /\ UNCHANGED <<home, rq, pc, hand>>
     ELSE /\ hand' = [hand EXCEPT ![c] = Loot(v)]
          /\ rq' = [rq EXCEPT ![v] = Left(v)]
          /\ home' = [home EXCEPT ![Loot(v)[1]] = c]
          /\ Goto(c, IF Len(Loot(v)) > 1 THEN "chain" ELSE "found")
          /\ look' = look
  /\ UNCHANGED <<state, pinned, onstack, runnext, stacks, sleeping, spins, handed,
                 counters, aim, bounds, rest>>

\* m9_rq_push_chain: the rest of the loot goes to c's own queue.
Chain(c) ==
  /\ pc[c] = "chain"
  /\ rq' = [rq EXCEPT ![c] = @ \o Tail(hand[c])]
  /\ home' = [t \in Tasks |-> IF Contains(Tail(hand[c]), t) THEN c ELSE home[t]]
  /\ hand' = [hand EXCEPT ![c] = <<Head(@)>>]
  /\ Goto(c, "found")
  /\ UNCHANGED <<state, pinned, onstack, runnext, stacks, sleeping, spins, handed,
                 counters, look, aim, bounds, rest>>

\* m9_task_go to g0.
ToG0(c) ==
  /\ left' = [left EXCEPT ![c] = cur[c]]
  /\ cur' = [cur EXCEPT ![c] = None]
  /\ handed' = [handed EXCEPT ![c] = FALSE]
  /\ Goto(c, "after")

\* Nothing to run: a task leaves its carrier to g0, ...
ToIdle(c) ==
  /\ pc[c] = "steal" /\ look[c] = {} /\ cur[c] # None
  /\ ToG0(c)
  /\ UNCHANGED <<taskVars, queues, sleeping, spins, counters, hand, look, aim,
                 bounds, rest>>

\* ... which spins, counted in m9_nspin, ...
Spin(c) ==
  /\ pc[c] = "steal" /\ look[c] = {} /\ cur[c] = None
  /\ spins[c] + 1 < Spins
  /\ nspin' = IF spins[c] = 0 THEN nspin + 1 ELSE nspin
  /\ spins' = [spins EXCEPT ![c] = @ + 1]
  /\ Goto(c, "sched")
  /\ UNCHANGED <<taskVars, queues, stacks, sleeping, handed, ncars, nidle, pending,
                 hand, look, aim, bounds, rest>>

\* ... stops counting as a spinner, looks once more, ...
GiveUp(c) ==
  /\ pc[c] = "steal" /\ look[c] = {} /\ cur[c] = None
  /\ spins[c] + 1 = Spins
  /\ nspin' = nspin - 1
  /\ spins' = [spins EXCEPT ![c] = 0]
  /\ Goto(c, "last")
  /\ UNCHANGED <<taskVars, queues, stacks, sleeping, handed, ncars, nidle, pending,
                 hand, look, aim, bounds, rest>>

\* ... and sleeps, unless a task was queued on it meanwhile.
Sleep(c) ==
  /\ pc[c] = "laststeal" /\ look[c] = {}
  /\ IF rq[c] = <<>>
     THEN /\ sleeping' = [sleeping EXCEPT ![c] = TRUE]
          /\ nidle' = nidle + 1
          /\ Goto(c, "pending")
     ELSE Goto(c, "sched") /\ UNCHANGED <<sleeping, nidle>>
  /\ UNCHANGED <<taskVars, queues, stacks, spins, handed, ncars, nspin, pending,
                 hand, look, aim, bounds, rest>>

Wake_Uncounted(c) ==
  /\ pc[c] = "woken"
  /\ sleeping' = [sleeping EXCEPT ![c] = FALSE]
  /\ nidle' = nidle
  /\ Goto(c, "sched")
  /\ UNCHANGED <<taskVars, queues, stacks, spins, handed, ncars, nspin, pending,
                 hand, look, aim, bounds, rest>>

Wake(c) ==
  /\ pc[c] = "woken"
  /\ sleeping' = [sleeping EXCEPT ![c] = FALSE]
  /\ nidle' = nidle - 1
  /\ Goto(c, "sched")
  /\ UNCHANGED <<taskVars, queues, stacks, spins, handed, ncars, nspin, pending,
                 hand, look, aim, bounds, rest>>

StackFree_Always(c, t) == TRUE

\* m9_task_go spins until no other carrier is on the stack of t.
StackFree(c, t) == t = cur[c] \/ ~onstack[t]

\* m9_task_go to the task found, which may be the running one itself, once no
\* other carrier is on its stack.
Go(c) ==
  LET t == hand[c][1]
  IN /\ pc[c] \in {"found", "go"}
     /\ StackFree(c, t)
     /\ state' = [state EXCEPT ![t] = "RUN"]
     /\ home' = [home EXCEPT ![t] = c]
     /\ onstack' = [onstack EXCEPT ![t] = TRUE]
     /\ cur' = [cur EXCEPT ![c] = t]
     /\ left' = [left EXCEPT ![c] = IF t = cur[c] THEN None ELSE cur[c]]
     /\ handed' = [handed EXCEPT ![c] = @ /\ t = cur[c]]
     /\ hand' = [hand EXCEPT ![c] = <<>>]
     /\ nspin' = IF spins[c] > 0 THEN nspin - 1 ELSE nspin
     /\ spins' = [spins EXCEPT ![c] = 0]
     /\ Goto(c, IF cur[c] \in {None, t} THEN "user" ELSE "after")
     /\ UNCHANGED <<pinned, queues, sleeping, ncars, nidle, pending, look, aim,
                    bounds, rest>>

\* Only g0 waits for a stack, and it does not count as a spinner then: two
\* carriers each on a task the other has picked would wait for ever.
WaitStack(c) ==
  /\ pc[c] = "found" /\ cur[c] = None /\ onstack[hand[c][1]]
  /\ nspin' = IF spins[c] > 0 THEN nspin - 1 ELSE nspin
  /\ spins' = [spins EXCEPT ![c] = 0]
  /\ Goto(c, "go")
  /\ UNCHANGED <<taskVars, queues, stacks, sleeping, handed, ncars, nidle, pending,
                 hand, look, aim, bounds, rest>>

\* A task puts it back in its carrier's slot and leaves its stack to g0.
PutBack(c) ==
  LET t == hand[c][1]
  IN /\ pc[c] = "found" /\ cur[c] \notin {None, t} /\ onstack[t]
     /\ runnext' = [runnext EXCEPT ![c] = t]
     /\ hand' = [hand EXCEPT ![c] = <<>>]
     /\ ToG0(c)
     /\ UNCHANGED <<taskVars, rq, sleeping, spins, counters, look, aim, bounds, rest>>

\* m9_task_after: the stack c has left may now be run elsewhere, or is freed.
After(c) ==
  /\ pc[c] = "after"
  /\ onstack' = [onstack EXCEPT ![left[c]] = FALSE]
  /\ left' = [left EXCEPT ![c] = None]
  /\ Goto(c, IF cur[c] = None THEN "sched" ELSE "user")
  /\ UNCHANGED <<state, home, pinned, queues, cur, sleeping, spins, handed, counters,
                 hand, look, aim, bounds, rest>>

-----------------------------------------------------------------------------
(* m9_all_quiet, by a carrier about to sleep and by the monitor thread.    *)

Noise(p) ==
  /\ Goto(p, IF p = Overseer THEN "watch" ELSE "asleep")
  /\ quiet' = IF p = Overseer THEN 0 ELSE quiet

ReadPending(p) ==
  /\ pc[p] = "pending"
  /\ IF alive \/ pending # 0
     THEN Noise(p) /\ look' = look
     ELSE /\ Goto(p, "count")
          /\ look' = [look EXCEPT ![p] = Cars]
          /\ quiet' = quiet
  /\ UNCHANGED <<taskVars, queues, stacks, sleeping, spins, handed, counters, hand,
                 aim, bounds, alive, aborted, short>>

ReadIdle(p) ==
  /\ pc[p] = "count"
  /\ IF nidle # Cardinality(look[p]) THEN Noise(p) ELSE Goto(p, "cars") /\ quiet' = quiet
  /\ UNCHANGED <<taskVars, queues, stacks, sleeping, spins, handed, counters, hand,
                 look, aim, bounds, alive, aborted, short>>

\* One carrier's queue after another.
ReadQueue(p) ==
  /\ pc[p] = "cars" /\ look[p] # {}
  /\ IF Queued(Min(look[p]))
     THEN Noise(p) /\ look' = [look EXCEPT ![p] = {}]
     ELSE look' = [look EXCEPT ![p] = @ \ {Min(@)}] /\ UNCHANGED <<pc, quiet>>
  /\ UNCHANGED <<taskVars, queues, stacks, sleeping, spins, handed, counters, hand,
                 aim, bounds, alive, aborted, short>>

AllQuiet_Forgets(p) ==
  /\ pc[p] = "cars" /\ look[p] = {}
  /\ IF p = Overseer /\ quiet = 0
     THEN quiet' = 0 /\ Goto(p, "watch") /\ UNCHANGED aborted
     ELSE aborted' = TRUE /\ UNCHANGED <<quiet, pc>>
  /\ UNCHANGED <<taskVars, queues, stacks, sleeping, spins, handed, counters, hand,
                 look, aim, bounds, alive, short>>

\* All quiet: a carrier stops the program at once, the monitor thread when
\* it has seen it twice.
AllQuiet(p) ==
  /\ pc[p] = "cars" /\ look[p] = {}
  /\ IF p = Overseer /\ quiet = 0
     THEN quiet' = 1 /\ Goto(p, "watch") /\ UNCHANGED aborted
     ELSE aborted' = TRUE /\ UNCHANGED <<quiet, pc>>
  /\ UNCHANGED <<taskVars, queues, stacks, sleeping, spins, handed, counters, hand,
                 look, aim, bounds, alive, short>>

-----------------------------------------------------------------------------
(* The poller, a THREAD, and the monitor thread.                           *)

\* m9_poll_wake: a deadline has come or a descriptor is ready.
Fire(t) ==
  /\ pc[Poller] = "free" /\ state[t] = "POLL"
  /\ hand' = [hand EXCEPT ![Poller] = <<t>>]
  /\ Goto(Poller, "push")
  /\ UNCHANGED <<taskVars, queues, stacks, sleeping, spins, handed, counters, look,
                 aim, bounds, rest>>

\* Queued first, then not pending.
Settle ==
  /\ pc[Poller] = "settle"
  /\ pending' = pending - 1
  /\ Goto(Poller, "free")
  /\ UNCHANGED <<taskVars, queues, stacks, sleeping, spins, handed, ncars, nidle,
                 nspin, hand, look, aim, bounds, rest>>

\* m9_worker_start: the next carrier looks for work.
StartWorker == ncars < MaxCarriers /\ ncars' = ncars + 1 /\ Goto(ncars + 1, "sched")

\* A THREAD's TASK statement starts a worker when there is none
\* (m9_task_home).  When it cannot, it fails and changes nothing; it may also
\* fail afterwards, for want of memory, and queue no task.
Hire ==
  /\ alive /\ pc[Thread] = "free" /\ ops > 0 /\ Cars = {1}
  /\ StartWorker
  /\ UNCHANGED <<taskVars, queues, stacks, sleeping, spins, handed, nidle, nspin,
                 pending, hand, look, aim, bounds, rest>>

\* A THREAD is no carrier: it queues a task it wakes at the task's home, and
\* one it starts on a worker.
Call(t) ==
  /\ alive /\ pc[Thread] = "free" /\ ops > 0 /\ Wakeable(t)
  /\ IF state[t] = "NEW"
     THEN \E c \in Cars \ {1} : home' = [home EXCEPT ![t] = c]
     ELSE home' = home
  /\ hand' = [hand EXCEPT ![Thread] = <<t>>]
  /\ ops' = ops - 1
  /\ Goto(Thread, "push")
  /\ UNCHANGED <<state, pinned, onstack, queues, stacks, sleeping, spins, handed,
                 counters, look, aim, polls, rest>>

EndThread ==
  /\ alive /\ pc[Thread] = "free"
  /\ alive' = FALSE
  /\ UNCHANGED <<taskVars, queues, stacks, sleeping, spins, handed, counters, pc,
                 hand, look, aim, bounds, quiet, aborted, short>>

Stalled(c) == ~sleeping[c] /\ Queued(c) /\ ~handed[c]

\* m9_monitor finds c awake with tasks queued and its ticks unmoved.  When
\* its thread is blocked in the kernel a sleeper is woken, or a carrier
\* started if one may be and can, once a stall; when it computes a sleeper is
\* woken if nobody spins.
HandOnBlocked(c) ==
  /\ pc[Overseer] = "watch" /\ c \in Cars /\ Stalled(c) /\ pc[c] = "user"
  /\ handed' = [handed EXCEPT ![c] = TRUE]
  /\ IF nidle > 0
     THEN /\ aim' = [aim EXCEPT ![Overseer] = Min(Sleepers)]
          /\ Goto(Overseer, "signal")
          /\ UNCHANGED <<ncars, short>>
     ELSE /\ \/ StartWorker /\ short' = short
             \/ short' = TRUE /\ UNCHANGED <<ncars, pc>>
          /\ aim' = aim
  /\ UNCHANGED <<taskVars, queues, stacks, sleeping, spins, nidle, nspin, pending,
                 hand, look, bounds, alive, quiet, aborted>>

HandOnBusy(c) ==
  /\ pc[Overseer] = "watch" /\ c \in Cars /\ Stalled(c)
  /\ pc[c] = "user"
  /\ nspin = 0 /\ nidle > 0
  /\ aim' = [aim EXCEPT ![Overseer] = Min(Sleepers)]
  /\ Goto(Overseer, "signal")
  /\ UNCHANGED <<taskVars, queues, stacks, sleeping, spins, handed, counters, hand,
                 look, bounds, rest>>

\* A look at c asleep, or with nothing queued, ends its stall.
Forget(c) ==
  /\ pc[Overseer] = "watch" /\ handed[c]
  /\ sleeping[c] \/ ~Queued(c)
  /\ handed' = [handed EXCEPT ![c] = FALSE]
  /\ UNCHANGED <<taskVars, queues, stacks, sleeping, spins, counters, pc, hand, look,
                 aim, bounds, rest>>

\* Every carrier idle, or not.
Watch ==
  /\ pc[Overseer] = "watch"
  /\ IF nidle = ncars
     THEN Goto(Overseer, "pending") /\ quiet' = quiet
     ELSE quiet' = 0 /\ UNCHANGED pc
  /\ UNCHANGED <<taskVars, queues, stacks, sleeping, spins, handed, counters, hand,
                 look, aim, bounds, alive, aborted, short>>

-----------------------------------------------------------------------------
TaskCode(c) ==
  \/ \E t \in Tasks : Ready(c, t)
  \/ \E held \in {FALSE, cur[c] \in Holders} : Wait(c, held) \/ Poll(c, held) \/ Yield(c, held)
  \/ End(c)

Pushing(p) == Push(p) \/ AskSpinners(p) \/ PickSleeper(p) \/ Signal(p)

Testing(p) == ReadPending(p) \/ ReadIdle(p) \/ ReadQueue(p) \/ AllQuiet(p)

Carrier(c) ==
  \/ Pushing(c) \/ Testing(c)
  \/ Take(c) \/ (\E v \in Carriers : StealSlot(c, v) \/ StealQueue(c, v)) \/ Chain(c)
  \/ ToIdle(c) \/ Spin(c) \/ GiveUp(c) \/ Sleep(c) \/ Wake(c)
  \/ Go(c) \/ WaitStack(c) \/ PutBack(c) \/ After(c)

Looking == Signal(Overseer) \/ Testing(Overseer) \/ Watch

Next ==
  /\ ~aborted
  /\ \/ \E c \in Carriers : TaskCode(c) \/ Carrier(c)
     \/ Pushing(Poller) \/ Settle \/ Pushing(Thread) \/ EndThread \/ Hire
     \/ \E t \in Tasks : Fire(t) \/ Call(t)
     \/ Looking
     \/ \E c \in Carriers : HandOnBlocked(c) \/ HandOnBusy(c) \/ Forget(c)

Spec == Init /\ [][Next]_vars

\* The runtime's threads run on.  A task's code may run for ever, a timer may
\* be far off and a THREAD may sleep: nothing is assumed of them.  A thread
\* that waits for a carrier's mutex gets it, as its holder keeps it for a
\* moment only: strong fairness.
Fairness ==
  /\ \A c \in Carriers : SF_vars(~aborted /\ Carrier(c))
  /\ SF_vars(~aborted /\ (Pushing(Poller) \/ Settle))
  /\ SF_vars(~aborted /\ Pushing(Thread))
  /\ WF_vars(~aborted /\ Looking)
  /\ \A c \in Carriers : WF_vars(~aborted /\ (HandOnBlocked(c) \/ HandOnBusy(c)))

FairSpec == Spec /\ Fairness

-----------------------------------------------------------------------------
States == {"NEW", "RUN", "READY", "WAIT", "POLL", "DONE"}
Points == {"user", "push", "ask", "pick", "signal", "sched", "last", "steal",
           "laststeal", "chain", "found", "go", "after", "asleep", "woken",
           "unborn", "free", "settle", "watch"} \cup Locked

\* Every variable has its type, and the counters of sleepers, spinners and
\* tasks in the poller are what they count: a counter that drifts would stop
\* m9_rq_push from waking anybody, or the deadlock test from ever passing.
TypeOK ==
  /\ state \in [Tasks -> States] /\ home \in [Tasks -> Cars]
  /\ pinned \in [Tasks -> BOOLEAN] /\ onstack \in [Tasks -> BOOLEAN]
  /\ \A c \in Carriers : Range(rq[c]) \subseteq Tasks
  /\ runnext \in [Carriers -> Tasks \cup {None}]
  /\ cur \in [Carriers -> Tasks \cup {None}] /\ left \in [Carriers -> Tasks \cup {None}]
  /\ sleeping \in [Carriers -> BOOLEAN] /\ handed \in [Carriers -> BOOLEAN]
  /\ spins \in [Carriers -> 0 .. Spins - 1]
  /\ ncars \in Joined .. MaxCarriers
  /\ nidle = Cardinality(Sleepers)
  /\ nspin = Cardinality({c \in Carriers : spins[c] > 0})
  /\ pending = Cardinality({t \in Tasks : state[t] = "POLL"})
                 + IF pc[Poller] \in {"ask", "pick", "signal", "settle"} THEN 1 ELSE 0
  /\ pc \in [Procs -> Points]
  /\ \A p \in Procs : Range(hand[p]) \subseteq Tasks /\ look[p] \subseteq Cars
  /\ aim \in [Procs -> Cars \cup {None}]
  /\ ops \in Nat /\ polls \in Nat /\ quiet \in {0, 1}
  /\ {alive, aborted, short} \subseteq BOOLEAN

\* "A task is ON STACK from the moment a carrier switches to it until that
\* carrier has switched away and saved its registers ... and no other carrier
\* takes it in that time" (m9rt.c, TASK): at any moment at most one carrier
\* uses the stack of a task, whoever woke it, stole it or put it back.
OneStack ==
  \A t \in Tasks :
    LET on == {c \in Carriers : t \in {cur[c], left[c]}}
    IN Cardinality(on) <= 1 /\ (onstack[t] <=> on # {})

\* The places that hold t: queues, slots, and the hands of a thread.
Queues(t) == {x \in Carriers \X (1 .. Cardinality(Tasks)) :
                x[2] <= Len(rq[x[1]]) /\ rq[x[1]][x[2]] = t}
Slots(t) == {c \in Carriers : runnext[c] = t}
Hands(t) == {p \in Procs : Contains(hand[p], t)}

\* A ready task is in one place: a place of a queue, a slot, or the hands of
\* the thread that moves it.  In none it would be lost, in two it would run
\* twice.  A task that runs or has ended is in none, and one that is being
\* woken is in the hands of its only waker.
QueuedOnce ==
  \A t \in Tasks :
    LET places == Cardinality(Queues(t)) + Cardinality(Slots(t)) + Cardinality(Hands(t))
    IN CASE state[t] = "READY" -> places = 1
         [] state[t] \in {"RUN", "DONE"} -> places = 0
         [] OTHER -> places = Cardinality(Hands(t)) /\ places <= 1

\* "A task that holds a locked monitor is PINNED.  It parks and wakes on the
\* carrier that locked the mutex, so the same thread unlocks it" (m9rt.c,
\* TASK); and a root never leaves its own.  Go sets home, so no queue, slot
\* or thief may bring such a task to another carrier.
PinnedStays == [][\A t \in Tasks : Stays(t) => home'[t] = home[t]]_vars

AllWait == \A t \in Tasks : state[t] \in {"NEW", "WAIT", "DONE"}

\* The deadlock test stops the program only when every task waits: "EVERY TASK
\* WAITS, AND NOTHING CAN WAKE ONE" (m9_task_deadlock), "a program whose every
\* task waits ... stops by name" (M9-report par 6).  The test reads one counter
\* and one queue after another, while carriers wake and take their tasks.
AbortRightly == aborted => AllWait

\* No ready task is stranded: it leaves the ready state, or every carrier
\* that may run it is in a task's code (again and again, or for ever), or the
\* one hand-off of a stall was spent: it fell on the moment when no carrier
\* slept and none could be started, or the blocked task came back, woke a task
\* and blocked again before the monitor thread looked.  So no wake-up of a
\* sleeping carrier is lost between m9_rq_push, the spinners' last look, the
\* late thief and the monitor thread.
Hosts(t) == IF Stays(t) THEN {home[t]} ELSE Cars

NoneStranded ==
  \A t \in Tasks :
    state[t] = "READY" ~> \/ state[t] # "READY" \/ aborted
                         \/ \A c \in Hosts(t) : pc[c] = "user"
                         \/ short

\* "A program whose every task waits, with no THREAD alive to wake one, stops
\* by name" (M9-report par 6), even when the last THREAD ends after every
\* carrier has gone to sleep.
Deadlocked == AllWait /\ ~alive /\ pending = 0 /\ \A p \in Procs : hand[p] = <<>>
DeadlockFound == Deadlocked ~> aborted
=============================================================================
