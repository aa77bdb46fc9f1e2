------------------------------- MODULE Poller -------------------------------
(***************************************************************************)
(* The poller (runtime/m9rt.c:4388): one thread that waits in epoll for    *)
(* the descriptors and the earliest of the timers on which tasks have      *)
(* parked.                                                                 *)
(*                                                                         *)
(* m9_poll_mu guards the heap of timers; a task's section under it is one  *)
(* step, the poller's long one is cut at each wake, since a woken task may *)
(* run on at once, and park again as far as the lock.  epoll keeps one     *)
(* registration for each descriptor, with the task it was last made for.   *)
(* The clock counts milliseconds.  Positions in the heap begin at 1, and   *)
(* hidx 0 is "not in it".                                                  *)
(*                                                                         *)
(* Left out: kqueue, the poller that cannot be started (every call is then *)
(* refused), a wait that a signal cuts short (it only looks early), and a  *)
(* batch that is full, for 256 descriptors.                                *)
(***************************************************************************)
EXTENDS Integers, Sequences, FiniteSets

CONSTANTS
  Tasks,     (* the tasks that sleep and wait                              *)
  Fds,       (* the descriptors                                            *)
  Ways,      (* what is waited for: to read, to write                      *)
  None,      (* no descriptor (the call is a sleep), no task               *)
  Asks,      (* what each task waits for, when it does: fd, way, limit     *)
  FirstCap,  (* the first size of the heap, 64 in the code                 *)
  IntMax,    (* the largest int                                            *)
  MaxTime    (* bound: the clock                                           *)

ASSUME PollerAssumption ==
  /\ IsFiniteSet(Tasks) /\ None \notin Tasks \cup Fds
  /\ Asks \in [Tasks -> SUBSET [fd: Fds \cup {None}, way: Ways \cup {None}, limit: Nat \cup {-1}]]
  /\ \A t \in Tasks : \A a \in Asks[t] :
       (a.fd = None) = (a.way = None) /\ (a.fd = None => a.limit # -1)
  /\ {FirstCap, IntMax} \subseteq Nat \ {0} /\ MaxTime \in Nat

NoLimit == -1

VARIABLES
  now,      (* CLOCK_MONOTONIC                                             *)
  ready,    (* the descriptors that are readable, or writable              *)
  reg,      (* epoll: each descriptor's registration                       *)
  kicked,   (* epoll: the eventfd was written                              *)
  heap,     (* m9_timers: [at, t]                                          *)
  cap,      (* m9_captimers                                                *)
  pending,  (* m9_pending                                                  *)
  task,     (* each m9_task: where it is, pfd, hidx, pwhy                  *)
  call,     (* each call's fd, way and at; history: its descriptor came    *)
  poller,   (* m9_poller: where it is, until when it waits, evs (kick: the
               eventfd is among them), now, the task it is waking and what
               is still to do for it; history: over, its wait is endless
               for an overflow                                             *)
  robbed    (* history: who waits for a descriptor registered for another,
               or for none                                                 *)

vars == <<now, ready, reg, kicked, heap, cap, pending, task, call, poller, robbed>>

Unregistered == [t |-> None, way |-> None, armed |-> FALSE]
NoCall == [fd |-> None, way |-> None, at |-> NoLimit, came |-> FALSE]
Planning == [pc |-> "plan", until |-> NoLimit, over |-> FALSE, evs |-> {}, kick |-> FALSE,
             now |-> 0, waking |-> None, todo |-> <<>>]

Init ==
  /\ now = 0 /\ ready = {} /\ kicked = FALSE
  /\ reg = [fd \in Fds |-> Unregistered]
  /\ heap = <<>> /\ cap = 0 /\ pending = 0
  /\ task = [t \in Tasks |-> [st |-> "run", pfd |-> None, hidx |-> 0, why |-> "none"]]
  /\ call = [t \in Tasks |-> NoCall]
  /\ poller = Planning
  /\ robbed = {}

-----------------------------------------------------------------------------
(* The heap.  Its operators take and answer the timers h and the tasks'    *)
(* places x; what m9_heap_set writes, it writes in both.                   *)

(* The places that a timer passes on its way from i: the least set with i  *)
(* that step leads out of nowhere.                                         *)
Path(i, step) ==
  LET closed == {S \in SUBSET DOMAIN step : i \in S /\ \A k \in S : step[k] \in S}
  IN {j \in DOMAIN step : \A S \in closed : j \in S}

(* The timer at i goes to the end of its path, each other one step back.   *)
Sift(h, x, i, step) ==
  LET path == Path(i, step)
      g == [j \in DOMAIN h |-> IF j \notin path THEN h[j]
                               ELSE IF step[j] = j THEN h[i] ELSE h[step[j]]]
  IN [h |-> g,
      x |-> [t \in Tasks |-> IF \E j \in path : g[j].t = t
                             THEN CHOOSE j \in path : g[j].t = t ELSE x[t]]]

(* m9_heap_up: h[i] goes up while its parent is later. *)
Up(h, x, i) ==
  Sift(h, x, i, [j \in DOMAIN h |-> IF j > 1 /\ h[j \div 2].at > h[i].at THEN j \div 2 ELSE j])

(* m9_heap_down: h[i] goes down while its earlier child is earlier. *)
Child(h, j) == IF 2 * j + 1 <= Len(h) /\ h[2 * j + 1].at < h[2 * j].at THEN 2 * j + 1 ELSE 2 * j

Down(h, x, i) ==
  Sift(h, x, i, [j \in DOMAIN h |->
                   IF 2 * j <= Len(h) /\ h[Child(h, j)].at < h[i].at THEN Child(h, j) ELSE j])

HeapAdd(h, x, t, at) == Up(Append(h, [at |-> at, t |-> t]), x, Len(h) + 1)

(* Mutant: the last timer, put in the gap, stays there. *)
Refill(h, x, i) ==
  LET n == Len(h) - 1 IN
  IF i > n THEN [h |-> SubSeq(h, 1, n), x |-> x]
  ELSE [h |-> [SubSeq(h, 1, n) EXCEPT ![i] = h[n + 1]], x |-> [x EXCEPT ![h[n + 1].t] = i]]
HeapDel_NoDown(h, x, t) ==
  IF x[t] = 0 THEN [h |-> h, x |-> x]
  ELSE LET r == Refill(h, [x EXCEPT ![t] = 0], x[t]) IN
       IF x[t] > Len(r.h) THEN r ELSE Up(r.h, r.x, x[t])
HeapDel(h, x, t) ==
  IF x[t] = 0 THEN [h |-> h, x |-> x]
  ELSE LET r == Refill(h, [x EXCEPT ![t] = 0], x[t])
           u == Up(r.h, r.x, x[t])
       IN IF x[t] > Len(r.h) THEN r ELSE Down(u.h, u.x, u.x[u.h[x[t]].t])

-----------------------------------------------------------------------------
(* The tasks. *)

Places == [t \in Tasks |-> task[t].hidx]
PlacedIn(x) == [t \in Tasks |-> [task[t] EXCEPT !.hidx = x[t]]]

Unlocked == poller.pc \in {"plan", "wait", "got"}

(* m9_task_wait_fd or m9_task_sleep, as far as the lock. *)
Call(t) ==
  /\ task[t].st = "run"
  /\ \E a \in Asks[t] :
       /\ now + a.limit < MaxTime
       /\ call' = [call EXCEPT ![t] =
                     [fd |-> a.fd, way |-> a.way, came |-> FALSE,
                      at |-> IF a.limit = NoLimit THEN NoLimit ELSE now + a.limit]]
  /\ task' = [task EXCEPT ![t].st = "enter", ![t].pfd = None, ![t].hidx = 0]
  /\ pending' = pending + 1
  /\ UNCHANGED <<now, ready, reg, kicked, heap, cap, poller, robbed>>

(* The heap's size once the timer is in.  Mutant: it does not grow. *)
Grown_Not(n) == cap
Grown(n) == IF n < cap THEN cap ELSE IF cap < FirstCap THEN FirstCap ELSE 2 * cap

(* m9_heap_add, when the call has a deadline. *)
Timed(t) == call[t].at # NoLimit
Added(t) == IF Timed(t) THEN HeapAdd(heap, Places, t, call[t].at) ELSE [h |-> heap, x |-> Places]
CapWith(t) == IF Timed(t) THEN Grown(Len(heap)) ELSE cap

(* The call answers -1 when there is no memory for a larger heap ...       *)
Fail(t, x) ==
  /\ task' = [PlacedIn(x) EXCEPT ![t].st = "run"]
  /\ call' = [call EXCEPT ![t] = NoCall]
  /\ pending' = pending - 1
  /\ UNCHANGED <<now, ready, reg, kicked, poller, robbed>>

NoMemory(t) ==
  /\ task[t].st = "enter" /\ Unlocked
  /\ Timed(t) /\ Len(heap) = cap
  /\ Fail(t, Places)
  /\ UNCHANGED <<heap, cap>>

(* ... and when epoll refuses the descriptor: the timer is taken out again. *)
NoEpoll(t) ==
  /\ task[t].st = "enter" /\ Unlocked
  /\ call[t].fd # None
  /\ LET a == Added(t)
         r == HeapDel(a.h, a.x, t)
     IN heap' = r.h /\ Fail(t, r.x)
  /\ cap' = CapWith(t)

(* Who waits for a descriptor's event that will not come once its          *)
(* registration is replaced or deleted by task t.                          *)
Robs(t, fd) == robbed' = robbed \cup {u \in Tasks \ {t} : reg[fd].armed /\ reg[fd].t = u}

(* The descriptor is registered (MOD, or ADD when there is none), and the  *)
(* poller is kicked if the earliest deadline moved.  Mutant: it is not.    *)
Kicks_Never(x, t) == FALSE
Kicks(x, t) == x[t] = 1

Park(t) ==
  /\ task[t].st = "enter" /\ Unlocked
  /\ LET r  == Added(t)
         fd == call[t].fd
     IN /\ heap' = r.h
        /\ task' = [PlacedIn(r.x) EXCEPT ![t].st = "parked", ![t].pfd = fd]
        /\ kicked' = (kicked \/ Kicks(r.x, t))
        /\ IF fd = None THEN UNCHANGED <<reg, robbed>>
           ELSE /\ reg' = [reg EXCEPT ![fd] = [t |-> t, way |-> call[t].way, armed |-> TRUE]]
                /\ Robs(t, fd)
  /\ cap' = CapWith(t)
  /\ call' = [call EXCEPT ![t].came = <<call[t].fd, call[t].way>> \in ready]
  /\ UNCHANGED <<now, ready, pending, poller>>

(* The task is run again and the call answers pwhy. *)
Return(t) ==
  /\ task[t].st = "ready"
  /\ task' = [task EXCEPT ![t].st = "run", ![t].why = "none"]
  /\ call' = [call EXCEPT ![t] = NoCall]
  /\ robbed' = robbed \ {t}
  /\ UNCHANGED <<now, ready, reg, kicked, heap, cap, pending, poller>>

-----------------------------------------------------------------------------
(* The poller's thread. *)

(* (int) of a count of milliseconds, in two's complement. *)
AsInt(n) == ((n + IntMax + 1) % (2 * (IntMax + 1))) - (IntMax + 1)

(* The timeout, until the earliest deadline; a negative one is endless.    *)
Plan ==
  /\ poller.pc = "plan"
  /\ LET d  == heap[1].at - now
         ms == IF heap = <<>> THEN -1 ELSE IF d <= 0 THEN 0 ELSE AsInt(d + 1)
     IN poller' = [poller EXCEPT !.pc = "wait",
                                 !.until = IF ms < 0 THEN NoLimit ELSE now + ms,
                                 !.over = heap # <<>> /\ ms < 0]
  /\ UNCHANGED <<now, ready, reg, kicked, heap, cap, pending, task, call, robbed>>

(* epoll_wait answers what is ready, disarmed; or nothing, at its limit.   *)
Came == {fd \in Fds : reg[fd].armed /\ <<fd, reg[fd].way>> \in ready}
Answers == kicked \/ Came # {} \/ (poller.until # NoLimit /\ poller.until <= now)
Wait ==
  /\ poller.pc = "wait" /\ Answers
  /\ poller' = [Planning EXCEPT !.pc = "got", !.evs = {reg[fd].t : fd \in Came}, !.kick = kicked]
  /\ reg' = [fd \in Fds |-> [reg[fd] EXCEPT !.armed = @ /\ fd \notin Came]]
  /\ UNCHANGED <<now, ready, kicked, heap, cap, pending, task, call, robbed>>

(* The lock is taken; a kick that came with the batch is read off.         *)
Lock ==
  /\ poller.pc = "got"
  /\ poller' = [poller EXCEPT !.pc = "events", !.kick = FALSE]
  /\ kicked' = (kicked /\ ~poller.kick)
  /\ UNCHANGED <<now, ready, reg, heap, cap, pending, task, call, robbed>>

(* m9_poll_wake as far as m9_task_ready: the timer is removed, and after a *)
(* deadline the descriptor's registration.  Mutant: that one stays.        *)
Deregister_Not(t, why) == UNCHANGED <<reg, robbed>>
Deregister(t, why) ==
  IF why = "deadline" /\ task[t].pfd # None
  THEN reg' = [reg EXCEPT ![task[t].pfd] = Unregistered] /\ Robs(t, task[t].pfd)
  ELSE UNCHANGED <<reg, robbed>>

Forget(t, why) ==
  LET r == HeapDel(heap, Places, t) IN
  /\ heap' = r.h
  /\ task' = [PlacedIn(r.x) EXCEPT ![t].pfd = None, ![t].why = why]
  /\ Deregister(t, why)

(* m9_task_ready, then m9_pending goes down.  Mutant: the other order. *)
WakeOrder_Swapped == <<"settle", "ready">>
WakeOrder == <<"ready", "settle">>

Waking(t) == poller' = [poller EXCEPT !.waking = t, !.todo = WakeOrder, !.evs = @ \ {t}]

Wake ==
  /\ poller.waking # None
  /\ IF Head(poller.todo) = "ready"
     THEN task' = [task EXCEPT ![poller.waking].st = "ready"] /\ UNCHANGED pending
     ELSE pending' = pending - 1 /\ UNCHANGED task
  /\ poller' = [poller EXCEPT !.todo = Tail(@),
                              !.waking = IF Len(poller.todo) = 1 THEN None ELSE @]
  /\ UNCHANGED <<now, ready, reg, kicked, heap, cap, call, robbed>>

(* (A batch has two events of one task only under kqueue.) *)
Event(t) ==
  /\ poller.pc = "events" /\ poller.waking = None /\ t \in poller.evs
  /\ IF task[t].pfd = None
     THEN poller' = [poller EXCEPT !.evs = @ \ {t}] /\ UNCHANGED <<heap, task, reg, robbed>>
     ELSE Forget(t, "event") /\ Waking(t)
  /\ UNCHANGED <<now, ready, kicked, cap, pending, call>>

EventsDone ==
  /\ poller.pc = "events" /\ poller.waking = None /\ poller.evs = {}
  /\ poller' = [poller EXCEPT !.pc = "timers", !.now = now]
  /\ UNCHANGED <<now, ready, reg, kicked, heap, cap, pending, task, call, robbed>>

Timer ==
  /\ poller.pc = "timers" /\ poller.waking = None
  /\ IF heap # <<>> /\ heap[1].at <= poller.now
     THEN Forget(heap[1].t, "deadline") /\ Waking(heap[1].t)
     ELSE poller' = Planning /\ UNCHANGED <<heap, task, reg, robbed>>
  /\ UNCHANGED <<now, ready, kicked, cap, pending, call>>

PollerNext ==
  Plan \/ Wait \/ Lock \/ (\E t \in Tasks : Event(t)) \/ EventsDone \/ Timer \/ Wake

-----------------------------------------------------------------------------
(* The world.  A descriptor ceases to be ready when a task reads or writes *)
(* it; one is closed only when no task is in a call for it.                *)

Tick ==
  /\ now < MaxTime /\ now' = now + 1
  /\ UNCHANGED <<ready, reg, kicked, heap, cap, pending, task, call, poller, robbed>>

Arrive(fd, way) ==
  /\ <<fd, way>> \notin ready
  /\ ready' = ready \cup {<<fd, way>>}
  /\ call' = [t \in Tasks |->
               [call[t] EXCEPT !.came = @ \/ (task[t].st = "parked" /\ call[t].fd = fd /\ call[t].way = way)]]
  /\ UNCHANGED <<now, reg, kicked, heap, cap, pending, task, poller, robbed>>

Drain(fd, way) ==
  /\ <<fd, way>> \in ready /\ \E t \in Tasks : task[t].st = "run"
  /\ ready' = ready \ {<<fd, way>>}
  /\ UNCHANGED <<now, reg, kicked, heap, cap, pending, task, call, poller, robbed>>

Close(fd) ==
  /\ reg[fd] # Unregistered /\ \A t \in Tasks : call[t].fd # fd
  /\ reg' = [reg EXCEPT ![fd] = Unregistered]
  /\ ready' = {r \in ready : r[1] # fd}
  /\ UNCHANGED <<now, kicked, heap, cap, pending, task, call, poller, robbed>>

World == Tick \/ \E fd \in Fds : Close(fd) \/ \E way \in Ways : Arrive(fd, way) \/ Drain(fd, way)

TaskNext(t) == Call(t) \/ NoMemory(t) \/ NoEpoll(t) \/ Park(t) \/ Return(t)

Next == PollerNext \/ World \/ \E t \in Tasks : TaskNext(t)

Spec == Init /\ [][Next]_vars

(* The kernel runs the poller, whose every step changes its own state and  *)
(* is possible but in epoll_wait (this is weak fairness of PollerNext with *)
(* its ENABLED spelled out); and time passes.  Programs, descriptors and   *)
(* the carriers that run a woken task owe nothing here.                    *)
PollerRuns == []<>(poller.pc = "wait" /\ ~Answers) \/ []<><<PollerNext>>_poller

FairSpec == Spec /\ PollerRuns /\ WF_vars(Tick)

-----------------------------------------------------------------------------
TypeOK ==
  /\ now \in 0 .. MaxTime /\ ready \subseteq Fds \X Ways /\ kicked \in BOOLEAN
  /\ reg \in [Fds -> [t: Tasks \cup {None}, way: Ways \cup {None}, armed: BOOLEAN]]
  /\ heap \in Seq([at: 0 .. MaxTime, t: Tasks]) /\ Len(heap) <= cap /\ cap \in Nat
  /\ pending \in 0 .. Cardinality(Tasks) + 1
  /\ task \in [Tasks -> [st: {"run", "enter", "parked", "ready"}, pfd: Fds \cup {None},
                         hidx: 0 .. Len(heap), why: {"none", "event", "deadline"}]]
  /\ call \in [Tasks -> [fd: Fds \cup {None}, way: Ways \cup {None}, at: -1 .. MaxTime,
                         came: BOOLEAN]]
  /\ poller.pc \in {"plan", "wait", "got", "events", "timers"}
  /\ poller.evs \subseteq Tasks /\ poller.waking \in Tasks \cup {None}
  /\ robbed \subseteq Tasks

Parked(t) == task[t].st = "parked"

(* The heap is in order and every task knows its place in it, whatever was *)
(* taken out of its middle; it holds the timer of every parked task that   *)
(* has a deadline, and no other: no stale timer is left (m9rt.c:4396).     *)
HeapRight ==
  /\ \A i \in 2 .. Len(heap) : heap[i \div 2].at <= heap[i].at
  /\ \A i \in DOMAIN heap : task[heap[i].t].hidx = i /\ heap[i].at = call[heap[i].t].at
  /\ {heap[i].t : i \in DOMAIN heap} = {t \in Tasks : Parked(t) /\ Timed(t) /\ t # poller.waking}

(* A parked task counts in m9_pending until it is in a run queue, so that  *)
(* the deadlock test never meets it as neither (m9rt.c:4514).              *)
NeverNeither == pending >= Cardinality({t \in Tasks : Parked(t)})

(* Each call is woken once, for a reason that is true of that very call.   *)
Seen(t) == CASE Parked(t) -> "waiting" [] task[t].st = "ready" -> "woken" [] OTHER -> "out"
Promise == INSTANCE PollerSpec WITH
  st   <- [t \in Tasks |-> Seen(t)],
  call <- [t \in Tasks |-> IF Seen(t) = "out" THEN NoCall ELSE call[t]],
  why  <- [t \in Tasks |-> IF Seen(t) = "woken" THEN task[t].why ELSE "none"]
ImplementsPoller == Promise!Spec

(* No parked task stays due for ever: its deadline is kept, and a          *)
(* descriptor that stays ready wakes it (m9rt.c:4400).                     *)
(* There are two exceptions.  A wait of more than IntMax ms turns endless, *)
(* and nobody's deadline is kept until something else ends it (over); and  *)
(* of two tasks that wait for one descriptor one may be robbed of it.      *)
Due(t) ==
  /\ Parked(t)
  /\ \/ Timed(t) /\ ~poller.over
     \/ <<call[t].fd, call[t].way>> \in ready /\ t \notin robbed
Woken == \A t \in Tasks : []<>~Due(t)
=============================================================================
