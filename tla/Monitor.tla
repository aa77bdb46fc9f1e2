------------------------------ MODULE Monitor ------------------------------
(***************************************************************************)
(* One MONITOR of the m9 runtime, used by TASKs and THREADs together:      *)
(* m9_mon_enter, m9_mon_leave, m9_mon_wait and m9_mon_signal with what     *)
(* they call (runtime/m9rt.h, runtime/m9rt.c).                             *)
(*                                                                         *)
(* A THREAD sleeps in the pthread mutex to enter, and on a word of its own *)
(* in WAIT.  A TASK may not stop its carrier: it queues on tq to enter and *)
(* parks, and whoever makes it ready links it in a run queue.  Every step  *)
(* between two accesses to memory that others may touch is an action of    *)
(* its own; what is done under the mutex to data only its holder touches   *)
(* is one step.  Both sides of the fence pair are sequentially consistent. *)
(*                                                                         *)
(* Left out: the spurious wakes POSIX allows (the word of a waiting THREAD *)
(* is re-read in a loop), how a run queue runs a task (module Sched), and  *)
(* the poisoned mark.                                                      *)
(***************************************************************************)
EXTENDS Naturals, Sequences

CONSTANTS
  Tasks,     (* the processes that run on carriers                         *)
  Threads,   (* the processes with a kernel thread of their own            *)
  MaxOps,    (* bound: enters and waits one process makes                  *)
  MayRunOut, (* TRUE when the heap may have no room for a waiter record    *)
  None       (* nobody                                                     *)

Procs == Tasks \cup Threads

ASSUME MonitorAssumption ==
  /\ Tasks \cap Threads = {}
  /\ None \notin Procs
  /\ MaxOps \in Nat
  /\ MayRunOut \in BOOLEAN

VARIABLES
  pc,      (* where each process is                                        *)
  mu,      (* the pthread mutex: its holder, or None                       *)
  tspin,   (* the spin lock of tq: its holder, or None                     *)
  tq,      (* the tasks queued to enter, oldest first                      *)
  wq,      (* the processes in WAIT that no SIGNAL has released            *)
  pend,    (* THREADs a SIGNAL released, to be woken after the unlock      *)
  mine,    (* the pend a leaver took with it (its local p)                 *)
  got,     (* the task a leaver took off tq (leave_slow's local t)         *)
  runq,    (* how often each task stands in a run queue                    *)
  woken,   (* the word each THREAD sleeps on                               *)
  made,    (* the THREADs that have a waiter record                        *)
  waits,   (* the process unlocked in WAIT, and not to leave               *)
  left     (* enters and waits each process may still make                 *)

vars == <<pc, mu, tspin, tq, wq, pend, mine, got, runq, woken, made, waits, left>>

Init ==
  /\ pc    = [p \in Procs |-> "out"]
  /\ mu    = None
  /\ tspin = None
  /\ tq    = <<>>
  /\ wq    = {}
  /\ pend  = {}
  /\ mine  = [p \in Procs |-> {}]
  /\ got   = [p \in Procs |-> None]
  /\ runq  = [t \in Tasks |-> 0]
  /\ woken = [t \in Threads |-> FALSE]
  /\ made  = {}
  /\ waits = [p \in Procs |-> FALSE]
  /\ left  = [p \in Procs |-> MaxOps]

Inside(p) == pc[p] \in {"body", "told"}

At(p, from) == pc[p] = from
Goto(p, to) == pc' = [pc EXCEPT ![p] = to]
Spend(p)    == left[p] > 0 /\ left' = [left EXCEPT ![p] = @ - 1]

(* A lock attempt that succeeds. *)
Take(p) == mu = None /\ mu' = p /\ Goto(p, "body")
(* A trylock: inside, or on to the slow path at `to`. *)
TryLock(p, to) == Take(p) \/ (mu # None /\ Goto(p, to) /\ UNCHANGED mu)

SlowPath(p) == IF p \in Tasks THEN "spin" ELSE "lock"

-----------------------------------------------------------------------------
(* Entering: m9_mon_enter, m9_mon_enter_slow, m9_mon_take.                 *)

Enter(p) ==
  /\ At(p, "out") /\ Spend(p)
  /\ TryLock(p, SlowPath(p))
  /\ UNCHANGED <<tspin, tq, wq, pend, mine, got, runq, woken, made, waits>>

(* pthread_mutex_lock: to enter, and again after a WAIT. *)
Lock(p) ==
  /\ At(p, "lock") /\ Take(p)
  /\ UNCHANGED <<tspin, tq, wq, pend, mine, got, runq, woken, made, waits, left>>

(* A few tries before parking; each may find the mutex held. *)
Spin(t) ==
  /\ At(t, "spin")
  /\ Take(t) \/ (Goto(t, "link") /\ UNCHANGED mu)
  /\ UNCHANGED <<tspin, tq, wq, pend, mine, got, runq, woken, made, waits, left>>

(* The task goes on tq.  Mutant: it parks without another try. *)
Link_NoRetry(t) ==
  /\ At(t, "link") /\ tspin = None
  /\ tq' = Append(tq, t)
  /\ Goto(t, "parked")
  /\ UNCHANGED <<mu, tspin, wq, pend, mine, got, runq, woken, made, waits, left>>
Link(t) ==
  /\ At(t, "link") /\ tspin = None
  /\ tspin' = t
  /\ tq' = Append(tq, t)
  /\ Goto(t, "try")
  /\ UNCHANGED <<mu, wq, pend, mine, got, runq, woken, made, waits, left>>

(* tq without its tail.  Mutant: a task that wins forgets to leave tq. *)
Unlinked_Not == tq
Unlinked == SubSeq(tq, 1, Len(tq) - 1)

(* Once queued the task tries the mutex again: it wins, and unlinks itself, *)
(* or it parks.  It is the tail, for it has held tspin since it linked.     *)
Try(t) ==
  /\ At(t, "try")
  /\ TryLock(t, "parked")
  /\ tq' = IF mu = None THEN Unlinked ELSE tq
  /\ tspin' = None
  /\ UNCHANGED <<wq, pend, mine, got, runq, woken, made, waits, left>>

(* A carrier takes t off its queue and runs it.  Mutant: it runs a task it *)
(* did not find there.                                                     *)
RunNext_Unqueued(t) == runq' = [runq EXCEPT ![t] = @ - 1]
RunNext(t) == runq[t] > 0 /\ runq' = [runq EXCEPT ![t] = @ - 1]

(* A carrier runs the parked task again: the loop of m9_mon_take. *)
Resume(t) ==
  /\ At(t, "parked") /\ RunNext(t)
  /\ Goto(t, "spin")
  /\ UNCHANGED <<mu, tspin, tq, wq, pend, mine, got, woken, made, waits, left>>

-----------------------------------------------------------------------------
(* Inside: a body may SIGNAL, WAIT and leave, in any order its code says.  *)
(* A second SIGNAL with no WAIT between finds wq empty.                    *)

(* Those a SIGNAL releases: all.  Mutant: one, as with a condition variable. *)
Released_One == IF wq = {} THEN {} ELSE {CHOOSE w \in wq : TRUE}
Released == wq

Signal(p) ==
  /\ At(p, "body")
  /\ wq' = wq \ Released
  /\ pend' = pend \cup (Released \cap Threads)
  /\ runq' = [t \in Tasks |-> IF t \in Released THEN runq[t] + 1 ELSE runq[t]]
  /\ Goto(p, "told")
  /\ UNCHANGED <<mu, tspin, tq, mine, got, woken, made, waits, left>>

(* The unlock that ends a body or a WAIT takes pend with it, and then has  *)
(* a look at tq.  Mutants: it clears pend and keeps no copy; only leave    *)
(* looks, and not WAIT.                                                    *)
GiveUp(p) == mu' = None /\ pend' = {}
Unlock_DropsPend(p) == GiveUp(p) /\ Goto(p, "look") /\ UNCHANGED mine
Unlock_WaitNoLook(p) ==
  /\ GiveUp(p) /\ Goto(p, IF waits'[p] THEN "wake" ELSE "look")
  /\ mine' = [mine EXCEPT ![p] = pend]
Unlock(p) ==
  /\ GiveUp(p) /\ Goto(p, "look")
  /\ mine' = [mine EXCEPT ![p] = pend]

Wait(p) ==
  /\ Inside(p) /\ Spend(p)
  /\ wq' = wq \cup {p}
  /\ woken' = [t \in Threads |-> t # p /\ woken[t]]
  /\ waits' = [waits EXCEPT ![p] = TRUE]
  /\ made' = made \cup ({p} \cap Threads)
  /\ Unlock(p)
  /\ UNCHANGED <<tspin, tq, got, runq>>

(* A THREAD's first WAIT makes its waiter record.  With no memory for one  *)
(* it sleeps on the monitor's own condition variable: that unlocks without *)
(* a look at pend or tq, and no SIGNAL reads cv any more.                  *)
WaitNoMemory(h) ==
  /\ MayRunOut /\ h \notin made
  /\ Inside(h) /\ Spend(h)
  /\ mu' = None
  /\ Goto(h, "cond")
  /\ UNCHANGED <<tspin, tq, wq, pend, mine, got, runq, woken, made, waits>>

Leave(p) ==
  /\ Inside(p)
  /\ waits' = [waits EXCEPT ![p] = FALSE]
  /\ Unlock(p)
  /\ UNCHANGED <<tspin, tq, wq, got, runq, woken, made, left>>

-----------------------------------------------------------------------------
(* After the unlock: the rest of m9_mon_leave and of m9_mon_wait.          *)

Look(p) ==
  /\ At(p, "look")
  /\ Goto(p, IF tq # <<>> THEN "pop" ELSE "wake")
  /\ UNCHANGED <<mu, tspin, tq, wq, pend, mine, got, runq, woken, made, waits, left>>

(* m9_mon_leave_slow: one leave takes one entrant, if one is still there. *)
Pop(p) ==
  /\ At(p, "pop") /\ tspin = None
  /\ got' = [got EXCEPT ![p] = IF tq # <<>> THEN Head(tq) ELSE None]
  /\ tq' = IF tq # <<>> THEN Tail(tq) ELSE tq
  /\ Goto(p, "ready")
  /\ UNCHANGED <<mu, tspin, wq, pend, mine, runq, woken, made, waits, left>>

Ready(p) ==
  /\ At(p, "ready")
  /\ runq' = [t \in Tasks |-> IF got[p] = t THEN runq[t] + 1 ELSE runq[t]]
  /\ got' = [got EXCEPT ![p] = None]
  /\ Goto(p, "wake")
  /\ UNCHANGED <<mu, tspin, tq, wq, pend, mine, woken, made, waits, left>>

(* m9_mon_wake_threads: the link is read before the THREAD is woken. *)
WakeThread(p) ==
  /\ At(p, "wake")
  /\ \E t \in mine[p] :
       /\ woken' = [woken EXCEPT ![t] = TRUE]
       /\ mine' = [mine EXCEPT ![p] = @ \ {t}]
  /\ UNCHANGED <<pc, mu, tspin, tq, wq, pend, got, runq, made, waits, left>>

Gone(p) ==
  /\ At(p, "wake") /\ mine[p] = {}
  /\ Goto(p, IF waits[p] THEN "sleep" ELSE "out")
  /\ UNCHANGED <<mu, tspin, tq, wq, pend, mine, got, runq, woken, made, waits, left>>

(* The end of WAIT: a task is run again and tries the mutex; a THREAD's    *)
(* word is set and it locks.  Mutant: the task goes on without the mutex.  *)
Retake_NoLock(t) == mu' = t /\ Goto(t, "body")
Retake(t) == TryLock(t, "spin")

WakeTask(t) ==
  /\ At(t, "sleep") /\ RunNext(t)
  /\ Retake(t)
  /\ UNCHANGED <<tspin, tq, wq, pend, mine, got, woken, made, waits, left>>

WordSet(t) ==
  /\ At(t, "sleep") /\ woken[t]
  /\ Goto(t, "lock")
  /\ UNCHANGED <<mu, tspin, tq, wq, pend, mine, got, runq, woken, made, waits, left>>

-----------------------------------------------------------------------------
(* What a process does unasked, and what its program chooses to do. *)
TaskStep(t)   == Spin(t) \/ Link(t) \/ Try(t) \/ Resume(t) \/ WakeTask(t)
ThreadStep(t) == Lock(t) \/ WordSet(t)
After(p) == Look(p) \/ Pop(p) \/ Ready(p) \/ WakeThread(p) \/ Gone(p)
Choice(p) == Enter(p) \/ Signal(p) \/ Wait(p)

Next ==
  \/ \E p \in Procs : Choice(p) \/ Leave(p) \/ After(p)
  \/ \E t \in Tasks : TaskStep(t)
  \/ \E t \in Threads : ThreadStep(t) \/ WaitNoMemory(t)

(* A body ends, a carrier runs what is in its queue and the kernel runs    *)
(* every thread, so each process goes on when it can.  Whether it enters,  *)
(* signals or waits is its program's choice: no fairness is assumed of it. *)
Fairness ==
  /\ \A p \in Procs : WF_vars(Leave(p)) /\ WF_vars(After(p))
  /\ \A t \in Tasks : WF_vars(TaskStep(t))
  /\ \A t \in Threads : WF_vars(ThreadStep(t))

Spec == Init /\ [][Next]_vars
FairSpec == Spec /\ Fairness

-----------------------------------------------------------------------------
Places == {"out", "spin", "link", "try", "parked", "lock", "body", "told",
           "look", "pop", "ready", "wake", "sleep", "cond"}

\* Every variable has its type: a task is on no queue twice.
TypeOK ==
  /\ pc    \in [Procs -> Places]
  /\ mu    \in Procs \cup {None}
  /\ tspin \in Tasks \cup {None}
  /\ tq    \in Seq(Tasks)
  /\ wq    \in SUBSET Procs
  /\ pend  \in SUBSET Threads
  /\ mine  \in [Procs -> SUBSET Threads]
  /\ got   \in [Procs -> Tasks \cup {None}]
  /\ runq  \in [Tasks -> Nat]
  /\ woken \in [Threads -> BOOLEAN]
  /\ made  \in SUBSET Threads
  /\ waits \in [Procs -> BOOLEAN]
  /\ left  \in [Procs -> 0..MaxOps]

(* At most one process is inside the monitor (report par 6: "all access to *)
(* the record's fields is implicitly serialized"), through every way in:   *)
(* the fast path, the spin, the queue, and both ways back from a WAIT.     *)
MutualExclusion == \A p, q \in Procs : Inside(p) /\ Inside(q) => p = q

(* No THREAD has had to wait without a waiter record. *)
Orderly == \A h \in Threads : pc[h] # "cond"

(* A process that will try the mutex, or look at tq, before it rests. *)
Coming(p) ==
  \/ pc[p] \in {"spin", "link", "try", "lock", "look", "pop"}
  \/ pc[p] = "ready" /\ got[p] # None
  \/ pc[p] = "parked" /\ runq[p] > 0

(* No entrant is lost.  A parked task stands on tq, in the hand of a       *)
(* leaver or in a run queue; and when the mutex is free and a task stands  *)
(* on tq, somebody is still on the way to the mutex or to tq.  The second  *)
(* is what the fence pair of m9_mon_leave and m9_mon_take is for.          *)
OnTq(t) == \E i \in 1..Len(tq) : tq[i] = t
ParkedKept ==
  \A t \in Tasks : pc[t] = "parked" =>
    OnTq(t) \/ runq[t] > 0 \/ \E p \in Procs : got[p] = t
SomeoneComes == Orderly /\ mu = None /\ tq # <<>> => \E p \in Procs : Coming(p)
NoLostEntrant == ParkedKept /\ SomeoneComes

Waiting(p) ==
  pc[p] = "sleep" \/ (waits[p] /\ pc[p] \in {"look", "pop", "ready", "wake"})

(* The wake of a process in WAIT: not yet on its way, or on its way in     *)
(* exactly one of a run queue, pend, a leaver's list and the THREAD's word.*)
NoHolder(h) == \A q \in Procs : h \notin mine[q]
OneHolder(h) ==
  \E q \in Procs : h \in mine[q] /\ \A r \in Procs : h \in mine[r] => r = q
Asleep(p) ==
  IF p \in Tasks THEN runq[p] = 0
  ELSE p \notin pend /\ ~woken[p] /\ NoHolder(p)
WakeInHand(p) ==
  IF p \in Tasks THEN runq[p] = 1
  ELSE \/ p \in pend /\ ~woken[p] /\ NoHolder(p)
       \/ p \notin pend /\ woken[p] /\ NoHolder(p)
       \/ p \notin pend /\ ~woken[p] /\ OneHolder(p)

Kept(p) == IF p \in wq THEN Asleep(p) ELSE WakeInHand(p)

(* No waiter is lost: a process in WAIT stands in wq, or one wake for it   *)
(* is on its way.  What a SIGNAL put on pend is in the hands of whoever    *)
(* holds the monitor, also when that one gives it up by a WAIT.            *)
NoLostWaiter ==
  /\ \A p \in Procs : Waiting(p) => Kept(p)
  /\ Orderly /\ pend # {} => mu # None

(* A task is made ready at most once for each time it parks, and only then: *)
(* its links stand in one run queue.  Two of leave_slow, SIGNAL and its own *)
(* trylock may be about to take it off a queue at once.                     *)
ReadyOnce ==
  \A t \in Tasks :
    /\ runq[t] <= 1
    /\ runq[t] = 1 => pc[t] = "parked" \/ Waiting(t)
    /\ \A p, q \in Procs : got[p] = t /\ got[q] = t => p = q /\ runq[t] = 0

(* Whoever wants in gets in: an entrant, and a waiter once it is released, *)
(* holds the monitor in the end, though later comers may overtake it.      *)
Wants(p) ==
  \/ pc[p] \in {"spin", "link", "try", "parked", "lock"}
  \/ Waiting(p) /\ p \notin wq
EveryoneGetsIn == \A p \in Procs : Wants(p) ~> (mu = p)

-----------------------------------------------------------------------------
(* The monitor as its users see it. *)
Seen(p) ==
  IF Inside(p) THEN "in"
  ELSE IF p \in wq THEN "waiting"
  ELSE IF Wants(p) THEN "wants"
  ELSE "out"

Abstract == INSTANCE MonitorSpec WITH st <- [p \in Procs |-> Seen(p)]

(* The queues, the spin lock and the words implement the monitor of        *)
(* MonitorSpec: every step is one of its steps or changes nothing it shows.*)
ImplementsMonitor == Abstract!Spec
=============================================================================
