----------------------------- MODULE PollerSpec -----------------------------
(***************************************************************************)
(* What the poller promises a task (runtime/m9rt.c:4390): a task that      *)
(* waits for a descriptor, for a time, or for both is woken once, by       *)
(* whichever comes first, and told which.  Sched's Fire is this wake with  *)
(* the reason left out.                                                    *)
(***************************************************************************)
EXTENDS Integers

CONSTANTS Tasks, Fds, Ways, None, NoLimit

VARIABLES
  now,    (* the clock                                                     *)
  ready,  (* the descriptors that are readable, or writable                *)
  st,     (* each task: out, waiting, or woken                             *)
  call,   (* what it waits for: fd, way, at                                *)
  why     (* what woke it: event or deadline                               *)

vars == <<now, ready, st, call, why>>

NoCall == [fd |-> None, way |-> None, at |-> NoLimit, came |-> FALSE]

Init ==
  /\ now = 0 /\ ready = {}
  /\ st = [t \in Tasks |-> "out"]
  /\ call = [t \in Tasks |-> NoCall]
  /\ why = [t \in Tasks |-> "none"]

Move(t, from, to) == st[t] = from /\ st' = [st EXCEPT ![t] = to]

(* came: the descriptor was ready at some time since the call began. *)
Wait(t) ==
  /\ Move(t, "out", "waiting")
  /\ call' = [call EXCEPT ![t] = call'[t]]
  /\ call'[t] \in [fd: Fds \cup {None}, way: Ways \cup {None}, at: Int, came: BOOLEAN]
  /\ call'[t].came = (<<call'[t].fd, call'[t].way>> \in ready)
  /\ UNCHANGED <<now, ready, why>>

WakeFor(t, reason) ==
  /\ Move(t, "waiting", "woken")
  /\ why' = [why EXCEPT ![t] = reason]
  /\ UNCHANGED <<now, ready, call>>
Event(t)    == call[t].came /\ WakeFor(t, "event")
Deadline(t) == call[t].at # NoLimit /\ call[t].at <= now /\ WakeFor(t, "deadline")

Return(t) ==
  /\ Move(t, "woken", "out")
  /\ call' = [call EXCEPT ![t] = NoCall]
  /\ why' = [why EXCEPT ![t] = "none"]
  /\ UNCHANGED <<now, ready>>

(* The world: time passes, descriptors become ready, or cease to be. *)
Tick == now' = now + 1 /\ UNCHANGED <<ready, st, call, why>>
Change ==
  /\ ready' \subseteq Fds \X Ways
  /\ call' = [t \in Tasks |->
               [call[t] EXCEPT !.came = @ \/ (st[t] = "waiting" /\ <<call[t].fd, call[t].way>> \in ready')]]
  /\ UNCHANGED <<now, st, why>>

Next ==
  \/ Tick \/ Change
  \/ \E t \in Tasks : Wait(t) \/ Event(t) \/ Deadline(t) \/ Return(t)

Spec == Init /\ [][Next]_vars
=============================================================================
