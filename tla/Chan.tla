-------------------------------- MODULE Chan --------------------------------
(***************************************************************************)
(* Chan.Ints (corpus/Chan.m9): a bounded ring in a MONITOR, used by any    *)
(* number of tasks and threads.                                            *)
(*                                                                         *)
(* A bound procedure runs inside the monitor from its entry, or from the   *)
(* return of a WAIT, to its next WAIT or its end: that is one step here.   *)
(* Module Monitor shows why it may be: one process is inside, WAIT gives   *)
(* the monitor up and joins the waiters in one step, and SIGNAL releases   *)
(* them all.  What is left to go wrong is what they find when they look    *)
(* again.                                                                  *)
(***************************************************************************)
EXTENDS Integers, Sequences

CONSTANTS
  Procs,    (* the callers                                                 *)
  Vals,     (* the values sent                                             *)
  Zero,     (* what a zeroed ring holds                                    *)
  MaxCap,   (* 256 in the code; a small number in a run                    *)
  None      (* no value                                                    *)

ASSUME ChanAssumption ==
  /\ MaxCap \in Nat \ {0}
  /\ Zero \in Vals
  /\ None \notin Vals

VARIABLES
  ring, head, n, cap, closed,   (* the fields of Ints                      *)
  at,       (* the call each process waits in, with its locals v and room  *)
  waiters,  (* the processes in WAIT that no SIGNAL has released           *)
  answer    (* the last answer given                                       *)

vars == <<ring, head, n, cap, closed, at, waiters, answer>>

Slots == 0 .. MaxCap - 1
Out == [op |-> "out", v |-> None, room |-> 0]

Init ==
  /\ ring = [i \in Slots |-> Zero]
  /\ head = 0 /\ n = 0 /\ cap = 0 /\ closed = FALSE
  /\ at = [p \in Procs |-> Out]
  /\ waiters = {}
  /\ answer = None

(* A zeroed channel has all of the ring. *)
Room == IF cap = 0 THEN MaxCap ELSE cap

Slot(i) == (head + i) % MaxCap

Answer(p, what, v) ==
  /\ answer' = <<p, what, v>>
  /\ at' = [at EXCEPT ![p] = Out]
(* An answer that leaves the channel as it is. *)
Refuse(p, what) ==
  Answer(p, what, None) /\ UNCHANGED <<ring, head, n, cap, closed, waiters>>
Block(p, call) ==
  /\ at' = [at EXCEPT ![p] = call]
  /\ waiters' = waiters \cup {p}
  /\ UNCHANGED <<ring, head, n, cap, closed, answer>>
SIGNAL == waiters' = {}

(* A value goes in behind the newest. *)
Push(p, v) ==
  /\ ring' = [ring EXCEPT ![Slot(n)] = v]
  /\ n' = n + 1
  /\ SIGNAL
  /\ Answer(p, "sent", None)
  /\ UNCHANGED <<head, cap, closed>>

(* The oldest comes out.  Mutants: no SIGNAL; head runs past the ring. *)
Moved(p, newHead) ==
  /\ head' = newHead
  /\ n' = n - 1
  /\ Answer(p, "got", ring[head])
  /\ UNCHANGED <<ring, cap, closed>>
Pull_NoSignal(p) == Moved(p, Slot(1)) /\ UNCHANGED waiters
Pull_NoMod(p) == Moved(p, head + 1) /\ SIGNAL
Pull(p) == Moved(p, Slot(1)) /\ SIGNAL

-----------------------------------------------------------------------------
(* Send reads its room once, before it waits; SetCap may run before it     *)
(* looks again.  Mutant: it waits only when the ring holds more than that. *)
SendFrom_OffByOne(p, v, room) ==
  \/ n > room /\ ~closed /\ Block(p, [op |-> "send", v |-> v, room |-> room])
  \/ closed /\ Refuse(p, "Closed")
  \/ n <= room /\ ~closed /\ Push(p, v)
SendFrom(p, v, room) ==
  \/ n >= room /\ ~closed /\ Block(p, [op |-> "send", v |-> v, room |-> room])
  \/ closed /\ Refuse(p, "Closed")
  \/ n < room /\ ~closed /\ Push(p, v)

Send(p, v) == at[p] = Out /\ SendFrom(p, v, Room)

SendAgain(p) ==
  /\ at[p].op = "send" /\ p \notin waiters
  /\ SendFrom(p, at[p].v, at[p].room)

(* Mutant: a closed channel does not drain. *)
ReceiveFrom_NoDrain(p) ==
  \/ n = 0 /\ ~closed /\ Block(p, [Out EXCEPT !.op = "receive"])
  \/ closed /\ Refuse(p, "ended")
  \/ n # 0 /\ ~closed /\ Pull(p)
ReceiveFrom(p) ==
  \/ n = 0 /\ ~closed /\ Block(p, [Out EXCEPT !.op = "receive"])
  \/ n = 0 /\ closed /\ Refuse(p, "ended")
  \/ n # 0 /\ Pull(p)

Receive(p) == at[p] = Out /\ ReceiveFrom(p)

ReceiveAgain(p) ==
  at[p].op = "receive" /\ p \notin waiters /\ ReceiveFrom(p)

TrySend(p, v) ==
  /\ at[p] = Out
  /\ \/ closed /\ Refuse(p, "Closed")
     \/ ~closed /\ n >= Room /\ Refuse(p, "full")
     \/ ~closed /\ n < Room /\ Push(p, v)

TryReceive(p) ==
  /\ at[p] = Out
  /\ \/ n = 0 /\ Refuse(p, "empty")
     \/ n # 0 /\ Pull(p)

SetCap(p, room) ==
  /\ at[p] = Out
  /\ \/ (room \notin 1..MaxCap \/ n # 0) /\ Refuse(p, "ValueRange")
     \/ /\ room \in 1..MaxCap /\ n = 0
        /\ cap' = room /\ head' = 0
        /\ Answer(p, "set", None)
        /\ UNCHANGED <<ring, n, closed, waiters>>

(* Mutant: nobody is told. *)
Shut(p) ==
  /\ at[p] = Out
  /\ closed' = TRUE
  /\ Answer(p, "done", None)
  /\ UNCHANGED <<ring, head, n, cap>>
Close_NoSignal(p) == Shut(p) /\ UNCHANGED waiters
Close(p) == Shut(p) /\ SIGNAL

-----------------------------------------------------------------------------
Again(p) == SendAgain(p) \/ ReceiveAgain(p)

Call(p) ==
  \/ \E v \in Vals : Send(p, v) \/ TrySend(p, v)
  \/ Receive(p) \/ TryReceive(p) \/ Close(p)
  \/ \E room \in 0 .. MaxCap + 1 : SetCap(p, room)

Next == \E p \in Procs : Call(p) \/ Again(p)

(* A released process gets the monitor back (EveryoneGetsIn of Monitor). *)
Spec == Init /\ [][Next]_vars
FairSpec == Spec /\ \A p \in Procs : WF_vars(Again(p))

-----------------------------------------------------------------------------
Calls == [op : {"out", "send", "receive"}, v : Vals \cup {None}, room : 0..MaxCap]

\* Every variable has its type: the ring's indices stay in its buffer.
TypeOK ==
  /\ ring \in [Slots -> Vals]
  /\ head \in Slots
  /\ n \in 0..MaxCap
  /\ cap \in 0..MaxCap
  /\ closed \in BOOLEAN
  /\ at \in [Procs -> Calls]
  /\ waiters \in SUBSET Procs

Sending(p) == at[p].op = "send"
Receiving(p) == at[p].op = "receive"

(* What would let a waiting call go on. *)
CanGoOn(p) ==
  \/ closed
  \/ Sending(p) /\ n < at[p].room
  \/ Receiving(p) /\ n # 0

(* No wake is lost: a process asleep in Send or Receive has nothing to do. *)
(* Whatever changed n or closed since it looked has released it.  So       *)
(* senders and receivers never sleep on one channel together.              *)
NoLostWake == \A p \in waiters : (Sending(p) \/ Receiving(p)) /\ ~CanGoOn(p)

(* The cap is passed only by a sender that read a larger room before a     *)
(* SetCap, and waited: in a channel whose cap is set before the first Send *)
(* the ring holds no more than its cap.                                    *)
CapKept ==
  [][n' > n /\ n' > Room => \E p \in Procs : Sending(p) /\ n < at[p].room]_vars

(* A waiting call that can go on does, or another takes its chance: the    *)
(* value or the room it waited for, or Close, is never slept through.      *)
WaitersEnd ==
  \A p \in Procs : at[p] # Out /\ CanGoOn(p) ~> at[p] = Out \/ ~CanGoOn(p)

(* The ring is a queue: nothing is lost, doubled or reordered across the   *)
(* wrap of head, and every answer says what the queue was.                 *)
Queue == INSTANCE ChanSpec
  WITH q <- [i \in 1..n |-> ring[Slot(i - 1)]], room <- Room
ImplementsQueue == Queue!Spec
=============================================================================
