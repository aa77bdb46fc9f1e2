------------------------------ MODULE ChanSpec ------------------------------
(***************************************************************************)
(* What a channel promises (the DEFINITION of corpus/Chan.m9): a queue of  *)
(* bounded length that keeps its order, loses and doubles nothing, and can *)
(* be closed; then it drains, and takes no more.  Module Chan implements   *)
(* it with a ring, a monitor and waiting processes.                        *)
(***************************************************************************)
EXTENDS Naturals, Sequences

CONSTANTS Procs, Vals, MaxCap, None

VARIABLES
  q,       (* the values in the channel, oldest first                      *)
  room,    (* the length SetCap allows                                     *)
  closed,
  answer   (* the last answer: to whom, what, and the value if one         *)

vars == <<q, room, closed, answer>>

Init == q = <<>> /\ room = MaxCap /\ closed = FALSE /\ answer = None

Answer(p, what, v) == answer' = <<p, what, v>>
Refuse(p, what)    == Answer(p, what, None) /\ UNCHANGED <<q, room, closed>>

Put(p, v) ==
  /\ ~closed /\ Len(q) < MaxCap
  /\ q' = Append(q, v)
  /\ Answer(p, "sent", None)
  /\ UNCHANGED <<room, closed>>

Get(p) ==
  /\ q # <<>>
  /\ q' = Tail(q)
  /\ Answer(p, "got", Head(q))
  /\ UNCHANGED <<room, closed>>

Resize(p, cap) ==
  /\ q = <<>> /\ room' = cap
  /\ Answer(p, "set", None)
  /\ UNCHANGED <<q, closed>>

Close(p) ==
  /\ closed' = TRUE
  /\ Answer(p, "done", None)
  /\ UNCHANGED <<q, room>>

(* The answers that change nothing, and what each says of the channel. *)
Closed(p) == closed /\ Refuse(p, "Closed")
Ended(p)  == closed /\ q = <<>> /\ Refuse(p, "ended")
Full(p)   == ~closed /\ Len(q) >= room /\ Refuse(p, "full")
Empty(p)  == q = <<>> /\ Refuse(p, "empty")
BadCap(p) == Refuse(p, "ValueRange")

Next == \E p \in Procs :
  \/ \E v \in Vals : Put(p, v)
  \/ \E cap \in 1..MaxCap : Resize(p, cap)
  \/ Get(p) \/ Close(p) \/ Closed(p) \/ Ended(p) \/ Full(p) \/ Empty(p) \/ BadCap(p)

Spec == Init /\ [][Next]_vars
=============================================================================
