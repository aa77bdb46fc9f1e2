---------------------------- MODULE MonitorSpec ----------------------------
(***************************************************************************)
(* What a MONITOR promises a program (docs/M9-report.md, par 6): at most   *)
(* one process is inside; WAIT gives the monitor up and joins the waiters; *)
(* SIGNAL releases every waiter, and each of them must get back in before  *)
(* it goes on.  How this is done with a pthread mutex, two queues and a    *)
(* spin lock is module Monitor, which implements this one.                 *)
(***************************************************************************)
CONSTANT Procs

VARIABLE st      (* what each process is to the monitor *)

Init == st = [p \in Procs |-> "out"]

Free == \A p \in Procs : st[p] # "in"

Move(p, from, to) == st[p] = from /\ st' = [st EXCEPT ![p] = to]

Want(p)    == Move(p, "out", "wants")
Acquire(p) == Free /\ Move(p, "wants", "in")
Wait(p)    == Move(p, "in", "waiting")
Leave(p)   == Move(p, "in", "out")

(* An entry that finds the monitor free is one step. *)
EnterAtOnce(p) == Free /\ Move(p, "out", "in")

Signal(p) ==
  /\ st[p] = "in"
  /\ st' = [q \in Procs |-> IF st[q] = "waiting" THEN "wants" ELSE st[q]]

Next == \E p \in Procs :
  Want(p) \/ Acquire(p) \/ EnterAtOnce(p) \/ Wait(p) \/ Leave(p) \/ Signal(p)

Spec == Init /\ [][Next]_st
=============================================================================
