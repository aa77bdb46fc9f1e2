-------------------------------- MODULE Tsk --------------------------------
(***************************************************************************)
(* A crew of workers that runs loops (corpus/Tsk.m9): the program opens a  *)
(* round with For, every worker runs its chunk, For returns when all have  *)
(* finished; Stop ends the crew.                                           *)
(*                                                                         *)
(* Go and Done are two MONITORs.  One of their procedures runs from its    *)
(* entry, or from the return of a WAIT, to its next WAIT or its end: that  *)
(* is one step.  Next, For and Stop call several, with steps of the others *)
(* in between.  A worker that has left the last of them still runs the end *)
(* of m9_mon_leave, which reads the monitor's tq after it unlocked.        *)
(*                                                                         *)
(* The program is the one the DEFINITION of Tsk shows: it starts workers,  *)
(* of which some may be refused, and tells Start how many run; one thread  *)
(* drives the crew.                                                        *)
(***************************************************************************)
EXTENDS Integers, FiniteSets

CONSTANTS
  Crew,       (* the workers the program tries to start                    *)
  Ops,        (* the bodies a round may ask for                            *)
  Sizes,      (* the numbers of indices a round may have                   *)
  MaxRounds,  (* bound: the rounds the program opens                       *)
  Main        (* the program, as a waiter                                  *)

ASSUME TskAssumption ==
  /\ IsFiniteSet(Crew) /\ Main \notin Crew
  /\ Sizes \subseteq Nat /\ IsFiniteSet(Sizes) /\ MaxRounds \in Nat

VARIABLES
  go,       (* Go: round, n, op, workers, ids, stop                        *)
  done,     (* Done: finished, failed, left                                *)
  seat,     (* each worker's Seat                                          *)
  pc,       (* where each worker is                                        *)
  main,     (* where the program is                                        *)
  answer,   (* how the last For ended                                      *)
  waiters,  (* who is in WAIT, on Go or (the program) on Done              *)
  did,      (* history: how often each index was run in this round         *)
  bad       (* history: a body failed in this round                        *)

(* The indices of every round. *)
Indices == UNION {0 .. n - 1 : n \in Sizes}

vars == <<go, done, seat, pc, main, answer, waiters, did, bad>>

NoOp == "no op"
NewSeat(id) == [id |-> id, round |-> 0, op |-> NoOp, n |-> 0, lo |-> 0, hi |-> 0, failed |-> FALSE]

Init ==
  /\ go = [round |-> 0, n |-> 0, op |-> NoOp, workers |-> 0, ids |-> 0, stop |-> FALSE]
  /\ done = [finished |-> 0, failed |-> 0, left |-> 0]
  /\ seat = [k \in Crew |-> NewSeat(0)]
  /\ pc = [k \in Crew |-> "none"]
  /\ main = "start" /\ answer = "none"
  /\ waiters = {}
  /\ did = [i \in Indices |-> 0] /\ bad = FALSE

Running == {k \in Crew : pc[k] # "none"}
Goto(k, to) == pc' = [pc EXCEPT ![k] = to]
SignalGo   == waiters' = waiters \cap {Main}
SignalDone == waiters' = waiters \ {Main}

(* The indices lo .. hi - 1 of worker k.  Mutants: the longer chunks go to *)
(* all; the shorter ones begin as if there were no longer ones.            *)
Chunk_AllLong(k, n, workers) ==
  LET q == n \div workers
      r == n % workers
  IN IF workers < 1 \/ k < 0 \/ k >= workers \/ n < 1 THEN [lo |-> 0, hi |-> 0]
     ELSE IF k < r THEN [lo |-> k * (q + 1), hi |-> k * (q + 1) + q + 1]
     ELSE [lo |-> r * (q + 1) + (k - r) * q, hi |-> r * (q + 1) + (k - r) * q + q + 1]
Chunk_NoShift(k, n, workers) ==
  LET q == n \div workers
      r == n % workers
  IN IF workers < 1 \/ k < 0 \/ k >= workers \/ n < 1 THEN [lo |-> 0, hi |-> 0]
     ELSE IF k < r THEN [lo |-> k * (q + 1), hi |-> k * (q + 1) + q + 1]
     ELSE [lo |-> k * q, hi |-> k * q + q]
Chunk(k, n, workers) ==
  LET q == n \div workers
      r == n % workers
  IN IF workers < 1 \/ k < 0 \/ k >= workers \/ n < 1 THEN [lo |-> 0, hi |-> 0]
     ELSE IF k < r THEN [lo |-> k * (q + 1), hi |-> k * (q + 1) + q + 1]
     ELSE [lo |-> r * (q + 1) + (k - r) * q, hi |-> r * (q + 1) + (k - r) * q + q]

-----------------------------------------------------------------------------
(* A worker: Join, then Next and its body over and over. *)

Join(k) ==
  /\ pc[k] = "new"
  /\ seat' = [seat EXCEPT ![k] = NewSeat(go.ids)]
  /\ go' = [go EXCEPT !.ids = @ + 1]
  /\ Goto(k, "await")
  /\ UNCHANGED <<done, main, answer, waiters, did, bad>>

AwaitWait(k) ==
  /\ go.round = seat[k].round /\ ~go.stop
  /\ waiters' = waiters \cup {k}
  /\ UNCHANGED <<seat, pc>>
AwaitRoundOpen(k) ==
  /\ go.round # seat[k].round /\ ~go.stop
  /\ LET c == Chunk(seat[k].id, go.n, go.workers) IN
     seat' = [seat EXCEPT ![k].round = go.round, ![k].n = go.n, ![k].op = go.op,
                          ![k].lo = c.lo, ![k].hi = c.hi]
  /\ Goto(k, "body")
  /\ UNCHANGED waiters
AwaitStop(k) == go.stop /\ Goto(k, "leave") /\ UNCHANGED <<seat, waiters>>

Await(k) ==
  /\ pc[k] = "await" /\ k \notin waiters
  /\ AwaitWait(k) \/ AwaitRoundOpen(k) \/ AwaitStop(k)
  /\ UNCHANGED <<go, done, main, answer, did, bad>>

(* The program's code: the chunk is run, and may fail. *)
Body(k, failed) ==
  /\ pc[k] = "body"
  /\ did' = [i \in Indices |->
               IF seat[k].lo <= i /\ i < seat[k].hi THEN did[i] + 1 ELSE did[i]]
  /\ bad' = (bad \/ failed)
  /\ seat' = [seat EXCEPT ![k].failed = failed]
  /\ Goto(k, "report")
  /\ UNCHANGED <<go, done, main, answer, waiters>>

Counted(k) ==
  done' = [done EXCEPT !.finished = @ + 1,
                       !.failed = IF seat[k].failed THEN @ + 1 ELSE @]
Finish(k) == Counted(k) /\ SignalDone

Report(k) ==
  /\ pc[k] = "report"
  /\ Finish(k)
  /\ seat' = [seat EXCEPT ![k].failed = FALSE]
  /\ Goto(k, "await")
  /\ UNCHANGED <<go, main, answer, did, bad>>

Leave(k) ==
  /\ pc[k] = "leave"
  /\ done' = [done EXCEPT !.left = @ + 1]
  /\ SignalDone
  /\ Goto(k, "unlocked")
  /\ UNCHANGED <<go, seat, main, answer, did, bad>>

(* The end of m9_mon_leave, past its unlock: a look at the monitor's tq. *)
LastLook(k) ==
  /\ pc[k] = "unlocked"
  /\ Goto(k, "gone")
  /\ UNCHANGED <<go, done, seat, main, answer, waiters, did, bad>>

-----------------------------------------------------------------------------
(* The program. *)

(* A THREAD or TASK statement, which may be refused. *)
StartWorker(k) ==
  /\ main = "start" /\ pc[k] = "none"
  /\ Goto(k, "new")
  /\ UNCHANGED <<go, done, seat, main, answer, waiters, did, bad>>

(* Told of no worker, Start raises BadArg, and the crew has not started. *)
Start ==
  /\ main = "start" /\ Running # {}
  /\ go' = [go EXCEPT !.workers = Cardinality(Running)]
  /\ main' = "idle"
  /\ UNCHANGED <<done, seat, pc, answer, waiters, did, bad>>

(* For opens a round ...  Mutant: nobody hears of it. *)
Opened(n, op) ==
  go' = [go EXCEPT !.round = @ + 1, !.n = n, !.op = op]
Open_NoSignal(n, op) == Opened(n, op) /\ UNCHANGED waiters
Open(n, op) == Opened(n, op) /\ SignalGo

For(n, op) ==
  /\ main = "idle" /\ go.round < MaxRounds
  /\ Open(n, op)
  /\ main' = "round"
  /\ did' = [i \in Indices |-> 0] /\ bad' = FALSE
  /\ UNCHANGED <<done, seat, pc, answer>>

(* ... or is refused, before Start and after Stop ... *)
ForRefused ==
  /\ main \in {"start", "stopped"} /\ (go.workers = 0 \/ go.stop)
  /\ answer' = "BadArg"
  /\ UNCHANGED <<go, done, seat, pc, main, waiters, did, bad>>

(* ... and waits for the chunks.  Mutant: the counts stay. *)
Cleared_Not == done
Cleared == [done EXCEPT !.finished = 0, !.failed = 0]

AwaitRound ==
  /\ main = "round" /\ Main \notin waiters
  /\ \/ /\ done.finished < go.workers
        /\ waiters' = waiters \cup {Main}
        /\ UNCHANGED <<done, main, answer>>
     \/ /\ done.finished >= go.workers
        /\ done' = Cleared
        /\ answer' = IF done.failed > 0 THEN "Failed" ELSE "ok"
        /\ main' = "idle"
        /\ UNCHANGED waiters
  /\ UNCHANGED <<go, seat, pc, did, bad>>

(* Stop: Halt, then AwaitLeft.  The program may stop before it started.    *)
(* Mutant: Halt wakes nobody.                                              *)
Halt_NoSignal == go' = [go EXCEPT !.stop = TRUE] /\ UNCHANGED waiters
Halt == go' = [go EXCEPT !.stop = TRUE] /\ SignalGo

Stop ==
  /\ main \in {"start", "idle"}
  /\ Halt
  /\ main' = "stopping"
  /\ UNCHANGED <<done, seat, pc, answer, did, bad>>

AllLeft == done.left >= go.workers

AwaitLeft ==
  /\ main = "stopping" /\ Main \notin waiters
  /\ \/ ~AllLeft /\ waiters' = waiters \cup {Main} /\ UNCHANGED main
     \/ AllLeft /\ main' = "stopped" /\ UNCHANGED waiters
  /\ UNCHANGED <<go, done, seat, pc, answer, did, bad>>

-----------------------------------------------------------------------------
Worker(k) ==
  \/ Join(k) \/ Await(k) \/ Report(k) \/ Leave(k) \/ LastLook(k)
  \/ \E failed \in BOOLEAN : Body(k, failed)

Awaits == AwaitRound \/ AwaitLeft

Next ==
  \/ \E k \in Crew : Worker(k) \/ StartWorker(k)
  \/ \E n \in Sizes, op \in Ops : For(n, op)
  \/ Start \/ ForRefused \/ Stop \/ Awaits

Spec == Init /\ [][Next]_vars
(* A started worker is run, its body ends, and For and Stop go on when     *)
(* they can.  What the program calls, and when, is its own choice.         *)
FairSpec ==
  /\ Spec
  /\ WF_vars(Awaits)
  /\ \A k \in Crew : WF_vars(Worker(k))

-----------------------------------------------------------------------------
SeatOK(s) ==
  /\ s.id \in 0..Cardinality(Crew) /\ s.round \in 0..go.round
  /\ s.n \in Sizes \cup {0} /\ s.lo \in 0..s.n /\ s.hi \in 0..s.n
  /\ s.op \in Ops \cup {NoOp} /\ s.failed \in BOOLEAN

(* Every variable has its type: chunks stay inside their loop. *)
TypeOK ==
  /\ go.round \in 0..MaxRounds /\ go.n \in Sizes \cup {0} /\ go.stop \in BOOLEAN
  /\ go.workers \in 0..Cardinality(Crew) /\ go.ids \in 0..Cardinality(Crew)
  /\ \A c \in {done.finished, done.failed, done.left} : c \in 0..Cardinality(Crew)
  /\ \A k \in Crew : SeatOK(seat[k])
  /\ pc \in [Crew -> {"none", "new", "await", "body", "report", "leave", "unlocked", "gone"}]
  /\ main \in {"start", "idle", "round", "stopping", "stopped"}
  /\ waiters \in SUBSET (Crew \cup {Main})

(* "No worker is still writing when the program handles it" (Tsk.m9): a    *)
(* body runs only while For waits, and it is of the round and the op that  *)
(* For opened, also when workers of the last round come late to the next.  *)
(* After Stop, once the crew has started, every worker has left its last   *)
(* monitor procedure (but for LastLook: Stop does not wait for that).      *)
Stopped == main = "stopped" /\ go.workers > 0
BodiesInRound ==
  /\ \A k \in Crew : pc[k] \in {"body", "report"} =>
       /\ main = "round"
       /\ seat[k].round = go.round /\ seat[k].op = go.op /\ seat[k].n = go.n
  /\ Stopped => \A k \in Running : pc[k] \in {"unlocked", "gone"}

(* "Every worker has finished the round when it is raised": when For       *)
(* returns each index of the round was run once, and it raises Failed just *)
(* when a body of this round failed.                                       *)
RoundComplete ==
  [][main = "round" /\ main' = "idle" =>
       /\ \A i \in Indices : did[i] = IF i < go.n THEN 1 ELSE 0
       /\ answer' = "Failed" <=> bad]_vars

(* For returns, and Stop returns and the workers end. *)
ForReturns == main = "round" ~> main # "round"
CrewEnds == \A k \in Crew : main = "stopping" /\ k \in Running ~> pc[k] = "gone" /\ main = "stopped"
=============================================================================
