-------------------------------- MODULE Sup --------------------------------
(***************************************************************************)
(* Supervision (corpus/Sup.m9): the Board is a MONITOR; the children       *)
(* report on it, one task runs Watch and orders them started again.        *)
(*                                                                         *)
(* A bound procedure runs inside the monitor from its entry, or from the   *)
(* return of a WAIT, to its next WAIT or its end: one step, except for the *)
(* loop of Watch over the children, which is a step for each.  While it    *)
(* scans nobody else is inside; the clock runs on.                         *)
(*                                                                         *)
(* A child is its seat: which task took it does not matter.  It follows    *)
(* the loop the DEFINITION of Sup prescribes: Join, then Run, work and one *)
(* report, over and over; Asked may call it back to Run from its work.     *)
(***************************************************************************)
EXTENDS Integers, Sequences

CONSTANTS
  Started,      (* how many children the program starts                    *)
  Watched,      (* how many Watch waits for: its parameter `children`      *)
  MaxChildren,  (* the seats: 64 in the code                               *)
  Ring,         (* the slots of `times`: 64 in the code                    *)
  Policies,     (* what Policy may be called with: records as in PolicyOK  *)
  Default,      (* the policy of a zeroed Board                            *)
  MaxTime,      (* bound: the clock stops there                            *)
  Watcher       (* the task in Watch, as a waiter                          *)

Children == 0 .. Started - 1
Seats == 0 .. MaxChildren - 1

PolicyOK(p) ==
  /\ p.all \in BOOLEAN                      (* AllForOne *)
  /\ p.maxRestarts \in Nat
  /\ p.window \in Nat \ {0}
  /\ p.dirtyMax \in Nat \ {0}

ASSUME SupAssumption ==
  /\ Started \in Nat /\ Watched \in Nat
  /\ MaxChildren \in Nat \ {0} /\ Ring \in Nat \ {0} /\ MaxTime \in Nat
  /\ Watcher \notin Children
  /\ Default \in Policies
  /\ \A p \in Policies : PolicyOK(p)

VARIABLES
  pol,                             (* set, policy, maxRestarts, ...        *)
  n, order, state, dirty,          (* the children's side of the Board     *)
  times, restarts, dirtyRestarts,
  stop,
  cpc,      (* where each child is                                         *)
  run,      (* the start it runs now (its Seat)                            *)
  wpc,      (* where Watch is                                              *)
  w,        (* its locals k, finished, giveUp and the limits it read       *)
  waiters,  (* who is in WAIT on the Board, not released                   *)
  halted,   (* Crashed stopped the program                                 *)
  now,      (* the clock                                                   *)
  log       (* history: when each clean restart was counted                *)

board == <<pol, n, order, state, dirty, times, restarts, dirtyRestarts, stop>>
vars == <<board, cpc, run, wpc, w, waiters, halted, now, log>>

Limits(p) == [k |-> 0, finished |-> 0, giveUp |-> FALSE,
              most |-> p.maxRestarts, window |-> p.window]

Init ==
  /\ pol = Default
  /\ n = 0 /\ restarts = 0 /\ dirtyRestarts = 0
  /\ order = [s \in Seats |-> 0] /\ dirty = [s \in Seats |-> 0]
  /\ state = [s \in Seats |-> "Waiting"]
  /\ times = [i \in 0 .. Ring - 1 |-> 0]
  /\ stop = FALSE /\ halted = FALSE
  /\ cpc = [c \in Children |-> "new"] /\ run = [c \in Children |-> 0]
  /\ wpc = "out" /\ w = Limits(Default)
  /\ waiters = {}
  /\ now = 0 /\ log = <<>>

(* Nobody holds the monitor: every other procedure is one step. *)
Free == wpc # "scan" /\ ~halted
SIGNAL == waiters' = {}
Joined == 0 .. n - 1

Go(c, to) == cpc' = [cpc EXCEPT ![c] = to]

-----------------------------------------------------------------------------
Policy(p) ==
  /\ Free /\ n = 0
  /\ pol' = p
  /\ UNCHANGED <<n, order, state, dirty, times, restarts, dirtyRestarts, stop>>
  /\ UNCHANGED <<cpc, run, wpc, w, waiters, halted, now, log>>

(* A child takes the next seat, or finds none.  Mutant: one seat too many. *)
Room_OffByOne == n <= MaxChildren
Room == n < MaxChildren

Join(c) ==
  /\ Free /\ cpc[c] = "new" /\ c = n /\ Room
  /\ order' = [order EXCEPT ![c] = 1]
  /\ state' = [state EXCEPT ![c] = "Waiting"]
  /\ n' = n + 1
  /\ SIGNAL
  /\ Go(c, "run")
  /\ UNCHANGED <<pol, dirty, times, restarts, dirtyRestarts, stop>>
  /\ UNCHANGED <<run, wpc, w, halted, now, log>>

NoSeat(c) ==
  /\ Free /\ cpc[c] = "new" /\ ~Room
  /\ Go(c, "gone")
  /\ UNCHANGED <<board, run, wpc, w, waiters, halted, now, log>>

(* Run, from its call or from its WAIT: wait for a start, take it, or leave. *)
RunWait(c) ==
  /\ ~stop /\ order[c] <= run[c]
  /\ waiters' = waiters \cup {c}
  /\ UNCHANGED <<state, cpc, run>>
RunStart(c) ==
  /\ ~stop /\ order[c] > run[c]
  /\ run' = [run EXCEPT ![c] = order[c]]
  /\ state' = [state EXCEPT ![c] = "Running"]
  /\ Go(c, "work")
  /\ UNCHANGED waiters
RunEnd(c) == stop /\ Go(c, "gone") /\ UNCHANGED <<state, run, waiters>>

Run(c) ==
  /\ Free /\ cpc[c] = "run" /\ c \notin waiters
  /\ RunWait(c) \/ RunStart(c) \/ RunEnd(c)
  /\ UNCHANGED <<pol, n, order, dirty, times, restarts, dirtyRestarts, stop>>
  /\ UNCHANGED <<wpc, w, halted, now, log>>

(* Done and Failed.  A report of a start that is not the one ordered last  *)
(* says nothing of the child.  Mutants: it does; nobody is told.           *)
Reported_Stale(c, what) == state' = [state EXCEPT ![c] = what] /\ SIGNAL
Reported_NoSignal(c, what) ==
  /\ state' = IF order[c] = run[c] THEN [state EXCEPT ![c] = what] ELSE state
  /\ UNCHANGED waiters
Reported(c, what) ==
  /\ state' = IF order[c] = run[c] THEN [state EXCEPT ![c] = what] ELSE state
  /\ SIGNAL

Report(c, what) ==
  /\ Free /\ cpc[c] = "work"
  /\ Reported(c, what)
  /\ Go(c, "run")
  /\ UNCHANGED <<pol, n, order, dirty, times, restarts, dirtyRestarts, stop>>
  /\ UNCHANGED <<run, wpc, w, halted, now, log>>

Done(c)   == Report(c, "Finished")
Failed(c) == Report(c, "Failing")

(* The dirtyMax-th crash of one child stops the program. *)
Crashed(c) ==
  /\ Free /\ cpc[c] = "work"
  /\ dirty' = [dirty EXCEPT ![c] = @ + 1]
  /\ IF dirty'[c] >= pol.dirtyMax
       THEN halted' = TRUE /\ UNCHANGED <<state, cpc, waiters>>
       ELSE Reported(c, "Crashing") /\ Go(c, "run") /\ UNCHANGED halted
  /\ UNCHANGED <<pol, n, order, times, restarts, dirtyRestarts, stop>>
  /\ UNCHANGED <<run, wpc, w, now, log>>

Asked(c) ==
  /\ Free /\ cpc[c] = "work"
  /\ stop \/ order[c] > run[c]
  /\ Go(c, "run")
  /\ UNCHANGED <<board, run, wpc, w, waiters, halted, now, log>>

-----------------------------------------------------------------------------
(* Watch.  The limits are read once, at its call. *)
Watch ==
  /\ Free /\ wpc = "out"
  /\ wpc' = "scan" /\ w' = Limits(pol)
  /\ UNCHANGED <<board, cpc, run, waiters, halted, now, log>>

(* The most-th newest restart, in its slot of the ring, is in the window.  *)
(* Mutants: the window's end is left out; the coming restart is counted.   *)
TooMany_Strict(t) ==
  \/ w.most = 0
  \/ restarts >= w.most /\ t - times[(restarts - w.most) % Ring] < w.window
TooMany_Early(t) ==
  \/ w.most = 0
  \/ restarts + 1 >= w.most /\ t - times[(restarts - w.most) % Ring] <= w.window
TooMany(t) ==
  \/ w.most = 0
  \/ restarts >= w.most /\ t - times[(restarts - w.most) % Ring] <= w.window

Scanning == wpc = "scan" /\ ~halted /\ w.k < n
Scanned(more, giveUp) ==
  w' = [w EXCEPT !.k = @ + 1, !.finished = @ + more, !.giveUp = giveUp]

(* The failed child is ordered to start again, or every child is. *)
Again ==
  LET who == IF pol.all THEN Joined ELSE {w.k} IN
  /\ order' = [s \in Seats |-> IF s \in who THEN order[s] + 1 ELSE order[s]]
  /\ state' = [s \in Seats |-> IF s \in who THEN "Waiting" ELSE state[s]]

ScanQuiet ==
  /\ Scanning /\ state[w.k] \notin {"Failing", "Crashing"}
  /\ Scanned(IF state[w.k] = "Finished" THEN 1 ELSE 0, w.giveUp)
  /\ UNCHANGED <<board, cpc, run, wpc, waiters, halted, now, log>>

ScanFailing ==
  /\ Scanning /\ state[w.k] = "Failing"
  /\ IF TooMany(now)
       THEN Scanned(0, TRUE) /\ UNCHANGED <<times, restarts, log>>
       ELSE /\ times' = [times EXCEPT ![restarts % Ring] = now]
            /\ restarts' = restarts + 1
            /\ log' = Append(log, now)
            /\ Scanned(0, w.giveUp)
  /\ IF w'.giveUp THEN UNCHANGED <<order, state>> ELSE Again
  /\ UNCHANGED <<pol, n, dirty, dirtyRestarts, stop>>
  /\ UNCHANGED <<cpc, run, wpc, waiters, halted, now>>

ScanCrashing ==
  /\ Scanning /\ state[w.k] = "Crashing"
  /\ dirtyRestarts' = dirtyRestarts + 1
  /\ Scanned(0, w.giveUp)
  /\ IF w.giveUp THEN UNCHANGED <<order, state>> ELSE Again
  /\ UNCHANGED <<pol, n, dirty, times, restarts, stop>>
  /\ UNCHANGED <<cpc, run, wpc, waiters, halted, now, log>>

(* After the loop: give up, return, or wait.  Mutant: who stops the        *)
(* children does not wake them.                                            *)
Stopped_NoSignal(to) == stop' = TRUE /\ wpc' = to /\ UNCHANGED waiters
Stopped(to) == stop' = TRUE /\ wpc' = to /\ SIGNAL

AllDone == n >= Watched /\ w.finished = n

ScanEnd ==
  /\ wpc = "scan" /\ ~halted /\ w.k >= n
  /\ \/ w.giveUp /\ Stopped("gaveup")
     \/ ~w.giveUp /\ AllDone /\ Stopped("done")
     \/ /\ ~w.giveUp /\ ~AllDone
        /\ wpc' = "wait" /\ waiters' = {Watcher} /\ UNCHANGED stop
  /\ UNCHANGED <<pol, n, order, state, dirty, times, restarts, dirtyRestarts>>
  /\ UNCHANGED <<cpc, run, w, halted, now, log>>

Rescan ==
  /\ Free /\ wpc = "wait" /\ Watcher \notin waiters
  /\ wpc' = "scan"
  /\ w' = [w EXCEPT !.k = 0, !.finished = 0]
  /\ UNCHANGED <<board, cpc, run, waiters, halted, now, log>>

Tick ==
  /\ now < MaxTime /\ ~halted
  /\ now' = now + 1
  /\ UNCHANGED <<board, cpc, run, wpc, w, waiters, halted, log>>

-----------------------------------------------------------------------------
Ends(c) == Done(c) \/ Failed(c) \/ Crashed(c) \/ Asked(c)
Watching == Watch \/ ScanQuiet \/ ScanFailing \/ ScanCrashing \/ ScanEnd \/ Rescan

Next ==
  \/ \E p \in Policies : Policy(p)
  \/ \E c \in Children : Join(c) \/ NoSeat(c) \/ Run(c) \/ Ends(c)
  \/ Watching \/ Tick

Spec == Init /\ [][Next]_vars
(* A task that can run is run, and a child's work comes to an end. *)
FairSpec ==
  /\ Spec
  /\ WF_vars(Watching)
  /\ \A c \in Children : WF_vars(Run(c)) /\ WF_vars(Ends(c))

-----------------------------------------------------------------------------
States == {"Waiting", "Running", "Finished", "Failing", "Crashing"}
Locals == [k : Nat, finished : Nat, giveUp : BOOLEAN, most : Nat, window : Nat]

(* Every variable has its type: no more children join than there are seats. *)
TypeOK ==
  /\ pol \in Policies
  /\ n \in 0..Started /\ n <= MaxChildren
  /\ order \in [Seats -> Nat]
  /\ state \in [Seats -> States]
  /\ dirty \in [Seats -> Nat]
  /\ times \in [0 .. Ring - 1 -> Nat]
  /\ restarts \in Nat /\ dirtyRestarts \in Nat
  /\ stop \in BOOLEAN /\ halted \in BOOLEAN
  /\ cpc \in [Children -> {"new", "run", "work", "gone"}]
  /\ run \in [Children -> Nat]
  /\ wpc \in {"out", "scan", "wait", "done", "gaveup"}
  /\ w \in Locals
  /\ waiters \in SUBSET (Children \cup {Watcher})
  /\ now \in 0..MaxTime
  /\ log \in Seq(0..MaxTime)

Alarmed(s) == state[s] \in {"Failing", "Crashing"}

(* Watch returns only when nobody has work to do: each child that joined   *)
(* has run the start ordered last to its end, so no restart is lost to a   *)
(* report of an earlier start, and none is at work.                        *)
ReturnsWhenDone ==
  [][wpc' = "done" /\ wpc # "done" =>
       n >= Watched /\ \A c \in Joined : run[c] = order[c] /\ cpc[c] = "run"]_vars

(* "At most maxRestarts clean restarts in windowMs" (Sup.m9): of any       *)
(* maxRestarts + 1 of them, the last comes after the window of the first.  *)
RestartLimit ==
  \A i \in 1..Len(log) : i + w.most <= Len(log) => log[i + w.most] - log[i] > w.window

(* "It is started again, unless that makes more than maxRestarts restarts  *)
(* in windowMs" (Sup.m9): Watch decides to give up only when one more      *)
(* would have been one too many.                                           *)
OneTooMany(t) ==
  \/ w.most = 0
  \/ Len(log) >= w.most /\ t - log[Len(log) - w.most + 1] <= w.window
GivesUpRightly == [][w'.giveUp /\ ~w.giveUp => OneTooMany(now)]_vars

(* A failure is answered by a restart, or by the end of all. *)
ReportsHeard ==
  \A s \in Seats : Alarmed(s) /\ wpc # "out" ~> ~Alarmed(s) \/ stop \/ halted

(* "Every child has been told to stop": once Watch stops them, they leave. *)
ChildrenStop ==
  \A c \in Children : stop /\ cpc[c] # "new" ~> cpc[c] = "gone" \/ halted
=============================================================================
