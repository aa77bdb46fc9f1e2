----------------------------- MODULE HttpServer -----------------------------
(***************************************************************************)
(* Run of the web server (corpus/HttpServer.m9): one thread accepts        *)
(* connections; a crew of worker THREADs takes them from a ring, or each   *)
(* gets a TASK of its own (cfg.tasks); a stop ends it all.                 *)
(*                                                                         *)
(* Q is a MONITOR: one of its procedures, from its entry or the return of  *)
(* a WAIT to its next WAIT or its end, is one step.  A worker's code       *)
(* between two such steps is cut where it looks at the stop, waits for its *)
(* client, runs the program's handler, or answers.                         *)
(*                                                                         *)
(* What a client sends, and whether it does, is its choice; so is what a   *)
(* handler answers.  A handler that calls Stop does what a signal does.    *)
(* Run's checks of its config, the parsing and the wording are left out.   *)
(***************************************************************************)
EXTENDS Integers, FiniteSets

CONSTANTS
  Configs,   (* what cfg may be: tasks, workers, queue, maxOpen, maxConn,
                perConn, and idle, which is idleMs in quarters of a second *)
  MaxConns,  (* bound: the connections that clients open                   *)
  Main       (* the thread that called Run, as a waiter                    *)

ASSUME HttpAssumption ==
  /\ \A c \in Configs :
       /\ c.tasks \in BOOLEAN
       /\ {c.workers, c.queue, c.maxOpen, c.perConn, c.idle} \subseteq Nat \ {0}
       /\ c.maxConn \in Nat
  /\ MaxConns \in Nat
  /\ \A c \in Configs : Main \notin 0 .. c.workers + c.maxOpen - 1

VARIABLES
  cfg,       (* Run's config                                               *)
  main,      (* Run: where it is, k and why                                *)
  st,        (* the counts Run answers; connections is also cfd's name     *)
  stopping,  (* the process's flag: a signal, or Stop                      *)
  q,         (* Srv.q                                                      *)
  slots,     (* Srv.slots                                                  *)
  pc,        (* where each worker, or each slot's task, is                 *)
  ws,        (* each Worker's fd, k and requests; One's served and keep,
                Idle's waited                                              *)
  waiters,   (* who is in WAIT                                             *)
  conns,     (* history: each connection's fate, and how many answers it
                got after the stop                                         *)
  answered,  (* history: the answers of all workers                        *)
  refused    (* history: a THREAD or a TASK could not be started           *)

vars == <<cfg, main, st, stopping, q, slots, pc, ws, waiters, conns, answered, refused>>

Fds == 1 .. MaxConns
cfd == st.connections
Numbers == UNION {0 .. c.workers + c.maxOpen - 1 : c \in Configs}
W == 0 .. (IF cfg.tasks THEN cfg.maxOpen ELSE cfg.workers) - 1

Idler(w) == [fd |-> -1, k |-> w, requests |-> 0, served |-> 0, keep |-> TRUE, waited |-> 0]

Init ==
  /\ cfg \in Configs
  /\ main = [pc |-> IF cfg.tasks THEN "loop" ELSE "start", k |-> 0, why |-> "Drained"]
  /\ st = [connections |-> 0, busy |-> 0, requests |-> 0]
  /\ stopping = FALSE
  /\ q = [fds |-> [i \in 0 .. cfg.queue - 1 |-> 0], head |-> 0, tail |-> 0, count |-> 0,
          closing |-> FALSE, exited |-> 0, requests |-> 0, open |-> 0,
          free |-> [i \in 0 .. cfg.workers - 1 |-> i],
          nfree |-> IF cfg.tasks THEN cfg.workers ELSE 0]
  /\ slots = [i \in 0 .. cfg.maxOpen - 1 |-> i]
  /\ pc = [w \in W |-> "none"]
  /\ ws = [w \in W |-> Idler(w)]
  /\ waiters = {}
  /\ conns = [fd \in Fds |-> [at |-> "none", late |-> 0]]
  /\ answered = 0
  /\ refused = FALSE

Goto(w, to) == pc' = [pc EXCEPT ![w] = to]
MainTo(to)  == main' = [main EXCEPT !.pc = to]
SIGNAL      == waiters' = {}
WAIT(p)     == waiters' = waiters \cup {p}
Fate(fd, s) == conns' = [conns EXCEPT ![fd].at = s]

(* What a worker looks at between requests.  Mutant: it waits for Run to   *)
(* have seen the stop.                                                     *)
Ending_OnlyShut == q.closing
Ending == stopping \/ q.closing

-----------------------------------------------------------------------------
(* Run, on its own thread. *)

StartThread ==
  /\ main.pc = "start"
  /\ IF main.k = cfg.workers
     THEN MainTo("loop") /\ UNCHANGED <<pc, refused>>
     ELSE \/ /\ main' = [main EXCEPT !.k = @ + 1]
             /\ Goto(main.k, "take")
             /\ UNCHANGED refused
          \/ MainTo("raised") /\ refused' = TRUE /\ UNCHANGED pc
  /\ UNCHANGED <<cfg, st, stopping, q, slots, ws, waiters, conns, answered>>

Look ==
  /\ main.pc = "loop"
  /\ main' = IF stopping THEN [main EXCEPT !.pc = "shut", !.why = "Stopped"]
             ELSE IF cfg.maxConn > 0 /\ st.connections >= cfg.maxConn
                  THEN [main EXCEPT !.pc = "shut"]
                  ELSE [main EXCEPT !.pc = "accept"]
  /\ UNCHANGED <<cfg, st, stopping, q, slots, pc, ws, waiters, conns, answered, refused>>

(* AcceptWait: nothing came in the slice, the listener is dead, or a       *)
(* connection came.                                                        *)
AcceptWait ==
  /\ main.pc = "accept"
  /\ \/ MainTo("loop") /\ UNCHANGED <<st, conns>>
     \/ MainTo("shut") /\ UNCHANGED <<st, conns>>
     \/ /\ st.connections < MaxConns
        /\ MainTo("place")
        /\ st' = [st EXCEPT !.connections = @ + 1]
        /\ Fate(st.connections + 1, "open")
  /\ UNCHANGED <<cfg, stopping, q, slots, pc, ws, waiters, answered, refused>>

(* Mutant: one connection too many. *)
Full_OffByOne == q.count > cfg.queue
Full == q.count >= cfg.queue

(* A connection goes into the ring.  Mutant: a worker that sleeps is not   *)
(* told.                                                                   *)
PutIn == q' = [q EXCEPT !.fds[q.tail] = cfd, !.tail = (@ + 1) % cfg.queue, !.count = @ + 1]
Enqueue_NoSignal == PutIn /\ UNCHANGED waiters
Enqueue == PutIn /\ SIGNAL

Offer ==
  /\ main.pc = "place" /\ ~cfg.tasks
  /\ IF Full
     THEN MainTo("busy") /\ UNCHANGED <<q, waiters>>
     ELSE Enqueue /\ MainTo("loop")
  /\ UNCHANGED <<cfg, st, stopping, slots, pc, ws, conns, answered, refused>>

(* Opened, and the Worker of the slot made ready. *)
Opened ==
  /\ main.pc = "place" /\ cfg.tasks
  /\ IF q.open >= cfg.maxOpen
     THEN MainTo("busy") /\ UNCHANGED <<q, ws>>
     ELSE LET k == slots[cfg.maxOpen - (q.open + 1)] IN
          /\ q' = [q EXCEPT !.open = @ + 1]
          /\ ws' = [ws EXCEPT ![k] = [Idler(-1) EXCEPT !.fd = cfd]]
          /\ main' = [main EXCEPT !.pc = "task", !.k = k]
  /\ UNCHANGED <<cfg, st, stopping, slots, pc, waiters, conns, answered, refused>>

StartTask ==
  /\ main.pc = "task"
  /\ \/ Goto(main.k, "idle") /\ MainTo("loop") /\ UNCHANGED <<conns, refused>>
     \/ MainTo("shut") /\ Fate(cfd, "lost") /\ refused' = TRUE /\ UNCHANGED pc
  /\ UNCHANGED <<cfg, st, stopping, q, slots, ws, waiters, answered>>

Busy ==
  /\ main.pc = "busy"
  /\ Fate(cfd, "busy")
  /\ st' = [st EXCEPT !.busy = @ + 1]
  /\ MainTo("loop")
  /\ UNCHANGED <<cfg, stopping, q, slots, pc, ws, waiters, answered, refused>>

(* FINALLY: the listener is closed, then Shut.  Mutant: nobody is told. *)
Closing == q' = [q EXCEPT !.closing = TRUE]
Shut_NoSignal == Closing /\ UNCHANGED waiters
Shut == Closing /\ SIGNAL

Finally ==
  /\ main.pc = "shut"
  /\ Shut
  /\ MainTo("await")
  /\ UNCHANGED <<cfg, st, stopping, slots, pc, ws, conns, answered, refused>>

(* AwaitClosed or AwaitExits.  Mutant: it does not wait for the last. *)
AllEnded_ButOne == IF cfg.tasks THEN q.open <= 1 ELSE q.exited >= cfg.workers - 1
AllEnded == IF cfg.tasks THEN q.open = 0 ELSE q.exited >= cfg.workers

AwaitEnds ==
  /\ main.pc = "await" /\ Main \notin waiters
  /\ IF AllEnded
     THEN MainTo(IF refused THEN "raised" ELSE "totals") /\ UNCHANGED waiters
     ELSE WAIT(Main) /\ UNCHANGED main
  /\ UNCHANGED <<cfg, st, stopping, q, slots, pc, ws, conns, answered, refused>>

Totals ==
  /\ main.pc = "totals"
  /\ st' = [st EXCEPT !.requests = @ + q.requests]
  /\ MainTo("returned")
  /\ UNCHANGED <<cfg, stopping, q, slots, pc, ws, waiters, conns, answered, refused>>

RunNext ==
  StartThread \/ Look \/ AcceptWait \/ Offer \/ Opened \/ StartTask \/ Busy
    \/ Finally \/ AwaitEnds \/ Totals

(* SIGTERM, SIGINT, or Stop. *)
Stop ==
  /\ ~stopping /\ main.pc \notin {"returned", "raised"}
  /\ stopping' = TRUE
  /\ UNCHANGED <<cfg, main, st, q, slots, pc, ws, waiters, conns, answered, refused>>

-----------------------------------------------------------------------------
(* A worker: a THREAD in WorkerRun, or a connection's task in ConnRun. *)

(* Serve1's locals as it starts. *)
Serve(w, fd) ==
  ws' = [ws EXCEPT ![w].fd = fd, ![w].served = 0, ![w].keep = TRUE, ![w].waited = 0]

Take(w) ==
  /\ pc[w] = "take" /\ w \notin waiters
  /\ IF q.count > 0
     THEN /\ q' = [q EXCEPT !.head = (@ + 1) % cfg.queue, !.count = @ - 1]
          /\ Serve(w, q.fds[q.head])
          /\ Goto(w, "idle")
          /\ UNCHANGED waiters
     ELSE /\ IF q.closing THEN Goto(w, "exit") /\ UNCHANGED waiters
                          ELSE WAIT(w) /\ UNCHANGED pc
          /\ UNCHANGED <<q, ws>>
  /\ UNCHANGED <<cfg, main, st, stopping, slots, conns, answered, refused>>

(* Idle's look, before each slice. *)
Idle(w) ==
  /\ pc[w] = "idle"
  /\ Goto(w, IF ws[w].served > 0 /\ Ending THEN "close" ELSE "wait")
  /\ UNCHANGED <<cfg, main, st, stopping, q, slots, ws, waiters, conns, answered, refused>>

(* A slice ends with octets to read, or with nothing. *)
Slice(w) ==
  /\ pc[w] = "wait"
  /\ \/ Goto(w, "read") /\ UNCHANGED ws
     \/ /\ ws' = [ws EXCEPT ![w].waited = @ + 1]
        /\ Goto(w, IF ws[w].waited + 1 < cfg.idle THEN "idle" ELSE "close")
  /\ UNCHANGED <<cfg, main, st, stopping, q, slots, waiters, conns, answered, refused>>

(* Tally: one more request answered on the connection. *)
Answered(w) ==
  /\ conns' = [conns EXCEPT ![ws[w].fd].late = IF stopping THEN @ + 1 ELSE @]
  /\ answered' = answered + 1

(* One: empty lines before a request are passed over, and it waits anew,   *)
(* as often as the client sends them, also after a stop.                   *)
EmptyLines(w) ==
  /\ pc[w] = "read"
  /\ ws' = [ws EXCEPT ![w].waited = 0]
  /\ Goto(w, "idle")
  /\ UNCHANGED <<cfg, main, st, stopping, q, slots, waiters, conns, answered, refused>>

(* One reads a request: the client is gone or silent, the request is       *)
(* refused, or it goes to the handler.                                     *)
Read(w) ==
  /\ pc[w] = "read"
  /\ \/ Goto(w, "close") /\ UNCHANGED <<ws, conns, answered>>
     \/ Answered(w) /\ ws' = [ws EXCEPT ![w].requests = @ + 1] /\ Goto(w, "close")
     \/ \E asked \in BOOLEAN :
          /\ ws' = [ws EXCEPT ![w].keep =
                      asked /\ ws[w].served + 1 < cfg.perConn /\ ~Ending]
          /\ Goto(w, IF cfg.tasks THEN "token" ELSE "handle")
          /\ UNCHANGED <<conns, answered>>
  /\ UNCHANGED <<cfg, main, st, stopping, q, slots, waiters, refused>>

TakeToken(w) ==
  /\ pc[w] = "token" /\ w \notin waiters
  /\ IF q.nfree = 0
     THEN WAIT(w) /\ UNCHANGED <<q, ws, pc>>
     ELSE /\ q' = [q EXCEPT !.nfree = @ - 1]
          /\ ws' = [ws EXCEPT ![w].k = q.free[q.nfree - 1]]
          /\ Goto(w, "handle")
          /\ UNCHANGED waiters
  /\ UNCHANGED <<cfg, main, st, stopping, slots, conns, answered, refused>>

(* Dispatch, and Answer1's look at the stop. *)
Handle(w) ==
  /\ pc[w] = "handle"
  /\ \E close \in BOOLEAN : ws' = [ws EXCEPT ![w].keep = @ /\ ~close /\ ~Ending]
  /\ Goto(w, "send")
  /\ UNCHANGED <<cfg, main, st, stopping, q, slots, waiters, conns, answered, refused>>

(* The next turn of Serve1's loop: a request already read ahead, or none. *)
NextTurn(w, keep) ==
  IF keep THEN \E to \in {"idle", "read"} : Goto(w, to) ELSE Goto(w, "close")

(* Send, whole or not; or it raises, and no answer is counted. *)
Send(w) ==
  /\ pc[w] = "send"
  /\ \E sent, raised \in BOOLEAN :
       LET keep == ws[w].keep /\ sent /\ ~raised IN
       /\ IF raised THEN UNCHANGED <<conns, answered>> ELSE Answered(w)
       /\ ws' = [ws EXCEPT ![w].requests = IF raised THEN @ ELSE @ + 1,
                           ![w].keep = keep, ![w].served = @ + 1, ![w].waited = 0]
       /\ IF cfg.tasks THEN Goto(w, "give") ELSE NextTurn(w, keep)
  /\ UNCHANGED <<cfg, main, st, stopping, q, slots, waiters, refused>>

(* One's FINALLY. *)
GiveToken(w) ==
  /\ pc[w] = "give"
  /\ q' = [q EXCEPT !.free[q.nfree] = ws[w].k, !.nfree = @ + 1]
  /\ SIGNAL
  /\ ws' = [ws EXCEPT ![w].k = -1]
  /\ NextTurn(w, ws[w].keep)
  /\ UNCHANGED <<cfg, main, st, stopping, slots, conns, answered, refused>>

(* Serve1's FINALLY; its locals end. *)
Close(w) ==
  /\ pc[w] = "close"
  /\ Fate(ws[w].fd, "closed")
  /\ Goto(w, IF cfg.tasks THEN "closed" ELSE "take")
  /\ Serve(w, ws[w].fd)
  /\ UNCHANGED <<cfg, main, st, stopping, q, slots, waiters, answered, refused>>

Exited(w) ==
  /\ pc[w] = "exit"
  /\ q' = [q EXCEPT !.requests = @ + ws[w].requests, !.exited = @ + 1]
  /\ SIGNAL
  /\ Goto(w, "gone")
  /\ UNCHANGED <<cfg, main, st, stopping, slots, ws, conns, answered, refused>>

(* Mutant: the slot is put back after the count went down. *)
SlotBack_Late(w) == slots' = [slots EXCEPT ![cfg.maxOpen - (q.open - 1)] = w]
SlotBack(w) == slots' = [slots EXCEPT ![cfg.maxOpen - q.open] = w]

Closed(w) ==
  /\ pc[w] = "closed"
  /\ SlotBack(w)
  /\ q' = [q EXCEPT !.requests = @ + ws[w].requests, !.open = @ - 1]
  /\ SIGNAL
  /\ Goto(w, "none")
  /\ UNCHANGED <<cfg, main, st, stopping, ws, conns, answered, refused>>

WorkerNext(w) ==
  Take(w) \/ Idle(w) \/ Slice(w) \/ EmptyLines(w) \/ Read(w) \/ TakeToken(w)
    \/ Handle(w) \/ Send(w) \/ GiveToken(w) \/ Close(w) \/ Exited(w) \/ Closed(w)

Next == RunNext \/ Stop \/ \E w \in W : WorkerNext(w)

Spec == Init /\ [][Next]_vars

(* Run's thread runs, a slice ends, a handler ends, and a client takes its *)
(* answer or is gone; nobody need ever open a connection or stop the       *)
(* server. The code puts no end to empty lines: that a client stops        *)
(* sending nothing else is assumed.                                        *)
FairSpec ==
  /\ Spec
  /\ WF_vars(RunNext)
  /\ \A w \in Numbers : WF_vars(w \in W /\ WorkerNext(w))
  /\ <>[][\A w \in W : ~EmptyLines(w)]_vars

-----------------------------------------------------------------------------
TypeOK ==
  /\ cfg \in Configs
  /\ main \in [pc: {"start", "loop", "accept", "place", "task", "busy", "shut", "await",
                    "totals", "returned", "raised"},
               k: 0 .. cfg.workers + cfg.maxOpen, why: {"Drained", "Stopped"}]
  /\ st \in [connections: 0 .. MaxConns, busy: 0 .. MaxConns, requests: Nat]
  /\ {stopping, refused} \subseteq BOOLEAN
  /\ q \in [fds: [0 .. cfg.queue - 1 -> Fds \cup {0}], head: 0 .. cfg.queue - 1,
            tail: 0 .. cfg.queue - 1, count: 0 .. cfg.queue, closing: BOOLEAN,
            exited: 0 .. cfg.workers, requests: Nat, open: 0 .. cfg.maxOpen,
            free: [0 .. cfg.workers - 1 -> 0 .. cfg.workers - 1], nfree: 0 .. cfg.workers]
  /\ slots \in [0 .. cfg.maxOpen - 1 -> 0 .. cfg.maxOpen - 1]
  /\ pc \in [W -> {"none", "take", "idle", "wait", "read", "token", "handle", "send", "give",
                   "close", "closed", "exit", "gone"}]
  /\ ws \in [W -> [fd: Fds \cup {-1}, k: -1 .. cfg.workers + cfg.maxOpen, requests: Nat,
                   served: 0 .. cfg.perConn, keep: BOOLEAN, waited: 0 .. cfg.idle]]
  /\ waiters \subseteq W \cup {Main}
  /\ conns \in [Fds -> [at: {"none", "open", "busy", "closed", "lost"}, late: 0 .. cfg.perConn]]
  /\ answered \in Nat

(* The code of a handler, from its dispatch to the last octet sent. *)
Handlers == {w \in W : pc[w] \in {"handle", "send", "give"}}

(* No two handlers run under one worker number, and a number or a          *)
(* connection slot is free exactly when nobody has it: "state indexed by   *)
(* Request.worker is still one handler's at a time" (HttpServer.m9:2463).  *)
OneHolder ==
  LET freeTokens == {q.free[i] : i \in 0 .. q.nfree - 1}
      freeSlots  == {slots[i] : i \in 0 .. cfg.maxOpen - q.open - 1}
      taken      == {w \in W : pc[w] # "none"}
                      \cup (IF main.pc = "task" \/ refused THEN {main.k} ELSE {})
  IN /\ \A v, w \in Handlers : v # w => ws[v].k # ws[w].k
     /\ \A w \in Handlers : ws[w].k \in 0 .. cfg.workers - 1
     /\ cfg.tasks =>
          /\ freeTokens = (0 .. cfg.workers - 1) \ {ws[w].k : w \in Handlers}
          /\ freeSlots = W \ taken
          /\ Cardinality(freeSlots) = cfg.maxOpen - q.open

(* When Run has returned, every worker and task has counted itself out,    *)
(* every connection was closed or answered 503, and st says how many       *)
(* requests and refusals there were: "st holds the counts of the whole     *)
(* run" (HttpServer.m9:367).                                               *)
CountedOut ==
  main.pc = "returned" =>
    /\ \A w \in W : pc[w] \in {"none", "gone"}
    /\ \A fd \in 1 .. st.connections : conns[fd].at \in {"closed", "busy"}
    /\ st.busy = Cardinality({fd \in Fds : conns[fd].at = "busy"})
    /\ st.requests = answered

(* A connection gets at most two answers after a stop, however many        *)
(* requests its client sends ahead: the one that was past Answer1's look   *)
(* when the stop came, and one more, which says close (HttpServer.m9:97).  *)
LastAnswers == \A fd \in Fds : conns[fd].late <= 2

(* Every connection accepted is served until it is closed, or answered     *)
(* 503, also after a stop (HttpServer.m9:97).   The one whose TASK could   *)
(* not be started is lost.                                                 *)
Served ==
  \A fd \in Fds : conns[fd].at = "open" ~> conns[fd].at \in {"busy", "closed", "lost"}

(* A stop ends Run (HttpServer.m9:349), unless a TASK could not be         *)
(* started: AwaitClosed then waits for ever.                               *)
StopEnds == stopping ~> main.pc = "returned" \/ refused

(* "Everything Run starts has ended before it returns, by any path"        *)
(* (HttpServer.m9:366), also when a THREAD cannot be started.              *)
EndedByAnyPath ==
  main.pc \in {"returned", "raised"} => \A w \in W : pc[w] \in {"none", "gone"}
=============================================================================
