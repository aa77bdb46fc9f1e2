------------------------------ MODULE HttpProofs ------------------------------
(***************************************************************************)
(* Run of the web server, for any config of positive sizes and any number  *)
(* of connections: its types, one holder for each worker number and slot,  *)
(* what has ended when Run returns, and how many answers a connection gets *)
(* after a stop.                                                           *)
(***************************************************************************)
EXTENDS HttpServer, FiniteSetTheorems, TLAPS

-----------------------------------------------------------------------------
(* The inductive invariant.  Workers that serve a connection, that are on  *)
(* their way to another, and that have ended.                              *)
Reading == {"idle", "wait", "read", "token", "handle", "send"}
Serving == {w \in W : pc[w] \in Reading \cup {"give", "close"}}
Gone    == {w \in W : pc[w] = "gone"}
Placing == main.pc \in {"place", "busy", "task"}

MainPoints == {"start", "loop", "accept", "place", "task", "busy", "shut", "await",
               "totals", "returned", "raised"}
ThreadPoints == {"none", "take", "idle", "wait", "read", "handle", "send", "close", "exit", "gone"}
TaskPoints   == {"none", "idle", "wait", "read", "token", "handle", "send", "give", "close", "closed"}
Locals == [fd : Fds \cup {-1}, k : Int, requests : Nat, served : Nat, keep : BOOLEAN, waited : Nat]
Queues == [fds : [0 .. cfg.queue - 1 -> Fds \cup {0}], head : 0 .. cfg.queue - 1,
           tail : 0 .. cfg.queue - 1, count : Int, closing : BOOLEAN,
           exited : Nat, requests : Nat, open : Int,
           free : [0 .. cfg.workers - 1 -> Int], nfree : Int]
Types ==
  /\ cfg \in Configs
  /\ main \in [pc : MainPoints, k : Nat, why : {"Drained", "Stopped"}]
  /\ st \in [connections : 0 .. MaxConns, busy : Nat, requests : Nat]
  /\ stopping \in BOOLEAN /\ refused \in BOOLEAN
  /\ q \in Queues
  /\ slots \in [0 .. cfg.maxOpen - 1 -> Int]
  /\ pc \in [W -> IF cfg.tasks THEN TaskPoints ELSE ThreadPoints]
  /\ ws \in [W -> Locals]
  /\ waiters \subseteq W \cup {Main}
  /\ conns \in [Fds -> [at : {"none", "open", "busy", "closed", "lost"}, late : Nat]]
  /\ answered \in Nat

(* Run's own course. *)
MainRight ==
  /\ main.pc \in {"start", "raised"} => ~cfg.tasks
  /\ main.pc = "task" => cfg.tasks
  /\ main.pc = "start" =>
       main.k <= cfg.workers /\ \A w \in W : w >= main.k => pc[w] = "none"
  /\ q.closing => main.pc \in {"await", "totals", "returned", "raised"}
  /\ main.pc \in {"await", "totals", "returned"} => q.closing
  /\ main.pc \in {"totals", "returned"} => AllEnded
  /\ refused => main.pc \in {"shut", "await", "raised"}

(* Threads: their numbers, and who has ended found the ring empty for good. *)
ThreadsRight ==
  /\ q.exited = Cardinality(Gone)
  /\ ~cfg.tasks => \A w \in W :
       /\ ws[w].k = w
       /\ pc[w] \in {"exit", "gone"} => q.closing /\ q.count = 0
  /\ cfg.tasks => q.count = 0

(* The worker numbers of tasks: the first nfree of free are nobody's.      *)
TokensRight ==
  cfg.tasks =>
    /\ q.nfree \in 0 .. cfg.workers /\ q.nfree + Cardinality(Handlers) = cfg.workers
    /\ \A i \in 0 .. q.nfree - 1 : q.free[i] \in 0 .. cfg.workers - 1
    /\ \A i, j \in 0 .. q.nfree - 1 : i # j => q.free[i] # q.free[j]
    /\ \A i \in 0 .. q.nfree - 1, w \in Handlers : q.free[i] # ws[w].k
    /\ \A w \in Handlers : ws[w].k \in 0 .. cfg.workers - 1
    /\ \A v, w \in Handlers : v # w => ws[v].k # ws[w].k
    /\ \A x \in 0 .. cfg.workers - 1 :
         (\E i \in 0 .. q.nfree - 1 : q.free[i] = x) \/ \E w \in Handlers : ws[w].k = x

(* The slots of tasks, likewise; Run holds one while it starts its task.   *)
Held  == IF main.pc = "task" \/ refused THEN {main.k} ELSE {}
Taken == {w \in W : pc[w] # "none"} \cup Held
Spare == cfg.maxOpen - q.open
SlotsRight ==
  cfg.tasks =>
    /\ q.open = Cardinality(Taken) /\ q.open <= cfg.maxOpen
    /\ \A w \in Held : w \in W /\ pc[w] = "none"
    /\ main.pc = "task" => ws[main.k] = [Idler(-1) EXCEPT !.fd = cfd]
    /\ \A i \in 0 .. Spare - 1 : slots[i] \in W \ Taken
    /\ \A i, j \in 0 .. Spare - 1 : i # j => slots[i] # slots[j]
    /\ \A w \in W : w \in Taken \/ \E i \in 0 .. Spare - 1 : slots[i] = w

(* The ring, from its head on. *)
Slot(i) == IF q.head + i < cfg.queue THEN q.head + i ELSE q.head + i - cfg.queue
Queued(i) == q.fds[Slot(i)]
RingRight == q.count \in 0 .. cfg.queue /\ q.tail = (q.head + q.count) % cfg.queue

(* Each open connection is in one place: in Run's hands, in the ring, or   *)
(* with a worker.                                                          *)
InRing == 0 .. q.count - 1
ConnsRight ==
  /\ \A fd \in Fds : conns[fd].at = "none" <=> fd > cfd
  /\ Placing => cfd > 0 /\ conns[cfd].at = "open"
  /\ \A i \in InRing : Queued(i) \in Fds /\ conns[Queued(i)].at = "open"
  /\ \A w \in Serving : ws[w].fd \in Fds /\ conns[ws[w].fd].at = "open"
  /\ \A i \in InRing : Placing => Queued(i) # cfd
  /\ \A w \in Serving : Placing => ws[w].fd # cfd
  /\ \A i, j \in InRing : i # j => Queued(i) # Queued(j)
  /\ \A i \in InRing, w \in Serving : Queued(i) # ws[w].fd
  /\ \A v, w \in Serving : v # w => ws[v].fd # ws[w].fd
  /\ \A fd \in Fds : conns[fd].at = "open" =>
       \/ Placing /\ fd = cfd
       \/ \E i \in InRing : Queued(i) = fd
       \/ \E w \in Serving : ws[w].fd = fd
  /\ \A fd \in Fds : conns[fd].at = "lost" => refused /\ cfg.tasks

(* How far a worker is with its connection, and how many answers it has    *)
(* sent after the stop: with one, the next will not be kept alive.         *)
LateIs(w) == conns[ws[w].fd].late
ServeRight(w) ==
  /\ ws[w].waited <= cfg.idle /\ ws[w].served <= cfg.perConn
  /\ pc[w] \in Reading => ws[w].served < cfg.perConn
  /\ pc[w] \in Reading \cup {"give"} => ws[w].waited < cfg.idle
  /\ pc[w] \in {"token", "handle", "send"} /\ ws[w].keep => ws[w].served + 1 < cfg.perConn
  /\ pc[w] = "give" /\ ws[w].keep => ws[w].served < cfg.perConn
  /\ pc[w] \in Reading => LateIs(w) <= ws[w].served /\ LateIs(w) <= 1
  /\ pc[w] = "give" => LateIs(w) <= ws[w].served
  /\ pc[w] = "give" /\ ws[w].keep => LateIs(w) <= 1
  /\ pc[w] \in {"token", "handle", "send"} /\ ws[w].keep => LateIs(w) = 0
  /\ pc[w] = "none" /\ ~cfg.tasks => ws[w] = Idler(w)
ServesRight == \A w \in W : ServeRight(w)
LateRight ==
  \A fd \in Fds :
    /\ conns[fd].late <= 2 /\ conns[fd].late <= cfg.perConn
    /\ conns[fd].late > 0 => stopping
    /\ Placing /\ fd = cfd => conns[fd].late = 0
    /\ conns[fd].at = "none" => conns[fd].late = 0
    /\ \A i \in InRing : Queued(i) = fd => conns[fd].late = 0

(* The counts: refusals; and the answers, those of the workers that have   *)
(* not counted themselves out added one after another.                     *)
Refusals == {fd \in Fds : conns[fd].at = "busy"}
NotOut(w) == IF pc[w] \in {"none", "gone"} THEN 0 ELSE ws[w].requests
Size == IF cfg.tasks THEN cfg.maxOpen ELSE cfg.workers
Sums(s) ==
  /\ s[0] = 0
  /\ \A w \in 0 .. Size - 1 : s[w + 1] = s[w] + NotOut(w)
  /\ s[Size] + q.requests = answered
CountsRight ==
  /\ st.busy = Cardinality(Refusals)
  /\ \E s \in [0 .. Size -> Int] : Sums(s)
  /\ st.requests = IF main.pc = "returned" THEN q.requests ELSE 0

(* The ranges of what is stored. *)
RangesRight ==
  /\ main.k <= cfg.workers + cfg.maxOpen
  /\ ~cfg.tasks => q.open = 0 /\ q.nfree = 0
  /\ \A i \in 0 .. cfg.workers - 1 : q.free[i] \in 0 .. cfg.workers - 1
  /\ \A i \in 0 .. cfg.maxOpen - 1 : slots[i] \in 0 .. cfg.maxOpen - 1
  /\ \A w \in W : ws[w].k \in -1 .. cfg.workers + cfg.maxOpen

IInv ==
  /\ Types /\ MainRight /\ ThreadsRight /\ TokensRight /\ SlotsRight /\ RingRight
  /\ ConnsRight /\ ServesRight /\ LateRight /\ CountsRight /\ RangesRight

-----------------------------------------------------------------------------
LEMMA ConfigIs ==
  ASSUME cfg \in Configs
  PROVE  /\ cfg.tasks \in BOOLEAN /\ cfg.workers \in Nat \ {0} /\ cfg.queue \in Nat \ {0}
         /\ cfg.maxOpen \in Nat \ {0} /\ cfg.perConn \in Nat \ {0} /\ cfg.idle \in Nat \ {0}
         /\ cfg.maxConn \in Nat /\ MaxConns \in Nat
         /\ Size \in Nat \ {0} /\ W = 0 .. Size - 1 /\ Main \notin W
         /\ cfg.tasks => Size = cfg.maxOpen
         /\ ~cfg.tasks => Size = cfg.workers
<1>1. /\ cfg.tasks \in BOOLEAN /\ cfg.workers \in Nat \ {0} /\ cfg.queue \in Nat \ {0}
      /\ cfg.maxOpen \in Nat \ {0} /\ cfg.perConn \in Nat \ {0} /\ cfg.idle \in Nat \ {0}
      /\ cfg.maxConn \in Nat /\ MaxConns \in Nat /\ Main \notin 0 .. cfg.workers + cfg.maxOpen - 1
  BY HttpAssumption
<1> QED
  BY <1>1 DEF Size, W

LEMMA CfgStays ==
  ASSUME [Next]_vars
  PROVE  cfg' = cfg /\ W' = W /\ Size' = Size
<1>1. cfg' = cfg
  BY DEF Next, RunNext, StartThread, Look, AcceptWait, Offer, Opened, StartTask, Busy, Finally,
     AwaitEnds, Totals, Stop, WorkerNext, Take, Idle, Slice, EmptyLines, Read, TakeToken, Handle,
     Send, GiveToken, Close, Exited, Closed, vars
<1> QED
  BY SMTT(60), <1>1 DEF W, Size

LEMMA WFinite ==
  ASSUME cfg \in Configs, NEW S \in SUBSET W
  PROVE  IsFiniteSet(S) /\ Cardinality(S) \in 0 .. Size
<1>1. IsFiniteSet(W) /\ Cardinality(W) = Size
  BY ConfigIs, FS_Interval
<1> QED
  BY <1>1, ConfigIs, FS_Subset, FS_CardinalityType

(* What the steps do to q, whole.                                          *)
Rec(fds, head, tail, count, closing, exited, requests, open, free, nfree) ==
  [fds |-> fds, head |-> head, tail |-> tail, count |-> count, closing |-> closing,
   exited |-> exited, requests |-> requests, open |-> open, free |-> free, nfree |-> nfree]

LEMMA QIs ==
  ASSUME Types
  PROVE  /\ q = Rec(q.fds, q.head, q.tail, q.count, q.closing, q.exited, q.requests, q.open,
                    q.free, q.nfree)
         /\ PutIn => q' = Rec([q.fds EXCEPT ![q.tail] = cfd], q.head, (q.tail + 1) % cfg.queue,
                    q.count + 1, q.closing, q.exited, q.requests, q.open, q.free, q.nfree)
         /\ Closing => q' = Rec(q.fds, q.head, q.tail, q.count, TRUE, q.exited, q.requests,
                    q.open, q.free, q.nfree)
BY DEF Types, Queues, Rec, PutIn, Closing

LEMMA QSet ==
  ASSUME NEW r \in Queues, NEW v
  PROVE  /\ [r EXCEPT !.head = v] = Rec(r.fds, v, r.tail, r.count, r.closing, r.exited, r.requests,
              r.open, r.free, r.nfree)
         /\ [r EXCEPT !.requests = v] = Rec(r.fds, r.head, r.tail, r.count, r.closing, r.exited, v,
              r.open, r.free, r.nfree)
         /\ [r EXCEPT !.open = v] = Rec(r.fds, r.head, r.tail, r.count, r.closing, r.exited,
              r.requests, v, r.free, r.nfree)
         /\ [r EXCEPT !.nfree = v] = Rec(r.fds, r.head, r.tail, r.count, r.closing, r.exited,
              r.requests, r.open, r.free, v)
         /\ [r EXCEPT !.free = v] = Rec(r.fds, r.head, r.tail, r.count, r.closing, r.exited,
              r.requests, r.open, v, r.nfree)
<1>1. [r EXCEPT !.head = v] = Rec(r.fds, v, r.tail, r.count, r.closing, r.exited, r.requests,
        r.open, r.free, r.nfree)
  BY DEF Queues, Rec
<1>2. [r EXCEPT !.requests = v] = Rec(r.fds, r.head, r.tail, r.count, r.closing, r.exited, v,
        r.open, r.free, r.nfree)
  BY DEF Queues, Rec
<1>3. [r EXCEPT !.open = v] = Rec(r.fds, r.head, r.tail, r.count, r.closing, r.exited,
        r.requests, v, r.free, r.nfree)
  BY DEF Queues, Rec
<1>4. [r EXCEPT !.nfree = v] = Rec(r.fds, r.head, r.tail, r.count, r.closing, r.exited,
        r.requests, r.open, r.free, v)
  BY DEF Queues, Rec
<1>5. [r EXCEPT !.free = v] = Rec(r.fds, r.head, r.tail, r.count, r.closing, r.exited,
        r.requests, r.open, v, r.nfree)
  BY DEF Queues, Rec
<1> QED
  BY <1>1, <1>2, <1>3, <1>4, <1>5

LEMMA QTake ==
  ASSUME Types, NEW v1, NEW v2
  PROVE  [q EXCEPT !.head = v1, !.count = v2] =
           Rec(q.fds, v1, q.tail, v2, q.closing, q.exited, q.requests,
          q.open, q.free, q.nfree)
<1>1. [q EXCEPT !.head = v1] =
        Rec(q.fds, v1, q.tail, q.count, q.closing, q.exited, q.requests,
          q.open, q.free, q.nfree)
  BY QSet DEF Types
<1>2. [Rec(q.fds, v1, q.tail, q.count, q.closing, q.exited, q.requests,
          q.open, q.free, q.nfree) EXCEPT !.count = v2] =
        Rec(q.fds, v1, q.tail, v2, q.closing, q.exited, q.requests,
          q.open, q.free, q.nfree)
  BY DEF Rec
<1> QED
  BY <1>1, <1>2, Zenon

LEMMA QExit ==
  ASSUME Types, NEW v1, NEW v2
  PROVE  [q EXCEPT !.requests = v1, !.exited = v2] =
           Rec(q.fds, q.head, q.tail, q.count, q.closing, v2, v1,
          q.open, q.free, q.nfree)
<1>1. [q EXCEPT !.requests = v1] =
        Rec(q.fds, q.head, q.tail, q.count, q.closing, q.exited, v1,
          q.open, q.free, q.nfree)
  BY QSet DEF Types
<1>2. [Rec(q.fds, q.head, q.tail, q.count, q.closing, q.exited, v1,
          q.open, q.free, q.nfree) EXCEPT !.exited = v2] =
        Rec(q.fds, q.head, q.tail, q.count, q.closing, v2, v1,
          q.open, q.free, q.nfree)
  BY DEF Rec
<1> QED
  BY <1>1, <1>2, Zenon

LEMMA QClose ==
  ASSUME Types, NEW v1, NEW v2
  PROVE  [q EXCEPT !.requests = v1, !.open = v2] =
           Rec(q.fds, q.head, q.tail, q.count, q.closing, q.exited, v1,
          v2, q.free, q.nfree)
<1>1. [q EXCEPT !.requests = v1] =
        Rec(q.fds, q.head, q.tail, q.count, q.closing, q.exited, v1,
          q.open, q.free, q.nfree)
  BY QSet DEF Types
<1>2. [Rec(q.fds, q.head, q.tail, q.count, q.closing, q.exited, v1,
          q.open, q.free, q.nfree) EXCEPT !.open = v2] =
        Rec(q.fds, q.head, q.tail, q.count, q.closing, q.exited, v1,
          v2, q.free, q.nfree)
  BY DEF Rec
<1> QED
  BY <1>1, <1>2, Zenon

LEMMA QFree ==
  ASSUME Types, NEW v1, NEW v2
  PROVE  [q EXCEPT !.free = v1, !.nfree = v2] =
           Rec(q.fds, q.head, q.tail, q.count, q.closing, q.exited, q.requests,
          q.open, v1, v2)
<1>1. [q EXCEPT !.free = v1] =
        Rec(q.fds, q.head, q.tail, q.count, q.closing, q.exited, q.requests,
          q.open, v1, q.nfree)
  BY QSet DEF Types
<1>2. [Rec(q.fds, q.head, q.tail, q.count, q.closing, q.exited, q.requests,
          q.open, v1, q.nfree) EXCEPT !.nfree = v2] =
        Rec(q.fds, q.head, q.tail, q.count, q.closing, q.exited, q.requests,
          q.open, v1, v2)
  BY DEF Rec
<1> QED
  BY <1>1, <1>2, Zenon

(* What the steps do to a Worker, and to a connection.                     *)
Local(fd, k, requests, served, keep, waited) ==
  [fd |-> fd, k |-> k, requests |-> requests, served |-> served, keep |-> keep, waited |-> waited]
WsTo(w, r) == ws' = [ws EXCEPT ![w] = r]
ConnTo(fd, at, late) == conns' = [conns EXCEPT ![fd] = [at |-> at, late |-> late]]

LEMMA LocalIs ==
  ASSUME NEW l \in Locals, NEW fd, NEW k, NEW requests, NEW served, NEW keep, NEW waited
  PROVE  /\ [l EXCEPT !.fd = fd] = Local(fd, l.k, l.requests, l.served, l.keep, l.waited)
         /\ [l EXCEPT !.k = k] = Local(l.fd, k, l.requests, l.served, l.keep, l.waited)
         /\ [l EXCEPT !.requests = requests] =
              Local(l.fd, l.k, requests, l.served, l.keep, l.waited)
         /\ [l EXCEPT !.keep = keep] = Local(l.fd, l.k, l.requests, l.served, keep, l.waited)
         /\ [l EXCEPT !.waited = waited] = Local(l.fd, l.k, l.requests, l.served, l.keep, waited)
BY DEF Locals, Local

LEMMA LocalServe ==
  ASSUME NEW l \in Locals, NEW fd, NEW keep
  PROVE  [l EXCEPT !.fd = fd, !.served = 0, !.keep = keep, !.waited = 0] =
           Local(fd, l.k, l.requests, 0, keep, 0)
<1> DEFINE n == l.k  r == l.requests  s == l.served  b == l.keep  t == l.waited
<1>1. [l EXCEPT !.fd = fd] = Local(fd, n, r, s, b, t)
  BY LocalIs
<1> HIDE DEF n, r, s, b, t
<1>2. /\ [Local(fd, n, r, s, b, t) EXCEPT !.served = 0] = Local(fd, n, r, 0, b, t)
      /\ [Local(fd, n, r, 0, b, t) EXCEPT !.keep = keep] = Local(fd, n, r, 0, keep, t)
      /\ [Local(fd, n, r, 0, keep, t) EXCEPT !.waited = 0] = Local(fd, n, r, 0, keep, 0)
  BY DEF Local
<1>3. [l EXCEPT !.fd = fd, !.served = 0, !.keep = keep, !.waited = 0] =
        Local(fd, n, r, 0, keep, 0)
  BY <1>1, <1>2, Zenon
<1> QED
  BY <1>3 DEF n, r

LEMMA LocalSent ==
  ASSUME NEW l \in Locals, NEW requests, NEW served, NEW keep
  PROVE  [l EXCEPT !.requests = requests, !.keep = keep, !.served = served, !.waited = 0] =
           Local(l.fd, l.k, requests, served, keep, 0)
<1> DEFINE f == l.fd  n == l.k  s == l.served  b == l.keep  t == l.waited
<1>1. [l EXCEPT !.requests = requests] = Local(f, n, requests, s, b, t)
  BY LocalIs
<1> HIDE DEF f, n, s, b, t
<1>2. /\ [Local(f, n, requests, s, b, t) EXCEPT !.keep = keep] = Local(f, n, requests, s, keep, t)
      /\ [Local(f, n, requests, s, keep, t) EXCEPT !.served = served] =
           Local(f, n, requests, served, keep, t)
      /\ [Local(f, n, requests, served, keep, t) EXCEPT !.waited = 0] =
           Local(f, n, requests, served, keep, 0)
  BY DEF Local
<1>3. [l EXCEPT !.requests = requests, !.keep = keep, !.served = served, !.waited = 0] =
        Local(f, n, requests, served, keep, 0)
  BY <1>1, <1>2, Zenon
<1> QED
  BY <1>3 DEF f, n

LEMMA ServeIs ==
  ASSUME Types, NEW w \in W, NEW fd, Serve(w, fd)
  PROVE  WsTo(w, Local(fd, ws[w].k, ws[w].requests, 0, TRUE, 0))
<1>1. ws' = [ws EXCEPT ![w] = [ws[w] EXCEPT !.fd = fd, !.served = 0, !.keep = TRUE, !.waited = 0]]
  BY DEF Types, Serve
<1>2. ws[w] \in Locals
  BY DEF Types
<1>3. PICK keep : keep = TRUE
  OBVIOUS
<1>4. [ws[w] EXCEPT !.fd = fd, !.served = 0, !.keep = keep, !.waited = 0] =
        Local(fd, ws[w].k, ws[w].requests, 0, keep, 0)
  BY <1>2, LocalServe
<1> QED
  BY <1>1, <1>3, <1>4 DEF WsTo

LEMMA WaitedIs ==
  ASSUME Types, NEW w \in W, ws' = [ws EXCEPT ![w].waited = @ + 1]
  PROVE  WsTo(w, Local(ws[w].fd, ws[w].k, ws[w].requests, ws[w].served, ws[w].keep,
                       ws[w].waited + 1))
<1>1. ws' = [ws EXCEPT ![w] = [ws[w] EXCEPT !.waited = ws[w].waited + 1]]
  BY DEF Types, Serve
<1>2. ws[w] \in Locals
  BY DEF Types
<1> QED
  BY <1>1, <1>2, LocalIs DEF WsTo

LEMMA WaitsAnew ==
  ASSUME Types, NEW w \in W, ws' = [ws EXCEPT ![w].waited = 0]
  PROVE  WsTo(w, Local(ws[w].fd, ws[w].k, ws[w].requests, ws[w].served, ws[w].keep, 0))
<1>1. ws' = [ws EXCEPT ![w] = [ws[w] EXCEPT !.waited = 0]]
  BY DEF Types, Serve
<1>2. ws[w] \in Locals
  BY DEF Types
<1> QED
  BY <1>1, <1>2, LocalIs DEF WsTo

LEMMA KeepIs ==
  ASSUME Types, NEW w \in W, NEW keep, ws' = [ws EXCEPT ![w].keep = keep]
  PROVE  WsTo(w, Local(ws[w].fd, ws[w].k, ws[w].requests, ws[w].served, keep, ws[w].waited))
<1>1. ws' = [ws EXCEPT ![w] = [ws[w] EXCEPT !.keep = keep]]
  BY DEF Types, Serve
<1>2. ws[w] \in Locals
  BY DEF Types
<1> QED
  BY <1>1, <1>2, LocalIs DEF WsTo

LEMMA KIs ==
  ASSUME Types, NEW w \in W, NEW k, ws' = [ws EXCEPT ![w].k = k]
  PROVE  WsTo(w, Local(ws[w].fd, k, ws[w].requests, ws[w].served, ws[w].keep, ws[w].waited))
<1>1. ws' = [ws EXCEPT ![w] = [ws[w] EXCEPT !.k = k]]
  BY DEF Types, Serve
<1>2. ws[w] \in Locals
  BY DEF Types
<1> QED
  BY <1>1, <1>2, LocalIs DEF WsTo

LEMMA RequestIs ==
  ASSUME Types, NEW w \in W, ws' = [ws EXCEPT ![w].requests = @ + 1]
  PROVE  WsTo(w, Local(ws[w].fd, ws[w].k, ws[w].requests + 1, ws[w].served, ws[w].keep,
                       ws[w].waited))
<1>1. ws' = [ws EXCEPT ![w] = [ws[w] EXCEPT !.requests = ws[w].requests + 1]]
  BY DEF Types, Serve
<1>2. ws[w] \in Locals
  BY DEF Types
<1> QED
  BY <1>1, <1>2, LocalIs DEF WsTo

LEMMA SentIs ==
  ASSUME Types, NEW w \in W, NEW requests, NEW keep,
         ws' = [ws EXCEPT ![w].requests = requests, ![w].keep = keep, ![w].served = @ + 1,
                          ![w].waited = 0]
  PROVE  WsTo(w, Local(ws[w].fd, ws[w].k, requests, ws[w].served + 1, keep, 0))
<1>1. ws' = [ws EXCEPT ![w] = [ws[w] EXCEPT !.requests = requests, !.keep = keep,
                                         !.served = ws[w].served + 1, !.waited = 0]]
  BY DEF Types, Serve
<1>2. ws[w] \in Locals
  BY DEF Types
<1>3. PICK served : served = ws[w].served + 1
  OBVIOUS
<1>4. [ws[w] EXCEPT !.requests = requests, !.keep = keep, !.served = served, !.waited = 0] =
        Local(ws[w].fd, ws[w].k, requests, served, keep, 0)
  BY <1>2, LocalSent
<1> QED
  BY <1>1, <1>3, <1>4 DEF WsTo

Conns == [at : {"none", "open", "busy", "closed", "lost"}, late : Nat]

LEMMA ConnIs ==
  ASSUME NEW c \in Conns, NEW at, NEW late
  PROVE  /\ [c EXCEPT !.at = at] = [at |-> at, late |-> c.late]
         /\ [c EXCEPT !.late = late] = [at |-> c.at, late |-> late]
BY DEF Conns

LEMMA FateIs ==
  ASSUME Types, NEW fd \in Fds, NEW at, Fate(fd, at)
  PROVE  ConnTo(fd, at, conns[fd].late)
<1>1. conns' = [conns EXCEPT ![fd] = [conns[fd] EXCEPT !.at = at]]
  BY DEF Types, Fate
<1>2. conns[fd] \in Conns
  BY DEF Types, Conns
<1> QED
  BY <1>1, <1>2, ConnIs DEF ConnTo

LEMMA AnsweredIs ==
  ASSUME Types, NEW w \in W, ws[w].fd \in Fds, Answered(w)
  PROVE  /\ ConnTo(ws[w].fd, conns[ws[w].fd].at,
                   IF stopping THEN conns[ws[w].fd].late + 1 ELSE conns[ws[w].fd].late)
         /\ answered' = answered + 1
<1>1. PICK late : late = IF stopping THEN conns[ws[w].fd].late + 1 ELSE conns[ws[w].fd].late
  OBVIOUS
<1>2. conns' = [conns EXCEPT ![ws[w].fd].late = late]
  BY <1>1 DEF Answered
<1>3. ConnTo(ws[w].fd, conns[ws[w].fd].at, late)
  <2>1. conns' = [conns EXCEPT ![ws[w].fd] = [conns[ws[w].fd] EXCEPT !.late = late]]
    BY <1>2 DEF Types
  <2>2. conns[ws[w].fd] \in Conns
    BY DEF Types, Conns
  <2> QED
    BY ZenonT(60), <2>1, <2>2, ConnIs DEF ConnTo
<1> QED
  BY <1>1, <1>3 DEF Answered

(* Every worker's step changes its own place and locals only, and nothing  *)
(* of Run's.                                                               *)
LEMMA WorkerFrame ==
  ASSUME Types, NEW w \in W, WorkerNext(w)
  PROVE  /\ UNCHANGED <<cfg, main, st, stopping, refused>>
         /\ \A v \in W \ {w} : pc'[v] = pc[v] /\ ws'[v] = ws[v]
<1>1. UNCHANGED <<cfg, main, st, stopping, refused>>
  BY ZenonT(60) DEF WorkerNext, Take, Idle, Slice, EmptyLines, Read, TakeToken, Handle, Send, GiveToken,
     Close, Exited, Closed
<1>2. (\E to : Goto(w, to)) \/ UNCHANGED pc
  BY DEF WorkerNext, Take, Idle, Slice, EmptyLines, Read, TakeToken, Handle, Send, GiveToken,
     Close, Exited, Closed, NextTurn
<1>3. (\E r : WsTo(w, r)) \/ UNCHANGED ws
  <2>1. CASE Take(w)
    BY <2>1, ServeIs DEF Take
  <2>2. CASE Slice(w) \/ EmptyLines(w)
    BY <2>2, WaitedIs, WaitsAnew DEF Slice, EmptyLines
  <2>3. CASE Read(w)
    BY <2>3, RequestIs, KeepIs DEF Read
  <2>4. CASE TakeToken(w) \/ GiveToken(w)
    BY <2>4, KIs DEF TakeToken, GiveToken
  <2>5. CASE Handle(w)
    BY <2>5, KeepIs DEF Handle
  <2>6. CASE Send(w)
    <3>1. PICK requests, keep :
            ws' = [ws EXCEPT ![w].requests = requests, ![w].keep = keep, ![w].served = @ + 1,
                             ![w].waited = 0]
      BY ZenonT(60), <2>6 DEF Send
    <3> QED
      BY <3>1, SentIs
  <2>7. CASE Close(w)
    BY <2>7, ServeIs DEF Close
  <2>8. CASE Idle(w) \/ Exited(w) \/ Closed(w)
    BY <2>8 DEF Idle, Exited, Closed
  <2> QED
    BY <2>1, <2>2, <2>3, <2>4, <2>5, <2>6, <2>7, <2>8 DEF WorkerNext
<1>4. \A v \in W \ {w} : pc'[v] = pc[v]
  BY <1>2 DEF Types, Goto
<1>5. \A v \in W \ {w} : ws'[v] = ws[v]
  BY <1>3 DEF Types, WsTo
<1> QED
  BY SMTT(60), <1>1, <1>4, <1>5

-----------------------------------------------------------------------------
LEMMA RecType ==
  ASSUME NEW fds \in [0 .. cfg.queue - 1 -> Fds \cup {0}], NEW head \in 0 .. cfg.queue - 1,
         NEW tail \in 0 .. cfg.queue - 1, NEW count \in Int, NEW closing \in BOOLEAN,
         NEW exited \in Nat, NEW requests \in Nat, NEW open \in Int,
         NEW free \in [0 .. cfg.workers - 1 -> Int], NEW nfree \in Int
  PROVE  Rec(fds, head, tail, count, closing, exited, requests, open, free, nfree) \in Queues
BY DEF Rec, Queues

LEMMA LocalType ==
  ASSUME NEW fd \in Fds \cup {-1}, NEW k \in Int, NEW requests \in Nat, NEW served \in Nat,
         NEW keep \in BOOLEAN, NEW waited \in Nat
  PROVE  Local(fd, k, requests, served, keep, waited) \in Locals
BY DEF Local, Locals

LEMMA IdlerType ==
  ASSUME NEW k \in Int, NEW fd \in Fds \cup {-1}
  PROVE  /\ Idler(k) = Local(-1, k, 0, 0, TRUE, 0) /\ Idler(k) \in Locals
         /\ [Idler(k) EXCEPT !.fd = fd] = Local(fd, k, 0, 0, TRUE, 0)
         /\ [Idler(k) EXCEPT !.fd = fd] \in Locals
<1>1. PICK t : t = TRUE /\ t \in BOOLEAN
  OBVIOUS
<1>2. Idler(k) = Local(-1, k, 0, 0, t, 0)
  BY <1>1 DEF Idler, Local
<1>3. [Local(-1, k, 0, 0, t, 0) EXCEPT !.fd = fd] = Local(fd, k, 0, 0, t, 0)
  BY DEF Local
<1>4. Local(-1, k, 0, 0, t, 0) \in Locals /\ Local(fd, k, 0, 0, t, 0) \in Locals
  BY <1>1, LocalType
<1> QED
  BY <1>1, <1>2, <1>3, <1>4, Zenon

LEMMA ModNat ==
  ASSUME NEW x \in Nat, NEW d \in Nat \ {0}
  PROVE  x % d \in 0 .. d - 1
BY SMT

(* What the types need of the other conjuncts. *)
LEMMA CfdIs ==
  ASSUME Types, ConnsRight, Placing
  PROVE  cfd \in Fds
<1>1. cfd \in 0 .. MaxConns /\ cfd > 0 /\ MaxConns \in Nat
  BY HttpAssumption DEF Types, ConnsRight, cfd
<1> QED
  BY <1>1 DEF Fds

LEMMA WorkerTypes ==
  ASSUME Types, ConnsRight, TokensRight, NEW w \in W, WorkerNext(w)
  PROVE  q' \in Queues /\ ws' \in [W -> Locals] /\ slots' \in [0 .. cfg.maxOpen - 1 -> Int]
<1>0. /\ ws[w] \in Locals /\ q \in Queues /\ cfg.queue \in Nat \ {0} /\ cfg.tasks \in BOOLEAN
      /\ ws[w].fd \in Fds \cup {-1} /\ ws[w].k \in Int /\ ws[w].requests \in Nat
      /\ ws[w].served \in Nat /\ ws[w].keep \in BOOLEAN /\ ws[w].waited \in Nat
      /\ cfg.workers \in Nat /\ w \in Int
  <2>1. /\ cfg.queue \in Nat \ {0} /\ cfg.tasks \in BOOLEAN /\ cfg.workers \in Nat
        /\ Size \in Nat /\ W = 0 .. Size - 1
    BY ConfigIs DEF Types
  <2>2. ws[w] \in Locals /\ q \in Queues
    BY DEF Types
  <2> QED
    BY <2>1, <2>2 DEF Locals
<1>q. /\ q.fds \in [0 .. cfg.queue - 1 -> Fds \cup {0}] /\ q.head \in 0 .. cfg.queue - 1
      /\ q.tail \in 0 .. cfg.queue - 1 /\ q.count \in Int /\ q.closing \in BOOLEAN
      /\ q.exited \in Nat /\ q.requests \in Nat /\ q.open \in Int
      /\ q.free \in [0 .. cfg.workers - 1 -> Int] /\ q.nfree \in Int
  BY <1>0 DEF Queues
<1>l. ASSUME NEW l \in Locals, WsTo(w, l) PROVE ws' \in [W -> Locals]
  BY <1>l DEF WsTo, Types
<1>1. CASE Take(w)
  <2>1. CASE q.count > 0
    <3>1. q' = [q EXCEPT !.head = (@ + 1) % cfg.queue, !.count = @ - 1] /\ Serve(w, q.fds[q.head])
      BY <1>1, <2>1 DEF Take
    <3>2. (q.head + 1) % cfg.queue \in 0 .. cfg.queue - 1
      <4>1. q.head + 1 \in Nat
        BY SMTT(60), <1>0, <1>q
      <4> QED
        BY <1>0, <4>1, ModNat
    <3>3. PICK head \in 0 .. cfg.queue - 1 : head = (q.head + 1) % cfg.queue
      BY <3>2
    <3>4. PICK count \in Int : count = q.count - 1
      BY <1>q
    <3>5. q' \in Queues
      <4>1. q' = [q EXCEPT !.head = head, !.count = count]
        BY <3>1, <3>3, <3>4
      <4>2. q' = Rec(q.fds, head, q.tail, count, q.closing, q.exited, q.requests, q.open,
                     q.free, q.nfree)
        BY <4>1, QTake
      <4> QED
        BY <1>q, <3>3, <3>4, <4>2, RecType
    <3>6. q.fds[q.head] \in Fds \cup {-1}
      <4>1. 0 \in InRing /\ Slot(0) = q.head
        BY SMTT(60), <1>0, <1>q, <2>1 DEF InRing, Slot
      <4> QED
        BY <4>1 DEF ConnsRight, Queued
    <3> QED
      BY <1>0, <1>1, <1>l, <3>1, <3>5, <3>6, ServeIs, LocalType DEF Take, Types
  <2>2. CASE ~(q.count > 0)
    BY <1>1, <2>2 DEF Take, Types
  <2> QED
    BY <2>1, <2>2
<1>2. CASE Idle(w)
  BY <1>2 DEF Idle, Types
<1>3. CASE Slice(w) \/ EmptyLines(w)
  <2>1. \/ ws' = [ws EXCEPT ![w].waited = @ + 1] \/ UNCHANGED ws
        \/ ws' = [ws EXCEPT ![w].waited = 0]
    BY <1>3 DEF Slice, EmptyLines
  <2>2. ws[w].waited + 1 \in Nat
    BY <1>0
  <2>3. UNCHANGED <<q, slots>>
    BY <1>3 DEF Slice, EmptyLines
  <2> QED
    BY <1>0, <1>l, <2>1, <2>2, <2>3, WaitedIs, WaitsAnew, LocalType DEF Types
<1>4. CASE Read(w) \/ Handle(w)
  <2>1. UNCHANGED <<q, slots>>
    BY <1>4 DEF Read, Handle
  <2>2. CASE UNCHANGED ws
    BY <2>1, <2>2 DEF Types
  <2>3. CASE ws' = [ws EXCEPT ![w].requests = @ + 1]
    <3>1. ws[w].requests + 1 \in Nat
      BY <1>0
    <3> QED
      BY <1>0, <1>l, <2>1, <2>3, <3>1, RequestIs, LocalType DEF Types
  <2>4. ASSUME NEW keep \in BOOLEAN, ws' = [ws EXCEPT ![w].keep = keep]
        PROVE  ws' \in [W -> Locals]
    BY <1>0, <1>l, <2>4, KeepIs, LocalType
  <2>5. \/ UNCHANGED ws \/ ws' = [ws EXCEPT ![w].requests = @ + 1]
        \/ \E keep \in BOOLEAN : ws' = [ws EXCEPT ![w].keep = keep]
    <3>1. CASE Read(w)
      BY <3>1 DEF Read
    <3>2. CASE Handle(w)
      <4>1. PICK close \in BOOLEAN : ws' = [ws EXCEPT ![w].keep = @ /\ ~close /\ ~Ending]
        BY <3>2 DEF Handle
      <4>2. PICK keep \in BOOLEAN : keep = (ws[w].keep /\ ~close /\ ~Ending)
        OBVIOUS
      <4>3. ws' = [ws EXCEPT ![w].keep = keep]
        BY <4>1, <4>2
      <4> QED
        BY <4>3
    <3> QED
      BY <1>4, <3>1, <3>2
  <2> QED
    BY <2>1, <2>2, <2>3, <2>4, <2>5 DEF Types
<1>5. CASE TakeToken(w)
  <2>1. CASE q.nfree = 0
    BY <1>5, <2>1 DEF TakeToken, Types
  <2>2. CASE q.nfree # 0
    <3>1. q' = [q EXCEPT !.nfree = @ - 1] /\ ws' = [ws EXCEPT ![w].k = q.free[q.nfree - 1]] /\ slots' = slots
      BY <1>5, <2>2 DEF TakeToken
    <3>2. q' \in Queues
      <4>1. PICK nfree \in Int : nfree = q.nfree - 1
        BY <1>q
      <4>2. q' = Rec(q.fds, q.head, q.tail, q.count, q.closing, q.exited, q.requests, q.open,
                     q.free, nfree)
        BY <1>0, <3>1, <4>1, QSet
      <4> QED
        BY <1>q, <4>1, <4>2, RecType
    <3>3. q.free[q.nfree - 1] \in Int
      <4>1. cfg.tasks /\ q.nfree - 1 \in 0 .. cfg.workers - 1
        <5>1. cfg.tasks
          BY <1>0, <1>5 DEF TakeToken, Types, ThreadPoints
        <5> QED
          <6>1. q.nfree \in 0 .. cfg.workers
            BY <5>1 DEF TokensRight
          <6> QED
            BY <1>0, <2>2, <5>1, <6>1
      <4> QED
        BY <1>q, <4>1
    <3> QED
      BY ZenonT(60), <1>0, <1>l, <3>1, <3>2, <3>3, KIs, LocalType DEF Types
  <2> QED
    BY <2>1, <2>2
<1>6. CASE Send(w)
  <2>1. PICK sent \in BOOLEAN, raised \in BOOLEAN :
          ws' = [ws EXCEPT ![w].requests = IF raised THEN @ ELSE @ + 1,
                           ![w].keep = ws[w].keep /\ sent /\ ~raised, ![w].served = @ + 1,
                           ![w].waited = 0]
    BY <1>6 DEF Send
  <2>2. PICK requests \in Nat :
          requests = IF raised THEN ws[w].requests ELSE ws[w].requests + 1
    BY <1>0
  <2>3. PICK keep \in BOOLEAN : keep = (ws[w].keep /\ sent /\ ~raised)
    OBVIOUS
  <2>4. ws' = [ws EXCEPT ![w].requests = requests, ![w].keep = keep, ![w].served = @ + 1,
                         ![w].waited = 0]
    BY <2>1, <2>2, <2>3
  <2>5. ws[w].served + 1 \in Nat
    BY <1>0
  <2>6. UNCHANGED <<q, slots>>
    BY <1>6 DEF Send
  <2> QED
    BY <1>0, <1>l, <2>4, <2>5, <2>6, SentIs, LocalType DEF Types
<1>7. CASE GiveToken(w)
  <2>1. /\ q' = [q EXCEPT !.free[q.nfree] = ws[w].k, !.nfree = @ + 1]
        /\ ws' = [ws EXCEPT ![w].k = -1] /\ slots' = slots
    BY <1>7 DEF GiveToken
  <2>2. PICK free \in [0 .. cfg.workers - 1 -> Int] : free = [q.free EXCEPT ![q.nfree] = ws[w].k]
    <3>1. [q.free EXCEPT ![q.nfree] = ws[w].k] \in [0 .. cfg.workers - 1 -> Int]
      BY <1>0, <1>q
    <3> QED
      BY <3>1
  <2>n. PICK nfree \in Int : nfree = q.nfree + 1
    BY <1>q
  <2>3. q' = Rec(q.fds, q.head, q.tail, q.count, q.closing, q.exited, q.requests, q.open,
                 free, nfree)
    <3>1. q' = [q EXCEPT !.free = free, !.nfree = nfree]
      BY <1>q, <2>1, <2>2, <2>n
    <3> QED
      BY <3>1, QFree
  <2>4. q' \in Queues
    BY <1>q, <2>2, <2>n, <2>3, RecType
  <2> QED
    <3>1. WsTo(w, Local(ws[w].fd, -1, ws[w].requests, ws[w].served, ws[w].keep, ws[w].waited))
      BY <2>1, KIs
    <3>2. Local(ws[w].fd, -1, ws[w].requests, ws[w].served, ws[w].keep, ws[w].waited) \in Locals
      BY <1>0 DEF Local, Locals
    <3> QED
      BY <1>l, <2>1, <2>4, <3>1, <3>2 DEF Types
<1>8. CASE Close(w)
  BY <1>0, <1>8, <1>l, ServeIs, LocalType DEF Close, Types
<1>9. CASE Exited(w) \/ Closed(w)
  <2>1. PICK requests \in Nat : requests = q.requests + ws[w].requests
    BY SMTT(60), <1>0, <1>q
  <2>2. PICK exited \in Nat, open \in Int : exited = q.exited + 1 /\ open = q.open - 1
    BY <1>q
  <2>3. /\ \/ q' = [q EXCEPT !.requests = requests, !.exited = exited]
           \/ q' = [q EXCEPT !.requests = requests, !.open = open]
        /\ ws' = ws
    BY <1>9, <2>1, <2>2 DEF Exited, Closed
  <2>4. \/ q' = Rec(q.fds, q.head, q.tail, q.count, q.closing, exited, requests, q.open,
                    q.free, q.nfree)
        \/ q' = Rec(q.fds, q.head, q.tail, q.count, q.closing, q.exited, requests, open,
                    q.free, q.nfree)
    BY <2>3, QExit, QClose
  <2>5. q' \in Queues
    <3>1. /\ Rec(q.fds, q.head, q.tail, q.count, q.closing, exited, requests, q.open,
                 q.free, q.nfree) \in Queues
          /\ Rec(q.fds, q.head, q.tail, q.count, q.closing, q.exited, requests, open,
                 q.free, q.nfree) \in Queues
      BY <1>q, RecType
    <3> QED
      BY <2>4, <3>1
  <2>6. slots' \in [0 .. cfg.maxOpen - 1 -> Int]
    BY <1>0, <1>9 DEF Exited, Closed, SlotBack, Types
  <2> QED
    BY <2>3, <2>5, <2>6 DEF Types
<1> QED
  BY <1>1, <1>2, <1>3, <1>4, <1>5, <1>6, <1>7, <1>8, <1>9 DEF WorkerNext

LEMMA WorkerRest ==
  ASSUME Types, ConnsRight, NEW w \in W, WorkerNext(w)
  PROVE  /\ pc' \in [W -> IF cfg.tasks THEN TaskPoints ELSE ThreadPoints]
         /\ waiters' \subseteq W \cup {Main}
         /\ conns' \in [Fds -> Conns] /\ answered' \in Nat
<1>0. cfg.tasks \in BOOLEAN /\ conns \in [Fds -> Conns] /\ answered \in Nat
  BY ConfigIs DEF Types, Conns
<1> DEFINE Points == IF cfg.tasks THEN TaskPoints ELSE ThreadPoints
<1>1. (\E to \in Points : Goto(w, to)) \/ UNCHANGED pc
  <2>0. pc[w] \in Points /\ cfg.tasks \in BOOLEAN
    BY <1>0 DEF Types
  <2>1. CASE Take(w)
    <3>1. ~cfg.tasks /\ ((\E to \in {"idle", "exit"} : Goto(w, to)) \/ UNCHANGED pc)
      BY <2>0, <2>1 DEF Take, TaskPoints
    <3> QED
      BY <3>1 DEF ThreadPoints
  <2>2. CASE Idle(w) \/ Slice(w) \/ EmptyLines(w)
    <3>1. \E to \in {"close", "wait", "read", "idle"} : Goto(w, to)
      BY <2>2 DEF Idle, Slice, EmptyLines
    <3> QED
      BY <3>1 DEF ThreadPoints, TaskPoints
  <2>3. CASE Read(w)
    <3>1. \/ Goto(w, "close")
          \/ cfg.tasks /\ Goto(w, "token")
          \/ ~cfg.tasks /\ Goto(w, "handle")
      BY <1>0, <2>3 DEF Read
    <3> QED
      BY <3>1 DEF ThreadPoints, TaskPoints
  <2>4. CASE TakeToken(w) \/ Handle(w)
    <3>1. UNCHANGED pc \/ \E to \in {"handle", "send"} : Goto(w, to)
      BY <2>4 DEF TakeToken, Handle
    <3> QED
      BY <3>1 DEF ThreadPoints, TaskPoints
  <2>5. CASE Send(w) \/ GiveToken(w)
    <3>1. (cfg.tasks /\ Goto(w, "give")) \/ \E to \in {"idle", "read", "close"} : Goto(w, to)
      BY <1>0, <2>5 DEF Send, GiveToken, NextTurn
    <3> QED
      BY SMTT(60), <3>1 DEF ThreadPoints, TaskPoints
  <2>6. CASE Close(w)
    <3>1. (cfg.tasks /\ Goto(w, "closed")) \/ (~cfg.tasks /\ Goto(w, "take"))
      BY <1>0, <2>6 DEF Close
    <3> QED
      BY <3>1 DEF ThreadPoints, TaskPoints
  <2>7. CASE Exited(w)
    <3>1. ~cfg.tasks /\ Goto(w, "gone")
      BY <2>0, <2>7 DEF Exited, TaskPoints
    <3> QED
      BY <3>1 DEF ThreadPoints
  <2>8. CASE Closed(w)
    <3>1. Goto(w, "none")
      BY <2>8 DEF Closed
    <3> QED
      BY <3>1 DEF ThreadPoints, TaskPoints
  <2> QED
    BY <2>1, <2>2, <2>3, <2>4, <2>5, <2>6, <2>7, <2>8 DEF WorkerNext
<1>2. pc' \in [W -> Points]
  BY SMTT(60), <1>1 DEF Types, Goto
<1>3. waiters' \subseteq W \cup {Main}
  BY DEF WorkerNext, Take, Idle, Slice, EmptyLines, Read, TakeToken, Handle, Send, GiveToken,
     Close, Exited, Closed, SIGNAL, WAIT, Types
<1>4. ASSUME NEW fd \in Fds, NEW at \in {"none", "open", "busy", "closed", "lost"},
             NEW late \in Nat, ConnTo(fd, at, late)
      PROVE  conns' \in [Fds -> Conns]
  BY <1>0, <1>4 DEF ConnTo, Conns
<1>5. ASSUME Answered(w), ws[w].fd \in Fds
      PROVE  conns' \in [Fds -> Conns] /\ answered' \in Nat
  <2>1. conns[ws[w].fd].at \in {"none", "open", "busy", "closed", "lost"} /\ conns[ws[w].fd].late \in Nat
    BY <1>0, <1>5 DEF Conns
  <2>2. (IF stopping THEN conns[ws[w].fd].late + 1 ELSE conns[ws[w].fd].late) \in Nat
    BY <2>1
  <2> QED
    BY <1>0, <1>4, <1>5, <2>1, <2>2, AnsweredIs
<1>6. pc[w] \in {"read", "send", "close"} => ws[w].fd \in Fds
  BY DEF ConnsRight, Serving, Reading
<1>7. conns' \in [Fds -> Conns] /\ answered' \in Nat
  <2>1. CASE Close(w)
    <3>1. ws[w].fd \in Fds /\ Fate(ws[w].fd, "closed") /\ answered' = answered
      BY <1>6, <2>1 DEF Close
    <3>2. conns[ws[w].fd].late \in Nat
      BY <1>0, <3>1 DEF Conns
    <3> QED
      BY <1>0, <1>4, <3>1, <3>2, FateIs
  <2>2. CASE Read(w) \/ Send(w)
    <3>1. Answered(w) \/ UNCHANGED <<conns, answered>>
      BY ZenonT(60), <2>2 DEF Read, Send
    <3>2. pc[w] \in {"read", "send"}
      BY <2>2 DEF Read, Send
    <3> QED
      BY SMTT(60), <1>0, <1>5, <1>6, <3>1, <3>2
  <2>3. CASE ~(Close(w) \/ Read(w) \/ Send(w))
    BY <1>0, <2>3 DEF WorkerNext, Take, Idle, Slice, EmptyLines, TakeToken, Handle, GiveToken,
       Exited, Closed
  <2> QED
    BY <2>1, <2>2, <2>3
<1> QED
  BY <1>2, <1>3, <1>7

LEMMA TypesNext ==
  ASSUME IInv, [Next]_vars
  PROVE  Types'
<1> USE DEF IInv
<1>0. /\ cfg' = cfg /\ W' = W /\ Queues' = Queues
  BY CfgStays DEF Queues
<1>c. /\ cfg.tasks \in BOOLEAN /\ cfg.queue \in Nat \ {0} /\ cfg.workers \in Nat \ {0}
      /\ cfg.maxOpen \in Nat \ {0} /\ MaxConns \in Nat /\ Size \in Nat \ {0} /\ W = 0 .. Size - 1
      /\ (cfg.tasks => Size = cfg.maxOpen) /\ (~cfg.tasks => Size = cfg.workers)
  BY ConfigIs DEF Types
<1> DEFINE Mains  == [pc : MainPoints, k : Nat, why : {"Drained", "Stopped"}]
           Sts    == [connections : 0 .. MaxConns, busy : Nat, requests : Nat]
           Points == IF cfg.tasks THEN TaskPoints ELSE ThreadPoints
           Main_  == main' \in Mains
           St_    == st' \in Sts
           Q_     == q' \in Queues
           Pc_    == pc' \in [W -> Points]
           Ws_    == ws' \in [W -> Locals]
           Conns_ == conns' \in [Fds -> Conns]
           Rest_  == /\ stopping' \in BOOLEAN /\ refused' \in BOOLEAN /\ answered' \in Nat
                     /\ slots' \in [0 .. cfg.maxOpen - 1 -> Int] /\ waiters' \subseteq W \cup {Main}
<1>t. /\ main \in Mains /\ st \in Sts /\ q \in Queues /\ pc \in [W -> Points] /\ ws \in [W -> Locals]
      /\ conns \in [Fds -> Conns] /\ stopping \in BOOLEAN /\ refused \in BOOLEAN /\ answered \in Nat
      /\ slots \in [0 .. cfg.maxOpen - 1 -> Int] /\ waiters \subseteq W \cup {Main}
  BY DEF Types, Conns
<1>q. /\ q.fds \in [0 .. cfg.queue - 1 -> Fds \cup {0}] /\ q.head \in 0 .. cfg.queue - 1
      /\ q.tail \in 0 .. cfg.queue - 1 /\ q.count \in Int /\ q.closing \in BOOLEAN
      /\ q.exited \in Nat /\ q.requests \in Nat /\ q.open \in Int
      /\ q.free \in [0 .. cfg.workers - 1 -> Int] /\ q.nfree \in Int
  BY <1>t DEF Queues
<1>m. ASSUME NEW to \in MainPoints, MainTo(to) PROVE Main_
  BY <1>t, <1>m DEF MainTo
<1>p. ASSUME NEW w \in W, NEW to \in Points, Goto(w, to) PROVE Pc_
  BY <1>t, <1>p DEF Goto
<1>f. ASSUME NEW fd \in Fds, NEW at \in {"none", "open", "busy", "closed", "lost"}, Fate(fd, at)
      PROVE  Conns_
  <2>1. conns[fd].late \in Nat
    BY <1>t DEF Conns
  <2>2. [at |-> at, late |-> conns[fd].late] \in Conns
    BY <2>1 DEF Conns
  <2> QED
    BY <1>f, <1>t, <2>2, FateIs DEF ConnTo
<1>z. Main_ /\ St_ /\ Q_ /\ Pc_ /\ Ws_ /\ Conns_ /\ Rest_ => Types'
  BY <1>0 DEF Types, Conns
<1> USE DEF MainPoints
<1>1. ASSUME NEW w \in W, WorkerNext(w) PROVE Types'
  <2>1. Q_ /\ Ws_ /\ Pc_ /\ Conns_ /\ Rest_
    BY <1>1, <1>t, WorkerTypes, WorkerRest, WorkerFrame
  <2> QED
    BY <1>1, <1>t, <1>z, <2>1, WorkerFrame
<1>2. CASE StartThread
  <2>0. main.pc = "start" /\ main.k \in Nat /\ ~cfg.tasks /\ main.k <= cfg.workers
    BY <1>2, <1>t DEF StartThread, MainRight
  <2>1. CASE main.k = cfg.workers
    BY <1>2, <1>m, <1>t, <1>z, <2>1 DEF StartThread
  <2>2. CASE main.k # cfg.workers
    <3>1. main.k \in W /\ main.k + 1 \in Nat /\ "take" \in Points
      BY <1>c, <2>0, <2>2 DEF ThreadPoints
    <3>2. CASE main' = [main EXCEPT !.k = @ + 1] /\ Goto(main.k, "take") /\ UNCHANGED refused
      <4>1. Main_
        BY <1>t, <3>1, <3>2
      <4>2. Pc_
        BY <1>p, <3>1, <3>2
      <4> QED
        BY <1>2, <1>t, <1>z, <3>2, <4>1, <4>2 DEF StartThread
    <3>3. CASE MainTo("raised") /\ refused' = TRUE /\ UNCHANGED pc
      BY <1>2, <1>m, <1>t, <1>z, <3>3 DEF StartThread
    <3> QED
      BY <1>2, <2>2, <3>2, <3>3 DEF StartThread
  <2> QED
    BY <2>1, <2>2
<1>3. CASE Look
  <2>1. Main_
    <3>1. /\ [main EXCEPT !.pc = "shut", !.why = "Stopped"] \in Mains
          /\ [main EXCEPT !.pc = "shut"] \in Mains /\ [main EXCEPT !.pc = "accept"] \in Mains
      BY <1>t
    <3> QED
      BY <1>3, <3>1 DEF Look
  <2> QED
    BY <1>3, <1>t, <1>z, <2>1 DEF Look
<1>4. CASE AcceptWait
  <2>1. Main_
    BY <1>4, <1>m DEF AcceptWait
  <2>2. St_ /\ Conns_
    <3>1. CASE UNCHANGED <<st, conns>>
      BY <1>t, <3>1
    <3>2. CASE /\ st.connections < MaxConns /\ st' = [st EXCEPT !.connections = @ + 1]
               /\ Fate(st.connections + 1, "open")
      <4>1. st.connections + 1 \in 0 .. MaxConns /\ st.connections + 1 \in Fds
        BY <1>c, <1>t, <3>2 DEF Fds
      <4>2. St_
        BY <1>t, <3>2, <4>1
      <4>3. Conns_
        BY <1>f, <3>2, <4>1
      <4> QED
        BY <4>2, <4>3
    <3> QED
      BY <1>4, <3>1, <3>2 DEF AcceptWait
  <2> QED
    BY <1>4, <1>t, <1>z, <2>1, <2>2 DEF AcceptWait
<1>5. CASE Offer
  <2>0. cfd \in Fds
    BY <1>5, CfdIs DEF Offer, Placing
  <2>1. Main_
    BY <1>5, <1>m DEF Offer
  <2>2. Q_ /\ waiters' \subseteq W \cup {Main}
    <3>1. CASE UNCHANGED <<q, waiters>>
      BY <1>t, <3>1
    <3>2. CASE Enqueue
      <4>1. PICK fds \in [0 .. cfg.queue - 1 -> Fds \cup {0}] : fds = [q.fds EXCEPT ![q.tail] = cfd]
        <5>1. [q.fds EXCEPT ![q.tail] = cfd] \in [0 .. cfg.queue - 1 -> Fds \cup {0}]
          BY <1>q, <2>0
        <5> QED
          BY <5>1
      <4>2. PICK tail \in 0 .. cfg.queue - 1, count \in Int :
              tail = (q.tail + 1) % cfg.queue /\ count = q.count + 1
        <5>1. q.tail + 1 \in Nat /\ q.count + 1 \in Int
          BY SMTT(60), <1>c, <1>q
        <5> QED
          BY <1>c, <5>1, ModNat
      <4>3. q' = Rec(fds, q.head, tail, count, q.closing, q.exited, q.requests, q.open, q.free, q.nfree)
        BY <3>2, <4>1, <4>2, QIs DEF Enqueue
      <4>4. Q_
        BY <1>q, <4>3, RecType
      <4> QED
        BY <3>2, <4>4 DEF Enqueue, SIGNAL
    <3> QED
      BY <1>5, <3>1, <3>2 DEF Offer
  <2> QED
    BY <1>5, <1>t, <1>z, <2>1, <2>2 DEF Offer
<1>6. CASE Opened
  <2>0. cfd \in Fds /\ cfg.tasks /\ q.open \in Nat
    <3>1. cfd \in Fds /\ cfg.tasks
      BY <1>6, CfdIs DEF Opened, Placing
    <3>2. q.open = Cardinality(Taken)
      BY <3>1 DEF SlotsRight
    <3>3. Taken \in SUBSET W
      BY <3>1 DEF Taken, SlotsRight
    <3> QED
      BY <1>c, <3>1, <3>2, <3>3, WFinite DEF Types
  <2>1. CASE q.open >= cfg.maxOpen
    BY <1>6, <1>m, <1>t, <1>z, <2>1 DEF Opened
  <2>2. CASE ~(q.open >= cfg.maxOpen)
    <3>1. PICK k : k = slots[cfg.maxOpen - (q.open + 1)]
      OBVIOUS
    <3>2. /\ q' = [q EXCEPT !.open = @ + 1]
          /\ ws' = [ws EXCEPT ![k] = [Idler(-1) EXCEPT !.fd = cfd]]
          /\ main' = [main EXCEPT !.pc = "task", !.k = k]
      BY <1>6, <2>2, <3>1 DEF Opened
    <3>3. cfg.maxOpen - (q.open + 1) \in 0 .. Spare - 1
      BY <1>c, <2>0, <2>2 DEF Spare
    <3>4. k \in W /\ k \in Nat
      BY <1>c, <2>0, <3>1, <3>3 DEF SlotsRight
    <3>5. Main_
      BY <1>t, <3>2, <3>4
    <3>6. Q_
      <4>1. PICK open \in Int : open = q.open + 1
        BY <1>q
      <4>2. q' = Rec(q.fds, q.head, q.tail, q.count, q.closing, q.exited, q.requests, open,
                     q.free, q.nfree)
        BY <1>t, <3>2, <4>1, QSet
      <4> QED
        BY <1>q, <4>2, RecType
    <3>7. [Idler(-1) EXCEPT !.fd = cfd] \in Locals
      <4>1. PICK m \in Int : m = -1
        OBVIOUS
      <4>2. [Idler(m) EXCEPT !.fd = cfd] \in Locals
        BY <2>0, IdlerType
      <4> QED
        BY <4>1, <4>2
    <3>8. Ws_
      BY <1>t, <3>2, <3>4, <3>7
    <3> QED
      BY <1>6, <1>t, <1>z, <3>5, <3>6, <3>8 DEF Opened
  <2> QED
    BY <2>1, <2>2
<1>7. CASE StartTask
  <2>0. cfd \in Fds /\ cfg.tasks /\ main.k \in W
    <3>1. main.pc = "task"
      BY <1>7 DEF StartTask
    <3> QED
      BY <3>1, CfdIs DEF Placing, MainRight, SlotsRight, Held
  <2>1. Main_
    BY <1>7, <1>m DEF StartTask
  <2>2. Pc_
    BY <1>7, <1>p, <1>t, <2>0 DEF StartTask, TaskPoints
  <2>3. Conns_ /\ refused' \in BOOLEAN
    BY <1>7, <1>f, <1>t, <2>0 DEF StartTask
  <2> QED
    BY <1>7, <1>t, <1>z, <2>1, <2>2, <2>3 DEF StartTask
<1>8. CASE Busy
  <2>0. cfd \in Fds
    BY <1>8, CfdIs DEF Busy, Placing
  <2>1. Main_ /\ Conns_
    BY <1>8, <1>f, <1>m, <2>0 DEF Busy
  <2>2. St_
    BY <1>8, <1>t DEF Busy
  <2> QED
    BY <1>8, <1>t, <1>z, <2>1, <2>2 DEF Busy
<1>9. CASE Finally
  <2>1. q' = Rec(q.fds, q.head, q.tail, q.count, TRUE, q.exited, q.requests, q.open, q.free, q.nfree)
    BY <1>9, QIs DEF Finally, Shut
  <2>2. Q_
    BY <1>q, <2>1, RecType
  <2> QED
    BY <1>9, <1>m, <1>t, <1>z, <2>2 DEF Finally, Shut, SIGNAL
<1>10. CASE AwaitEnds
  BY <1>10, <1>m, <1>t, <1>z DEF AwaitEnds, WAIT
<1>11. CASE Totals
  <2>1. St_
    BY SMTT(60), <1>11, <1>q, <1>t DEF Totals
  <2> QED
    BY <1>11, <1>m, <1>t, <1>z, <2>1 DEF Totals
<1>12. CASE Stop \/ UNCHANGED vars
  BY <1>12, <1>t, <1>z DEF Stop, vars
<1> QED
  BY <1>1, <1>2, <1>3, <1>4, <1>5, <1>6, <1>7, <1>8, <1>9, <1>10, <1>11, <1>12 DEF Next, RunNext

-----------------------------------------------------------------------------
(* Run's course. *)
LEMMA TakenIs ==
  ASSUME Types, SlotsRight, cfg.tasks
  PROVE  /\ Taken \in SUBSET W /\ IsFiniteSet(Taken)
         /\ q.open = Cardinality(Taken) /\ q.open \in 0 .. cfg.maxOpen
         /\ Taken # {} => q.open > 0
<1>1. Taken \in SUBSET W
  BY DEF Taken, SlotsRight
<1>2. IsFiniteSet(Taken) /\ Cardinality(Taken) \in 0 .. Size
  BY <1>1, WFinite DEF Types
<1>3. Size = cfg.maxOpen /\ cfg.maxOpen \in Nat
  BY ConfigIs DEF Types
<1>4. Taken # {} => Cardinality(Taken) # 0
  BY <1>2, FS_EmptySet
<1> QED
  BY <1>1, <1>2, <1>3, <1>4 DEF SlotsRight

LEMMA EndedStays ==
  ASSUME Types, SlotsRight, NEW w \in W, WorkerNext(w), AllEnded
  PROVE  AllEnded'
<1>0. cfg.tasks \in BOOLEAN /\ cfg' = cfg /\ q.exited \in Nat /\ cfg.workers \in Nat
  BY ConfigIs, WorkerFrame DEF Types, Queues
<1>1. CASE cfg.tasks
  <2>1. Taken = {}
    BY <1>1, TakenIs DEF AllEnded
  <2>2. pc[w] = "none"
    BY <2>1 DEF Taken
  <2> QED
    BY <2>2 DEF WorkerNext, Take, Idle, Slice, EmptyLines, Read, TakeToken, Handle, Send,
       GiveToken, Close, Exited, Closed
<1>2. CASE ~cfg.tasks
  <2>1. q'.exited \in {q.exited, q.exited + 1}
    <3>1. CASE Take(w) \/ TakeToken(w) \/ GiveToken(w)
      BY <3>1 DEF Take, TakeToken, GiveToken, Types, Queues
    <3>2. CASE Exited(w) \/ Closed(w)
      BY <3>2 DEF Exited, Closed, Types, Queues
    <3>3. CASE ~(Take(w) \/ TakeToken(w) \/ GiveToken(w) \/ Exited(w) \/ Closed(w))
      BY <3>3 DEF WorkerNext, Idle, Slice, EmptyLines, Read, Handle, Send, Close
    <3> QED
      BY <3>1, <3>2, <3>3
  <2> QED
    BY <1>0, <1>2, <2>1 DEF AllEnded
<1> QED
  BY <1>0, <1>1, <1>2

LEMMA ClosingStays ==
  ASSUME Types, NEW w \in W, WorkerNext(w)
  PROVE  q'.closing = q.closing
<1>1. CASE Take(w) \/ TakeToken(w) \/ GiveToken(w)
  BY <1>1 DEF Take, TakeToken, GiveToken, Types, Queues
<1>2. CASE Exited(w) \/ Closed(w)
  BY <1>2 DEF Exited, Closed, Types, Queues
<1>3. CASE ~(Take(w) \/ TakeToken(w) \/ GiveToken(w) \/ Exited(w) \/ Closed(w))
  BY <1>3 DEF WorkerNext, Idle, Slice, EmptyLines, Read, Handle, Send, Close
<1> QED
  BY <1>1, <1>2, <1>3

LEMMA MainNext ==
  ASSUME IInv, [Next]_vars
  PROVE  MainRight'
<1> USE DEF IInv
<1>0. /\ cfg' = cfg /\ W' = W /\ cfg.tasks \in BOOLEAN /\ main.pc \in MainPoints /\ main.k \in Nat
      /\ cfg.workers \in Nat
  BY SMTT(60), CfgStays, ConfigIs DEF Types
<1>m. ASSUME NEW to, MainTo(to) PROVE main'.pc = to /\ main'.k = main.k
  BY <1>m DEF MainTo, Types
<1>1. ASSUME NEW w \in W, WorkerNext(w) PROVE MainRight'
  <2>1. UNCHANGED <<cfg, main, refused>> /\ q'.closing = q.closing /\ (AllEnded => AllEnded')
    BY <1>1, WorkerFrame, ClosingStays, EndedStays
  <2>2. \A v \in W : pc[v] = "none" => pc'[v] = "none"
    <3>1. pc[w] # "none"
      BY <1>1 DEF WorkerNext, Take, Idle, Slice, EmptyLines, Read, TakeToken, Handle, Send,
         GiveToken, Close, Exited, Closed
    <3> QED
      BY <1>1, <3>1, WorkerFrame
  <2> QED
    BY <1>0, <2>1, <2>2 DEF MainRight
<1>2. CASE StartThread
  <2>0. main.pc = "start" /\ ~cfg.tasks /\ main.k <= cfg.workers /\ UNCHANGED <<q, cfg>> /\ ~q.closing
        /\ ~refused /\ \A w \in W : w >= main.k => pc[w] = "none"
    BY <1>2 DEF StartThread, MainRight
  <2>1. CASE main.k = cfg.workers
    BY <1>0, <1>2, <1>m, <2>0, <2>1 DEF StartThread, MainRight
  <2>2. CASE main.k # cfg.workers /\ main' = [main EXCEPT !.k = @ + 1] /\ Goto(main.k, "take")
              /\ UNCHANGED refused
    <3>1. main'.pc = "start" /\ main'.k = main.k + 1
      BY <2>0, <2>2 DEF Types
    <3>2. \A w \in W : w >= main.k + 1 => pc'[w] = "none"
      <4>1. \A w \in W : w \in Int
        BY ConfigIs DEF Types
      <4> QED
        BY <1>0, <2>0, <2>2, <4>1 DEF Goto, Types
    <3> QED
      BY <1>0, <2>0, <2>2, <3>1, <3>2 DEF MainRight
  <2>3. CASE MainTo("raised")
    BY <1>0, <1>m, <2>0, <2>3 DEF MainRight
  <2> QED
    BY <1>2, <2>1, <2>2, <2>3 DEF StartThread
<1>3. CASE Look
  <2>1. main.pc = "loop" /\ main'.pc \in {"shut", "accept"} /\ UNCHANGED <<q, refused>>
    BY <1>3 DEF Look, Types
  <2> QED
    BY <2>1 DEF MainRight
<1>4. CASE AcceptWait
  <2>1. main.pc = "accept" /\ main'.pc \in {"loop", "shut", "place"} /\ UNCHANGED <<q, refused>>
    BY <1>4, <1>m DEF AcceptWait
  <2> QED
    BY <2>1 DEF MainRight
<1>5. CASE Offer
  <2>1. /\ main.pc = "place" /\ main'.pc \in {"busy", "loop"} /\ UNCHANGED refused
        /\ q'.closing = q.closing
    BY <1>5, <1>m DEF Offer, Enqueue, PutIn, Types, Queues
  <2> QED
    BY <2>1 DEF MainRight
<1>6. CASE Opened
  <2>1. /\ main.pc = "place" /\ main'.pc \in {"busy", "task"} /\ UNCHANGED refused
        /\ q'.closing = q.closing /\ cfg.tasks
    <3>1. CASE q.open >= cfg.maxOpen
      BY <1>6, <1>m, <3>1 DEF Opened
    <3>2. CASE ~(q.open >= cfg.maxOpen)
      BY <1>6, <3>2 DEF Opened, Types, Queues
    <3> QED
      BY <3>1, <3>2
  <2> QED
    BY <1>0, <2>1 DEF MainRight
<1>7. CASE StartTask
  <2>1. main.pc = "task" /\ main'.pc \in {"loop", "shut"} /\ UNCHANGED q
        /\ (refused' => main'.pc = "shut" \/ refused)
    BY <1>7, <1>m DEF StartTask
  <2> QED
    BY <2>1 DEF MainRight
<1>8. CASE Busy
  <2>1. main.pc = "busy" /\ main'.pc = "loop" /\ UNCHANGED <<q, refused>>
    BY <1>8, <1>m DEF Busy
  <2> QED
    BY <2>1 DEF MainRight
<1>9. CASE Finally
  <2>1. main.pc = "shut" /\ main'.pc = "await" /\ q'.closing /\ UNCHANGED refused
    BY <1>9, <1>m DEF Finally, Shut, Closing, Types, Queues
  <2> QED
    BY <2>1 DEF MainRight
<1>10. CASE AwaitEnds
  <2>1. main.pc = "await" /\ UNCHANGED <<cfg, q, refused>>
    BY <1>10 DEF AwaitEnds
  <2>2. CASE AllEnded
    <3>1. main'.pc = IF refused THEN "raised" ELSE "totals"
      BY <1>10, <1>m, <2>2 DEF AwaitEnds
    <3>2. refused => ~cfg.tasks
      <4> SUFFICES ASSUME refused, cfg.tasks PROVE FALSE
        OBVIOUS
      <4>1. main.k \in Taken
        BY DEF Taken, Held
      <4>2. q.open # 0
        BY <4>1, TakenIs
      <4> QED
        BY <2>2, <4>2 DEF AllEnded
    <3>3. AllEnded'
      BY <2>1, <2>2 DEF AllEnded
    <3> QED
      BY <1>0, <2>1, <3>1, <3>2, <3>3 DEF MainRight
  <2>3. CASE ~AllEnded
    BY <1>0, <1>10, <2>1, <2>3 DEF AwaitEnds, MainRight
  <2> QED
    BY <2>2, <2>3
<1>11. CASE Totals
  <2>1. main.pc = "totals" /\ main'.pc = "returned" /\ UNCHANGED <<cfg, q, refused>>
    BY <1>11, <1>m DEF Totals
  <2> QED
    BY <2>1 DEF MainRight, AllEnded
<1>12. CASE Stop \/ UNCHANGED vars
  <2>1. UNCHANGED <<cfg, main, q, refused, pc>>
    BY <1>12 DEF Stop, vars
  <2> QED
    BY <1>0, <2>1 DEF MainRight, AllEnded
<1> QED
  BY <1>1, <1>2, <1>3, <1>4, <1>5, <1>6, <1>7, <1>8, <1>9, <1>10, <1>11, <1>12 DEF Next, RunNext

-----------------------------------------------------------------------------
(* What each step of a worker does, field by field.                        *)
RingStays  == q'.fds = q.fds /\ q'.head = q.head /\ q'.tail = q.tail /\ q'.count = q.count
CrewStays  == q'.exited = q.exited /\ q'.requests = q.requests
TokensStay == q'.free = q.free /\ q'.nfree = q.nfree
QStays     == RingStays /\ CrewStays /\ TokensStay /\ q'.open = q.open
Is(w, fd, k, requests, served, keep, waited) ==
  /\ ws'[w].fd = fd /\ ws'[w].k = k /\ ws'[w].requests = requests
  /\ ws'[w].served = served /\ ws'[w].keep = keep /\ ws'[w].waited = waited
ConnsStay == conns' = conns /\ answered' = answered

LEMMA WsFields ==
  ASSUME Types, NEW w \in W, NEW fd, NEW k, NEW requests, NEW served, NEW keep, NEW waited,
         WsTo(w, Local(fd, k, requests, served, keep, waited))
  PROVE  Is(w, fd, k, requests, served, keep, waited)
<1>1. ws'[w] = Local(fd, k, requests, served, keep, waited)
  BY DEF Types, WsTo
<1> QED
  BY <1>1 DEF Local, Is

LEMMA PcIs ==
  ASSUME Types, NEW w \in W, NEW to, Goto(w, to)
  PROVE  pc'[w] = to
BY DEF Types, Goto

LEMMA TakeStep ==
  ASSUME Types, NEW w \in W, Take(w)
  PROVE  /\ pc[w] = "take" /\ ConnsStay /\ slots' = slots /\ q'.fds = q.fds /\ q'.tail = q.tail
         /\ CrewStays /\ TokensStay /\ q'.open = q.open /\ q'.closing = q.closing
         /\ \/ /\ q.count > 0 /\ q'.head = (q.head + 1) % cfg.queue /\ q'.count = q.count - 1
               /\ Is(w, q.fds[q.head], ws[w].k, ws[w].requests, 0, TRUE, 0) /\ pc'[w] = "idle"
            \/ /\ ~(q.count > 0) /\ UNCHANGED <<q, ws>>
               /\ (q.closing /\ pc'[w] = "exit") \/ UNCHANGED pc
<1>0. pc[w] = "take" /\ ConnsStay /\ slots' = slots
  BY DEF Take, ConnsStay
<1>1. CASE q.count > 0
  <2>1. /\ q' = [q EXCEPT !.head = (@ + 1) % cfg.queue, !.count = @ - 1]
        /\ Serve(w, q.fds[q.head]) /\ Goto(w, "idle")
    BY <1>1 DEF Take
  <2>2. PICK head, count : head = (q.head + 1) % cfg.queue /\ count = q.count - 1
    OBVIOUS
  <2>3. q' = [q EXCEPT !.head = head, !.count = count]
    BY <2>1, <2>2
  <2>4. q' = Rec(q.fds, head, q.tail, count, q.closing, q.exited, q.requests, q.open,
                 q.free, q.nfree)
    BY <2>3, QTake
  <2>5. /\ q'.fds = q.fds /\ q'.tail = q.tail /\ CrewStays /\ TokensStay /\ q'.open = q.open
        /\ q'.closing = q.closing /\ q'.head = head /\ q'.count = count
    BY <2>4 DEF Rec, CrewStays, TokensStay
  <2>6. Is(w, q.fds[q.head], ws[w].k, ws[w].requests, 0, TRUE, 0)
    <3>1. PICK keep : keep = TRUE
      OBVIOUS
    <3>2. Is(w, q.fds[q.head], ws[w].k, ws[w].requests, 0, keep, 0)
      BY <2>1, <3>1, ServeIs, WsFields
    <3> QED
      BY <3>1, <3>2
  <2> QED
    BY <1>0, <1>1, <2>1, <2>2, <2>5, <2>6, PcIs
<1>2. CASE ~(q.count > 0)
  <2>1. UNCHANGED <<q, ws>> /\ ((q.closing /\ Goto(w, "exit")) \/ UNCHANGED pc)
    BY <1>2 DEF Take
  <2> QED
    BY <1>0, <1>2, <2>1, PcIs DEF CrewStays, TokensStay
<1> QED
  BY <1>1, <1>2

LEMMA LookStep ==
  ASSUME Types, NEW w \in W, Idle(w) \/ Slice(w) \/ EmptyLines(w)
  PROVE  /\ ConnsStay /\ UNCHANGED <<q, slots>>
         /\ \/ pc[w] = "idle" /\ pc'[w] \in {"close", "wait"} /\ UNCHANGED ws
            \/ pc[w] = "wait" /\ pc'[w] = "read" /\ UNCHANGED ws
            \/ /\ pc[w] = "wait"
               /\ Is(w, ws[w].fd, ws[w].k, ws[w].requests, ws[w].served, ws[w].keep,
                     ws[w].waited + 1)
               /\ (ws[w].waited + 1 < cfg.idle /\ pc'[w] = "idle") \/ pc'[w] = "close"
            \/ /\ pc[w] = "read" /\ pc'[w] = "idle"
               /\ Is(w, ws[w].fd, ws[w].k, ws[w].requests, ws[w].served, ws[w].keep, 0)
<1>1. CASE Idle(w)
  BY <1>1, PcIs DEF Idle, ConnsStay
<1>2. CASE Slice(w) \/ EmptyLines(w)
  <2>1. /\ ConnsStay /\ UNCHANGED <<q, slots>>
        /\ \/ pc[w] = "wait" /\ Goto(w, "read") /\ UNCHANGED ws
           \/ /\ pc[w] = "wait" /\ ws' = [ws EXCEPT ![w].waited = @ + 1]
              /\ (ws[w].waited + 1 < cfg.idle /\ Goto(w, "idle")) \/ Goto(w, "close")
           \/ pc[w] = "read" /\ Goto(w, "idle") /\ ws' = [ws EXCEPT ![w].waited = 0]
    BY <1>2 DEF Slice, EmptyLines, ConnsStay
  <2>2. ws' = [ws EXCEPT ![w].waited = @ + 1] =>
          Is(w, ws[w].fd, ws[w].k, ws[w].requests, ws[w].served, ws[w].keep, ws[w].waited + 1)
    BY WaitedIs, WsFields
  <2>3. ws' = [ws EXCEPT ![w].waited = 0] =>
          Is(w, ws[w].fd, ws[w].k, ws[w].requests, ws[w].served, ws[w].keep, 0)
    BY WaitsAnew, WsFields
  <2> QED
    BY <2>1, <2>2, <2>3, PcIs
<1> QED
  BY <1>1, <1>2

(* An answer is counted on its connection. *)
Counted(w) ==
  /\ ConnTo(ws[w].fd, conns[ws[w].fd].at,
            IF stopping THEN conns[ws[w].fd].late + 1 ELSE conns[ws[w].fd].late)
  /\ answered' = answered + 1

LEMMA ReadStep ==
  ASSUME Types, NEW w \in W, Read(w), ws[w].fd \in Fds
  PROVE  /\ pc[w] = "read" /\ UNCHANGED <<q, slots>>
         /\ \/ ConnsStay /\ UNCHANGED ws /\ pc'[w] = "close"
            \/ /\ Counted(w) /\ pc'[w] = "close"
               /\ Is(w, ws[w].fd, ws[w].k, ws[w].requests + 1, ws[w].served, ws[w].keep,
                     ws[w].waited)
            \/ \E keep \in BOOLEAN :
                 /\ ConnsStay /\ pc'[w] = (IF cfg.tasks THEN "token" ELSE "handle")
                 /\ Is(w, ws[w].fd, ws[w].k, ws[w].requests, ws[w].served, keep, ws[w].waited)
                 /\ keep => ws[w].served + 1 < cfg.perConn /\ ~stopping
<1>1. pc[w] = "read" /\ UNCHANGED <<q, slots>>
  BY DEF Read
<1>2. CASE UNCHANGED <<ws, conns, answered>> /\ Goto(w, "close")
  BY <1>1, <1>2, PcIs DEF ConnsStay
<1>3. CASE Answered(w) /\ ws' = [ws EXCEPT ![w].requests = @ + 1] /\ Goto(w, "close")
  BY <1>1, <1>3, PcIs, AnsweredIs, RequestIs, WsFields DEF Counted
<1>4. ASSUME NEW asked \in BOOLEAN,
             ws' = [ws EXCEPT ![w].keep = asked /\ ws[w].served + 1 < cfg.perConn /\ ~Ending],
             Goto(w, IF cfg.tasks THEN "token" ELSE "handle"), UNCHANGED <<conns, answered>>
      PROVE  \E keep \in BOOLEAN :
               /\ ConnsStay /\ pc'[w] = (IF cfg.tasks THEN "token" ELSE "handle")
               /\ Is(w, ws[w].fd, ws[w].k, ws[w].requests, ws[w].served, keep, ws[w].waited)
               /\ keep => ws[w].served + 1 < cfg.perConn /\ ~stopping
  <2>1. PICK keep \in BOOLEAN :
          keep = (asked /\ ws[w].served + 1 < cfg.perConn /\ ~Ending)
    OBVIOUS
  <2>2. ws' = [ws EXCEPT ![w].keep = keep]
    BY <1>4, <2>1
  <2>3. Is(w, ws[w].fd, ws[w].k, ws[w].requests, ws[w].served, keep, ws[w].waited)
    BY <2>2, KeepIs, WsFields
  <2>4. keep => ws[w].served + 1 < cfg.perConn /\ ~stopping
    BY <2>1 DEF Ending
  <2> QED
    BY <1>4, <2>3, <2>4, PcIs DEF ConnsStay
<1> QED
  BY <1>1, <1>2, <1>3, <1>4 DEF Read

LEMMA TakeTokenStep ==
  ASSUME Types, NEW w \in W, TakeToken(w)
  PROVE  /\ pc[w] = "token" /\ ConnsStay /\ slots' = slots /\ RingStays /\ CrewStays
         /\ q'.open = q.open /\ q'.closing = q.closing /\ q'.free = q.free
         /\ \/ UNCHANGED <<q, ws, pc>>
            \/ /\ q.nfree # 0 /\ q'.nfree = q.nfree - 1 /\ pc'[w] = "handle"
               /\ Is(w, ws[w].fd, q.free[q.nfree - 1], ws[w].requests, ws[w].served, ws[w].keep,
                     ws[w].waited)
<1>0. pc[w] = "token" /\ ConnsStay /\ slots' = slots
  BY DEF TakeToken, ConnsStay
<1>1. CASE q.nfree = 0
  BY <1>0, <1>1 DEF TakeToken, RingStays, CrewStays
<1>2. CASE q.nfree # 0
  <2>1. /\ q' = [q EXCEPT !.nfree = @ - 1] /\ Goto(w, "handle")
        /\ ws' = [ws EXCEPT ![w].k = q.free[q.nfree - 1]]
    BY <1>2 DEF TakeToken
  <2>2. PICK nfree : nfree = q.nfree - 1
    OBVIOUS
  <2>3. q' = Rec(q.fds, q.head, q.tail, q.count, q.closing, q.exited, q.requests, q.open,
                 q.free, nfree)
    BY ZenonT(60), <2>1, <2>2, QSet DEF Types
  <2>4. /\ RingStays /\ CrewStays /\ q'.open = q.open /\ q'.closing = q.closing
        /\ q'.free = q.free /\ q'.nfree = nfree
    BY <2>3 DEF Rec, RingStays, CrewStays
  <2>5. PICK k : k = q.free[q.nfree - 1]
    OBVIOUS
  <2>6. Is(w, ws[w].fd, k, ws[w].requests, ws[w].served, ws[w].keep, ws[w].waited)
    BY <2>1, <2>5, KIs, WsFields
  <2> QED
    BY <1>0, <1>2, <2>1, <2>2, <2>4, <2>5, <2>6, PcIs
<1> QED
  BY <1>1, <1>2

LEMMA HandleStep ==
  ASSUME Types, NEW w \in W, Handle(w)
  PROVE  /\ pc[w] = "handle" /\ pc'[w] = "send" /\ UNCHANGED <<q, slots>> /\ ConnsStay
         /\ \E keep \in BOOLEAN :
              /\ Is(w, ws[w].fd, ws[w].k, ws[w].requests, ws[w].served, keep, ws[w].waited)
              /\ keep => ws[w].keep /\ ~stopping
<1>0. ws[w].keep \in BOOLEAN
  BY DEF Types, Locals
<1>1. PICK close \in BOOLEAN : ws' = [ws EXCEPT ![w].keep = @ /\ ~close /\ ~Ending]
  BY DEF Handle
<1>2. PICK keep \in BOOLEAN : keep = (ws[w].keep /\ ~close /\ ~Ending)
  OBVIOUS
<1>3. ws' = [ws EXCEPT ![w].keep = keep]
  BY <1>1, <1>2
<1>4. Is(w, ws[w].fd, ws[w].k, ws[w].requests, ws[w].served, keep, ws[w].waited)
  BY <1>3, KeepIs, WsFields
<1>5. keep => ws[w].keep /\ ~stopping
  BY <1>0, <1>2 DEF Ending
<1> QED
  BY <1>4, <1>5, PcIs DEF Handle, ConnsStay

(* A turn ends; the keeping is kept in the pc. *)
LEMMA TurnIs ==
  ASSUME Types, NEW w \in W, NEW keep, NextTurn(w, keep)
  PROVE  pc'[w] \in {"idle", "read", "close"} /\ (pc'[w] # "close" => keep)
BY PcIs DEF NextTurn

LEMMA SendStep ==
  ASSUME Types, NEW w \in W, Send(w), ws[w].fd \in Fds
  PROVE  /\ pc[w] = "send" /\ UNCHANGED <<q, slots>>
         /\ \E keep \in BOOLEAN :
              /\ \/ /\ ConnsStay
                    /\ Is(w, ws[w].fd, ws[w].k, ws[w].requests, ws[w].served + 1, keep, 0)
                 \/ /\ Counted(w)
                    /\ Is(w, ws[w].fd, ws[w].k, ws[w].requests + 1, ws[w].served + 1, keep, 0)
              /\ keep => ws[w].keep
              /\ \/ cfg.tasks /\ pc'[w] = "give"
                 \/ ~cfg.tasks /\ pc'[w] \in {"idle", "read", "close"} /\ (pc'[w] # "close" => keep)
<1>0. ws[w].keep \in BOOLEAN /\ cfg.tasks \in BOOLEAN
  BY ConfigIs DEF Types, Locals
<1>1. pc[w] = "send" /\ UNCHANGED <<q, slots>>
  BY DEF Send
<1>2. PICK sent \in BOOLEAN, raised \in BOOLEAN :
        LET keep == ws[w].keep /\ sent /\ ~raised IN
        /\ IF raised THEN UNCHANGED <<conns, answered>> ELSE Answered(w)
        /\ ws' = [ws EXCEPT ![w].requests = IF raised THEN @ ELSE @ + 1,
                            ![w].keep = keep, ![w].served = @ + 1, ![w].waited = 0]
        /\ IF cfg.tasks THEN Goto(w, "give") ELSE NextTurn(w, keep)
  BY DEF Send
<1>3. PICK keep \in BOOLEAN : keep = (ws[w].keep /\ sent /\ ~raised)
  OBVIOUS
<1>4. PICK requests : requests = IF raised THEN ws[w].requests ELSE ws[w].requests + 1
  OBVIOUS
<1>5. /\ IF raised THEN UNCHANGED <<conns, answered>> ELSE Answered(w)
      /\ IF cfg.tasks THEN Goto(w, "give") ELSE NextTurn(w, keep)
  BY <1>2, <1>3
<1>6. ws' = [ws EXCEPT ![w].requests = requests, ![w].keep = keep, ![w].served = @ + 1,
                       ![w].waited = 0]
  BY <1>2, <1>3, <1>4
<1>7. Is(w, ws[w].fd, ws[w].k, requests, ws[w].served + 1, keep, 0)
  <2>1. PICK served : served = ws[w].served + 1
    OBVIOUS
  <2>2. Is(w, ws[w].fd, ws[w].k, requests, served, keep, 0)
    BY <1>6, <2>1, SentIs, WsFields
  <2> QED
    BY <2>1, <2>2
<1>8. \/ cfg.tasks /\ pc'[w] = "give"
      \/ ~cfg.tasks /\ pc'[w] \in {"idle", "read", "close"} /\ (pc'[w] # "close" => keep)
  BY <1>0, <1>5, PcIs, TurnIs
<1>9. \/ ConnsStay /\ requests = ws[w].requests
      \/ Counted(w) /\ requests = ws[w].requests + 1
  BY <1>4, <1>5, AnsweredIs DEF ConnsStay, Counted
<1>10. keep => ws[w].keep
  BY <1>0, <1>3
<1> QED
  BY <1>1, <1>7, <1>8, <1>9, <1>10

LEMMA GiveStep ==
  ASSUME Types, NEW w \in W, GiveToken(w)
  PROVE  /\ pc[w] = "give" /\ ConnsStay /\ slots' = slots /\ RingStays /\ CrewStays
         /\ q'.open = q.open /\ q'.closing = q.closing
         /\ q'.free = [q.free EXCEPT ![q.nfree] = ws[w].k] /\ q'.nfree = q.nfree + 1
         /\ Is(w, ws[w].fd, -1, ws[w].requests, ws[w].served, ws[w].keep, ws[w].waited)
         /\ pc'[w] \in {"idle", "read", "close"} /\ (pc'[w] # "close" => ws[w].keep)
<1>1. /\ pc[w] = "give" /\ ConnsStay /\ slots' = slots /\ NextTurn(w, ws[w].keep)
      /\ q' = [q EXCEPT !.free[q.nfree] = ws[w].k, !.nfree = @ + 1]
      /\ ws' = [ws EXCEPT ![w].k = -1]
  BY DEF GiveToken, ConnsStay
<1>2. PICK free, nfree : free = [q.free EXCEPT ![q.nfree] = ws[w].k] /\ nfree = q.nfree + 1
  OBVIOUS
<1>3. q' = [q EXCEPT !.free = free, !.nfree = nfree]
  BY <1>1, <1>2 DEF Types, Queues
<1>4. q' = Rec(q.fds, q.head, q.tail, q.count, q.closing, q.exited, q.requests, q.open,
               free, nfree)
  BY <1>3, QFree
<1>5. /\ RingStays /\ CrewStays /\ q'.open = q.open /\ q'.closing = q.closing
      /\ q'.free = free /\ q'.nfree = nfree
  BY <1>4 DEF Rec, RingStays, CrewStays
<1>6. PICK k : k = -1
  OBVIOUS
<1>7. Is(w, ws[w].fd, k, ws[w].requests, ws[w].served, ws[w].keep, ws[w].waited)
  BY <1>1, <1>6, KIs, WsFields
<1> QED
  BY <1>1, <1>2, <1>5, <1>6, <1>7, TurnIs

LEMMA CloseStep ==
  ASSUME Types, NEW w \in W, Close(w), ws[w].fd \in Fds
  PROVE  /\ pc[w] = "close" /\ UNCHANGED <<q, slots, answered>>
         /\ ConnTo(ws[w].fd, "closed", conns[ws[w].fd].late)
         /\ pc'[w] = (IF cfg.tasks THEN "closed" ELSE "take")
         /\ Is(w, ws[w].fd, ws[w].k, ws[w].requests, 0, TRUE, 0)
<1>1. /\ pc[w] = "close" /\ UNCHANGED <<q, slots, answered>>
      /\ Fate(ws[w].fd, "closed") /\ Serve(w, ws[w].fd)
      /\ Goto(w, IF cfg.tasks THEN "closed" ELSE "take")
  BY DEF Close
<1>2. PICK keep : keep = TRUE
  OBVIOUS
<1>3. Is(w, ws[w].fd, ws[w].k, ws[w].requests, 0, keep, 0)
  BY <1>1, <1>2, ServeIs, WsFields
<1> QED
  BY <1>1, <1>2, <1>3, PcIs, FateIs

LEMMA ExitStep ==
  ASSUME Types, NEW w \in W, Exited(w)
  PROVE  /\ pc[w] = "exit" /\ pc'[w] = "gone" /\ ConnsStay /\ UNCHANGED <<slots, ws>>
         /\ RingStays /\ TokensStay /\ q'.open = q.open /\ q'.closing = q.closing
         /\ q'.requests = q.requests + ws[w].requests /\ q'.exited = q.exited + 1
<1>1. /\ pc[w] = "exit" /\ Goto(w, "gone") /\ ConnsStay /\ UNCHANGED <<slots, ws>>
      /\ q' = [q EXCEPT !.requests = @ + ws[w].requests, !.exited = @ + 1]
  BY DEF Exited, ConnsStay
<1>2. PICK requests, exited : requests = q.requests + ws[w].requests /\ exited = q.exited + 1
  OBVIOUS
<1>3. q' = [q EXCEPT !.requests = requests, !.exited = exited]
  BY <1>1, <1>2
<1>4. q' = Rec(q.fds, q.head, q.tail, q.count, q.closing, exited, requests, q.open,
               q.free, q.nfree)
  BY <1>3, QExit
<1>5. /\ RingStays /\ TokensStay /\ q'.open = q.open /\ q'.closing = q.closing
      /\ q'.requests = requests /\ q'.exited = exited
  BY <1>4 DEF Rec, RingStays, TokensStay
<1> QED
  BY <1>1, <1>2, <1>5, PcIs

LEMMA ClosedStep ==
  ASSUME Types, NEW w \in W, Closed(w)
  PROVE  /\ pc[w] = "closed" /\ pc'[w] = "none" /\ ConnsStay /\ ws' = ws
         /\ RingStays /\ TokensStay /\ q'.exited = q.exited /\ q'.closing = q.closing
         /\ q'.requests = q.requests + ws[w].requests /\ q'.open = q.open - 1
         /\ slots' = [slots EXCEPT ![cfg.maxOpen - q.open] = w]
<1>1. /\ pc[w] = "closed" /\ Goto(w, "none") /\ ConnsStay /\ ws' = ws
      /\ slots' = [slots EXCEPT ![cfg.maxOpen - q.open] = w]
      /\ q' = [q EXCEPT !.requests = @ + ws[w].requests, !.open = @ - 1]
  BY DEF Closed, ConnsStay, SlotBack
<1>2. PICK requests, open : requests = q.requests + ws[w].requests /\ open = q.open - 1
  OBVIOUS
<1>3. q' = [q EXCEPT !.requests = requests, !.open = open]
  BY <1>1, <1>2
<1>4. q' = Rec(q.fds, q.head, q.tail, q.count, q.closing, q.exited, requests, open,
               q.free, q.nfree)
  BY <1>3, QClose
<1>5. /\ RingStays /\ TokensStay /\ q'.open = open /\ q'.closing = q.closing
      /\ q'.requests = requests /\ q'.exited = q.exited
  BY <1>4 DEF Rec, RingStays, TokensStay
<1> QED
  BY <1>1, <1>2, <1>5, PcIs

(* What Run's steps do to the queue, likewise. *)
LEMMA OfferStep ==
  ASSUME Types, Offer
  PROVE  /\ main.pc = "place" /\ ~cfg.tasks /\ main'.k = main.k /\ q'.head = q.head
         /\ UNCHANGED <<st, stopping, slots, pc, ws, conns, answered, refused>>
         /\ CrewStays /\ TokensStay /\ q'.open = q.open /\ q'.closing = q.closing
         /\ \/ Full /\ main'.pc = "busy" /\ q' = q
            \/ /\ ~Full /\ main'.pc = "loop" /\ q'.fds = [q.fds EXCEPT ![q.tail] = cfd]
               /\ q'.tail = (q.tail + 1) % cfg.queue /\ q'.count = q.count + 1
<1>1. /\ main.pc = "place" /\ ~cfg.tasks
      /\ UNCHANGED <<st, stopping, slots, pc, ws, conns, answered, refused>>
  BY DEF Offer
<1>2. CASE Full
  BY <1>1, <1>2 DEF Offer, MainTo, Types, CrewStays, TokensStay
<1>3. CASE ~Full
  <2>1. PutIn /\ MainTo("loop")
    BY <1>3 DEF Offer, Enqueue
  <2>2. PICK fds, tail, count :
          fds = [q.fds EXCEPT ![q.tail] = cfd] /\ tail = (q.tail + 1) % cfg.queue
            /\ count = q.count + 1
    OBVIOUS
  <2>3. q' = Rec(fds, q.head, tail, count, q.closing, q.exited, q.requests, q.open,
                 q.free, q.nfree)
    BY <2>1, <2>2, QIs
  <2>4. /\ q'.fds = fds /\ q'.tail = tail /\ q'.count = count /\ q'.head = q.head
        /\ CrewStays /\ TokensStay /\ q'.open = q.open /\ q'.closing = q.closing
    BY <2>3 DEF Rec, CrewStays, TokensStay
  <2>5. main'.pc = "loop" /\ main'.k = main.k
    BY <2>1 DEF MainTo, Types
  <2> QED
    BY <1>1, <1>3, <2>2, <2>4, <2>5
<1> QED
  BY <1>2, <1>3

LEMMA OpenedStep ==
  ASSUME Types, Opened
  PROVE  /\ main.pc = "place" /\ cfg.tasks
         /\ UNCHANGED <<st, stopping, slots, pc, conns, answered, refused>>
         /\ RingStays /\ CrewStays /\ TokensStay /\ q'.closing = q.closing
         /\ \/ q.open >= cfg.maxOpen /\ main'.pc = "busy" /\ main'.k = main.k /\ UNCHANGED <<q, ws>>
            \/ /\ ~(q.open >= cfg.maxOpen) /\ main'.pc = "task" /\ q'.open = q.open + 1
               /\ main'.k = slots[cfg.maxOpen - (q.open + 1)]
               /\ ws' = [ws EXCEPT ![main'.k] = [Idler(-1) EXCEPT !.fd = cfd]]
<1>1. /\ main.pc = "place" /\ cfg.tasks
      /\ UNCHANGED <<st, stopping, slots, pc, conns, answered, refused>>
  BY DEF Opened
<1>2. CASE q.open >= cfg.maxOpen
  BY <1>1, <1>2 DEF Opened, MainTo, Types, RingStays, CrewStays, TokensStay
<1>3. CASE ~(q.open >= cfg.maxOpen)
  <2>1. PICK k, open : k = slots[cfg.maxOpen - (q.open + 1)] /\ open = q.open + 1
    OBVIOUS
  <2>2. /\ q' = [q EXCEPT !.open = open] /\ main' = [main EXCEPT !.pc = "task", !.k = k]
        /\ ws' = [ws EXCEPT ![k] = [Idler(-1) EXCEPT !.fd = cfd]]
    BY <1>3, <2>1 DEF Opened
  <2>3. q' = Rec(q.fds, q.head, q.tail, q.count, q.closing, q.exited, q.requests, open,
                 q.free, q.nfree)
    BY <2>2, QSet DEF Types
  <2>4. /\ RingStays /\ CrewStays /\ TokensStay /\ q'.closing = q.closing /\ q'.open = open
    BY <2>3 DEF Rec, RingStays, CrewStays, TokensStay
  <2>5. main'.pc = "task" /\ main'.k = k
    BY <2>2 DEF Types
  <2> QED
    BY <1>1, <1>3, <2>1, <2>2, <2>4, <2>5
<1> QED
  BY <1>2, <1>3

LEMMA FinallyStep ==
  ASSUME Types, Finally
  PROVE  /\ main.pc = "shut" /\ main'.pc = "await" /\ main'.k = main.k
         /\ UNCHANGED <<st, stopping, slots, pc, ws, conns, answered, refused>>
         /\ QStays /\ q'.closing
<1>1. q' = Rec(q.fds, q.head, q.tail, q.count, TRUE, q.exited, q.requests, q.open,
               q.free, q.nfree)
  BY QIs DEF Finally, Shut
<1>2. QStays /\ q'.closing
  BY <1>1 DEF Rec, QStays, RingStays, CrewStays, TokensStay
<1> QED
  BY <1>2 DEF Finally, MainTo, Types

(* The other steps of Run leave the queue, the slots and the workers'      *)
(* locals alone.                                                           *)
Others == StartThread \/ Look \/ AcceptWait \/ StartTask \/ Busy \/ AwaitEnds \/ Totals \/ Stop
            \/ UNCHANGED vars

LEMMA OthersFrame ==
  ASSUME Others
  PROVE  UNCHANGED <<q, slots, ws, cfg>>
BY DEF Others, StartThread, Look, AcceptWait, StartTask, Busy, AwaitEnds, Totals, Stop, vars

(* The only ones that change the place of a worker start it. *)
Started ==
  /\ main.k \in W /\ pc[main.k] = "none"
  /\ \/ StartThread /\ main.pc = "start" /\ ~cfg.tasks /\ Goto(main.k, "take")
     \/ StartTask /\ main.pc = "task" /\ cfg.tasks /\ Goto(main.k, "idle")

LEMMA OthersPc ==
  ASSUME IInv, Others
  PROVE  UNCHANGED pc \/ Started
<1> USE DEF IInv
<1>1. CASE StartThread
  <2>1. main.pc = "start" /\ ~cfg.tasks /\ main.k <= cfg.workers
    BY <1>1 DEF StartThread, MainRight
  <2>2. main.k # cfg.workers => main.k \in W
    BY <2>1, ConfigIs DEF Types
  <2>3. main.k \in W => pc[main.k] = "none"
    <3>1. W = 0 .. Size - 1 /\ Size \in Nat
      BY ConfigIs DEF Types
    <3> QED
      BY <2>1, <3>1 DEF MainRight
  <2> QED
    BY <1>1, <2>1, <2>2, <2>3 DEF StartThread, Started
<1>2. CASE StartTask
  BY <1>2 DEF StartTask, SlotsRight, Held, MainRight, Started
<1>3. CASE ~(StartThread \/ StartTask)
  BY <1>3 DEF Others, Look, AcceptWait, Busy, AwaitEnds, Totals, Stop, vars
<1> QED
  BY <1>1, <1>2, <1>3

-----------------------------------------------------------------------------
LEMMA GoneIs ==
  ASSUME Types
  PROVE  Gone \in SUBSET W /\ IsFiniteSet(Gone) /\ Cardinality(Gone) \in Nat
BY WFinite, FS_CardinalityType DEF Gone, Types

LEMMA PointsIs ==
  ASSUME Types, NEW w \in W
  PROVE  /\ ~cfg.tasks => pc[w] \in ThreadPoints
         /\ cfg.tasks => pc[w] \in TaskPoints
BY DEF Types

LEMMA WorkerThreads ==
  ASSUME IInv, NEW w \in W, WorkerNext(w)
  PROVE  ThreadsRight'
<1> USE DEF IInv
<1>0. /\ cfg' = cfg /\ W' = W /\ cfg.tasks \in BOOLEAN
      /\ \A v \in W \ {w} : pc'[v] = pc[v] /\ ws'[v] = ws[v]
      /\ q.count \in Int /\ q.count >= 0 /\ q.exited \in Nat
  <2>1. cfg' = cfg /\ W' = W /\ \A v \in W \ {w} : pc'[v] = pc[v] /\ ws'[v] = ws[v]
    BY WorkerFrame DEF W
  <2>2. cfg.tasks \in BOOLEAN /\ cfg.queue \in Nat
    BY ConfigIs DEF Types
  <2> QED
    BY <2>1, <2>2 DEF RingRight, Types, Queues
<1>1. ~cfg.tasks => pc[w] \in ThreadPoints
  BY PointsIs
<1>2. cfg.tasks => pc[w] \in TaskPoints
  BY PointsIs
<1>3. pc[w] \in {"read", "send", "close"} => ws[w].fd \in Fds
  BY DEF ConnsRight, Serving, Reading
<1>4. CASE Exited(w)
  <2>0. /\ pc[w] = "exit" /\ pc'[w] = "gone" /\ ws' = ws /\ q'.exited = q.exited + 1
        /\ q'.closing = q.closing /\ q'.count = q.count
    BY <1>4, ExitStep DEF RingStays
  <2>1. Gone' = Gone \cup {w} /\ w \notin Gone
    BY <1>0, <2>0 DEF Gone
  <2>2. Cardinality(Gone') = q.exited + 1
    <3>1. IsFiniteSet(Gone) /\ Cardinality(Gone) \in Nat /\ q.exited = Cardinality(Gone)
      BY GoneIs DEF ThreadsRight
    <3> HIDE DEF Gone
    <3>2. Cardinality(Gone \cup {w}) = Cardinality(Gone) + 1
      BY <2>1, <3>1, FS_AddElement
    <3> QED
      BY <2>1, <3>1, <3>2
  <2> QED
    BY <1>0, <1>2, <2>0, <2>2 DEF ThreadsRight, TaskPoints
<1>5. CASE ~Exited(w)
  <2>1. /\ q'.exited = q.exited /\ q'.closing = q.closing /\ pc[w] # "gone" /\ pc'[w] # "gone"
        /\ \/ q'.count = q.count
           \/ q.count > 0 /\ q'.count = q.count - 1 /\ ~cfg.tasks
        /\ ~cfg.tasks => ws'[w].k = ws[w].k
        /\ pc'[w] = "exit" => q.closing /\ ~(q.count > 0) /\ pc[w] = "take"
    <3>1. CASE Take(w)
      BY <1>0, <1>2, <3>1, TakeStep DEF CrewStays, Is, TaskPoints
    <3>2. CASE Idle(w) \/ Slice(w) \/ EmptyLines(w)
      BY <3>2, LookStep DEF Is
    <3>3. CASE Read(w)
      <4>1. pc[w] = "read"
        BY <3>3 DEF Read
      <4> QED
        BY <1>3, <3>3, <4>1, ReadStep DEF Is
    <3>4. CASE TakeToken(w)
      BY <1>1, <3>4, TakeTokenStep DEF RingStays, CrewStays, ThreadPoints
    <3>5. CASE Handle(w)
      BY <3>5, HandleStep DEF Is
    <3>6. CASE Send(w)
      <4>1. pc[w] = "send"
        BY <3>6 DEF Send
      <4> QED
        BY <1>3, <3>6, <4>1, SendStep DEF Is
    <3>7. CASE GiveToken(w)
      BY <1>1, <3>7, GiveStep DEF RingStays, CrewStays, ThreadPoints
    <3>8. CASE Close(w)
      <4>1. pc[w] = "close"
        BY <3>8 DEF Close
      <4> QED
        BY <1>3, <3>8, <4>1, CloseStep DEF Is
    <3>9. CASE Closed(w)
      BY <3>9, ClosedStep DEF RingStays
    <3> QED
      BY <1>5, <3>1, <3>2, <3>3, <3>4, <3>5, <3>6, <3>7, <3>8, <3>9 DEF WorkerNext
  <2>2. Gone' = Gone
    BY <1>0, <2>1 DEF Gone
  <2>3. ~cfg.tasks => \A v \in W : ws'[v].k = v
    BY <1>0, <2>1 DEF ThreadsRight
  <2>4. ~cfg.tasks => \A v \in W : pc'[v] \in {"exit", "gone"} => q'.closing /\ q'.count = 0
    <3> SUFFICES ASSUME ~cfg.tasks, NEW v \in W, pc'[v] \in {"exit", "gone"}
                 PROVE  q'.closing /\ q'.count = 0
      OBVIOUS
    <3>1. pc[v] \in {"exit", "gone"} \/ (v = w /\ q.closing /\ ~(q.count > 0))
      BY <1>0, <2>1
    <3>2. q.closing /\ q.count = 0
      BY <1>0, <3>1 DEF ThreadsRight
    <3> QED
      BY <1>0, <2>1, <3>2
  <2>5. cfg.tasks => q'.count = 0
    BY <2>1 DEF ThreadsRight
  <2> QED
    BY <1>0, <2>1, <2>2, <2>3, <2>4, <2>5 DEF ThreadsRight
<1> QED
  BY <1>4, <1>5

LEMMA ThreadsNext ==
  ASSUME IInv, [Next]_vars
  PROVE  ThreadsRight'
<1> USE DEF IInv
<1>0. cfg' = cfg /\ W' = W /\ cfg.tasks \in BOOLEAN
  BY CfgStays, ConfigIs DEF Types
<1>1. CASE Offer
  <2>1. /\ main.pc = "place" /\ ~cfg.tasks /\ UNCHANGED <<pc, ws>> /\ q'.closing = q.closing
        /\ q'.exited = q.exited
    BY <1>1, OfferStep DEF CrewStays
  <2>2. \A w \in W : pc[w] \notin {"exit", "gone"}
    BY <2>1 DEF ThreadsRight, MainRight
  <2> QED
    BY <1>0, <2>1, <2>2 DEF ThreadsRight, Gone
<1>2. CASE Opened
  <2>1. cfg.tasks /\ UNCHANGED pc /\ q'.count = q.count /\ q'.exited = q.exited
    BY <1>2, OpenedStep DEF CrewStays, RingStays
  <2> QED
    BY <1>0, <2>1 DEF ThreadsRight, Gone
<1>3. CASE Finally
  <2>1. UNCHANGED <<pc, ws>> /\ q'.count = q.count /\ q'.exited = q.exited /\ q'.closing
    BY <1>3, FinallyStep DEF QStays, CrewStays, RingStays
  <2> QED
    BY <1>0, <2>1 DEF ThreadsRight, Gone
<1>4. CASE Others
  <2>1. UNCHANGED <<q, ws>>
    BY <1>4, OthersFrame
  <2>2. UNCHANGED pc \/ Started
    BY <1>4, OthersPc
  <2>3. \A w \in W : pc'[w] \in {"exit", "gone"} <=> pc[w] \in {"exit", "gone"}
    BY <2>2 DEF Goto, Types, Started
  <2>4. Gone' = Gone
    BY <1>0, <2>2 DEF Goto, Types, Gone, Started
  <2> QED
    BY <1>0, <2>1, <2>3, <2>4 DEF ThreadsRight
<1> QED
  BY <1>1, <1>2, <1>3, <1>4, WorkerThreads DEF Next, RunNext, Others

-----------------------------------------------------------------------------
(* The worker numbers of tasks. *)
LEMMA TokensFrame ==
  ASSUME TokensRight, cfg' = cfg, TokensStay, Handlers' = Handlers,
         \A w \in Handlers : ws'[w].k = ws[w].k
  PROVE  TokensRight'
BY DEF TokensRight, TokensStay

LEMMA HandlersIs ==
  ASSUME Types
  PROVE  Handlers \in SUBSET W /\ IsFiniteSet(Handlers) /\ Cardinality(Handlers) \in Nat
BY WFinite, FS_CardinalityType DEF Handlers, Types

LEMMA TokenTaken ==
  ASSUME IInv, NEW w \in W, TakeToken(w)
  PROVE  TokensRight'
<1> USE DEF IInv
<1>0. /\ cfg' = cfg /\ W' = W /\ \A v \in W \ {w} : pc'[v] = pc[v] /\ ws'[v] = ws[v]
  BY WorkerFrame DEF W, WorkerNext
<1>1. pc[w] = "token" /\ q'.free = q.free
  BY TakeTokenStep
<1>2. cfg.tasks
  BY <1>1, PointsIs DEF ThreadPoints
<1>3. CASE UNCHANGED <<q, ws, pc>>
  BY <1>0, <1>3, TokensFrame DEF Handlers, TokensStay
<1>4. CASE /\ q.nfree # 0 /\ q'.nfree = q.nfree - 1 /\ pc'[w] = "handle"
           /\ ws'[w].k = q.free[q.nfree - 1]
  <2>1. Handlers' = Handlers \cup {w} /\ w \notin Handlers
    BY <1>0, <1>1, <1>4 DEF Handlers
  <2>2. Cardinality(Handlers') = Cardinality(Handlers) + 1
    BY <2>1, HandlersIs, FS_AddElement
  <2>3. /\ cfg.workers \in Nat /\ q.nfree \in 0 .. cfg.workers /\ Cardinality(Handlers) \in Nat
        /\ q.nfree + Cardinality(Handlers) = cfg.workers
    BY <1>2, HandlersIs, ConfigIs DEF Types, TokensRight
  <2>4. /\ q'.nfree \in 0 .. cfg.workers /\ q'.nfree + Cardinality(Handlers') = cfg.workers
        /\ q.nfree - 1 \in 0 .. q.nfree - 1 /\ q'.nfree \notin 0 .. q'.nfree - 1
        /\ 0 .. q'.nfree - 1 = (0 .. q.nfree - 1) \ {q.nfree - 1}
    BY <1>4, <2>2, <2>3
  <2>5. \A v \in Handlers : ws'[v] = ws[v]
    BY <1>0, <2>1, HandlersIs
  <2> DEFINE last == q.nfree - 1
  <2>6. last \in 0 .. q.nfree - 1 /\ ws'[w].k = q.free[last]
        /\ 0 .. q'.nfree - 1 = (0 .. q.nfree - 1) \ {last}
    BY <1>4, <2>4
  <2> HIDE DEF last
  <2>7. /\ \A i \in 0 .. q'.nfree - 1 : q'.free[i] \in 0 .. cfg.workers - 1
        /\ \A i, j \in 0 .. q'.nfree - 1 : i # j => q'.free[i] # q'.free[j]
    BY <1>1, <1>2, <2>6 DEF TokensRight
  <2>8. \A i \in 0 .. q'.nfree - 1, v \in Handlers' : q'.free[i] # ws'[v].k
    BY <1>1, <1>2, <2>1, <2>5, <2>6 DEF TokensRight
  <2>9. \A v \in Handlers' : ws'[v].k \in 0 .. cfg.workers - 1
    BY <1>2, <2>1, <2>5, <2>6 DEF TokensRight
  <2>10. \A u, v \in Handlers' : u # v => ws'[u].k # ws'[v].k
    BY <1>2, <2>1, <2>5, <2>6 DEF TokensRight
  <2>11. \A x \in 0 .. cfg.workers - 1 :
           (\E i \in 0 .. q'.nfree - 1 : q'.free[i] = x) \/ \E v \in Handlers' : ws'[v].k = x
    BY <1>1, <1>2, <2>1, <2>5, <2>6 DEF TokensRight
  <2> QED
    BY <1>0, <2>4, <2>7, <2>8, <2>9, <2>10, <2>11 DEF TokensRight
<1> QED
  BY <1>3, <1>4, TakeTokenStep DEF Is

LEMMA TokenGiven ==
  ASSUME IInv, NEW w \in W, GiveToken(w)
  PROVE  TokensRight'
<1> USE DEF IInv
<1>0. /\ cfg' = cfg /\ W' = W /\ \A v \in W \ {w} : pc'[v] = pc[v] /\ ws'[v] = ws[v]
  BY WorkerFrame DEF W, WorkerNext
<1>1. /\ pc[w] = "give" /\ pc'[w] \in {"idle", "read", "close"}
      /\ q'.free = [q.free EXCEPT ![q.nfree] = ws[w].k] /\ q'.nfree = q.nfree + 1
  BY GiveStep
<1>2. cfg.tasks
  BY <1>1, PointsIs DEF ThreadPoints
<1>3. Handlers' = Handlers \ {w} /\ w \in Handlers
  BY <1>0, <1>1 DEF Handlers
<1>4. Cardinality(Handlers') = Cardinality(Handlers) - 1
  BY <1>3, HandlersIs, FS_RemoveElement
<1>5. /\ cfg.workers \in Nat /\ q.nfree \in 0 .. cfg.workers /\ Cardinality(Handlers) \in Nat
      /\ q.nfree + Cardinality(Handlers) = cfg.workers
  BY <1>2, HandlersIs, ConfigIs DEF Types, TokensRight
<1>6. Cardinality(Handlers) # 0
  BY <1>3, HandlersIs, FS_EmptySet
<1>7. /\ q'.nfree \in 0 .. cfg.workers /\ q'.nfree + Cardinality(Handlers') = cfg.workers
      /\ q.nfree \in 0 .. cfg.workers - 1 /\ q.nfree \notin 0 .. q.nfree - 1
      /\ 0 .. q'.nfree - 1 = (0 .. q.nfree - 1) \cup {q.nfree}
      /\ 0 .. q.nfree - 1 \subseteq 0 .. cfg.workers - 1
  BY <1>1, <1>4, <1>5, <1>6
<1>8. \A v \in Handlers' : ws'[v] = ws[v]
  BY <1>0, <1>3, HandlersIs
<1> DEFINE last == q.nfree
<1>9. /\ last \notin 0 .. q.nfree - 1 /\ q'.free[last] = ws[w].k
      /\ 0 .. q'.nfree - 1 = (0 .. q.nfree - 1) \cup {last}
      /\ \A i \in 0 .. q.nfree - 1 : q'.free[i] = q.free[i]
  <2>1. q.free \in [0 .. cfg.workers - 1 -> Int]
    BY DEF Types, Queues
  <2> QED
    BY <1>1, <1>7, <2>1
<1> HIDE DEF last
<1>10. /\ \A i \in 0 .. q'.nfree - 1 : q'.free[i] \in 0 .. cfg.workers - 1
       /\ \A i, j \in 0 .. q'.nfree - 1 : i # j => q'.free[i] # q'.free[j]
  BY <1>2, <1>3, <1>9 DEF TokensRight
<1>11. \A i \in 0 .. q'.nfree - 1, v \in Handlers' : q'.free[i] # ws'[v].k
  BY <1>2, <1>3, <1>8, <1>9 DEF TokensRight
<1>12. /\ \A v \in Handlers' : ws'[v].k \in 0 .. cfg.workers - 1
       /\ \A u, v \in Handlers' : u # v => ws'[u].k # ws'[v].k
  BY <1>2, <1>3, <1>8 DEF TokensRight
<1>13. \A x \in 0 .. cfg.workers - 1 :
         (\E i \in 0 .. q'.nfree - 1 : q'.free[i] = x) \/ \E v \in Handlers' : ws'[v].k = x
  BY <1>2, <1>3, <1>8, <1>9 DEF TokensRight
<1> QED
  BY <1>0, <1>7, <1>10, <1>11, <1>12, <1>13 DEF TokensRight

LEMMA OpenedSlot ==
  ASSUME IInv, Opened, ~(q.open >= cfg.maxOpen)
  PROVE  /\ Spare - 1 \in 0 .. Spare - 1 /\ main'.k = slots[Spare - 1] /\ main'.k \in W \ Taken
         /\ q'.open = q.open + 1 /\ Spare \in 1 .. cfg.maxOpen /\ Spare' = Spare - 1
<1> USE DEF IInv
<1>1. /\ cfg.tasks /\ main'.k = slots[cfg.maxOpen - (q.open + 1)] /\ q'.open = q.open + 1
      /\ cfg' = cfg
  BY OpenedStep DEF Opened
<1>2. q.open \in 0 .. cfg.maxOpen /\ cfg.maxOpen \in Nat
  BY <1>1, TakenIs, ConfigIs DEF Types
<1>3. /\ cfg.maxOpen - (q.open + 1) = Spare - 1 /\ Spare - 1 \in 0 .. Spare - 1
      /\ Spare \in 1 .. cfg.maxOpen /\ Spare' = Spare - 1
  BY <1>1, <1>2 DEF Spare
<1> HIDE DEF Spare
<1>4. slots[Spare - 1] \in W \ Taken
  BY <1>1, <1>3 DEF SlotsRight
<1> QED
  BY <1>1, <1>3, <1>4

LEMMA TokensNext ==
  ASSUME IInv, [Next]_vars
  PROVE  TokensRight'
<1> USE DEF IInv
<1>0. cfg' = cfg /\ W' = W /\ cfg.tasks \in BOOLEAN
  BY CfgStays, ConfigIs DEF Types
<1>1. ASSUME NEW w \in W, WorkerNext(w), ~TakeToken(w), ~GiveToken(w)
      PROVE  TokensRight'
  <2>0. \A v \in W \ {w} : pc'[v] = pc[v] /\ ws'[v] = ws[v]
    BY <1>1, WorkerFrame
  <2>1. pc[w] \in {"read", "send", "close"} => ws[w].fd \in Fds
    BY DEF ConnsRight, Serving, Reading
  <2>2. ~cfg.tasks \/ /\ TokensStay /\ ws'[w].k = ws[w].k
                      /\ pc'[w] \in {"handle", "send", "give"} <=> pc[w] \in {"handle", "send", "give"}
    <3>0. cfg.tasks => pc[w] \in TaskPoints
      BY PointsIs
    <3>1. CASE Take(w) \/ Exited(w)
      BY <3>0, <3>1 DEF Take, Exited, TaskPoints
    <3>2. CASE Idle(w) \/ Slice(w) \/ EmptyLines(w)
      BY <3>2, LookStep DEF Is, TokensStay
    <3>3. CASE Read(w)
      <4>1. pc[w] = "read"
        BY <3>3 DEF Read
      <4>2. cfg.tasks => pc'[w] \in {"close", "token"}
        BY <2>1, <3>3, <4>1, ReadStep
      <4>3. ws'[w].k = ws[w].k /\ UNCHANGED q
        BY <2>1, <3>3, <4>1, ReadStep DEF Is
      <4> QED
        BY <4>1, <4>2, <4>3 DEF TokensStay
    <3>4. CASE Handle(w)
      BY <3>4, HandleStep DEF Is, TokensStay
    <3>5. CASE Send(w)
      <4>1. pc[w] = "send"
        BY <3>5 DEF Send
      <4>2. cfg.tasks => pc'[w] = "give"
        BY <2>1, <3>5, <4>1, SendStep
      <4>3. ws'[w].k = ws[w].k /\ UNCHANGED q
        BY <2>1, <3>5, <4>1, SendStep DEF Is
      <4> QED
        BY <4>1, <4>2, <4>3 DEF TokensStay
    <3>6. CASE Close(w)
      <4>1. pc[w] = "close"
        BY <3>6 DEF Close
      <4>2. pc'[w] \in {"closed", "take"} /\ ws'[w].k = ws[w].k /\ UNCHANGED q
        BY <2>1, <3>6, <4>1, CloseStep DEF Is
      <4> QED
        BY <4>1, <4>2 DEF TokensStay
    <3>7. CASE Closed(w)
      BY <3>7, ClosedStep
    <3> QED
      BY <1>1, <3>1, <3>2, <3>3, <3>4, <3>5, <3>6, <3>7 DEF WorkerNext
  <2>3. CASE ~cfg.tasks
    BY <1>0, <2>3 DEF TokensRight
  <2>4. CASE cfg.tasks
    <3>1. Handlers' = Handlers
      BY <1>0, <2>0, <2>2, <2>4 DEF Handlers
    <3>2. \A v \in Handlers : ws'[v].k = ws[v].k
      BY <2>0, <2>2, <2>4, HandlersIs
    <3> QED
      BY <1>0, <2>2, <2>4, <3>1, <3>2, TokensFrame
  <2> QED
    BY <1>0, <2>3, <2>4
<1>2. CASE Offer
  BY <1>0, <1>2, OfferStep DEF TokensRight
<1>3. CASE Opened
  <2>1. UNCHANGED pc /\ TokensStay
    BY <1>3, OpenedStep
  <2>2. Handlers' = Handlers
    BY <1>0, <2>1 DEF Handlers
  <2>3. \A v \in Handlers : ws'[v].k = ws[v].k
    <3>1. CASE UNCHANGED ws
      BY <3>1
    <3>2. CASE ~UNCHANGED ws
      <4>1. main'.k \in W \ Taken /\ ws' = [ws EXCEPT ![main'.k] = [Idler(-1) EXCEPT !.fd = cfd]]
        BY <1>3, <3>2, OpenedSlot, OpenedStep
      <4>4. main'.k \notin Handlers
        BY <4>1 DEF Taken, Handlers
      <4> QED
        BY <4>1, <4>4, HandlersIs DEF Types
    <3> QED
      BY <3>1, <3>2
  <2> QED
    BY <1>0, <2>1, <2>2, <2>3, TokensFrame
<1>4. CASE Finally
  BY <1>0, <1>4, FinallyStep, TokensFrame DEF Handlers, QStays
<1>5. CASE Others
  <2>1. UNCHANGED <<q, ws>> /\ TokensStay
    BY <1>5, OthersFrame DEF TokensStay
  <2>2. UNCHANGED pc \/ Started
    BY <1>5, OthersPc
  <2>3. Handlers' = Handlers
    BY <1>0, <2>2 DEF Handlers, Started, Goto, Types
  <2> QED
    BY <1>0, <2>1, <2>3, TokensFrame
<1> QED
  BY <1>1, <1>2, <1>3, <1>4, <1>5, TokenTaken, TokenGiven DEF Next, RunNext, Others

-----------------------------------------------------------------------------
(* The slots of tasks. *)
LEMMA SlotsFrame ==
  ASSUME SlotsRight, cfg' = cfg, slots' = slots, q'.open = q.open, Taken' = Taken,
         cfg.tasks => \A w \in Held' : w \in W /\ pc'[w] = "none",
         cfg.tasks /\ main'.pc = "task" => ws'[main'.k] = [Idler(-1) EXCEPT !.fd = cfd']
  PROVE  SlotsRight'
<1>1. W' = W /\ Spare' = Spare
  BY DEF W, Spare
<1>2. [Idler(-1) EXCEPT !.fd = cfd]' = [Idler(-1) EXCEPT !.fd = cfd']
  BY DEF Idler
<1> QED
  BY <1>1, <1>2 DEF SlotsRight

LEMMA SlotTaken ==
  ASSUME IInv, Opened, ~(q.open >= cfg.maxOpen)
  PROVE  SlotsRight'
<1> USE DEF IInv
<1> DEFINE k == main'.k
<1>1. /\ Spare - 1 \in 0 .. Spare - 1 /\ k = slots[Spare - 1] /\ k \in W \ Taken
      /\ q'.open = q.open + 1 /\ Spare \in 1 .. cfg.maxOpen /\ Spare' = Spare - 1
  BY OpenedSlot
<1>2. /\ cfg.tasks /\ main.pc = "place" /\ main'.pc = "task" /\ UNCHANGED <<pc, slots, refused, st>>
      /\ ws' = [ws EXCEPT ![k] = [Idler(-1) EXCEPT !.fd = cfd]]
  BY OpenedStep
<1>3. cfg' = cfg /\ W' = W /\ q.open = Cardinality(Taken) /\ IsFiniteSet(Taken) /\ cfg.maxOpen \in Nat
      /\ q.open \in 0 .. cfg.maxOpen
  BY <1>2, TakenIs, ConfigIs DEF Types, Opened, W
<1> HIDE DEF k
<1>4. Taken' = Taken \cup {k} /\ Held' = {k} /\ pc'[k] = "none"
  <2>1. Held = {} /\ Held' = {k}
    BY <1>2 DEF Held, MainRight, k
  <2> QED
    BY <1>1, <1>2, <1>3, <2>1 DEF Taken
<1>5. q'.open = Cardinality(Taken') /\ q'.open <= cfg.maxOpen
  <2>1. Cardinality(Taken') = Cardinality(Taken) + 1
    BY <1>1, <1>3, <1>4, FS_AddElement
  <2> QED
    BY <1>1, <1>3, <2>1 DEF Spare
<1>6. ws'[k] = [Idler(-1) EXCEPT !.fd = cfd]'
  BY <1>1, <1>2 DEF Types, Idler, cfd
<1> DEFINE last == Spare - 1
<1>7. /\ last \in 0 .. Spare - 1 /\ k = slots[last] /\ 0 .. Spare' - 1 = (0 .. Spare - 1) \ {last}
  BY <1>1, <1>3
<1> HIDE DEF last
<1>8. /\ \A i \in 0 .. Spare' - 1 : slots'[i] \in W \ Taken'
      /\ \A i, j \in 0 .. Spare' - 1 : i # j => slots'[i] # slots'[j]
      /\ \A w \in W : w \in Taken' \/ \E i \in 0 .. Spare' - 1 : slots'[i] = w
  BY <1>2, <1>4, <1>7 DEF SlotsRight
<1> QED
  BY <1>1, <1>3, <1>4, <1>5, <1>6, <1>8 DEF SlotsRight, k

LEMMA SlotBackNext ==
  ASSUME IInv, NEW w \in W, Closed(w)
  PROVE  SlotsRight'
<1> USE DEF IInv
<1>0. /\ cfg' = cfg /\ W' = W /\ \A v \in W \ {w} : pc'[v] = pc[v] /\ ws'[v] = ws[v]
      /\ UNCHANGED <<main, refused, st>>
  BY WorkerFrame DEF W, WorkerNext
<1>1. /\ pc[w] = "closed" /\ pc'[w] = "none" /\ ws' = ws /\ q'.open = q.open - 1
      /\ slots' = [slots EXCEPT ![cfg.maxOpen - q.open] = w]
  BY ClosedStep
<1>2. cfg.tasks
  BY <1>1, PointsIs DEF ThreadPoints
<1>3. w \in Taken /\ w \notin Held
  BY <1>1, <1>2 DEF Taken, SlotsRight
<1>4. Held' = Held /\ Taken' = Taken \ {w}
  <2>1. Held' = Held
    BY <1>0 DEF Held
  <2> QED
    BY <1>0, <1>1, <1>3, <2>1 DEF Taken
<1>5. /\ q.open = Cardinality(Taken) /\ IsFiniteSet(Taken) /\ cfg.maxOpen \in Nat
      /\ q.open \in 1 .. cfg.maxOpen
  BY SMTT(60), <1>2, <1>3, TakenIs, ConfigIs DEF Types
<1>6. q'.open = Cardinality(Taken') /\ q'.open <= cfg.maxOpen
  <2>1. Cardinality(Taken') = Cardinality(Taken) - 1
    BY <1>3, <1>4, <1>5, FS_RemoveElement
  <2> QED
    BY <1>1, <1>5, <2>1
<1>7. /\ Spare \in 0 .. cfg.maxOpen - 1 /\ Spare \notin 0 .. Spare - 1
      /\ 0 .. Spare' - 1 = (0 .. Spare - 1) \cup {Spare}
      /\ 0 .. Spare - 1 \subseteq 0 .. cfg.maxOpen - 1
  BY <1>0, <1>1, <1>5 DEF Spare
<1>8. slots'[Spare] = w /\ \A i \in 0 .. Spare - 1 : slots'[i] = slots[i]
  <2>1. slots \in [0 .. cfg.maxOpen - 1 -> Int] /\ slots' = [slots EXCEPT ![Spare] = w]
    BY <1>1 DEF Types, Spare
  <2> QED
    BY <1>7, <2>1
<1> HIDE DEF Spare
<1>9. /\ \A i \in 0 .. Spare' - 1 : slots'[i] \in W \ Taken'
      /\ \A i, j \in 0 .. Spare' - 1 : i # j => slots'[i] # slots'[j]
      /\ \A v \in W : v \in Taken' \/ \E i \in 0 .. Spare' - 1 : slots'[i] = v
  BY <1>2, <1>3, <1>4, <1>7, <1>8 DEF SlotsRight
<1>10. /\ \A v \in Held' : v \in W /\ pc'[v] = "none"
       /\ main'.pc = "task" => ws'[main'.k] = [Idler(-1) EXCEPT !.fd = cfd]'
  <2>1. [Idler(-1) EXCEPT !.fd = cfd]' = [Idler(-1) EXCEPT !.fd = cfd]
    BY <1>0 DEF Idler, cfd
  <2> QED
    BY <1>0, <1>1, <1>2, <1>3, <1>4, <2>1 DEF SlotsRight
<1> QED
  BY <1>0, <1>6, <1>9, <1>10 DEF SlotsRight

LEMMA SlotsNext ==
  ASSUME IInv, [Next]_vars
  PROVE  SlotsRight'
<1> USE DEF IInv
<1>0. cfg' = cfg /\ W' = W /\ cfg.tasks \in BOOLEAN
  BY CfgStays, ConfigIs DEF Types
<1>1. CASE ~cfg.tasks
  BY <1>0, <1>1 DEF SlotsRight
<1>2. ASSUME cfg.tasks, NEW w \in W, WorkerNext(w), ~Closed(w)
      PROVE  SlotsRight'
  <2>1. /\ \A v \in W \ {w} : pc'[v] = pc[v] /\ ws'[v] = ws[v]
        /\ UNCHANGED <<main, refused, st>>
    BY <1>2, WorkerFrame
  <2>2. pc[w] \in TaskPoints
    BY <1>2, PointsIs
  <2>3. pc[w] \in {"read", "send", "close"} => ws[w].fd \in Fds
    BY DEF ConnsRight, Serving, Reading
  <2>4. slots' = slots /\ q'.open = q.open /\ pc[w] # "none" /\ pc'[w] # "none"
    <3>1. CASE Take(w) \/ Exited(w)
      BY <2>2, <3>1 DEF Take, Exited, TaskPoints
    <3>2. CASE Idle(w) \/ Slice(w) \/ EmptyLines(w)
      <4>1. pc[w] # "none"
        BY <3>2, LookStep
      <4>2. pc'[w] # "none"
        BY <3>2, LookStep
      <4> QED
        BY <3>2, <4>1, <4>2, LookStep
    <3>3. CASE Read(w)
      <4>1. pc[w] = "read"
        BY <3>3 DEF Read
      <4> QED
        BY <1>0, <2>3, <3>3, <4>1, ReadStep
    <3>4. CASE TakeToken(w)
      BY <3>4, TakeTokenStep
    <3>5. CASE Handle(w)
      BY <3>5, HandleStep
    <3>6. CASE Send(w)
      <4>1. pc[w] = "send"
        BY <3>6 DEF Send
      <4> QED
        BY <1>0, <2>3, <3>6, <4>1, SendStep
    <3>7. CASE GiveToken(w)
      BY <3>7, GiveStep
    <3>8. CASE Close(w)
      <4>1. pc[w] = "close"
        BY <3>8 DEF Close
      <4> QED
        BY <1>0, <2>3, <3>8, <4>1, CloseStep
    <3> QED
      BY <1>2, <3>1, <3>2, <3>3, <3>4, <3>5, <3>6, <3>7, <3>8 DEF WorkerNext
  <2>5. Held' = Held /\ w \notin Held
    BY <1>2, <2>1, <2>4 DEF Held, SlotsRight
  <2>6. Taken' = Taken
    BY <1>0, <2>1, <2>4, <2>5 DEF Taken
  <2>7. \A v \in Held' : v \in W /\ pc'[v] = "none"
    BY <1>2, <2>1, <2>5 DEF SlotsRight
  <2>8. main'.pc = "task" => ws'[main'.k] = [Idler(-1) EXCEPT !.fd = cfd']
    BY <1>2, <2>1, <2>5 DEF SlotsRight, Held, cfd
  <2> QED
    BY <1>0, <2>4, <2>6, <2>7, <2>8, SlotsFrame
<1>3. CASE Offer
  BY <1>0, <1>3, OfferStep DEF SlotsRight
<1>4. CASE Opened
  <2>1. CASE q.open >= cfg.maxOpen
    <3>1. /\ main.pc = "place" /\ main'.pc = "busy" /\ main'.k = main.k
          /\ UNCHANGED <<q, ws, pc, slots, refused>>
      BY <1>4, <2>1, OpenedStep
    <3>2. Held' = Held
      BY <3>1 DEF Held
    <3>3. Taken' = Taken
      BY <1>0, <3>1, <3>2 DEF Taken
    <3> QED
      BY <1>0, <3>1, <3>2, <3>3, SlotsFrame DEF SlotsRight
  <2> QED
    BY <1>4, <2>1, SlotTaken
<1>5. CASE Finally
  <2>1. /\ main.pc = "shut" /\ main'.pc = "await" /\ main'.k = main.k /\ q'.open = q.open
        /\ UNCHANGED <<ws, pc, slots, refused>>
    BY <1>5, FinallyStep DEF QStays
  <2>2. Held' = Held
    BY <2>1 DEF Held
  <2>3. Taken' = Taken
    BY <1>0, <2>1, <2>2 DEF Taken
  <2> QED
    BY <1>0, <2>1, <2>2, <2>3, SlotsFrame DEF SlotsRight
<1>6. CASE StartTask
  <2>1. main.pc = "task" /\ UNCHANGED <<q, ws, slots>> /\ main'.k = main.k /\ main'.pc # "task" /\ ~refused
    BY <1>6 DEF StartTask, MainTo, Types, MainRight
  <2>2. Held = {main.k} /\ Held' = IF refused' THEN {main.k} ELSE {}
    BY <2>1 DEF Held
  <2>3. \/ ~refused' /\ pc' = [pc EXCEPT ![main.k] = "idle"]
        \/ refused' /\ pc' = pc
    BY <1>6, <2>1 DEF StartTask, Goto
  <2>4. cfg.tasks => main.k \in W
    BY <2>2 DEF SlotsRight
  <2>5. cfg.tasks => Taken' = Taken
    BY <1>0, <2>2, <2>3, <2>4 DEF Taken, Types
  <2>6. cfg.tasks => \A v \in Held' : v \in W /\ pc'[v] = "none"
    BY <2>2, <2>3 DEF SlotsRight
  <2> QED
    BY <1>0, <1>1, <2>1, <2>5, <2>6, SlotsFrame
<1>7. CASE Others /\ ~StartTask
  <2>1. UNCHANGED <<q, ws, slots>>
    BY <1>7, OthersFrame
  <2>2. CASE StartThread
    BY <1>0, <2>2 DEF StartThread, MainRight, SlotsRight
  <2>3. CASE ~StartThread
    <3>1. UNCHANGED <<pc, refused>>
      BY <1>7, <2>3 DEF Others, Look, AcceptWait, Busy, AwaitEnds, Totals, Stop, vars
    <3>2. /\ main'.k = main.k /\ (main'.pc = "task" <=> main.pc = "task")
          /\ (main'.pc = "task" => st' = st)
      BY <1>7, <2>3 DEF Others, Look, AcceptWait, Busy, AwaitEnds, Totals, Stop, vars, MainTo, Types
    <3>3. Held' = Held
      BY <3>1, <3>2 DEF Held
    <3>4. Taken' = Taken
      BY <1>0, <3>1, <3>3 DEF Taken
    <3>5. cfg.tasks => \A v \in Held' : v \in W /\ pc'[v] = "none"
      BY <3>1, <3>3 DEF SlotsRight
    <3>6. cfg.tasks /\ main'.pc = "task" => ws'[main'.k] = [Idler(-1) EXCEPT !.fd = cfd']
      BY <2>1, <3>2 DEF SlotsRight, cfd
    <3> QED
      BY <1>0, <2>1, <3>4, <3>5, <3>6, SlotsFrame
  <2> QED
    BY <2>2, <2>3
<1> QED
  BY <1>0, <1>1, <1>2, <1>3, <1>4, <1>5, <1>6, <1>7, SlotBackNext DEF Next, RunNext, Others

-----------------------------------------------------------------------------
(* The ring. *)
LEMMA WrapIs ==
  ASSUME NEW x \in Nat, NEW d \in Nat \ {0}, x < d + d
  PROVE  x % d = IF x < d THEN x ELSE x - d
<1> DEFINE p == x \div d
<1>1. p \in Nat /\ x = d * p + (x % d) /\ x % d \in 0 .. d - 1
  BY SMT
<1> HIDE DEF p
<1>2. p >= 2 => d * p >= d + d
  BY <1>1, SMT
<1>3. p = 0 => d * p = 0
  BY <1>1, SMT
<1>4. p = 1 => d * p = d
  BY <1>1, SMT
<1>5. p >= 1 => d * p >= d
  BY <1>1, SMT
<1> QED
  BY <1>1, <1>2, <1>3, <1>4, <1>5

LEMMA RingIs ==
  ASSUME Types, RingRight
  PROVE  /\ cfg.queue \in Nat \ {0} /\ q.count \in 0 .. cfg.queue
         /\ q.head \in 0 .. cfg.queue - 1 /\ q.tail \in 0 .. cfg.queue - 1
         /\ q.tail = IF q.head + q.count < cfg.queue THEN q.head + q.count
                     ELSE q.head + q.count - cfg.queue
<1>1. /\ cfg.queue \in Nat \ {0} /\ q.count \in 0 .. cfg.queue
      /\ q.head \in 0 .. cfg.queue - 1 /\ q.tail \in 0 .. cfg.queue - 1
      /\ q.tail = (q.head + q.count) % cfg.queue
  BY ConfigIs DEF Types, Queues, RingRight
<1>2. PICK x \in Nat : x = q.head + q.count /\ x < cfg.queue + cfg.queue
  BY <1>1
<1>3. x % cfg.queue = IF x < cfg.queue THEN x ELSE x - cfg.queue
  BY <1>1, <1>2, WrapIs
<1> QED
  BY <1>1, <1>2, <1>3

LEMMA RingPut ==
  ASSUME Types, RingRight, Offer, ~Full, NEW n, n = q.count
  PROVE  /\ RingRight' /\ InRing' = InRing \cup {n} /\ n \notin InRing
         /\ Queued(n)' = cfd /\ \A i \in InRing : Queued(i)' = Queued(i)
<1>1. /\ q'.fds = [q.fds EXCEPT ![q.tail] = cfd] /\ q'.tail = (q.tail + 1) % cfg.queue
      /\ q'.count = q.count + 1 /\ q'.head = q.head /\ q.count < cfg.queue /\ cfg' = cfg
  <2>1. q.count < cfg.queue
    BY RingIs DEF Full
  <2> QED
    BY <2>1, OfferStep DEF Offer
<1>2. (q.tail + 1) % cfg.queue = IF q.tail + 1 < cfg.queue THEN q.tail + 1 ELSE q.tail + 1 - cfg.queue
  <2>1. PICK x \in Nat : x = q.tail + 1 /\ x < cfg.queue + cfg.queue
    BY RingIs
  <2>2. x % cfg.queue = IF x < cfg.queue THEN x ELSE x - cfg.queue
    <3>1. cfg.queue \in Nat \ {0}
      BY RingIs
    <3> QED
      BY <2>1, <3>1, WrapIs
  <2>3. q.head \in Int /\ q.tail \in Int /\ cfg.queue \in Int
    BY RingIs
  <2> QED
    BY <2>1, <2>2, <2>3
<1>3. (q'.head + q'.count) % cfg.queue =
        IF q'.head + q'.count < cfg.queue THEN q'.head + q'.count ELSE q'.head + q'.count - cfg.queue
  <2>1. PICK x \in Nat : x = q'.head + q'.count /\ x < cfg.queue + cfg.queue
    BY <1>1, RingIs
  <2>2. x % cfg.queue = IF x < cfg.queue THEN x ELSE x - cfg.queue
    <3>1. cfg.queue \in Nat \ {0}
      BY RingIs
    <3> QED
      BY <2>1, <3>1, WrapIs
  <2>3. q'.head \in Int /\ q'.count \in Int /\ cfg.queue \in Int
    BY <1>1, RingIs
  <2> QED
    BY <2>1, <2>2, <2>3
<1>4. RingRight'
  BY <1>1, <1>2, <1>3, RingIs DEF RingRight
<1>5. InRing' = InRing \cup {n} /\ n \notin InRing
  BY <1>1, RingIs DEF InRing
<1>6. q.fds \in [0 .. cfg.queue - 1 -> Fds \cup {0}]
  BY DEF Types, Queues
<1>7. Slot(n)' = q.tail
  BY <1>1, RingIs DEF Slot
<1>8. \A i \in InRing : Slot(i)' = Slot(i) /\ Slot(i) \in (0 .. cfg.queue - 1) \ {q.tail}
  BY <1>1, RingIs DEF Slot, InRing
<1>9. Queued(n)' = cfd
  BY <1>1, <1>6, <1>7, RingIs DEF Queued
<1>10. \A i \in InRing : Queued(i)' = Queued(i)
  BY <1>1, <1>6, <1>8 DEF Queued
<1> QED
  BY <1>4, <1>5, <1>9, <1>10

LEMMA RingTake ==
  ASSUME Types, RingRight, NEW w \in W, Take(w), q.count > 0
  PROVE  /\ RingRight' /\ 0 \in InRing /\ Queued(0) = q.fds[q.head]
         /\ \A i \in InRing' : i + 1 \in InRing \ {0} /\ Queued(i)' = Queued(i + 1)
         /\ \A i \in InRing \ {0} : i - 1 \in InRing' /\ Queued(i - 1)' = Queued(i)
<1>1. /\ q'.fds = q.fds /\ q'.tail = q.tail /\ cfg' = cfg
      /\ q'.count = q.count - 1 /\ q'.head = (q.head + 1) % cfg.queue
  BY TakeStep DEF Take
<1>2. q'.head = IF q.head + 1 < cfg.queue THEN q.head + 1 ELSE q.head + 1 - cfg.queue
  <2>1. PICK x \in Nat : x = q.head + 1 /\ x < cfg.queue + cfg.queue
    BY RingIs
  <2>2. x % cfg.queue = IF x < cfg.queue THEN x ELSE x - cfg.queue
    <3>1. cfg.queue \in Nat \ {0}
      BY RingIs
    <3> QED
      BY <2>1, <3>1, WrapIs
  <2>3. q.head \in Int /\ q.tail \in Int /\ cfg.queue \in Int
    BY RingIs
  <2> QED
    BY <1>1, <2>1, <2>2, <2>3
<1>3. (q'.head + q'.count) % cfg.queue =
        IF q'.head + q'.count < cfg.queue THEN q'.head + q'.count ELSE q'.head + q'.count - cfg.queue
  <2>1. PICK x \in Nat : x = q'.head + q'.count /\ x < cfg.queue + cfg.queue
    BY <1>1, <1>2, RingIs
  <2>2. x % cfg.queue = IF x < cfg.queue THEN x ELSE x - cfg.queue
    <3>1. cfg.queue \in Nat \ {0}
      BY RingIs
    <3> QED
      BY <2>1, <3>1, WrapIs
  <2>3. q'.head \in Int /\ q'.count \in Int /\ cfg.queue \in Int
    BY <1>1, <1>2, RingIs
  <2> QED
    BY <2>1, <2>2, <2>3
<1>4. RingRight'
  BY <1>1, <1>2, <1>3, RingIs DEF RingRight
<1>5. 0 \in InRing /\ Queued(0) = q.fds[q.head]
  BY RingIs DEF InRing, Queued, Slot
<1>6. \A i \in InRing' : i \in Int /\ i + 1 \in InRing \ {0} /\ Slot(i)' = Slot(i + 1)
  BY <1>1, <1>2, RingIs DEF InRing, Slot
<1>7. ASSUME NEW i \in InRing \ {0} PROVE i - 1 \in InRing' /\ Slot(i - 1)' = Slot(i)
  <2>1. /\ q.count \in 0 .. cfg.queue /\ q.head \in Nat /\ q.head < cfg.queue /\ cfg.queue \in Nat
        /\ i \in 1 .. q.count - 1 /\ cfg' = cfg
    BY <1>1, RingIs DEF InRing
  <2>2. i - 1 \in InRing'
    BY <1>1, <2>1 DEF InRing
  <2>3. Slot(i - 1)' = IF q'.head + (i - 1) < cfg.queue THEN q'.head + (i - 1)
                       ELSE q'.head + (i - 1) - cfg.queue
    BY <2>1 DEF Slot
  <2>4. Slot(i) = IF q.head + i < cfg.queue THEN q.head + i ELSE q.head + i - cfg.queue
    BY DEF Slot
  <2>5. CASE q.head + 1 < cfg.queue
    <3>1. q'.head = q.head + 1
      BY <1>2, <2>5
    <3> QED
      BY <2>1, <2>2, <2>3, <2>4, <3>1
  <2>6. CASE ~(q.head + 1 < cfg.queue)
    <3>1. q.head = cfg.queue - 1 /\ q'.head = 0
      BY <1>2, <2>1, <2>6
    <3> QED
      BY <2>1, <2>2, <2>3, <2>4, <3>1
  <2> QED
    BY <2>5, <2>6
<1> QED
  BY <1>1, <1>4, <1>5, <1>6, <1>7 DEF Queued

LEMMA RingFrame ==
  ASSUME RingStays, cfg' = cfg
  PROVE  /\ RingRight <=> RingRight'
         /\ InRing' = InRing /\ \A i \in InRing : Queued(i)' = Queued(i)
BY DEF RingStays, RingRight, InRing, Queued, Slot

LEMMA WorkerRing ==
  ASSUME IInv, NEW w \in W, WorkerNext(w), ~(Take(w) /\ q.count > 0)
  PROVE  RingStays
<1> USE DEF IInv
<1>1. CASE Take(w)
  BY <1>1, TakeStep DEF RingStays
<1>2. CASE TakeToken(w) \/ GiveToken(w) \/ Exited(w) \/ Closed(w)
  BY <1>2, TakeTokenStep, GiveStep, ExitStep, ClosedStep
<1>3. CASE ~(Take(w) \/ TakeToken(w) \/ GiveToken(w) \/ Exited(w) \/ Closed(w))
  BY <1>3 DEF WorkerNext, Idle, Slice, EmptyLines, Read, Handle, Send, Close, RingStays
<1> QED
  BY <1>1, <1>2, <1>3

LEMMA RunRing ==
  ASSUME IInv, RunNext \/ Stop \/ UNCHANGED vars, ~(Offer /\ ~Full)
  PROVE  RingStays
<1> USE DEF IInv
<1>1. CASE Offer
  BY <1>1, OfferStep DEF RingStays
<1>2. CASE Opened \/ Finally
  BY <1>2, OpenedStep, FinallyStep DEF QStays
<1>3. CASE Others
  BY <1>3, OthersFrame DEF RingStays
<1> QED
  BY <1>1, <1>2, <1>3 DEF RunNext, Others

LEMMA RingNext ==
  ASSUME IInv, [Next]_vars
  PROVE  RingRight'
<1> USE DEF IInv
<1>1. cfg' = cfg
  BY CfgStays
<1>2. ASSUME NEW w \in W, WorkerNext(w) PROVE RingRight'
  BY <1>1, <1>2, WorkerRing, RingTake, RingFrame
<1>3. CASE RunNext \/ Stop \/ UNCHANGED vars
  BY <1>1, <1>3, RunRing, RingPut, RingFrame
<1> QED
  BY <1>2, <1>3 DEF Next

-----------------------------------------------------------------------------
(* Where the connections are. *)
LEMMA ConnToIs ==
  ASSUME Types, NEW fd \in Fds, NEW at, NEW late, ConnTo(fd, at, late)
  PROVE  /\ conns'[fd].at = at /\ conns'[fd].late = late
         /\ \A x \in Fds \ {fd} : conns'[x] = conns[x]
<1>1. conns'[fd] = [at |-> at, late |-> late]
  BY DEF Types, ConnTo
<1> QED
  BY <1>1 DEF Types, ConnTo

LEMMA ConnsFrame ==
  ASSUME Types, ConnsRight, cfg' = cfg, cfd' = cfd, refused => refused', Placing' <=> Placing,
         InRing' = InRing, \A i \in InRing : Queued(i)' = Queued(i),
         Serving' = Serving, \A w \in Serving : ws'[w].fd = ws[w].fd,
         \A fd \in Fds : conns'[fd].at = conns[fd].at
  PROVE  ConnsRight'
<1>0. Placing => cfd \in Fds
  BY CfdIs
<1> HIDE DEF Serving, InRing, Queued, Placing, cfd
<1>1. \A w \in Serving' : w \in Serving /\ ws'[w].fd = ws[w].fd
  OBVIOUS
<1>2. \A i \in InRing' : i \in InRing /\ Queued(i)' = Queued(i)
  OBVIOUS
<1>3. /\ \A fd \in Fds : conns'[fd].at = "none" <=> fd > cfd'
      /\ Placing' => cfd' > 0 /\ conns'[cfd'].at = "open"
      /\ \A fd \in Fds : conns'[fd].at = "lost" => refused' /\ cfg'.tasks
  BY <1>0 DEF ConnsRight
<1>4. /\ \A i \in InRing' : Queued(i)' \in Fds /\ conns'[Queued(i)'].at = "open"
      /\ \A i \in InRing' : Placing' => Queued(i)' # cfd'
      /\ \A i, j \in InRing' : i # j => Queued(i)' # Queued(j)'
  BY <1>2 DEF ConnsRight
<1>5. /\ \A w \in Serving' : ws'[w].fd \in Fds /\ conns'[ws'[w].fd].at = "open"
      /\ \A w \in Serving' : Placing' => ws'[w].fd # cfd'
      /\ \A v, w \in Serving' : v # w => ws'[v].fd # ws'[w].fd
  BY <1>1 DEF ConnsRight
<1>6. \A i \in InRing', w \in Serving' : Queued(i)' # ws'[w].fd
  BY <1>1, <1>2 DEF ConnsRight
<1>7. ASSUME NEW fd \in Fds, conns'[fd].at = "open"
      PROVE  \/ Placing' /\ fd = cfd'
             \/ \E i \in InRing' : Queued(i)' = fd
             \/ \E w \in Serving' : ws'[w].fd = fd
  <2>1. \/ Placing /\ fd = cfd
        \/ \E i \in InRing : Queued(i) = fd
        \/ \E w \in Serving : ws[w].fd = fd
    BY <1>7 DEF ConnsRight
  <2> QED
    BY <1>1, <1>2, <2>1
<1> QED
  BY <1>3, <1>4, <1>5, <1>6, <1>7 DEF ConnsRight


LEMMA ServingIs ==
  ASSUME Types, ConnsRight
  PROVE  /\ \A w \in Serving : w \in W /\ ws[w].fd \in Fds
         /\ \A w \in W : w \in Serving <=> pc[w] \in Reading \cup {"give", "close"}
         /\ \A i \in InRing : Queued(i) \in Fds
BY DEF Serving, ConnsRight

LEMMA ConnAccepted ==
  ASSUME IInv, AcceptWait, main'.pc = "place"
  PROVE  ConnsRight'
<1> USE DEF IInv
<1>1. PICK n : n = cfd + 1
  OBVIOUS
<1>2. /\ main.pc = "accept" /\ UNCHANGED <<cfg, q, pc, ws, refused>> /\ cfd < MaxConns
      /\ cfd' = n /\ Fate(n, "open")
  BY <1>1 DEF AcceptWait, MainTo, Types, cfd
<1>3. cfd \in Nat /\ n \in Fds /\ n > 0
  BY SMTT(60), <1>1, <1>2, ConfigIs DEF Types, cfd, Fds
<1>4. conns'[n].at = "open" /\ \A x \in Fds \ {n} : conns'[x] = conns[x]
  BY <1>2, <1>3, FateIs, ConnToIs
<1>5. conns[n].at = "none"
  BY <1>1, <1>3 DEF ConnsRight
<1>6. InRing' = InRing /\ Serving' = Serving /\ \A i \in InRing : Queued(i)' = Queued(i)
  BY <1>2 DEF InRing, Serving, Queued, Slot, W
<1>7. ~Placing /\ Placing'
  BY <1>2 DEF Placing
<1>8. \A fd \in Fds : fd \in Nat /\ (fd > n <=> fd > cfd /\ fd # n)
  BY <1>1, <1>3, ConfigIs DEF Fds, Types
<1> HIDE DEF Serving, InRing, Queued, Placing, cfd
<1>9. /\ \A fd \in Fds : conns'[fd].at = "none" <=> fd > n
      /\ \A fd \in Fds : conns'[fd].at = "lost" => refused' /\ cfg'.tasks
  BY <1>2, <1>3, <1>4, <1>8 DEF ConnsRight
<1>10. /\ \A i \in InRing : Queued(i) \in Fds \ {n} /\ conns'[Queued(i)].at = "open"
       /\ \A i, j \in InRing : i # j => Queued(i) # Queued(j)
  BY <1>4, <1>5 DEF ConnsRight
<1>11. /\ \A w \in Serving : ws[w].fd \in Fds \ {n} /\ conns'[ws[w].fd].at = "open"
       /\ \A v, w \in Serving : v # w => ws[v].fd # ws[w].fd
       /\ \A i \in InRing, w \in Serving : Queued(i) # ws[w].fd
  BY <1>4, <1>5 DEF ConnsRight
<1>12. \A fd \in Fds : conns'[fd].at = "open" =>
         fd = n \/ (\E i \in InRing : Queued(i) = fd) \/ \E w \in Serving : ws[w].fd = fd
  BY <1>4, <1>7 DEF ConnsRight
<1> QED
  BY <1>2, <1>3, <1>4, <1>6, <1>7, <1>9, <1>10, <1>11, <1>12 DEF ConnsRight

LEMMA ConnQueued ==
  ASSUME IInv, Offer, ~Full
  PROVE  ConnsRight'
<1> USE DEF IInv
<1>1. PICK n : n = q.count
  OBVIOUS
<1>2. /\ InRing' = InRing \cup {n} /\ n \notin InRing /\ Queued(n)' = cfd
      /\ \A i \in InRing : Queued(i)' = Queued(i)
  BY <1>1, RingPut
<1>3. /\ UNCHANGED <<cfg, pc, ws, conns, refused>> /\ cfd' = cfd /\ Placing /\ ~Placing'
  BY OfferStep DEF Placing, cfd, Offer
<1>4. Serving' = Serving /\ cfd \in Fds
  BY <1>3, CfdIs DEF Serving, W
<1> HIDE DEF Serving, InRing, Queued, Placing, cfd
<1>5. /\ \A i \in InRing' : Queued(i)' \in Fds /\ conns[Queued(i)'].at = "open"
      /\ \A i, j \in InRing' : i # j => Queued(i)' # Queued(j)'
  BY <1>2, <1>3, <1>4 DEF ConnsRight
<1>6. \A i \in InRing', w \in Serving : Queued(i)' # ws[w].fd
  BY <1>2, <1>3, <1>4 DEF ConnsRight
<1>7. \A fd \in Fds : conns[fd].at = "open" =>
         (\E i \in InRing' : Queued(i)' = fd) \/ \E w \in Serving : ws[w].fd = fd
  BY <1>2, <1>3, <1>4 DEF ConnsRight
<1> QED
  BY <1>3, <1>4, <1>5, <1>6, <1>7 DEF ConnsRight

LEMMA ConnStarted ==
  ASSUME IInv, StartTask
  PROVE  ConnsRight'
<1> USE DEF IInv
<1>1. /\ main.pc = "task" /\ UNCHANGED <<cfg, q, ws>> /\ cfd' = cfd /\ Placing /\ ~Placing'
      /\ cfg.tasks /\ main'.k = main.k
  BY DEF StartTask, MainTo, Types, cfd, MainRight, Placing
<1>2. cfd \in Fds
  BY <1>1, CfdIs
<1>3. InRing' = InRing /\ \A i \in InRing : Queued(i)' = Queued(i)
  BY <1>1 DEF InRing, Queued, Slot
<1>4. PICK k \in W : k = main.k /\ pc[k] = "none" /\ ws[k].fd = cfd
  <2>1. main.k \in W /\ pc[main.k] = "none" /\ ws[main.k] = [Idler(-1) EXCEPT !.fd = cfd]
    BY <1>1 DEF SlotsRight, Held
  <2> QED
    BY <2>1 DEF Idler
<1>5. CASE Goto(main.k, "idle") /\ UNCHANGED <<conns, refused>>
  <2>1. Serving' = Serving \cup {k} /\ k \notin Serving
    <3>1. W' = W /\ pc' = [pc EXCEPT ![k] = "idle"] /\ pc \in [W -> IF cfg.tasks THEN TaskPoints ELSE ThreadPoints]
      BY <1>1, <1>4, <1>5 DEF W, Goto, Types
    <3>2. "idle" \in Reading /\ "none" \notin Reading \cup {"give", "close"}
      BY DEF Reading
    <3> HIDE DEF Reading
    <3> QED
      BY <1>4, <3>1, <3>2 DEF Serving
  <2> HIDE DEF Serving, InRing, Queued, Placing, cfd
  <2>2. /\ \A w \in Serving' : ws[w].fd \in Fds /\ conns[ws[w].fd].at = "open"
        /\ \A v, w \in Serving' : v # w => ws[v].fd # ws[w].fd
    BY <1>1, <1>2, <1>4, <2>1 DEF ConnsRight
  <2>3. \A i \in InRing, w \in Serving' : Queued(i) # ws[w].fd
    BY <1>1, <1>2, <1>4, <2>1 DEF ConnsRight
  <2>4. \A fd \in Fds : conns[fd].at = "open" =>
          (\E i \in InRing : Queued(i) = fd) \/ \E w \in Serving' : ws[w].fd = fd
    BY <1>1, <1>2, <1>4, <2>1 DEF ConnsRight
  <2> QED
    BY <1>1, <1>3, <1>5, <2>2, <2>3, <2>4 DEF ConnsRight
<1>6. CASE Fate(cfd, "lost") /\ refused' /\ UNCHANGED pc
  <2>1. conns'[cfd].at = "lost" /\ \A x \in Fds \ {cfd} : conns'[x] = conns[x]
    BY <1>2, <1>6, FateIs, ConnToIs
  <2>2. Serving' = Serving
    BY <1>1, <1>6 DEF Serving, W
  <2> HIDE DEF Serving, InRing, Queued, Placing, cfd
  <2>3. /\ \A fd \in Fds : conns'[fd].at = "none" <=> fd > cfd
        /\ \A fd \in Fds : conns'[fd].at = "lost" => refused' /\ cfg.tasks
    BY <1>1, <1>2, <1>6, <2>1 DEF ConnsRight
  <2>4. /\ \A i \in InRing : Queued(i) \in Fds /\ conns'[Queued(i)].at = "open"
        /\ \A w \in Serving : ws[w].fd \in Fds /\ conns'[ws[w].fd].at = "open"
    BY <1>1, <1>2, <2>1 DEF ConnsRight
  <2>5. \A fd \in Fds : conns'[fd].at = "open" =>
          (\E i \in InRing : Queued(i) = fd) \/ \E w \in Serving : ws[w].fd = fd
    BY <1>1, <1>2, <2>1 DEF ConnsRight
  <2> QED
    BY <1>1, <1>3, <2>2, <2>3, <2>4, <2>5 DEF ConnsRight
<1> QED
  BY <1>5, <1>6 DEF StartTask

LEMMA ConnRefused ==
  ASSUME IInv, Busy
  PROVE  ConnsRight'
<1> USE DEF IInv
<1>1. /\ UNCHANGED <<cfg, q, ws, pc, refused>> /\ cfd' = cfd /\ Placing /\ ~Placing' /\ Fate(cfd, "busy")
  BY DEF Busy, MainTo, Types, cfd, Placing
<1>2. cfd \in Fds
  BY <1>1, CfdIs
<1>3. /\ InRing' = InRing /\ \A i \in InRing : Queued(i)' = Queued(i)
      /\ Serving' = Serving
  BY <1>1 DEF InRing, Queued, Slot, Serving, W
<1>4. conns'[cfd].at = "busy" /\ \A x \in Fds \ {cfd} : conns'[x] = conns[x]
  BY <1>1, <1>2, FateIs, ConnToIs
<1> HIDE DEF Serving, InRing, Queued, Placing, cfd
<1>5. /\ \A fd \in Fds : conns'[fd].at = "none" <=> fd > cfd
      /\ \A fd \in Fds : conns'[fd].at = "lost" => refused /\ cfg.tasks
  BY <1>1, <1>2, <1>4 DEF ConnsRight
<1>6. /\ \A i \in InRing : Queued(i) \in Fds /\ conns'[Queued(i)].at = "open"
      /\ \A w \in Serving : ws[w].fd \in Fds /\ conns'[ws[w].fd].at = "open"
  BY <1>1, <1>2, <1>4 DEF ConnsRight
<1>7. \A fd \in Fds : conns'[fd].at = "open" =>
        (\E i \in InRing : Queued(i) = fd) \/ \E w \in Serving : ws[w].fd = fd
  BY <1>1, <1>2, <1>4 DEF ConnsRight
<1> QED
  BY <1>1, <1>3, <1>5, <1>6, <1>7 DEF ConnsRight


LEMMA ConnTaken ==
  ASSUME IInv, NEW w \in W, Take(w), q.count > 0
  PROVE  ConnsRight'
<1> USE DEF IInv
<1>1. /\ UNCHANGED <<cfg, main, st, refused>> /\ \A v \in W \ {w} : pc'[v] = pc[v] /\ ws'[v] = ws[v]
  BY WorkerFrame DEF WorkerNext
<1>2. /\ pc[w] = "take" /\ pc'[w] = "idle" /\ conns' = conns /\ ws'[w].fd = q.fds[q.head]
  BY TakeStep DEF Is, ConnsStay
<1>3. /\ 0 \in InRing /\ Queued(0) = q.fds[q.head]
      /\ \A i \in InRing' : i + 1 \in InRing \ {0} /\ Queued(i)' = Queued(i + 1)
      /\ \A i \in InRing \ {0} : i - 1 \in InRing' /\ Queued(i - 1)' = Queued(i)
  BY RingTake
<1>4. /\ Serving' = Serving \cup {w} /\ w \notin Serving
      /\ \A v \in Serving : ws'[v] = ws[v]
  <2>1. W' = W /\ "idle" \in Reading /\ "take" \notin Reading \cup {"give", "close"}
    BY <1>1 DEF W, Reading
  <2> HIDE DEF Reading
  <2>2. Serving' = Serving \cup {w} /\ w \notin Serving
    BY <1>1, <1>2, <2>1 DEF Serving
  <2> QED
    BY <1>1, <2>2 DEF Serving
<1>5. cfd' = cfd /\ (Placing' <=> Placing)
  BY <1>1 DEF cfd, Placing
<1>6. \A i \in InRing' : i \in Int
  BY DEF InRing
<1> DEFINE fd == q.fds[q.head]
<1>7. ws'[w].fd = fd /\ Queued(0) = fd /\ 0 \in InRing
  BY <1>2, <1>3
<1> HIDE DEF Serving, InRing, Queued, Placing, cfd, fd
<1>8. /\ \A i \in InRing' : Queued(i)' \in Fds /\ conns[Queued(i)'].at = "open"
      /\ \A i \in InRing' : Placing => Queued(i)' # cfd
  BY <1>3 DEF ConnsRight
<1>9. \A i, j \in InRing' : i # j => Queued(i)' # Queued(j)'
  BY <1>3, <1>6 DEF ConnsRight
<1>10. /\ \A v \in Serving' : ws'[v].fd \in Fds /\ conns[ws'[v].fd].at = "open"
       /\ \A v \in Serving' : Placing => ws'[v].fd # cfd
  BY <1>4, <1>7 DEF ConnsRight
<1>11. \A u, v \in Serving' : u # v => ws'[u].fd # ws'[v].fd
  BY <1>4, <1>7 DEF ConnsRight
<1>12. \A i \in InRing', v \in Serving' : Queued(i)' # ws'[v].fd
  BY <1>3, <1>4, <1>7 DEF ConnsRight
<1>13. ASSUME NEW x \in Fds, conns[x].at = "open"
       PROVE  \/ Placing /\ x = cfd
              \/ \E i \in InRing' : Queued(i)' = x
              \/ \E v \in Serving' : ws'[v].fd = x
  <2>1. \/ Placing /\ x = cfd
        \/ \E i \in InRing : Queued(i) = x
        \/ \E v \in Serving : ws[v].fd = x
    BY <1>13 DEF ConnsRight
  <2>2. ASSUME NEW i \in InRing, Queued(i) = x
        PROVE  (\E j \in InRing' : Queued(j)' = x) \/ \E v \in Serving' : ws'[v].fd = x
    <3>1. CASE i = 0
      BY <1>4, <1>7, <2>2, <3>1
    <3>2. CASE i # 0
      BY <1>3, <2>2, <3>2
    <3> QED
      BY <3>1, <3>2
  <2> QED
    BY <1>4, <2>1, <2>2
<1> QED
  BY <1>1, <1>2, <1>5, <1>8, <1>9, <1>10, <1>11, <1>12, <1>13 DEF ConnsRight

LEMMA ConnClosed ==
  ASSUME IInv, NEW w \in W, Close(w)
  PROVE  ConnsRight'
<1> USE DEF IInv
<1>1. /\ UNCHANGED <<cfg, main, st, refused>> /\ \A v \in W \ {w} : pc'[v] = pc[v] /\ ws'[v] = ws[v]
  BY WorkerFrame DEF WorkerNext
<1>2. pc[w] = "close" /\ w \in Serving
  BY DEF Close, Serving
<1>3. ws[w].fd \in Fds
  BY <1>2, ServingIs
<1>4. PICK fd \in Fds : fd = ws[w].fd
  BY <1>3
<1>5. /\ UNCHANGED q /\ pc'[w] \in {"closed", "take"} /\ conns'[fd].at = "closed"
      /\ \A x \in Fds \ {fd} : conns'[x] = conns[x]
  <2>1. ConnTo(fd, "closed", conns[fd].late) /\ UNCHANGED q /\ pc'[w] \in {"closed", "take"}
    BY <1>3, <1>4, CloseStep
  <2> QED
    BY <2>1, ConnToIs
<1>6. /\ Serving' = Serving \ {w} /\ \A v \in Serving' : ws'[v] = ws[v]
  <2>1. W' = W /\ \A to \in {"closed", "take"} : to \notin Reading \cup {"give", "close"}
    BY <1>1 DEF W, Reading
  <2> HIDE DEF Reading
  <2>2. Serving' = Serving \ {w}
    BY <1>1, <1>5, <2>1 DEF Serving
  <2> QED
    BY <1>1, <2>2 DEF Serving
<1>7. cfd' = cfd /\ (Placing' <=> Placing) /\ InRing' = InRing /\ \A i \in InRing : Queued(i)' = Queued(i)
  BY <1>1, <1>5 DEF cfd, Placing, InRing, Queued, Slot
<1>8. Placing => cfd \in Fds
  BY CfdIs
<1> HIDE DEF Serving, InRing, Queued, Placing, cfd
<1>9. /\ \A x \in Fds : conns'[x].at = "none" <=> x > cfd
      /\ Placing => cfd > 0 /\ conns'[cfd].at = "open"
      /\ \A x \in Fds : conns'[x].at = "lost" => refused /\ cfg.tasks
  BY <1>2, <1>4, <1>5, <1>8 DEF ConnsRight
<1>10. /\ \A i \in InRing : Queued(i) \in Fds /\ conns'[Queued(i)].at = "open"
       /\ \A v \in Serving' : ws'[v].fd \in Fds /\ conns'[ws'[v].fd].at = "open"
  BY <1>2, <1>4, <1>5, <1>6 DEF ConnsRight
<1>11. /\ \A v \in Serving' : Placing => ws'[v].fd # cfd
       /\ \A u, v \in Serving' : u # v => ws'[u].fd # ws'[v].fd
       /\ \A i \in InRing, v \in Serving' : Queued(i) # ws'[v].fd
  BY <1>6 DEF ConnsRight
<1>12. ASSUME NEW x \in Fds, conns'[x].at = "open"
       PROVE  \/ Placing /\ x = cfd
              \/ \E i \in InRing : Queued(i) = x
              \/ \E v \in Serving' : ws'[v].fd = x
  <2>1. x # fd /\ conns[x].at = "open"
    BY <1>5, <1>12
  <2> QED
    BY <1>4, <1>6, <2>1 DEF ConnsRight
<1> QED
  BY <1>1, <1>7, <1>9, <1>10, <1>11, <1>12 DEF ConnsRight

(* Other steps of a worker keep it at its connection, or without one. *)
LEMMA WorkerKeeps ==
  ASSUME IInv, NEW w \in W, WorkerNext(w), ~(Take(w) /\ q.count > 0), ~Close(w)
  PROVE  /\ pc'[w] \in Reading \cup {"give", "close"} <=> pc[w] \in Reading \cup {"give", "close"}
         /\ w \in Serving => ws'[w].fd = ws[w].fd
         /\ \A fd \in Fds : conns'[fd].at = conns[fd].at
<1> USE DEF IInv, Reading
<1>1. pc[w] \in {"read", "send", "close"} => ws[w].fd \in Fds
  BY DEF ConnsRight, Serving
<1>2. Counted(w) /\ ws[w].fd \in Fds => \A fd \in Fds : conns'[fd].at = conns[fd].at
  BY ConnToIs DEF Counted
<1>3. CASE Take(w)
  BY <1>3, TakeStep DEF ConnsStay
<1>4. CASE Idle(w) \/ Slice(w) \/ EmptyLines(w)
  <2>1. ws'[w].fd = ws[w].fd /\ conns' = conns
    BY <1>4, LookStep DEF Is, ConnsStay
  <2>2. pc[w] \in {"idle", "wait", "read"}
    BY <1>4, LookStep
  <2>3. pc'[w] \in {"idle", "wait", "read", "close"}
    BY <1>4, LookStep
  <2> QED
    BY <2>1, <2>2, <2>3
<1>5. CASE Read(w)
  <2>0. pc[w] = "read" /\ ws[w].fd \in Fds
    BY <1>1, <1>5 DEF Read
  <2>1. ws'[w].fd = ws[w].fd
    BY <1>5, <2>0, ReadStep DEF Is
  <2>2. conns' = conns \/ Counted(w)
    BY <1>5, <2>0, ReadStep DEF ConnsStay
  <2>3. pc'[w] \in {"close", "token", "handle"}
    BY <1>5, <2>0, ReadStep
  <2> QED
    BY <1>2, <2>0, <2>1, <2>2, <2>3
<1>6. CASE TakeToken(w)
  BY <1>6, TakeTokenStep DEF Is, ConnsStay
<1>7. CASE Handle(w)
  BY <1>7, HandleStep DEF Is, ConnsStay
<1>8. CASE Send(w)
  <2>0. pc[w] = "send" /\ ws[w].fd \in Fds
    BY <1>1, <1>8 DEF Send
  <2>1. ws'[w].fd = ws[w].fd
    BY <1>8, <2>0, SendStep DEF Is
  <2>2. conns' = conns \/ Counted(w)
    BY <1>8, <2>0, SendStep DEF ConnsStay
  <2>3. pc'[w] \in {"give", "idle", "read", "close"}
    BY <1>8, <2>0, SendStep
  <2> QED
    BY <1>2, <2>0, <2>1, <2>2, <2>3
<1>9. CASE GiveToken(w)
  BY <1>9, GiveStep DEF Is, ConnsStay
<1>10. CASE Exited(w) \/ Closed(w)
  BY <1>10, ExitStep, ClosedStep DEF ConnsStay, Serving
<1> QED
  BY <1>3, <1>4, <1>5, <1>6, <1>7, <1>8, <1>9, <1>10 DEF WorkerNext

LEMMA ConnsNext ==
  ASSUME IInv, [Next]_vars
  PROVE  ConnsRight'
<1> USE DEF IInv
<1>0. cfg' = cfg /\ W' = W
  BY CfgStays
<1>1. ASSUME NEW w \in W, WorkerNext(w), ~(Take(w) /\ q.count > 0), ~Close(w)
      PROVE  ConnsRight'
  <2>1. /\ UNCHANGED <<main, st, refused>>
        /\ \A v \in W \ {w} : pc'[v] = pc[v] /\ ws'[v] = ws[v]
    BY <1>1, WorkerFrame
  <2>2. /\ pc'[w] \in Reading \cup {"give", "close"} <=> pc[w] \in Reading \cup {"give", "close"}
        /\ w \in Serving => ws'[w].fd = ws[w].fd
        /\ \A fd \in Fds : conns'[fd].at = conns[fd].at
    BY <1>1, WorkerKeeps
  <2> HIDE DEF Reading
  <2>3. Serving' = Serving
    BY <1>0, <2>1, <2>2 DEF Serving
  <2>4. \A v \in Serving : ws'[v].fd = ws[v].fd
    BY <2>1, <2>2 DEF Serving
  <2>5. InRing' = InRing /\ \A i \in InRing : Queued(i)' = Queued(i)
    BY <1>0, <1>1, WorkerRing, RingFrame
  <2>6. cfd' = cfd /\ (Placing' <=> Placing)
    BY <2>1 DEF cfd, Placing
  <2> QED
    BY <1>0, <2>1, <2>2, <2>3, <2>4, <2>5, <2>6, ConnsFrame
<1>2. ASSUME RunNext \/ Stop \/ UNCHANGED vars, ~(AcceptWait /\ main'.pc = "place"),
             ~(Offer /\ ~Full), ~StartTask, ~Busy
      PROVE  ConnsRight'
  <2>1. InRing' = InRing /\ \A i \in InRing : Queued(i)' = Queued(i)
    BY <1>0, <1>2, RunRing, RingFrame
  <2>2. UNCHANGED <<st, conns>> \/ Totals
    BY <1>2, OfferStep, OpenedStep, FinallyStep
       DEF RunNext, StartThread, Look, AcceptWait, AwaitEnds, Stop, MainTo, Types, vars
  <2>3. conns' = conns /\ cfd' = cfd /\ refused \in BOOLEAN
    BY <2>2 DEF Totals, cfd, Types
  <2>4. (Placing' <=> Placing) /\ (refused => refused')
    <3>1. CASE Offer
      BY <1>2, <3>1, OfferStep DEF Placing
    <3>2. CASE Opened
      BY <3>2, OpenedStep DEF Placing
    <3>3. CASE Finally
      BY <3>3, FinallyStep DEF Placing
    <3>4. CASE AcceptWait
      <4>1. main.pc = "accept" /\ main'.pc \in {"loop", "shut"} /\ UNCHANGED refused
        BY <1>2, <3>4 DEF AcceptWait, MainTo, Types
      <4> QED
        BY <4>1 DEF Placing
    <3>5. CASE StartThread \/ Look \/ AwaitEnds \/ Totals
      <4>1. /\ main.pc \in {"start", "loop", "await", "totals"}
            /\ main'.pc \in {"start", "loop", "raised", "shut", "accept", "await", "totals", "returned"}
        BY <3>5 DEF StartThread, Look, AwaitEnds, Totals, MainTo, Types
      <4>2. refused' = TRUE \/ refused' = refused
        BY <3>5 DEF StartThread, Look, AwaitEnds, Totals
      <4> QED
        BY <4>1, <4>2 DEF Placing
    <3>6. CASE Stop \/ UNCHANGED vars
      BY <3>6 DEF Stop, vars, Placing
    <3> QED
      BY <1>2, <3>1, <3>2, <3>3, <3>4, <3>5, <3>6 DEF RunNext
  <2>5. UNCHANGED pc \/ Started
    <3>1. Others \/ Offer \/ Opened \/ Finally
      BY <1>2 DEF RunNext, Others
    <3> QED
      BY <3>1, OthersPc, OfferStep, OpenedStep, FinallyStep
  <2>6. UNCHANGED pc \/ (main.k \in W /\ pc[main.k] = "none" /\ Goto(main.k, "take"))
    BY <1>2, <2>5 DEF Started
  <2>7. Serving' = Serving
    BY <1>0, <2>6 DEF Serving, Reading, Goto, Types
  <2>8. \A w \in Serving : ws'[w].fd = ws[w].fd
    <3>1. CASE UNCHANGED ws
      BY <3>1
    <3>2. CASE ~UNCHANGED ws
      <4>1. Opened
        BY <1>2, <3>2, OthersFrame, OfferStep, FinallyStep DEF RunNext, Others
      <4>2. main'.k \in W \ Taken /\ ws' = [ws EXCEPT ![main'.k] = [Idler(-1) EXCEPT !.fd = cfd]]
        BY <3>2, <4>1, OpenedSlot, OpenedStep
      <4>3. main'.k \notin Serving
        BY <4>2 DEF Taken, Serving, Reading
      <4> QED
        BY <4>2, <4>3 DEF Types, Serving
    <3> QED
      BY <3>1, <3>2
  <2> QED
    BY <1>0, <2>1, <2>3, <2>4, <2>7, <2>8, ConnsFrame
<1> QED
  BY <1>1, <1>2, ConnAccepted, ConnQueued, ConnStarted, ConnRefused, ConnTaken, ConnClosed DEF Next

-----------------------------------------------------------------------------
(* How far a worker is, and the answers after the stop. *)
LEMMA NumbersIs ==
  ASSUME Types, NEW w \in W
  PROVE  /\ cfg.idle \in Nat \ {0} /\ cfg.perConn \in Nat \ {0} /\ cfg.tasks \in BOOLEAN
         /\ ws[w].waited \in Nat /\ ws[w].served \in Nat /\ ws[w].keep \in BOOLEAN
         /\ ws[w].requests \in Nat /\ \A fd \in Fds : conns[fd].late \in Nat
BY ConfigIs DEF Types, Locals

LEMMA CountedIs ==
  ASSUME Types, NEW w \in W, ws[w].fd \in Fds, Counted(w)
  PROVE  /\ \A fd \in Fds : conns'[fd].at = conns[fd].at
         /\ \A fd \in Fds : fd # ws[w].fd => conns'[fd].late = conns[fd].late
         /\ \/ ~stopping /\ conns'[ws[w].fd].late = conns[ws[w].fd].late
            \/ stopping /\ conns'[ws[w].fd].late = conns[ws[w].fd].late + 1
<1>1. /\ conns'[ws[w].fd].at = conns[ws[w].fd].at
      /\ conns'[ws[w].fd].late =
           IF stopping THEN conns[ws[w].fd].late + 1 ELSE conns[ws[w].fd].late
      /\ \A x \in Fds \ {ws[w].fd} : conns'[x] = conns[x]
  BY ConnToIs DEF Counted
<1> QED
  BY <1>1

(* What a worker's step does to its connection's late answers. *)
LEMMA WorkerLate ==
  ASSUME IInv, NEW w \in W, WorkerNext(w)
  PROVE  \/ \A fd \in Fds : conns'[fd].late = conns[fd].late
         \/ pc[w] \in {"read", "send"} /\ ws[w].fd \in Fds /\ Counted(w)
<1> USE DEF IInv
<1>1. pc[w] \in {"read", "send", "close"} => ws[w].fd \in Fds
  BY DEF ConnsRight, Serving, Reading
<1>2. CASE Read(w)
  <2>1. pc[w] = "read"
    BY <1>2 DEF Read
  <2> QED
    BY <1>1, <1>2, <2>1, ReadStep DEF ConnsStay
<1>3. CASE Send(w)
  <2>1. pc[w] = "send"
    BY <1>3 DEF Send
  <2> QED
    BY <1>1, <1>3, <2>1, SendStep DEF ConnsStay
<1>4. CASE Close(w)
  <2>1. pc[w] = "close"
    BY <1>4 DEF Close
  <2>2. ConnTo(ws[w].fd, "closed", conns[ws[w].fd].late) /\ ws[w].fd \in Fds
    BY <1>1, <1>4, <2>1, CloseStep
  <2> QED
    BY <2>2, ConnToIs
<1>5. CASE ~(Read(w) \/ Send(w) \/ Close(w))
  BY <1>5 DEF WorkerNext, Take, Idle, Slice, EmptyLines, TakeToken, Handle, GiveToken, Exited, Closed
<1> QED
  BY <1>2, <1>3, <1>4, <1>5

LEMMA ServeOther ==
  ASSUME IInv, NEW w \in W, WorkerNext(w), NEW v \in W, v # w
  PROVE  ServeRight(v)'
<1> USE DEF IInv
<1>1. pc'[v] = pc[v] /\ ws'[v] = ws[v] /\ cfg' = cfg
  BY WorkerFrame
<1>2. pc[v] \in Reading \cup {"give"} => LateIs(v)' = LateIs(v)
  <2> SUFFICES ASSUME pc[v] \in Reading \cup {"give"} PROVE LateIs(v)' = LateIs(v)
    OBVIOUS
  <2>1. v \in Serving /\ ws[v].fd \in Fds
    BY ServingIs DEF Serving
  <2>2. CASE \A fd \in Fds : conns'[fd].late = conns[fd].late
    BY <1>1, <2>1, <2>2 DEF LateIs
  <2>3. CASE pc[w] \in {"read", "send"} /\ ws[w].fd \in Fds /\ Counted(w)
    <3>1. w \in Serving
      BY <2>3 DEF Serving, Reading
    <3>2. ws[v].fd # ws[w].fd
      BY <2>1, <3>1 DEF ConnsRight
    <3> QED
      BY <1>1, <2>1, <2>3, <3>2, CountedIs DEF LateIs
  <2> QED
    BY <2>2, <2>3, WorkerLate
<1>3. ServeRight(v)
  BY DEF ServesRight
<1>4. Idler(v)' = Idler(v)
  BY DEF Idler
<1> HIDE DEF LateIs, Idler
<1> QED
  BY <1>1, <1>2, <1>3, <1>4 DEF ServeRight, Reading

LEMMA ServeOwn ==
  ASSUME IInv, NEW w \in W, WorkerNext(w)
  PROVE  ServeRight(w)'
<1> USE DEF IInv
<1>0. /\ cfg' = cfg /\ ServeRight(w)
      /\ pc[w] \in Reading \cup {"give", "close"} => ws[w].fd \in Fds /\ LateIs(w) \in Nat
  <2>1. cfg' = cfg /\ ServeRight(w)
    BY WorkerFrame DEF ServesRight
  <2>2. pc[w] \in Reading \cup {"give", "close"} => ws[w].fd \in Fds
    BY ServingIs
  <2> QED
    BY <2>1, <2>2, NumbersIs DEF LateIs
<1> DEFINE s == ws[w].served
<1>n. /\ cfg.idle \in Nat \ {0} /\ cfg.perConn \in Nat \ {0} /\ cfg.tasks \in BOOLEAN
      /\ ws[w].waited \in Nat /\ s \in Nat /\ ws[w].keep \in BOOLEAN
  BY NumbersIs
<1>l. pc[w] \in Reading \cup {"give", "close"} /\ ~stopping => LateIs(w) = 0
  BY <1>0 DEF LateRight, LateIs
<1>p. /\ cfg.tasks => pc[w] \in TaskPoints
      /\ ~cfg.tasks => pc[w] \in ThreadPoints
  BY PointsIs
<1> HIDE DEF s
<1>1. CASE Take(w)
  <2>1. CASE q.count > 0
    <3>1. /\ pc'[w] = "idle" /\ conns' = conns /\ ws'[w].fd = q.fds[q.head]
          /\ ws'[w].served = 0 /\ ws'[w].waited = 0
      BY <1>1, <2>1, TakeStep DEF Is, ConnsStay
    <3>2. 0 \in InRing /\ Queued(0) = q.fds[q.head] /\ Queued(0) \in Fds
      BY <1>1, <2>1, RingTake, ServingIs
    <3>3. LateIs(w)' = 0
      BY <3>1, <3>2 DEF LateRight, LateIs
    <3> HIDE DEF LateIs
    <3> QED
      BY <1>0, <1>n, <3>1, <3>3 DEF ServeRight, Reading
  <2>2. CASE ~(q.count > 0)
    <3>1. UNCHANGED ws /\ pc[w] = "take" /\ pc'[w] \in {"take", "exit"}
      BY <1>1, <2>2, TakeStep
    <3> QED
      BY <1>0, <3>1 DEF ServeRight, Reading
  <2> QED
    BY <2>1, <2>2
<1>2. CASE Idle(w) \/ Slice(w) \/ EmptyLines(w)
  <2>0. conns' = conns
    BY <1>2, LookStep DEF ConnsStay
  <2>1. pc[w] \in {"idle", "wait", "read"}
    BY <1>2, LookStep
  <2>2. CASE UNCHANGED ws /\ pc'[w] \in {"close", "wait", "read"}
    <3>1. LateIs(w)' = LateIs(w)
      BY <2>0, <2>2 DEF LateIs
    <3> HIDE DEF LateIs
    <3> QED
      BY <1>0, <1>n, <2>1, <2>2, <3>1 DEF ServeRight, Reading
  <2>4. CASE /\ ws'[w].fd = ws[w].fd /\ ws'[w].served = ws[w].served
             /\ ws'[w].waited = 0 /\ pc[w] = "read" /\ pc'[w] = "idle"
    <3>1. LateIs(w)' = LateIs(w)
      BY <2>0, <2>4 DEF LateIs
    <3> HIDE DEF LateIs
    <3> QED
      BY <1>0, <1>n, <2>1, <2>4, <3>1 DEF ServeRight, Reading
  <2>3. CASE /\ ws'[w].fd = ws[w].fd /\ ws'[w].served = ws[w].served
             /\ ws'[w].waited = ws[w].waited + 1
             /\ (ws[w].waited + 1 < cfg.idle /\ pc'[w] = "idle") \/ pc'[w] = "close"
    <3>1. LateIs(w)' = LateIs(w)
      BY <2>0, <2>3 DEF LateIs
    <3> HIDE DEF LateIs
    <3> QED
      BY <1>0, <1>n, <2>1, <2>3, <3>1 DEF ServeRight, Reading
  <2> QED
    BY <1>2, <2>2, <2>3, <2>4, LookStep DEF Is
<1>3. CASE Read(w)
  <2>0. pc[w] = "read" /\ ws[w].fd \in Fds
    BY <1>0, <1>3 DEF Read, Reading
  <2>1. CASE pc'[w] = "close"
    <3>1. ws'[w].waited = ws[w].waited /\ ws'[w].served = ws[w].served
      BY <1>3, <2>0, ReadStep DEF Is
    <3> QED
      BY <1>0, <2>1, <3>1 DEF ServeRight, Reading
  <2>2. CASE pc'[w] # "close"
    <3>1. PICK keep \in BOOLEAN :
            /\ ConnsStay /\ pc'[w] \in {"token", "handle"}
            /\ Is(w, ws[w].fd, ws[w].k, ws[w].requests, ws[w].served, keep, ws[w].waited)
            /\ keep => ws[w].served + 1 < cfg.perConn /\ ~stopping
      BY <1>3, <2>0, <2>2, ReadStep
    <3>2. LateIs(w)' = LateIs(w)
      BY <3>1 DEF LateIs, Is, ConnsStay
    <3>3. ws'[w].served = ws[w].served /\ ws'[w].keep = keep /\ ws'[w].waited = ws[w].waited
      BY <3>1 DEF Is
    <3> HIDE DEF LateIs, Is, ConnsStay
    <3> QED
      BY <1>0, <1>l, <1>n, <2>0, <3>1, <3>2, <3>3 DEF ServeRight, Reading
  <2> QED
    BY <2>1, <2>2
<1>4. CASE TakeToken(w)
  <2>1. /\ pc[w] = "token" /\ pc'[w] \in {"token", "handle"} /\ conns' = conns
        /\ ws'[w].fd = ws[w].fd /\ ws'[w].served = ws[w].served /\ ws'[w].keep = ws[w].keep
        /\ ws'[w].waited = ws[w].waited
    BY <1>4, TakeTokenStep DEF Is, ConnsStay
  <2>2. LateIs(w)' = LateIs(w)
    BY <2>1 DEF LateIs
  <2> HIDE DEF LateIs
  <2> QED
    BY <1>0, <2>1, <2>2 DEF ServeRight, Reading
<1>5. CASE Handle(w)
  <2>1. /\ pc[w] = "handle" /\ pc'[w] = "send" /\ conns' = conns
        /\ ws'[w].fd = ws[w].fd /\ ws'[w].served = ws[w].served /\ (ws'[w].keep => ws[w].keep)
        /\ ws'[w].waited = ws[w].waited
    BY <1>5, HandleStep DEF Is, ConnsStay
  <2>2. LateIs(w)' = LateIs(w)
    BY <2>1 DEF LateIs
  <2> HIDE DEF LateIs
  <2> QED
    BY <1>0, <2>1, <2>2 DEF ServeRight, Reading
<1>6. CASE Send(w)
  <2>0. pc[w] = "send" /\ ws[w].fd \in Fds
    BY <1>0, <1>6 DEF Send, Reading
  <2>1. PICK keep \in BOOLEAN :
          /\ ConnsStay \/ Counted(w)
          /\ ws'[w].fd = ws[w].fd /\ ws'[w].served = ws[w].served + 1 /\ ws'[w].keep = keep
          /\ ws'[w].waited = 0 /\ (keep => ws[w].keep)
          /\ \/ pc'[w] = "give"
             \/ pc'[w] \in {"idle", "read", "close"} /\ (pc'[w] # "close" => keep)
    BY <1>6, <2>0, SendStep DEF Is
  <2>2. LateIs(w)' \in {LateIs(w), LateIs(w) + 1}
    BY <2>0, <2>1, CountedIs DEF LateIs, ConnsStay
  <2>3. /\ s < cfg.perConn /\ LateIs(w) \in Nat /\ LateIs(w) <= s /\ LateIs(w) <= 1
        /\ (ws[w].keep => s + 1 < cfg.perConn /\ LateIs(w) = 0)
    BY <1>0, <2>0 DEF ServeRight, Reading, s
  <2>4. PICK late \in Nat : late = LateIs(w)' /\ (late = LateIs(w) \/ late = LateIs(w) + 1)
    BY <2>2, <2>3
  <2> HIDE DEF LateIs, ConnsStay, Counted
  <2>5. /\ late <= s + 1 /\ s + 1 <= cfg.perConn
        /\ (keep => s + 1 < cfg.perConn /\ late <= 1)
    BY <1>n, <2>1, <2>3, <2>4
  <2>6. ws'[w].served = s + 1 /\ s + 1 \in Nat
    BY <1>n, <2>1 DEF s
  <2>7. CASE pc'[w] = "give"
    BY <1>0, <1>n, <2>1, <2>4, <2>5, <2>6, <2>7 DEF ServeRight, Reading
  <2>8. CASE pc'[w] \in {"idle", "read"} /\ keep
    BY <1>0, <1>n, <2>1, <2>4, <2>5, <2>6, <2>8 DEF ServeRight, Reading
  <2>9. CASE pc'[w] = "close"
    BY <1>0, <1>n, <2>1, <2>4, <2>5, <2>6, <2>9 DEF ServeRight, Reading
  <2> QED
    BY <2>1, <2>7, <2>8, <2>9
<1>7. CASE GiveToken(w)
  <2>1. /\ pc[w] = "give" /\ pc'[w] \in {"idle", "read", "close"} /\ conns' = conns
        /\ (pc'[w] # "close" => ws[w].keep)
        /\ ws'[w].fd = ws[w].fd /\ ws'[w].served = ws[w].served /\ ws'[w].waited = ws[w].waited
    BY <1>7, GiveStep DEF Is, ConnsStay
  <2>2. LateIs(w)' = LateIs(w)
    BY <2>1 DEF LateIs
  <2> HIDE DEF LateIs
  <2> QED
    BY <1>0, <2>1, <2>2 DEF ServeRight, Reading
<1>8. CASE Close(w)
  <2>0. pc[w] = "close" /\ ws[w].fd \in Fds
    BY <1>0, <1>8 DEF Close
  <2>1. pc'[w] \in {"closed", "take"} /\ ws'[w].served = 0 /\ ws'[w].waited = 0
    BY <1>8, <2>0, CloseStep DEF Is
  <2> QED
    BY <1>0, <1>n, <2>1 DEF ServeRight, Reading
<1>9. CASE Exited(w)
  <2>1. pc'[w] = "gone" /\ ws' = ws
    BY <1>9, ExitStep
  <2> QED
    BY <1>0, <2>1 DEF ServeRight, Reading
<1>10. CASE Closed(w)
  <2>1. pc[w] = "closed" /\ pc'[w] = "none" /\ ws' = ws
    BY <1>10, ClosedStep
  <2> QED
    BY <1>0, <1>p, <2>1 DEF ServeRight, Reading, ThreadPoints
<1> QED
  BY <1>1, <1>2, <1>3, <1>4, <1>5, <1>6, <1>7, <1>8, <1>9, <1>10 DEF WorkerNext


LEMMA RunLate ==
  ASSUME IInv, RunNext \/ Stop \/ UNCHANGED vars
  PROVE  \A fd \in Fds : conns'[fd].late = conns[fd].late
<1> USE DEF IInv
<1>1. ASSUME NEW x \in Fds, NEW at, Fate(x, at)
      PROVE  \A fd \in Fds : conns'[fd].late = conns[fd].late
  BY <1>1, FateIs, ConnToIs
<1>2. CASE AcceptWait
  <2>1. CASE Fate(st.connections + 1, "open") /\ st.connections < MaxConns
    <3>1. st.connections + 1 \in Fds
      BY SMTT(60), <2>1, ConfigIs DEF Types, Fds
    <3> QED
      BY <1>1, <2>1, <3>1
  <2> QED
    BY <1>2, <2>1 DEF AcceptWait
<1>3. CASE StartTask \/ Busy
  <2>1. cfd \in Fds
    BY <1>3, CfdIs DEF StartTask, Busy, Placing
  <2> QED
    BY <1>1, <1>3, <2>1 DEF StartTask, Busy
<1>4. CASE ~(AcceptWait \/ StartTask \/ Busy)
  BY <1>4 DEF RunNext, StartThread, Look, Offer, Opened, Finally, AwaitEnds, Totals, Stop, vars
<1> QED
  BY <1>2, <1>3, <1>4

(* Where Run's steps leave the workers. *)
LEMMA RunPc ==
  ASSUME IInv, RunNext \/ Stop \/ UNCHANGED vars
  PROVE  UNCHANGED pc \/ Started
BY OthersPc, OfferStep, OpenedStep, FinallyStep DEF RunNext, Others, IInv

LEMMA RunWs ==
  ASSUME IInv, RunNext \/ Stop \/ UNCHANGED vars
  PROVE  \/ UNCHANGED ws
         \/ /\ cfg.tasks /\ main'.k \in W /\ pc[main'.k] = "none" /\ UNCHANGED pc
            /\ ws' = [ws EXCEPT ![main'.k] = [Idler(-1) EXCEPT !.fd = cfd]]
<1> USE DEF IInv
<1>1. CASE Opened
  <2>1. CASE q.open >= cfg.maxOpen
    BY <1>1, <2>1, OpenedStep
  <2>2. CASE ~(q.open >= cfg.maxOpen)
    <3>1. main'.k \in W \ Taken
      BY <1>1, <2>2, OpenedSlot
    <3> QED
      BY <1>1, <2>2, <3>1, OpenedStep DEF Taken
  <2> QED
    BY <2>1, <2>2
<1>2. CASE ~Opened
  BY <1>2, OthersFrame, OfferStep, FinallyStep DEF RunNext, Others
<1> QED
  BY <1>1, <1>2

LEMMA ServesNext ==
  ASSUME IInv, [Next]_vars
  PROVE  ServesRight'
<1> USE DEF IInv
<1>0. cfg' = cfg /\ W' = W
  BY CfgStays
<1>1. ASSUME NEW w \in W, WorkerNext(w) PROVE ServesRight'
  <2>1. \A v \in W : ServeRight(v)'
    BY <1>1, ServeOther, ServeOwn
  <2> QED
    BY <1>0, <2>1 DEF ServesRight
<1>2. ASSUME RunNext \/ Stop \/ UNCHANGED vars, NEW w \in W PROVE ServeRight(w)'
  <2>0. /\ ServeRight(w) /\ Idler(w)' = Idler(w) /\ cfg.idle \in Nat \ {0} /\ cfg.perConn \in Nat \ {0}
        /\ cfg.tasks \in BOOLEAN
    BY NumbersIs DEF ServesRight, Idler
  <2>1. \A fd \in Fds : conns'[fd].late = conns[fd].late
    BY <1>2, RunLate
  <2>2. CASE pc'[w] = pc[w] /\ ws'[w] = ws[w]
    <3>1. pc[w] \in Reading \cup {"give"} => LateIs(w)' = LateIs(w)
      BY <2>1, <2>2, ServingIs DEF LateIs, Serving
    <3> HIDE DEF LateIs, Idler
    <3> QED
      BY <1>0, <2>0, <2>2, <3>1 DEF ServeRight, Reading
  <2>3. CASE ws'[w] # ws[w]
    <3>1. /\ cfg.tasks /\ w = main'.k /\ pc'[w] = "none" /\ ws'[w] = [Idler(-1) EXCEPT !.fd = cfd]
      BY <1>2, <2>3, RunWs DEF Types
    <3>2. ws'[w].served = 0 /\ ws'[w].waited = 0
      BY <3>1 DEF Idler
    <3> HIDE DEF LateIs, Idler
    <3> QED
      BY <1>0, <2>0, <3>1, <3>2 DEF ServeRight, Reading
  <2>4. CASE pc'[w] # pc[w]
    <3>1. Started /\ w = main.k /\ ws' = ws
      <4>1. Started
        BY <1>2, <2>4, RunPc
      <4> QED
        BY <2>4, <4>1, OthersFrame DEF Started, Goto, Types, Others
    <3>2. CASE pc'[w] = "take" /\ ~cfg.tasks
      <4>1. ws'[w] = Idler(w)
        BY <2>0, <3>1, <3>2 DEF ServeRight, Started
      <4>2. ws'[w].served = 0 /\ ws'[w].waited = 0
        BY <4>1 DEF Idler
      <4> HIDE DEF LateIs, Idler
      <4> QED
        BY <1>0, <2>0, <3>2, <4>2 DEF ServeRight, Reading
    <3>3. CASE pc'[w] = "idle" /\ StartTask /\ main.pc = "task" /\ cfg.tasks
      <4>1. ws'[w] = [Idler(-1) EXCEPT !.fd = cfd]
        BY <3>1, <3>3 DEF SlotsRight
      <4>2. cfd \in Fds /\ conns[cfd].late = 0
        BY <3>3, CfdIs DEF Placing, LateRight
      <4>3. ws'[w].served = 0 /\ ws'[w].waited = 0 /\ ws'[w].fd = cfd
        BY <4>1 DEF Idler
      <4>4. LateIs(w)' = 0
        BY <2>1, <4>2, <4>3 DEF LateIs
      <4> HIDE DEF LateIs, Idler
      <4> QED
        BY <1>0, <2>0, <3>3, <4>3, <4>4 DEF ServeRight, Reading
    <3> QED
      BY <3>1, <3>2, <3>3, PcIs DEF Started
  <2> QED
    BY <2>2, <2>3, <2>4
<1>3. CASE RunNext \/ Stop \/ UNCHANGED vars
  BY <1>0, <1>2, <1>3 DEF ServesRight
<1> QED
  BY <1>1, <1>3 DEF Next


LEMMA RunCfd ==
  ASSUME IInv, RunNext \/ Stop \/ UNCHANGED vars
  PROVE  \/ cfd' = cfd /\ (Placing' => Placing)
         \/ cfd' = cfd + 1 /\ main.pc = "accept"
<1> USE DEF IInv
<1>1. CASE AcceptWait
  <2>1. CASE st' = [st EXCEPT !.connections = @ + 1]
    BY <1>1, <2>1 DEF AcceptWait, cfd, Types
  <2>2. CASE UNCHANGED st /\ main'.pc \in {"loop", "shut"}
    BY <2>2 DEF cfd, Placing
  <2> QED
    BY <1>1, <2>1, <2>2 DEF AcceptWait, MainTo, Types
<1>2. CASE Offer
  BY <1>2, OfferStep DEF cfd, Placing
<1>3. CASE Opened
  BY <1>3, OpenedStep DEF cfd, Placing
<1>4. CASE Finally
  BY <1>4, FinallyStep DEF cfd, Placing
<1>5. CASE StartThread \/ Look \/ StartTask \/ Busy \/ AwaitEnds \/ Totals
  <2>1. main'.pc \in {"start", "loop", "raised", "shut", "accept", "await", "totals", "returned"}
    BY <1>5 DEF StartThread, Look, StartTask, Busy, AwaitEnds, Totals, MainTo, Types
  <2>2. cfd' = cfd
    BY <1>5 DEF StartThread, Look, StartTask, Busy, AwaitEnds, Totals, cfd, Types
  <2> QED
    BY <2>1, <2>2 DEF Placing
<1>6. CASE Stop \/ UNCHANGED vars
  BY <1>6 DEF Stop, vars, cfd, Placing
<1> QED
  BY <1>1, <1>2, <1>3, <1>4, <1>5, <1>6 DEF RunNext

LEMMA LateNext ==
  ASSUME IInv, [Next]_vars
  PROVE  LateRight'
<1> USE DEF IInv
<1>0. cfg' = cfg /\ ConnsRight' /\ cfd \in Nat
  BY CfgStays, ConnsNext DEF Types, cfd
<1>1. ASSUME NEW w \in W, WorkerNext(w) PROVE LateRight'
  <2>1. cfd' = cfd /\ (Placing' <=> Placing) /\ stopping' = stopping
    BY <1>1, WorkerFrame DEF cfd, Placing
  <2>2. ASSUME NEW i \in InRing' PROVE \E j \in InRing : Queued(i)' = Queued(j)
    <3>1. CASE Take(w) /\ q.count > 0
      BY <2>2, <3>1, RingTake
    <3>2. CASE ~(Take(w) /\ q.count > 0)
      BY <1>0, <1>1, <2>2, <3>2, WorkerRing, RingFrame
    <3> QED
      BY <3>1, <3>2
  <2>3. \A fd \in Fds : conns'[fd].at = "none" => conns[fd].at = "none"
    BY <1>0, <2>1 DEF ConnsRight
  <2> HIDE DEF InRing, Queued, Placing, cfd
  <2>4. CASE \A fd \in Fds : conns'[fd].late = conns[fd].late
    BY <1>0, <2>1, <2>2, <2>3, <2>4 DEF LateRight
  <2>5. CASE pc[w] \in {"read", "send"} /\ ws[w].fd \in Fds /\ Counted(w)
    <3>1. PICK x \in Fds : x = ws[w].fd
      BY <2>5
    <3>2. w \in Serving /\ LateIs(w) = conns[x].late
      BY <2>5, <3>1 DEF Serving, Reading, LateIs
    <3>3. conns[x].late <= 1 /\ conns[x].late < cfg.perConn /\ conns[x].late \in Nat
      <4>1. LateIs(w) <= ws[w].served /\ LateIs(w) <= 1 /\ ws[w].served < cfg.perConn
        BY <2>5 DEF ServesRight, ServeRight, Reading
      <4> QED
        BY <3>2, <4>1, NumbersIs
    <3>4. /\ conns[x].at # "none" /\ (Placing => x # cfd)
          /\ \A i \in InRing : Queued(i) # x
      BY <3>1, <3>2 DEF ConnsRight
    <3>5. /\ \A fd \in Fds : fd # x => conns'[fd].late = conns[fd].late
          /\ \/ conns'[x].late = conns[x].late
             \/ stopping /\ conns'[x].late = conns[x].late + 1
      BY <2>5, <3>1, CountedIs
    <3>6. cfg.perConn \in Nat
      BY NumbersIs
    <3>7. conns'[x].late <= 2 /\ conns'[x].late <= cfg.perConn /\ (conns'[x].late > 0 => stopping)
      BY <3>3, <3>5, <3>6 DEF LateRight
    <3> QED
      BY <1>0, <2>1, <2>2, <2>3, <3>4, <3>5, <3>7 DEF LateRight
  <2> QED
    BY <1>1, <2>4, <2>5, WorkerLate
<1>2. CASE RunNext \/ Stop \/ UNCHANGED vars
  <2>1. \A fd \in Fds : conns'[fd].late = conns[fd].late
    BY <1>2, RunLate
  <2>2. stopping => stopping'
    BY <1>2 DEF RunNext, StartThread, Look, AcceptWait, Offer, Opened, StartTask, Busy, Finally,
       AwaitEnds, Totals, Stop, vars
  <2>3. cfd' >= cfd
    BY <1>0, <1>2, RunCfd
  <2>4. \A fd \in Fds : conns'[fd].at = "none" => conns[fd].at = "none"
    <3>1. cfd' \in Int /\ \A fd \in Fds : fd \in Int
      BY <1>0, <1>2, RunCfd DEF Fds
    <3> QED
      BY <1>0, <2>3, <3>1 DEF ConnsRight
  <2>5. Placing' /\ cfd' \in Fds => conns[cfd'].late = 0
    <3>1. CASE cfd' = cfd /\ (Placing' => Placing)
      BY <3>1 DEF LateRight
    <3>2. CASE cfd' = cfd + 1
      <4>1. cfd' \in Fds => conns[cfd'].at = "none"
        BY <1>0, <3>2 DEF ConnsRight
      <4> QED
        BY <4>1 DEF LateRight
    <3> QED
      BY <1>2, <3>1, <3>2, RunCfd
  <2>6. ASSUME NEW i \in InRing', Queued(i)' \in Fds PROVE conns[Queued(i)'].late = 0
    <3>1. CASE Offer /\ ~Full
      <4>1. PICK n : n = q.count
        OBVIOUS
      <4>2. i = n \/ (i \in InRing /\ Queued(i)' = Queued(i))
        <5>1. InRing' = InRing \cup {n} /\ \A j \in InRing : Queued(j)' = Queued(j)
          BY <3>1, <4>1, RingPut
        <5> HIDE DEF InRing, Queued
        <5> QED
          BY <2>6, <5>1
      <4>3. i = n => Queued(i)' = cfd /\ Placing /\ cfd \in Fds
        BY <3>1, <4>1, RingPut, CfdIs DEF Offer, Placing
      <4> HIDE DEF InRing, Queued, Placing, cfd
      <4> QED
        BY <2>6, <4>2, <4>3 DEF LateRight
    <3>2. CASE ~(Offer /\ ~Full)
      <4>1. i \in InRing /\ Queued(i)' = Queued(i)
        BY <1>0, <1>2, <2>6, <3>2, RunRing, RingFrame
      <4> HIDE DEF InRing, Queued, Placing, cfd
      <4> QED
        BY <2>6, <4>1 DEF LateRight
    <3> QED
      BY <3>1, <3>2
  <2> HIDE DEF InRing, Queued, Placing, cfd
  <2>7. \A fd \in Fds :
          /\ conns'[fd].late <= 2 /\ conns'[fd].late <= cfg.perConn
          /\ conns'[fd].late > 0 => stopping'
          /\ conns'[fd].at = "none" => conns'[fd].late = 0
    BY <2>1, <2>2, <2>4 DEF LateRight
  <2>8. \A fd \in Fds :
          /\ Placing' /\ fd = cfd' => conns'[fd].late = 0
          /\ \A i \in InRing' : Queued(i)' = fd => conns'[fd].late = 0
    BY <2>1, <2>5, <2>6
  <2> QED
    BY <1>0, <2>7, <2>8 DEF LateRight
<1> QED
  BY <1>1, <1>2 DEF Next

-----------------------------------------------------------------------------
(* The counts. *)
LEMMA NotOutIs ==
  ASSUME Types, NEW w \in W
  PROVE  NotOut(w) \in Nat
BY NumbersIs DEF NotOut

LEMMA SumMoves ==
  ASSUME Types, NEW s \in [0 .. Size -> Int], Sums(s), NEW w \in W, NEW d \in Int, Size' = Size,
         \A v \in W : v # w => NotOut(v)' = NotOut(v),
         NotOut(w)' = NotOut(w) + d,
         q'.requests \in Int, answered' \in Int, q.requests + answered' = answered + q'.requests + d
  PROVE  \E t \in [0 .. Size' -> Int] : Sums(t)'
<1>0. /\ Size \in Nat \ {0} /\ W = 0 .. Size - 1 /\ w \in 0 .. Size - 1 /\ q.requests \in Int
      /\ answered \in Int /\ \A v \in 0 .. Size - 1 : NotOut(v) \in Int
  <2>1. Size \in Nat \ {0} /\ W = 0 .. Size - 1 /\ q.requests \in Int /\ answered \in Int
    BY ConfigIs DEF Types, Queues
  <2> QED
    BY <2>1, NotOutIs
<1> HIDE DEF NotOut, Size
<1>t. PICK t : t = [i \in 0 .. Size |-> IF i > w THEN s[i] + d ELSE s[i]]
  OBVIOUS
<1>1. /\ s[0] = 0 /\ \A v \in 0 .. Size - 1 : s[v + 1] = s[v] + NotOut(v)
      /\ s[Size] + q.requests = answered
  BY DEF Sums
<1>2. t \in [0 .. Size -> Int]
  BY SMTT(60), <1>0, <1>t
<1>3. t[0] = 0
  BY <1>0, <1>1, <1>t
<1>4. ASSUME NEW v \in 0 .. Size - 1 PROVE t[v + 1] = t[v] + NotOut(v)'
  <2>1. v \in 0 .. Size /\ v + 1 \in 0 .. Size /\ s[v] \in Int /\ s[v + 1] \in Int
    BY SMTT(60), <1>0
  <2>2. s[v + 1] = s[v] + NotOut(v) /\ NotOut(v) \in Int /\ v \in W
    BY <1>0, <1>1
  <2>3. /\ t[v] = IF v > w THEN s[v] + d ELSE s[v]
        /\ t[v + 1] = IF v + 1 > w THEN s[v + 1] + d ELSE s[v + 1]
    BY <1>t, <2>1
  <2>4. CASE v = w
    BY <1>0, <2>1, <2>2, <2>3, <2>4
  <2>5. CASE v # w
    BY SMTT(60), <1>0, <2>1, <2>2, <2>3, <2>5
  <2> QED
    BY <2>4, <2>5
<1>5. t[Size] + q'.requests = answered'
  <2>1. t[Size] = s[Size] + d /\ s[Size] \in Int
    BY <1>0, <1>t
  <2>2. PICK x \in Int, y \in Int, u \in Int, a \in Int, b \in Int :
          x = s[Size] /\ y = q.requests /\ u = q'.requests /\ a = answered /\ b = answered'
    BY <1>0, <2>1
  <2>3. x + y = a /\ y + b = a + u + d
    BY <1>1, <2>2
  <2>4. x + d + u = b
    BY <2>3
  <2> QED
    BY <2>1, <2>2, <2>4
<1>6. Sums(t)'
  BY <1>3, <1>4, <1>5 DEF Sums
<1> QED
  BY <1>2, <1>6

LEMMA EndedNone ==
  ASSUME IInv, AllEnded
  PROVE  \A w \in W : pc[w] \in {"none", "gone"}
<1> USE DEF IInv
<1>1. CASE cfg.tasks
  <2>1. Taken = {}
    BY <1>1, TakenIs DEF AllEnded
  <2> QED
    BY <2>1 DEF Taken
<1>2. CASE ~cfg.tasks
  <2>1. /\ Cardinality(Gone) >= cfg.workers /\ Size = cfg.workers /\ cfg.workers \in Nat
        /\ W = 0 .. Size - 1
    BY <1>2, ConfigIs DEF AllEnded, ThreadsRight, Types
  <2>2. IsFiniteSet(W) /\ Cardinality(W) = Size
    BY SMTT(60), <2>1, FS_Interval
  <2>3. Gone = W
    BY <2>1, <2>2, GoneIs, FS_Subset
  <2> QED
    BY <2>3 DEF Gone
<1> QED
  BY <1>1, <1>2

LEMMA WorkerRuns ==
  ASSUME Types, NEW w \in W, WorkerNext(w)
  PROVE  pc[w] \notin {"none", "gone"}
BY DEF WorkerNext, Take, Idle, Slice, EmptyLines, Read, TakeToken, Handle, Send, GiveToken,
   Close, Exited, Closed


LEMMA WorkerCounts ==
  ASSUME IInv, NEW w \in W, WorkerNext(w)
  PROVE  \/ /\ ws'[w].requests = ws[w].requests /\ pc'[w] \notin {"none", "gone"}
            /\ q'.requests = q.requests /\ answered' = answered
         \/ /\ ws'[w].requests = ws[w].requests + 1 /\ pc'[w] \notin {"none", "gone"}
            /\ q'.requests = q.requests /\ answered' = answered + 1
         \/ /\ pc'[w] \in {"none", "gone"}
            /\ q'.requests = q.requests + ws[w].requests /\ answered' = answered
<1> USE DEF IInv
<1>0. /\ pc[w] \in {"read", "send", "close"} => ws[w].fd \in Fds
      /\ cfg.tasks \in BOOLEAN /\ pc[w] \notin {"none", "gone"}
  BY WorkerRuns, NumbersIs DEF ConnsRight, Serving, Reading
<1>1. CASE Take(w)
  BY <1>0, <1>1, TakeStep DEF CrewStays, Is, ConnsStay
<1>2. CASE Idle(w) \/ Slice(w) \/ EmptyLines(w)
  <2>1. /\ UNCHANGED q /\ answered' = answered
    BY <1>2, LookStep DEF ConnsStay
  <2>2. ws'[w].requests = ws[w].requests
    BY <1>2, LookStep DEF Is
  <2>3. pc'[w] \notin {"none", "gone"}
    BY <1>2, LookStep
  <2> QED
    BY <2>1, <2>2, <2>3
<1>3. CASE Read(w)
  <2>0. pc[w] = "read"
    BY <1>3 DEF Read
  <2>1. \/ ws'[w].requests = ws[w].requests /\ answered' = answered
        \/ ws'[w].requests = ws[w].requests + 1 /\ answered' = answered + 1
    BY <1>0, <1>3, <2>0, ReadStep DEF Is, ConnsStay, Counted
  <2>2. pc'[w] \notin {"none", "gone"} /\ UNCHANGED q
    BY <1>0, <1>3, <2>0, ReadStep
  <2> QED
    BY <2>1, <2>2
<1>4. CASE TakeToken(w)
  BY <1>0, <1>4, TakeTokenStep DEF CrewStays, Is, ConnsStay
<1>5. CASE Handle(w)
  BY <1>5, HandleStep DEF Is, ConnsStay
<1>6. CASE Send(w)
  <2>0. pc[w] = "send"
    BY <1>6 DEF Send
  <2>1. \/ ws'[w].requests = ws[w].requests /\ answered' = answered
        \/ ws'[w].requests = ws[w].requests + 1 /\ answered' = answered + 1
    BY <1>0, <1>6, <2>0, SendStep DEF Is, ConnsStay, Counted
  <2>2. pc'[w] \notin {"none", "gone"} /\ UNCHANGED q
    BY <1>0, <1>6, <2>0, SendStep
  <2> QED
    BY <2>1, <2>2
<1>7. CASE GiveToken(w)
  BY <1>7, GiveStep DEF CrewStays, Is, ConnsStay
<1>8. CASE Close(w)
  <2>0. pc[w] = "close"
    BY <1>8 DEF Close
  <2> QED
    BY <1>0, <1>8, <2>0, CloseStep DEF Is
<1>9. CASE Exited(w) \/ Closed(w)
  BY <1>9, ExitStep, ClosedStep DEF ConnsStay
<1> QED
  BY <1>1, <1>2, <1>3, <1>4, <1>5, <1>6, <1>7, <1>8, <1>9 DEF WorkerNext

LEMMA WorkerSums ==
  ASSUME IInv, NEW w \in W, WorkerNext(w)
  PROVE  \E s \in [0 .. Size' -> Int] : Sums(s)'
<1> USE DEF IInv
<1>1. PICK s \in [0 .. Size -> Int] : Sums(s)
  BY DEF CountsRight
<1>2. /\ Size' = Size /\ \A v \in W : v # w => NotOut(v)' = NotOut(v)
  BY WorkerFrame DEF Size, NotOut
<1>3. /\ ws[w].requests \in Nat /\ q.requests \in Int /\ answered \in Int
      /\ NotOut(w) = ws[w].requests
  BY SMTT(60), WorkerRuns, NumbersIs DEF NotOut, Types, Queues
<1>4. PICK d \in Int :
        /\ NotOut(w)' = NotOut(w) + d /\ q'.requests \in Int /\ answered' \in Int
        /\ q.requests + answered' = answered + q'.requests + d
  <2>1. CASE /\ ws'[w].requests = ws[w].requests /\ pc'[w] \notin {"none", "gone"}
             /\ q'.requests = q.requests /\ answered' = answered
    <3>1. NotOut(w)' = ws[w].requests
      BY <2>1 DEF NotOut
    <3> HIDE DEF NotOut
    <3>2. /\ NotOut(w)' = NotOut(w) + 0 /\ q'.requests \in Int /\ answered' \in Int
          /\ q.requests + answered' = answered + q'.requests + 0
      BY <1>3, <2>1, <3>1
    <3> QED
      BY <3>2
  <2>2. CASE /\ ws'[w].requests = ws[w].requests + 1 /\ pc'[w] \notin {"none", "gone"}
             /\ q'.requests = q.requests /\ answered' = answered + 1
    <3>1. NotOut(w)' = ws[w].requests + 1
      BY <2>2 DEF NotOut
    <3> HIDE DEF NotOut
    <3>2. /\ NotOut(w)' = NotOut(w) + 1 /\ q'.requests \in Int /\ answered' \in Int
          /\ q.requests + answered' = answered + q'.requests + 1
      BY <1>3, <2>2, <3>1
    <3> QED
      BY <3>2
  <2>3. CASE /\ pc'[w] \in {"none", "gone"}
             /\ q'.requests = q.requests + ws[w].requests /\ answered' = answered
    <3>1. NotOut(w)' = 0
      BY <2>3 DEF NotOut
    <3>2. PICK d \in Int : d = 0 - ws[w].requests
      BY <1>3
    <3> HIDE DEF NotOut
    <3>3. /\ NotOut(w)' = NotOut(w) + d /\ q'.requests \in Int /\ answered' \in Int
          /\ q.requests + answered' = answered + q'.requests + d
      BY <1>3, <2>3, <3>1, <3>2
    <3> QED
      BY <3>3
  <2> QED
    BY <2>1, <2>2, <2>3, WorkerCounts
<1> QED
  BY <1>1, <1>2, <1>4, SumMoves

LEMMA RunSums ==
  ASSUME IInv, RunNext \/ Stop \/ UNCHANGED vars
  PROVE  \E s \in [0 .. Size' -> Int] : Sums(s)'
<1> USE DEF IInv
<1>1. PICK s \in [0 .. Size -> Int] : Sums(s)
  BY DEF CountsRight
<1>2. Size' = Size /\ W' = W /\ W = 0 .. Size - 1
  BY CfgStays, ConfigIs DEF Next, Types
<1>3. q'.requests = q.requests /\ answered' = answered
  <2>1. CASE Offer \/ Opened \/ Finally
    BY <2>1, OfferStep, OpenedStep, FinallyStep DEF CrewStays, QStays
  <2>2. CASE Others
    BY <2>2, OthersFrame DEF Others, StartThread, Look, AcceptWait, StartTask, Busy, AwaitEnds,
       Totals, Stop, vars
  <2> QED
    BY <2>1, <2>2 DEF RunNext, Others
<1>4. ASSUME NEW w \in W PROVE NotOut(w)' = NotOut(w)
  <2>1. CASE pc'[w] = pc[w] /\ ws'[w] = ws[w]
    BY <2>1 DEF NotOut
  <2>2. CASE ws'[w] # ws[w]
    <3>1. pc[w] = "none" /\ pc'[w] = "none"
      BY <2>2, RunWs DEF Types
    <3> QED
      BY <3>1 DEF NotOut
  <2>3. CASE pc'[w] # pc[w]
    <3>1. Started /\ w = main.k /\ ws' = ws
      <4>1. Started
        BY <2>3, RunPc
      <4> QED
        BY <2>3, <4>1, OthersFrame DEF Started, Goto, Types, Others
    <3>2. ws[w].requests = 0
      <4>1. CASE cfg.tasks
        <5>1. ws[w] = [Idler(-1) EXCEPT !.fd = cfd]
          BY <3>1, <4>1 DEF SlotsRight, Started
        <5> QED
          BY <5>1 DEF Idler
      <4>2. CASE ~cfg.tasks
        <5>1. ws[w] = Idler(w)
          BY <3>1, <4>2 DEF ServesRight, ServeRight, Started
        <5> QED
          BY <5>1 DEF Idler
      <4> QED
        BY <4>1, <4>2
    <3> QED
      BY <3>1, <3>2 DEF NotOut
  <2> QED
    BY <2>1, <2>2, <2>3
<1> HIDE DEF NotOut
<1>5. Sums(s)'
  BY <1>1, <1>2, <1>3, <1>4 DEF Sums
<1> QED
  BY <1>1, <1>2, <1>5

LEMMA RefusalsIs ==
  ASSUME Types
  PROVE  Refusals \in SUBSET Fds /\ IsFiniteSet(Refusals) /\ Cardinality(Refusals) \in Nat
<1>1. MaxConns \in Nat
  BY ConfigIs DEF Types
<1>2. IsFiniteSet(Fds)
  BY <1>1, FS_Interval DEF Fds
<1>3. Refusals \in SUBSET Fds
  BY DEF Refusals
<1> QED
  BY <1>2, <1>3, FS_Subset, FS_CardinalityType

LEMMA BusyNext ==
  ASSUME IInv, [Next]_vars
  PROVE  st'.busy = Cardinality(Refusals')
<1> USE DEF IInv
<1>1. ASSUME st'.busy = st.busy, \A fd \in Fds : conns'[fd].at = "busy" <=> conns[fd].at = "busy"
      PROVE  st'.busy = Cardinality(Refusals')
  <2>1. Refusals' = Refusals
    BY <1>1 DEF Refusals
  <2> QED
    BY <1>1, <2>1 DEF CountsRight
<1>2. ASSUME NEW x \in Fds, NEW at, Fate(x, at), at # "busy", conns[x].at # "busy",
             st'.busy = st.busy
      PROVE  st'.busy = Cardinality(Refusals')
  BY <1>1, <1>2, FateIs, ConnToIs
<1>3. ASSUME NEW w \in W, WorkerNext(w) PROVE st'.busy = Cardinality(Refusals')
  <2>0. st'.busy = st.busy
    BY <1>3, WorkerFrame
  <2>1. CASE Close(w)
    <3>1. ws[w].fd \in Fds /\ conns[ws[w].fd].at = "open" /\ Fate(ws[w].fd, "closed")
      BY <2>1 DEF Close, ConnsRight, Serving
    <3> QED
      BY <1>2, <2>0, <3>1
  <2>2. CASE ~Close(w)
    <3>1. \A fd \in Fds : conns'[fd].at = conns[fd].at
      <4>1. CASE Take(w)
        BY <4>1 DEF Take
      <4> QED
        BY <1>3, <2>2, <4>1, WorkerKeeps
    <3> QED
      BY <1>1, <2>0, <3>1
  <2> QED
    BY <2>1, <2>2
<1>4. CASE AcceptWait
  <2>1. CASE UNCHANGED <<st, conns>>
    BY <1>1, <2>1
  <2>2. CASE /\ st.connections < MaxConns /\ st' = [st EXCEPT !.connections = @ + 1]
             /\ Fate(st.connections + 1, "open")
    <3>1. st.connections + 1 \in Fds /\ st.connections + 1 > st.connections /\ st'.busy = st.busy
      BY SMTT(60), <2>2, ConfigIs DEF Types, Fds
    <3>2. conns[st.connections + 1].at # "busy"
      BY <3>1 DEF ConnsRight, cfd
    <3> QED
      BY <1>2, <2>2, <3>1, <3>2
  <2> QED
    BY <1>4, <2>1, <2>2 DEF AcceptWait
<1>5. CASE StartTask
  <2>1. main.pc = "task" /\ st' = st
    BY <1>5 DEF StartTask
  <2>2. cfd \in Fds /\ conns[cfd].at = "open"
    BY <2>1, CfdIs DEF ConnsRight, Placing
  <2> QED
    BY <1>1, <1>2, <1>5, <2>1, <2>2 DEF StartTask
<1>6. CASE Busy
  <2>1. main.pc = "busy" /\ Fate(cfd, "busy") /\ st'.busy = st.busy + 1
    BY <1>6 DEF Busy, Types
  <2>2. cfd \in Fds /\ conns[cfd].at = "open"
    BY <2>1, CfdIs DEF ConnsRight, Placing
  <2>3. conns'[cfd].at = "busy" /\ \A x \in Fds \ {cfd} : conns'[x] = conns[x]
    BY <2>1, <2>2, FateIs, ConnToIs
  <2>4. Refusals' = Refusals \cup {cfd} /\ cfd \notin Refusals
    BY <2>2, <2>3 DEF Refusals
  <2>5. Cardinality(Refusals') = Cardinality(Refusals) + 1
    BY <2>4, RefusalsIs, FS_AddElement
  <2> QED
    BY <2>1, <2>5 DEF CountsRight
<1>7. CASE ~(AcceptWait \/ StartTask \/ Busy) /\ (RunNext \/ Stop \/ UNCHANGED vars)
  <2>1. conns' = conns
    BY <1>7 DEF RunNext, StartThread, Look, Offer, Opened, Finally, AwaitEnds, Totals, Stop, vars
  <2>2. st'.busy = st.busy
    BY <1>7 DEF RunNext, StartThread, Look, Offer, Opened, Finally, AwaitEnds, Totals, Stop, vars, Types
  <2> QED
    BY <1>1, <2>1, <2>2
<1> QED
  BY <1>3, <1>4, <1>5, <1>6, <1>7 DEF Next

LEMMA TotalNext ==
  ASSUME IInv, [Next]_vars
  PROVE  st'.requests = IF main'.pc = "returned" THEN q'.requests ELSE 0
<1> USE DEF IInv
<1>1. ASSUME NEW w \in W, WorkerNext(w)
      PROVE  st'.requests = IF main'.pc = "returned" THEN q'.requests ELSE 0
  <2>1. UNCHANGED <<main, st>> /\ pc[w] \notin {"none", "gone"}
    BY <1>1, WorkerFrame, WorkerRuns
  <2>2. main.pc # "returned"
    BY <2>1, EndedNone DEF MainRight
  <2> QED
    BY <2>1, <2>2 DEF CountsRight
<1>2. CASE Totals
  <2>1. /\ main.pc = "totals" /\ main'.pc = "returned" /\ q' = q /\ q.requests \in Nat
        /\ st'.requests = st.requests + q.requests
    BY <1>2 DEF Totals, MainTo, Types, Queues
  <2> QED
    BY <2>1 DEF CountsRight
<1>3. CASE Stop \/ UNCHANGED vars
  BY <1>3 DEF Stop, vars, CountsRight
<1>4. CASE RunNext /\ ~Totals
  <2>1. st'.requests = st.requests
    BY <1>4 DEF RunNext, StartThread, Look, AcceptWait, Offer, Opened, StartTask, Busy, Finally,
       AwaitEnds, Types
  <2>2. main.pc # "returned" /\ main'.pc # "returned"
    BY <1>4, OfferStep, OpenedStep, FinallyStep
       DEF RunNext, StartThread, Look, AcceptWait, StartTask, Busy, AwaitEnds, MainTo, Types
  <2> QED
    BY <2>1, <2>2 DEF CountsRight
<1> QED
  BY <1>1, <1>2, <1>3, <1>4 DEF Next

LEMMA CountsNext ==
  ASSUME IInv, [Next]_vars
  PROVE  CountsRight'
<1>1. \E s \in [0 .. Size' -> Int] : Sums(s)'
  BY WorkerSums, RunSums DEF Next
<1> QED
  BY <1>1, BusyNext, TotalNext DEF CountsRight


-----------------------------------------------------------------------------
(* The ranges. *)
LEMMA WorkerRanges ==
  ASSUME IInv, NEW w \in W, WorkerNext(w)
  PROVE  RangesRight'
<1> USE DEF IInv
<1>0. /\ UNCHANGED <<cfg, main>> /\ W' = W
      /\ \A v \in W \ {w} : pc'[v] = pc[v] /\ ws'[v] = ws[v]
      /\ cfg.tasks \in BOOLEAN /\ cfg.workers \in Nat \ {0} /\ cfg.maxOpen \in Nat \ {0}
  BY WorkerFrame, ConfigIs DEF Types, W
<1>1. /\ pc[w] \in {"read", "send", "close"} => ws[w].fd \in Fds
      /\ ~cfg.tasks => pc[w] \in ThreadPoints
      /\ cfg.tasks => pc[w] \in TaskPoints
  BY PointsIs DEF ConnsRight, Serving, Reading
<1>z. ASSUME ws'[w].k \in -1 .. cfg.workers + cfg.maxOpen,
             ~cfg.tasks => q'.open = 0 /\ q'.nfree = 0,
             \A i \in 0 .. cfg.workers - 1 : q'.free[i] \in 0 .. cfg.workers - 1,
             \A i \in 0 .. cfg.maxOpen - 1 : slots'[i] \in 0 .. cfg.maxOpen - 1
      PROVE  RangesRight'
  BY <1>0, <1>z DEF RangesRight
<1>2. CASE TakeToken(w)
  <2>1. cfg.tasks /\ slots' = slots /\ q'.free = q.free
    BY <1>0, <1>1, <1>2, TakeTokenStep DEF ThreadPoints
  <2>2. CASE UNCHANGED ws
    BY <1>z, <2>1, <2>2 DEF RangesRight
  <2>3. CASE q.nfree # 0 /\ ws'[w].k = q.free[q.nfree - 1]
    <3>1. q.nfree \in 0 .. cfg.workers
      BY <2>1 DEF TokensRight
    <3>2. q.nfree - 1 \in 0 .. q.nfree - 1
      BY <2>3, <3>1
    <3>3. ws'[w].k \in 0 .. cfg.workers - 1
      BY <2>1, <2>3, <3>2 DEF TokensRight
    <3>4. ws'[w].k \in -1 .. cfg.workers + cfg.maxOpen
      BY <1>0, <3>3
    <3> QED
      BY <1>z, <2>1, <3>4 DEF RangesRight
  <2> QED
    BY <1>2, <2>2, <2>3, TakeTokenStep DEF Is
<1>3. CASE GiveToken(w)
  <2>1. /\ cfg.tasks /\ slots' = slots /\ w \in Handlers /\ ws'[w].k = -1
        /\ q'.free = [q.free EXCEPT ![q.nfree] = ws[w].k]
    BY <1>0, <1>1, <1>3, GiveStep DEF ThreadPoints, Is, Handlers
  <2>2. ws[w].k \in 0 .. cfg.workers - 1 /\ q.free \in [0 .. cfg.workers - 1 -> Int]
    BY <2>1 DEF TokensRight, Types, Queues
  <2>3. \A i \in 0 .. cfg.workers - 1 : q'.free[i] \in 0 .. cfg.workers - 1
    BY <2>1, <2>2 DEF RangesRight
  <2> QED
    BY <1>0, <1>z, <2>1, <2>3 DEF RangesRight
<1>4. CASE Closed(w)
  <2>1. /\ ws' = ws /\ TokensStay /\ slots' = [slots EXCEPT ![cfg.maxOpen - q.open] = w] /\ cfg.tasks
    BY <1>0, <1>1, <1>4, ClosedStep DEF ThreadPoints
  <2>2. w \in 0 .. cfg.maxOpen - 1 /\ slots \in [0 .. cfg.maxOpen - 1 -> Int]
    BY <2>1, ConfigIs DEF Types
  <2>3. \A i \in 0 .. cfg.maxOpen - 1 : slots'[i] \in 0 .. cfg.maxOpen - 1
    BY <2>1, <2>2 DEF RangesRight
  <2> QED
    BY <1>z, <2>1, <2>3 DEF RangesRight, TokensStay
<1>5. CASE ~(TakeToken(w) \/ GiveToken(w) \/ Closed(w))
  <2>1. q'.open = q.open /\ TokensStay /\ slots' = slots
    <3>1. CASE Take(w) \/ Exited(w)
      BY <3>1, TakeStep, ExitStep
    <3>2. CASE ~(Take(w) \/ Exited(w))
      BY <1>5, <3>2 DEF WorkerNext, Idle, Slice, EmptyLines, Read, Handle, Send, Close, TokensStay
    <3> QED
      BY <3>1, <3>2
  <2>2. ws'[w].k = ws[w].k
    <3>1. CASE Take(w) \/ Exited(w)
      BY <3>1, TakeStep, ExitStep DEF Is
    <3>2. CASE Idle(w) \/ Slice(w) \/ EmptyLines(w)
      BY <3>2, LookStep DEF Is
    <3>3. CASE Read(w)
      BY <1>1, <3>3, ReadStep DEF Is, Read
    <3>4. CASE Handle(w)
      BY SMTT(60), <3>4, HandleStep DEF Is
    <3>5. CASE Send(w)
      BY <1>1, <3>5, SendStep DEF Is, Send
    <3>6. CASE Close(w)
      BY <1>1, <3>6, CloseStep DEF Is, Close
    <3> QED
      BY <1>5, <3>1, <3>2, <3>3, <3>4, <3>5, <3>6 DEF WorkerNext
  <2> QED
    BY <1>z, <2>1, <2>2 DEF RangesRight, TokensStay
<1> QED
  BY <1>2, <1>3, <1>4, <1>5

LEMMA RangesNext ==
  ASSUME IInv, [Next]_vars
  PROVE  RangesRight'
<1> USE DEF IInv
<1>0. /\ cfg' = cfg /\ W' = W /\ cfg.workers \in Nat \ {0} /\ cfg.maxOpen \in Nat \ {0} /\ main.k \in Nat
      /\ W = 0 .. Size - 1 /\ (Size = cfg.maxOpen \/ Size = cfg.workers)
  BY CfgStays, ConfigIs DEF Types
<1>1. CASE Offer
  BY <1>0, <1>1, OfferStep DEF RangesRight, TokensStay
<1>2. CASE Finally
  BY <1>0, <1>2, FinallyStep DEF RangesRight, TokensStay, QStays
<1>3. CASE Opened
  <2>1. CASE q.open >= cfg.maxOpen
    BY <1>0, <1>3, <2>1, OpenedStep DEF RangesRight
  <2>2. CASE ~(q.open >= cfg.maxOpen)
    <3>1. /\ cfg.tasks /\ slots' = slots /\ TokensStay
          /\ ws' = [ws EXCEPT ![main'.k] = [Idler(-1) EXCEPT !.fd = cfd]]
      BY <1>3, <2>2, OpenedStep
    <3>2. main'.k \in W
      BY <1>3, <2>2, OpenedSlot
    <3>3. main'.k <= cfg.workers + cfg.maxOpen
      BY <1>0, <3>2
    <3>4. PICK m \in Int : m = -1
      OBVIOUS
    <3>5. [Idler(m) EXCEPT !.fd = cfd].k = m
      BY DEF Idler
    <3>6. \A w \in W : ws'[w].k \in {ws[w].k, -1}
      BY <3>1, <3>2, <3>4, <3>5 DEF Types
    <3>7. \A w \in W : ws'[w].k \in -1 .. cfg.workers + cfg.maxOpen
      BY SMTT(60), <1>0, <3>6 DEF RangesRight
    <3> QED
      BY <1>0, <3>1, <3>3, <3>7 DEF RangesRight, TokensStay
  <2> QED
    BY <2>1, <2>2
<1>4. CASE Others
  <2>1. UNCHANGED <<q, slots, ws>>
    BY <1>4, OthersFrame
  <2>2. main'.k <= cfg.workers + cfg.maxOpen
    <3>1. CASE StartThread
      <4>1. main.k <= cfg.workers /\ (main'.k = main.k \/ (main.k # cfg.workers /\ main'.k = main.k + 1))
        BY <3>1 DEF StartThread, MainTo, Types, MainRight
      <4> QED
        BY <1>0, <4>1
    <3>2. CASE ~StartThread
      <4>1. main'.k = main.k
        BY <1>4, <3>2 DEF Others, Look, AcceptWait, StartTask, Busy, AwaitEnds, Totals, Stop, vars, MainTo, Types
      <4> QED
        BY <4>1 DEF RangesRight
    <3> QED
      BY <3>1, <3>2
  <2> QED
    BY <1>0, <2>1, <2>2 DEF RangesRight
<1> QED
  BY <1>1, <1>2, <1>3, <1>4, WorkerRanges DEF Next, RunNext, Others

-----------------------------------------------------------------------------
LEMMA IInvInit == Init => IInv
<1> SUFFICES ASSUME Init PROVE IInv
  OBVIOUS
<1>0. /\ cfg \in Configs /\ cfg.tasks \in BOOLEAN /\ cfg.workers \in Nat \ {0} /\ cfg.queue \in Nat \ {0}
      /\ cfg.maxOpen \in Nat \ {0} /\ cfg.perConn \in Nat \ {0} /\ cfg.idle \in Nat \ {0}
      /\ MaxConns \in Nat /\ Size \in Nat \ {0} /\ W = 0 .. Size - 1
      /\ (cfg.tasks => Size = cfg.maxOpen) /\ (~cfg.tasks => Size = cfg.workers)
  BY ConfigIs DEF Init
<1>q. /\ q.fds = [i \in 0 .. cfg.queue - 1 |-> 0] /\ q.head = 0 /\ q.tail = 0 /\ q.count = 0
      /\ ~q.closing /\ q.exited = 0 /\ q.requests = 0 /\ q.open = 0
      /\ q.free = [i \in 0 .. cfg.workers - 1 |-> i]
      /\ q.nfree = IF cfg.tasks THEN cfg.workers ELSE 0
  BY DEF Init
<1>m. /\ main.pc = (IF cfg.tasks THEN "loop" ELSE "start") /\ main.k = 0 /\ main.why = "Drained"
      /\ st.connections = 0 /\ st.busy = 0 /\ st.requests = 0 /\ ~refused /\ ~stopping
      /\ answered = 0 /\ slots = [i \in 0 .. cfg.maxOpen - 1 |-> i]
  BY DEF Init
<1>w. /\ \A w \in W : pc[w] = "none" /\ ws[w] = Idler(w)
      /\ \A fd \in Fds : conns[fd].at = "none" /\ conns[fd].late = 0
  BY DEF Init
<1>e. Handlers = {} /\ Serving = {} /\ Gone = {} /\ Held = {} /\ Taken = {} /\ Refusals = {} /\ InRing = {}
      /\ ~Placing
  BY <1>m, <1>q, <1>w DEF Handlers, Serving, Gone, Held, Taken, Refusals, InRing, Placing, Reading
<1>c. Cardinality({}) = 0
  BY FS_EmptySet
<1>1. Types
  <2>1. main \in [pc : MainPoints, k : Nat, why : {"Drained", "Stopped"}]
    BY <1>0 DEF Init, MainPoints
  <2>2. st \in [connections : 0 .. MaxConns, busy : Nat, requests : Nat]
    BY <1>0 DEF Init
  <2>3. q \in Queues
    <3>1. PICK fds, free, nfree :
            /\ fds = [i \in 0 .. cfg.queue - 1 |-> 0] /\ free = [i \in 0 .. cfg.workers - 1 |-> i]
            /\ nfree = IF cfg.tasks THEN cfg.workers ELSE 0
      OBVIOUS
    <3>2. /\ fds \in [0 .. cfg.queue - 1 -> Fds \cup {0}] /\ free \in [0 .. cfg.workers - 1 -> Int]
          /\ nfree \in Int /\ 0 \in 0 .. cfg.queue - 1
      BY <1>0, <3>1
    <3>3. PICK no \in BOOLEAN : no = FALSE
      OBVIOUS
    <3>4. q = Rec(fds, 0, 0, 0, no, 0, 0, 0, free, nfree)
      BY <3>1, <3>3 DEF Init, Rec
    <3>5. Rec(fds, 0, 0, 0, no, 0, 0, 0, free, nfree) \in Queues
      BY <3>2, RecType
    <3> QED
      BY <3>4, <3>5
  <2>4. slots \in [0 .. cfg.maxOpen - 1 -> Int]
    BY <1>m
  <2>5. pc \in [W -> IF cfg.tasks THEN TaskPoints ELSE ThreadPoints]
    BY <1>0 DEF Init, TaskPoints, ThreadPoints
  <2>6. ws \in [W -> Locals]
    <3>1. \A w \in W : Idler(w) \in Locals
      <4> SUFFICES ASSUME NEW w \in W PROVE Idler(w) \in Locals
        OBVIOUS
      <4>1. w \in Int
        BY <1>0
      <4>2. PICK fd : fd = -1 /\ fd \in Fds \cup {-1}
        OBVIOUS
      <4> QED
        BY <4>1, <4>2, IdlerType
    <3> QED
      BY <3>1 DEF Init
  <2>7. conns \in [Fds -> [at : {"none", "open", "busy", "closed", "lost"}, late : Nat]]
    BY DEF Init
  <2> QED
    BY <1>0, <2>1, <2>2, <2>3, <2>4, <2>5, <2>6, <2>7 DEF Types, Init
<1>k. \A w \in W : ws[w].k = w
  <2> SUFFICES ASSUME NEW w \in W PROVE ws[w].k = w
    OBVIOUS
  <2>1. Idler(w).k = w
    BY DEF Idler
  <2>2. ws[w] = Idler(w)
    BY <1>w
  <2> HIDE DEF Idler
  <2> QED
    BY <2>1, <2>2
<1>2. MainRight
  <2>1. CASE cfg.tasks
    BY <1>m, <1>q, <2>1 DEF MainRight
  <2>2. CASE ~cfg.tasks
    <3>1. main.pc = "start" /\ main.k = 0 /\ ~q.closing /\ ~refused
      BY <1>m, <1>q, <2>2
    <3>2. main.k <= cfg.workers /\ \A w \in W : pc[w] = "none"
      BY <1>0, <1>w, <3>1
    <3> QED
      BY <2>2, <3>1, <3>2 DEF MainRight
  <2> QED
    BY <2>1, <2>2
<1>3. ThreadsRight
  <2> HIDE DEF Gone
  <2> QED
    BY <1>c, <1>e, <1>k, <1>q, <1>w DEF ThreadsRight
<1>4. TokensRight
  <2> SUFFICES ASSUME cfg.tasks PROVE TokensRight
    BY DEF TokensRight
  <2>1. q.nfree = cfg.workers /\ \A i \in 0 .. cfg.workers - 1 : q.free[i] = i
    BY <1>q
  <2> QED
    BY SMTT(60), <1>0, <1>c, <1>e, <2>1 DEF TokensRight
<1>5. SlotsRight
  <2>1. Spare = cfg.maxOpen /\ \A i \in 0 .. cfg.maxOpen - 1 : slots[i] = i
    BY <1>0, <1>m, <1>q DEF Spare
  <2> QED
    BY <1>0, <1>c, <1>e, <1>m, <1>q, <2>1 DEF SlotsRight
<1>6. RingRight
  BY SMTT(60), <1>0, <1>q, WrapIs DEF RingRight
<1>7. ConnsRight
  <2>1. \A fd \in Fds : fd > cfd
    BY <1>m DEF Fds, cfd
  <2> QED
    BY <1>e, <1>w, <2>1 DEF ConnsRight
<1>8. ServesRight
  <2> SUFFICES ASSUME NEW w \in W PROVE ServeRight(w)
    BY DEF ServesRight
  <2>1. ws[w].served = 0 /\ ws[w].waited = 0 /\ pc[w] = "none" /\ ws[w] = Idler(w)
    BY <1>w DEF Idler
  <2> HIDE DEF Idler
  <2> QED
    BY <1>0, <2>1 DEF ServeRight, Reading
<1>9. LateRight
  BY <1>0, <1>e, <1>w DEF LateRight
<1>10. CountsRight
  <2>1. PICK s : s = [i \in 0 .. Size |-> 0]
    OBVIOUS
  <2>2. s \in [0 .. Size -> Int] /\ Sums(s)
    BY <1>0, <1>m, <1>q, <1>w, <2>1 DEF Sums, NotOut
  <2> QED
    BY <1>0, <1>c, <1>e, <1>m, <1>q, <2>2 DEF CountsRight
<1>11. RangesRight
  <2>1. \A w \in W : ws[w].k \in -1 .. cfg.workers + cfg.maxOpen
    BY <1>0, <1>k
  <2>2. /\ \A i \in 0 .. cfg.workers - 1 : q.free[i] \in 0 .. cfg.workers - 1
        /\ \A i \in 0 .. cfg.maxOpen - 1 : slots[i] \in 0 .. cfg.maxOpen - 1
    BY <1>m, <1>q
  <2> QED
    BY <1>0, <1>m, <1>q, <2>1, <2>2 DEF RangesRight
<1> QED
  BY <1>1, <1>2, <1>3, <1>4, <1>5, <1>6, <1>7, <1>8, <1>9, <1>10, <1>11 DEF IInv

LEMMA IInvNext == IInv /\ [Next]_vars => IInv'
BY TypesNext, MainNext, ThreadsNext, TokensNext, SlotsNext, RingNext, ConnsNext, ServesNext,
   LateNext, CountsNext, RangesNext DEF IInv

LEMMA IInvAlways == Spec => []IInv
BY IInvInit, IInvNext, PTL DEF Spec


-----------------------------------------------------------------------------
(* Everything is of its type at all times. *)
THEOREM TypeCorrect == Spec => []TypeOK
<1>1. IInv => TypeOK
  <2> SUFFICES ASSUME IInv PROVE TypeOK
    OBVIOUS
  <2> USE DEF IInv
  <2>0. /\ cfg.tasks \in BOOLEAN /\ cfg.workers \in Nat \ {0} /\ cfg.queue \in Nat \ {0}
        /\ cfg.maxOpen \in Nat \ {0} /\ cfg.perConn \in Nat \ {0} /\ cfg.idle \in Nat \ {0}
        /\ MaxConns \in Nat /\ Size \in Nat \ {0} /\ W = 0 .. Size - 1
        /\ (cfg.tasks => Size = cfg.maxOpen) /\ (~cfg.tasks => Size = cfg.workers)
    BY ConfigIs DEF Types
  <2>1. main \in [pc: {"start", "loop", "accept", "place", "task", "busy", "shut", "await",
                       "totals", "returned", "raised"},
                  k: 0 .. cfg.workers + cfg.maxOpen, why: {"Drained", "Stopped"}]
    <3>1. main \in [pc : MainPoints, k : Nat, why : {"Drained", "Stopped"}]
      BY DEF Types
    <3>2. main.k \in 0 .. cfg.workers + cfg.maxOpen
      BY <2>0, <3>1 DEF RangesRight
    <3> QED
      BY <3>1, <3>2 DEF MainPoints
  <2>2. st \in [connections: 0 .. MaxConns, busy: 0 .. MaxConns, requests: Nat]
    <3>1. st \in [connections : 0 .. MaxConns, busy : Nat, requests : Nat]
      BY DEF Types
    <3>2. IsFiniteSet(Fds) /\ Cardinality(Fds) = MaxConns
      <4>1. MaxConns \in Nat
        BY <2>0
      <4>2. IsFiniteSet(1 .. MaxConns) /\ Cardinality(1 .. MaxConns) = MaxConns
        <5>1. PICK n \in Nat : n = MaxConns
          BY <4>1
        <5>2. IsFiniteSet(1 .. n) /\ Cardinality(1 .. n) = n
          <6>1. /\ IsFiniteSet(1 .. n)
                /\ Cardinality(1 .. n) = IF 1 > n THEN 0 ELSE n - 1 + 1
            BY FS_Interval
          <6> QED
            BY <6>1
        <5> QED
          BY <5>1, <5>2
      <4> QED
        BY <4>2 DEF Fds
    <3>3. Cardinality(Refusals) <= MaxConns
      BY <3>2, RefusalsIs, FS_Subset
    <3>4. st.busy \in 0 .. MaxConns
      BY <2>0, <3>3, RefusalsIs DEF CountsRight
    <3> QED
      BY <3>1, <3>4
  <2>3. q \in [fds: [0 .. cfg.queue - 1 -> Fds \cup {0}], head: 0 .. cfg.queue - 1,
               tail: 0 .. cfg.queue - 1, count: 0 .. cfg.queue, closing: BOOLEAN,
               exited: 0 .. cfg.workers, requests: Nat, open: 0 .. cfg.maxOpen,
               free: [0 .. cfg.workers - 1 -> 0 .. cfg.workers - 1], nfree: 0 .. cfg.workers]
    <3>1. q \in Queues
      BY DEF Types
    <3>2. q.count \in 0 .. cfg.queue
      BY DEF RingRight
    <3>3. q.exited \in 0 .. cfg.workers
      <4>1. CASE cfg.tasks
        <5>1. Gone = {}
          BY <4>1 DEF Gone, Types, TaskPoints
        <5> HIDE DEF Gone
        <5> QED
          BY <2>0, <5>1, FS_EmptySet DEF ThreadsRight
      <4>2. CASE ~cfg.tasks
        <5>1. q.exited = Cardinality(Gone) /\ Gone \in SUBSET W
          BY <4>2 DEF ThreadsRight, Gone
        <5>2. IsFiniteSet(W) /\ Cardinality(W) = cfg.workers
          BY <2>0, <4>2, FS_Interval
        <5>3. Cardinality(Gone) \in Nat /\ Cardinality(Gone) <= Cardinality(W)
          BY <5>1, <5>2, FS_Subset, FS_CardinalityType
        <5> QED
          BY <2>0, <5>1, <5>2, <5>3
      <4> QED
        BY <4>1, <4>2
    <3>4. q.open \in 0 .. cfg.maxOpen
      BY <2>0, TakenIs DEF RangesRight
    <3>5. q.nfree \in 0 .. cfg.workers
      BY <2>0 DEF RangesRight, TokensRight
    <3>6. q.free \in [0 .. cfg.workers - 1 -> 0 .. cfg.workers - 1]
      BY <3>1 DEF Queues, RangesRight
    <3> QED
      BY <3>1, <3>2, <3>3, <3>4, <3>5, <3>6 DEF Queues
  <2>4. slots \in [0 .. cfg.maxOpen - 1 -> 0 .. cfg.maxOpen - 1]
    BY DEF Types, RangesRight
  <2>5. pc \in [W -> {"none", "take", "idle", "wait", "read", "token", "handle", "send", "give",
                      "close", "closed", "exit", "gone"}]
    BY <2>0 DEF Types, TaskPoints, ThreadPoints
  <2>6. ws \in [W -> [fd: Fds \cup {-1}, k: -1 .. cfg.workers + cfg.maxOpen, requests: Nat,
                      served: 0 .. cfg.perConn, keep: BOOLEAN, waited: 0 .. cfg.idle]]
    <3> SUFFICES ASSUME NEW w \in W
                 PROVE  ws[w] \in [fd: Fds \cup {-1}, k: -1 .. cfg.workers + cfg.maxOpen, requests: Nat,
                                   served: 0 .. cfg.perConn, keep: BOOLEAN, waited: 0 .. cfg.idle]
      BY DEF Types
    <3>1. ws[w] \in Locals
      BY DEF Types
    <3>2. ws[w].served \in 0 .. cfg.perConn /\ ws[w].waited \in 0 .. cfg.idle
      <4>1. ws[w].waited <= cfg.idle /\ ws[w].served <= cfg.perConn
        BY DEF ServesRight, ServeRight
      <4> QED
        BY <4>1, NumbersIs
    <3>3. ws[w].k \in -1 .. cfg.workers + cfg.maxOpen
      BY DEF RangesRight
    <3> QED
      BY <3>1, <3>2, <3>3 DEF Locals
  <2>7. conns \in [Fds -> [at: {"none", "open", "busy", "closed", "lost"}, late: 0 .. cfg.perConn]]
    <3>1. conns \in [Fds -> [at : {"none", "open", "busy", "closed", "lost"}, late : Nat]]
      BY DEF Types
    <3>2. \A fd \in Fds : conns[fd].late \in 0 .. cfg.perConn
      BY <2>0, <3>1 DEF LateRight
    <3> QED
      BY <3>1, <3>2
  <2> QED
    BY <2>1, <2>2, <2>3, <2>4, <2>5, <2>6, <2>7 DEF TypeOK, Types
<1> QED
  BY <1>1, IInvAlways, PTL

(* No two handlers run under one worker number, and a number or a slot is  *)
(* free exactly when nobody has it.                                        *)
THEOREM OneHolderHolds == Spec => []OneHolder
<1>1. IInv => OneHolder
  <2> SUFFICES ASSUME IInv PROVE OneHolder
    OBVIOUS
  <2> USE DEF IInv
  <2>0. /\ cfg.tasks \in BOOLEAN /\ cfg.workers \in Nat \ {0} /\ cfg.maxOpen \in Nat \ {0}
        /\ Size \in Nat \ {0} /\ W = 0 .. Size - 1
        /\ (cfg.tasks => Size = cfg.maxOpen) /\ (~cfg.tasks => Size = cfg.workers)
    BY ConfigIs DEF Types
  <2>1. /\ \A v, w \in Handlers : v # w => ws[v].k # ws[w].k
        /\ \A w \in Handlers : ws[w].k \in 0 .. cfg.workers - 1
    <3>1. CASE cfg.tasks
      BY <3>1 DEF TokensRight
    <3>2. CASE ~cfg.tasks
      BY <2>0, <3>2, HandlersIs DEF ThreadsRight
    <3> QED
      BY <3>1, <3>2
  <2>2. ASSUME cfg.tasks
        PROVE  {q.free[i] : i \in 0 .. q.nfree - 1} = (0 .. cfg.workers - 1) \ {ws[w].k : w \in Handlers}
    BY <2>2 DEF TokensRight
  <2>3. ASSUME cfg.tasks
        PROVE  {slots[i] : i \in 0 .. cfg.maxOpen - q.open - 1} = W \ Taken
    BY <2>3 DEF SlotsRight, Spare
  <2>4. ASSUME cfg.tasks PROVE Cardinality(W \ Taken) = cfg.maxOpen - q.open
    <3>1. IsFiniteSet(W) /\ Cardinality(W) = cfg.maxOpen
      BY <2>0, <2>4, FS_Interval
    <3>2. Taken \in SUBSET W /\ q.open = Cardinality(Taken)
      BY <2>4, TakenIs
    <3>3. Cardinality(W \ Taken) = Cardinality(W) - Cardinality(W \cap Taken)
      BY <3>1, FS_Difference
    <3>4. W \cap Taken = Taken
      BY <3>2
    <3> QED
      BY <3>1, <3>2, <3>3, <3>4
  <2> QED
    BY <2>1, <2>2, <2>3, <2>4 DEF OneHolder, Taken, Held
<1> QED
  BY <1>1, IInvAlways, PTL

(* Induction up to n: a set P of numbers up to n that holds 0 and goes on   *)
(* below n holds n, for without n the successor would map P into P, one to *)
(* one and not onto.                                                       *)
LEMMA UpTo ==
  ASSUME NEW n \in Nat, NEW P \in SUBSET (0 .. n), 0 \in P,
         \A i \in 0 .. n - 1 : i \in P => i + 1 \in P
  PROVE  n \in P
<1> SUFFICES ASSUME n \notin P PROVE FALSE
  OBVIOUS
<1> DEFINE f == [i \in P |-> i + 1]
<1>1. IsFiniteSet(P)
  <2>1. IsFiniteSet(0 .. n)
    BY FS_Interval
  <2> QED
    BY <2>1, FS_Subset
<1>2. f \in [P -> P]
  OBVIOUS
<1>3. \A i, j \in P : f[i] = f[j] => i = j
  OBVIOUS
<1>4. f \in Injection(P, P)
  <2> HIDE DEF f
  <2> QED
    BY <1>2, <1>3 DEF Injection, IsInjective
<1>5. f \in Surjection(P, P)
  <2> HIDE DEF f
  <2> QED
    BY <1>1, <1>4, FS_Injection
<1>6. PICK i \in P : f[i] = 0
  <2> HIDE DEF f
  <2> QED
    BY <1>5 DEF Surjection
<1> QED
  BY <1>6

(* With nobody left, the partial sums are all zero. *)
LEMMA NothingLeft ==
  ASSUME Types, NEW s \in [0 .. Size -> Int], Sums(s), \A w \in W : NotOut(w) = 0
  PROVE  s[Size] = 0
<1>0. Size \in Nat \ {0} /\ W = 0 .. Size - 1
  BY ConfigIs DEF Types
<1>1. s[0] = 0 /\ \A w \in 0 .. Size - 1 : s[w + 1] = s[w] + NotOut(w)
  BY DEF Sums
<1> HIDE DEF Size, NotOut
<1> DEFINE P == {i \in 0 .. Size : s[i] = 0}
<1>2. P \in SUBSET (0 .. Size) /\ 0 \in P
  BY <1>0, <1>1
<1>3. \A i \in 0 .. Size - 1 : i \in P => i + 1 \in P
  BY <1>0, <1>1
<1>4. Size \in P
  <2> HIDE DEF P
  <2> QED
    BY <1>0, <1>2, <1>3, UpTo
<1> QED
  BY <1>4

(* When Run has returned, every worker and task has counted itself out,    *)
(* every connection was closed or refused, and the counts are right.       *)
THEOREM RunCountedOut == Spec => []CountedOut
<1>1. IInv => CountedOut
  <2> SUFFICES ASSUME IInv, main.pc = "returned" PROVE CountedOut
    BY DEF CountedOut
  <2> USE DEF IInv
  <2>0. AllEnded /\ ~Placing /\ ~refused
    BY DEF MainRight, Placing
  <2>1. \A w \in W : pc[w] \in {"none", "gone"}
    BY <2>0, EndedNone
  <2>2. Serving = {}
    BY <2>1 DEF Serving, Reading
  <2>3. q.count = 0
    <3>1. CASE cfg.tasks
      BY <3>1 DEF ThreadsRight
    <3>2. CASE ~cfg.tasks
      <4>1. cfg.workers \in Nat \ {0} /\ q.exited >= cfg.workers
        BY <2>0, <3>2, ConfigIs DEF Types, AllEnded
      <4>2. Gone # {}
        <5>1. q.exited = Cardinality(Gone)
          BY <3>2 DEF ThreadsRight
        <5>2. Cardinality({}) = 0
          BY FS_EmptySet
        <5> HIDE DEF Gone
        <5> QED
          BY <4>1, <5>1, <5>2
      <4> QED
        BY <3>2, <4>2 DEF Gone, ThreadsRight
    <3> QED
      BY <3>1, <3>2
  <2>4. InRing = {}
    BY <2>3 DEF InRing
  <2>5. \A fd \in 1 .. st.connections : conns[fd].at \in {"closed", "busy"}
    <3> SUFFICES ASSUME NEW fd \in 1 .. st.connections PROVE conns[fd].at \in {"closed", "busy"}
      OBVIOUS
    <3>1. fd \in Fds /\ ~(fd > cfd)
      BY ConfigIs DEF Types, Fds, cfd
    <3>2. conns[fd].at # "none" /\ conns[fd].at # "open" /\ conns[fd].at # "lost"
      BY <2>0, <2>2, <2>4, <3>1 DEF ConnsRight
    <3> QED
      BY <3>1, <3>2 DEF Types
  <2>6. st.busy = Cardinality({fd \in Fds : conns[fd].at = "busy"})
    BY DEF CountsRight, Refusals
  <2>7. st.requests = answered
    <3>1. PICK s \in [0 .. Size -> Int] : Sums(s)
      BY DEF CountsRight
    <3>2. s[Size] = 0
      BY <2>1, <3>1, NothingLeft DEF NotOut
    <3>3. q.requests \in Nat /\ st.requests = q.requests
      BY DEF CountsRight, Types, Queues
    <3> QED
      BY <3>1, <3>2, <3>3 DEF Sums
  <2> QED
    BY <2>1, <2>5, <2>6, <2>7 DEF CountedOut
<1> QED
  BY <1>1, IInvAlways, PTL

(* A connection gets at most two answers after a stop. *)
THEOREM LastAnswersHold == Spec => []LastAnswers
<1>1. IInv => LastAnswers
  BY DEF IInv, LateRight, LastAnswers
<1> QED
  BY <1>1, IInvAlways, PTL
=============================================================================
