------------------------------ MODULE TskProofs ------------------------------
(***************************************************************************)
(* The crew of module Tsk, for any crew, bodies and sizes of loops: the    *)
(* chunks share out a loop, bodies run only in their round, and a round    *)
(* that For ends is complete.                                              *)
(***************************************************************************)
EXTENDS Tsk, FiniteSetTheorems, TLAPS

(* Products and quotients of natural numbers.                              *)
LEMMA MulMono ==
  ASSUME NEW a \in Nat, NEW b \in Nat, NEW q \in Nat, a <= b
  PROVE  a * q \in Nat /\ b * q \in Nat /\ a * q <= b * q
<1>1. b * q = a * q + (b - a) * q
  BY SMT
<1>2. a * q \in Nat /\ (b - a) * q \in Nat
  BY SMT
<1> QED
  BY <1>1, <1>2

LEMMA DivMod ==
  ASSUME NEW n \in Nat, NEW d \in Nat \ {0}
  PROVE  /\ n \div d \in Nat /\ n % d \in 0 .. d - 1
         /\ n = d * (n \div d) + (n % d)
  BY SMT

-----------------------------------------------------------------------------
(* Where the chunk of worker k begins, and that of worker k - 1 ends.      *)
Cut(k, n, workers) ==
  k * (n \div workers) + (IF k < n % workers THEN k ELSE n % workers)

LEMMA ChunkIs ==
  ASSUME NEW n \in Nat, NEW workers \in Nat \ {0}, NEW k \in 0 .. workers - 1
  PROVE  Chunk(k, n, workers) = [lo |-> Cut(k, n, workers), hi |-> Cut(k + 1, n, workers)]
<1> DEFINE q == n \div workers  r == n % workers
<1>1. q \in Nat /\ r \in 0 .. workers - 1 /\ n = workers * q + r
  BY DivMod
<1> HIDE DEF q, r
<1>2. /\ k * (q + 1) = k * q + k /\ (k + 1) * q = k * q + q
      /\ k * q \in Int /\ r * (q + 1) + (k - r) * q = k * q + r
  BY <1>1, SMT
<1>3. CASE n < 1
  <2>1. q = 0 /\ r = 0
    <3>1. workers * q \in Nat
      BY <1>1, SMT
    <3>2. workers * q = 0 /\ r = 0
      BY <1>1, <1>3, <3>1
    <3> QED
      BY <1>1, <3>2, SMT
  <2>2. Chunk(k, n, workers) = [lo |-> 0, hi |-> 0]
    BY <1>3 DEF Chunk
  <2>3. Cut(k, n, workers) = 0 /\ Cut(k + 1, n, workers) = 0
    BY <1>2, <2>1 DEF Cut, q, r
  <2> QED
    BY <2>2, <2>3
<1>4. CASE n >= 1 /\ k < r
  <2>1. Chunk(k, n, workers) = [lo |-> k * (q + 1), hi |-> k * (q + 1) + q + 1]
    BY <1>4 DEF Chunk, q, r
  <2>2. Cut(k, n, workers) = k * q + k /\ Cut(k + 1, n, workers) = (k + 1) * q + (k + 1)
    BY <1>1, <1>4 DEF Cut, q, r
  <2> QED
    BY <1>1, <1>2, <2>1, <2>2
<1>5. CASE n >= 1 /\ ~(k < r)
  <2>1. Chunk(k, n, workers) =
          [lo |-> r * (q + 1) + (k - r) * q, hi |-> r * (q + 1) + (k - r) * q + q]
    BY <1>5 DEF Chunk, q, r
  <2>2. Cut(k, n, workers) = k * q + r /\ Cut(k + 1, n, workers) = (k + 1) * q + r
    BY <1>1, <1>5 DEF Cut, q, r
  <2> QED
    BY <1>1, <1>2, <2>1, <2>2
<1> QED
  BY <1>3, <1>4, <1>5

LEMMA CutShort ==
  ASSUME NEW n \in Nat, NEW workers \in Nat \ {0}, NEW k \in Nat, k <= n % workers
  PROVE  Cut(k, n, workers) = k * (n \div workers) + k
<1>1. n % workers \in Nat
  BY DivMod
<1>2. (IF k < n % workers THEN k ELSE n % workers) = k
  BY <1>1
<1> QED
  BY <1>2, Zenon DEF Cut

LEMMA CutMono ==
  ASSUME NEW n \in Nat, NEW workers \in Nat \ {0}, NEW j \in Nat, NEW k \in Nat, j <= k
  PROVE  /\ Cut(j, n, workers) \in Nat /\ Cut(k, n, workers) \in Nat
         /\ Cut(j, n, workers) <= Cut(k, n, workers)
<1> DEFINE q == n \div workers  r == n % workers
<1>1. q \in Nat /\ r \in Nat
  BY DivMod
<1>2. j * q \in Nat /\ k * q \in Nat /\ j * q <= k * q
  BY <1>1, MulMono
<1> QED
  BY <1>1, <1>2 DEF Cut

LEMMA CutEnds ==
  ASSUME NEW n \in Nat, NEW workers \in Nat \ {0}
  PROVE  Cut(0, n, workers) = 0 /\ Cut(workers, n, workers) = n
<1> DEFINE q == n \div workers  r == n % workers
<1>1. q \in Nat /\ r \in 0 .. workers - 1 /\ n = workers * q + r
  BY DivMod
<1>2. 0 * q = 0
  BY <1>1, SMT
<1> QED
  BY <1>1, <1>2 DEF Cut

(* The chunks are inside the loop and disjoint, ... *)
LEMMA ChunkInside ==
  ASSUME NEW n \in Nat, NEW workers \in Nat \ {0}, NEW k \in 0 .. workers - 1
  PROVE  LET c == Chunk(k, n, workers) IN c.lo \in 0..n /\ c.hi \in 0..n
<1>1. Cut(k, n, workers) \in Nat /\ Cut(k, n, workers) <= Cut(workers, n, workers)
  BY CutMono
<1>2. Cut(k + 1, n, workers) \in Nat /\ Cut(k + 1, n, workers) <= Cut(workers, n, workers)
  <2>1. k + 1 \in Nat /\ workers \in Nat /\ k + 1 <= workers
    OBVIOUS
  <2> QED
    BY <2>1, CutMono
<1>3. Chunk(k, n, workers) = [lo |-> Cut(k, n, workers), hi |-> Cut(k + 1, n, workers)]
  BY ChunkIs
<1> QED
  BY <1>1, <1>2, <1>3, CutEnds

LEMMA ChunksDisjoint ==
  ASSUME NEW n \in Nat, NEW workers \in Nat \ {0},
         NEW j \in 0 .. workers - 1, NEW k \in 0 .. workers - 1, j < k
  PROVE  Chunk(j, n, workers).hi <= Chunk(k, n, workers).lo
<1>1. Cut(j + 1, n, workers) <= Cut(k, n, workers)
  BY CutMono
<1> QED
  BY <1>1, ChunkIs

(* ... and leave no index out. *)
LEMMA ChunksCover ==
  ASSUME NEW n \in Nat, NEW workers \in Nat \ {0}, NEW i \in 0 .. n - 1
  PROVE  \E k \in 0 .. workers - 1 :
           Chunk(k, n, workers).lo <= i /\ i < Chunk(k, n, workers).hi
<1> DEFINE q == n \div workers  r == n % workers
<1>1. q \in Nat /\ r \in 0 .. workers - 1 /\ n = workers * q + r
  BY DivMod
<1> HIDE DEF q, r
<1>2. SUFFICES \E k \in 0 .. workers - 1 : Cut(k, n, workers) <= i /\ i < Cut(k + 1, n, workers)
  <2>1. ASSUME NEW k \in 0 .. workers - 1
        PROVE  /\ Chunk(k, n, workers).lo = Cut(k, n, workers)
               /\ Chunk(k, n, workers).hi = Cut(k + 1, n, workers)
    <3>1. Chunk(k, n, workers) = [lo |-> Cut(k, n, workers), hi |-> Cut(k + 1, n, workers)]
      BY ChunkIs
    <3> QED
      BY <3>1
  <2> QED
    BY <2>1
<1>3. r * (q + 1) = r * q + r /\ r * q \in Nat /\ workers * q = r * q + (workers - r) * q
  BY <1>1, SMT
<1>4. CASE i < r * (q + 1)
  <2> DEFINE k == i \div (q + 1)
  <2>1. k \in Nat /\ i % (q + 1) \in 0 .. q /\ i = (q + 1) * k + (i % (q + 1))
    <3>1. i \in Nat /\ q + 1 \in Nat \ {0}
      BY <1>1
    <3>2. /\ i \div (q + 1) \in Nat /\ i % (q + 1) \in 0 .. (q + 1) - 1
          /\ i = (q + 1) * (i \div (q + 1)) + (i % (q + 1))
      BY <3>1, DivMod
    <3> QED
      BY <1>1, <3>2
  <2> HIDE DEF k
  <2>2. (q + 1) * k = k * q + k /\ (k + 1) * q = k * q + q /\ k * q \in Nat
    BY <1>1, <2>1, SMT
  <2>3. k < r
    <3> SUFFICES ASSUME r <= k PROVE FALSE
      BY <1>1, <2>1
    <3>1. r * (q + 1) <= k * (q + 1)
      BY <1>1, <2>1, MulMono
    <3>2. k * (q + 1) = (q + 1) * k
      BY <1>1, <2>1, SMT
    <3> QED
      BY <1>1, <1>3, <1>4, <2>1, <2>2, <3>1, <3>2
  <2>4. Cut(k, n, workers) = k * q + k /\ Cut(k + 1, n, workers) = (k + 1) * q + (k + 1)
    <3>1. k \in Nat /\ k <= n % workers /\ k + 1 \in Nat /\ k + 1 <= n % workers
      BY <1>1, <2>1, <2>3 DEF r
    <3> QED
      BY <3>1, CutShort, Zenon DEF q
  <2>5. k \in 0 .. workers - 1 /\ Cut(k, n, workers) <= i /\ i < Cut(k + 1, n, workers)
    BY <1>1, <2>1, <2>2, <2>3, <2>4
  <2> QED
    BY <2>5
<1>5. CASE ~(i < r * (q + 1))
  <2> DEFINE d == i - r * (q + 1)  e == d \div q  k == r + e
  <2>1. d \in Nat /\ d < (workers - r) * q
    BY <1>1, <1>3, <1>5
  <2>2. q \in Nat \ {0}
    <3> SUFFICES ASSUME q = 0 PROVE FALSE
      BY <1>1
    <3>1. (workers - r) * q = 0
      BY <1>1, SMT
    <3> QED
      BY <2>1, <3>1
  <2>3. e \in Nat /\ d % q \in 0 .. q - 1 /\ d = q * e + (d % q)
    BY <2>1, <2>2, DivMod
  <2> HIDE DEF e
  <2>4. e < workers - r
    <3> SUFFICES ASSUME workers - r <= e PROVE FALSE
      BY <1>1, <2>3
    <3>1. (workers - r) * q <= e * q
      BY <1>1, <2>3, MulMono
    <3>2. e * q = q * e
      BY <1>1, <2>3, SMT
    <3> QED
      BY <2>1, <2>2, <2>3, <3>1, <3>2, <1>1, SMT
  <2>5. k * q = r * q + q * e /\ (k + 1) * q = k * q + q /\ q * e \in Nat
    BY <1>1, <2>3, SMT
  <2>6. Cut(k, n, workers) = k * q + r /\ Cut(k + 1, n, workers) = (k + 1) * q + r
    BY <1>1, <2>3 DEF Cut, q, r
  <2>7. k \in 0 .. workers - 1 /\ Cut(k, n, workers) <= i /\ i < Cut(k + 1, n, workers)
    BY <1>1, <1>3, <2>2, <2>3, <2>4, <2>5, <2>6
  <2> QED
    BY <2>7
<1> QED
  BY <1>4, <1>5
-----------------------------------------------------------------------------
(* The inductive invariant.  Who has joined, who has left the crew, who is *)
(* done with the round, and who has run its body in it.                    *)
Joined == {k \in Crew : pc[k] \notin {"none", "new"}}
Out    == {k \in Crew : pc[k] \in {"unlocked", "gone"}}
Ended  == {k \in Crew : /\ pc[k] \in {"await", "leave", "unlocked", "gone"}
                        /\ seat[k].round = go.round}
Ran(k) == pc[k] = "report" \/ k \in Ended

Places == {"none", "new", "await", "body", "report", "leave", "unlocked", "gone"}
Seats == [id : Nat, round : Nat, op : Ops \cup {NoOp}, n : Sizes \cup {0},
          lo : Nat, hi : Nat, failed : BOOLEAN]
Dones == [finished : Nat, failed : Nat, left : Nat]
Types ==
  /\ go \in [round : 0..MaxRounds, n : Sizes \cup {0}, op : Ops \cup {NoOp},
             workers : Nat, ids : Nat, stop : BOOLEAN]
  /\ done \in Dones
  /\ seat \in [Crew -> Seats] /\ pc \in [Crew -> Places]
  /\ main \in {"start", "idle", "round", "stopping", "stopped"}
  /\ waiters \in SUBSET (Crew \cup {Main})
  /\ did \in [Indices -> Nat] /\ bad \in BOOLEAN

(* The workers that joined have the numbers below ids, one each. *)
IdsRight ==
  /\ go.ids = Cardinality(Joined)
  /\ \A k \in Joined : seat[k].id < go.ids
  /\ \A j, k \in Joined : j # k => seat[j].id # seat[k].id
  /\ \A i \in 0 .. go.ids - 1 : \E k \in Joined : seat[k].id = i

(* What For opened, and a Seat tells of it. *)
Phases ==
  /\ main = "start" => go.round = 0 /\ go.workers = 0
  /\ go.workers \in {0, Cardinality(Running)}
  /\ main \in {"idle", "round"} => go.workers > 0
  /\ go.stop <=> main \in {"stopping", "stopped"}
  /\ main = "round" => go.round > 0
  /\ Stopped => Running \subseteq Out
SeatRight(k) ==
  /\ seat[k].round <= go.round
  /\ seat[k].lo <= seat[k].n /\ seat[k].hi <= seat[k].n
  /\ k \notin Joined => seat[k].round = 0 /\ seat[k].id = 0
  /\ main # "round" /\ k \in Running => seat[k].round = go.round
  /\ pc[k] \in {"body", "report"} =>
       main = "round" /\ seat[k].round = go.round /\ seat[k].op = go.op
  /\ pc[k] \in {"leave", "unlocked", "gone"} => go.stop
  /\ seat[k].failed => pc[k] = "report"
  /\ k \in Joined /\ seat[k].round = go.round /\ go.round > 0 =>
       LET c == Chunk(seat[k].id, go.n, go.workers) IN
       seat[k].n = go.n /\ seat[k].lo = c.lo /\ seat[k].hi = c.hi
SeatsRight == \A k \in Crew : SeatRight(k)

(* The counters count whom they should; done is cleared between rounds. *)
CountsRight ==
  /\ done.left = Cardinality(Out)
  /\ done.finished = IF main = "round" THEN Cardinality(Ended) ELSE 0
  /\ done.failed <= done.finished

(* An index has been run just when its worker has run; a failure that is   *)
(* not counted is still with its worker.                                   *)
InChunk(k, i) == seat[k].lo <= i /\ i < seat[k].hi
DidRight ==
  main = "round" =>
    \A i \in Indices : did[i] = IF \E k \in Crew : Ran(k) /\ InChunk(k, i) THEN 1 ELSE 0
FailedRight ==
  main = "round" => (bad <=> done.failed > 0 \/ \E k \in Crew : seat[k].failed)

IInv == Types /\ IdsRight /\ Phases /\ SeatsRight /\ CountsRight /\ DidRight /\ FailedRight
-----------------------------------------------------------------------------
(* The sets above are finite, and a chunk is inside its loop also when the *)
(* worker has none.                                                        *)
LEMMA SubsetOfCrew ==
  ASSUME NEW S \in SUBSET Crew
  PROVE  IsFiniteSet(S) /\ Cardinality(S) \in Nat /\ Cardinality(S) <= Cardinality(Crew)
<1>1. IsFiniteSet(Crew)
  BY TskAssumption
<1> QED
  BY <1>1, FS_Subset, FS_CardinalityType

LEMMA Added ==
  ASSUME NEW S \in SUBSET Crew, NEW k \in Crew \ S
  PROVE  Cardinality(S \cup {k}) = Cardinality(S) + 1
BY SubsetOfCrew, FS_AddElement

LEMMA ChunkNat ==
  ASSUME NEW k \in Nat, NEW n \in Nat, NEW workers \in Nat
  PROVE  Chunk(k, n, workers).lo \in 0..n /\ Chunk(k, n, workers).hi \in 0..n
<1>1. CASE workers < 1 \/ k >= workers
  <2>1. Chunk(k, n, workers) = [lo |-> 0, hi |-> 0]
    BY <1>1 DEF Chunk
  <2> QED
    BY <2>1
<1>2. CASE ~(workers < 1 \/ k >= workers)
  <2>1. workers \in Nat \ {0} /\ k \in 0 .. workers - 1
    BY <1>2
  <2> QED
    BY <2>1, ChunkInside
<1> QED
  BY <1>1, <1>2

LEMMA NoOpAndSizes == Sizes \cup {0} \subseteq Nat
BY TskAssumption

(* The counters of a report and of the end of a round.                     *)
LEMMA DoneChanged ==
  ASSUME NEW d \in Dones, NEW finished, NEW failed
  PROVE  [d EXCEPT !.finished = finished, !.failed = failed] =
           [finished |-> finished, failed |-> failed, left |-> d.left]
<1>1. [d EXCEPT !.finished = finished] =
        [finished |-> finished, failed |-> d.failed, left |-> d.left]
  BY DEF Dones
<1>2. [[d EXCEPT !.finished = finished] EXCEPT !.failed = failed] =
        [[finished |-> finished, failed |-> d.failed, left |-> d.left] EXCEPT !.failed = failed]
  BY <1>1, Zenon
<1>3. [[finished |-> finished, failed |-> d.failed, left |-> d.left] EXCEPT !.failed = failed] =
        [finished |-> finished, failed |-> failed, left |-> d.left]
  OBVIOUS
<1> QED
  BY <1>2, <1>3, Zenon

LEMMA CountedIs ==
  ASSUME Types, NEW k \in Crew, Counted(k)
  PROVE  done' = [finished |-> done.finished + 1,
                  failed |-> IF seat[k].failed THEN done.failed + 1 ELSE done.failed,
                  left |-> done.left]
<1>1. done \in Dones
  BY DEF Types, Dones
<1>2. PICK failed : failed = IF seat[k].failed THEN done.failed + 1 ELSE done.failed
  OBVIOUS
<1>3. done' = [done EXCEPT !.finished = @ + 1, !.failed = failed]
  BY <1>2 DEF Counted
<1>4. done' = [done EXCEPT !.finished = done.finished + 1, !.failed = failed]
  BY <1>3
<1> QED
  BY <1>1, <1>2, <1>4, DoneChanged

LEMMA ClearedIs ==
  ASSUME Types
  PROVE  Cleared = [finished |-> 0, failed |-> 0, left |-> done.left]
BY DoneChanged DEF Types, Dones, Cleared

LEMMA OpenedIs ==
  ASSUME Types, NEW n, NEW op, Opened(n, op)
  PROVE  go' = [round |-> go.round + 1, n |-> n, op |-> op,
                workers |-> go.workers, ids |-> go.ids, stop |-> go.stop]
BY DEF Types, Opened

-----------------------------------------------------------------------------
LEMMA IInvInit == Init => IInv
<1> SUFFICES ASSUME Init PROVE IInv
  OBVIOUS
<1>1. Joined = {} /\ Out = {} /\ Ended = {} /\ Running = {}
  BY DEF Init, Joined, Out, Ended, Running
<1>2. Cardinality({}) = 0
  BY FS_EmptySet
<1>3. Types
  <2>1. NewSeat(0) \in Seats
    BY DEF NewSeat, Seats
  <2>2. seat \in [Crew -> Seats] /\ pc \in [Crew -> Places]
    BY <2>1 DEF Init, Places
  <2>3. /\ go \in [round : 0..MaxRounds, n : Sizes \cup {0}, op : Ops \cup {NoOp},
                   workers : Nat, ids : Nat, stop : BOOLEAN]
        /\ done \in Dones
    BY TskAssumption DEF Init, Dones
  <2> QED
    BY <2>2, <2>3 DEF Init, Types
<1>4. IdsRight
  BY <1>1, <1>2 DEF Init, IdsRight
<1>5. Phases
  BY <1>1, <1>2 DEF Init, Phases, Stopped
<1>6. SeatsRight
  BY <1>1 DEF Init, SeatsRight, SeatRight, NewSeat
<1>7. CountsRight
  BY <1>1, <1>2 DEF Init, CountsRight
<1>8. DidRight /\ FailedRight
  BY DEF Init, DidRight, FailedRight
<1> QED
  BY <1>3, <1>4, <1>5, <1>6, <1>7, <1>8 DEF IInv

(* A step of each kind keeps the types ... *)
LEMMA TypesNext ==
  ASSUME Types, [Next]_vars
  PROVE  Types'
<1>1. ASSUME NEW k \in Crew, Join(k) PROVE Types'
  <2>1. NewSeat(go.ids) \in Seats
    BY <1>1 DEF Types, NewSeat, Seats
  <2> QED
    BY <1>1, <2>1 DEF Join, Goto, Types, Places
<1>2. ASSUME NEW k \in Crew, Await(k) PROVE Types'
  <2>1. CASE AwaitWait(k)
    BY <1>2, <2>1 DEF Await, AwaitWait, Types
  <2>2. CASE AwaitRoundOpen(k)
    <3> DEFINE c == Chunk(seat[k].id, go.n, go.workers)
    <3>1. c.lo \in Nat /\ c.hi \in Nat
      <4>1. seat[k].id \in Nat /\ go.n \in Nat /\ go.workers \in Nat
        BY NoOpAndSizes DEF Types, Seats
      <4>2. c.lo \in 0 .. go.n /\ c.hi \in 0 .. go.n
        BY <4>1, ChunkNat
      <4> QED
        BY <4>1, <4>2
    <3> HIDE DEF c
    <3>2. seat' = [seat EXCEPT ![k].round = go.round, ![k].n = go.n, ![k].op = go.op,
                               ![k].lo = c.lo, ![k].hi = c.hi]
      BY <2>2 DEF AwaitRoundOpen, c
    <3>3. seat' \in [Crew -> Seats]
      <4>0. go.round \in Nat /\ go.n \in Sizes \cup {0} /\ go.op \in Ops \cup {NoOp}
        BY TskAssumption DEF Types
      <4>1. ASSUME NEW s \in Seats
            PROVE  [s EXCEPT !.round = go.round, !.n = go.n, !.op = go.op,
                             !.lo = c.lo, !.hi = c.hi] \in Seats
        BY <3>1, <4>0 DEF Seats
      <4>2. seat' = [seat EXCEPT ![k] = [seat[k] EXCEPT !.round = go.round, !.n = go.n,
                       !.op = go.op, !.lo = c.lo, !.hi = c.hi]]
        BY <3>2 DEF Types, Seats
      <4> QED
        BY <4>1, <4>2 DEF Types
    <3> QED
      BY <1>2, <2>2, <3>3 DEF Await, AwaitRoundOpen, Goto, Types, Places
  <2>3. CASE AwaitStop(k)
    BY <1>2, <2>3 DEF Await, AwaitStop, Goto, Types, Places
  <2> QED
    BY <1>2, <2>1, <2>2, <2>3 DEF Await
<1>3. ASSUME NEW k \in Crew, NEW failed \in BOOLEAN, Body(k, failed) PROVE Types'
  <2>1. did' \in [Indices -> Nat]
    BY <1>3 DEF Body, Types
  <2>2. seat' \in [Crew -> Seats]
    BY <1>3 DEF Body, Types, Seats
  <2> QED
    BY <1>3, <2>1, <2>2 DEF Body, Goto, Types, Places
<1>4. ASSUME NEW k \in Crew, Report(k) PROVE Types'
  <2>1. seat' \in [Crew -> Seats]
    BY ZenonT(60), <1>4 DEF Report, Types, Seats
  <2>2. done' \in Dones
    BY <1>4, CountedIs DEF Report, Finish, Types, Dones
  <2> QED
    BY <1>4, <2>1, <2>2 DEF Report, Finish, SignalDone, Goto, Types, Places
<1>5. ASSUME NEW k \in Crew, Leave(k) \/ LastLook(k) \/ StartWorker(k) PROVE Types'
  <2>1. done' \in Dones
    BY <1>5 DEF Leave, LastLook, StartWorker, Types, Dones
  <2>2. pc' \in [Crew -> Places]
    BY <1>5 DEF Leave, LastLook, StartWorker, Goto, Types, Places
  <2> QED
    BY <1>5, <2>1, <2>2 DEF Leave, LastLook, StartWorker, SignalDone, Types
<1>6. ASSUME NEW n \in Sizes, NEW op \in Ops, For(n, op) PROVE Types'
  <2>1. go' \in [round : 0..MaxRounds, n : Sizes \cup {0}, op : Ops \cup {NoOp},
                workers : Nat, ids : Nat, stop : BOOLEAN]
    <3>1. go.round + 1 \in 0..MaxRounds
      BY <1>6, TskAssumption DEF For, Types
    <3> QED
      BY <1>6, <3>1, OpenedIs DEF For, Open, Types
  <2>2. did' \in [Indices -> Nat] /\ bad' \in BOOLEAN
    BY <1>6 DEF For
  <2> QED
    BY <1>6, <2>1, <2>2 DEF For, Open, SignalGo, Types
<1>7. CASE Start
  <2>1. Cardinality(Running) \in Nat
    BY SubsetOfCrew DEF Running
  <2>2. go' \in [round : 0..MaxRounds, n : Sizes \cup {0}, op : Ops \cup {NoOp},
                workers : Nat, ids : Nat, stop : BOOLEAN]
    BY <1>7, <2>1 DEF Start, Types
  <2> QED
    BY <1>7, <2>2 DEF Start, Types
<1>8. CASE Stop
  <2>1. go' \in [round : 0..MaxRounds, n : Sizes \cup {0}, op : Ops \cup {NoOp},
                workers : Nat, ids : Nat, stop : BOOLEAN]
    BY <1>8 DEF Stop, Halt, Types
  <2> QED
    BY <1>8, <2>1 DEF Stop, Halt, SignalGo, Types
<1>9. CASE Awaits
  <2>1. done' \in Dones
    BY <1>9, ClearedIs DEF Awaits, AwaitRound, AwaitLeft, Types, Dones
  <2> QED
    BY <1>9, <2>1 DEF Awaits, AwaitRound, AwaitLeft, Types
<1>10. CASE ForRefused \/ UNCHANGED vars
  BY <1>10 DEF ForRefused, vars, Types
<1> QED
  BY <1>1, <1>2, <1>3, <1>4, <1>5, <1>6, <1>7, <1>8, <1>9, <1>10 DEF Next, Worker

(* ... and the numbers of those that joined, ... *)
LEMMA JoinIs ==
  ASSUME Types, NEW k \in Crew, Join(k)
  PROVE  /\ pc[k] = "new" /\ pc' = [pc EXCEPT ![k] = "await"]
         /\ seat' = [seat EXCEPT ![k] = NewSeat(go.ids)]
         /\ k \notin Joined /\ Joined' = Joined \cup {k}
         /\ go' = [go EXCEPT !.ids = go.ids + 1] /\ go'.ids = go.ids + 1
         /\ go'.round = go.round /\ go'.n = go.n /\ go'.op = go.op
         /\ go'.workers = go.workers /\ go'.stop = go.stop
         /\ UNCHANGED <<done, main, answer, waiters, did, bad>>
BY DEF Join, Goto, Types, Places, Joined

LEMMA ElseIdsStay ==
  ASSUME Types, [Next]_vars, \A k \in Crew : ~Join(k)
  PROVE  /\ Joined' = Joined /\ go'.ids = go.ids
         /\ \A k \in Crew : seat'[k].id = seat[k].id
<1>1. ASSUME NEW k \in Crew, AwaitRoundOpen(k), Await(k)
      PROVE  /\ Joined' = Joined /\ go'.ids = go.ids
             /\ \A j \in Crew : seat'[j].id = seat[j].id
  BY <1>1 DEF AwaitRoundOpen, Await, Goto, Joined, Types, Seats, Places
<1>2. ASSUME NEW k \in Crew, AwaitWait(k) \/ AwaitStop(k), Await(k)
      PROVE  /\ Joined' = Joined /\ go'.ids = go.ids
             /\ \A j \in Crew : seat'[j].id = seat[j].id
  BY <1>2 DEF AwaitWait, AwaitStop, Await, Goto, Joined, Types, Places
<1>3. ASSUME NEW k \in Crew, NEW failed \in BOOLEAN, Body(k, failed)
      PROVE  /\ Joined' = Joined /\ go'.ids = go.ids
             /\ \A j \in Crew : seat'[j].id = seat[j].id
  BY <1>3 DEF Body, Goto, Joined, Types, Seats, Places
<1>4. ASSUME NEW k \in Crew, Report(k)
      PROVE  /\ Joined' = Joined /\ go'.ids = go.ids
             /\ \A j \in Crew : seat'[j].id = seat[j].id
  BY <1>4 DEF Report, Goto, Joined, Types, Seats, Places
<1>5. ASSUME NEW k \in Crew, Leave(k) \/ LastLook(k) \/ StartWorker(k)
      PROVE  /\ Joined' = Joined /\ UNCHANGED <<go, seat>>
  BY <1>5 DEF Leave, LastLook, StartWorker, Goto, Joined, Types, Places
<1>6. ASSUME NEW n \in Sizes, NEW op \in Ops, For(n, op)
      PROVE  Joined' = Joined /\ go'.ids = go.ids /\ UNCHANGED seat
  BY <1>6, OpenedIs DEF For, Open, Joined
<1>7. CASE Start \/ Stop
  BY <1>7 DEF Start, Stop, Halt, Joined, Types
<1>8. CASE ForRefused \/ Awaits \/ UNCHANGED vars
  BY <1>8 DEF ForRefused, Awaits, AwaitRound, AwaitLeft, vars, Joined
<1> QED
  BY <1>1, <1>2, <1>3, <1>4, <1>5, <1>6, <1>7, <1>8 DEF Next, Worker, Await

LEMMA IdsNext ==
  ASSUME IInv, [Next]_vars
  PROVE  IdsRight'
<1> USE DEF IInv
<1>1. CASE \A k \in Crew : ~Join(k)
  <2>1. IdsRight
    OBVIOUS
  <2>2. \A k \in Joined : k \in Crew
    BY DEF Joined
  <2> QED
    BY <1>1, <2>1, <2>2, ElseIdsStay DEF IdsRight
<1>2. ASSUME NEW k \in Crew, Join(k) PROVE IdsRight'
  <2>1. /\ k \notin Joined /\ Joined' = Joined \cup {k} /\ go'.ids = go.ids + 1
        /\ seat' = [seat EXCEPT ![k] = NewSeat(go.ids)]
    BY <1>2, JoinIs
  <2>2. /\ go.ids \in Nat /\ Joined \subseteq Crew /\ seat'[k].id = go.ids
        /\ \A j \in Joined : seat'[j] = seat[j] /\ seat[j].id \in Nat
    BY <2>1 DEF Types, Joined, NewSeat, Seats
  <2>3. Cardinality(Joined') = go'.ids
    BY <2>1, <2>2, Added DEF IdsRight
  <2>4. \A j \in Joined' : seat'[j].id < go'.ids
    BY <2>1, <2>2 DEF IdsRight
  <2>5. \A i, j \in Joined' : i # j => seat'[i].id # seat'[j].id
    BY <2>1, <2>2 DEF IdsRight
  <2>6. \A i \in 0 .. go'.ids - 1 : \E j \in Joined' : seat'[j].id = i
    <3>1. ASSUME NEW i \in 0 .. go.ids - 1 PROVE \E j \in Joined' : seat'[j].id = i
      BY <2>1, <2>2 DEF IdsRight
    <3>2. \A i \in 0 .. go'.ids - 1 : i \in 0 .. go.ids - 1 \/ i = go.ids
      BY <2>1, <2>2
    <3> QED
      BY <2>1, <2>2, <3>1, <3>2
  <2> QED
    BY <2>3, <2>4, <2>5, <2>6 DEF IdsRight
<1> QED
  BY <1>1, <1>2

(* ... and what the program and the monitor Go tell of each other, ... *)
LEMMA WorkerFrame ==
  ASSUME Types, NEW k \in Crew, Worker(k)
  PROVE  /\ main' = main /\ go'.round = go.round /\ go'.n = go.n /\ go'.op = go.op
         /\ go'.workers = go.workers /\ go'.stop = go.stop
         /\ Running' = Running /\ Out \subseteq Out'
<1>1. ASSUME Join(k)
      PROVE  Running' = Running /\ Out \subseteq Out'
  BY <1>1, JoinIs DEF Types, Running, Out, Places
<1>2. ASSUME Await(k)
      PROVE  Running' = Running /\ Out \subseteq Out'
  BY <1>2 DEF Await, AwaitWait, AwaitRoundOpen, AwaitStop, Goto, Types, Running, Out, Places
<1>3. ASSUME Report(k) \/ Leave(k) \/ LastLook(k) \/ \E failed \in BOOLEAN : Body(k, failed)
      PROVE  Running' = Running /\ Out \subseteq Out' /\ UNCHANGED go /\ main' = main
  BY <1>3 DEF Report, Leave, LastLook, Body, Goto, Types, Running, Out, Places
<1>4. Join(k) \/ Await(k) => main' = main
  BY JoinIs DEF Await
<1>5. Await(k) => UNCHANGED go
  BY DEF Await
<1> QED
  BY <1>1, <1>2, <1>3, <1>4, <1>5, JoinIs DEF Worker

LEMMA CrewCounts ==
  ASSUME Types
  PROVE  /\ Cardinality(Running) \in Nat /\ Cardinality(Out) \in Nat /\ Cardinality(Ended) \in Nat
         /\ Running # {} => Cardinality(Running) > 0
         /\ Out \subseteq Running /\ Ended \subseteq Running
         /\ Cardinality(Out) >= Cardinality(Running) => Running = Out
         /\ Cardinality(Ended) >= Cardinality(Running) => Running = Ended
<1>1. Running \in SUBSET Crew /\ Out \in SUBSET Running /\ Ended \in SUBSET Running
  BY DEF Running, Out, Ended
<1>2. IsFiniteSet(Running) /\ Cardinality(Running) \in Nat
  BY <1>1, SubsetOfCrew
<1>3. Running # {} => Cardinality(Running) # 0
  BY <1>2, FS_EmptySet
<1>4. ASSUME NEW S \in SUBSET Running
      PROVE  /\ Cardinality(S) \in Nat /\ Cardinality(S) <= Cardinality(Running)
             /\ Cardinality(S) = Cardinality(Running) => Running = S
  <2>1. IsFiniteSet(S)
    BY <1>2, FS_Subset
  <2> QED
    BY <1>2, <2>1, FS_Subset, FS_CardinalityType
<1>5. /\ Cardinality(Out) \in Nat /\ Cardinality(Out) <= Cardinality(Running)
      /\ Cardinality(Out) = Cardinality(Running) => Running = Out
  BY <1>1, <1>4
<1>6. /\ Cardinality(Ended) \in Nat /\ Cardinality(Ended) <= Cardinality(Running)
      /\ Cardinality(Ended) = Cardinality(Running) => Running = Ended
  BY <1>1, <1>4
<1> QED
  BY <1>1, <1>2, <1>3, <1>5, <1>6

LEMMA PhasesNext ==
  ASSUME IInv, [Next]_vars
  PROVE  Phases'
<1> USE DEF IInv
<1>1. ASSUME NEW k \in Crew, Worker(k) PROVE Phases'
  BY <1>1, WorkerFrame DEF Phases, Stopped
<1>2. ASSUME NEW k \in Crew, StartWorker(k) PROVE Phases'
  BY <1>2 DEF StartWorker, Phases, Stopped
<1>3. CASE Start
  <2>1. /\ main = "start" /\ main' = "idle" /\ go'.workers = Cardinality(Running)
        /\ go'.stop = go.stop /\ Running' = Running /\ Cardinality(Running) > 0
    BY <1>3, CrewCounts DEF Start, Types, Running
  <2> QED
    BY <2>1 DEF Phases, Stopped
<1>4. ASSUME NEW n \in Sizes, NEW op \in Ops, For(n, op) PROVE Phases'
  <2>1. /\ main = "idle" /\ main' = "round" /\ go'.workers = go.workers
        /\ go'.stop = go.stop /\ Running' = Running /\ go'.round = go.round + 1 /\ go.round \in Nat
    BY <1>4, OpenedIs, TskAssumption DEF For, Open, Running, Types
  <2> QED
    BY <2>1 DEF Phases, Stopped
<1>5. CASE Stop
  <2>1. /\ main \in {"start", "idle"} /\ main' = "stopping" /\ go'.workers = go.workers
        /\ go'.stop /\ Running' = Running
    BY <1>5 DEF Stop, Halt, Running, Types
  <2> QED
    BY <2>1 DEF Phases, Stopped
<1>6. CASE AwaitRound
  <2>1. UNCHANGED <<go, pc>> /\ main = "round" /\ main' \in {"round", "idle"} /\ Running' = Running
    BY <1>6 DEF AwaitRound, Running
  <2> QED
    BY <2>1 DEF Phases, Stopped
<1>7. CASE AwaitLeft
  <2>1. /\ UNCHANGED <<go, pc>> /\ main = "stopping" /\ main' \in {"stopping", "stopped"}
        /\ Running' = Running /\ Out' = Out
    BY <1>7 DEF AwaitLeft, Running, Out
  <2>2. main' = "stopped" => done.left >= go.workers
    BY <1>7 DEF AwaitLeft, AllLeft
  <2>3. Stopped' => Running \subseteq Out
    BY <2>1, <2>2, CrewCounts DEF Phases, Stopped, CountsRight
  <2> QED
    BY <2>1, <2>3 DEF Phases, Stopped
<1>8. CASE ForRefused \/ UNCHANGED vars
  <2>1. UNCHANGED <<go, pc, main>> /\ Running' = Running /\ Out' = Out
    BY <1>8 DEF ForRefused, vars, Running, Out
  <2> QED
    BY <2>1 DEF Phases, Stopped
<1> QED
  BY <1>1, <1>2, <1>3, <1>4, <1>5, <1>6, <1>7, <1>8 DEF Next, Awaits

(* ... and what the Seats tell, ... *)
LEMMA OthersStay ==
  ASSUME Types, NEW k \in Crew, Worker(k), NEW j \in Crew, j # k
  PROVE  pc'[j] = pc[j] /\ seat'[j] = seat[j]
<1>1. CASE Await(k)
  BY <1>1 DEF Await, AwaitWait, AwaitRoundOpen, AwaitStop, Goto, Types
<1>2. CASE Join(k) \/ Report(k) \/ Leave(k) \/ LastLook(k) \/ \E failed \in BOOLEAN : Body(k, failed)
  BY <1>2 DEF Join, Report, Leave, LastLook, Body, Goto, Types
<1> QED
  BY <1>1, <1>2 DEF Worker

LEMMA OpenIs ==
  ASSUME Types, NEW k \in Crew, Await(k), AwaitRoundOpen(k)
  PROVE  LET c == Chunk(seat[k].id, go.n, go.workers) IN
         /\ pc[k] = "await" /\ pc' = [pc EXCEPT ![k] = "body"]
         /\ go.round # seat[k].round /\ ~go.stop /\ UNCHANGED <<go, done, main, did, bad>>
         /\ seat'[k].round = go.round /\ seat'[k].n = go.n /\ seat'[k].op = go.op
         /\ seat'[k].lo = c.lo /\ seat'[k].hi = c.hi
         /\ seat'[k].id = seat[k].id /\ seat'[k].failed = seat[k].failed
         /\ \A j \in Crew \ {k} : seat'[j] = seat[j]
<1> DEFINE c == Chunk(seat[k].id, go.n, go.workers)
<1>1. seat' = [seat EXCEPT ![k].round = go.round, ![k].n = go.n, ![k].op = go.op,
                           ![k].lo = c.lo, ![k].hi = c.hi]
  BY DEF AwaitRoundOpen
<1> HIDE DEF c
<1>2. PICK lo, hi : lo = c.lo /\ hi = c.hi
  OBVIOUS
<1>3. seat' = [seat EXCEPT ![k].round = go.round, ![k].n = go.n, ![k].op = go.op,
                           ![k].lo = lo, ![k].hi = hi]
  BY <1>1, <1>2
<1>4. /\ seat'[k].round = go.round /\ seat'[k].n = go.n /\ seat'[k].op = go.op
      /\ seat'[k].lo = lo /\ seat'[k].hi = hi
      /\ seat'[k].id = seat[k].id /\ seat'[k].failed = seat[k].failed
      /\ \A j \in Crew \ {k} : seat'[j] = seat[j]
  BY <1>3 DEF Types, Seats
<1>5. /\ pc[k] = "await" /\ pc' = [pc EXCEPT ![k] = "body"]
      /\ go.round # seat[k].round /\ ~go.stop /\ UNCHANGED <<go, done, main, did, bad>>
  BY DEF Await, AwaitRoundOpen, Goto
<1> QED
  BY <1>2, <1>4, <1>5 DEF c

LEMMA ReportIs ==
  ASSUME Types, NEW k \in Crew, Report(k)
  PROVE  /\ pc[k] = "report" /\ pc' = [pc EXCEPT ![k] = "await"] /\ Counted(k)
         /\ seat' = [seat EXCEPT ![k] = [seat[k] EXCEPT !.failed = FALSE]]
         /\ UNCHANGED <<go, main, did, bad>>
BY DEF Report, Finish, Goto, Types, Seats

LEMMA BodyIs ==
  ASSUME Types, NEW k \in Crew, NEW failed \in BOOLEAN, Body(k, failed)
  PROVE  /\ pc[k] = "body" /\ pc' = [pc EXCEPT ![k] = "report"]
         /\ seat' = [seat EXCEPT ![k] = [seat[k] EXCEPT !.failed = failed]]
         /\ UNCHANGED <<go, main, done>> /\ bad' = (bad \/ failed)
         /\ did' = [i \in Indices |-> IF InChunk(k, i) THEN did[i] + 1 ELSE did[i]]
BY DEF Body, Goto, Types, Seats, InChunk

LEMMA SeatStays ==
  ASSUME NEW j \in Crew, SeatRight(j), pc'[j] = pc[j], seat'[j] = seat[j], main' = main,
         go'.round = go.round, go'.n = go.n, go'.op = go.op, go'.workers = go.workers,
         go'.stop = go.stop
  PROVE  SeatRight(j)'
BY DEF SeatRight, Joined, Running

LEMMA OwnSeat ==
  ASSUME IInv, NEW k \in Crew, Worker(k)
  PROVE  SeatRight(k)'
<1> USE DEF IInv
<1>0. SeatRight(k) /\ go.round \in Nat /\ seat[k] \in Seats /\ pc[k] \in Places
  BY TskAssumption DEF SeatsRight, Types
<1>1. CASE Join(k)
  <2>1. /\ pc[k] = "new" /\ pc'[k] = "await" /\ go'.round = go.round /\ main' = main
        /\ seat'[k].round = 0 /\ seat'[k].lo = 0 /\ seat'[k].hi = 0 /\ seat'[k].n = 0
        /\ ~seat'[k].failed
    BY <1>1, JoinIs DEF Types, NewSeat
  <2>2. main # "round" => go.round = 0
    BY <1>0, <2>1 DEF SeatRight, Joined, Running
  <2> QED
    BY <1>0, <2>1, <2>2 DEF SeatRight, Joined, Running
<1>2. CASE Await(k) /\ AwaitWait(k)
  BY <1>0, <1>2, SeatStays DEF Await, AwaitWait
<1>3. CASE Await(k) /\ AwaitRoundOpen(k)
  <2> DEFINE c == Chunk(seat[k].id, go.n, go.workers)
  <2>1. c.lo \in 0 .. go.n /\ c.hi \in 0 .. go.n
    <3>1. seat[k].id \in Nat /\ go.n \in Nat /\ go.workers \in Nat
      BY NoOpAndSizes DEF Types, Seats
    <3> QED
      BY <3>1, ChunkNat
  <2>2. /\ pc[k] = "await" /\ pc'[k] = "body" /\ go' = go /\ main' = main
        /\ seat'[k].round = go.round /\ seat'[k].n = go.n /\ seat'[k].op = go.op
        /\ seat'[k].lo = c.lo /\ seat'[k].hi = c.hi
        /\ seat'[k].id = seat[k].id /\ seat'[k].failed = seat[k].failed
        /\ seat[k].round # go.round
    BY <1>3, OpenIs DEF Types
  <2> HIDE DEF c
  <2>3. main = "round" /\ ~seat[k].failed
    BY <1>0, <2>2 DEF SeatRight, Running
  <2>4. k \in Joined'
    BY <2>2 DEF Joined
  <2> QED
    BY <1>0, <2>1, <2>2, <2>3, <2>4 DEF SeatRight, c
<1>4. CASE Await(k) /\ AwaitStop(k)
  <2>1. pc[k] = "await" /\ pc'[k] = "leave" /\ UNCHANGED <<go, main, seat>> /\ go.stop
    BY <1>4 DEF Await, AwaitStop, Goto, Types
  <2> QED
    BY <1>0, <2>1 DEF SeatRight, Joined, Running
<1>5. ASSUME NEW failed \in BOOLEAN, Body(k, failed) PROVE SeatRight(k)'
  <2>1. /\ pc[k] = "body" /\ pc'[k] = "report" /\ UNCHANGED <<go, main>>
        /\ seat'[k].round = seat[k].round /\ seat'[k].lo = seat[k].lo /\ seat'[k].hi = seat[k].hi
        /\ seat'[k].n = seat[k].n /\ seat'[k].id = seat[k].id /\ seat'[k].op = seat[k].op
    BY <1>5, BodyIs DEF Types, Seats
  <2> QED
    BY <1>0, <2>1 DEF SeatRight, Joined, Running
<1>6. CASE Report(k)
  <2>1. /\ pc[k] = "report" /\ pc'[k] = "await" /\ UNCHANGED <<go, main>> /\ ~seat'[k].failed
        /\ seat'[k].round = seat[k].round /\ seat'[k].lo = seat[k].lo /\ seat'[k].hi = seat[k].hi
        /\ seat'[k].n = seat[k].n /\ seat'[k].id = seat[k].id /\ seat'[k].op = seat[k].op
    BY <1>6, ReportIs DEF Types, Seats
  <2> QED
    BY <1>0, <2>1 DEF SeatRight, Joined, Running
<1>7. CASE Leave(k) \/ LastLook(k)
  <2>1. /\ pc[k] \in {"leave", "unlocked"} /\ pc'[k] \in {"unlocked", "gone"}
        /\ UNCHANGED <<go, main, seat>>
    BY <1>7 DEF Leave, LastLook, Goto, Types
  <2> QED
    BY <1>0, <2>1 DEF SeatRight, Joined, Running
<1> QED
  BY <1>1, <1>2, <1>3, <1>4, <1>5, <1>6, <1>7 DEF Worker, Await

LEMMA SeatsNext ==
  ASSUME IInv, [Next]_vars
  PROVE  SeatsRight'
<1> USE DEF IInv
<1> SUFFICES ASSUME NEW j \in Crew PROVE SeatRight(j)'
  BY DEF SeatsRight
<1>0. SeatRight(j) /\ go.round \in Nat /\ seat[j] \in Seats /\ pc[j] \in Places
  BY TskAssumption DEF SeatsRight, Types
<1>1. ASSUME NEW k \in Crew, Worker(k) PROVE SeatRight(j)'
  <2>1. CASE k = j
    BY <1>1, <2>1, OwnSeat
  <2>2. CASE k # j
    BY <1>0, <1>1, <2>2, OthersStay, WorkerFrame, SeatStays
  <2> QED
    BY <2>1, <2>2
<1>2. ASSUME NEW k \in Crew, StartWorker(k) PROVE SeatRight(j)'
  <2>1. CASE k # j
    BY <1>0, <1>2, <2>1, SeatStays DEF StartWorker, Goto, Types
  <2>2. CASE k = j
    <3>1. pc[j] = "none" /\ pc'[j] = "new" /\ UNCHANGED <<go, main, seat>> /\ main = "start"
      BY <1>2, <2>2 DEF StartWorker, Goto, Types
    <3>2. go.round = 0 /\ seat[j].round = 0
      BY <1>0, <3>1 DEF SeatRight, Joined, Phases
    <3> QED
      BY <1>0, <3>1, <3>2 DEF SeatRight, Joined, Running
  <2> QED
    BY <2>1, <2>2
<1>3. CASE Start
  <2>1. /\ main = "start" /\ main' = "idle" /\ UNCHANGED <<seat, pc>> /\ go'.round = go.round
        /\ go'.n = go.n /\ go'.op = go.op /\ go'.stop = go.stop /\ go.round = 0
    BY <1>3 DEF Start, Types, Phases
  <2> QED
    BY <1>0, <2>1 DEF SeatRight, Joined, Running
<1>4. ASSUME NEW n \in Sizes, NEW op \in Ops, For(n, op) PROVE SeatRight(j)'
  <2>1. /\ main = "idle" /\ main' = "round" /\ UNCHANGED <<seat, pc>>
        /\ go'.round = go.round + 1 /\ go'.stop = go.stop
    BY <1>4, OpenedIs DEF For, Open
  <2>2. seat[j].round \in Nat /\ seat[j].round < go'.round
    BY <1>0, <2>1 DEF SeatRight, Seats
  <2> QED
    BY <1>0, <2>1, <2>2 DEF SeatRight, Joined, Running
<1>5. CASE Stop
  <2>1. /\ main \in {"start", "idle"} /\ main' = "stopping" /\ UNCHANGED <<seat, pc>>
        /\ go'.round = go.round /\ go'.n = go.n /\ go'.op = go.op /\ go'.workers = go.workers /\ go'.stop
    BY <1>5 DEF Stop, Halt, Types
  <2> QED
    BY <1>0, <2>1 DEF SeatRight, Joined, Running
<1>6. CASE AwaitRound
  <2>1. UNCHANGED <<seat, pc, go>> /\ main = "round"
    BY <1>6 DEF AwaitRound
  <2>2. CASE main' = "round"
    BY <1>0, <2>1, <2>2, SeatStays
  <2>3. CASE main' # "round"
    <3>1. done.finished >= go.workers
      BY <1>6, <2>1, <2>3 DEF AwaitRound
    <3>2. Running = Ended
      BY <2>1, <3>1, CrewCounts DEF CountsRight, Phases
    <3> QED
      BY <1>0, <2>1, <3>2 DEF SeatRight, Joined, Running, Ended
  <2> QED
    BY <2>2, <2>3
<1>7. CASE AwaitLeft
  <2>1. UNCHANGED <<seat, pc, go>> /\ main = "stopping" /\ main' \in {"stopping", "stopped"}
    BY <1>7 DEF AwaitLeft
  <2> QED
    BY <1>0, <2>1 DEF SeatRight, Joined, Running
<1>8. CASE ForRefused \/ UNCHANGED vars
  BY <1>0, <1>8, SeatStays DEF ForRefused, vars
<1> QED
  BY <1>1, <1>2, <1>3, <1>4, <1>5, <1>6, <1>7, <1>8 DEF Next, Awaits

(* ... and the counters, ... *)
LEMMA OutNext ==
  ASSUME Types, CountsRight, [Next]_vars
  PROVE  done'.left = Cardinality(Out')
<1>0. done \in Dones /\ done.left = Cardinality(Out) /\ Out \in SUBSET Crew
  BY DEF Types, CountsRight, Out
<1>1. ASSUME NEW k \in Crew, Leave(k) PROVE done'.left = Cardinality(Out')
  <2>1. k \in Crew \ Out /\ Out' = Out \cup {k} /\ done'.left = done.left + 1
    BY <1>0, <1>1 DEF Leave, Goto, Types, Out, Dones
  <2> QED
    BY <1>0, <2>1, Added
<1>2. ASSUME NEW k \in Crew, LastLook(k) \/ StartWorker(k) PROVE Out' = Out /\ done' = done
  BY <1>2 DEF LastLook, StartWorker, Goto, Types, Out
<1>3. ASSUME NEW k \in Crew, Join(k) PROVE Out' = Out /\ done' = done
  BY <1>3, JoinIs DEF Types, Out
<1>4. ASSUME NEW k \in Crew, Await(k) PROVE Out' = Out /\ done' = done
  BY <1>4 DEF Await, AwaitWait, AwaitRoundOpen, AwaitStop, Goto, Types, Out
<1>5. ASSUME NEW k \in Crew, NEW failed \in BOOLEAN, Body(k, failed) PROVE Out' = Out /\ done' = done
  BY <1>5, BodyIs DEF Types, Out
<1>6. ASSUME NEW k \in Crew, Report(k) PROVE Out' = Out /\ done'.left = done.left
  BY <1>6, ReportIs, CountedIs DEF Types, Out
<1>7. CASE Start \/ ForRefused \/ Stop \/ AwaitLeft \/ UNCHANGED vars
  BY <1>0, <1>7 DEF Start, ForRefused, Stop, AwaitLeft, vars, Out
<1>8. ASSUME NEW n \in Sizes, NEW op \in Ops, For(n, op) PROVE Out' = Out /\ done' = done
  BY <1>8 DEF For, Out
<1>9. CASE AwaitRound
  BY <1>0, <1>9, ClearedIs DEF AwaitRound, Out
<1> QED
  BY <1>0, <1>1, <1>2, <1>3, <1>4, <1>5, <1>6, <1>7, <1>8, <1>9 DEF Next, Worker, Awaits

(* Who has ended the round, as it goes. *)
LEMMA EndedNext ==
  ASSUME IInv, NEW k \in Crew, Worker(k), main = "round"
  PROVE  /\ Report(k) => k \in Crew \ Ended /\ Ended' = Ended \cup {k}
         /\ ~Report(k) => Ended' = Ended
<1> USE DEF IInv
<1>0. SeatRight(k) /\ go.round \in Nat \ {0} /\ ~go.stop /\ go'.round = go.round
  BY TskAssumption, WorkerFrame DEF SeatsRight, Types, Phases
<1>1. \A j \in Crew \ {k} : pc'[j] = pc[j] /\ seat'[j] = seat[j]
  BY OthersStay
<1>2. \A j \in Crew \ {k} : j \in Ended' <=> j \in Ended
  BY <1>0, <1>1 DEF Ended
<1>3. CASE Report(k)
  <2>1. k \notin Ended /\ k \in Ended'
    BY <1>0, <1>3, ReportIs DEF Ended, Types, Seats, SeatRight
  <2>2. Ended \subseteq Crew /\ Ended' \subseteq Crew
    BY DEF Ended
  <2>3. ASSUME NEW j \in Crew PROVE j \in Ended' <=> j \in Ended \cup {k}
    BY <1>2, <2>1
  <2> QED
    BY <1>3, <2>1, <2>2, <2>3
<1>4. CASE ~Report(k)
  <2>1. k \in Ended' <=> k \in Ended
    <3>1. CASE Join(k)
      <4>1. pc[k] = "new" /\ seat'[k].round = 0
        BY <3>1, JoinIs DEF Types, NewSeat
      <4> QED
        BY <1>0, <4>1 DEF Ended
    <3>2. CASE Await(k) /\ AwaitWait(k)
      BY <1>0, <3>2 DEF Await, AwaitWait, Ended
    <3>3. CASE Await(k) /\ AwaitRoundOpen(k)
      <4>1. pc'[k] = "body" /\ seat[k].round # go.round
        BY <3>3, OpenIs DEF Types
      <4> QED
        BY <4>1 DEF Ended
    <3>4. ~(Await(k) /\ AwaitStop(k))
      BY <1>0 DEF AwaitStop
    <3>5. ASSUME NEW failed \in BOOLEAN, Body(k, failed) PROVE k \in Ended' <=> k \in Ended
      <4>1. pc[k] = "body" /\ pc'[k] = "report"
        BY <3>5, BodyIs DEF Types
      <4> QED
        BY <4>1 DEF Ended
    <3>6. ~Leave(k) /\ ~LastLook(k)
      BY <1>0 DEF Leave, LastLook, SeatRight
    <3> QED
      BY <1>4, <3>1, <3>2, <3>3, <3>4, <3>5, <3>6 DEF Worker, Await
  <2>2. Ended \subseteq Crew /\ Ended' \subseteq Crew
    BY DEF Ended
  <2>3. ASSUME NEW j \in Crew PROVE j \in Ended' <=> j \in Ended
    BY <1>2, <2>1
  <2> QED
    BY <1>4, <2>2, <2>3
<1> QED
  BY <1>3, <1>4

LEMMA FinishedNext ==
  ASSUME IInv, [Next]_vars
  PROVE  /\ done'.finished = IF main' = "round" THEN Cardinality(Ended') ELSE 0
         /\ done'.failed <= done'.finished
<1> USE DEF IInv
<1>0. /\ done \in Dones /\ done.failed <= done.finished /\ Ended \in SUBSET Crew
      /\ done.finished = IF main = "round" THEN Cardinality(Ended) ELSE 0
  BY DEF Types, CountsRight, Ended
<1> DEFINE Right == /\ done'.finished = IF main' = "round" THEN Cardinality(Ended') ELSE 0
                    /\ done'.failed <= done'.finished
<1>1. ASSUME NEW k \in Crew, Worker(k), Report(k) PROVE Right
  <2>1. main = "round" /\ main' = main
    BY <1>1, ReportIs DEF SeatsRight, SeatRight
  <2>2. /\ done'.finished = done.finished + 1
        /\ done'.failed \in {done.failed, done.failed + 1}
    BY <1>1, ReportIs, CountedIs
  <2>3. k \in Crew \ Ended /\ Ended' = Ended \cup {k}
    BY <1>1, <2>1, EndedNext
  <2>4. Cardinality(Ended') = Cardinality(Ended) + 1
    BY <1>0, <2>3, Added
  <2> QED
    BY <1>0, <2>1, <2>2, <2>4 DEF Dones
<1>2. ASSUME NEW k \in Crew, Worker(k), ~Report(k) PROVE Right
  <2>1. done'.finished = done.finished /\ done'.failed = done.failed /\ main' = main
    <3>1. UNCHANGED done \/ Leave(k)
      BY <1>2, JoinIs, BodyIs DEF Worker, Await, LastLook
    <3>2. Leave(k) => done'.finished = done.finished /\ done'.failed = done.failed
      BY <1>0 DEF Leave, Dones
    <3> QED
      BY <1>2, <3>1, <3>2, WorkerFrame
  <2>2. main = "round" => Ended' = Ended
    BY <1>2, EndedNext
  <2> QED
    BY <1>0, <2>1, <2>2
<1>3. ASSUME NEW k \in Crew, StartWorker(k) PROVE Right
  BY <1>0, <1>3 DEF StartWorker
<1>4. CASE Start \/ Stop \/ ForRefused \/ AwaitLeft
  BY <1>0, <1>4 DEF Start, Stop, ForRefused, AwaitLeft
<1>5. ASSUME NEW n \in Sizes, NEW op \in Ops, For(n, op) PROVE Right
  <2>1. main = "idle" /\ UNCHANGED <<seat, pc, done>> /\ go'.round = go.round + 1
    BY <1>5, OpenedIs DEF For, Open
  <2>2. ASSUME NEW j \in Crew PROVE seat[j].round # go'.round
    <3>1. seat[j].round \in Nat /\ go.round \in Nat /\ seat[j].round <= go.round
      BY TskAssumption DEF Types, Seats, SeatsRight, SeatRight
    <3> QED
      BY <2>1, <3>1
  <2>3. Ended' = {}
    BY <2>1, <2>2 DEF Ended
  <2> QED
    BY <1>0, <2>1, <2>3, FS_EmptySet
<1>6. CASE AwaitRound
  <2>1. CASE main' = "round"
    BY <1>0, <1>6, <2>1 DEF AwaitRound, Ended
  <2>2. CASE main' # "round"
    BY <1>0, <1>6, <2>2, ClearedIs DEF AwaitRound
  <2> QED
    BY <2>1, <2>2
<1>7. CASE UNCHANGED vars
  BY <1>0, <1>7 DEF vars, Ended
<1> QED
  BY <1>1, <1>2, <1>3, <1>4, <1>5, <1>6, <1>7 DEF Next, Awaits

(* ... and what was run.  Chunks of one round do not meet: the numbers of  *)
(* their workers differ, and are below the number of workers.              *)
LEMMA InCrew ==
  ASSUME IInv, main = "round", NEW k \in Joined, seat[k].round = go.round
  PROVE  /\ go.n \in Nat /\ go.workers \in Nat \ {0} /\ seat[k].id \in 0 .. go.workers - 1
         /\ seat[k].lo = Chunk(seat[k].id, go.n, go.workers).lo
         /\ seat[k].hi = Chunk(seat[k].id, go.n, go.workers).hi
<1> USE DEF IInv
<1>1. go.n \in Nat /\ go.workers \in Nat \ {0} /\ go.workers = Cardinality(Running)
  BY NoOpAndSizes DEF Types, Phases
<1>2. Joined \in SUBSET Running /\ Running \in SUBSET Crew
  BY DEF Joined, Running
<1>3. Cardinality(Joined) <= Cardinality(Running)
  BY <1>2, SubsetOfCrew, FS_Subset
<1>4. seat[k].id \in Nat /\ seat[k].id < go.ids /\ go.ids = Cardinality(Joined) /\ go.ids \in Nat
  BY <1>2 DEF Types, Seats, IdsRight
<1>5. SeatRight(k) /\ go.round > 0
  BY <1>2 DEF SeatsRight, Phases
<1> QED
  BY <1>1, <1>3, <1>4, <1>5 DEF SeatRight

LEMMA ChunksApart ==
  ASSUME IInv, main = "round", NEW j \in Joined, NEW k \in Joined, j # k,
         seat[j].round = go.round, seat[k].round = go.round, NEW i \in Nat
  PROVE  ~(InChunk(j, i) /\ InChunk(k, i))
<1>1. /\ go.n \in Nat /\ go.workers \in Nat \ {0}
      /\ seat[j].id \in 0 .. go.workers - 1 /\ seat[k].id \in 0 .. go.workers - 1
      /\ seat[j].lo = Chunk(seat[j].id, go.n, go.workers).lo
      /\ seat[j].hi = Chunk(seat[j].id, go.n, go.workers).hi
      /\ seat[k].lo = Chunk(seat[k].id, go.n, go.workers).lo
      /\ seat[k].hi = Chunk(seat[k].id, go.n, go.workers).hi
  BY InCrew
<1>2. seat[j].id # seat[k].id
  BY DEF IInv, IdsRight
<1>3. /\ seat[j].lo \in Nat /\ seat[j].hi \in Nat /\ seat[k].lo \in Nat /\ seat[k].hi \in Nat
  BY DEF IInv, Types, Seats, Joined
<1>4. CASE seat[j].id < seat[k].id
  <2>1. seat[j].hi <= seat[k].lo
    BY <1>1, <1>4, ChunksDisjoint
  <2> QED
    BY <1>3, <2>1 DEF InChunk
<1>5. CASE seat[k].id < seat[j].id
  <2>1. seat[k].hi <= seat[j].lo
    BY <1>1, <1>5, ChunksDisjoint
  <2> QED
    BY <1>3, <2>1 DEF InChunk
<1> QED
  BY <1>1, <1>2, <1>4, <1>5

LEMMA RanIs ==
  ASSUME IInv, main = "round", NEW k \in Crew, Ran(k) \/ pc[k] = "body"
  PROVE  k \in Joined /\ seat[k].round = go.round
BY DEF IInv, SeatsRight, SeatRight, Ran, Ended, Joined

LEMMA RanNext ==
  ASSUME IInv, NEW k \in Crew, Worker(k), main = "round",
         \A failed \in BOOLEAN : ~Body(k, failed), NEW j \in Crew
  PROVE  /\ Ran(j)' <=> Ran(j)
         /\ Ran(j) => seat'[j].lo = seat[j].lo /\ seat'[j].hi = seat[j].hi
<1> USE DEF IInv
<1>0. SeatRight(k) /\ ~go.stop /\ Ended \subseteq Crew
  BY DEF SeatsRight, Phases, Ended
<1>1. CASE j # k
  <2>1. pc'[j] = pc[j] /\ seat'[j] = seat[j]
    BY <1>1, OthersStay
  <2>2. j \in Ended' <=> j \in Ended
    BY <1>1, EndedNext
  <2> QED
    BY <2>1, <2>2 DEF Ran
<1>2. CASE j = k /\ Report(k)
  <2>1. /\ pc[k] = "report" /\ k \in Ended'
        /\ seat'[k].lo = seat[k].lo /\ seat'[k].hi = seat[k].hi
    BY <1>2, EndedNext, ReportIs DEF Types, Seats
  <2> QED
    BY <1>2, <2>1 DEF Ran
<1>3. CASE j = k /\ ~Report(k)
  <2>1. k \in Ended' <=> k \in Ended
    BY <1>3, EndedNext
  <2>2. pc[k] # "report" /\ pc'[k] # "report" /\ (k \in Ended => seat'[k] = seat[k])
    <3>1. CASE Join(k)
      BY <3>1, JoinIs DEF Ended, Types
    <3>2. CASE Await(k) /\ AwaitWait(k)
      BY <3>2 DEF Await, AwaitWait
    <3>3. CASE Await(k) /\ AwaitRoundOpen(k)
      BY <3>3, OpenIs DEF Ended, Types
    <3>4. ~(Await(k) /\ AwaitStop(k)) /\ ~Leave(k) /\ ~LastLook(k)
      BY <1>0 DEF AwaitStop, Leave, LastLook, SeatRight
    <3> QED
      BY <1>3, <3>1, <3>2, <3>3, <3>4 DEF Worker, Await
  <2> QED
    BY <1>3, <2>1, <2>2 DEF Ran
<1> QED
  BY <1>1, <1>2, <1>3

LEMMA OpenedFresh ==
  ASSUME IInv, NEW n \in Sizes, NEW op \in Ops, For(n, op), NEW k \in Crew
  PROVE  ~Ran(k)' /\ ~seat'[k].failed /\ done'.failed = 0
<1> USE DEF IInv
<1>1. main = "idle" /\ UNCHANGED <<seat, pc, done>> /\ go'.round = go.round + 1
  BY OpenedIs DEF For, Open
<1>2. /\ seat[k].round \in Nat /\ go.round \in Nat /\ seat[k].round <= go.round
      /\ pc[k] # "report" /\ ~seat[k].failed
  BY <1>1, TskAssumption DEF Types, Seats, SeatsRight, SeatRight
<1>3. done.failed = 0
  BY <1>1 DEF CountsRight, Types, Dones
<1> QED
  BY <1>1, <1>2, <1>3 DEF Ran, Ended

LEMMA DidNext ==
  ASSUME IInv, [Next]_vars
  PROVE  DidRight'
<1> USE DEF IInv
<1>0. Indices \subseteq Nat /\ Indices' = Indices
  BY TskAssumption DEF Indices
<1> SUFFICES ASSUME main' = "round", NEW i \in Indices
             PROVE  did'[i] = IF \E j \in Crew : Ran(j)' /\ InChunk(j, i)' THEN 1 ELSE 0
  BY <1>0 DEF DidRight
<1>1. main = "round" => did[i] = IF \E j \in Crew : Ran(j) /\ InChunk(j, i) THEN 1 ELSE 0
  BY DEF DidRight
<1>2. ASSUME NEW k \in Crew, Worker(k), \A failed \in BOOLEAN : ~Body(k, failed)
      PROVE  did'[i] = IF \E j \in Crew : Ran(j)' /\ InChunk(j, i)' THEN 1 ELSE 0
  <2>1. main = "round" /\ did' = did
    BY <1>2, WorkerFrame, JoinIs, ReportIs DEF Worker, Await, Leave, LastLook
  <2>2. \A j \in Crew : Ran(j)' /\ InChunk(j, i)' <=> Ran(j) /\ InChunk(j, i)
    BY <1>2, <2>1, RanNext DEF InChunk
  <2> QED
    BY <1>1, <2>1, <2>2
<1>3. ASSUME NEW k \in Crew, NEW failed \in BOOLEAN, Body(k, failed)
      PROVE  did'[i] = IF \E j \in Crew : Ran(j)' /\ InChunk(j, i)' THEN 1 ELSE 0
  <2>1. /\ main = "round" /\ pc[k] = "body" /\ pc'[k] = "report" /\ UNCHANGED go
        /\ did'[i] = IF InChunk(k, i) THEN did[i] + 1 ELSE did[i]
        /\ \A j \in Crew : seat'[j].lo = seat[j].lo /\ seat'[j].hi = seat[j].hi
                           /\ seat'[j].round = seat[j].round
        /\ \A j \in Crew \ {k} : pc'[j] = pc[j]
    BY <1>3, BodyIs DEF Types, Seats
  <2>2. \A j \in Crew \ {k} : Ran(j)' /\ InChunk(j, i)' <=> Ran(j) /\ InChunk(j, i)
    BY <2>1 DEF Ran, Ended, InChunk
  <2>3. Ran(k)' /\ ~Ran(k) /\ (InChunk(k, i)' <=> InChunk(k, i))
    BY <2>1 DEF Ran, Ended, InChunk
  <2>4. CASE InChunk(k, i)
    <3>1. ASSUME NEW j \in Crew, Ran(j), InChunk(j, i) PROVE FALSE
      <4>1. /\ j \in Joined /\ seat[j].round = go.round /\ j # k
            /\ k \in Joined /\ seat[k].round = go.round
        BY <2>1, <2>3, <3>1, RanIs
      <4> QED
        BY <1>0, <2>1, <2>4, <3>1, <4>1, ChunksApart
    <3>2. did[i] = 0
      BY <1>1, <2>1, <3>1
    <3> QED
      BY <2>1, <2>3, <2>4, <3>2
  <2>5. CASE ~InChunk(k, i)
    <3>1. (\E j \in Crew : Ran(j)' /\ InChunk(j, i)') <=> \E j \in Crew : Ran(j) /\ InChunk(j, i)
      BY <2>2, <2>3, <2>5
    <3> QED
      BY <1>1, <2>1, <2>5, <3>1
  <2> QED
    BY <2>4, <2>5
<1>4. ASSUME NEW n \in Sizes, NEW op \in Ops, For(n, op)
      PROVE  did'[i] = IF \E j \in Crew : Ran(j)' /\ InChunk(j, i)' THEN 1 ELSE 0
  <2>1. did'[i] = 0
    BY <1>4 DEF For
  <2> QED
    BY <1>4, <2>1, OpenedFresh
<1>5. CASE AwaitRound \/ UNCHANGED vars
  <2>1. UNCHANGED <<seat, pc, go, did, main>>
    BY <1>5 DEF AwaitRound, vars
  <2> QED
    BY <1>1, <2>1 DEF Ran, Ended, InChunk
<1>6. ~(Start \/ Stop \/ AwaitLeft) /\ \A k \in Crew : ~StartWorker(k)
  BY DEF Start, Stop, AwaitLeft, StartWorker
<1>7. CASE ForRefused
  BY <1>7 DEF ForRefused
<1> QED
  BY <1>2, <1>3, <1>4, <1>5, <1>6, <1>7 DEF Next, Awaits

LEMMA FailedNext ==
  ASSUME IInv, [Next]_vars
  PROVE  FailedRight'
<1> USE DEF IInv
<1> DEFINE Right == bad' <=> done'.failed > 0 \/ \E j \in Crew : seat'[j].failed
<1> SUFFICES ASSUME main' = "round" PROVE Right
  BY DEF FailedRight
<1>0. /\ main = "round" => (bad <=> done.failed > 0 \/ \E j \in Crew : seat[j].failed)
      /\ done.failed \in Nat /\ bad \in BOOLEAN
      /\ \A j \in Crew : seat[j].failed => pc[j] = "report"
  BY DEF FailedRight, Types, Dones, SeatsRight, SeatRight
<1>1. ASSUME NEW k \in Crew, NEW failed \in BOOLEAN, Body(k, failed) PROVE Right
  <2>1. /\ main = "round" /\ ~seat[k].failed /\ done' = done /\ bad' = (bad \/ failed)
        /\ seat'[k].failed = failed /\ \A j \in Crew \ {k} : seat'[j] = seat[j]
    BY <1>0, <1>1, BodyIs DEF Types, Seats
  <2> QED
    BY <1>0, <2>1
<1>2. ASSUME NEW k \in Crew, Report(k) PROVE Right
  <2>1. /\ main = "round" /\ bad' = bad /\ ~seat'[k].failed
        /\ \A j \in Crew \ {k} : seat'[j] = seat[j]
        /\ done'.failed = IF seat[k].failed THEN done.failed + 1 ELSE done.failed
    BY <1>2, ReportIs, CountedIs DEF Types, Seats
  <2>2. CASE seat[k].failed
    BY <1>0, <2>1, <2>2
  <2>3. CASE ~seat[k].failed
    BY <1>0, <2>1, <2>3
  <2> QED
    BY <2>2, <2>3
<1>3. ASSUME NEW k \in Crew, Join(k) PROVE Right
  <2>1. /\ main = "round" /\ UNCHANGED <<bad, done>> /\ ~seat[k].failed /\ ~seat'[k].failed
        /\ \A j \in Crew \ {k} : seat'[j] = seat[j]
    BY <1>0, <1>3, JoinIs DEF Types, NewSeat
  <2> QED
    BY <1>0, <2>1
<1>4. ASSUME NEW k \in Crew, Await(k) PROVE Right
  <2>1. /\ main = "round" /\ UNCHANGED <<bad, done>>
        /\ \A j \in Crew : seat'[j].failed = seat[j].failed
    <3>1. CASE AwaitRoundOpen(k)
      BY <1>4, <3>1, OpenIs
    <3> QED
      BY <1>4, <3>1 DEF Await, AwaitWait, AwaitStop
  <2> QED
    BY <1>0, <2>1
<1>5. ASSUME NEW k \in Crew, Leave(k) \/ LastLook(k) PROVE FALSE
  BY <1>5 DEF Leave, LastLook, SeatsRight, SeatRight, Phases
<1>6. ASSUME NEW n \in Sizes, NEW op \in Ops, For(n, op) PROVE Right
  <2>1. ~bad'
    BY <1>6 DEF For
  <2>2. \A j \in Crew : ~seat'[j].failed
    BY <1>6, OpenedFresh
  <2>3. done'.failed = 0
    <3>1. main = "idle" /\ UNCHANGED done
      BY <1>6 DEF For
    <3> QED
      BY <3>1 DEF CountsRight, Types, Dones
  <2> QED
    BY <2>1, <2>2, <2>3
<1>7. CASE AwaitRound \/ ForRefused \/ UNCHANGED vars
  <2>1. UNCHANGED <<seat, done, bad, main>>
    BY <1>7 DEF AwaitRound, ForRefused, vars
  <2> QED
    BY <1>0, <2>1
<1>8. ~(Start \/ Stop \/ AwaitLeft) /\ \A k \in Crew : ~StartWorker(k)
  BY DEF Start, Stop, AwaitLeft, StartWorker
<1> QED
  BY <1>1, <1>2, <1>3, <1>4, <1>5, <1>6, <1>7, <1>8 DEF Next, Worker, Awaits

LEMMA IInvNext == IInv /\ [Next]_vars => IInv'
<1> SUFFICES ASSUME IInv, [Next]_vars PROVE IInv'
  OBVIOUS
<1>1. Types'
  BY TypesNext DEF IInv
<1>2. IdsRight' /\ Phases' /\ SeatsRight' /\ DidRight' /\ FailedRight'
  BY IdsNext, PhasesNext, SeatsNext, DidNext, FailedNext
<1>3. CountsRight'
  BY OutNext, FinishedNext DEF IInv, CountsRight
<1> QED
  BY <1>1, <1>2, <1>3 DEF IInv

LEMMA IInvAlways == Spec => []IInv
BY IInvInit, IInvNext, PTL DEF Spec

-----------------------------------------------------------------------------
(* Every variable has its type: no counter of Go and Done passes the       *)
(* number of workers, and the chunk that Next copies into a Seat is inside *)
(* the loop that For opened, for every n and every number of workers.      *)
THEOREM TypeCorrect == Spec => []TypeOK
<1>1. IInv => TypeOK
  <2> SUFFICES ASSUME IInv PROVE TypeOK
    OBVIOUS
  <2> USE DEF IInv
  <2>1. Cardinality(Crew) \in Nat
    BY SubsetOfCrew
  <2>2. ASSUME NEW S \in SUBSET Crew PROVE Cardinality(S) \in 0 .. Cardinality(Crew)
    BY <2>1, SubsetOfCrew
  <2>3. go.ids \in 0 .. Cardinality(Crew) /\ go.workers \in 0 .. Cardinality(Crew)
    <3>1. Joined \in SUBSET Crew /\ Running \in SUBSET Crew
      BY DEF Joined, Running
    <3> QED
      BY <2>1, <2>2, <3>1 DEF IdsRight, Phases
  <2>4. /\ done.left \in 0 .. Cardinality(Crew) /\ done.finished \in 0 .. Cardinality(Crew)
        /\ done.failed \in 0 .. Cardinality(Crew)
    <3>1. Out \in SUBSET Crew /\ Ended \in SUBSET Crew
      BY DEF Out, Ended
    <3>2. /\ done.left \in 0 .. Cardinality(Crew) /\ done.finished \in 0 .. Cardinality(Crew)
      BY <2>1, <2>2, <3>1 DEF CountsRight
    <3> QED
      BY <2>1, <3>2 DEF CountsRight, Types, Dones
  <2>5. ASSUME NEW k \in Crew PROVE SeatOK(seat[k])
    <3>1. SeatRight(k) /\ seat[k] \in Seats /\ go.round \in Nat
      BY TskAssumption DEF SeatsRight, Types
    <3>2. seat[k].id \in 0 .. Cardinality(Crew)
      <4>1. CASE k \in Joined
        <5>1. seat[k].id \in Nat /\ seat[k].id < go.ids
          BY <3>1, <4>1 DEF IdsRight, Seats
        <5> QED
          BY <2>1, <2>3, <5>1
      <4>2. CASE k \notin Joined
        BY <2>1, <3>1, <4>2 DEF SeatRight
      <4> QED
        BY <4>1, <4>2
    <3>3. seat[k].n \in Nat
      BY <3>1, NoOpAndSizes DEF Seats
    <3> QED
      BY <3>1, <3>2, <3>3 DEF SeatOK, SeatRight, Seats
  <2> QED
    BY <2>3, <2>4, <2>5 DEF TypeOK, Types, Places
<1> QED
  BY <1>1, IInvAlways, PTL

(* A body runs only while For waits for its round, on the round, the n and *)
(* the op that For opened; when Stop has returned, every worker of a crew  *)
(* that started has left its last monitor procedure.                       *)
THEOREM BodiesStayInRound == Spec => []BodiesInRound
<1>1. IInv => BodiesInRound
  <2> SUFFICES ASSUME IInv PROVE BodiesInRound
    OBVIOUS
  <2> USE DEF IInv
  <2>1. ASSUME NEW k \in Crew, pc[k] \in {"body", "report"}
        PROVE  /\ main = "round"
               /\ seat[k].round = go.round /\ seat[k].op = go.op /\ seat[k].n = go.n
    <3>1. SeatRight(k) /\ k \in Joined
      BY <2>1 DEF SeatsRight, Joined
    <3>2. main = "round" /\ seat[k].round = go.round /\ seat[k].op = go.op
      BY <2>1, <3>1 DEF SeatRight
    <3>3. go.round > 0
      BY <3>2 DEF Phases
    <3> QED
      BY <3>1, <3>2, <3>3 DEF SeatRight
  <2>2. Stopped => \A k \in Running : pc[k] \in {"unlocked", "gone"}
    BY DEF Phases, Out
  <2> QED
    BY <2>1, <2>2 DEF BodiesInRound
<1> QED
  BY <1>1, IInvAlways, PTL

(* When For returns, every index below n has been run once and no other    *)
(* index has, whatever n and the number of workers; and it raises Failed   *)
(* just when a body of this round failed.                                  *)
THEOREM RoundIsComplete == Spec => RoundComplete
<1>1. ASSUME IInv, [Next]_vars, main = "round", main' = "idle"
      PROVE  /\ \A i \in Indices : did[i] = IF i < go.n THEN 1 ELSE 0
             /\ answer' = "Failed" <=> bad
  <2> USE <1>1 DEF IInv
  <2>1. AwaitRound /\ done.finished >= go.workers
    <3>1. ASSUME NEW k \in Crew, Worker(k) PROVE FALSE
      BY <3>1, WorkerFrame
    <3>2. AwaitRound
      BY <3>1 DEF Next, StartWorker, For, Start, ForRefused, Stop, Awaits, AwaitLeft, vars
    <3> QED
      BY <3>2 DEF AwaitRound
  <2>2. Running = Ended
    BY <2>1, CrewCounts DEF CountsRight, Phases
  <2>3. Joined = Running
    BY <2>2 DEF Joined, Running, Ended
  <2>4. ASSUME NEW i \in Indices, i < go.n PROVE \E k \in Crew : Ran(k) /\ InChunk(k, i)
    <3>1. i \in 0 .. go.n - 1 /\ go.n \in Nat /\ go.workers \in Nat \ {0}
      <4>1. i \in Nat
        BY TskAssumption DEF Indices
      <4>2. go.n \in Nat /\ go.workers \in Nat \ {0}
        BY NoOpAndSizes DEF Types, Phases
      <4> QED
        BY <2>4, <4>1, <4>2
    <3>2. PICK w \in 0 .. go.workers - 1 :
            Chunk(w, go.n, go.workers).lo <= i /\ i < Chunk(w, go.n, go.workers).hi
      BY <3>1, ChunksCover
    <3>3. go.ids = go.workers
      BY <2>3 DEF IdsRight, Phases
    <3>4. PICK k \in Joined : seat[k].id = w
      BY <3>3 DEF IdsRight
    <3>5. k \in Ended /\ k \in Crew /\ seat[k].round = go.round
      BY <2>2, <2>3 DEF Ended
    <3> QED
      BY <3>2, <3>4, <3>5, InCrew DEF Ran, InChunk
  <2>5. ASSUME NEW i \in Indices, NEW k \in Crew, Ran(k), InChunk(k, i) PROVE i < go.n
    <3>1. k \in Joined /\ seat[k].round = go.round
      BY <2>5, RanIs
    <3>2. /\ go.n \in Nat /\ go.workers \in Nat \ {0} /\ seat[k].id \in 0 .. go.workers - 1
          /\ seat[k].hi = Chunk(seat[k].id, go.n, go.workers).hi
      BY <3>1, InCrew
    <3>3. seat[k].hi \in 0 .. go.n
      BY <3>2, ChunkInside
    <3>4. i \in Nat
      BY TskAssumption DEF Indices
    <3> QED
      BY <2>5, <3>2, <3>3, <3>4 DEF InChunk
  <2>6. \A i \in Indices : did[i] = IF i < go.n THEN 1 ELSE 0
    <3>1. \A i \in Indices : (i < go.n) <=> \E k \in Crew : Ran(k) /\ InChunk(k, i)
      BY <2>4, <2>5
    <3> QED
      BY <3>1 DEF DidRight
  <2>7. answer' = "Failed" <=> bad
    <3>1. ASSUME NEW k \in Crew PROVE ~seat[k].failed
      BY <2>2 DEF Ended, Running, SeatsRight, SeatRight, Types, Places
    <3>2. bad <=> done.failed > 0
      BY <3>1 DEF FailedRight
    <3>3. answer' = IF done.failed > 0 THEN "Failed" ELSE "ok"
      BY <2>1 DEF AwaitRound, Types, Phases
    <3> QED
      BY <3>2, <3>3
  <2> QED
    BY <2>6, <2>7
<1> QED
  BY <1>1, IInvAlways, PTL DEF Spec, RoundComplete
=============================================================================
