----------------------------- MODULE ChanProofs -----------------------------
(***************************************************************************)
(* The channel of module Chan, for any ring, callers and values: its       *)
(* types, no lost wake, the cap, and that it implements the queue of       *)
(* ChanSpec.                                                               *)
(***************************************************************************)
EXTENDS Chan, SequenceTheorems, TLAPS

(* The ring arithmetic: an index moved on by less than MaxCap. *)
LEMMA ModSmall ==
  ASSUME NEW M \in Nat \ {0}, NEW a \in 0 .. M - 1
  PROVE  a % M = a
  BY SMT

LEMMA ModWrap ==
  ASSUME NEW M \in Nat \ {0}, NEW a \in M .. 2 * M - 1
  PROVE  a % M = a - M
  BY SMT

(* The slot i places on from slot h. *)
On(h, i) == (h + i) % MaxCap

LEMMA OnIs ==
  ASSUME NEW h \in Slots, NEW i \in Slots
  PROVE  /\ On(h, i) = IF h + i < MaxCap THEN h + i ELSE h + i - MaxCap
         /\ On(h, i) \in Slots
<1>1. CASE h + i < MaxCap
  <2>1. On(h, i) = h + i
    BY <1>1, ChanAssumption, ModSmall DEF On, Slots
  <2> QED
    BY <1>1, <2>1, ChanAssumption DEF Slots
<1>2. CASE ~(h + i < MaxCap)
  <2>1. On(h, i) = h + i - MaxCap
    BY <1>2, ChanAssumption, ModWrap DEF On, Slots
  <2> QED
    BY <1>2, <2>1, ChanAssumption DEF Slots
<1> QED
  BY <1>1, <1>2

LEMMA OnOne ==
  ASSUME NEW h \in Slots
  PROVE  On(h, 1) \in Slots /\ On(h, 1) = IF h + 1 < MaxCap THEN h + 1 ELSE 0
<1>1. CASE MaxCap = 1
  <2>1. h = 0 /\ (h + 1) % MaxCap = 0
    BY <1>1, ChanAssumption, ModWrap DEF Slots
  <2> QED
    BY <1>1, <2>1 DEF On, Slots
<1>2. CASE MaxCap # 1
  <2>1. 1 \in Slots
    BY <1>2, ChanAssumption DEF Slots
  <2> QED
    BY <2>1, OnIs, ChanAssumption DEF Slots
<1> QED
  BY <1>1, <1>2

(* Different distances from one slot are different slots. *)
LEMMA OnDiffer ==
  ASSUME NEW h \in Slots, NEW i \in Slots, NEW j \in Slots, i # j
  PROVE  On(h, i) # On(h, j)
<1>1. MaxCap \in Nat /\ h \in 0 .. MaxCap - 1 /\ i \in 0 .. MaxCap - 1 /\ j \in 0 .. MaxCap - 1
  BY ChanAssumption DEF Slots
<1>2. On(h, i) = IF h + i < MaxCap THEN h + i ELSE h + i - MaxCap
  BY OnIs
<1>3. On(h, j) = IF h + j < MaxCap THEN h + j ELSE h + j - MaxCap
  BY OnIs
<1> QED
  BY <1>1, <1>2, <1>3

LEMMA RoomIs == TypeOK => Room \in 1..MaxCap
  BY ChanAssumption DEF TypeOK, Room

-----------------------------------------------------------------------------
(* The last conjunct: who waits has a room to wait for. *)
Ind ==
  /\ TypeOK /\ NoLostWake
  /\ \A p \in Procs : Sending(p) => at[p].v \in Vals /\ at[p].room \in 1..MaxCap

LEMMA IndInit == Init => Ind
<1> SUFFICES ASSUME Init PROVE Ind
  OBVIOUS
<1>1. TypeOK
  <2>1. Out \in Calls /\ 0 \in Slots /\ 0 \in 0..MaxCap
    BY ChanAssumption DEF Calls, Out, Slots
  <2> QED
    BY <2>1, ChanAssumption DEF Init, TypeOK
<1>2. ASSUME NEW p \in Procs PROVE ~Sending(p)
  BY <1>2 DEF Init, Sending, Out
<1> QED
  BY <1>1, <1>2 DEF Init, Ind, NoLostWake

(* The kinds of step: refuse, block, push, pull, set the cap, close.       *)
LEMMA RefuseInd ==
  ASSUME Ind, NEW p \in Procs, p \notin waiters, NEW what, Refuse(p, what)
  PROVE  Ind'
<1>1. /\ at' = [at EXCEPT ![p] = Out]
      /\ UNCHANGED <<ring, head, n, cap, closed, waiters>>
  BY DEF Refuse, Answer
<1>2. at \in [Procs -> Calls] /\ Out \in Calls
  BY ChanAssumption DEF Ind, TypeOK, Calls, Out
<1>3. TypeOK'
  BY <1>1, <1>2 DEF Ind, TypeOK
<1>4. \A q \in Procs : q # p => at'[q] = at[q]
  BY <1>1, <1>2
<1>5. at'[p] = Out
  BY <1>1, <1>2
<1>6. NoLostWake'
  BY <1>1, <1>4 DEF Ind, TypeOK, NoLostWake, Sending, Receiving, CanGoOn
<1>7. \A q \in Procs : Sending(q)' => at'[q].v \in Vals /\ at'[q].room \in 1..MaxCap
  BY <1>4, <1>5 DEF Ind, Sending, Out
<1> QED
  BY <1>3, <1>6, <1>7 DEF Ind

LEMMA BlockInd ==
  ASSUME Ind, NEW p \in Procs, NEW call \in Calls, Block(p, call), ~closed,
         \/ call.op = "send" /\ call.v \in Vals /\ call.room \in 1..MaxCap /\ n >= call.room
         \/ call.op = "receive" /\ n = 0
  PROVE  Ind'
<1>1. /\ at' = [at EXCEPT ![p] = call] /\ waiters' = waiters \cup {p}
      /\ UNCHANGED <<ring, head, n, cap, closed>>
  BY DEF Block
<1>2. at \in [Procs -> Calls] /\ n \in Nat
  BY DEF Ind, TypeOK
<1>3. TypeOK'
  BY <1>1, <1>2 DEF Ind, TypeOK
<1>4. \A q \in Procs : q # p => at'[q] = at[q]
  BY <1>1, <1>2
<1>5. at'[p] = call
  BY <1>1, <1>2
<1>6. ASSUME NEW q \in waiters', q # p
      PROVE  (Sending(q)' \/ Receiving(q)') /\ ~CanGoOn(q)'
  BY <1>1, <1>4, <1>6 DEF Ind, TypeOK, NoLostWake, Sending, Receiving, CanGoOn
<1>7. (Sending(p)' \/ Receiving(p)') /\ ~CanGoOn(p)'
  <2>1. CASE call.op = "send" /\ call.room \in 1..MaxCap /\ n >= call.room
    BY <2>1, <1>1, <1>2, <1>5 DEF Sending, Receiving, CanGoOn
  <2>2. CASE call.op = "receive" /\ n = 0
    BY <2>2, <1>1, <1>5 DEF Sending, Receiving, CanGoOn
  <2> QED
    BY <2>1, <2>2
<1>8. NoLostWake'
  BY <1>6, <1>7 DEF NoLostWake
<1>9. \A q \in Procs : Sending(q)' => at'[q].v \in Vals /\ at'[q].room \in 1..MaxCap
  BY <1>4, <1>5 DEF Ind, Sending
<1> QED
  BY <1>3, <1>8, <1>9 DEF Ind

(* A step that ends p's call and releases every waiter. *)
LEMMA SignalInd ==
  ASSUME Ind, NEW p \in Procs, at' = [at EXCEPT ![p] = Out], waiters' = {},
         ring' \in [Slots -> Vals], head' \in Slots, n' \in 0..MaxCap,
         cap' \in 0..MaxCap, closed' \in BOOLEAN
  PROVE  Ind'
<1>1. at \in [Procs -> Calls] /\ Out \in Calls
  BY ChanAssumption DEF Ind, TypeOK, Calls, Out
<1>2. TypeOK'
  BY <1>1 DEF TypeOK
<1>3. \A q \in Procs : q # p => at'[q] = at[q]
  BY <1>1
<1>4. at'[p] = Out
  BY <1>1
<1>5. \A q \in Procs : Sending(q)' => at'[q].v \in Vals /\ at'[q].room \in 1..MaxCap
  BY <1>3, <1>4 DEF Ind, Sending, Out
<1> QED
  BY <1>2, <1>5 DEF Ind, NoLostWake

LEMMA PushInd ==
  ASSUME Ind, NEW p \in Procs, NEW v \in Vals, n < MaxCap, Push(p, v)
  PROVE  Ind'
<1>1. n + 1 \in 0..MaxCap /\ n \in Slots /\ head \in Slots
  BY ChanAssumption DEF Ind, TypeOK, Slots
<1>2. [ring EXCEPT ![Slot(n)] = v] \in [Slots -> Vals]
  BY <1>1, OnIs DEF Ind, TypeOK, Slot, On
<1> QED
  BY <1>1, <1>2, SignalInd DEF Push, SIGNAL, Answer, Ind, TypeOK

LEMMA PullInd ==
  ASSUME Ind, NEW p \in Procs, n # 0, Pull(p)
  PROVE  Ind'
<1>1. n - 1 \in 0..MaxCap
  BY ChanAssumption DEF Ind, TypeOK
<1>2. Slot(1) \in Slots
  BY OnOne DEF Ind, TypeOK, Slot, On
<1> QED
  BY <1>1, <1>2, SignalInd DEF Pull, Moved, SIGNAL, Answer, Ind, TypeOK

(* A process that makes a call is not asleep. *)
LEMMA AwakeOutside ==
  ASSUME Ind, NEW p \in Procs, at[p] = Out
  PROVE  p \notin waiters
  BY DEF Ind, NoLostWake, Sending, Receiving, Out

LEMMA SendFromInd ==
  ASSUME Ind, NEW p \in Procs, p \notin waiters, NEW v \in Vals, NEW room \in 1..MaxCap,
         SendFrom(p, v, room)
  PROVE  Ind'
<1>1. CASE n >= room /\ ~closed /\ Block(p, [op |-> "send", v |-> v, room |-> room])
  <2> DEFINE call == [op |-> "send", v |-> v, room |-> room]
  <2>1. call \in Calls /\ call.op = "send" /\ call.v = v /\ call.room = room
    BY DEF Calls
  <2>2. Block(p, call)
    BY <1>1
  <2> HIDE DEF call
  <2> QED
    BY <1>1, <2>1, <2>2, BlockInd
<1>2. CASE closed /\ Refuse(p, "Closed")
  BY <1>2, RefuseInd
<1>3. CASE n < room /\ ~closed /\ Push(p, v)
  <2>1. n < MaxCap
    BY <1>3, ChanAssumption DEF Ind, TypeOK
  <2> QED
    BY <1>3, <2>1, PushInd
<1> QED
  BY <1>1, <1>2, <1>3 DEF SendFrom

LEMMA ReceiveFromInd ==
  ASSUME Ind, NEW p \in Procs, p \notin waiters, ReceiveFrom(p)
  PROVE  Ind'
<1>1. CASE n = 0 /\ ~closed /\ Block(p, [Out EXCEPT !.op = "receive"])
  <2> DEFINE call == [Out EXCEPT !.op = "receive"]
  <2>1. call \in Calls /\ call.op = "receive"
    BY ChanAssumption DEF Calls, Out
  <2> HIDE DEF call
  <2> QED
    BY <1>1, <2>1, BlockInd DEF call
<1>2. CASE n = 0 /\ closed /\ Refuse(p, "ended")
  BY <1>2, RefuseInd
<1>3. CASE n # 0 /\ Pull(p)
  BY <1>3, PullInd
<1> QED
  BY <1>1, <1>2, <1>3 DEF ReceiveFrom

LEMMA IndNext == Ind /\ [Next]_vars => Ind'
<1> SUFFICES ASSUME Ind, [Next]_vars PROVE Ind'
  OBVIOUS
<1>1. ASSUME NEW p \in Procs, NEW v \in Vals, Send(p, v) PROVE Ind'
  <2>1. Room \in 1..MaxCap
    BY RoomIs DEF Ind
  <2> QED
    BY <1>1, <2>1, AwakeOutside, SendFromInd DEF Send
<1>2. ASSUME NEW p \in Procs, SendAgain(p) PROVE Ind'
  <2>1. at[p].v \in Vals /\ at[p].room \in 1..MaxCap
    BY <1>2 DEF Ind, SendAgain, Sending
  <2> QED
    BY <1>2, <2>1, SendFromInd DEF SendAgain
<1>3. ASSUME NEW p \in Procs, Receive(p) PROVE Ind'
  BY <1>3, AwakeOutside, ReceiveFromInd DEF Receive
<1>4. ASSUME NEW p \in Procs, ReceiveAgain(p) PROVE Ind'
  BY <1>4, ReceiveFromInd DEF ReceiveAgain
<1>5. ASSUME NEW p \in Procs, NEW v \in Vals, TrySend(p, v) PROVE Ind'
  <2>1. p \notin waiters /\ Room \in 1..MaxCap
    BY <1>5, AwakeOutside, RoomIs DEF TrySend, Ind
  <2>2. CASE \E what : Refuse(p, what)
    BY <2>1, <2>2, RefuseInd
  <2>3. CASE n < Room /\ Push(p, v)
    <3>1. n < MaxCap
      BY <2>1, <2>3, ChanAssumption DEF Ind, TypeOK
    <3> QED
      BY <2>3, <3>1, PushInd
  <2> QED
    BY <1>5, <2>2, <2>3 DEF TrySend
<1>6. ASSUME NEW p \in Procs, TryReceive(p) PROVE Ind'
  <2>1. p \notin waiters
    BY <1>6, AwakeOutside DEF TryReceive
  <2> QED
    BY <1>6, <2>1, RefuseInd, PullInd DEF TryReceive
<1>7. ASSUME NEW p \in Procs, NEW room \in 0 .. MaxCap + 1, SetCap(p, room) PROVE Ind'
  <2>1. p \notin waiters
    BY <1>7, AwakeOutside DEF SetCap
  <2>2. CASE Refuse(p, "ValueRange")
    BY <2>1, <2>2, RefuseInd
  <2>3. CASE room \in 1..MaxCap /\ cap' = room /\ head' = 0 /\ Answer(p, "set", None)
             /\ UNCHANGED <<ring, n, closed, waiters>>
    <3>1. at' = [at EXCEPT ![p] = Out] /\ UNCHANGED <<ring, n, closed, waiters>>
      BY <2>3 DEF Answer
    <3>2. at \in [Procs -> Calls] /\ Out \in Calls
      BY ChanAssumption DEF Ind, TypeOK, Calls, Out
    <3>3. TypeOK'
      BY <2>3, <3>1, <3>2, ChanAssumption DEF Ind, TypeOK, Slots
    <3>4. \A q \in Procs : q # p => at'[q] = at[q]
      BY <3>1, <3>2
    <3>5. at'[p] = Out
      BY <3>1, <3>2
    <3>6. NoLostWake'
      BY <2>1, <3>1, <3>4 DEF Ind, TypeOK, NoLostWake, Sending, Receiving, CanGoOn
    <3>7. \A q \in Procs : Sending(q)' => at'[q].v \in Vals /\ at'[q].room \in 1..MaxCap
      BY <3>4, <3>5 DEF Ind, Sending, Out
    <3> QED
      BY <3>3, <3>6, <3>7 DEF Ind
  <2> QED
    BY <1>7, <2>2, <2>3 DEF SetCap
<1>8. ASSUME NEW p \in Procs, Close(p) PROVE Ind'
  BY <1>8, SignalInd DEF Close, Shut, SIGNAL, Answer, Ind, TypeOK
<1>9. CASE UNCHANGED vars
  BY <1>9 DEF vars, Ind, TypeOK, NoLostWake, Sending, Receiving, CanGoOn
<1> QED
  BY <1>1, <1>2, <1>3, <1>4, <1>5, <1>6, <1>7, <1>8, <1>9 DEF Next, Call, Again

LEMMA IndAlways == Spec => []Ind
  BY IndInit, IndNext, PTL DEF Spec

(* The fields keep their ranges: n never passes MaxCap, head stays a slot. *)
THEOREM TypeCorrect == Spec => []TypeOK
<1>1. Ind => TypeOK
  BY DEF Ind
<1> QED
  BY <1>1, IndAlways, PTL

(* No process sleeps in Send or Receive with something to do.              *)
THEOREM NoWakeIsLost == Spec => []NoLostWake
<1>1. Ind => NoLostWake
  BY DEF Ind
<1> QED
  BY <1>1, IndAlways, PTL

-----------------------------------------------------------------------------
LEMMA CapNext ==
  ASSUME Ind, [Next]_vars, n' > n, n' > Room
  PROVE  \E p \in Procs : Sending(p) /\ n < at[p].room
<1>0. n \in Int /\ Room \in Int
  BY RoomIs DEF Ind, TypeOK
(* Whatever is not a push makes no ring longer. *)
<1>1. \A p \in Procs : ~(\E what : Refuse(p, what)) /\ ~(\E c : Block(p, c)) /\ ~Pull(p)
  BY <1>0 DEF Refuse, Block, Pull, Moved
<1>2. ASSUME NEW p \in Procs, NEW v, Push(p, v), n < Room PROVE FALSE
  BY <1>0, <1>2 DEF Push, Room
<1>3. ASSUME NEW p \in Procs, NEW v \in Vals, Send(p, v) PROVE FALSE
  BY <1>1, <1>2, <1>3 DEF Send, SendFrom
<1>4. ASSUME NEW p \in Procs, SendAgain(p) PROVE Sending(p) /\ n < at[p].room
  BY <1>1, <1>4 DEF SendAgain, SendFrom, Sending
<1>5. ASSUME NEW p \in Procs, Receive(p) \/ ReceiveAgain(p) \/ TryReceive(p) PROVE FALSE
  BY <1>1, <1>5 DEF Receive, ReceiveAgain, TryReceive, ReceiveFrom
<1>6. ASSUME NEW p \in Procs, NEW v \in Vals, TrySend(p, v) PROVE FALSE
  BY <1>1, <1>2, <1>6 DEF TrySend
<1>7. ASSUME NEW p \in Procs, NEW room \in 0 .. MaxCap + 1, SetCap(p, room) PROVE FALSE
  BY <1>0, <1>1, <1>7 DEF SetCap
<1>8. ASSUME NEW p \in Procs, Close(p) PROVE FALSE
  BY <1>0, <1>8 DEF Close, Shut
<1>9. ~UNCHANGED vars
  BY <1>0 DEF vars
<1> QED
  BY <1>3, <1>4, <1>5, <1>6, <1>7, <1>8, <1>9 DEF Next, Call, Again

(* The ring grows past the cap only by a sender that waited with a larger  *)
(* room, read before a SetCap.                                             *)
THEOREM CapKeptHolds == Spec => CapKept
<1>1. Ind /\ [Next]_vars =>
        [n' > n /\ n' > Room => \E p \in Procs : Sending(p) /\ n < at[p].room]_vars
  BY CapNext
<1> QED
  BY <1>1, IndAlways, PTL DEF Spec, CapKept

-----------------------------------------------------------------------------
(* The k values from slot h on, as a sequence. *)
RingSeq(r, h, k) == [i \in 1..k |-> r[On(h, i - 1)]]

LEMMA RingIsSeq ==
  ASSUME NEW r \in [Slots -> Vals], NEW h \in Slots, NEW k \in 0..MaxCap
  PROVE  /\ RingSeq(r, h, k) \in Seq(Vals) /\ Len(RingSeq(r, h, k)) = k
         /\ \A i \in 1..k : RingSeq(r, h, k)[i] = r[On(h, i - 1)]
<1>1. k \in Nat /\ \A i \in 1..k : i - 1 \in Slots
  BY ChanAssumption DEF Slots
<1>2. \A i \in 1..k : r[On(h, i - 1)] \in Vals
  BY <1>1, OnIs
<1>3. RingSeq(r, h, k) \in [1..k -> Vals]
  BY <1>2 DEF RingSeq
<1>4. RingSeq(r, h, k) \in Seq(Vals)
  BY <1>1, <1>3
<1>5. Len(RingSeq(r, h, k)) = k
  BY <1>1, <1>3, <1>4, LenProperties
<1> QED
  BY <1>4, <1>5 DEF RingSeq

LEMMA RingPush ==
  ASSUME NEW r \in [Slots -> Vals], NEW h \in Slots, NEW k \in 0 .. MaxCap - 1, NEW v \in Vals
  PROVE  RingSeq([r EXCEPT ![On(h, k)] = v], h, k + 1) = Append(RingSeq(r, h, k), v)
<1> DEFINE r2 == [r EXCEPT ![On(h, k)] = v]
<1>1. k \in Slots /\ k \in 0..MaxCap /\ k + 1 \in 0..MaxCap /\ k \in Nat
  BY ChanAssumption DEF Slots
<1>2. r2 \in [Slots -> Vals] /\ r2[On(h, k)] = v
  BY <1>1, OnIs
<1>3. \A i \in 1..k : r2[On(h, i - 1)] = r[On(h, i - 1)]
  <2> SUFFICES ASSUME NEW i \in 1..k PROVE r2[On(h, i - 1)] = r[On(h, i - 1)]
    OBVIOUS
  <2>1. i - 1 \in Slots /\ i - 1 # k
    BY <1>1, ChanAssumption DEF Slots
  <2> QED
    BY <1>1, <2>1, OnDiffer, OnIs
<1> HIDE DEF r2
<1>4. /\ RingSeq(r2, h, k + 1) \in Seq(Vals) /\ Len(RingSeq(r2, h, k + 1)) = k + 1
      /\ \A i \in 1 .. k + 1 : RingSeq(r2, h, k + 1)[i] = r2[On(h, i - 1)]
  BY <1>1, <1>2, RingIsSeq
<1>5. /\ RingSeq(r, h, k) \in Seq(Vals) /\ Len(RingSeq(r, h, k)) = k
      /\ \A i \in 1..k : RingSeq(r, h, k)[i] = r[On(h, i - 1)]
  BY <1>1, RingIsSeq
<1>6. /\ Append(RingSeq(r, h, k), v) \in Seq(Vals)
      /\ Len(Append(RingSeq(r, h, k), v)) = k + 1
      /\ \A i \in 1..k : Append(RingSeq(r, h, k), v)[i] = RingSeq(r, h, k)[i]
      /\ Append(RingSeq(r, h, k), v)[k + 1] = v
  BY <1>1, <1>5, AppendProperties
<1>7. RingSeq(r2, h, k + 1)[k + 1] = v
  <2>1. k + 1 \in 1 .. k + 1 /\ (k + 1) - 1 = k
    BY <1>1
  <2> QED
    BY <1>2, <1>4, <2>1
<1>8. \A i \in 1 .. k + 1 : RingSeq(r2, h, k + 1)[i] = Append(RingSeq(r, h, k), v)[i]
  <2> SUFFICES ASSUME NEW i \in 1 .. k + 1
               PROVE  RingSeq(r2, h, k + 1)[i] = Append(RingSeq(r, h, k), v)[i]
    OBVIOUS
  <2>1. CASE i = k + 1
    BY <1>6, <1>7, <2>1
  <2>2. CASE i # k + 1
    <3>1. i \in 1..k
      BY <1>1, <2>2
    <3> QED
      BY <1>3, <1>4, <1>5, <1>6, <3>1
  <2> QED
    BY <2>1, <2>2
<1>9. RingSeq(r2, h, k + 1) = Append(RingSeq(r, h, k), v)
  BY <1>4, <1>6, <1>8, SeqEqual
<1> QED
  BY <1>9 DEF r2

LEMMA RingPull ==
  ASSUME NEW r \in [Slots -> Vals], NEW h \in Slots, NEW k \in 1..MaxCap
  PROVE  /\ RingSeq(r, h, k) # <<>> /\ Head(RingSeq(r, h, k)) = r[h]
         /\ RingSeq(r, On(h, 1), k - 1) = Tail(RingSeq(r, h, k))
<1>1. On(h, 1) \in Slots /\ k \in 0..MaxCap /\ k - 1 \in 0..MaxCap /\ k \in Nat
  BY OnOne, ChanAssumption
<1>2. /\ RingSeq(r, h, k) \in Seq(Vals) /\ Len(RingSeq(r, h, k)) = k
      /\ \A i \in 1..k : RingSeq(r, h, k)[i] = r[On(h, i - 1)]
  BY <1>1, RingIsSeq
<1>3. /\ RingSeq(r, On(h, 1), k - 1) \in Seq(Vals) /\ Len(RingSeq(r, On(h, 1), k - 1)) = k - 1
      /\ \A i \in 1 .. k - 1 : RingSeq(r, On(h, 1), k - 1)[i] = r[On(On(h, 1), i - 1)]
  BY <1>1, RingIsSeq
<1>4. RingSeq(r, h, k) # <<>>
  BY <1>1, <1>2, EmptySeq
<1>5. /\ Head(RingSeq(r, h, k)) = RingSeq(r, h, k)[1]
      /\ Tail(RingSeq(r, h, k)) \in Seq(Vals) /\ Len(Tail(RingSeq(r, h, k))) = k - 1
      /\ \A i \in 1 .. k - 1 : Tail(RingSeq(r, h, k))[i] = RingSeq(r, h, k)[i + 1]
  BY <1>1, <1>2, <1>4, HeadTailProperties
<1>6. On(h, 0) = h
  <2>1. 0 \in Slots
    BY ChanAssumption DEF Slots
  <2> QED
    BY <2>1, OnIs, ChanAssumption DEF Slots
<1>7. Head(RingSeq(r, h, k)) = r[h]
  <2>1. 1 \in 1..k /\ 1 - 1 = 0
    BY <1>1
  <2> QED
    BY <1>2, <1>5, <1>6, <2>1
<1>8. ASSUME NEW i \in 1 .. k - 1
      PROVE  RingSeq(r, On(h, 1), k - 1)[i] = Tail(RingSeq(r, h, k))[i]
  <2>1. i - 1 \in Slots /\ i \in Slots /\ i + 1 \in 1..k /\ (i + 1) - 1 = i
    BY ChanAssumption DEF Slots
  <2>2. On(On(h, 1), i - 1) = On(h, i)
    <3>1. MaxCap \in Nat /\ h \in 0 .. MaxCap - 1 /\ i \in 1 .. MaxCap - 1
      BY <2>1, ChanAssumption DEF Slots
    <3>2. On(h, 1) = IF h + 1 < MaxCap THEN h + 1 ELSE 0
      BY OnOne
    <3>3. On(h, i) = IF h + i < MaxCap THEN h + i ELSE h + i - MaxCap
      BY <2>1, OnIs
    <3>4. On(On(h, 1), i - 1) = IF On(h, 1) + (i - 1) < MaxCap THEN On(h, 1) + (i - 1)
                                ELSE On(h, 1) + (i - 1) - MaxCap
      BY <1>1, <2>1, OnIs
    <3> QED
      BY <3>1, <3>2, <3>3, <3>4
  <2>3. RingSeq(r, On(h, 1), k - 1)[i] = r[On(On(h, 1), i - 1)]
    BY <1>3
  <2>4. Tail(RingSeq(r, h, k))[i] = r[On(h, (i + 1) - 1)]
    BY <1>2, <1>5, <2>1
  <2> QED
    BY <2>1, <2>2, <2>3, <2>4
<1>9. RingSeq(r, On(h, 1), k - 1) = Tail(RingSeq(r, h, k))
  BY <1>3, <1>5, <1>8, SeqEqual
<1> QED
  BY <1>4, <1>7, <1>9

-----------------------------------------------------------------------------
(* The channel, seen as the queue of ChanSpec. *)
Seen == [i \in 1..n |-> ring[Slot(i - 1)]]
QVars == <<Seen, Room, closed, answer>>

LEMMA SeenIs ==
  /\ Seen = RingSeq(ring, head, n)
  /\ Seen' = RingSeq(ring', head', n')
<1>1. Seen = RingSeq(ring, head, n)
  BY DEF Seen, RingSeq, Slot, On
<1>2. Seen' = RingSeq(ring', head', n')
  BY DEF Seen, RingSeq, Slot, On
<1> QED
  BY <1>1, <1>2

LEMMA SeenEmpty ==
  ASSUME TypeOK
  PROVE  /\ Seen \in Seq(Vals) /\ Len(Seen) = n
         /\ n = 0 <=> Seen = <<>>
<1>1. Seen \in Seq(Vals) /\ Len(Seen) = n
  BY SeenIs, RingIsSeq DEF TypeOK
<1> QED
  BY <1>1, EmptySeq DEF TypeOK

(* An answer that changes nothing is the queue's answer. *)
LEMMA QRefuse ==
  ASSUME NEW p, NEW what, Refuse(p, what)
  PROVE  Queue!Refuse(p, what)
<1>1. Seen' = Seen /\ Room' = Room
  BY SeenIs DEF Refuse, Room
<1> QED
  BY <1>1 DEF Refuse, Answer, Queue!Refuse, Queue!Answer, Seen

LEMMA QBlock ==
  ASSUME NEW p, NEW call, Block(p, call)
  PROVE  UNCHANGED QVars
  BY SeenIs DEF Block, QVars, Room

LEMMA QPush ==
  ASSUME TypeOK, NEW p, NEW v \in Vals, n < MaxCap, ~closed, Push(p, v)
  PROVE  Queue!Put(p, v)
<1>1. n \in 0 .. MaxCap - 1
  BY ChanAssumption DEF TypeOK
<1>2. Seen' = Append(Seen, v)
  BY <1>1, SeenIs, RingPush DEF Push, Slot, On, TypeOK
<1>3. Len(Seen) < MaxCap
  BY SeenEmpty
<1> QED
  BY <1>2, <1>3 DEF Push, Answer, Queue!Put, Queue!Answer, Room, Seen

LEMMA QPull ==
  ASSUME TypeOK, NEW p, n # 0, Pull(p)
  PROVE  Queue!Get(p)
<1>1. n \in 1..MaxCap
  BY ChanAssumption DEF TypeOK
<1>2. Seen # <<>> /\ Head(Seen) = ring[head] /\ RingSeq(ring, On(head, 1), n - 1) = Tail(Seen)
  BY <1>1, SeenIs, RingPull DEF TypeOK
<1>3. Seen' = Tail(Seen)
  BY <1>2, SeenIs DEF Pull, Moved, Slot, On
<1> QED
  BY <1>2, <1>3 DEF Pull, Moved, Answer, Queue!Get, Queue!Answer, Room, Seen

LEMMA QSend ==
  ASSUME TypeOK, NEW p \in Procs, NEW v \in Vals, NEW room \in 1..MaxCap, SendFrom(p, v, room)
  PROVE  [Queue!Next]_QVars
<1>1. CASE closed /\ Refuse(p, "Closed")
  BY <1>1, QRefuse DEF Queue!Next, Queue!Closed
<1>2. CASE n < room /\ ~closed /\ Push(p, v)
  <2>1. n < MaxCap
    BY <1>2, ChanAssumption DEF TypeOK
  <2> QED
    BY <1>2, <2>1, QPush DEF Queue!Next
<1> QED
  BY <1>1, <1>2, QBlock DEF SendFrom

LEMMA QReceive ==
  ASSUME TypeOK, NEW p \in Procs, ReceiveFrom(p)
  PROVE  [Queue!Next]_QVars
<1>1. CASE n = 0 /\ closed /\ Refuse(p, "ended")
  BY <1>1, QRefuse, SeenEmpty DEF Queue!Next, Queue!Ended, Seen
<1>2. CASE n # 0 /\ Pull(p)
  BY <1>2, QPull DEF Queue!Next
<1> QED
  BY <1>1, <1>2, QBlock DEF ReceiveFrom

LEMMA QInit == Init => Queue!Init
<1> SUFFICES ASSUME Init PROVE Queue!Init
  OBVIOUS
<1>1. TypeOK /\ n = 0
  BY IndInit DEF Ind, Init
<1>2. Seen = <<>>
  BY <1>1, SeenEmpty
<1> QED
  BY <1>2 DEF Init, Queue!Init, Seen, Room

LEMMA QNext ==
  ASSUME Ind, [Next]_vars
  PROVE  [Queue!Next]_QVars
<1>0. TypeOK /\ Room \in 1..MaxCap
  BY RoomIs DEF Ind
<1>1. ASSUME NEW p \in Procs, NEW v \in Vals, Send(p, v) PROVE [Queue!Next]_QVars
  BY <1>0, <1>1, QSend DEF Send
<1>2. ASSUME NEW p \in Procs, SendAgain(p) PROVE [Queue!Next]_QVars
  <2>1. at[p].v \in Vals /\ at[p].room \in 1..MaxCap
    BY <1>2 DEF Ind, SendAgain, Sending
  <2> QED
    BY <1>0, <1>2, <2>1, QSend DEF SendAgain
<1>3. ASSUME NEW p \in Procs, Receive(p) \/ ReceiveAgain(p) PROVE [Queue!Next]_QVars
  BY <1>0, <1>3, QReceive DEF Receive, ReceiveAgain
<1>4. ASSUME NEW p \in Procs, NEW v \in Vals, TrySend(p, v) PROVE [Queue!Next]_QVars
  <2>1. CASE closed /\ Refuse(p, "Closed")
    BY <2>1, QRefuse DEF Queue!Next, Queue!Closed
  <2>2. CASE ~closed /\ n >= Room /\ Refuse(p, "full")
    BY <1>0, <2>2, QRefuse, SeenEmpty DEF Queue!Next, Queue!Full, Seen
  <2>3. CASE ~closed /\ n < Room /\ Push(p, v)
    <3>1. n < MaxCap
      BY <1>0, <2>3, ChanAssumption DEF TypeOK
    <3> QED
      BY <1>0, <2>3, <3>1, QPush DEF Queue!Next
  <2> QED
    BY <1>4, <2>1, <2>2, <2>3 DEF TrySend
<1>5. ASSUME NEW p \in Procs, TryReceive(p) PROVE [Queue!Next]_QVars
  <2>1. CASE n = 0 /\ Refuse(p, "empty")
    BY <1>0, <2>1, QRefuse, SeenEmpty DEF Queue!Next, Queue!Empty, Seen
  <2>2. CASE n # 0 /\ Pull(p)
    BY <1>0, <2>2, QPull DEF Queue!Next
  <2> QED
    BY <1>5, <2>1, <2>2 DEF TryReceive
<1>6. ASSUME NEW p \in Procs, NEW room \in 0 .. MaxCap + 1, SetCap(p, room)
      PROVE  [Queue!Next]_QVars
  <2>1. CASE Refuse(p, "ValueRange")
    BY <2>1, QRefuse DEF Queue!Next, Queue!BadCap
  <2>2. CASE room \in 1..MaxCap /\ n = 0 /\ cap' = room /\ head' = 0
             /\ Answer(p, "set", None) /\ UNCHANGED <<ring, n, closed, waiters>>
    <3>1. Seen = <<>> /\ Seen' = <<>>
      <4>1. RingSeq(ring, 0, 0) \in Seq(Vals) /\ Len(RingSeq(ring, 0, 0)) = 0
        BY <1>0, RingIsSeq, ChanAssumption DEF TypeOK, Slots
      <4> QED
        BY <1>0, <2>2, <4>1, SeenIs, SeenEmpty, EmptySeq
    <3>2. Room' = room
      BY <2>2, ChanAssumption DEF Room
    <3>3. Queue!Resize(p, room)
      BY <2>2, <3>1, <3>2 DEF Queue!Resize, Queue!Answer, Answer, Seen
    <3> QED
      BY <2>2, <3>3 DEF Queue!Next
  <2> QED
    BY <1>6, <2>1, <2>2 DEF SetCap
<1>7. ASSUME NEW p \in Procs, Close(p) PROVE [Queue!Next]_QVars
  <2>1. Seen' = Seen /\ Room' = Room
    BY <1>7, SeenIs DEF Close, Shut, Room
  <2>2. Queue!Close(p)
    BY <1>7, <2>1 DEF Close, Shut, Answer, Queue!Close, Queue!Answer, Seen
  <2> QED
    BY <2>2 DEF Queue!Next
<1>8. CASE UNCHANGED vars
  BY <1>8, SeenIs DEF vars, QVars, Room
<1> QED
  BY <1>1, <1>2, <1>3, <1>4, <1>5, <1>6, <1>7, <1>8 DEF Next, Call, Again

(* The ring implements the queue, for every capacity and any number of     *)
(* senders and receivers: nothing lost, doubled or reordered, and every    *)
(* answer true of the queue when it is given.                              *)
THEOREM ChanRefinement == Spec => ImplementsQueue
<1>1. QVars = Queue!vars
  BY DEF QVars, Queue!vars, Seen
<1>2. Ind /\ [Next]_vars => [Queue!Next]_(Queue!vars)
  BY <1>1, QNext DEF QVars, Queue!vars, Seen
<1> QED
  BY <1>2, QInit, IndAlways, PTL DEF Spec, ImplementsQueue, Queue!Spec
=============================================================================
