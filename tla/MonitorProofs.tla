--------------------------- MODULE MonitorProofs ---------------------------
(***************************************************************************)
(* The safety of Monitor, proved for any tasks, THREADs and MaxOps.        *)
(*                                                                         *)
(* The argument is an inductive invariant, Ind, in five parts: who may be  *)
(* where (PlaceInv), the mutex (MuInv), tq and its spin lock (TqInv), the  *)
(* wakes of tasks (RunInv), and the waiters (WaitInv).                     *)
(***************************************************************************)
EXTENDS Monitor, TLAPS, SequenceTheorems

(* Tasks queue and park, THREADs lock; tq is in the hand of one process.   *)
PlaceInv ==
  \A p \in Procs :
    /\ pc[p] \in {"spin", "link", "try", "parked"} => p \in Tasks
    /\ pc[p] \in {"lock", "cond"} => p \in Threads
    /\ got[p] # None => pc[p] = "ready"
    /\ mine[p] # {} => pc[p] \in {"look", "pop", "ready", "wake"}

MuInv == \A p \in Procs : Inside(p) <=> mu = p

(* tq holds each task once; its tasks wait for someone to take them off,   *)
(* and only the tail, which holds tspin, may not have parked yet.          *)
TqInv ==
  /\ \A t \in Tasks : pc[t] = "try" <=> tspin = t
  /\ tspin # None => Len(tq) > 0 /\ tq[Len(tq)] = tspin
  /\ \A i, j \in 1..Len(tq) : tq[i] = tq[j] => i = j
  /\ \A i \in 1..Len(tq) :
       /\ pc[tq[i]] \in {"try", "parked"}
       /\ runq[tq[i]] = 0
       /\ \A p \in Procs : got[p] # tq[i]

(* A task in a leaver's hand is parked and in no run queue; a task in a    *)
(* run queue is parked or in WAIT, and there once.                         *)
RunInv ==
  /\ \A p \in Procs : got[p] # None => pc[got[p]] = "parked" /\ runq[got[p]] = 0
  /\ \A p, q \in Procs : got[p] = got[q] /\ got[p] # None => p = q
  /\ \A t \in Tasks : runq[t] \in {0, 1}
  /\ \A t \in Tasks : runq[t] = 1 => pc[t] = "parked" \/ Waiting(t)

(* Only waiters stand in wq, in pend and in a leaver's list. *)
WaitInv ==
  /\ \A p \in wq : Waiting(p)
  /\ \A h \in pend : Waiting(h) /\ h \notin wq
  /\ \A p \in Procs : \A h \in mine[p] : Waiting(h) /\ h \notin wq

Ind ==
  /\ TypeOK /\ PlaceInv /\ MuInv /\ TqInv /\ RunInv /\ WaitInv
  /\ NoLostEntrant /\ NoLostWaiter

-----------------------------------------------------------------------------
(* Every variable keeps its type. *)
LEMMA TypeInit == Init => TypeOK
  BY MonitorAssumption DEF Init, TypeOK, Places, Procs

LEMMA TypeNext == TypeOK /\ [Next]_vars => TypeOK'
<1> SUFFICES ASSUME TypeOK, [Next]_vars PROVE TypeOK'
  OBVIOUS
<1> USE MonitorAssumption DEF TypeOK, Places, At, Goto, Spend, Take, TryLock,
      SlowPath, Procs, GiveUp, Unlock
<1>1. ASSUME NEW p \in Procs, Enter(p) PROVE TypeOK'
  <2>1. CASE Take(p)
    BY <1>1, <2>1 DEF Enter
  <2>2. CASE mu # None /\ Goto(p, SlowPath(p)) /\ UNCHANGED mu
    BY <1>1, <2>2 DEF Enter
  <2> QED
    BY <1>1, <2>1, <2>2 DEF Enter
<1>2. ASSUME NEW p \in Procs, Signal(p) PROVE TypeOK'
  BY <1>2 DEF Signal, Released
<1>3. ASSUME NEW p \in Procs, Wait(p) PROVE TypeOK'
  BY <1>3 DEF Wait, Inside
<1>4. ASSUME NEW p \in Procs, Leave(p) PROVE TypeOK'
  BY <1>4 DEF Leave, Inside
<1>5. ASSUME NEW p \in Procs, Look(p) PROVE TypeOK'
  BY <1>5 DEF Look
<1>6. ASSUME NEW p \in Procs, Pop(p) PROVE TypeOK'
  BY <1>6 DEF Pop
<1>7. ASSUME NEW p \in Procs, Ready(p) PROVE TypeOK'
  BY <1>7 DEF Ready
<1>8. ASSUME NEW p \in Procs, WakeThread(p) PROVE TypeOK'
  BY <1>8 DEF WakeThread
<1>9. ASSUME NEW p \in Procs, Gone(p) PROVE TypeOK'
  BY <1>9 DEF Gone
<1>10. ASSUME NEW t \in Tasks, Spin(t) PROVE TypeOK'
  BY <1>10 DEF Spin
<1>11. ASSUME NEW t \in Tasks, Link(t) PROVE TypeOK'
  BY <1>11 DEF Link
<1>12. ASSUME NEW t \in Tasks, Try(t) PROVE TypeOK'
  <2>1. CASE Take(t)
    BY <1>12, <2>1 DEF Try, Unlinked
  <2>2. CASE mu # None /\ Goto(t, "parked") /\ UNCHANGED mu
    BY <1>12, <2>2 DEF Try, Unlinked
  <2> QED
    BY <1>12, <2>1, <2>2 DEF Try, Unlinked
<1>13. ASSUME NEW t \in Tasks, Resume(t) PROVE TypeOK'
  BY <1>13 DEF Resume, RunNext
<1>14. ASSUME NEW t \in Tasks, WakeTask(t) PROVE TypeOK'
  <2>1. CASE Take(t)
    BY <1>14, <2>1 DEF WakeTask, RunNext, Retake
  <2>2. CASE mu # None /\ Goto(t, "spin") /\ UNCHANGED mu
    BY SMTT(60), <1>14, <2>2 DEF WakeTask, RunNext, Retake
  <2> QED
    BY <1>14, <2>1, <2>2 DEF WakeTask, RunNext, Retake
<1>15. ASSUME NEW t \in Threads, Lock(t) PROVE TypeOK'
  BY <1>15 DEF Lock
<1>16. ASSUME NEW t \in Threads, WordSet(t) PROVE TypeOK'
  BY <1>16 DEF WordSet
<1>17. ASSUME NEW t \in Threads, WaitNoMemory(t) PROVE TypeOK'
  BY <1>17 DEF WaitNoMemory, Inside
<1>18. CASE UNCHANGED vars
  BY <1>18 DEF vars
<1> QED
  BY <1>1, <1>2, <1>3, <1>4, <1>5, <1>6, <1>7, <1>8, <1>9, <1>10, <1>11, <1>12,
     <1>13, <1>14, <1>15, <1>16, <1>17, <1>18
  DEF Next, Choice, After, TaskStep, ThreadStep

(* A sequence without its last element. *)
LEMMA FrontFacts ==
  ASSUME NEW S, NEW s \in Seq(S), Len(s) > 0
  PROVE  /\ Len(SubSeq(s, 1, Len(s) - 1)) = Len(s) - 1
         /\ \A i \in 1..(Len(s) - 1) : SubSeq(s, 1, Len(s) - 1)[i] = s[i]
<1> DEFINE n == Len(s) - 1
<1>1. n \in Nat /\ n \in Int /\ 1 \in Int
  OBVIOUS
<1>2. \A i \in 1..n : s[i] \in S
  OBVIOUS
<1> HIDE DEF n
<1> DEFINE f == SubSeq(s, 1, n)
<1>3. /\ Len(f) = IF 1 <= n THEN n - 1 + 1 ELSE 0
      /\ \A i \in 1..(n - 1 + 1) : f[i] = s[1 + i - 1]
  BY <1>1, <1>2, SubSeqProperties
<1> HIDE DEF f
<1>4. Len(f) = n
  BY <1>1, <1>3
<1>5. \A i \in 1..n : i \in 1..(n - 1 + 1) /\ 1 + i - 1 = i
  BY <1>1
<1>6. \A i \in 1..n : f[i] = s[i]
  BY <1>3, <1>5
<1> QED
  BY <1>4, <1>6 DEF n, f

(* The tasks on tq, and those in a leaver's hand, are in no WAIT. *)
LEMMA QueuedTask ==
  ASSUME Ind, NEW i \in 1..Len(tq)
  PROVE  tq[i] \in Tasks /\ tq[i] \in Procs /\ ~Waiting(tq[i]) /\ tq[i] \notin wq
<1>1. tq[i] \in Tasks /\ tq[i] \in Procs
  BY DEF Ind, TypeOK, Procs
<1>2. pc[tq[i]] \in {"try", "parked"}
  BY DEF Ind, TqInv
<1>3. ~Waiting(tq[i])
  BY <1>2 DEF Waiting
<1> QED
  BY <1>1, <1>3 DEF Ind, WaitInv

LEMMA TqSignal ==
  ASSUME Ind, TypeOK', NEW p \in Procs, Signal(p)
  PROVE  TqInv'
<1>1. UNCHANGED <<tq, tspin, got>> /\ pc[p] = "body" /\ pc' = [pc EXCEPT ![p] = "told"]
  BY DEF Signal, At, Goto
<1>2. \A t \in Tasks : t \notin wq => runq'[t] = runq[t]
  BY DEF Signal, Released
<1>3. \A q \in Procs : /\ pc[q] = "try" <=> pc'[q] = "try"
                       /\ pc[q] = "parked" <=> pc'[q] = "parked"
  BY <1>1 DEF Ind, TypeOK
<1>4. \A i \in 1..Len(tq) : tq[i] \in Tasks /\ tq[i] \in Procs /\ tq[i] \notin wq
  BY QueuedTask
<1>5. \A t \in Tasks : pc'[t] = "try" <=> tspin' = t
  BY <1>1, <1>3 DEF Ind, TqInv, Procs
<1>6. ASSUME NEW i \in 1..Len(tq)
      PROVE  /\ pc'[tq[i]] \in {"try", "parked"}
             /\ runq'[tq[i]] = 0
             /\ \A q \in Procs : got[q] # tq[i]
  BY <1>2, <1>3, <1>4 DEF Ind, TqInv
<1> QED
  BY <1>1, <1>5, <1>6 DEF Ind, TqInv

LEMMA TqSame ==
  ASSUME Ind, UNCHANGED <<tq, tspin, got, runq>>,
         \A q \in Procs : /\ pc'[q] = "try" <=> pc[q] = "try"
                          /\ pc'[q] = "parked" <=> pc[q] = "parked"
  PROVE  TqInv'
<1>1. \A i \in 1..Len(tq) : tq[i] \in Procs
  BY QueuedTask
<1> QED
  BY <1>1 DEF Ind, TqInv, Procs

(* A task that WAITs is not on tq: running it again touches nothing there. *)
LEMMA TqWakeTask ==
  ASSUME Ind, TypeOK', NEW t \in Tasks, WakeTask(t)
  PROVE  TqInv'
<1>1. /\ UNCHANGED <<tq, tspin, got>> /\ pc[t] = "sleep"
      /\ runq' = [runq EXCEPT ![t] = @ - 1]
      /\ pc' = [pc EXCEPT ![t] = "body"] \/ pc' = [pc EXCEPT ![t] = "spin"]
  BY DEF WakeTask, RunNext, Retake, TryLock, Take, At, Goto
<1>2. \A q \in Procs : /\ pc[q] = "try" <=> pc'[q] = "try"
                       /\ pc[q] = "parked" <=> pc'[q] = "parked"
  BY <1>1 DEF Ind, TypeOK
<1>3. \A i \in 1..Len(tq) : tq[i] \in Tasks /\ tq[i] \in Procs /\ tq[i] # t
  BY <1>1, QueuedTask DEF Ind, TqInv
<1>4. \A s \in Tasks : s # t => runq'[s] = runq[s]
  BY <1>1 DEF Ind, TypeOK
<1>5. \A s \in Tasks : pc'[s] = "try" <=> tspin' = s
  BY <1>1, <1>2 DEF Ind, TqInv, Procs
<1>6. ASSUME NEW i \in 1..Len(tq)
      PROVE  /\ pc'[tq[i]] \in {"try", "parked"}
             /\ runq'[tq[i]] = 0
             /\ \A q \in Procs : got[q] # tq[i]
  BY <1>2, <1>3, <1>4 DEF Ind, TqInv
<1> QED
  BY <1>1, <1>5, <1>6 DEF Ind, TqInv

LEMMA TqLink ==
  ASSUME Ind, TypeOK', NEW t \in Tasks, Link(t)
  PROVE  TqInv'
<1>1. /\ UNCHANGED <<got, runq>> /\ tspin = None /\ tspin' = t
      /\ pc[t] = "link" /\ pc' = [pc EXCEPT ![t] = "try"] /\ tq' = Append(tq, t)
  BY DEF Link, At, Goto
<1>2. /\ Len(tq) \in Nat /\ Len(tq') = Len(tq) + 1 /\ tq'[Len(tq')] = t
      /\ \A i \in 1..Len(tq) : tq'[i] = tq[i]
  BY <1>1 DEF Ind, TypeOK
<1>3. \A i \in 1..Len(tq) : tq[i] # t /\ tq[i] \in Procs
  BY <1>1, QueuedTask DEF Ind, TqInv
<1>4. runq[t] = 0 /\ \A p \in Procs : got[p] # t
  <2>1. ~Waiting(t) /\ pc[t] # "parked" /\ t # None
    BY <1>1, MonitorAssumption DEF Waiting, Procs
  <2> QED
    BY <2>1 DEF Ind, RunInv
<1>5. \A s \in Tasks : pc'[s] = "try" <=> tspin' = s
  BY <1>1, MonitorAssumption DEF Ind, TypeOK, TqInv, Procs
<1>6. \A i, j \in 1..Len(tq') : tq'[i] = tq'[j] => i = j
  <2>1. \A i \in 1..Len(tq') : i \in 1..Len(tq) \/ i = Len(tq')
    BY <1>2
  <2> QED
    BY <1>2, <1>3, <2>1 DEF Ind, TqInv
<1>7. ASSUME NEW i \in 1..Len(tq')
      PROVE  /\ pc'[tq'[i]] \in {"try", "parked"}
             /\ runq'[tq'[i]] = 0
             /\ \A p \in Procs : got'[p] # tq'[i]
  <2>1. CASE i = Len(tq')
    BY <1>1, <1>2, <1>4, <2>1 DEF Ind, TypeOK, Procs
  <2>2. CASE i \in 1..Len(tq)
    <3>1. tq'[i] = tq[i] /\ pc'[tq[i]] = pc[tq[i]]
      BY <1>1, <1>2, <1>3, <2>2 DEF Ind, TypeOK
    <3> QED
      BY <1>1, <2>2, <3>1 DEF Ind, TqInv
  <2> QED
    BY <1>2, <2>1, <2>2
<1> QED
  BY <1>1, <1>2, <1>5, <1>6, <1>7 DEF TqInv

LEMMA TqTry ==
  ASSUME Ind, TypeOK', NEW t \in Tasks, Try(t)
  PROVE  TqInv'
<1>1. /\ UNCHANGED <<got, runq>> /\ pc[t] = "try" /\ tspin = t /\ tspin' = None
      /\ Len(tq) \in Nat /\ Len(tq) > 0 /\ tq[Len(tq)] = t
  BY MonitorAssumption DEF Try, At, Ind, TqInv, TypeOK, Procs
<1>2. CASE Take(t)
  <2>1. tq' = SubSeq(tq, 1, Len(tq) - 1) /\ pc' = [pc EXCEPT ![t] = "body"]
    BY <1>2 DEF Try, Unlinked, Take, Goto
  <2>2. /\ Len(tq') = Len(tq) - 1
        /\ \A i \in 1..Len(tq') : tq'[i] = tq[i] /\ i \in 1..Len(tq) /\ i # Len(tq)
    BY <1>1, <2>1, FrontFacts DEF Ind, TypeOK
  <2>3. \A i \in 1..Len(tq') : tq[i] # t /\ tq[i] \in Procs
    BY <1>1, <2>2, QueuedTask DEF Ind, TqInv
  <2>4. \A s \in Tasks : pc'[s] = "try" <=> tspin' = s
    BY <1>1, <2>1, MonitorAssumption DEF Ind, TypeOK, TqInv, Procs
  <2>5. \A i \in 1..Len(tq') : pc'[tq'[i]] = pc[tq[i]]
    BY <2>1, <2>2, <2>3 DEF Ind, TypeOK
  <2>6. \A i, j \in 1..Len(tq') : tq'[i] = tq'[j] => i = j
    BY <2>2 DEF Ind, TqInv
  <2>7. ASSUME NEW i \in 1..Len(tq')
        PROVE  /\ pc'[tq'[i]] \in {"try", "parked"}
               /\ runq'[tq'[i]] = 0
               /\ \A p \in Procs : got'[p] # tq'[i]
    <3>1. /\ pc[tq[i]] \in {"try", "parked"} /\ runq[tq[i]] = 0
          /\ \A p \in Procs : got[p] # tq[i]
      BY <2>2 DEF Ind, TqInv
    <3> QED
      BY <1>1, <2>2, <2>5, <3>1
  <2> QED
    BY <1>1, <2>4, <2>6, <2>7 DEF TqInv
<1>3. CASE mu # None /\ Goto(t, "parked") /\ UNCHANGED mu
  <2>1. tq' = tq /\ pc' = [pc EXCEPT ![t] = "parked"]
    BY <1>3 DEF Try, Goto
  <2>2. \A s \in Tasks : pc'[s] = "try" <=> tspin' = s
    BY <1>1, <2>1, MonitorAssumption DEF Ind, TypeOK, TqInv, Procs
  <2>3. \A q \in Procs : pc[q] \in {"try", "parked"} => pc'[q] \in {"try", "parked"}
    BY <2>1 DEF Ind, TypeOK
  <2>4. \A i \in 1..Len(tq) : tq[i] \in Procs
    BY QueuedTask
  <2> QED
    BY <1>1, <2>1, <2>2, <2>3, <2>4 DEF Ind, TqInv
<1> QED
  BY <1>2, <1>3 DEF Try, TryLock

LEMMA TqPop ==
  ASSUME Ind, TypeOK', NEW p \in Procs, Pop(p)
  PROVE  TqInv'
<1>1. /\ UNCHANGED <<tspin, runq>> /\ tspin = None
      /\ pc[p] = "pop" /\ pc' = [pc EXCEPT ![p] = "ready"]
  BY DEF Pop, At, Goto
<1>2. \A q \in Procs : /\ pc[q] = "try" <=> pc'[q] = "try"
                       /\ pc[q] = "parked" <=> pc'[q] = "parked"
  BY <1>1 DEF Ind, TypeOK
<1>3. \A s \in Tasks : pc'[s] = "try" <=> tspin' = s
  BY <1>1, <1>2 DEF Ind, TqInv, Procs
<1>4. CASE tq = <<>>
  BY <1>1, <1>3, <1>4 DEF Pop, TqInv
<1>5. CASE tq # <<>>
  <2>1. got' = [got EXCEPT ![p] = Head(tq)] /\ tq' = Tail(tq)
    BY <1>5 DEF Pop
  <2>2. /\ Len(tq) \in Nat /\ Len(tq') = Len(tq) - 1 /\ Head(tq) = tq[1] /\ 1 \in 1..Len(tq)
        /\ \A i \in 1..Len(tq') : i + 1 \in 1..Len(tq) /\ tq'[i] = tq[i + 1]
    <3>1. tq \in Seq(Tasks) /\ Len(tq) \in Nat /\ Len(tq) > 0
      BY <1>5 DEF Ind, TypeOK
    <3>2. Head(tq) = tq[1] /\ Len(Tail(tq)) = Len(tq) - 1
      BY <3>1
    <3>3. \A i \in 1..Len(Tail(tq)) : i + 1 \in 1..Len(tq) /\ Tail(tq)[i] = tq[i + 1]
      BY <3>1, <3>2
    <3> QED
      BY <2>1, <3>1, <3>2, <3>3
  <2>3. \A i, j \in 1..Len(tq') : tq'[i] = tq'[j] => i = j
    <3> SUFFICES ASSUME NEW i \in 1..Len(tq'), NEW j \in 1..Len(tq'), tq'[i] = tq'[j] PROVE i = j
      OBVIOUS
    <3>1. i + 1 = j + 1
      BY <2>2 DEF Ind, TqInv
    <3> QED
      BY <2>2, <3>1
  <2>4. ASSUME NEW i \in 1..Len(tq')
        PROVE  /\ pc'[tq'[i]] \in {"try", "parked"}
               /\ runq'[tq'[i]] = 0
               /\ \A q \in Procs : got'[q] # tq'[i]
    <3>1. i + 1 \in 1..Len(tq) /\ tq'[i] = tq[i + 1] /\ tq[i + 1] \in Procs
      BY <2>2, QueuedTask
    <3>2. tq[i + 1] # tq[1]
      BY <2>2, <3>1 DEF Ind, TqInv
    <3>3. /\ pc[tq[i + 1]] \in {"try", "parked"} /\ runq[tq[i + 1]] = 0
          /\ \A q \in Procs : got[q] # tq[i + 1]
      BY <3>1 DEF Ind, TqInv
    <3>4. \A q \in Procs : got'[q] = got[q] \/ got'[q] = tq[1]
      BY <2>1, <2>2 DEF Ind, TypeOK
    <3> QED
      BY <1>1, <1>2, <3>1, <3>2, <3>3, <3>4
  <2> QED
    BY <1>1, <1>3, <2>3, <2>4 DEF TqInv
<1> QED
  BY <1>4, <1>5

(* The task that a leaver makes ready is in its hand, and so not on tq. *)
LEMMA TqReady ==
  ASSUME Ind, TypeOK', NEW p \in Procs, Ready(p)
  PROVE  TqInv'
<1>1. /\ UNCHANGED <<tq, tspin>> /\ pc[p] = "ready" /\ pc' = [pc EXCEPT ![p] = "wake"]
      /\ got' = [got EXCEPT ![p] = None]
      /\ \A t \in Tasks : got[p] # t => runq'[t] = runq[t]
  BY DEF Ready, At, Goto
<1>2. \A q \in Procs : /\ pc[q] = "try" <=> pc'[q] = "try"
                       /\ pc[q] = "parked" <=> pc'[q] = "parked"
                       /\ got'[q] = got[q] \/ got'[q] = None
  BY <1>1 DEF Ind, TypeOK
<1>3. \A s \in Tasks : pc'[s] = "try" <=> tspin' = s
  BY <1>1, <1>2 DEF Ind, TqInv, Procs
<1>4. ASSUME NEW i \in 1..Len(tq)
      PROVE  /\ pc'[tq[i]] \in {"try", "parked"}
             /\ runq'[tq[i]] = 0
             /\ \A q \in Procs : got'[q] # tq[i]
  <2>1. tq[i] \in Tasks /\ tq[i] \in Procs /\ tq[i] # None
    BY QueuedTask, MonitorAssumption
  <2>2. /\ pc[tq[i]] \in {"try", "parked"} /\ runq[tq[i]] = 0
        /\ \A q \in Procs : got[q] # tq[i]
    BY DEF Ind, TqInv
  <2> QED
    BY <1>1, <1>2, <2>1, <2>2
<1> QED
  BY <1>1, <1>3, <1>4 DEF Ind, TqInv

(* A parked task that is run was in a run queue, and so not on tq. *)
LEMMA TqResume ==
  ASSUME Ind, TypeOK', NEW t \in Tasks, Resume(t)
  PROVE  TqInv'
<1>1. /\ UNCHANGED <<tq, tspin, got>> /\ pc[t] = "parked" /\ runq[t] > 0
      /\ runq' = [runq EXCEPT ![t] = @ - 1] /\ pc' = [pc EXCEPT ![t] = "spin"]
  BY DEF Resume, RunNext, At, Goto
<1>2. \A q \in Procs : q # t => pc'[q] = pc[q]
  BY <1>1 DEF Ind, TypeOK
<1>3. \A i \in 1..Len(tq) : tq[i] \in Tasks /\ tq[i] \in Procs /\ tq[i] # t
  BY <1>1, QueuedTask DEF Ind, TqInv
<1>4. \A s \in Tasks : s # t => runq'[s] = runq[s]
  BY <1>1 DEF Ind, TypeOK
<1>5. \A s \in Tasks : pc'[s] = "try" <=> pc[s] = "try"
  BY <1>1 DEF Ind, TypeOK, Procs
<1>6. ASSUME NEW i \in 1..Len(tq)
      PROVE  /\ pc'[tq[i]] \in {"try", "parked"}
             /\ runq'[tq[i]] = 0
             /\ \A q \in Procs : got[q] # tq[i]
  BY <1>2, <1>3, <1>4 DEF Ind, TqInv
<1> QED
  BY <1>1, <1>5, <1>6 DEF Ind, TqInv

LEMMA RunSignal ==
  ASSUME Ind, TypeOK', NEW p \in Procs, Signal(p)
  PROVE  RunInv'
<1>1. UNCHANGED <<got, waits>> /\ pc[p] = "body" /\ pc' = [pc EXCEPT ![p] = "told"]
  BY DEF Signal, At, Goto
<1>2. \A t \in Tasks : runq'[t] = IF t \in wq THEN runq[t] + 1 ELSE runq[t]
  BY DEF Signal, Released
<1>3. \A t \in Tasks : t \in wq => Waiting(t) /\ runq[t] = 0
  BY DEF Ind, WaitInv, NoLostWaiter, Kept, Asleep, Procs
<1>4. \A q \in Procs : Waiting(q) => Waiting(q)'
  BY <1>1 DEF Waiting, Ind, TypeOK
<1>5. \A q \in Procs : pc[q] = "parked" <=> pc'[q] = "parked"
  BY <1>1 DEF Ind, TypeOK
<1>6. ASSUME NEW q \in Procs, got[q] # None
      PROVE  pc'[got'[q]] = "parked" /\ runq'[got'[q]] = 0
  <2>1. got[q] \in Tasks /\ got[q] \in Procs /\ pc[got[q]] = "parked" /\ runq[got[q]] = 0
    BY <1>6 DEF Ind, TypeOK, RunInv, Procs
  <2>2. got[q] \notin wq
    BY <1>3, <2>1 DEF Waiting
  <2> QED
    BY <1>1, <1>2, <1>5, <2>1, <2>2
<1>7. \A t \in Tasks : runq'[t] \in {0, 1}
  BY <1>2, <1>3 DEF Ind, RunInv
<1>8. \A t \in Tasks : runq'[t] = 1 => pc'[t] = "parked" \/ Waiting(t)'
  BY <1>2, <1>3, <1>4, <1>5 DEF Ind, RunInv, Procs
<1> QED
  BY <1>1, <1>6, <1>7, <1>8 DEF Ind, RunInv

(* Every step keeps PlaceInv. *)
LEMMA PlaceNext == Ind /\ TypeOK' /\ [Next]_vars => PlaceInv'
<1> SUFFICES ASSUME Ind, TypeOK', [Next]_vars PROVE PlaceInv'
  OBVIOUS
<1> USE MonitorAssumption DEF Ind, TypeOK, Procs, At, Goto, Take, GiveUp, Unlock, PlaceInv, SlowPath, Inside
<1>1. ASSUME NEW p \in Procs, Enter(p) PROVE PlaceInv'
  <2>1. CASE Take(p)
    BY <1>1, <2>1 DEF Enter
  <2>2. CASE mu # None /\ Goto(p, SlowPath(p)) /\ UNCHANGED mu
    BY <1>1, <2>2 DEF Enter
  <2> QED
    BY <1>1, <2>1, <2>2 DEF Enter, TryLock
<1>2. ASSUME NEW p \in Procs, Signal(p) PROVE PlaceInv'
  BY <1>2 DEF Signal, Released
<1>3. ASSUME NEW p \in Procs, Wait(p) PROVE PlaceInv'
  BY <1>3 DEF Wait
<1>4. ASSUME NEW p \in Procs, Leave(p) PROVE PlaceInv'
  BY <1>4 DEF Leave
<1>5. ASSUME NEW p \in Procs, Look(p) PROVE PlaceInv'
  BY <1>5 DEF Look
<1>6. ASSUME NEW p \in Procs, Pop(p) PROVE PlaceInv'
  BY <1>6 DEF Pop
<1>7. ASSUME NEW p \in Procs, Ready(p) PROVE PlaceInv'
  BY <1>7 DEF Ready
<1>8. ASSUME NEW p \in Procs, WakeThread(p) PROVE PlaceInv'
  BY <1>8 DEF WakeThread
<1>9. ASSUME NEW p \in Procs, Gone(p) PROVE PlaceInv'
  BY <1>9 DEF Gone
<1>10. ASSUME NEW t \in Tasks, Spin(t) PROVE PlaceInv'
  <2>1. CASE Take(t)
    BY <1>10, <2>1 DEF Spin
  <2>2. CASE Goto(t, "link") /\ UNCHANGED mu
    BY <1>10, <2>2 DEF Spin
  <2> QED
    BY <1>10, <2>1, <2>2 DEF Spin, TryLock
<1>11. ASSUME NEW t \in Tasks, Link(t) PROVE PlaceInv'
  BY <1>11 DEF Link
<1>12. ASSUME NEW t \in Tasks, Try(t) PROVE PlaceInv'
  <2>1. CASE Take(t)
    BY <1>12, <2>1 DEF Try, Unlinked
  <2>2. CASE mu # None /\ Goto(t, "parked") /\ UNCHANGED mu
    BY <1>12, <2>2 DEF Try, Unlinked
  <2> QED
    BY <1>12, <2>1, <2>2 DEF Try, Unlinked, TryLock
<1>13. ASSUME NEW t \in Tasks, Resume(t) PROVE PlaceInv'
  BY <1>13 DEF Resume, RunNext
<1>14. ASSUME NEW t \in Tasks, WakeTask(t) PROVE PlaceInv'
  <2>1. CASE Take(t)
    BY <1>14, <2>1 DEF WakeTask, RunNext, Retake
  <2>2. CASE mu # None /\ Goto(t, "spin") /\ UNCHANGED mu
    BY <1>14, <2>2 DEF WakeTask, RunNext, Retake
  <2> QED
    BY <1>14, <2>1, <2>2 DEF WakeTask, RunNext, Retake, TryLock
<1>15. ASSUME NEW t \in Threads, Lock(t) PROVE PlaceInv'
  BY <1>15 DEF Lock
<1>16. ASSUME NEW t \in Threads, WordSet(t) PROVE PlaceInv'
  BY <1>16 DEF WordSet
<1>17. ASSUME NEW t \in Threads, WaitNoMemory(t) PROVE PlaceInv'
  BY <1>17 DEF WaitNoMemory
<1>18. CASE UNCHANGED vars
  BY <1>18 DEF vars
<1> QED
  BY <1>1, <1>2, <1>3, <1>4, <1>5, <1>6, <1>7, <1>8, <1>9, <1>10, <1>11, <1>12, <1>13, <1>14, <1>15, <1>16, <1>17, <1>18
  DEF Next, Choice, After, TaskStep, ThreadStep

(* Every step keeps the mutex with the one process inside. *)
LEMMA MuNext == Ind /\ TypeOK' /\ [Next]_vars => MuInv'
<1> SUFFICES ASSUME Ind, TypeOK', [Next]_vars PROVE MuInv'
  OBVIOUS
<1> USE MonitorAssumption DEF Ind, TypeOK, Procs, At, Goto, Take, GiveUp, Unlock, MuInv, SlowPath, Inside
<1>1. ASSUME NEW p \in Procs, Enter(p) PROVE MuInv'
  <2>1. CASE Take(p)
    BY <1>1, <2>1 DEF Enter
  <2>2. CASE mu # None /\ Goto(p, SlowPath(p)) /\ UNCHANGED mu
    BY <1>1, <2>2 DEF Enter
  <2> QED
    BY <1>1, <2>1, <2>2 DEF Enter, TryLock
<1>2. ASSUME NEW p \in Procs, Signal(p) PROVE MuInv'
  BY <1>2 DEF Signal, Released
<1>3. ASSUME NEW p \in Procs, Wait(p) PROVE MuInv'
  BY <1>3 DEF Wait
<1>4. ASSUME NEW p \in Procs, Leave(p) PROVE MuInv'
  BY <1>4 DEF Leave
<1>5. ASSUME NEW p \in Procs, Look(p) PROVE MuInv'
  BY <1>5 DEF Look
<1>6. ASSUME NEW p \in Procs, Pop(p) PROVE MuInv'
  BY <1>6 DEF Pop
<1>7. ASSUME NEW p \in Procs, Ready(p) PROVE MuInv'
  BY <1>7 DEF Ready
<1>8. ASSUME NEW p \in Procs, WakeThread(p) PROVE MuInv'
  BY <1>8 DEF WakeThread
<1>9. ASSUME NEW p \in Procs, Gone(p) PROVE MuInv'
  BY <1>9 DEF Gone
<1>10. ASSUME NEW t \in Tasks, Spin(t) PROVE MuInv'
  <2>1. CASE Take(t)
    BY <1>10, <2>1 DEF Spin
  <2>2. CASE Goto(t, "link") /\ UNCHANGED mu
    BY <1>10, <2>2 DEF Spin
  <2> QED
    BY <1>10, <2>1, <2>2 DEF Spin, TryLock
<1>11. ASSUME NEW t \in Tasks, Link(t) PROVE MuInv'
  BY <1>11 DEF Link
<1>12. ASSUME NEW t \in Tasks, Try(t) PROVE MuInv'
  <2>1. CASE Take(t)
    BY <1>12, <2>1 DEF Try, Unlinked
  <2>2. CASE mu # None /\ Goto(t, "parked") /\ UNCHANGED mu
    BY <1>12, <2>2 DEF Try, Unlinked
  <2> QED
    BY <1>12, <2>1, <2>2 DEF Try, Unlinked, TryLock
<1>13. ASSUME NEW t \in Tasks, Resume(t) PROVE MuInv'
  BY <1>13 DEF Resume, RunNext
<1>14. ASSUME NEW t \in Tasks, WakeTask(t) PROVE MuInv'
  <2>1. CASE Take(t)
    BY <1>14, <2>1 DEF WakeTask, RunNext, Retake
  <2>2. CASE mu # None /\ Goto(t, "spin") /\ UNCHANGED mu
    BY <1>14, <2>2 DEF WakeTask, RunNext, Retake
  <2> QED
    BY <1>14, <2>1, <2>2 DEF WakeTask, RunNext, Retake, TryLock
<1>15. ASSUME NEW t \in Threads, Lock(t) PROVE MuInv'
  BY <1>15 DEF Lock
<1>16. ASSUME NEW t \in Threads, WordSet(t) PROVE MuInv'
  BY <1>16 DEF WordSet
<1>17. ASSUME NEW t \in Threads, WaitNoMemory(t) PROVE MuInv'
  BY <1>17 DEF WaitNoMemory
<1>18. CASE UNCHANGED vars
  BY <1>18 DEF vars
<1> QED
  BY <1>1, <1>2, <1>3, <1>4, <1>5, <1>6, <1>7, <1>8, <1>9, <1>10, <1>11, <1>12, <1>13, <1>14, <1>15, <1>16, <1>17, <1>18
  DEF Next, Choice, After, TaskStep, ThreadStep

(* Every step keeps tq and its spin lock as TqInv says. *)
LEMMA TqNext == Ind /\ TypeOK' /\ [Next]_vars => TqInv'
<1> SUFFICES ASSUME Ind, TypeOK', [Next]_vars PROVE TqInv'
  OBVIOUS
<1> USE DEF TypeOK, Procs, At, Goto
<1>1. ASSUME NEW p \in Procs, Enter(p) PROVE TqInv'
  BY <1>1, TqSame DEF Enter, Ind, TryLock, Take, SlowPath
<1>2. ASSUME NEW p \in Procs, Signal(p) PROVE TqInv'
  BY <1>2, TqSignal
<1>3. ASSUME NEW p \in Procs, Wait(p) PROVE TqInv'
  BY <1>3, TqSame DEF Wait, Ind, Inside, Unlock
<1>4. ASSUME NEW p \in Procs, Leave(p) PROVE TqInv'
  BY <1>4, TqSame DEF Leave, Ind, Inside, Unlock
<1>5. ASSUME NEW p \in Procs, Look(p) PROVE TqInv'
  BY <1>5, TqSame DEF Look, Ind
<1>6. ASSUME NEW p \in Procs, Pop(p) PROVE TqInv'
  BY <1>6, TqPop
<1>7. ASSUME NEW p \in Procs, Ready(p) PROVE TqInv'
  BY <1>7, TqReady
<1>8. ASSUME NEW p \in Procs, WakeThread(p) PROVE TqInv'
  BY <1>8, TqSame DEF WakeThread, Ind
<1>9. ASSUME NEW p \in Procs, Gone(p) PROVE TqInv'
  BY <1>9, TqSame DEF Gone, Ind
<1>10. ASSUME NEW t \in Tasks, Spin(t) PROVE TqInv'
  BY <1>10, TqSame DEF Spin, Ind, Take
<1>11. ASSUME NEW t \in Tasks, Link(t) PROVE TqInv'
  BY <1>11, TqLink
<1>12. ASSUME NEW t \in Tasks, Try(t) PROVE TqInv'
  BY <1>12, TqTry
<1>13. ASSUME NEW t \in Tasks, Resume(t) PROVE TqInv'
  BY <1>13, TqResume
<1>14. ASSUME NEW t \in Tasks, WakeTask(t) PROVE TqInv'
  BY <1>14, TqWakeTask
<1>15. ASSUME NEW t \in Threads, Lock(t) PROVE TqInv'
  BY <1>15, TqSame DEF Lock, Ind, Take
<1>16. ASSUME NEW t \in Threads, WordSet(t) PROVE TqInv'
  BY <1>16, TqSame DEF WordSet, Ind
<1>17. ASSUME NEW t \in Threads, WaitNoMemory(t) PROVE TqInv'
  BY <1>17, TqSame DEF WaitNoMemory, Ind, Inside
<1>18. CASE UNCHANGED vars
  BY <1>18, TqSame DEF vars
<1> QED
  BY <1>1, <1>2, <1>3, <1>4, <1>5, <1>6, <1>7, <1>8, <1>9, <1>10, <1>11, <1>12, <1>13, <1>14, <1>15, <1>16, <1>17, <1>18
  DEF Next, Choice, After, TaskStep, ThreadStep

(* Every step keeps the run queues and the hands as RunInv says. *)
LEMMA RunInvNext == Ind /\ TypeOK' /\ [Next]_vars => RunInv'
<1> SUFFICES ASSUME Ind, TypeOK', [Next]_vars PROVE RunInv'
  OBVIOUS
<1> USE MonitorAssumption DEF Ind, TypeOK, Procs, At, Goto, Take, GiveUp, Unlock, TqInv, SlowPath, PlaceInv, RunInv, Waiting, Inside
<1>1. ASSUME NEW p \in Procs, Enter(p) PROVE RunInv'
  <2>1. CASE Take(p)
    BY <1>1, <2>1 DEF Enter
  <2>2. CASE mu # None /\ Goto(p, SlowPath(p)) /\ UNCHANGED mu
    BY <1>1, <2>2 DEF Enter
  <2> QED
    BY <1>1, <2>1, <2>2 DEF Enter, TryLock
<1>2. ASSUME NEW p \in Procs, Signal(p) PROVE RunInv'
  BY <1>2, RunSignal
<1>3. ASSUME NEW p \in Procs, Wait(p) PROVE RunInv'
  BY <1>3 DEF Wait
<1>4. ASSUME NEW p \in Procs, Leave(p) PROVE RunInv'
  BY <1>4 DEF Leave
<1>5. ASSUME NEW p \in Procs, Look(p) PROVE RunInv'
  BY <1>5 DEF Look
<1>6. ASSUME NEW p \in Procs, Pop(p) PROVE RunInv'
  BY <1>6 DEF Pop
<1>7. ASSUME NEW p \in Procs, Ready(p) PROVE RunInv'
  BY <1>7 DEF Ready
<1>8. ASSUME NEW p \in Procs, WakeThread(p) PROVE RunInv'
  BY <1>8 DEF WakeThread
<1>9. ASSUME NEW p \in Procs, Gone(p) PROVE RunInv'
  BY <1>9 DEF Gone
<1>10. ASSUME NEW t \in Tasks, Spin(t) PROVE RunInv'
  <2>1. CASE Take(t)
    BY <1>10, <2>1 DEF Spin
  <2>2. CASE Goto(t, "link") /\ UNCHANGED mu
    BY <1>10, <2>2 DEF Spin
  <2> QED
    BY <1>10, <2>1, <2>2 DEF Spin, TryLock
<1>11. ASSUME NEW t \in Tasks, Link(t) PROVE RunInv'
  BY <1>11 DEF Link
<1>12. ASSUME NEW t \in Tasks, Try(t) PROVE RunInv'
  <2>1. CASE Take(t)
    BY <1>12, <2>1 DEF Try, Unlinked
  <2>2. CASE mu # None /\ Goto(t, "parked") /\ UNCHANGED mu
    BY <1>12, <2>2 DEF Try, Unlinked
  <2> QED
    BY <1>12, <2>1, <2>2 DEF Try, Unlinked, TryLock
<1>13. ASSUME NEW t \in Tasks, Resume(t) PROVE RunInv'
  BY <1>13 DEF Resume, RunNext
<1>14. ASSUME NEW t \in Tasks, WakeTask(t) PROVE RunInv'
  <2>1. CASE Take(t)
    BY <1>14, <2>1 DEF WakeTask, RunNext, Retake
  <2>2. CASE mu # None /\ Goto(t, "spin") /\ UNCHANGED mu
    BY <1>14, <2>2 DEF WakeTask, RunNext, Retake
  <2> QED
    BY <1>14, <2>1, <2>2 DEF WakeTask, RunNext, Retake, TryLock
<1>15. ASSUME NEW t \in Threads, Lock(t) PROVE RunInv'
  BY <1>15 DEF Lock
<1>16. ASSUME NEW t \in Threads, WordSet(t) PROVE RunInv'
  BY <1>16 DEF WordSet
<1>17. ASSUME NEW t \in Threads, WaitNoMemory(t) PROVE RunInv'
  BY <1>17 DEF WaitNoMemory
<1>18. CASE UNCHANGED vars
  BY <1>18 DEF vars
<1> QED
  BY <1>1, <1>2, <1>3, <1>4, <1>5, <1>6, <1>7, <1>8, <1>9, <1>10, <1>11, <1>12, <1>13, <1>14, <1>15, <1>16, <1>17, <1>18
  DEF Next, Choice, After, TaskStep, ThreadStep

(* Every step keeps wq, pend and the lists to waiters. *)
LEMMA WaitNext == Ind /\ TypeOK' /\ [Next]_vars => WaitInv'
<1> SUFFICES ASSUME Ind, TypeOK', [Next]_vars PROVE WaitInv'
  OBVIOUS
<1> USE MonitorAssumption DEF Ind, TypeOK, Procs, At, Goto, Take, GiveUp, Unlock, SlowPath, PlaceInv, RunInv, WaitInv, Waiting, NoLostWaiter, Kept, Asleep, WakeInHand, NoHolder, OneHolder, Inside
<1>1. ASSUME NEW p \in Procs, Enter(p) PROVE WaitInv'
  <2>1. CASE Take(p)
    BY <1>1, <2>1 DEF Enter
  <2>2. CASE mu # None /\ Goto(p, SlowPath(p)) /\ UNCHANGED mu
    BY SMTT(60), <1>1, <2>2 DEF Enter
  <2> QED
    BY <1>1, <2>1, <2>2 DEF Enter, TryLock
<1>2. ASSUME NEW p \in Procs, Signal(p) PROVE WaitInv'
  BY <1>2 DEF Signal, Released
<1>3. ASSUME NEW p \in Procs, Wait(p) PROVE WaitInv'
  BY <1>3 DEF Wait
<1>4. ASSUME NEW p \in Procs, Leave(p) PROVE WaitInv'
  BY <1>4 DEF Leave
<1>5. ASSUME NEW p \in Procs, Look(p) PROVE WaitInv'
  BY <1>5 DEF Look
<1>6. ASSUME NEW p \in Procs, Pop(p) PROVE WaitInv'
  BY <1>6 DEF Pop
<1>7. ASSUME NEW p \in Procs, Ready(p) PROVE WaitInv'
  BY <1>7 DEF Ready
<1>8. ASSUME NEW p \in Procs, WakeThread(p) PROVE WaitInv'
  BY <1>8 DEF WakeThread
<1>9. ASSUME NEW p \in Procs, Gone(p) PROVE WaitInv'
  BY <1>9 DEF Gone
<1>10. ASSUME NEW t \in Tasks, Spin(t) PROVE WaitInv'
  <2>1. CASE Take(t)
    BY <1>10, <2>1 DEF Spin
  <2>2. CASE Goto(t, "link") /\ UNCHANGED mu
    BY <1>10, <2>2 DEF Spin
  <2> QED
    BY <1>10, <2>1, <2>2 DEF Spin, TryLock
<1>11. ASSUME NEW t \in Tasks, Link(t) PROVE WaitInv'
  BY <1>11 DEF Link
<1>12. ASSUME NEW t \in Tasks, Try(t) PROVE WaitInv'
  <2>1. CASE Take(t)
    BY <1>12, <2>1 DEF Try, Unlinked
  <2>2. CASE mu # None /\ Goto(t, "parked") /\ UNCHANGED mu
    BY <1>12, <2>2 DEF Try, Unlinked
  <2> QED
    BY <1>12, <2>1, <2>2 DEF Try, Unlinked, TryLock
<1>13. ASSUME NEW t \in Tasks, Resume(t) PROVE WaitInv'
  BY <1>13 DEF Resume, RunNext
<1>14. ASSUME NEW t \in Tasks, WakeTask(t) PROVE WaitInv'
  <2>1. CASE Take(t)
    BY <1>14, <2>1 DEF WakeTask, RunNext, Retake
  <2>2. CASE mu # None /\ Goto(t, "spin") /\ UNCHANGED mu
    BY <1>14, <2>2 DEF WakeTask, RunNext, Retake
  <2> QED
    BY <1>14, <2>1, <2>2 DEF WakeTask, RunNext, Retake, TryLock
<1>15. ASSUME NEW t \in Threads, Lock(t) PROVE WaitInv'
  BY <1>15 DEF Lock
<1>16. ASSUME NEW t \in Threads, WordSet(t) PROVE WaitInv'
  BY <1>16 DEF WordSet
<1>17. ASSUME NEW t \in Threads, WaitNoMemory(t) PROVE WaitInv'
  BY <1>17 DEF WaitNoMemory
<1>18. CASE UNCHANGED vars
  BY <1>18 DEF vars
<1> QED
  BY <1>1, <1>2, <1>3, <1>4, <1>5, <1>6, <1>7, <1>8, <1>9, <1>10, <1>11, <1>12, <1>13, <1>14, <1>15, <1>16, <1>17, <1>18
  DEF Next, Choice, After, TaskStep, ThreadStep

(* A step that leaves tq and the hands alone, parks nobody and takes no    *)
(* parked task off a run queue keeps every parked task where it was.       *)
LEMMA ParkedSame ==
  ASSUME Ind, UNCHANGED <<tq, got>>,
         \A t \in Tasks : pc'[t] = "parked" => pc[t] = "parked" /\ (runq[t] > 0 => runq'[t] > 0)
  PROVE  ParkedKept'
  BY DEF Ind, NoLostEntrant, ParkedKept, OnTq

LEMMA ParkedPop ==
  ASSUME Ind, TypeOK', NEW p \in Procs, Pop(p)
  PROVE  ParkedKept'
<1>1. /\ pc[p] = "pop" /\ pc' = [pc EXCEPT ![p] = "ready"] /\ UNCHANGED runq
      /\ got' = [got EXCEPT ![p] = IF tq # <<>> THEN Head(tq) ELSE None]
      /\ tq' = IF tq # <<>> THEN Tail(tq) ELSE tq
  BY DEF Pop, At, Goto
<1>2. got[p] = None
  BY <1>1 DEF Ind, PlaceInv
<1> SUFFICES ASSUME NEW t \in Tasks, pc'[t] = "parked"
             PROVE  OnTq(t)' \/ runq'[t] > 0 \/ \E q \in Procs : got'[q] = t
  BY DEF ParkedKept
<1>3. pc[t] = "parked" /\ t # None
  BY <1>1, MonitorAssumption DEF Ind, TypeOK, Procs
<1>4. CASE OnTq(t)
  <2>1. PICK i \in 1..Len(tq) : tq[i] = t
    BY <1>4 DEF OnTq
  <2>2. tq # <<>> /\ tq \in Seq(Tasks)
    BY <2>1 DEF Ind, TypeOK
  <2>3. CASE i = 1
    BY <1>1, <2>1, <2>2, <2>3 DEF Ind, TypeOK
  <2>4. CASE i # 1
    <3>1. i - 1 \in 1..Len(tq') /\ tq'[i - 1] = t
      BY <1>1, <2>1, <2>2, <2>4
    <3> QED
      BY <3>1 DEF OnTq
  <2> QED
    BY <2>3, <2>4
<1>5. CASE runq[t] > 0
  BY <1>1, <1>5
<1>6. CASE \E q \in Procs : got[q] = t
  BY <1>1, <1>2, <1>3, <1>6 DEF Ind, TypeOK
<1> QED
  BY <1>3, <1>4, <1>5, <1>6 DEF Ind, NoLostEntrant, ParkedKept

LEMMA ParkedReady ==
  ASSUME Ind, TypeOK', NEW p \in Procs, Ready(p)
  PROVE  ParkedKept'
<1>1. /\ UNCHANGED tq /\ pc' = [pc EXCEPT ![p] = "wake"] /\ got' = [got EXCEPT ![p] = None]
      /\ \A t \in Tasks : runq'[t] = IF got[p] = t THEN runq[t] + 1 ELSE runq[t]
  BY DEF Ready, At, Goto
<1> SUFFICES ASSUME NEW t \in Tasks, pc'[t] = "parked"
             PROVE  OnTq(t)' \/ runq'[t] > 0 \/ \E q \in Procs : got'[q] = t
  BY DEF ParkedKept
<1>2. pc[t] = "parked" /\ runq[t] \in Nat
  BY <1>1 DEF Ind, TypeOK, Procs
<1>3. CASE OnTq(t)
  BY <1>1, <1>3 DEF OnTq
<1>4. CASE runq[t] > 0
  BY <1>1, <1>2, <1>4
<1>5. CASE \E q \in Procs : got[q] = t
  <2>1. PICK q \in Procs : got[q] = t
    BY <1>5
  <2>2. CASE q = p
    BY <1>1, <1>2, <2>1, <2>2
  <2>3. CASE q # p
    BY <1>1, <2>1, <2>3 DEF Ind, TypeOK
  <2> QED
    BY <2>2, <2>3
<1> QED
  BY <1>2, <1>3, <1>4, <1>5 DEF Ind, NoLostEntrant, ParkedKept

LEMMA ParkedTry ==
  ASSUME Ind, TypeOK', NEW t \in Tasks, Try(t)
  PROVE  ParkedKept'
<1>1. /\ UNCHANGED <<got, runq>> /\ pc[t] = "try" /\ tspin = t
      /\ Len(tq) \in Nat /\ Len(tq) > 0 /\ tq[Len(tq)] = t
  BY MonitorAssumption DEF Try, At, Ind, TqInv, TypeOK, Procs
<1>2. CASE Take(t)
  <2>1. tq' = SubSeq(tq, 1, Len(tq) - 1) /\ pc' = [pc EXCEPT ![t] = "body"]
    BY <1>2 DEF Try, Unlinked, Take, Goto
  <2>2. /\ Len(tq') = Len(tq) - 1
        /\ \A i \in 1..(Len(tq) - 1) : tq'[i] = tq[i]
    BY <1>1, <2>1, FrontFacts DEF Ind, TypeOK
  <2> SUFFICES ASSUME NEW s \in Tasks, pc'[s] = "parked"
               PROVE  OnTq(s)' \/ runq'[s] > 0 \/ \E q \in Procs : got'[q] = s
    BY DEF ParkedKept
  <2>3. pc[s] = "parked" /\ s # t
    BY <1>1, <2>1 DEF Ind, TypeOK, Procs
  <2>4. OnTq(s) => OnTq(s)'
    <3>1. SUFFICES ASSUME NEW i \in 1..Len(tq), tq[i] = s PROVE OnTq(s)'
      BY DEF OnTq
    <3>2. i \in 1..(Len(tq) - 1)
      BY <1>1, <2>3, <3>1
    <3>3. i \in 1..Len(tq') /\ tq'[i] = s
      BY <2>2, <3>1, <3>2
    <3> QED
      BY <3>3 DEF OnTq
  <2> QED
    BY <1>1, <2>3, <2>4 DEF Ind, NoLostEntrant, ParkedKept
<1>3. CASE mu # None /\ Goto(t, "parked") /\ UNCHANGED mu
  <2>1. tq' = tq /\ pc' = [pc EXCEPT ![t] = "parked"]
    BY <1>3 DEF Try, Goto
  <2>2. OnTq(t)'
    BY <1>1, <2>1 DEF OnTq
  <2>3. \A s \in Tasks : s # t => (pc'[s] = "parked" => pc[s] = "parked") /\ (OnTq(s) => OnTq(s)')
    BY <2>1 DEF Ind, TypeOK, Procs, OnTq
  <2> QED
    BY <1>1, <2>2, <2>3 DEF Ind, NoLostEntrant, ParkedKept
<1> QED
  BY <1>2, <1>3 DEF Try, TryLock

LEMMA ComingPop ==
  ASSUME Ind, NEW p \in Procs, Pop(p)
  PROVE  SomeoneComes'
<1> SUFFICES ASSUME tq' # <<>> PROVE Coming(p)'
  BY DEF SomeoneComes
<1>1. CASE tq = <<>>
  BY <1>1 DEF Pop
<1>2. CASE tq # <<>>
  <2>1. Head(tq) \in Tasks /\ Head(tq) # None
    BY <1>2, HeadTailProperties, MonitorAssumption DEF Ind, TypeOK, Procs
  <2>2. pc'[p] = "ready" /\ got'[p] = Head(tq)
    BY <1>2 DEF Pop, Goto, Ind, TypeOK
  <2> QED
    BY <2>1, <2>2 DEF Coming
<1> QED
  BY <1>1, <1>2

LEMMA ComingReady ==
  ASSUME Ind, TypeOK', NEW p \in Procs, Ready(p)
  PROVE  SomeoneComes'
<1>1. /\ UNCHANGED <<tq, mu>> /\ pc[p] = "ready" /\ pc' = [pc EXCEPT ![p] = "wake"]
      /\ got' = [got EXCEPT ![p] = None]
      /\ \A t \in Tasks : runq'[t] = IF got[p] = t THEN runq[t] + 1 ELSE runq[t]
  BY DEF Ready, At, Goto
<1> SUFFICES ASSUME Orderly', mu' = None, tq' # <<>>
             PROVE  \E q \in Procs : Coming(q)'
  BY DEF SomeoneComes
<1>2. Orderly
  BY <1>1 DEF Ind, TypeOK, Orderly, Procs
<1>3. PICK q \in Procs : Coming(q)
  BY <1>1, <1>2 DEF Ind, NoLostEntrant, SomeoneComes
<1>4. CASE got[p] # None
  <2>1. got[p] \in Tasks /\ got[p] \in Procs /\ got[p] # p /\ pc[got[p]] = "parked" /\ runq[got[p]] = 0
    <3>1. got[p] \in Tasks /\ got[p] \in Procs
      BY <1>4 DEF Ind, TypeOK, Procs
    <3>2. pc[got[p]] = "parked" /\ runq[got[p]] = 0
      BY <1>4 DEF Ind, RunInv
    <3> QED
      BY <1>1, <3>1, <3>2
  <2>2. runq'[got[p]] = runq[got[p]] + 1
    BY <1>1, <2>1
  <2>3. pc'[got[p]] = pc[got[p]]
    BY <1>1, <2>1 DEF Ind, TypeOK
  <2> QED
    BY <2>1, <2>2, <2>3 DEF Coming
<1>5. CASE got[p] = None
  <2>1. q # p
    BY <1>1, <1>3, <1>5 DEF Coming
  <2>2. pc'[q] = pc[q] /\ got'[q] = got[q]
    BY <1>1, <2>1 DEF Ind, TypeOK
  <2>3. pc[q] = "parked" => q \in Tasks /\ runq'[q] = runq[q]
    BY <1>1, <1>5, MonitorAssumption DEF Ind, PlaceInv, Procs
  <2> QED
    BY <1>3, <2>2, <2>3 DEF Coming
<1> QED
  BY <1>4, <1>5


(* A step that does not touch a waiter's queue, word or holders keeps it. *)
LEMMA KeptSame ==
  ASSUME Ind, NEW q \in Procs, Waiting(q), q \in wq' <=> q \in wq,
         q \in Tasks => runq'[q] = runq[q],
         q \in Threads => /\ q \in pend' <=> q \in pend
                          /\ woken'[q] <=> woken[q]
                          /\ \A r \in Procs : q \in mine'[r] <=> q \in mine[r]
  PROVE  Kept(q)'
<1>1. Kept(q)
  BY DEF Ind, NoLostWaiter, Kept
<1>2. CASE q \in Tasks
  BY <1>1, <1>2 DEF Kept, Asleep, WakeInHand
<1>3. CASE q \in Threads
  <2>1. Asleep(q) <=> Asleep(q)'
    BY <1>3, MonitorAssumption DEF Asleep, NoHolder
  <2>2. OneHolder(q) <=> OneHolder(q)'
    BY <1>3 DEF OneHolder
  <2>3. WakeInHand(q) <=> WakeInHand(q)'
    BY <1>3, <2>2, MonitorAssumption DEF WakeInHand, NoHolder
  <2> QED
    BY <1>1, <2>1, <2>3 DEF Kept
<1> QED
  BY <1>2, <1>3 DEF Procs

(* The unlock hands pend over to the leaver: what was there has one holder. *)
LEMMA KeptUnlock ==
  ASSUME Ind, NEW p \in Procs, Inside(p), Unlock(p), UNCHANGED runq,
         NEW q \in Procs, q # p, Waiting(q), q \in wq' <=> q \in wq,
         q \in Threads => (woken'[q] <=> woken[q])
  PROVE  Kept(q)'
<1>1. mine[p] = {}
  BY DEF Ind, PlaceInv, Inside
<1>2. mine' = [mine EXCEPT ![p] = pend] /\ pend' = {}
  BY DEF Unlock, GiveUp
<1>3. CASE q \notin pend
  <2>1. \A r \in Procs : q \in mine'[r] <=> q \in mine[r]
    BY <1>1, <1>2, <1>3 DEF Ind, TypeOK
  <2> QED
    BY <1>2, <1>3, <2>1, KeptSame
<1>4. CASE q \in pend
  <2>1. q \in Threads /\ q \notin Tasks /\ q \notin wq
    BY <1>4, MonitorAssumption DEF Ind, TypeOK, WaitInv
  <2>2. ~woken[q] /\ NoHolder(q)
    BY <1>4, <2>1 DEF Ind, NoLostWaiter, Kept, WakeInHand
  <2>3. q \in mine'[p] /\ \A r \in Procs : q \in mine'[r] => r = p
    BY <1>2, <1>4, <2>2 DEF NoHolder, Ind, TypeOK
  <2>4. OneHolder(q)'
    BY <2>3 DEF OneHolder
  <2> QED
    BY <1>2, <2>1, <2>2, <2>4 DEF Kept, WakeInHand
<1> QED
  BY <1>3, <1>4

LEMMA WaitersLeave ==
  ASSUME Ind, TypeOK', NEW p \in Procs, Leave(p)
  PROVE  NoLostWaiter'
<1>1. Inside(p) /\ Unlock(p) /\ UNCHANGED <<wq, runq, woken>>
  BY DEF Leave
<1>2. pend' = {} /\ pc' = [pc EXCEPT ![p] = "look"] /\ waits' = [waits EXCEPT ![p] = FALSE]
  BY DEF Leave, Unlock, GiveUp, Goto
<1>3. ASSUME NEW q \in Procs, Waiting(q)' PROVE Kept(q)'
  <2>1. q # p /\ Waiting(q)
    BY <1>2, <1>3 DEF Waiting, Ind, TypeOK
  <2> QED
    BY <1>1, <2>1, KeptUnlock
<1> QED
  BY <1>2, <1>3 DEF NoLostWaiter, Kept

LEMMA WaitersWait ==
  ASSUME Ind, TypeOK', NEW p \in Procs, Wait(p)
  PROVE  NoLostWaiter'
<1>1. /\ Inside(p) /\ Unlock(p) /\ UNCHANGED runq /\ wq' = wq \cup {p}
      /\ woken' = [t \in Threads |-> t # p /\ woken[t]]
  BY DEF Wait
<1>2. /\ pend' = {} /\ mine' = [mine EXCEPT ![p] = pend]
      /\ pc' = [pc EXCEPT ![p] = "look"] /\ waits' = [waits EXCEPT ![p] = TRUE]
  BY DEF Wait, Unlock, GiveUp, Goto
<1>3. ASSUME NEW q \in Procs, q # p, Waiting(q)' PROVE Kept(q)'
  <2>1. Waiting(q) /\ (q \in wq' <=> q \in wq)
    BY <1>1, <1>2, <1>3 DEF Waiting, Ind, TypeOK
  <2>2. q \in Threads => (woken'[q] <=> woken[q])
    BY <1>1, <1>3
  <2> QED
    BY <1>1, <1>3, <2>1, <2>2, KeptUnlock
<1>4. Kept(p)'
  <2>1. ~Waiting(p) /\ pc[p] # "parked"
    BY <1>1 DEF Inside, Waiting
  <2>2. CASE p \in Tasks
    <3>1. runq[p] = 0
      BY <2>1, <2>2 DEF Ind, RunInv
    <3> QED
      BY <1>1, <2>2, <3>1 DEF Kept, Asleep
  <2>3. CASE p \in Threads
    <3>1. p \notin pend /\ NoHolder(p)
      BY <2>1 DEF Ind, WaitInv, NoHolder
    <3>2. NoHolder(p)'
      BY <1>2, <3>1 DEF NoHolder, Ind, TypeOK
    <3>3. ~woken'[p] /\ p \notin pend' /\ p \notin Tasks
      BY <1>1, <1>2, <2>3, MonitorAssumption
    <3> QED
      BY <1>1, <3>2, <3>3 DEF Kept, Asleep
  <2> QED
    BY <2>2, <2>3 DEF Procs
<1> QED
  BY <1>2, <1>3, <1>4 DEF NoLostWaiter, Kept

(* A step that only runs or readies a task that is not in WAIT after it. *)
LEMMA WaitersOther ==
  ASSUME Ind, NEW t, UNCHANGED <<wq, pend, mine, woken, waits>>,
         \A s \in Tasks : s # t => runq'[s] = runq[s],
         \A q \in Procs : Waiting(q)' => Waiting(q) /\ q # t,
         Orderly' => Orderly,
         Orderly' /\ mu' = None => mu = None
  PROVE  NoLostWaiter'
<1>1. ASSUME NEW q \in Procs, Waiting(q)' PROVE Kept(q)'
  BY <1>1, KeptSame
<1> QED
  BY <1>1 DEF NoLostWaiter, Kept, Ind

LEMMA WaitersReady ==
  ASSUME Ind, TypeOK', NEW p \in Procs, Ready(p)
  PROVE  NoLostWaiter'
<1>1. /\ UNCHANGED <<wq, pend, mine, woken, waits, mu>>
      /\ pc[p] = "ready" /\ pc' = [pc EXCEPT ![p] = "wake"]
      /\ \A s \in Tasks : runq'[s] = IF got[p] = s THEN runq[s] + 1 ELSE runq[s]
  BY DEF Ready, At, Goto
<1>2. PICK g : g = got[p]
  OBVIOUS
<1>3. \A s \in Tasks : s # g => runq'[s] = runq[s]
  BY <1>1, <1>2
<1>4. \A q \in Procs : Waiting(q)' => Waiting(q)
  BY <1>1 DEF Waiting, Ind, TypeOK
<1>5. g # None => ~Waiting(g)
  BY <1>2 DEF Ind, RunInv, Waiting
<1>6. None \notin Procs
  BY MonitorAssumption
<1>7. \A q \in Procs : Waiting(q)' => Waiting(q) /\ q # g
  BY <1>4, <1>5, <1>6
<1>8. Orderly' => Orderly
  BY <1>1 DEF Orderly, Ind, TypeOK, Procs
<1> QED
  BY <1>1, <1>3, <1>7, <1>8, WaitersOther

(* Every step keeps a parked task where someone will find it. *)
LEMMA ParkedNext == Ind /\ TypeOK' /\ [Next]_vars => ParkedKept'
<1> SUFFICES ASSUME Ind, TypeOK', [Next]_vars PROVE ParkedKept'
  OBVIOUS
<1> USE MonitorAssumption DEF Ind, TypeOK, Procs, At, Goto, Take, GiveUp, Unlock, SlowPath, NoLostEntrant, ParkedKept, OnTq, Inside
<1>1. ASSUME NEW p \in Procs, Enter(p) PROVE ParkedKept'
  <2>1. CASE Take(p)
    BY <1>1, <2>1 DEF Enter
  <2>2. CASE mu # None /\ Goto(p, SlowPath(p)) /\ UNCHANGED mu
    BY <1>1, <2>2 DEF Enter
  <2> QED
    BY <1>1, <2>1, <2>2 DEF Enter, TryLock
<1>2. ASSUME NEW p \in Procs, Signal(p) PROVE ParkedKept'
  <2>1. UNCHANGED <<tq, got>>
    BY <1>2 DEF Signal, Released
  <2>2. \A s \in Tasks : pc'[s] = "parked" => pc[s] = "parked" /\ (runq[s] > 0 => runq'[s] > 0)
    BY <1>2 DEF Signal, Released
  <2> QED
    BY <2>1, <2>2, ParkedSame
<1>3. ASSUME NEW p \in Procs, Wait(p) PROVE ParkedKept'
  BY <1>3 DEF Wait
<1>4. ASSUME NEW p \in Procs, Leave(p) PROVE ParkedKept'
  <2>1. UNCHANGED <<tq, got>>
    BY <1>4 DEF Leave
  <2>2. \A s \in Tasks : pc'[s] = "parked" => pc[s] = "parked" /\ (runq[s] > 0 => runq'[s] > 0)
    BY <1>4 DEF Leave
  <2> QED
    BY <2>1, <2>2, ParkedSame
<1>5. ASSUME NEW p \in Procs, Look(p) PROVE ParkedKept'
  <2>1. UNCHANGED <<tq, got>>
    BY <1>5 DEF Look
  <2>2. \A s \in Tasks : pc'[s] = "parked" => pc[s] = "parked" /\ (runq[s] > 0 => runq'[s] > 0)
    BY <1>5 DEF Look
  <2> QED
    BY <2>1, <2>2, ParkedSame
<1>6. ASSUME NEW p \in Procs, Pop(p) PROVE ParkedKept'
  BY <1>6, ParkedPop
<1>7. ASSUME NEW p \in Procs, Ready(p) PROVE ParkedKept'
  BY <1>7, ParkedReady
<1>8. ASSUME NEW p \in Procs, WakeThread(p) PROVE ParkedKept'
  BY <1>8 DEF WakeThread
<1>9. ASSUME NEW p \in Procs, Gone(p) PROVE ParkedKept'
  <2>1. UNCHANGED <<tq, got>>
    BY <1>9 DEF Gone
  <2>2. \A s \in Tasks : pc'[s] = "parked" => pc[s] = "parked" /\ (runq[s] > 0 => runq'[s] > 0)
    BY <1>9 DEF Gone
  <2> QED
    BY <2>1, <2>2, ParkedSame
<1>10. ASSUME NEW t \in Tasks, Spin(t) PROVE ParkedKept'
  <2>1. UNCHANGED <<tq, got>> /\ \E to \in {"body", "link", "spin"} : pc' = [pc EXCEPT ![t] = to]
    BY <1>10 DEF Spin
  <2>2. \A s \in Tasks : s # t => runq'[s] = runq[s]
    BY <1>10 DEF Spin
  <2>3. \A s \in Tasks : pc'[s] = "parked" => pc[s] = "parked" /\ (runq[s] > 0 => runq'[s] > 0)
    BY <2>1, <2>2
  <2> QED
    BY <2>1, <2>3, ParkedSame
<1>11. ASSUME NEW t \in Tasks, Link(t) PROVE ParkedKept'
  <2>1. UNCHANGED <<got, runq>> /\ tq' = Append(tq, t) /\ pc' = [pc EXCEPT ![t] = "try"]
    BY <1>11 DEF Link
  <2>2. \A i \in 1..Len(tq) : i \in 1..Len(tq') /\ tq'[i] = tq[i]
    BY <2>1
  <2>3. \A s \in Tasks : (OnTq(s) => OnTq(s)') /\ (pc'[s] = "parked" => pc[s] = "parked")
    BY <2>1, <2>2
  <2> QED
    BY <2>1, <2>3
<1>12. ASSUME NEW t \in Tasks, Try(t) PROVE ParkedKept'
  BY <1>12, ParkedTry
<1>13. ASSUME NEW t \in Tasks, Resume(t) PROVE ParkedKept'
  <2>1. UNCHANGED <<tq, got>>
    BY <1>13 DEF Resume, RunNext
  <2>2. \A s \in Tasks : pc'[s] = "parked" => pc[s] = "parked" /\ (runq[s] > 0 => runq'[s] > 0)
    BY <1>13 DEF Resume, RunNext
  <2> QED
    BY <2>1, <2>2, ParkedSame
<1>14. ASSUME NEW t \in Tasks, WakeTask(t) PROVE ParkedKept'
  <2>1. UNCHANGED <<tq, got>> /\ \E to \in {"body", "link", "spin"} : pc' = [pc EXCEPT ![t] = to]
    BY <1>14 DEF WakeTask, Retake, TryLock, RunNext
  <2>2. \A s \in Tasks : s # t => runq'[s] = runq[s]
    BY <1>14 DEF WakeTask, Retake, TryLock, RunNext
  <2>3. \A s \in Tasks : pc'[s] = "parked" => pc[s] = "parked" /\ (runq[s] > 0 => runq'[s] > 0)
    BY <2>1, <2>2
  <2> QED
    BY <2>1, <2>3, ParkedSame
<1>15. ASSUME NEW t \in Threads, Lock(t) PROVE ParkedKept'
  BY <1>15 DEF Lock
<1>16. ASSUME NEW t \in Threads, WordSet(t) PROVE ParkedKept'
  BY <1>16 DEF WordSet
<1>17. ASSUME NEW t \in Threads, WaitNoMemory(t) PROVE ParkedKept'
  BY <1>17 DEF WaitNoMemory
<1>18. CASE UNCHANGED vars
  BY <1>18 DEF vars
<1> QED
  BY <1>1, <1>2, <1>3, <1>4, <1>5, <1>6, <1>7, <1>8, <1>9, <1>10, <1>11, <1>12, <1>13, <1>14, <1>15, <1>16, <1>17, <1>18
  DEF Next, Choice, After, TaskStep, ThreadStep

(* Every step that leaves the mutex free and tq filled leaves someone     *)
(* on the way.                                                             *)
LEMMA ComingNext == Ind /\ TypeOK' /\ [Next]_vars => SomeoneComes'
<1> SUFFICES ASSUME Ind, TypeOK', [Next]_vars PROVE SomeoneComes'
  OBVIOUS
<1> USE MonitorAssumption DEF Ind, TypeOK, Procs, At, Goto, Take, GiveUp, Unlock, SlowPath, PlaceInv, MuInv, TqInv, NoLostEntrant, Orderly, Coming, SomeoneComes, Inside
<1>1. ASSUME NEW p \in Procs, Enter(p) PROVE SomeoneComes'
  <2>1. CASE Take(p)
    BY <1>1, <2>1 DEF Enter
  <2>2. CASE mu # None /\ Goto(p, SlowPath(p)) /\ UNCHANGED mu
    BY <1>1, <2>2 DEF Enter
  <2> QED
    BY <1>1, <2>1, <2>2 DEF Enter, TryLock
<1>2. ASSUME NEW p \in Procs, Signal(p) PROVE SomeoneComes'
  BY <1>2 DEF Signal, Released
<1>3. ASSUME NEW p \in Procs, Wait(p) PROVE SomeoneComes'
  BY <1>3 DEF Wait
<1>4. ASSUME NEW p \in Procs, Leave(p) PROVE SomeoneComes'
  BY <1>4 DEF Leave
<1>5. ASSUME NEW p \in Procs, Look(p) PROVE SomeoneComes'
  BY <1>5 DEF Look
<1>6. ASSUME NEW p \in Procs, Pop(p) PROVE SomeoneComes'
  BY <1>6, ComingPop
<1>7. ASSUME NEW p \in Procs, Ready(p) PROVE SomeoneComes'
  BY <1>7, ComingReady
<1>8. ASSUME NEW p \in Procs, WakeThread(p) PROVE SomeoneComes'
  BY <1>8 DEF WakeThread
<1>9. ASSUME NEW p \in Procs, Gone(p) PROVE SomeoneComes'
  BY <1>9 DEF Gone
<1>10. ASSUME NEW t \in Tasks, Spin(t) PROVE SomeoneComes'
  <2>1. CASE Take(t)
    BY <1>10, <2>1 DEF Spin
  <2>2. CASE Goto(t, "link") /\ UNCHANGED mu
    BY <1>10, <2>2 DEF Spin
  <2> QED
    BY <1>10, <2>1, <2>2 DEF Spin, TryLock
<1>11. ASSUME NEW t \in Tasks, Link(t) PROVE SomeoneComes'
  BY <1>11 DEF Link
<1>12. ASSUME NEW t \in Tasks, Try(t) PROVE SomeoneComes'
  <2>1. CASE Take(t)
    BY <1>12, <2>1 DEF Try, Unlinked
  <2>2. CASE mu # None /\ Goto(t, "parked") /\ UNCHANGED mu
    BY <1>12, <2>2 DEF Try, Unlinked
  <2> QED
    BY <1>12, <2>1, <2>2 DEF Try, Unlinked, TryLock
<1>13. ASSUME NEW t \in Tasks, Resume(t) PROVE SomeoneComes'
  BY <1>13 DEF Resume, RunNext
<1>14. ASSUME NEW t \in Tasks, WakeTask(t) PROVE SomeoneComes'
  <2>1. CASE Take(t)
    BY <1>14, <2>1 DEF WakeTask, RunNext, Retake
  <2>2. CASE mu # None /\ Goto(t, "spin") /\ UNCHANGED mu
    BY <1>14, <2>2 DEF WakeTask, RunNext, Retake
  <2> QED
    BY <1>14, <2>1, <2>2 DEF WakeTask, RunNext, Retake, TryLock
<1>15. ASSUME NEW t \in Threads, Lock(t) PROVE SomeoneComes'
  BY <1>15 DEF Lock
<1>16. ASSUME NEW t \in Threads, WordSet(t) PROVE SomeoneComes'
  BY <1>16 DEF WordSet
<1>17. ASSUME NEW t \in Threads, WaitNoMemory(t) PROVE SomeoneComes'
  BY <1>17 DEF WaitNoMemory
<1>18. CASE UNCHANGED vars
  BY <1>18 DEF vars
<1> QED
  BY <1>1, <1>2, <1>3, <1>4, <1>5, <1>6, <1>7, <1>8, <1>9, <1>10, <1>11, <1>12, <1>13, <1>14, <1>15, <1>16, <1>17, <1>18
  DEF Next, Choice, After, TaskStep, ThreadStep

(* Every step keeps the wake of every waiter, and pend with a holder. *)
LEMMA WaitersNext == Ind /\ TypeOK' /\ [Next]_vars => NoLostWaiter'
<1> SUFFICES ASSUME Ind, TypeOK', [Next]_vars PROVE NoLostWaiter'
  OBVIOUS
<1> USE MonitorAssumption DEF Ind, TypeOK, Procs, At, Goto, Take, GiveUp, Unlock, SlowPath, PlaceInv, MuInv, RunInv, WaitInv, Waiting, NoLostWaiter, Kept, Asleep, WakeInHand, NoHolder, OneHolder, Orderly, Inside
<1>1. ASSUME NEW p \in Procs, Enter(p) PROVE NoLostWaiter'
  <2>1. CASE Take(p)
    BY <1>1, <2>1 DEF Enter
  <2>2. CASE mu # None /\ Goto(p, SlowPath(p)) /\ UNCHANGED mu
    BY <1>1, <2>2 DEF Enter
  <2> QED
    BY <1>1, <2>1, <2>2 DEF Enter, TryLock
<1>2. ASSUME NEW p \in Procs, Signal(p) PROVE NoLostWaiter'
  BY <1>2 DEF Signal, Released
<1>3. ASSUME NEW p \in Procs, Wait(p) PROVE NoLostWaiter'
  BY <1>3, WaitersWait
<1>4. ASSUME NEW p \in Procs, Leave(p) PROVE NoLostWaiter'
  BY <1>4, WaitersLeave
<1>5. ASSUME NEW p \in Procs, Look(p) PROVE NoLostWaiter'
  BY <1>5 DEF Look
<1>6. ASSUME NEW p \in Procs, Pop(p) PROVE NoLostWaiter'
  BY <1>6 DEF Pop
<1>7. ASSUME NEW p \in Procs, Ready(p) PROVE NoLostWaiter'
  BY <1>7, WaitersReady
<1>8. ASSUME NEW p \in Procs, WakeThread(p) PROVE NoLostWaiter'
  BY <1>8 DEF WakeThread
<1>9. ASSUME NEW p \in Procs, Gone(p) PROVE NoLostWaiter'
  BY <1>9 DEF Gone
<1>10. ASSUME NEW t \in Tasks, Spin(t) PROVE NoLostWaiter'
  <2>1. CASE Take(t)
    BY <1>10, <2>1 DEF Spin
  <2>2. CASE Goto(t, "link") /\ UNCHANGED mu
    BY <1>10, <2>2 DEF Spin
  <2> QED
    BY <1>10, <2>1, <2>2 DEF Spin, TryLock
<1>11. ASSUME NEW t \in Tasks, Link(t) PROVE NoLostWaiter'
  BY <1>11 DEF Link
<1>12. ASSUME NEW t \in Tasks, Try(t) PROVE NoLostWaiter'
  <2>1. CASE Take(t)
    BY <1>12, <2>1 DEF Try, Unlinked
  <2>2. CASE mu # None /\ Goto(t, "parked") /\ UNCHANGED mu
    BY <1>12, <2>2 DEF Try, Unlinked
  <2> QED
    BY <1>12, <2>1, <2>2 DEF Try, Unlinked, TryLock
<1>13. ASSUME NEW t \in Tasks, Resume(t) PROVE NoLostWaiter'
  <2>1. UNCHANGED <<wq, pend, mine, woken, waits>> /\ (mu' = None => mu = None)
    BY <1>13 DEF Resume, RunNext
  <2>2. \A s \in Tasks : s # t => runq'[s] = runq[s]
    BY <1>13 DEF Resume, RunNext
  <2>3. \E to \in {"body", "spin"} : pc' = [pc EXCEPT ![t] = to]
    BY <1>13 DEF Resume, RunNext
  <2>4. \A q \in Procs : Waiting(q)' => Waiting(q) /\ q # t
    BY <2>1, <2>3
  <2>5. Orderly' => Orderly
    BY <2>3
  <2> QED
    BY <2>1, <2>2, <2>4, <2>5, WaitersOther
<1>14. ASSUME NEW t \in Tasks, WakeTask(t) PROVE NoLostWaiter'
  <2>1. UNCHANGED <<wq, pend, mine, woken, waits>> /\ (mu' = None => mu = None)
    BY <1>14 DEF WakeTask, RunNext, Retake, TryLock
  <2>2. \A s \in Tasks : s # t => runq'[s] = runq[s]
    BY <1>14 DEF WakeTask, RunNext, Retake, TryLock
  <2>3. \E to \in {"body", "spin"} : pc' = [pc EXCEPT ![t] = to]
    BY <1>14 DEF WakeTask, RunNext, Retake, TryLock
  <2>4. \A q \in Procs : Waiting(q)' => Waiting(q) /\ q # t
    BY <2>1, <2>3
  <2>5. Orderly' => Orderly
    BY <2>3
  <2> QED
    BY <2>1, <2>2, <2>4, <2>5, WaitersOther
<1>15. ASSUME NEW t \in Threads, Lock(t) PROVE NoLostWaiter'
  BY <1>15 DEF Lock
<1>16. ASSUME NEW t \in Threads, WordSet(t) PROVE NoLostWaiter'
  BY <1>16 DEF WordSet
<1>17. ASSUME NEW t \in Threads, WaitNoMemory(t) PROVE NoLostWaiter'
  BY <1>17 DEF WaitNoMemory
<1>18. CASE UNCHANGED vars
  BY <1>18 DEF vars
<1> QED
  BY <1>1, <1>2, <1>3, <1>4, <1>5, <1>6, <1>7, <1>8, <1>9, <1>10, <1>11, <1>12, <1>13, <1>14, <1>15, <1>16, <1>17, <1>18
  DEF Next, Choice, After, TaskStep, ThreadStep

-----------------------------------------------------------------------------
LEMMA IndInit == Init => Ind
<1> SUFFICES ASSUME Init PROVE Ind
  OBVIOUS
<1>1. TypeOK
  BY TypeInit
<1>2. PlaceInv /\ RunInv /\ WaitInv
  BY MonitorAssumption DEF Init, PlaceInv, RunInv, WaitInv, Waiting, Procs
<1>3. MuInv
  BY MonitorAssumption DEF Init, MuInv, Inside
<1>4. TqInv
  BY MonitorAssumption DEF Init, TqInv, Procs
<1>5. NoLostEntrant /\ NoLostWaiter
  BY DEF Init, NoLostEntrant, ParkedKept, SomeoneComes, NoLostWaiter, Waiting, Procs
<1> QED
  BY <1>1, <1>2, <1>3, <1>4, <1>5 DEF Ind

LEMMA IndNext == Ind /\ [Next]_vars => Ind'
<1> SUFFICES ASSUME Ind, [Next]_vars PROVE Ind'
  OBVIOUS
<1>1. TypeOK'
  BY TypeNext DEF Ind
<1>2. PlaceInv' /\ MuInv' /\ TqInv' /\ RunInv' /\ WaitInv'
  BY <1>1, PlaceNext, MuNext, TqNext, RunInvNext, WaitNext
<1>3. ParkedKept' /\ SomeoneComes' /\ NoLostWaiter'
  BY <1>1, ParkedNext, ComingNext, WaitersNext
<1> QED
  BY <1>1, <1>2, <1>3 DEF Ind, NoLostEntrant

LEMMA IndAlways == Spec => []Ind
  BY IndInit, IndNext, PTL DEF Spec

(* For any number of tasks and THREADs every variable keeps its type. *)
THEOREM TypeCorrect == Spec => []TypeOK
<1>1. Ind => TypeOK
  BY DEF Ind
<1> QED
  BY <1>1, IndAlways, PTL

(* At most one process is inside, whichever way it came in: the bodies of  *)
(* bound procedures are serialized.                                        *)
THEOREM MutualExclusionHolds == Spec => []MutualExclusion
<1>1. Ind => MutualExclusion
  BY DEF Ind, MuInv, MutualExclusion
<1> QED
  BY <1>1, IndAlways, PTL

(* No entrant is lost between its last trylock and the leaver's look at tq.*)
THEOREM NoEntrantIsLost == Spec => []NoLostEntrant
<1>1. Ind => NoLostEntrant
  BY DEF Ind
<1> QED
  BY <1>1, IndAlways, PTL

(* No waiter is lost between the queues, and no wake is left on pend.      *)
THEOREM NoWaiterIsLost == Spec => []NoLostWaiter
<1>1. Ind => NoLostWaiter
  BY DEF Ind
<1> QED
  BY <1>1, IndAlways, PTL

(* A task is linked into one run queue, once for each time it parks.       *)
THEOREM ReadyOnceHolds == Spec => []ReadyOnce
<1>1. Ind => ReadyOnce
  <2> SUFFICES ASSUME Ind PROVE ReadyOnce
    OBVIOUS
  <2>1. \A t \in Tasks : runq[t] <= 1
    <3>1. \A t \in Tasks : runq[t] = 0 \/ runq[t] = 1
      BY DEF Ind, RunInv
    <3>2. \A n : n = 0 \/ n = 1 => n <= 1
      OBVIOUS
    <3> QED
      BY <3>1, <3>2
  <2>3. \A t \in Tasks : runq[t] = 1 => pc[t] = "parked" \/ Waiting(t)
    BY DEF Ind, RunInv
  <2>2. ASSUME NEW t \in Tasks, NEW p \in Procs, NEW q \in Procs, got[p] = t, got[q] = t
        PROVE  p = q /\ runq[t] = 0
    BY <2>2, MonitorAssumption DEF Ind, RunInv, Procs
  <2> QED
    BY <2>1, <2>2, <2>3 DEF ReadyOnce
<1> QED
  BY <1>1, IndAlways, PTL

-----------------------------------------------------------------------------
(* Monitor implements MonitorSpec: each step is one of its steps, or one   *)
(* it does not see.                                                        *)
Map == [p \in Procs |-> Seen(p)]

(* Where a process is decides what it is to the monitor. *)
LEMMA SeenInside ==
  ASSUME NEW p \in Procs
  PROVE  /\ pc[p] \in {"body", "told"} => Seen(p) = "in"
         /\ (pc[p] \in {"body", "told"} => Seen(p) = "in")'
  BY DEF Seen, Inside

LEMMA SeenEntering ==
  ASSUME NEW p \in Procs
  PROVE  /\ WaitInv /\ pc[p] \in {"spin", "link", "try", "parked", "lock"} => Seen(p) = "wants"
         /\ (WaitInv /\ pc[p] \in {"spin", "link", "try", "parked", "lock"} => Seen(p) = "wants")'
  BY DEF Seen, Inside, Wants, WaitInv, Waiting

LEMMA SeenWaiting ==
  ASSUME NEW p \in Procs
  PROVE  /\ WaitInv /\ p \in wq => Seen(p) = "waiting"
         /\ (WaitInv /\ p \in wq => Seen(p) = "waiting")'
  BY DEF Seen, Inside, WaitInv, Waiting

LEMMA SeenReleased ==
  ASSUME NEW p \in Procs
  PROVE  /\ Waiting(p) /\ p \notin wq => Seen(p) = "wants"
         /\ (Waiting(p) /\ p \notin wq => Seen(p) = "wants")'
  BY DEF Seen, Inside, Wants, Waiting

(* A leaver past its unlock. *)
Unlocked(p) == pc[p] \in {"look", "pop", "ready", "wake"} /\ ~waits[p]

LEMMA SeenOut ==
  ASSUME NEW p \in Procs
  PROVE  /\ WaitInv /\ (pc[p] = "out" \/ Unlocked(p)) => Seen(p) = "out"
         /\ (WaitInv /\ (pc[p] = "out" \/ Unlocked(p)) => Seen(p) = "out")'
  BY DEF Unlocked, Seen, Inside, Wants, WaitInv, Waiting

LEMMA SeenSame ==
  ASSUME NEW q \in Procs, pc'[q] = pc[q], waits'[q] = waits[q], (q \in wq)' = (q \in wq)
  PROVE  Seen(q)' = Seen(q)
  BY DEF Seen, Inside, Wants, Waiting

(* The monitor is free for its users when the mutex is. *)
LEMMA FreeWhenUnlocked ==
  ASSUME MuInv, mu = None
  PROVE  Abstract!Free
<1> SUFFICES ASSUME NEW p \in Procs PROVE Map[p] # "in"
  BY DEF Abstract!Free, Map
<1>1. ~Inside(p)
  BY MonitorAssumption DEF MuInv
<1> QED
  BY <1>1 DEF Map, Seen

LEMMA OneMoves ==
  ASSUME NEW p \in Procs, NEW a, NEW b, Seen(p) = a, Seen(p)' = b,
         \A q \in Procs : q # p => Seen(q)' = Seen(q)
  PROVE  Abstract!Move(p, a, b)
  BY DEF Abstract!Move

LEMMA NobodyMoves ==
  ASSUME \A q \in Procs : Seen(q)' = Seen(q)
  PROVE  UNCHANGED Map
  BY DEF Map

(* A step in which one process goes from one place to another, and no      *)
(* waiter is released, leaves the others as they were.                     *)
LEMMA OthersSame ==
  ASSUME TypeOK, NEW p \in Procs, NEW to, Goto(p, to), UNCHANGED wq,
         \A q \in Procs : q # p => waits'[q] = waits[q]
  PROVE  /\ pc'[p] = to
         /\ \A q \in Procs : q # p => Seen(q)' = Seen(q)
<1>1. pc' = [pc EXCEPT ![p] = to] /\ pc \in [Procs -> Places]
  BY DEF Goto, TypeOK
<1>2. \A q \in Procs : q # p => pc'[q] = pc[q]
  BY <1>1
<1>3. pc'[p] = to
  BY <1>1
<1> QED
  BY <1>2, <1>3, SeenSame

LEMMA RefineInit == Init => Abstract!Init
  BY DEF Init, Abstract!Init, Seen, Inside, Wants, Waiting

(* With memory for the waiter records, every step maps to a step. *)
LEMMA RefineNext ==
  ASSUME Ind, Ind', ~MayRunOut, [Next]_vars
  PROVE  [Abstract!Next]_Map
<1> DEFINE Others(p) == \A q \in Procs : q # p => Seen(q)' = Seen(q)
<1>0. TypeOK /\ TypeOK' /\ WaitInv /\ WaitInv' /\ MuInv /\ PlaceInv /\ PlaceInv'
  BY DEF Ind
(* The abstract steps, and the one that shows nothing. *)
<1>a. ASSUME NEW p \in Procs, mu = None, Seen(p) = "out", Seen(p)' = "in", Others(p)
      PROVE  [Abstract!Next]_Map
  BY <1>a, <1>0, FreeWhenUnlocked, OneMoves DEF Abstract!Next, Abstract!EnterAtOnce
<1>b. ASSUME NEW p \in Procs, Seen(p) = "out", Seen(p)' = "wants", Others(p)
      PROVE  [Abstract!Next]_Map
  BY <1>b, OneMoves DEF Abstract!Next, Abstract!Want
<1>c. ASSUME NEW p \in Procs, mu = None, Seen(p) = "wants", Seen(p)' = "in", Others(p)
      PROVE  [Abstract!Next]_Map
  BY <1>c, <1>0, FreeWhenUnlocked, OneMoves DEF Abstract!Next, Abstract!Acquire
<1>d. ASSUME NEW p \in Procs, Seen(p)' = Seen(p), Others(p)
      PROVE  [Abstract!Next]_Map
  <2>1. \A q \in Procs : Seen(q)' = Seen(q)
    BY <1>d
  <2> QED
    BY <2>1, NobodyMoves
<1>e. ASSUME NEW p \in Procs, NEW to, Goto(p, to), UNCHANGED <<wq, waits>>
      PROVE  Others(p) /\ pc'[p] = to
  BY <1>e, <1>0, OthersSame
(* The ways in. *)
<1>f. ASSUME NEW p \in Procs, Take(p), UNCHANGED <<wq, waits>>, Seen(p) = "wants"
      PROVE  [Abstract!Next]_Map
  <2>1. Others(p) /\ pc'[p] = "body" /\ mu = None
    BY <1>f, <1>e DEF Take
  <2>2. Seen(p)' = "in"
    BY <2>1, SeenInside
  <2> QED
    BY <2>1, <2>2, <1>f, <1>c
<1>g. ASSUME NEW p \in Procs, NEW to, Goto(p, to), UNCHANGED <<wq, waits>>,
             pc[p] \in {"spin", "link", "try", "parked", "lock"},
             to \in {"spin", "link", "try", "parked", "lock"}
      PROVE  [Abstract!Next]_Map
  <2>1. Others(p) /\ pc'[p] = to
    BY <1>g, <1>e
  <2>2. Seen(p) = "wants"
    BY <1>0, <1>g, SeenEntering
  <2>3. Seen(p)' = "wants"
    BY <1>0, <1>g, <2>1, SeenEntering
  <2> QED
    BY <2>1, <2>2, <2>3, <1>d
<1>1. ASSUME NEW p \in Procs, Enter(p) PROVE [Abstract!Next]_Map
  <2>0. pc[p] = "out" /\ UNCHANGED <<wq, waits>> /\ TryLock(p, SlowPath(p))
    BY <1>1 DEF Enter, At
  <2>1. Seen(p) = "out"
    BY <1>0, <2>0, SeenOut
  <2>2. CASE Take(p)
    <3>1. Others(p) /\ pc'[p] = "body" /\ mu = None
      BY <2>0, <2>2, <1>e DEF Take
    <3>2. Seen(p)' = "in"
      BY <3>1, SeenInside
    <3> QED
      BY <2>1, <3>1, <3>2, <1>a
  <2>3. CASE Goto(p, SlowPath(p))
    <3>1. Others(p) /\ pc'[p] = SlowPath(p)
      BY <2>0, <2>3, <1>e
    <3>2. Seen(p)' = "wants"
      BY <1>0, <3>1, SeenEntering DEF SlowPath
    <3> QED
      BY <2>1, <3>1, <3>2, <1>b
  <2> QED
    BY <2>0, <2>2, <2>3 DEF TryLock
<1>2. ASSUME NEW p \in Procs, Lock(p) PROVE [Abstract!Next]_Map
  <2>1. Seen(p) = "wants"
    BY <1>0, <1>2, SeenEntering DEF Lock, At
  <2> QED
    BY <1>2, <2>1, <1>f DEF Lock
<1>3. ASSUME NEW p \in Procs, Spin(p) PROVE [Abstract!Next]_Map
  <2>1. pc[p] = "spin" /\ UNCHANGED <<wq, waits>> /\ (Take(p) \/ Goto(p, "link"))
    BY <1>3 DEF Spin, At
  <2>2. Seen(p) = "wants"
    BY <1>0, <2>1, SeenEntering
  <2>3. CASE Take(p)
    BY <2>1, <2>2, <2>3, <1>f
  <2>4. CASE Goto(p, "link")
    BY <2>1, <2>4, <1>g
  <2> QED
    BY <2>1, <2>3, <2>4
<1>4. ASSUME NEW p \in Procs, Link(p) PROVE [Abstract!Next]_Map
  BY <1>4, <1>g DEF Link, At
<1>5. ASSUME NEW p \in Procs, Try(p) PROVE [Abstract!Next]_Map
  <2>1. pc[p] = "try" /\ UNCHANGED <<wq, waits>> /\ (Take(p) \/ Goto(p, "parked"))
    BY <1>5 DEF Try, At, TryLock
  <2>2. Seen(p) = "wants"
    BY <1>0, <2>1, SeenEntering
  <2>3. CASE Take(p)
    BY <2>1, <2>2, <2>3, <1>f
  <2>4. CASE Goto(p, "parked")
    BY <2>1, <2>4, <1>g
  <2> QED
    BY <2>1, <2>3, <2>4
<1>6. ASSUME NEW p \in Procs, Resume(p) PROVE [Abstract!Next]_Map
  BY <1>6, <1>g DEF Resume, At
(* The steps of a holder. *)
<1>7. ASSUME NEW p \in Procs, Signal(p) PROVE [Abstract!Next]_Map
  <2>0. wq' = {} /\ UNCHANGED waits /\ pc[p] = "body" /\ Goto(p, "told")
    BY <1>7 DEF Signal, Released, At
  <2>1. pc' = [pc EXCEPT ![p] = "told"] /\ pc \in [Procs -> Places]
    BY <1>0, <2>0 DEF Goto, TypeOK
  <2>2. Seen(p) = "in" /\ Seen(p)' = "in"
    BY <2>0, <2>1, SeenInside
  <2>3. ASSUME NEW q \in Procs, q \in wq PROVE Seen(q)' = "wants" /\ Seen(q) = "waiting"
    <3>1. Waiting(q) /\ Seen(q) = "waiting"
      BY <1>0, <2>3, SeenWaiting DEF WaitInv
    <3>2. q # p
      BY <2>0, <3>1 DEF Waiting
    <3>3. Waiting(q)' /\ (q \notin wq)'
      BY <2>0, <2>1, <3>1, <3>2 DEF Waiting
    <3> QED
      BY <3>1, <3>3, SeenReleased
  <2>4. ASSUME NEW q \in Procs, q \notin wq PROVE Seen(q)' = Seen(q) /\ Seen(q) # "waiting"
    <3>1. Seen(q) # "waiting"
      BY <2>4 DEF Seen
    <3>2. CASE q = p
      BY <2>2, <3>1, <3>2
    <3>3. CASE q # p
      <4>1. pc'[q] = pc[q] /\ waits'[q] = waits[q] /\ (q \in wq)' = (q \in wq)
        BY <2>0, <2>1, <2>4, <3>3
      <4> QED
        BY <4>1, <3>1, SeenSame
    <3> QED
      BY <3>2, <3>3
  <2>5. Map' = [q \in Procs |-> IF Map[q] = "waiting" THEN "wants" ELSE Map[q]]
    BY <2>3, <2>4 DEF Map
  <2>6. Abstract!Signal(p)
    BY <2>2, <2>5 DEF Abstract!Signal, Map
  <2> QED
    BY <2>6 DEF Abstract!Next
<1>8. ASSUME NEW p \in Procs, Wait(p) PROVE [Abstract!Next]_Map
  <2>0. /\ Inside(p) /\ wq' = wq \cup {p} /\ waits' = [waits EXCEPT ![p] = TRUE]
        /\ Goto(p, "look")
    BY <1>8 DEF Wait, Unlock
  <2>1. pc' = [pc EXCEPT ![p] = "look"] /\ waits \in [Procs -> BOOLEAN] /\ pc \in [Procs -> Places]
    BY <1>0, <2>0 DEF Goto, TypeOK
  <2>2. Seen(p) = "in" /\ Seen(p)' = "waiting"
    BY <1>0, <2>0, SeenInside, SeenWaiting DEF Inside
  <2>3. \A q \in Procs : q # p =>
          pc'[q] = pc[q] /\ waits'[q] = waits[q] /\ (q \in wq)' = (q \in wq)
    BY <2>0, <2>1
  <2>4. Others(p)
    BY <2>3, SeenSame
  <2> QED
    BY <2>2, <2>4, OneMoves DEF Abstract!Next, Abstract!Wait
<1>9. ASSUME NEW p \in Procs, Leave(p) PROVE [Abstract!Next]_Map
  <2>0. Inside(p) /\ wq' = wq /\ waits' = [waits EXCEPT ![p] = FALSE] /\ Goto(p, "look")
    BY <1>9 DEF Leave, Unlock
  <2>1. pc' = [pc EXCEPT ![p] = "look"] /\ waits \in [Procs -> BOOLEAN] /\ pc \in [Procs -> Places]
    BY <1>0, <2>0 DEF Goto, TypeOK
  <2>2. pc'[p] = "look" /\ ~waits'[p]
    BY <2>0, <2>1
  <2>3. Seen(p) = "in" /\ Seen(p)' = "out"
    BY <1>0, <2>0, <2>2, SeenInside, SeenOut DEF Inside, Unlocked
  <2>4. \A q \in Procs : q # p =>
          pc'[q] = pc[q] /\ waits'[q] = waits[q] /\ (q \in wq)' = (q \in wq)
    BY <2>0, <2>1
  <2>5. Others(p)
    BY <2>4, SeenSame
  <2> QED
    BY <2>3, <2>5, OneMoves DEF Abstract!Next, Abstract!Leave
(* What comes after the unlock shows nothing. *)
<1>h. ASSUME NEW p \in Procs, NEW to, Goto(p, to), UNCHANGED <<wq, waits>>,
             pc[p] \in {"look", "pop", "ready", "wake"},
             to = "sleep" => waits[p], to = "out" => ~waits[p],
             to \in {"pop", "ready", "wake", "sleep", "out"}
      PROVE  [Abstract!Next]_Map
  <2>1. Others(p) /\ pc'[p] = to
    BY <1>h, <1>e
  <2>2. Seen(p)' = Seen(p)
    BY <1>h, <2>1 DEF Seen, Inside, Wants, Waiting
  <2> QED
    BY <2>1, <2>2, <1>d
<1>10. ASSUME NEW p \in Procs, Look(p) PROVE [Abstract!Next]_Map
  BY <1>10, <1>h DEF Look, At
<1>11. ASSUME NEW p \in Procs, Pop(p) PROVE [Abstract!Next]_Map
  BY <1>11, <1>h DEF Pop, At
<1>12. ASSUME NEW p \in Procs, Ready(p) PROVE [Abstract!Next]_Map
  BY <1>12, <1>h DEF Ready, At
<1>13. ASSUME NEW p \in Procs, WakeThread(p) PROVE [Abstract!Next]_Map
  <2>1. \A q \in Procs : Seen(q)' = Seen(q)
    BY <1>13, SeenSame DEF WakeThread
  <2> QED
    BY <2>1, NobodyMoves
<1>14. ASSUME NEW p \in Procs, Gone(p) PROVE [Abstract!Next]_Map
  BY <1>14, <1>h DEF Gone, At
(* The two ways back from a WAIT. *)
<1>i. ASSUME NEW p \in Procs, pc[p] = "sleep", p \notin wq PROVE Seen(p) = "wants"
  BY <1>i, SeenReleased DEF Waiting
<1>15. ASSUME NEW p \in Tasks, WakeTask(p) PROVE [Abstract!Next]_Map
  <2>0. /\ p \in Procs /\ pc[p] = "sleep" /\ runq[p] > 0 /\ UNCHANGED <<wq, waits>>
        /\ Take(p) \/ Goto(p, "spin")
    BY <1>15 DEF WakeTask, At, RunNext, Retake, TryLock, Procs
  <2>1. p \notin wq
    BY <2>0, <1>15 DEF Ind, NoLostWaiter, Waiting, Kept, Asleep
  <2>2. Seen(p) = "wants"
    BY <2>0, <2>1, <1>i
  <2>3. CASE Take(p)
    BY <2>0, <2>2, <2>3, <1>f
  <2>4. CASE Goto(p, "spin")
    <3>1. Others(p) /\ pc'[p] = "spin"
      BY <2>0, <2>4, <1>e
    <3>2. Seen(p)' = "wants"
      BY <1>0, <2>0, <3>1, SeenEntering
    <3> QED
      BY <2>0, <2>2, <3>1, <3>2, <1>d
  <2> QED
    BY <2>0, <2>3, <2>4
<1>16. ASSUME NEW h \in Threads, WordSet(h) PROVE [Abstract!Next]_Map
  <2>0. h \in Procs /\ pc[h] = "sleep" /\ woken[h] /\ UNCHANGED <<wq, waits>> /\ Goto(h, "lock")
    BY <1>16 DEF WordSet, At, Procs
  <2>1. h \notin wq
    BY <2>0, <1>16, MonitorAssumption DEF Ind, NoLostWaiter, Waiting, Kept, Asleep
  <2>2. Seen(h) = "wants"
    BY <2>0, <2>1, <1>i
  <2>3. Others(h) /\ pc'[h] = "lock"
    BY <2>0, <1>e
  <2>4. Seen(h)' = "wants"
    BY <1>0, <2>0, <2>3, SeenEntering
  <2> QED
    BY <2>0, <2>2, <2>3, <2>4, <1>d
<1>17. CASE UNCHANGED vars
  <2>1. \A q \in Procs : Seen(q)' = Seen(q)
    BY <1>17, SeenSame DEF vars
  <2> QED
    BY <2>1, NobodyMoves
<1> QED
  BY <1>1, <1>2, <1>3, <1>4, <1>5, <1>6, <1>7, <1>8, <1>9, <1>10, <1>11, <1>12, <1>13,
     <1>14, <1>15, <1>16, <1>17
  DEF Next, Choice, After, TaskStep, ThreadStep, Procs, WaitNoMemory

(* With memory for the waiter records, the runtime's monitor implements    *)
(* the one of the report: ImplementsMonitor, for any number of processes.  *)
THEOREM MonitorRefinement ==
  ASSUME ~MayRunOut
  PROVE  Spec => ImplementsMonitor
<1>1. Ind /\ Ind' /\ [Next]_vars
        => [Abstract!Next]_([p \in Procs |-> Seen(p)])
  BY RefineNext DEF Map
<1> QED
  BY <1>1, RefineInit, IndAlways, PTL DEF Spec, ImplementsMonitor, Abstract!Spec
=============================================================================
