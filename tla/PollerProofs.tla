---------------------------- MODULE PollerProofs ----------------------------
(***************************************************************************)
(* The poller of module Poller, for any tasks, descriptors, calls and      *)
(* sizes: its heap of timers, its count of pending tasks, and that it      *)
(* keeps the promise of PollerSpec.                                        *)
(***************************************************************************)
EXTENDS Poller, FiniteSetTheorems, TLAPS

-----------------------------------------------------------------------------
(* The way of a timer through the heap.                                    *)

(* Induction up to n: a set P of numbers up to n that holds 0 and goes on   *)
(* below n holds n, for without n the successor would map P into P, one to *)
(* one and not onto.                                                       *)
LEMMA UpTo ==
  ASSUME NEW n \in Nat, NEW P \in SUBSET (0 .. n), 0 \in P,
         \A i \in 0 .. n - 1 : i \in P => i + 1 \in P
  PROVE  n \in P
<1> SUFFICES ASSUME n \notin P PROVE FALSE
  OBVIOUS
<1> DEFINE f == [i \in P |-> i + 1]
<1>1. IsFiniteSet(P)
  <2>1. IsFiniteSet(0 .. n)
    BY FS_Interval
  <2> QED
    BY <2>1, FS_Subset
<1>2. f \in [P -> P]
  OBVIOUS
<1>3. \A i, j \in P : f[i] = f[j] => i = j
  OBVIOUS
<1>4. f \in Injection(P, P)
  <2> HIDE DEF f
  <2> QED
    BY <1>2, <1>3 DEF Injection, IsInjective
<1>5. f \in Surjection(P, P)
  <2> HIDE DEF f
  <2> QED
    BY <1>1, <1>4, FS_Injection
<1>6. PICK i \in P : f[i] = 0
  <2> HIDE DEF f
  <2> QED
    BY <1>5 DEF Surjection
<1> QED
  BY <1>6

(* A set of places has a first and a last. *)
LEMMA Ends ==
  ASSUME NEW n \in Nat, NEW P \in SUBSET (1 .. n), P # {}
  PROVE  /\ \E m \in P : \A x \in P : m <= x
         /\ \E m \in P : \A x \in P : x <= m
<1>1. \E m \in P : \A x \in P : m <= x
  <2> SUFFICES ASSUME \A m \in P : \E x \in P : x < m PROVE FALSE
    OBVIOUS
  <2> DEFINE B == {i \in 0 .. n : \A x \in P : x > i}
  <2>0. PICK y \in P : y \in 1 .. n
    OBVIOUS
  <2>1. B \in SUBSET (0 .. n) /\ 0 \in B
    BY <2>0
  <2>2. \A i \in 0 .. n - 1 : i \in B => i + 1 \in B
    <3> SUFFICES ASSUME NEW i \in 0 .. n - 1, i \in B, NEW x \in P PROVE x > i + 1
      OBVIOUS
    <3>1. PICK w \in P : w < x
      OBVIOUS
    <3> QED
      BY <3>1
  <2>3. n \in B
    <3> HIDE DEF B
    <3> QED
      BY <2>1, <2>2, UpTo
  <2> QED
    BY <2>0, <2>3
<1>2. \E m \in P : \A x \in P : x <= m
  <2> SUFFICES ASSUME \A m \in P : \E x \in P : x > m PROVE FALSE
    OBVIOUS
  <2> DEFINE B == {i \in 0 .. n : \E x \in P : x > i}
  <2>0. PICK y \in P : y \in 1 .. n
    OBVIOUS
  <2>1. B \in SUBSET (0 .. n) /\ 0 \in B
    BY <2>0
  <2>2. \A i \in 0 .. n - 1 : i \in B => i + 1 \in B
    <3> SUFFICES ASSUME NEW i \in 0 .. n - 1, i \in B PROVE \E x \in P : x > i + 1
      OBVIOUS
    <3>1. PICK w \in P : w > i
      OBVIOUS
    <3>2. PICK x \in P : x > w
      OBVIOUS
    <3> QED
      BY <3>1, <3>2
  <2>3. n \in B
    <3> HIDE DEF B
    <3> QED
      BY <2>1, <2>2, UpTo
  <2> QED
    BY <2>0, <2>3
<1> QED
  BY <1>1, <1>2

(* What a path is: each place but the first is where the step of another   *)
(* leads, and a set that has the first and goes where step leads has all.  *)
LEMMA PathIs ==
  ASSUME NEW n \in Nat, NEW step \in [1 .. n -> 1 .. n], NEW i \in 1 .. n
  PROVE  /\ i \in Path(i, step) /\ Path(i, step) \subseteq 1 .. n
         /\ \A k \in Path(i, step) : step[k] \in Path(i, step)
         /\ \A S \in SUBSET (1 .. n) : (i \in S /\ \A k \in S : step[k] \in S) => Path(i, step) \subseteq S
         /\ \A k \in Path(i, step) \ {i} : \E j \in Path(i, step) : step[j] = k /\ j # k
<1> DEFINE P == Path(i, step)
<1>1. /\ DOMAIN step = 1 .. n
      /\ \A j : j \in P <=> (/\ j \in 1 .. n
                             /\ \A S \in SUBSET (1 .. n) : (i \in S /\ \A k \in S : step[k] \in S) => j \in S)
  BY DEF Path
<1> HIDE DEF P
<1>2. i \in P /\ P \subseteq 1 .. n
  BY <1>1
<1>3. \A k \in P : step[k] \in P
  BY <1>1
<1>4. \A S \in SUBSET (1 .. n) : (i \in S /\ \A k \in S : step[k] \in S) => P \subseteq S
  BY <1>1
<1>5. ASSUME NEW k \in P \ {i}, \A j \in P : step[j] = k => j = k PROVE FALSE
  <2>1. P \ {k} \in SUBSET (1 .. n) /\ i \in P \ {k}
    BY <1>2
  <2>2. \A m \in P \ {k} : step[m] \in P \ {k}
    BY <1>3, <1>5
  <2>3. P \subseteq P \ {k}
    BY <1>4, <2>1, <2>2
  <2> QED
    BY <2>3
<1>6. \A k \in P \ {i} : \E j \in P : step[j] = k /\ j # k
  BY <1>5
<1> QED
  BY <1>2, <1>3, <1>4, <1>6 DEF P

(* When step goes one way only, the path has one end, and each place of it *)
(* gets the timer of one other, the end that of i.                         *)
OneWay(step, n) == (\A j \in 1 .. n : step[j] <= j) \/ (\A j \in 1 .. n : step[j] >= j)
Source(i, step, j) == IF step[j] = j THEN i ELSE step[j]

LEMMA EndIs ==
  ASSUME NEW n \in Nat, NEW step \in [1 .. n -> 1 .. n], NEW i \in 1 .. n, OneWay(step, n)
  PROVE  \E z \in Path(i, step) :
           /\ step[z] = z
           /\ \A j \in Path(i, step) : step[j] = j => j = z
           /\ \A j \in Path(i, step) : Source(i, step, j) \in Path(i, step)
           /\ \A k \in Path(i, step) : \E j \in Path(i, step) : Source(i, step, j) = k
           /\ \A j, k \in Path(i, step) : Source(i, step, j) = Source(i, step, k) => j = k
<1> DEFINE P == Path(i, step)
<1>1. /\ i \in P /\ P \in SUBSET (1 .. n) /\ \A k \in P : step[k] \in P
      /\ \A k \in P \ {i} : \E j \in P : step[j] = k /\ j # k
  BY PathIs
<1> HIDE DEF P
<1>2. PICK z \in P : step[z] = z
  <2>1. P # {}
    BY <1>1
  <2>2. PICK a \in P, b \in P : \A x \in P : a <= x /\ x <= b
    BY <1>1, <2>1, Ends
  <2>3. step[a] \in P /\ step[b] \in P /\ a \in 1 .. n /\ b \in 1 .. n /\ step[a] \in 1 .. n /\ step[b] \in 1 .. n
    BY <1>1
  <2>4. step[a] = a \/ step[b] = b
    BY SMTT(60), <2>2, <2>3 DEF OneWay
  <2> QED
    BY <2>4
<1> DEFINE f == [j \in P |-> IF j = z THEN i ELSE step[j]]
<1>3. f \in [P -> P] /\ f[z] = i /\ \A j \in P \ {z} : f[j] = step[j]
  BY <1>1
<1> HIDE DEF f
<1>4. \A k \in P : \E j \in P : f[j] = k
  BY <1>1, <1>2, <1>3
<1>5. \A j, k \in P : f[j] = f[k] => j = k
  <2>1. IsFiniteSet(P)
    <3>1. IsFiniteSet(1 .. n)
      BY FS_Interval
    <3> QED
      BY <1>1, <3>1, FS_Subset
  <2>2. f \in Surjection(P, P)
    BY <1>3, <1>4 DEF Surjection
  <2>3. f \in Injection(P, P)
    BY <2>1, <2>2, FS_Surjection
  <2> QED
    BY <1>3, <2>3 DEF Injection, IsInjective
<1>6. ASSUME NEW j \in P, step[j] = j PROVE j = z
  <2> SUFFICES ASSUME j # z PROVE FALSE
    OBVIOUS
  <2>1. f[j] = j
    BY <1>3, <1>6
  <2>2. CASE j = i
    BY <1>1, <1>3, <1>5, <2>1, <2>2
  <2>3. CASE j # i
    <3>1. PICK k \in P : step[k] = j /\ k # j
      BY <1>1, <2>3
    <3>2. f[k] = j
      BY <1>2, <1>3, <3>1
    <3> QED
      BY <1>5, <2>1, <3>1, <3>2
  <2> QED
    BY <2>2, <2>3
<1>7. \A j \in P : Source(i, step, j) = f[j]
  BY <1>2, <1>3, <1>6 DEF Source
<1>8. /\ \A j \in P : Source(i, step, j) \in P
      /\ \A k \in P : \E j \in P : Source(i, step, j) = k
      /\ \A j, k \in P : Source(i, step, j) = Source(i, step, k) => j = k
  BY <1>3, <1>4, <1>5, <1>7
<1> QED
  BY <1>2, <1>6, <1>8 DEF P

-----------------------------------------------------------------------------
(* The heap.  Each task has one timer in it at most, and knows its place.  *)
Entry == [at : Nat, t : Tasks]
Different(h) == \A j, k \in 1 .. Len(h) : h[j].t = h[k].t => j = k
Known(h, x) ==
  /\ \A j \in 1 .. Len(h) : x[h[j].t] = j
  /\ \A t \in Tasks : (\A j \in 1 .. Len(h) : h[j].t # t) => x[t] = 0
KnownBut(h, x, i) ==
  /\ \A j \in 1 .. Len(h) : j # i => x[h[j].t] = j
  /\ \A t \in Tasks : (\A j \in 1 .. Len(h) : h[j].t # t) => x[t] = 0
Ordered(h) == \A j \in 2 .. Len(h) : h[j \div 2].at <= h[j].at
SameTimers(g, h) == \A e : (\E j \in 1 .. Len(g) : g[j] = e) <=> (\E j \in 1 .. Len(h) : h[j] = e)

(* A sift moves timers only; who was moved knows where to. *)
LEMMA SiftIs ==
  ASSUME NEW h \in Seq(Entry), NEW x \in [Tasks -> Nat], NEW i \in 1 .. Len(h),
         NEW step \in [1 .. Len(h) -> 1 .. Len(h)], OneWay(step, Len(h)),
         Different(h), KnownBut(h, x, i)
  PROVE  LET r == Sift(h, x, i, step) IN
         /\ r.h \in Seq(Entry) /\ Len(r.h) = Len(h) /\ r.x \in [Tasks -> Nat]
         /\ Different(r.h) /\ Known(r.h, r.x) /\ SameTimers(r.h, h)
         /\ \A j \in 1 .. Len(h) :
              r.h[j] = IF j \notin Path(i, step) THEN h[j]
                       ELSE IF step[j] = j THEN h[i] ELSE h[step[j]]
<1> DEFINE n == Len(h)
           P == Path(i, step)
           g == [j \in 1 .. n |-> IF j \notin P THEN h[j] ELSE IF step[j] = j THEN h[i] ELSE h[step[j]]]
           y == [t \in Tasks |-> IF \E j \in P : g[j].t = t THEN CHOOSE j \in P : g[j].t = t ELSE x[t]]
           s(j) == IF j \in P THEN Source(i, step, j) ELSE j
<1>1. n \in Nat /\ DOMAIN h = 1 .. n
  OBVIOUS
<1>2. Sift(h, x, i, step) = [h |-> g, x |-> y]
  BY <1>1 DEF Sift
<1>3. P \subseteq 1 .. n /\ i \in P
  BY <1>1, PathIs
<1>4. /\ \A j \in 1 .. n : s(j) \in 1 .. n /\ (s(j) \in P <=> j \in P)
      /\ \A k \in 1 .. n : \E j \in 1 .. n : s(j) = k
      /\ \A j, k \in 1 .. n : s(j) = s(k) => j = k
  <2>1. PICK z \in Path(i, step) :
           /\ \A j \in Path(i, step) : Source(i, step, j) \in Path(i, step)
           /\ \A k \in Path(i, step) : \E j \in Path(i, step) : Source(i, step, j) = k
           /\ \A j, k \in Path(i, step) : Source(i, step, j) = Source(i, step, k) => j = k
    BY <1>1, EndIs
  <2>2. \A j \in 1 .. n : s(j) \in 1 .. n /\ (s(j) \in P <=> j \in P)
    BY <1>3, <2>1
  <2>3. ASSUME NEW k \in 1 .. n PROVE \E j \in 1 .. n : s(j) = k
    <3>1. CASE k \in P
      <4>1. PICK j \in P : Source(i, step, j) = k
        BY <2>1, <3>1
      <4> QED
        BY <1>3, <4>1
    <3>2. CASE k \notin P
      BY <3>2
    <3> QED
      BY <3>1, <3>2
  <2>4. ASSUME NEW j \in 1 .. n, NEW k \in 1 .. n, s(j) = s(k) PROVE j = k
    <3>1. j \in P <=> k \in P
      BY <2>2, <2>4
    <3>2. CASE j \in P
      <4>1. Source(i, step, j) = Source(i, step, k)
        BY <2>4, <3>1, <3>2
      <4> QED
        BY <2>1, <3>1, <3>2, <4>1
    <3>3. CASE j \notin P
      BY <2>4, <3>1, <3>3
    <3> QED
      BY <3>2, <3>3
  <2> QED
    BY <2>2, <2>3, <2>4
<1>5. \A j \in 1 .. n : g[j] = h[s(j)]
  BY DEF Source
<1>6. g \in Seq(Entry) /\ Len(g) = n /\ \A j \in 1 .. n : g[j] \in Entry
  <2>1. \A j \in 1 .. n : h[j] \in Entry
    BY <1>1
  <2>2. \A j \in 1 .. n : g[j] \in Entry
    BY <1>4, <1>5, <2>1
  <2>3. g \in [1 .. n -> Entry]
    BY <2>2
  <2> HIDE DEF g
  <2> QED
    BY <1>1, <2>2, <2>3
<1>7. Different(g)
  <2> SUFFICES ASSUME NEW j \in 1 .. n, NEW k \in 1 .. n, g[j].t = g[k].t PROVE j = k
    BY <1>6 DEF Different
  <2>1. h[s(j)].t = h[s(k)].t
    BY <1>5
  <2>2. s(j) = s(k)
    BY <1>4, <2>1 DEF Different
  <2> QED
    BY <1>4, <2>2
<1>8. SameTimers(g, h)
  <2> SUFFICES ASSUME NEW e PROVE (\E j \in 1 .. n : g[j] = e) <=> (\E j \in 1 .. n : h[j] = e)
    BY <1>6 DEF SameTimers
  <2>1. ASSUME NEW j \in 1 .. n, g[j] = e PROVE \E k \in 1 .. n : h[k] = e
    BY <1>4, <1>5, <2>1
  <2>2. ASSUME NEW k \in 1 .. n, h[k] = e PROVE \E j \in 1 .. n : g[j] = e
    <3>1. PICK j \in 1 .. n : s(j) = k
      BY <1>4
    <3> QED
      BY <1>5, <2>2, <3>1
  <2> QED
    BY <2>1, <2>2
<1> HIDE DEF g, P, s
<1>9. \A j \in P : y[g[j].t] = j
  <2> SUFFICES ASSUME NEW j \in P PROVE y[g[j].t] = j
    OBVIOUS
  <2>1. g[j].t \in Tasks
    BY <1>3, <1>6 DEF Entry
  <2>2. \A k \in P : g[k].t = g[j].t <=> k = j
    BY <1>3, <1>6, <1>7 DEF Different
  <2>3. (CHOOSE k \in P : g[k].t = g[j].t) = j
    BY <2>2
  <2> QED
    BY <2>1, <2>3
<1>10. \A t \in Tasks : (\A j \in P : g[j].t # t) => y[t] = x[t]
  OBVIOUS
<1>11. y \in [Tasks -> Nat]
  <2>1. ASSUME NEW t \in Tasks PROVE y[t] \in Nat
    <3>1. CASE \E j \in P : g[j].t = t
      <4>1. PICK j \in P : g[j].t = t
        BY <3>1
      <4> QED
        <5>1. y[g[j].t] = j
          BY <1>9
        <5>2. j \in Nat
          BY <1>1, <1>3
        <5> HIDE DEF y
        <5> QED
          BY <4>1, <5>1, <5>2
    <3>2. CASE \A j \in P : g[j].t # t
      BY <1>10, <3>2
    <3> QED
      BY <3>1, <3>2
  <2>2. y = [t \in Tasks |-> y[t]]
    OBVIOUS
  <2> HIDE DEF y
  <2> QED
    BY <2>1, <2>2
<1> HIDE DEF y
<1>12. Known(g, y)
  <2>1. ASSUME NEW j \in 1 .. n PROVE y[g[j].t] = j
    <3>1. CASE j \in P
      BY <1>9, <3>1
    <3>2. CASE j \notin P
      <4>1. g[j] = h[j] /\ j # i /\ g[j].t \in Tasks
        BY <1>3, <1>5, <1>6, <3>2 DEF s, Entry
      <4>2. \A k \in P : g[k].t # g[j].t
        BY <1>3, <1>6, <1>7, <3>2 DEF Different
      <4> QED
        BY <1>10, <4>1, <4>2 DEF KnownBut
    <3> QED
      BY <3>1, <3>2
  <2>2. ASSUME NEW t \in Tasks, \A j \in 1 .. n : g[j].t # t PROVE y[t] = 0
    <3>1. \A j \in 1 .. n : h[j].t # t
      BY <1>6, <1>8, <2>2 DEF SameTimers
    <3>2. y[t] = x[t]
      BY <1>3, <1>10, <2>2
    <3> QED
      BY <3>1, <3>2 DEF KnownBut
  <2> QED
    BY <1>6, <2>1, <2>2 DEF Known
<1> DEFINE r == Sift(h, x, i, step)
<1>13. r.h = g /\ r.x = y
  BY <1>2
<1>14. \A j \in 1 .. Len(h) :
              g[j] = IF j \notin Path(i, step) THEN h[j]
                     ELSE IF step[j] = j THEN h[i] ELSE h[step[j]]
  BY DEF g, P
<1> HIDE DEF r
<1> QED
  BY <1>6, <1>7, <1>8, <1>11, <1>12, <1>13, <1>14 DEF r

(* The times a of a heap that is in order but at i, whose timer may be too *)
(* early or too late; half[j] is the parent of j, and inner holds the      *)
(* places that have a child, child[j] an earliest of those of j.           *)
Tree(half, n) == \A j \in 2 .. n : half[j] \in 1 .. n /\ half[j] < j
OrderedBut(a, half, n, i) ==
  /\ \A j \in 2 .. n : (j # i /\ half[j] # i) => a[half[j]] <= a[j]
  /\ \A j \in 2 .. n : (half[j] = i /\ i > 1) => a[half[i]] <= a[j]
OrderedAbove(a, half, n, i) ==
  /\ \A j \in 2 .. n : half[j] # i => a[half[j]] <= a[j]
  /\ \A j \in 2 .. n : (half[j] = i /\ i > 1) => a[half[i]] <= a[j]
Children(a, half, n, inner, child) ==
  /\ \A j \in 2 .. n : half[j] \in inner
  /\ \A j \in inner : /\ j \in 1 .. n /\ child[j] \in 2 .. n /\ half[child[j]] = j
                      /\ \A k \in 2 .. n : half[k] = j => a[child[j]] <= a[k]
Sifted(a, b, n, i, step) ==
  \A j \in 1 .. n : b[j] = IF j \notin Path(i, step) THEN a[j]
                           ELSE IF step[j] = j THEN a[i] ELSE a[step[j]]

StepsUp(a, half, n, i, step) ==
  \A j \in 1 .. n : step[j] = IF j > 1 /\ a[half[j]] > a[i] THEN half[j] ELSE j
StepsDown(a, inner, child, n, i, step) ==
  \A j \in 1 .. n : step[j] = IF j \in inner /\ a[child[j]] < a[i] THEN child[j] ELSE j

(* After the way up only the children of i may be too early. *)
LEMMA UpOrders ==
  ASSUME NEW n \in Nat, NEW i \in 1 .. n, NEW a, NEW b, NEW step, NEW half
  PROVE  (/\ a \in [1 .. n -> Nat] /\ b \in [1 .. n -> Nat] /\ step \in [1 .. n -> 1 .. n]
          /\ Tree(half, n) /\ StepsUp(a, half, n, i, step)
          /\ Sifted(a, b, n, i, step) /\ OrderedBut(a, half, n, i))
         => OrderedAbove(b, half, n, i)
<1>t. SUFFICES ASSUME a \in [1 .. n -> Nat], b \in [1 .. n -> Nat], step \in [1 .. n -> 1 .. n]
               PROVE  (/\ Tree(half, n) /\ StepsUp(a, half, n, i, step)
                       /\ Sifted(a, b, n, i, step) /\ OrderedBut(a, half, n, i))
                      => OrderedAbove(b, half, n, i)
  OBVIOUS
<1>a. SUFFICES ASSUME Tree(half, n), StepsUp(a, half, n, i, step),
                      Sifted(a, b, n, i, step), OrderedBut(a, half, n, i)
               PROVE  OrderedAbove(b, half, n, i)
  OBVIOUS
<1> DEFINE P == Path(i, step)
<1>0. \A j \in 1 .. n : b[j] = IF j \notin P THEN a[j] ELSE IF step[j] = j THEN a[i] ELSE a[step[j]]
  BY <1>a DEF Sifted
<1>h. \A j \in 2 .. n : half[j] \in 1 .. n /\ half[j] < j
  BY <1>a DEF Tree
<1>o. /\ \A j \in 2 .. n : (j # i /\ half[j] # i) => a[half[j]] <= a[j]
      /\ \A j \in 2 .. n : (half[j] = i /\ i > 1) => a[half[i]] <= a[j]
  BY <1>a DEF OrderedBut
<1>1. /\ i \in P /\ P \subseteq 1 .. n /\ \A k \in P : step[k] \in P
      /\ \A S \in SUBSET (1 .. n) : (i \in S /\ \A k \in S : step[k] \in S) => P \subseteq S
      /\ \A k \in P \ {i} : \E j \in P : step[j] = k /\ j # k
  BY <1>t, PathIs
<1> HIDE DEF P
<1>n. \A j \in 1 .. n : a[j] \in Nat /\ b[j] \in Nat /\ step[j] \in 1 .. n /\ j \in Nat
  BY <1>t
<1>s. \A j \in 1 .. n : /\ step[j] # j => (j \in 2 .. n /\ a[half[j]] > a[i] /\ step[j] = half[j])
                        /\ (j \in 2 .. n /\ step[j] = j) => ~(a[half[j]] > a[i])
  <2> SUFFICES ASSUME NEW j \in 1 .. n
               PROVE /\ step[j] # j => (j \in 2 .. n /\ a[half[j]] > a[i] /\ step[j] = half[j])
                     /\ (j \in 2 .. n /\ step[j] = j) => ~(a[half[j]] > a[i])
    OBVIOUS
  <2>1. step[j] = IF j > 1 /\ a[half[j]] > a[i] THEN half[j] ELSE j
    BY <1>a DEF StepsUp
  <2>2. (j > 1 <=> j \in 2 .. n) /\ (j \in 2 .. n => half[j] # j)
    BY <1>h
  <2> QED
    BY <2>1, <2>2
<1>2. \A k \in P : k <= i
  <2> DEFINE S == {k \in 1 .. n : k <= i}
  <2>1. S \in SUBSET (1 .. n) /\ i \in S
    OBVIOUS
  <2>2. ASSUME NEW k \in S PROVE step[k] \in S
    <3>1. step[k] \in 1 .. n /\ step[k] <= k
      BY <1>n, <1>s, <1>h
    <3> QED
      BY <3>1
  <2>3. P \subseteq S
    <3> HIDE DEF S
    <3> QED
      BY <1>1, <2>1, <2>2
  <2> QED
    BY <2>3
<1>3. \A k \in P : k # i => a[k] > a[i]
  <2> SUFFICES ASSUME NEW k \in P, k # i PROVE a[k] > a[i]
    OBVIOUS
  <2>1. PICK j \in P : step[j] = k /\ j # k
    BY <1>1
  <2> QED
    BY <1>s, <1>1, <2>1
<1>4. \A k \in P : k > 1 => (half[k] \in 1 .. n /\ half[k] # i /\ half[k] < k)
  BY <1>1, <1>2, <1>h
<1>5. \A k \in P : (k > 1 /\ k # i) => a[half[k]] <= a[k]
  BY <1>1, <1>4, <1>o
(* A timer on the path is as late as what it finds there at least. *)
<1>6. \A k \in P : k # i => b[k] <= a[k]
  <2> SUFFICES ASSUME NEW k \in P, k # i PROVE b[k] <= a[k]
    OBVIOUS
  <2>0. k \in 1 .. n
    BY <1>1
  <2>1. CASE step[k] = k
    BY <1>0, <1>3, <1>n, <2>0, <2>1
  <2>2. CASE step[k] # k
    <3>1. k > 1 /\ step[k] = half[k]
      BY <1>s, <2>0, <2>2
    <3>2. b[k] = a[half[k]]
      BY <1>0, <2>0, <2>2, <3>1
    <3> QED
      BY <1>5, <3>1, <3>2
  <2> QED
    BY <2>1, <2>2
<1>7. \A j \in 2 .. n : half[j] # i => b[half[j]] <= b[j]
  <2> SUFFICES ASSUME NEW j \in 2 .. n, half[j] # i PROVE b[half[j]] <= b[j]
    OBVIOUS
  <2>1. PICK p \in 1 .. n : p = half[j] /\ p < j
    BY <1>h
  <2>2. CASE j \in P /\ step[j] # j
    <3>1. step[j] = p /\ p \in P /\ b[j] = a[p]
      BY <1>0, <1>1, <1>s, <2>1, <2>2
    <3> QED
      BY <1>6, <2>1, <3>1
  <2>3. CASE j \in P /\ step[j] = j
    <3>1. a[p] <= a[i] /\ b[j] = a[i]
      BY <1>0, <1>s, <1>n, <2>1, <2>3
    <3>2. p \notin P
      BY <1>3, <1>n, <1>h, <2>1, <2>3, <3>1
    <3> QED
      BY <1>0, <2>1, <3>1, <3>2
  <2>4. CASE j \notin P
    <3>0. j # i
      BY <1>1, <2>4
    <3>1. a[p] <= a[j] /\ b[j] = a[j]
      BY <1>0, <1>o, <2>1, <2>4, <3>0
    <3>2. b[p] <= a[p]
      BY <1>0, <1>6, <1>n, <2>1
    <3> QED
      BY <1>n, <2>1, <3>1, <3>2
  <2> QED
    BY <2>2, <2>3, <2>4
<1>8. \A j \in 2 .. n : (half[j] = i /\ i > 1) => b[half[i]] <= b[j]
  <2> SUFFICES ASSUME NEW j \in 2 .. n, half[j] = i, i > 1 PROVE b[half[i]] <= b[j]
    OBVIOUS
  <2>1. PICK q \in 1 .. n : q = half[i] /\ q < i
    BY <1>h
  <2>2. j > i
    BY <1>h
  <2>3. b[j] = a[j]
    BY <1>0, <1>2, <2>2
  <2>4. a[q] <= a[j]
    BY <1>o, <2>1
  <2>5. b[q] <= a[q]
    <3>1. CASE q \in P
      BY <1>6, <2>1, <3>1
    <3>2. CASE q \notin P
      BY <1>0, <1>n, <2>1, <3>2
    <3> QED
      BY <3>1, <3>2
  <2>6. a[q] \in Nat /\ b[q] \in Nat /\ a[j] \in Nat /\ b[j] = a[j] /\ b[half[i]] = b[q]
    BY <1>n, <2>1, <2>3
  <2> QED
    BY <2>4, <2>5, <2>6
<1> QED
  BY <1>7, <1>8 DEF OrderedAbove

(* The way down puts it in order. *)
LEMMA DownOrders ==
  ASSUME NEW n \in Nat, NEW i \in 1 .. n, NEW a, NEW b, NEW step, NEW half, NEW inner, NEW child
  PROVE  (/\ a \in [1 .. n -> Nat] /\ b \in [1 .. n -> Nat] /\ step \in [1 .. n -> 1 .. n]
          /\ Tree(half, n) /\ Children(a, half, n, inner, child)
          /\ StepsDown(a, inner, child, n, i, step)
          /\ Sifted(a, b, n, i, step) /\ OrderedAbove(a, half, n, i))
         => \A j \in 2 .. n : b[half[j]] <= b[j]
<1>t. SUFFICES ASSUME a \in [1 .. n -> Nat], b \in [1 .. n -> Nat], step \in [1 .. n -> 1 .. n]
               PROVE  (/\ Tree(half, n) /\ Children(a, half, n, inner, child)
                       /\ StepsDown(a, inner, child, n, i, step)
                       /\ Sifted(a, b, n, i, step) /\ OrderedAbove(a, half, n, i))
                      => \A j \in 2 .. n : b[half[j]] <= b[j]
  OBVIOUS
<1>a. SUFFICES ASSUME Tree(half, n), Children(a, half, n, inner, child),
                      StepsDown(a, inner, child, n, i, step),
                      Sifted(a, b, n, i, step), OrderedAbove(a, half, n, i)
               PROVE  \A j \in 2 .. n : b[half[j]] <= b[j]
  OBVIOUS
<1> DEFINE P == Path(i, step)
<1>0. \A j \in 1 .. n : b[j] = IF j \notin P THEN a[j] ELSE IF step[j] = j THEN a[i] ELSE a[step[j]]
  BY <1>a DEF Sifted
<1>h. \A j \in 2 .. n : half[j] \in 1 .. n /\ half[j] < j /\ half[j] \in inner
  BY <1>a DEF Tree, Children
<1>o. /\ \A j \in 2 .. n : half[j] # i => a[half[j]] <= a[j]
      /\ \A j \in 2 .. n : (half[j] = i /\ i > 1) => a[half[i]] <= a[j]
  BY <1>a DEF OrderedAbove
<1>e. \A j \in inner : \A k \in 2 .. n : half[k] = j => a[child[j]] <= a[k]
  BY <1>a DEF Children
<1>1. /\ i \in P /\ P \subseteq 1 .. n /\ \A k \in P : step[k] \in P
      /\ \A S \in SUBSET (1 .. n) : (i \in S /\ \A k \in S : step[k] \in S) => P \subseteq S
      /\ \A k \in P \ {i} : \E j \in P : step[j] = k /\ j # k
  BY <1>t, PathIs
<1> HIDE DEF P
<1>n. \A j \in 1 .. n : a[j] \in Nat /\ b[j] \in Nat /\ step[j] \in 1 .. n /\ j \in Nat
  BY <1>t
<1>c. \A j \in inner : child[j] \in 2 .. n /\ half[child[j]] = j /\ child[j] > j /\ j \in 1 .. n
  BY <1>a, <1>h DEF Children
<1>s. \A j \in 1 .. n : /\ step[j] # j => (j \in inner /\ a[child[j]] < a[i] /\ step[j] = child[j])
                        /\ (j \in inner /\ step[j] = j) => ~(a[child[j]] < a[i])
  <2> SUFFICES ASSUME NEW j \in 1 .. n
               PROVE /\ step[j] # j => (j \in inner /\ a[child[j]] < a[i] /\ step[j] = child[j])
                     /\ (j \in inner /\ step[j] = j) => ~(a[child[j]] < a[i])
    OBVIOUS
  <2>1. j \in inner => child[j] # j
    BY <1>c
  <2> QED
    BY <1>a, <2>1 DEF StepsDown
<1>2. \A k \in P : k >= i
  <2> DEFINE S == {k \in 1 .. n : k >= i}
  <2>1. S \in SUBSET (1 .. n) /\ i \in S
    OBVIOUS
  <2>2. ASSUME NEW k \in S PROVE step[k] \in S
    <3>1. step[k] \in 1 .. n /\ step[k] >= k
      BY <1>n, <1>s, <1>c
    <3> QED
      BY <3>1
  <2>3. P \subseteq S
    <3> HIDE DEF S
    <3> QED
      BY <1>1, <2>1, <2>2
  <2> QED
    BY <2>3
(* A place on the path but the first is where its parent's step leads. *)
<1>3. \A k \in P : k # i => (half[k] \in P /\ step[half[k]] = k /\ a[k] < a[i])
  <2> SUFFICES ASSUME NEW k \in P, k # i PROVE half[k] \in P /\ step[half[k]] = k /\ a[k] < a[i]
    OBVIOUS
  <2>1. PICK j \in P : step[j] = k /\ j # k
    BY <1>1
  <2>2. j \in 1 .. n
    BY <1>1
  <2>3. j \in inner /\ a[child[j]] < a[i] /\ k = child[j]
    BY <1>s, <2>1, <2>2
  <2>4. half[k] = j
    BY <1>c, <2>2, <2>3
  <2> QED
    BY <2>1, <2>3, <2>4
(* What comes to a place on the path is not earlier than what was there,   *)
(* but at the first.                                                       *)
<1>4. \A k \in P : k # i => a[k] <= b[k]
  <2> SUFFICES ASSUME NEW k \in P, k # i PROVE a[k] <= b[k]
    OBVIOUS
  <2>0. k \in 1 .. n
    BY <1>1
  <2>1. CASE step[k] = k
    BY <1>0, <1>3, <1>n, <2>0, <2>1
  <2>2. CASE step[k] # k
    <3>1. k \in inner /\ step[k] = child[k]
      BY <1>s, <2>0, <2>2
    <3>2. child[k] \in 2 .. n /\ half[child[k]] = k
      BY <1>c, <3>1
    <3>3. a[k] <= a[child[k]]
      BY <1>o, <3>2
    <3>4. b[k] = a[child[k]]
      BY <1>0, <2>0, <2>2, <3>1
    <3> QED
      BY <3>3, <3>4
  <2> QED
    BY <2>1, <2>2
<1>5. ASSUME NEW j \in 2 .. n PROVE b[half[j]] <= b[j]
  <2>1. PICK p \in 1 .. n : p = half[j] /\ p < j /\ p \in inner
    BY <1>h
  <2>2. CASE p \in P
    <3>1. a[j] <= b[j]
      <4>1. j # i
        BY <1>2, <2>1, <2>2
      <4>2. CASE j \in P
        BY <1>4, <4>1, <4>2
      <4>3. CASE j \notin P
        BY <1>0, <1>n, <4>3
      <4> QED
        BY <4>2, <4>3
    <3>2. CASE step[p] # p
      <4>1. b[p] = a[child[p]]
        BY <1>0, <1>s, <2>2, <3>2
      <4>2. a[child[p]] <= a[j]
        BY <1>e, <2>1
      <4>3. child[p] \in 1 .. n
        BY <1>c, <2>1
      <4> QED
        BY <1>n, <2>1, <3>1, <4>1, <4>2, <4>3
    <3>3. CASE step[p] = p
      <4>1. b[p] = a[i]
        BY <1>0, <2>2, <3>3
      <4>2. child[p] \in 1 .. n /\ child[p] # p /\ a[child[p]] <= a[j]
        BY <1>c, <1>e, <2>1
      <4>3. a[child[p]] >= a[i]
        BY <1>s, <1>n, <2>1, <3>3, <4>2
      <4>4. /\ a[child[p]] \in Nat /\ a[i] \in Nat /\ a[j] \in Nat /\ b[j] \in Nat
            /\ b[half[j]] = a[i] /\ a[child[p]] <= a[j]
        BY <1>n, <2>1, <4>1, <4>2
      <4> QED
        BY <3>1, <4>3, <4>4
    <3> QED
      BY <3>2, <3>3
  <2>3. CASE p \notin P
    <3>1. p # i /\ b[p] = a[p]
      BY <1>0, <1>1, <2>3
    <3>2. a[p] <= a[j]
      BY <1>o, <2>1, <3>1
    <3>3. CASE j \notin P
      BY <1>0, <2>1, <3>1, <3>2, <3>3
    <3>4. CASE j \in P
      <4>1. j = i
        BY <1>3, <2>1, <2>3, <3>4
      <4>2. CASE step[i] = i
        BY <1>0, <2>1, <3>1, <3>2, <3>4, <4>1, <4>2
      <4>3. CASE step[i] # i
        <5>1. i \in inner /\ step[i] = child[i]
          BY <1>s, <4>3
        <5>2. child[i] \in 2 .. n /\ half[child[i]] = i
          BY <1>c, <5>1
        <5>3. b[i] = a[child[i]]
          BY <1>0, <3>4, <4>1, <4>3, <5>1
        <5>4. a[half[i]] <= a[child[i]]
          BY <1>o, <1>n, <2>1, <3>1, <4>1, <5>2
        <5> QED
          BY <2>1, <3>1, <4>1, <5>3, <5>4
      <4> QED
        BY <4>2, <4>3
    <3> QED
      BY <3>3, <3>4
  <2> QED
    BY <2>2, <2>3
<1> QED
  BY <1>5

LEMMA Half ==
  ASSUME NEW j \in Nat, j > 1
  PROVE  j \div 2 \in Nat /\ j \div 2 >= 1 /\ j \div 2 < j
OBVIOUS

LEMMA Twice ==
  ASSUME NEW j \in Nat
  PROVE  /\ (2 * j) \div 2 = j /\ (2 * j + 1) \div 2 = j
         /\ \A k \in Nat : k \div 2 = j => (k = 2 * j \/ k = 2 * j + 1)
OBVIOUS

Times(h) == [j \in 1 .. Len(h) |-> h[j].at]
Halves(n) == [j \in 2 .. n |-> j \div 2]
Inner(n) == {j \in 1 .. n : 2 * j <= n}

LEMMA HalvesAre ==
  ASSUME NEW n \in Nat
  PROVE  Tree(Halves(n), n) /\ \A j \in 2 .. n : Halves(n)[j] = j \div 2
<1>1. \A j \in 2 .. n : j \div 2 \in 1 .. n /\ j \div 2 < j
  BY Half
<1>2. \A j \in 2 .. n : Halves(n)[j] = j \div 2
  BY DEF Halves
<1> QED
  BY <1>1, <1>2 DEF Tree

LEMMA TimesAre ==
  ASSUME NEW h \in Seq(Entry)
  PROVE  Times(h) \in [1 .. Len(h) -> Nat] /\ \A j \in 1 .. Len(h) : Times(h)[j] = h[j].at
<1>1. \A j \in 1 .. Len(h) : h[j] \in Entry
  OBVIOUS
<1>2. \A j \in 1 .. Len(h) : h[j].at \in Nat
  BY <1>1 DEF Entry
<1> QED
  BY <1>2 DEF Times

(* What a sift of h does to its times. *)
LEMMA TimesSifted ==
  ASSUME NEW h \in Seq(Entry), NEW g \in Seq(Entry), NEW i \in 1 .. Len(h), Len(g) = Len(h),
         NEW step \in [1 .. Len(h) -> 1 .. Len(h)],
         \A j \in 1 .. Len(h) : g[j] = IF j \notin Path(i, step) THEN h[j]
                                       ELSE IF step[j] = j THEN h[i] ELSE h[step[j]]
  PROVE  Sifted(Times(h), Times(g), Len(h), i, step)
<1>1. \A j \in 1 .. Len(h) : Times(h)[j] = h[j].at /\ Times(g)[j] = g[j].at
  BY TimesAre
<1>2. \A j \in 1 .. Len(h) : step[j] \in 1 .. Len(h)
  OBVIOUS
<1> SUFFICES ASSUME NEW j \in 1 .. Len(h)
             PROVE Times(g)[j] = IF j \notin Path(i, step) THEN Times(h)[j]
                                 ELSE IF step[j] = j THEN Times(h)[i] ELSE Times(h)[step[j]]
  BY DEF Sifted
<1>3. CASE j \notin Path(i, step)
  BY <1>1, <1>3
<1>4. CASE j \in Path(i, step) /\ step[j] = j
  BY <1>1, <1>4
<1>5. CASE j \in Path(i, step) /\ step[j] # j
  <2>1. g[j] = h[step[j]]
    BY <1>5
  <2>2. Times(g)[j] = h[step[j]].at /\ Times(h)[step[j]] = h[step[j]].at
    BY <1>1, <1>2, <2>1
  <2> QED
    BY <1>5, <2>2
<1> QED
  BY <1>3, <1>4, <1>5

LEMMA UpIs ==
  ASSUME NEW h \in Seq(Entry), NEW x \in [Tasks -> Nat], NEW i \in 1 .. Len(h),
         Different(h), KnownBut(h, x, i), OrderedBut(Times(h), Halves(Len(h)), Len(h), i)
  PROVE  LET r == Up(h, x, i) IN
         /\ r.h \in Seq(Entry) /\ Len(r.h) = Len(h) /\ r.x \in [Tasks -> Nat]
         /\ Different(r.h) /\ Known(r.h, r.x) /\ SameTimers(r.h, h)
         /\ OrderedAbove(Times(r.h), Halves(Len(h)), Len(h), i)
<1> DEFINE step == [j \in DOMAIN h |-> IF j > 1 /\ h[j \div 2].at > h[i].at THEN j \div 2 ELSE j]
           r == Up(h, x, i)
<1>1. PICK n \in Nat : n = Len(h)
  OBVIOUS
<1>2. DOMAIN h = 1 .. n
  BY <1>1
<1>3. \A j \in 1 .. n : step[j] = IF j > 1 /\ h[j \div 2].at > h[i].at THEN j \div 2 ELSE j
  BY <1>2
<1>4. \A j \in 1 .. n : step[j] \in 1 .. n /\ step[j] <= j
  BY SMTT(60), <1>3, Half
<1>5. step \in [1 .. n -> 1 .. n]
  BY <1>2, <1>4
<1>6. r = Sift(h, x, i, step)
  BY DEF Up
<1> HIDE DEF step, r
<1>7. OneWay(step, n)
  BY <1>4 DEF OneWay
<1>8. /\ r.h \in Seq(Entry) /\ Len(r.h) = Len(h) /\ r.x \in [Tasks -> Nat]
      /\ Different(r.h) /\ Known(r.h, r.x) /\ SameTimers(r.h, h)
      /\ \A j \in 1 .. Len(h) :
              r.h[j] = IF j \notin Path(i, step) THEN h[j]
                       ELSE IF step[j] = j THEN h[i] ELSE h[step[j]]
  <2>1. step \in [1 .. Len(h) -> 1 .. Len(h)] /\ OneWay(step, Len(h))
    BY <1>1, <1>5, <1>7
  <2>3. LET q == Sift(h, x, i, step) IN
         /\ q.h \in Seq(Entry) /\ Len(q.h) = Len(h) /\ q.x \in [Tasks -> Nat]
         /\ Different(q.h) /\ Known(q.h, q.x) /\ SameTimers(q.h, h)
         /\ \A j \in 1 .. Len(h) :
              q.h[j] = IF j \notin Path(i, step) THEN h[j]
                       ELSE IF step[j] = j THEN h[i] ELSE h[step[j]]
    BY <2>1, SiftIs
  <2> QED
    BY <1>6, <2>3, Zenon
<1>9. Sifted(Times(h), Times(r.h), Len(h), i, step)
  BY <1>1, <1>5, <1>8, TimesSifted
<1>10. StepsUp(Times(h), Halves(n), n, i, step)
  <2> SUFFICES ASSUME NEW j \in 1 .. n
               PROVE step[j] = IF j > 1 /\ Times(h)[Halves(n)[j]] > Times(h)[i] THEN Halves(n)[j] ELSE j
    BY DEF StepsUp
  <2>1. Times(h)[i] = h[i].at
    BY TimesAre
  <2>2. j > 1 => (Halves(n)[j] = j \div 2 /\ Times(h)[j \div 2] = h[j \div 2].at)
    <3> SUFFICES ASSUME j > 1 PROVE Halves(n)[j] = j \div 2 /\ Times(h)[j \div 2] = h[j \div 2].at
      OBVIOUS
    <3>1. j \in 2 .. n /\ j \div 2 \in 1 .. n
      BY Half
    <3> QED
      BY <1>1, <3>1, HalvesAre, TimesAre
  <2> QED
    BY <1>3, <2>1, <2>2
<1>11. /\ Times(h) \in [1 .. n -> Nat] /\ Times(r.h) \in [1 .. n -> Nat] /\ Tree(Halves(n), n)
  BY <1>1, <1>8, TimesAre, HalvesAre
<1>12. OrderedAbove(Times(r.h), Halves(n), n, i)
  BY <1>1, <1>5, <1>9, <1>10, <1>11, UpOrders
<1> QED
  BY <1>1, <1>8, <1>12 DEF r

LEMMA DownIs ==
  ASSUME NEW h \in Seq(Entry), NEW x \in [Tasks -> Nat], NEW i \in 1 .. Len(h),
         Different(h), KnownBut(h, x, i), OrderedAbove(Times(h), Halves(Len(h)), Len(h), i)
  PROVE  LET r == Down(h, x, i) IN
         /\ r.h \in Seq(Entry) /\ Len(r.h) = Len(h) /\ r.x \in [Tasks -> Nat]
         /\ Different(r.h) /\ Known(r.h, r.x) /\ SameTimers(r.h, h) /\ Ordered(r.h)
<1> DEFINE step == [j \in DOMAIN h |->
                      IF 2 * j <= Len(h) /\ h[Child(h, j)].at < h[i].at THEN Child(h, j) ELSE j]
           child == [j \in Inner(Len(h)) |-> Child(h, j)]
           r == Down(h, x, i)
<1>1. PICK n \in Nat : n = Len(h)
  OBVIOUS
<1>2. DOMAIN h = 1 .. n
  BY <1>1
<1>3. \A j \in 1 .. n : step[j] = IF 2 * j <= n /\ h[Child(h, j)].at < h[i].at THEN Child(h, j) ELSE j
  BY <1>1, <1>2
<1>4. \A j \in Inner(n) : /\ j \in 1 .. n /\ 2 * j <= n /\ child[j] = Child(h, j)
                          /\ Child(h, j) \in 2 .. n /\ Child(h, j) > j /\ Child(h, j) \div 2 = j
                          /\ \A k \in 2 .. n : k \div 2 = j => h[Child(h, j)].at <= h[k].at
  <2> SUFFICES ASSUME NEW j \in Inner(n)
               PROVE /\ j \in 1 .. n /\ 2 * j <= n /\ child[j] = Child(h, j)
                     /\ Child(h, j) \in 2 .. n /\ Child(h, j) > j /\ Child(h, j) \div 2 = j
                     /\ \A k \in 2 .. n : k \div 2 = j => h[Child(h, j)].at <= h[k].at
    OBVIOUS
  <2>1. j \in 1 .. n /\ 2 * j <= n /\ child[j] = Child(h, j)
    BY <1>1 DEF Inner
  <2>2. Child(h, j) = IF 2 * j + 1 <= n /\ h[2 * j + 1].at < h[2 * j].at THEN 2 * j + 1 ELSE 2 * j
    BY <1>1 DEF Child
  <2>3. Child(h, j) \in 2 .. n /\ Child(h, j) > j
    BY <2>1, <2>2
  <2>4. Child(h, j) \div 2 = j
    BY <2>1, <2>2, Twice
  <2>5. \A k \in 1 .. n : h[k].at \in Nat
    BY <1>1, TimesAre
  <2>6. ASSUME NEW k \in 2 .. n, k \div 2 = j PROVE h[Child(h, j)].at <= h[k].at
    <3>1. k = 2 * j \/ k = 2 * j + 1
      BY <2>1, <2>6, Twice
    <3>2. CASE 2 * j + 1 <= n
      <4>1. h[2 * j].at \in Nat /\ h[2 * j + 1].at \in Nat
        BY <2>1, <2>5, <3>2
      <4> QED
        BY SMTT(60), <2>2, <3>1, <3>2, <4>1
    <3>3. CASE ~(2 * j + 1 <= n)
      <4>1. k = 2 * j /\ Child(h, j) = 2 * j
        BY <2>1, <2>2, <3>1, <3>3
      <4>2. h[k].at \in Nat
        BY <2>5
      <4> QED
        BY <4>1, <4>2
    <3> QED
      BY <3>2, <3>3
  <2> QED
    BY <2>1, <2>3, <2>4, <2>6
<1>5. \A j \in 1 .. n : step[j] \in 1 .. n /\ step[j] >= j
  <2> SUFFICES ASSUME NEW j \in 1 .. n PROVE step[j] \in 1 .. n /\ step[j] >= j
    OBVIOUS
  <2>1. CASE 2 * j <= n
    <3>1. j \in Inner(n)
      BY <2>1 DEF Inner
    <3>2. Child(h, j) \in 2 .. n /\ Child(h, j) > j
      BY <1>4, <3>1
    <3>3. step[j] = Child(h, j) \/ step[j] = j
      BY <1>3
    <3> QED
      BY <3>2, <3>3
  <2>2. CASE ~(2 * j <= n)
    <3>1. step[j] = j
      <4> HIDE DEF step
      <4> QED
        BY <1>3, <2>2
    <3> QED
      BY <3>1
  <2> QED
    BY <2>1, <2>2
<1>6. step \in [1 .. n -> 1 .. n]
  BY <1>2, <1>5
<1>7. r = Sift(h, x, i, step)
  BY DEF Down
<1> HIDE DEF step, child, r
<1>8. OneWay(step, n)
  BY <1>5 DEF OneWay
<1>9. /\ r.h \in Seq(Entry) /\ Len(r.h) = Len(h) /\ r.x \in [Tasks -> Nat]
      /\ Different(r.h) /\ Known(r.h, r.x) /\ SameTimers(r.h, h)
      /\ \A j \in 1 .. Len(h) :
              r.h[j] = IF j \notin Path(i, step) THEN h[j]
                       ELSE IF step[j] = j THEN h[i] ELSE h[step[j]]
  <2>1. step \in [1 .. Len(h) -> 1 .. Len(h)] /\ OneWay(step, Len(h))
    BY <1>1, <1>6, <1>8
  <2>3. LET q == Sift(h, x, i, step) IN
         /\ q.h \in Seq(Entry) /\ Len(q.h) = Len(h) /\ q.x \in [Tasks -> Nat]
         /\ Different(q.h) /\ Known(q.h, q.x) /\ SameTimers(q.h, h)
         /\ \A j \in 1 .. Len(h) :
              q.h[j] = IF j \notin Path(i, step) THEN h[j]
                       ELSE IF step[j] = j THEN h[i] ELSE h[step[j]]
    BY <2>1, SiftIs
  <2> QED
    BY <1>7, <2>3, Zenon
<1>10. Sifted(Times(h), Times(r.h), Len(h), i, step)
  BY <1>1, <1>6, <1>9, TimesSifted
<1>11. \A j \in 1 .. n : Times(h)[j] = h[j].at
  BY <1>1, TimesAre
<1>12. StepsDown(Times(h), Inner(n), child, n, i, step)
  <2> SUFFICES ASSUME NEW j \in 1 .. n
               PROVE step[j] = IF j \in Inner(n) /\ Times(h)[child[j]] < Times(h)[i] THEN child[j] ELSE j
    BY DEF StepsDown
  <2>1. Times(h)[i] = h[i].at
    BY TimesAre
  <2>2. CASE j \in Inner(n)
    <3>1. Times(h)[child[j]] = h[Child(h, j)].at /\ child[j] = Child(h, j) /\ 2 * j <= n
      BY <1>4, <1>11, <2>2
    <3> QED
      BY <1>3, <2>1, <2>2, <3>1
  <2>3. CASE j \notin Inner(n)
    BY <1>3, <2>3 DEF Inner
  <2> QED
    BY <2>2, <2>3
<1>13. Children(Times(h), Halves(n), n, Inner(n), child)
  <2>1. \A j \in 2 .. n : Halves(n)[j] \in Inner(n)
    <3> SUFFICES ASSUME NEW j \in 2 .. n PROVE Halves(n)[j] \in Inner(n)
      OBVIOUS
    <3>1. j \div 2 \in 1 .. n /\ 2 * (j \div 2) <= n
      BY Half
    <3> QED
      BY <3>1, HalvesAre DEF Inner
  <2>2. ASSUME NEW j \in Inner(n)
        PROVE /\ j \in 1 .. n /\ child[j] \in 2 .. n /\ Halves(n)[child[j]] = j
              /\ \A k \in 2 .. n : Halves(n)[k] = j => Times(h)[child[j]] <= Times(h)[k]
    <3>1. /\ j \in 1 .. n /\ child[j] \in 2 .. n /\ child[j] \div 2 = j
          /\ \A k \in 2 .. n : k \div 2 = j => h[child[j]].at <= h[k].at
      BY <1>4
    <3>2. \A k \in 2 .. n : Halves(n)[k] = k \div 2 /\ Times(h)[k] = h[k].at
      BY <1>11, HalvesAre
    <3> QED
      BY <3>1, <3>2
  <2> QED
    BY <2>1, <2>2 DEF Children
<1>14. /\ Times(h) \in [1 .. n -> Nat] /\ Times(r.h) \in [1 .. n -> Nat] /\ Tree(Halves(n), n)
  BY <1>1, <1>9, TimesAre, HalvesAre
<1>15. \A j \in 2 .. n : Times(r.h)[Halves(n)[j]] <= Times(r.h)[j]
  BY <1>1, <1>6, <1>10, <1>12, <1>13, <1>14, DownOrders
<1>16. Ordered(r.h)
  <2> SUFFICES ASSUME NEW j \in 2 .. n PROVE r.h[j \div 2].at <= r.h[j].at
    BY <1>1, <1>9 DEF Ordered
  <2>1. j \div 2 \in 1 .. n /\ Halves(n)[j] = j \div 2
    BY Half, HalvesAre
  <2>2. Times(r.h)[j] = r.h[j].at /\ Times(r.h)[j \div 2] = r.h[j \div 2].at
    BY <1>1, <1>9, <2>1, TimesAre
  <2> QED
    BY <1>15, <2>1, <2>2
<1> QED
  BY <1>9, <1>16 DEF r

-----------------------------------------------------------------------------
(* A timer goes in, and a timer goes out.                                  *)
HeapIs(h, x) ==
  /\ h \in Seq(Entry) /\ x \in [Tasks -> Nat]
  /\ Different(h) /\ Known(h, x) /\ Ordered(h)
Holds(h, e) == \E j \in 1 .. Len(h) : h[j] = e

(* A task's place says whether it has a timer, and where. *)
LEMMA PlaceIs ==
  ASSUME NEW h, NEW x, HeapIs(h, x), NEW t \in Tasks
  PROVE  /\ x[t] # 0 => (x[t] \in 1 .. Len(h) /\ h[x[t]].t = t)
         /\ x[t] = 0 => \A j \in 1 .. Len(h) : h[j].t # t
<1>1. /\ \A j \in 1 .. Len(h) : x[h[j].t] = j
      /\ (\A j \in 1 .. Len(h) : h[j].t # t) => x[t] = 0
  BY DEF HeapIs, Known
<1>2. h \in Seq(Entry)
  BY DEF HeapIs
<1>3. ASSUME x[t] # 0 PROVE x[t] \in 1 .. Len(h) /\ h[x[t]].t = t
  <2>1. PICK j \in 1 .. Len(h) : h[j].t = t
    BY <1>1, <1>3
  <2>2. x[t] = j
    BY <1>1, <2>1
  <2> QED
    BY <2>1, <2>2
<1>4. ASSUME x[t] = 0, NEW j \in 1 .. Len(h), h[j].t = t PROVE FALSE
  <2>1. x[t] = j
    BY <1>1, <1>4
  <2>2. j # 0
    BY <1>2
  <2> QED
    BY <1>4, <2>1, <2>2
<1> QED
  BY <1>3, <1>4

LEMMA HeapAddIs ==
  ASSUME NEW h, NEW x, HeapIs(h, x), NEW t \in Tasks, NEW at \in Nat, x[t] = 0
  PROVE  LET r == HeapAdd(h, x, t, at) IN
         /\ HeapIs(r.h, r.x) /\ Len(r.h) = Len(h) + 1
         /\ \A e : Holds(r.h, e) <=> (Holds(h, e) \/ e = [at |-> at, t |-> t])
<1> DEFINE e1 == [at |-> at, t |-> t]
           g == Append(h, e1)
           i == Len(h) + 1
           r == HeapAdd(h, x, t, at)
<1>1. h \in Seq(Entry) /\ x \in [Tasks -> Nat] /\ Different(h) /\ Known(h, x) /\ Ordered(h)
  BY DEF HeapIs
<1>2. e1 \in Entry /\ e1.at = at /\ e1.t = t
  BY DEF Entry
<1> HIDE DEF e1
<1>3. /\ g \in Seq(Entry) /\ Len(g) = i /\ i \in Nat /\ i \in 1 .. Len(g) /\ Len(h) \in Nat
      /\ g[i] = e1 /\ \A j \in 1 .. Len(h) : g[j] = h[j]
  BY <1>1, <1>2
<1>4. \A j \in 1 .. Len(h) : h[j].t # t /\ h[j].t \in Tasks
  <2>1. \A j \in 1 .. Len(h) : h[j] \in Entry
    BY <1>1
  <2>2. \A j \in 1 .. Len(h) : h[j].t # t
    BY PlaceIs
  <2> QED
    BY <2>1, <2>2 DEF Entry
<1>5. r = Up(g, x, i)
  BY DEF HeapAdd, e1
<1> HIDE DEF g, i, r
<1>6. \A j \in 1 .. i : j = i \/ j \in 1 .. Len(h)
  BY <1>3 DEF i
<1>6a. i \notin 1 .. Len(h) /\ \A j \in 1 .. Len(h) : j \in 1 .. i
  BY <1>3 DEF i
<1>7. Different(g)
  <2> SUFFICES ASSUME NEW j \in 1 .. i, NEW k \in 1 .. i, g[j].t = g[k].t PROVE j = k
    BY <1>3 DEF Different
  <2>1. CASE j \in 1 .. Len(h) /\ k \in 1 .. Len(h)
    <3>1. g[j] = h[j] /\ g[k] = h[k]
      BY <1>3, <2>1
    <3> QED
      BY <1>1, <2>1, <3>1, Zenon DEF Different
  <2>2. CASE j = i /\ k \in 1 .. Len(h)
    <3>1. g[j].t = t /\ g[k] = h[k]
      BY <1>2, <1>3, <2>2
    <3> QED
      BY <1>4, <2>2, <3>1, Zenon
  <2>3. CASE k = i /\ j \in 1 .. Len(h)
    <3>1. g[k].t = t /\ g[j] = h[j]
      BY <1>2, <1>3, <2>3
    <3> QED
      BY <1>4, <2>3, <3>1, Zenon
  <2> QED
    BY <1>6, <2>1, <2>2, <2>3, Zenon
<1>8. KnownBut(g, x, i)
  <2>1. ASSUME NEW j \in 1 .. i, j # i PROVE x[g[j].t] = j
    BY <1>1, <1>3, <1>6, <2>1 DEF Known
  <2>2. ASSUME NEW u \in Tasks, \A j \in 1 .. i : g[j].t # u PROVE x[u] = 0
    <3>1. \A j \in 1 .. Len(h) : h[j].t # u
      BY <1>3, <1>6a, <2>2
    <3> QED
      BY <1>1, <3>1 DEF Known
  <2> QED
    BY <1>3, <2>1, <2>2 DEF KnownBut
<1>9. OrderedBut(Times(g), Halves(i), i, i)
  <2>1. ASSUME NEW j \in 2 .. i PROVE Halves(i)[j] # i /\ (j # i => Times(g)[Halves(i)[j]] <= Times(g)[j])
    <3>1. PICK p \in Nat : p = j \div 2 /\ p >= 1 /\ p < j
      BY Half
    <3>2. Halves(i)[j] = p /\ p # i
      BY <1>3, <2>1, <3>1, HalvesAre
    <3>3. ASSUME j # i PROVE Times(g)[p] <= Times(g)[j]
      <4>1. j \in 2 .. Len(h) /\ p \in 1 .. Len(h) /\ j \in 1 .. Len(h) /\ j \in 1 .. i /\ p \in 1 .. i
        BY <1>3, <1>6, <1>6a, <3>1, <3>3
      <4>2. h[p].at <= h[j].at
        BY <1>1, <3>1, <4>1 DEF Ordered
      <4>3. Times(g)[p] = g[p].at /\ Times(g)[j] = g[j].at
        BY <1>3, <4>1, TimesAre
      <4> QED
        BY <1>3, <4>1, <4>2, <4>3
    <3> QED
      BY <3>2, <3>3
  <2> QED
    BY <2>1 DEF OrderedBut
<1>10. /\ r.h \in Seq(Entry) /\ Len(r.h) = i /\ r.x \in [Tasks -> Nat]
       /\ Different(r.h) /\ Known(r.h, r.x) /\ SameTimers(r.h, g)
       /\ OrderedAbove(Times(r.h), Halves(i), i, i)
  BY <1>1, <1>3, <1>5, <1>7, <1>8, <1>9, UpIs
<1>11. Ordered(r.h)
  <2> SUFFICES ASSUME NEW j \in 2 .. i PROVE r.h[j \div 2].at <= r.h[j].at
    BY <1>10 DEF Ordered
  <2>1. PICK p \in Nat : p = j \div 2 /\ p >= 1 /\ p < j
    BY Half
  <2>2. Halves(i)[j] = p /\ p # i /\ p \in 1 .. i /\ j \in 1 .. i
    BY <1>3, <2>1, HalvesAre
  <2>3. Times(r.h)[p] <= Times(r.h)[j]
    BY <1>10, <2>2 DEF OrderedAbove
  <2>4. Times(r.h)[p] = r.h[p].at /\ Times(r.h)[j] = r.h[j].at
    BY <1>10, <2>2, TimesAre
  <2> QED
    BY <2>1, <2>3, <2>4
<1>12. ASSUME NEW e PROVE Holds(r.h, e) <=> (Holds(h, e) \/ e = e1)
  <2>1. Holds(r.h, e) <=> Holds(g, e)
    BY <1>10 DEF SameTimers, Holds
  <2>2. Holds(g, e) <=> (Holds(h, e) \/ e = e1)
    BY <1>3, <1>6, <1>6a DEF Holds
  <2> QED
    BY <2>1, <2>2
<1>13. HeapIs(r.h, r.x) /\ Len(r.h) = Len(h) + 1
  BY <1>10, <1>11 DEF HeapIs, i
<1> QED
  BY <1>12, <1>13 DEF r, e1

LEMMA HeapDelIs ==
  ASSUME NEW h, NEW x, HeapIs(h, x), NEW t \in Tasks
  PROVE  LET r == HeapDel(h, x, t) IN
         /\ HeapIs(r.h, r.x) /\ Len(r.h) <= Len(h) /\ r.x[t] = 0
         /\ \A e : Holds(r.h, e) <=> (Holds(h, e) /\ e.t # t)
<1> DEFINE i == x[t]
           y == [x EXCEPT ![t] = 0]
           f == Refill(h, y, i)
           u == Up(f.h, f.x, i)
           r == HeapDel(h, x, t)
<1>1. h \in Seq(Entry) /\ x \in [Tasks -> Nat] /\ Different(h) /\ Known(h, x) /\ Ordered(h)
  BY DEF HeapIs
<1>2. CASE i = 0
  <2>1. r = [h |-> h, x |-> x]
    BY <1>2 DEF HeapDel
  <2>2. \A j \in 1 .. Len(h) : h[j].t # t
    BY <1>2, PlaceIs
  <2>3. \A e : Holds(h, e) => e.t # t
    BY <2>2 DEF Holds
  <2>4. r.h = h /\ r.x = x
    BY <2>1
  <2>5. Len(h) <= Len(h)
    BY <1>1
  <2> HIDE DEF r
  <2> QED
    BY <1>2, <2>3, <2>4, <2>5 DEF r
<1>3. CASE i # 0
  <2>1. r = IF i > Len(f.h) THEN f ELSE Down(u.h, u.x, u.x[u.h[i].t])
    BY SMTT(60), <1>3 DEF HeapDel
  <2>2. PICK n \in Nat : Len(h) = n + 1 /\ i \in 1 .. n + 1 /\ h[i].t = t
    <3>1. i \in 1 .. Len(h) /\ h[i].t = t
      BY <1>3, PlaceIs
    <3>2. Len(h) \in Nat
      BY <1>1
    <3>3. Len(h) - 1 \in Nat /\ Len(h) = (Len(h) - 1) + 1
      BY <3>1, <3>2
    <3> QED
      BY <3>1, <3>3
  <2>3. /\ y \in [Tasks -> Nat] /\ y[t] = 0 /\ \A v \in Tasks : v # t => y[v] = x[v]
    BY <1>1
  <2>4. /\ \A j \in 1 .. n + 1 : h[j] \in Entry /\ h[j].t \in Tasks /\ h[j].at \in Nat
        /\ \A j, k \in 1 .. n + 1 : h[j].t = h[k].t => j = k
        /\ \A j \in 1 .. n + 1 : x[h[j].t] = j
        /\ \A v \in Tasks : (\A j \in 1 .. n + 1 : h[j].t # v) => x[v] = 0
        /\ \A j \in 2 .. n + 1 : h[j \div 2].at <= h[j].at
    <3>1. \A j \in 1 .. n + 1 : h[j] \in Entry
      BY <1>1, <2>2
    <3>2. \A j \in 1 .. n + 1 : h[j].t \in Tasks /\ h[j].at \in Nat
      BY <3>1 DEF Entry
    <3> QED
      BY <1>1, <2>2, <3>1, <3>2 DEF Different, Known, Ordered
  <2> DEFINE s == SubSeq(h, 1, n)
  <2>5. s \in Seq(Entry) /\ Len(s) = n /\ \A j \in 1 .. n : s[j] = h[j]
    BY <1>1, <2>2
  <2>6. f = IF i > n THEN [h |-> s, x |-> y]
            ELSE [h |-> [s EXCEPT ![i] = h[n + 1]], x |-> [y EXCEPT ![h[n + 1].t] = i]]
    <3>1. Len(h) - 1 = n
      BY <2>2
    <3>2. f = IF i > Len(h) - 1 THEN [h |-> SubSeq(h, 1, Len(h) - 1), x |-> y]
              ELSE [h |-> [SubSeq(h, 1, Len(h) - 1) EXCEPT ![i] = h[Len(h) - 1 + 1]],
                    x |-> [y EXCEPT ![h[Len(h) - 1 + 1].t] = i]]
      BY Zenon DEF Refill
    <3> QED
      BY <3>1, <3>2, Zenon
  <2> HIDE DEF s, y, f, u, r
  <2>7. CASE i > n
    <3>1. i = n + 1
      BY <2>2, <2>7
    <3>2. f.h = s /\ f.x = y
      BY <2>6, <2>7
    <3>3. r.h = s /\ r.x = y
      BY <2>1, <2>5, <2>7, <3>2
    <3>4. \A j \in 1 .. n : s[j].t # t /\ s[j] = h[j] /\ j \in 1 .. n + 1
      BY <2>2, <2>4, <2>5, <3>1
    <3>5. \A j \in 1 .. n + 1 : j = i \/ j \in 1 .. n
      BY <3>1
    <3>6. Different(s)
      BY <2>4, <2>5, <3>4 DEF Different
    <3>7. Known(s, y)
      <4>1. \A j \in 1 .. n : y[s[j].t] = j
        BY <2>3, <2>4, <3>4
      <4>2. ASSUME NEW v \in Tasks, \A j \in 1 .. n : s[j].t # v PROVE y[v] = 0
        <5>1. CASE v = t
          BY <2>3, <5>1
        <5>2. CASE v # t
          <6>1. \A j \in 1 .. n + 1 : h[j].t # v
            BY <2>2, <3>4, <3>5, <4>2, <5>2
          <6> QED
            BY <2>3, <2>4, <5>2, <6>1
        <5> QED
          BY <5>1, <5>2
      <4> QED
        BY <2>5, <4>1, <4>2 DEF Known
    <3>8. Ordered(s)
      <4> SUFFICES ASSUME NEW j \in 2 .. n PROVE s[j \div 2].at <= s[j].at
        BY <2>5 DEF Ordered
      <4>1. j \in 1 .. n /\ j \div 2 \in 1 .. n /\ j \in 2 .. n + 1
        BY Half
      <4> QED
        BY <2>4, <2>5, <4>1
    <3>9. ASSUME NEW e PROVE Holds(s, e) <=> (Holds(h, e) /\ e.t # t)
      <4>1. Holds(s, e) => (Holds(h, e) /\ e.t # t)
        BY <2>2, <2>5, <3>4 DEF Holds
      <4>2. (Holds(h, e) /\ e.t # t) => Holds(s, e)
        BY <2>2, <2>5, <3>4, <3>5 DEF Holds
      <4> QED
        BY <4>1, <4>2
    <3>10. HeapIs(s, y) /\ Len(s) <= Len(h)
      BY <2>2, <2>3, <2>5, <3>6, <3>7, <3>8 DEF HeapIs
    <3> QED
      BY <2>3, <3>3, <3>9, <3>10 DEF r
  <2>8. CASE ~(i > n)
    <3> DEFINE last == h[n + 1]
    <3>1. /\ i \in 1 .. n /\ n + 1 \in 1 .. n + 1 /\ last \in Entry /\ last.t \in Tasks /\ last.t # t
          /\ i # n + 1 /\ \A j \in 1 .. n : j \in 1 .. n + 1 /\ j # n + 1
      BY <2>2, <2>4, <2>8
    <3>2. f.h = [s EXCEPT ![i] = last] /\ f.x = [y EXCEPT ![last.t] = i]
      BY <2>6, <2>8
    <3> HIDE DEF last
    <3>3. /\ f.h \in Seq(Entry) /\ Len(f.h) = n /\ f.h[i] = last
          /\ \A j \in 1 .. n : j # i => f.h[j] = h[j]
      BY <2>5, <3>1, <3>2
    <3>4. /\ f.x \in [Tasks -> Nat] /\ f.x[t] = 0 /\ f.x[last.t] = i
          /\ \A v \in Tasks : (v # t /\ v # last.t) => f.x[v] = x[v]
      BY <2>3, <3>1, <3>2
    <3>5. \A j \in 1 .. n : h[j].t # last.t /\ (j # i => h[j].t # t)
      BY <2>2, <2>4, <3>1 DEF last
    <3>6. \A j \in 1 .. n + 1 : j = n + 1 \/ j \in 1 .. n
      OBVIOUS
    <3>7. Different(f.h)
      <4> SUFFICES ASSUME NEW j \in 1 .. n, NEW k \in 1 .. n, f.h[j].t = f.h[k].t PROVE j = k
        BY <3>3 DEF Different
      <4>1. \A m \in 1 .. n : m # i => (f.h[m].t = h[m].t /\ h[m].t # last.t)
        BY <3>3, <3>5
      <4>2. CASE j = i \/ k = i
        BY <3>3, <4>1, <4>2
      <4>3. CASE j # i /\ k # i
        <5>1. h[j].t = h[k].t
          BY <4>1, <4>3
        <5> QED
          BY <2>4, <3>1, <5>1
      <4> QED
        BY <4>2, <4>3
    <3>8. KnownBut(f.h, f.x, i)
      <4>1. ASSUME NEW j \in 1 .. n, j # i PROVE f.x[f.h[j].t] = j
        <5>1. f.h[j] = h[j] /\ h[j].t \in Tasks /\ h[j].t # t /\ h[j].t # last.t /\ x[h[j].t] = j
          BY <2>4, <3>1, <3>3, <3>5, <4>1
        <5> QED
          BY <3>4, <5>1
      <4>2. ASSUME NEW v \in Tasks, \A j \in 1 .. n : f.h[j].t # v PROVE f.x[v] = 0
        <5>1. CASE v = t
          BY <3>4, <5>1
        <5>2. CASE v # t
          <6>1. v # last.t
            BY <3>1, <3>3, <4>2
          <6>2. \A j \in 1 .. n + 1 : h[j].t # v
            BY <2>2, <3>3, <3>6, <4>2, <5>2, <6>1 DEF last
          <6> QED
            BY <2>4, <3>4, <5>2, <6>1, <6>2
        <5> QED
          BY <5>1, <5>2
      <4> QED
        BY <3>3, <4>1, <4>2 DEF KnownBut
    <3>9. OrderedBut(Times(f.h), Halves(n), n, i)
      <4>1. \A j \in 1 .. n : Times(f.h)[j] = f.h[j].at
        BY <3>3, TimesAre
      <4>2. \A j \in 2 .. n : j \in 1 .. n /\ j \in 1 .. n + 1 /\ j \in 2 .. n + 1 /\ j \div 2 \in 1 .. n /\ Halves(n)[j] = j \div 2
        BY Half, HalvesAre
      <4>3. ASSUME NEW j \in 2 .. n, j # i, Halves(n)[j] # i PROVE Times(f.h)[Halves(n)[j]] <= Times(f.h)[j]
        <5>1. h[j \div 2].at <= h[j].at
          BY <2>4, <4>2
        <5>2. f.h[j \div 2] = h[j \div 2] /\ f.h[j] = h[j]
          BY <3>3, <4>2, <4>3
        <5> QED
          BY <4>1, <4>2, <5>1, <5>2
      <4>4. ASSUME NEW j \in 2 .. n, Halves(n)[j] = i, i > 1 PROVE Times(f.h)[Halves(n)[i]] <= Times(f.h)[j]
        <5>1. i \in 2 .. n
          BY <2>8, <3>1, <4>4
        <5>2. PICK p \in 1 .. n : p = i \div 2 /\ p # i /\ Halves(n)[i] = p
          BY <4>2, <5>1, Half
        <5>3. h[p].at <= h[i].at /\ h[i].at <= h[j].at
          BY <2>4, <4>2, <4>4, <5>1, <5>2
        <5>4. j # i /\ j \in 1 .. n
          BY <4>2, <4>4, Half
        <5>5. f.h[p] = h[p] /\ f.h[j] = h[j]
          BY <3>3, <5>2, <5>4
        <5>6. h[p].at \in Nat /\ h[i].at \in Nat /\ h[j].at \in Nat
          BY <2>4, <3>1, <5>2, <5>4
        <5>7. Times(f.h)[Halves(n)[i]] = h[p].at /\ Times(f.h)[j] = h[j].at
          BY <4>1, <5>2, <5>4, <5>5
        <5> QED
          BY <5>3, <5>6, <5>7
      <4> QED
        BY <4>3, <4>4 DEF OrderedBut
    <3>10. /\ u.h \in Seq(Entry) /\ Len(u.h) = n /\ u.x \in [Tasks -> Nat]
           /\ Different(u.h) /\ Known(u.h, u.x) /\ SameTimers(u.h, f.h)
           /\ OrderedAbove(Times(u.h), Halves(n), n, i)
      <4>1. i \in 1 .. Len(f.h)
        BY <3>1, <3>3
      <4> HIDE DEF i
      <4> QED
        BY <3>3, <3>4, <3>7, <3>8, <3>9, <4>1, UpIs DEF u
    <3>11. u.x[u.h[i].t] = i /\ KnownBut(u.h, u.x, i)
      BY <3>1, <3>10 DEF Known, KnownBut
    <3>12. r = Down(u.h, u.x, i)
      <4>1. ~(i > Len(f.h))
        BY <2>8, <3>3
      <4> HIDE DEF i
      <4> QED
        BY <2>1, <3>11, <4>1
    <3>13. /\ r.h \in Seq(Entry) /\ Len(r.h) = n /\ r.x \in [Tasks -> Nat]
           /\ Different(r.h) /\ Known(r.h, r.x) /\ SameTimers(r.h, u.h) /\ Ordered(r.h)
      <4>1. i \in 1 .. Len(u.h)
        BY <3>1, <3>10
      <4> HIDE DEF i
      <4> QED
        BY <3>10, <3>11, <3>12, <4>1, DownIs
    <3>14. ASSUME NEW e PROVE Holds(r.h, e) <=> (Holds(h, e) /\ e.t # t)
      <4>1. Holds(r.h, e) <=> Holds(f.h, e)
        BY <3>10, <3>13 DEF SameTimers, Holds
      <4>2. Holds(f.h, e) => (Holds(h, e) /\ e.t # t)
        <5> SUFFICES ASSUME NEW j \in 1 .. n, f.h[j] = e PROVE Holds(h, e) /\ e.t # t
          BY <3>3 DEF Holds
        <5>1. CASE j = i
          BY <2>2, <3>1, <3>3, <5>1 DEF Holds, last
        <5>2. CASE j # i
          BY <2>2, <3>1, <3>3, <3>5, <5>2 DEF Holds
        <5> QED
          BY <5>1, <5>2
      <4>3. ASSUME Holds(h, e), e.t # t PROVE Holds(f.h, e)
        <5>1. PICK j \in 1 .. n + 1 : h[j] = e
          BY <2>2, <4>3 DEF Holds
        <5>2. j # i
          BY <2>2, <4>3, <5>1
        <5>3. CASE j = n + 1
          BY <3>1, <3>3, <5>1, <5>3 DEF Holds, last
        <5>4. CASE j \in 1 .. n
          BY <3>3, <5>1, <5>2, <5>4 DEF Holds
        <5> QED
          BY <3>6, <5>3, <5>4
      <4> QED
        BY <4>1, <4>2, <4>3
    <3>15. r.x[t] = 0
      <4>1. \A j \in 1 .. n : r.h[j].t # t
        BY <3>13, <3>14 DEF Holds
      <4> QED
        BY <3>13, <4>1 DEF Known
    <3>16. HeapIs(r.h, r.x) /\ Len(r.h) <= Len(h)
      BY <2>2, <3>13 DEF HeapIs
    <3> QED
      BY <3>14, <3>15, <3>16 DEF r
  <2> QED
    BY <2>7, <2>8
<1> QED
  BY <1>2, <1>3

-----------------------------------------------------------------------------
(* The invariant.                                                          *)

(* Every variable has its type. *)
RegSet == [t: Tasks \cup {None}, way: Ways \cup {None}, armed: BOOLEAN]
TaskSet == [st: {"run", "enter", "parked", "ready"}, pfd: Fds \cup {None}, hidx: Nat,
            why: {"none", "event", "deadline"}]
CallSet == [fd: Fds \cup {None}, way: Ways \cup {None}, at: -1 .. MaxTime, came: BOOLEAN]
PollerSet == [pc: {"plan", "wait", "got", "events", "timers"}, until: Int, over: BOOLEAN,
              evs: SUBSET Tasks, kick: BOOLEAN, now: 0 .. MaxTime, waking: Tasks \cup {None},
              todo: {<<>>, <<"settle">>, <<"ready", "settle">>}]
Types ==
  /\ now \in 0 .. MaxTime /\ ready \subseteq Fds \X Ways /\ kicked \in BOOLEAN
  /\ cap \in Nat /\ robbed \subseteq Tasks
  /\ reg \in [Fds -> RegSet] /\ task \in [Tasks -> TaskSet] /\ call \in [Tasks -> CallSet]
  /\ poller \in PollerSet

(* The heap has the timer of every parked task with a deadline, but that   *)
(* of the task that is being woken.                                        *)
Timing(t) == Parked(t) /\ Timed(t) /\ t # poller.waking
TimerOf(t) == [at |-> call[t].at, t |-> t]
HeapInv ==
  /\ HeapIs(heap, Places) /\ Len(heap) <= cap
  /\ {heap[j] : j \in 1 .. Len(heap)} = {TimerOf(t) : t \in {u \in Tasks : Timing(u)}}

(* Who counts in m9_pending: the calls that are under way, and a task that *)
(* was woken and not settled yet.                                          *)
Calling == {t \in Tasks : task[t].st \in {"enter", "parked"}}
Settling == poller.waking # None /\ poller.todo = <<"settle">>
PendingInv == pending = Cardinality(Calling) + (IF Settling THEN 1 ELSE 0)

(* The poller wakes under its lock, and for a reason that is true. *)
Reason(t) ==
  \/ task[t].why = "event" /\ call[t].came
  \/ task[t].why = "deadline" /\ Timed(t) /\ call[t].at <= now
WakingInv ==
  /\ IF poller.waking = None THEN poller.todo = <<>>
     ELSE poller.pc \in {"events", "timers"} /\ poller.todo # <<>>
  /\ poller.todo = <<"ready", "settle">> => Parked(poller.waking) /\ Reason(poller.waking)
  /\ poller.todo = <<"settle">> => ~Parked(poller.waking)
  /\ poller.pc = "timers" => poller.now <= now

(* A parked task's descriptor is the one of its call; if that is ready,    *)
(* the call has seen it.                                                   *)
PfdInv == \A t \in Tasks : (Parked(t) /\ t # poller.waking) => task[t].pfd = call[t].fd
CameInv == \A t \in Tasks : (Parked(t) /\ <<call[t].fd, call[t].way>> \in ready) => call[t].came

(* An armed registration is that of a parked task, for what it waits for,  *)
(* and no event of that task is still to be handled; the task whose event  *)
(* is has seen its descriptor come.                                        *)
ArmedInv ==
  \A fd \in Fds : reg[fd].armed =>
    /\ reg[fd].t \in Tasks /\ reg[fd].t \notin poller.evs /\ reg[fd].t # poller.waking
    /\ Parked(reg[fd].t) /\ call[reg[fd].t].fd = fd /\ call[reg[fd].t].way = reg[fd].way
EvsInv ==
  /\ \A t \in poller.evs : Parked(t) /\ t # poller.waking /\ call[t].came
  /\ poller.evs # {} => poller.pc \in {"got", "events"}

IInv == Types /\ HeapInv /\ PendingInv /\ WakingInv /\ PfdInv /\ CameInv /\ ArmedInv /\ EvsInv

(* The members of the sets that Types names. *)
LEMMA Members ==
  ASSUME Types
  PROVE  /\ \A t \in Tasks :
              /\ task[t] \in TaskSet /\ call[t] \in CallSet
              /\ task[t].st \in {"run", "enter", "parked", "ready"} /\ task[t].pfd \in Fds \cup {None}
              /\ task[t].hidx \in Nat /\ task[t].why \in {"none", "event", "deadline"}
              /\ call[t].fd \in Fds \cup {None} /\ call[t].way \in Ways \cup {None}
              /\ call[t].at \in -1 .. MaxTime /\ call[t].came \in BOOLEAN
         /\ \A fd \in Fds : /\ reg[fd] \in RegSet /\ reg[fd].t \in Tasks \cup {None}
                            /\ reg[fd].way \in Ways \cup {None} /\ reg[fd].armed \in BOOLEAN
         /\ Places \in [Tasks -> Nat] /\ \A t \in Tasks : Places[t] = task[t].hidx
<1>1. \A t \in Tasks : task[t] \in TaskSet /\ call[t] \in CallSet
  BY DEF Types
<1>2. \A fd \in Fds : reg[fd] \in RegSet
  BY DEF Types
<1>3. \A t \in Tasks : task[t].hidx \in Nat
  BY <1>1 DEF TaskSet
<1> QED
  BY <1>1, <1>2, <1>3 DEF TaskSet, CallSet, RegSet, Places

LEMMA PollerIs ==
  ASSUME Types
  PROVE  /\ poller.pc \in {"plan", "wait", "got", "events", "timers"} /\ poller.until \in Int
         /\ poller.over \in BOOLEAN /\ poller.evs \subseteq Tasks /\ poller.kick \in BOOLEAN
         /\ poller.now \in 0 .. MaxTime /\ poller.waking \in Tasks \cup {None}
         /\ poller.todo \in {<<>>, <<"settle">>, <<"ready", "settle">>}
BY DEF Types, PollerSet

(* The heap's entries, one by one. *)
LEMMA HeapHolds ==
  HeapInv <=> /\ HeapIs(heap, Places) /\ Len(heap) <= cap
              /\ \A e : Holds(heap, e) <=> \E t \in Tasks : Timing(t) /\ e = TimerOf(t)
<1> DEFINE L == {heap[j] : j \in 1 .. Len(heap)}
           R == {TimerOf(t) : t \in {u \in Tasks : Timing(u)}}
<1>1. \A e : Holds(heap, e) <=> e \in L
  BY DEF Holds
<1>2. \A e : (\E t \in Tasks : Timing(t) /\ e = TimerOf(t)) <=> e \in R
  OBVIOUS
<1> HIDE DEF R, L
<1>3. L = R <=> \A e : Holds(heap, e) <=> \E t \in Tasks : Timing(t) /\ e = TimerOf(t)
  BY <1>1, <1>2
<1>4. HeapInv <=> HeapIs(heap, Places) /\ Len(heap) <= cap /\ L = R
  BY DEF HeapInv, L, R
<1> QED
  BY <1>3, <1>4

LEMMA HeapHoldsNext ==
  HeapInv' <=> /\ HeapIs(heap', Places') /\ Len(heap') <= cap'
               /\ \A e : Holds(heap', e) <=> \E t \in Tasks : Timing(t)' /\ e = TimerOf(t)'
<1> DEFINE L == {heap'[j] : j \in 1 .. Len(heap')}
           R == {TimerOf(t)' : t \in {u \in Tasks : Timing(u)'}}
<1>1. \A e : Holds(heap', e) <=> e \in L
  BY DEF Holds
<1>2. \A e : (\E t \in Tasks : Timing(t)' /\ e = TimerOf(t)') <=> e \in R
  OBVIOUS
<1> HIDE DEF R, L
<1>3. L = R <=> \A e : Holds(heap', e) <=> \E t \in Tasks : Timing(t)' /\ e = TimerOf(t)'
  BY <1>1, <1>2
<1>4. HeapInv' <=> HeapIs(heap', Places') /\ Len(heap') <= cap' /\ L = R
  BY DEF HeapInv, L, R
<1> QED
  BY <1>3, <1>4

(* Whoever has no timer in the heap has no place in it. *)
LEMMA TimersPlaced ==
  ASSUME Types, HeapInv, NEW t \in Tasks
  PROVE  /\ ~Timing(t) => task[t].hidx = 0
         /\ task[t].hidx \in 0 .. Len(heap)
         /\ Timed(t) => call[t].at \in Nat
<1>1. /\ HeapIs(heap, Places)
      /\ \A e : Holds(heap, e) <=> \E u \in Tasks : Timing(u) /\ e = TimerOf(u)
  BY HeapHolds
<1>2. Places[t] = task[t].hidx /\ task[t].hidx \in Nat /\ call[t].at \in -1 .. MaxTime
  BY Members
<1>3. /\ Places[t] # 0 => (Places[t] \in 1 .. Len(heap) /\ heap[Places[t]].t = t)
  BY <1>1, PlaceIs
<1>4. ASSUME Places[t] # 0 PROVE Timing(t)
  <2>1. Holds(heap, heap[Places[t]])
    BY <1>3, <1>4 DEF Holds
  <2>2. PICK u \in Tasks : Timing(u) /\ heap[Places[t]] = TimerOf(u)
    BY <1>1, <2>1
  <2>3. u = t
    BY <1>3, <1>4, <2>2 DEF TimerOf
  <2> QED
    BY <2>2, <2>3
<1>5. Len(heap) \in Nat
  BY <1>1 DEF HeapIs
<1>6. Timed(t) => call[t].at \in Nat
  BY <1>2, PollerAssumption DEF Timed, NoLimit
<1>7. task[t].hidx \in 0 .. Len(heap)
  BY <1>2, <1>3, <1>5
<1> QED
  BY <1>2, <1>4, <1>6, <1>7

(* Steps that leave the heap alone. *)
LEMMA HeapStays ==
  ASSUME HeapInv, heap' = heap, cap' = cap, Places' = Places,
         \A t \in Tasks : (Timing(t)' <=> Timing(t)) /\ (Timing(t) => call'[t].at = call[t].at)
  PROVE  HeapInv'
<1>1. \A e : (\E t \in Tasks : Timing(t) /\ e = TimerOf(t)) <=> (\E t \in Tasks : Timing(t)' /\ e = TimerOf(t)')
  BY DEF TimerOf
<1> QED
  BY <1>1, HeapHolds, HeapHoldsNext

(* The timer of t is taken out. *)
LEMMA HeapWithout ==
  ASSUME Types, HeapInv, NEW t \in Tasks, heap' = HeapDel(heap, Places, t).h,
         Places' = HeapDel(heap, Places, t).x, cap' = cap,
         \A u \in Tasks : (Timing(u)' <=> (Timing(u) /\ u # t)) /\ (Timing(u)' => call'[u].at = call[u].at)
  PROVE  HeapInv'
<1> DEFINE r == HeapDel(heap, Places, t)
<1>1. /\ HeapIs(heap, Places) /\ Len(heap) <= cap
      /\ \A e : Holds(heap, e) <=> \E u \in Tasks : Timing(u) /\ e = TimerOf(u)
  BY HeapHolds
<1>2. /\ HeapIs(r.h, r.x) /\ Len(r.h) <= Len(heap)
      /\ \A e : Holds(r.h, e) <=> (Holds(heap, e) /\ e.t # t)
  BY <1>1, HeapDelIs
<1>3. heap' = r.h /\ Places' = r.x
  OBVIOUS
<1> HIDE DEF r
<1>4. ASSUME NEW e PROVE Holds(heap', e) <=> \E u \in Tasks : Timing(u)' /\ e = TimerOf(u)'
  <2>1. Holds(heap', e) <=> ((\E u \in Tasks : Timing(u) /\ e = TimerOf(u)) /\ e.t # t)
    BY <1>1, <1>2, <1>3
  <2>2. ASSUME NEW u \in Tasks, Timing(u), e = TimerOf(u), e.t # t PROVE Timing(u)' /\ e = TimerOf(u)'
    BY <2>2 DEF TimerOf
  <2>3. ASSUME NEW u \in Tasks, Timing(u)', e = TimerOf(u)' PROVE Timing(u) /\ e = TimerOf(u) /\ e.t # t
    BY <2>3 DEF TimerOf
  <2> QED
    BY <2>1, <2>2, <2>3
<1>5. HeapIs(heap', Places')
  BY <1>2, <1>3
<1>6. Len(heap') <= cap'
  <2>1. Len(heap') \in Int /\ Len(heap) \in Int /\ cap \in Int
    BY <1>1, <1>5 DEF HeapIs, Types
  <2> QED
    BY <1>1, <1>2, <1>3, <2>1
<1> QED
  BY <1>4, <1>5, <1>6, HeapHoldsNext

(* What m9_pending counts. *)
LEMMA PendingStays ==
  ASSUME PendingInv, pending' = pending, Calling' = Calling, Settling' = Settling
  PROVE  PendingInv'
BY DEF PendingInv

-----------------------------------------------------------------------------
(* The initial states, and one lemma for each action.                      *)
LEMMA InitInv == Init => IInv
<1> SUFFICES ASSUME Init PROVE IInv
  OBVIOUS
<1> USE DEF Init
<1>1. \A t \in Tasks : /\ task[t] = [st |-> "run", pfd |-> None, hidx |-> 0, why |-> "none"]
                       /\ task[t].st = "run" /\ task[t].hidx = 0 /\ ~Parked(t)
  BY DEF Parked
<1>2. \A fd \in Fds : reg[fd].armed = FALSE
  BY DEF Unregistered
<1>3. /\ poller.pc = "plan" /\ poller.evs = {} /\ poller.waking = None /\ poller.todo = <<>>
      /\ poller \in PollerSet
  BY PollerAssumption DEF Planning, NoLimit, PollerSet
<1>4. Types
  <2>1. NoCall \in CallSet /\ Unregistered \in RegSet
    BY PollerAssumption DEF NoCall, NoLimit, CallSet, Unregistered, RegSet
  <2>2. task \in [Tasks -> TaskSet] /\ call \in [Tasks -> CallSet] /\ reg \in [Fds -> RegSet]
    BY <2>1 DEF TaskSet
  <2>3. now \in 0 .. MaxTime /\ cap \in Nat
    BY PollerAssumption
  <2> QED
    BY <1>3, <2>2, <2>3 DEF Types
<1>5. HeapInv
  <2>1. heap = <<>> /\ Len(heap) = 0 /\ \A j \in 1 .. Len(heap) : FALSE
    OBVIOUS
  <2>2. \A e : ~Holds(heap, e)
    BY <2>1 DEF Holds
  <2>3. Places \in [Tasks -> Nat] /\ \A t \in Tasks : Places[t] = 0
    BY <1>1 DEF Places
  <2>4. HeapIs(heap, Places)
    <3>1. heap \in Seq(Entry)
      BY <2>1
    <3>2. \A j \in 2 .. Len(heap) : FALSE
      BY <2>1
    <3> QED
      BY <2>1, <2>3, <3>1, <3>2 DEF HeapIs, Different, Known, Ordered
  <2>5. \A t \in Tasks : ~Timing(t)
    BY <1>1 DEF Timing
  <2>6. Len(heap) <= cap
    BY <2>1
  <2> HIDE DEF Init
  <2> QED
    BY <2>2, <2>4, <2>5, <2>6, HeapHolds
<1>6. PendingInv
  <2>1. Calling = {}
    BY <1>1 DEF Calling
  <2>2. Cardinality({}) = 0
    BY FS_EmptySet
  <2>3. ~Settling
    BY <1>3 DEF Settling
  <2> QED
    BY <2>1, <2>2, <2>3 DEF PendingInv
<1>7. WakingInv
  BY <1>3 DEF WakingInv
<1>8. PfdInv /\ CameInv /\ ArmedInv /\ EvsInv
  BY <1>1, <1>2, <1>3 DEF PfdInv, CameInv, ArmedInv, EvsInv
<1> QED
  BY <1>4, <1>5, <1>6, <1>7, <1>8 DEF IInv

(* Steps that change none of the tasks, the calls, the poller and its heap. *)
LEMMA WorldStays ==
  ASSUME IInv, UNCHANGED <<heap, cap, pending, task, call, poller>>
  PROVE  /\ HeapInv' /\ PendingInv' /\ PfdInv'
         /\ \A t \in Tasks \cup {None} : Parked(t)' = Parked(t) /\ (Timed(t)' <=> Timed(t))
<1>1. \A t \in Tasks \cup {None} : Parked(t)' = Parked(t) /\ (Timed(t)' <=> Timed(t))
  BY DEF Parked, Timed
<1>2. Places' = Places
  BY DEF Places
<1>3. HeapInv'
  BY <1>1, <1>2, HeapStays DEF Timing, IInv
<1>4. PendingInv'
  <2>1. Calling' = Calling /\ Settling' = Settling
    BY DEF Calling, Settling
  <2> QED
    BY <2>1, PendingStays DEF IInv
<1>5. PfdInv'
  BY <1>1 DEF IInv, PfdInv
<1> QED
  BY <1>1, <1>3, <1>4, <1>5

LEMMA TickKeeps == ASSUME IInv, Tick PROVE IInv'
<1>1. UNCHANGED <<ready, reg, kicked, heap, cap, pending, task, call, poller, robbed>> /\ now' = now + 1
  BY DEF Tick
<1>2. /\ HeapInv' /\ PendingInv' /\ PfdInv'
      /\ \A t \in Tasks \cup {None} : Parked(t)' = Parked(t) /\ (Timed(t)' <=> Timed(t))
  BY <1>1, WorldStays
<1>3. now \in Nat /\ now' \in Nat /\ now < now' /\ now' \in 0 .. MaxTime
  BY PollerAssumption DEF IInv, Types, Tick
<1>4. Types'
  BY <1>1, <1>3 DEF IInv, Types
<1>5. WakingInv'
  <2>1. \A t \in Tasks : Reason(t) => Reason(t)'
    <3> SUFFICES ASSUME NEW t \in Tasks, Reason(t) PROVE Reason(t)'
      OBVIOUS
    <3>1. call[t].at \in Int
      BY Members DEF IInv
    <3> QED
      BY <1>1, <1>2, <1>3, <3>1 DEF Reason
  <2>2. poller.waking \in Tasks \cup {None} /\ poller.now \in Int
    BY PollerIs DEF IInv
  <2>3. WakingInv /\ poller' = poller
    BY <1>1 DEF IInv
  <2>4. poller.todo = <<"ready", "settle">> => poller.waking \in Tasks
    BY <2>2, <2>3 DEF WakingInv
  <2>5. poller.pc = "timers" => poller.now <= now'
    BY <1>3, <2>2, <2>3 DEF WakingInv
  <2> QED
    BY <1>2, <2>1, <2>2, <2>3, <2>4, <2>5 DEF WakingInv
<1>6. CameInv' /\ ArmedInv' /\ EvsInv'
  BY <1>1 DEF IInv, CameInv, ArmedInv, EvsInv, Parked
<1> QED
  BY <1>2, <1>4, <1>5, <1>6 DEF IInv

LEMMA DrainKeeps ==
  ASSUME IInv, NEW fd \in Fds, NEW way \in Ways, Drain(fd, way)
  PROVE  IInv'
<1>1. /\ UNCHANGED <<now, reg, kicked, heap, cap, pending, task, call, poller, robbed>>
      /\ ready' \subseteq ready
  BY DEF Drain
<1>2. HeapInv' /\ PendingInv' /\ PfdInv'
  BY <1>1, WorldStays
<1>3. Types'
  BY <1>1 DEF IInv, Types
<1>4. WakingInv'
  BY <1>1 DEF IInv, WakingInv, Reason, Parked, Timed
<1>5. CameInv' /\ ArmedInv' /\ EvsInv'
  BY <1>1 DEF IInv, CameInv, ArmedInv, EvsInv, Parked
<1> QED
  BY <1>2, <1>3, <1>4, <1>5 DEF IInv

LEMMA CloseKeeps ==
  ASSUME IInv, NEW fd \in Fds, Close(fd)
  PROVE  IInv'
<1>1. /\ UNCHANGED <<now, kicked, heap, cap, pending, task, call, poller, robbed>>
      /\ ready' \subseteq ready /\ reg' = [reg EXCEPT ![fd] = Unregistered]
  BY DEF Close
<1>2. HeapInv' /\ PendingInv' /\ PfdInv'
  BY <1>1, WorldStays
<1>3. Types'
  <2>1. Unregistered \in RegSet
    BY DEF Unregistered, RegSet
  <2>2. reg' \in [Fds -> RegSet]
    BY <1>1, <2>1 DEF IInv, Types
  <2> QED
    BY <1>1, <2>2 DEF IInv, Types
<1>4. WakingInv'
  BY <1>1 DEF IInv, WakingInv, Reason, Parked, Timed
<1>5. CameInv' /\ EvsInv'
  BY <1>1 DEF IInv, CameInv, EvsInv, Parked
<1>6. ArmedInv'
  <2>1. \A f \in Fds : reg'[f].armed => (reg'[f] = reg[f] /\ reg[f].armed)
    BY <1>1 DEF IInv, Types, Unregistered
  <2> QED
    BY <1>1, <2>1 DEF IInv, ArmedInv, Parked
<1> QED
  BY <1>2, <1>3, <1>4, <1>5, <1>6 DEF IInv

LEMMA ArriveKeeps ==
  ASSUME IInv, NEW fd \in Fds, NEW way \in Ways, Arrive(fd, way)
  PROVE  IInv'
<1>1. /\ UNCHANGED <<now, reg, kicked, heap, cap, pending, task, poller, robbed>>
      /\ ready' = ready \cup {<<fd, way>>}
  BY DEF Arrive
<1>2. \A t \in Tasks :
        /\ call'[t] = [call[t] EXCEPT !.came = @ \/ (Parked(t) /\ call[t].fd = fd /\ call[t].way = way)]
        /\ call[t] \in CallSet
  BY DEF Arrive, IInv, Types, Parked
<1>3. \A t \in Tasks :
        /\ call'[t].fd = call[t].fd /\ call'[t].way = call[t].way /\ call'[t].at = call[t].at
        /\ call'[t].came = (call[t].came \/ (Parked(t) /\ call[t].fd = fd /\ call[t].way = way))
        /\ call'[t] \in CallSet
  BY <1>2 DEF CallSet
<1>4. \A t \in Tasks \cup {None} : Parked(t)' = Parked(t)
  BY <1>1 DEF Parked
<1>5. \A t \in Tasks : (Timed(t)' <=> Timed(t)) /\ (Timing(t)' <=> Timing(t)) /\ (Reason(t) => Reason(t)')
  BY <1>1, <1>3, <1>4 DEF Timing, Timed, Reason
<1>6. Types'
  <2>1. call' \in [Tasks -> CallSet]
    <3>1. call' = [t \in Tasks |-> call'[t]]
      BY DEF Arrive
    <3> QED
      BY <1>3, <3>1
  <2> QED
    BY <1>1, <2>1 DEF IInv, Types
<1>7. HeapInv'
  <2>1. Places' = Places
    BY <1>1 DEF Places
  <2> QED
    BY <1>1, <1>3, <1>5, <2>1, HeapStays DEF IInv
<1>8. PendingInv'
  <2>1. Calling' = Calling /\ Settling' = Settling
    BY <1>1 DEF Calling, Settling
  <2> QED
    BY <1>1, <2>1, PendingStays DEF IInv
<1>9. WakingInv'
  <2>1. WakingInv /\ poller.waking \in Tasks \cup {None}
    BY PollerIs DEF IInv
  <2> QED
    BY <1>1, <1>4, <1>5, <2>1 DEF WakingInv
<1>10. PfdInv' /\ CameInv'
  <2>1. PfdInv'
    BY <1>1, <1>3, <1>4 DEF IInv, PfdInv
  <2>2. ASSUME NEW t \in Tasks, Parked(t), <<call[t].fd, call[t].way>> \in ready' PROVE call'[t].came
    <3>1. CASE <<call[t].fd, call[t].way>> \in ready
      BY <1>3, <2>2, <3>1 DEF IInv, CameInv
    <3>2. CASE <<call[t].fd, call[t].way>> = <<fd, way>>
      BY <1>3, <2>2, <3>2
    <3> QED
      BY <1>1, <2>2, <3>1, <3>2
  <2> QED
    BY <1>3, <1>4, <2>1, <2>2 DEF CameInv
<1>11. ArmedInv' /\ EvsInv'
  <2>1. ArmedInv'
    BY <1>1, <1>3, <1>4 DEF IInv, ArmedInv
  <2>2. poller.evs \subseteq Tasks
    BY PollerIs DEF IInv
  <2>3. EvsInv'
    BY <1>1, <1>3, <1>4, <2>2 DEF IInv, EvsInv
  <2> QED
    BY <2>1, <2>3
<1> QED
  BY <1>6, <1>7, <1>8, <1>9, <1>10, <1>11 DEF IInv

LEMMA StutterKeeps == ASSUME IInv, UNCHANGED vars PROVE IInv'
<1>1. UNCHANGED <<now, ready, reg, kicked, heap, cap, pending, task, call, poller, robbed>>
  BY DEF vars
<1>2. HeapInv' /\ PendingInv' /\ PfdInv'
  BY <1>1, WorldStays
<1>3. Types'
  BY <1>1 DEF IInv, Types
<1>4. WakingInv'
  BY <1>1 DEF IInv, WakingInv, Reason, Parked, Timed
<1>5. CameInv' /\ ArmedInv' /\ EvsInv'
  BY <1>1 DEF IInv, CameInv, ArmedInv, EvsInv, Parked
<1> QED
  BY <1>2, <1>3, <1>4, <1>5 DEF IInv

LEMMA AsIntIs == ASSUME NEW n \in Int PROVE AsInt(n) \in Int
<1>1. PICK m \in Nat \ {0} : m = 2 * (IntMax + 1)
  BY PollerAssumption
<1>2. PICK k \in Int : k = n + IntMax + 1
  BY PollerAssumption
<1>3. k % m \in Int
  OBVIOUS
<1> QED
  BY <1>1, <1>2, <1>3, PollerAssumption DEF AsInt

(* Steps of the poller that wake nobody. *)
LEMMA PollerStays ==
  ASSUME IInv, poller.waking = None, poller'.waking = None, poller'.todo = <<>>,
         poller' \in PollerSet, UNCHANGED <<now, ready, heap, cap, pending, task, call, robbed>>,
         kicked' \in BOOLEAN, reg' \in [Fds -> RegSet],
         poller'.pc = "timers" => poller'.now <= now
  PROVE  /\ Types' /\ HeapInv' /\ PendingInv' /\ WakingInv' /\ PfdInv' /\ CameInv'
         /\ \A t : (Parked(t)' <=> Parked(t))
<1>1. \A t : (Parked(t)' <=> Parked(t)) /\ (Timed(t)' <=> Timed(t))
  BY DEF Parked, Timed
<1>2. Types'
  BY DEF IInv, Types
<1>3. HeapInv'
  <2>1. Places' = Places
    BY DEF Places
  <2>2. \A t \in Tasks : Timing(t)' <=> Timing(t)
    BY <1>1 DEF Timing
  <2> QED
    BY <2>1, <2>2, HeapStays DEF IInv
<1>4. PendingInv'
  <2>1. Calling' = Calling
    BY DEF Calling
  <2>2. ~Settling /\ ~Settling'
    BY DEF Settling
  <2> QED
    BY <2>1, <2>2 DEF IInv, PendingInv
<1>5. WakingInv'
  <2>1. poller'.todo # <<"ready", "settle">> /\ poller'.todo # <<"settle">>
    OBVIOUS
  <2> QED
    BY <2>1 DEF WakingInv
<1>6. PfdInv' /\ CameInv'
  BY <1>1 DEF IInv, PfdInv, CameInv
<1> QED
  BY <1>1, <1>2, <1>3, <1>4, <1>5, <1>6

(* Outside its lock the poller wakes nobody. *)
LEMMA NobodyWaking ==
  ASSUME IInv, poller.pc \notin {"events", "timers"} \/ poller.waking = None
  PROVE  poller.waking = None /\ poller.todo = <<>>
BY DEF IInv, WakingInv

LEMMA PlanKeeps == ASSUME IInv, Plan PROVE IInv'
<1>1. /\ poller.pc = "plan" /\ UNCHANGED <<now, ready, reg, kicked, heap, cap, pending, task, call, robbed>>
      /\ poller.waking = None /\ poller.todo = <<>>
  BY NobodyWaking DEF Plan
<1> DEFINE d == heap[1].at - now
           ms == IF heap = <<>> THEN -1 ELSE IF d <= 0 THEN 0 ELSE AsInt(d + 1)
<1>2. poller' = [poller EXCEPT !.pc = "wait", !.until = IF ms < 0 THEN NoLimit ELSE now + ms,
                               !.over = heap # <<>> /\ ms < 0]
  BY DEF Plan
<1>3. now \in Int /\ (IF ms < 0 THEN NoLimit ELSE now + ms) \in Int /\ (heap # <<>> /\ ms < 0) \in BOOLEAN
  <2>1. now \in Int
    BY PollerAssumption DEF IInv, Types
  <2>2. ASSUME heap # <<>> PROVE d \in Int
    <3>1. heap \in Seq(Entry)
      BY DEF IInv, HeapInv, HeapIs
    <3>2. heap[1] \in Entry
      BY <2>2, <3>1
    <3> QED
      BY <2>1, <3>2 DEF Entry
  <2>3. ms \in Int
    <3>1. CASE heap = <<>>
      BY <3>1
    <3>2. CASE heap # <<>>
      <4>1. PICK m \in Int : m = d
        BY <2>2, <3>2
      <4>2. AsInt(m + 1) \in Int
        BY <4>1, AsIntIs
      <4>3. ms = IF m <= 0 THEN 0 ELSE AsInt(m + 1)
        BY <3>2, <4>1
      <4> QED
        BY <4>2, <4>3
    <3> QED
      BY <3>1, <3>2
  <2> HIDE DEF ms
  <2> QED
    BY <2>1, <2>3 DEF NoLimit
<1> HIDE DEF ms
<1>4. poller' \in PollerSet
  <2>1. poller \in PollerSet
    BY DEF IInv, Types
  <2>2. PICK a \in Int, b \in BOOLEAN : poller' = [poller EXCEPT !.pc = "wait", !.until = a, !.over = b]
    BY <1>2, <1>3
  <2> QED
    BY <2>1, <2>2 DEF PollerSet
<1>5. /\ poller'.pc = "wait" /\ poller'.evs = poller.evs /\ poller'.waking = poller.waking
      /\ poller'.todo = poller.todo
  BY <1>2 DEF IInv, Types, PollerSet
<1>6. kicked' \in BOOLEAN /\ reg' \in [Fds -> RegSet]
  BY <1>1 DEF IInv, Types
<1>7. /\ Types' /\ HeapInv' /\ PendingInv' /\ WakingInv' /\ PfdInv' /\ CameInv'
      /\ \A t : (Parked(t)' <=> Parked(t))
  BY <1>1, <1>4, <1>5, <1>6, PollerStays
<1>8. ArmedInv' /\ EvsInv'
  <2>1. ArmedInv'
    BY <1>1, <1>5, <1>7 DEF IInv, ArmedInv
  <2>2. EvsInv'
    BY <1>1, <1>5 DEF IInv, EvsInv
  <2> QED
    BY <2>1, <2>2
<1> QED
  BY <1>7, <1>8 DEF IInv

LEMMA WaitKeeps == ASSUME IInv, Wait PROVE IInv'
<1> DEFINE evs == {reg[fd].t : fd \in Came}
<1>1. /\ poller.pc = "wait" /\ UNCHANGED <<now, ready, kicked, heap, cap, pending, task, call, robbed>>
      /\ poller.waking = None /\ poller.todo = <<>>
  BY NobodyWaking DEF Wait
<1>2. poller' = [Planning EXCEPT !.pc = "got", !.evs = evs, !.kick = kicked]
  BY DEF Wait
<1>3. \A fd \in Fds : reg'[fd] = [reg[fd] EXCEPT !.armed = @ /\ fd \notin Came]
  BY DEF Wait
<1>4. \A fd \in Fds : /\ reg'[fd].t = reg[fd].t /\ reg'[fd].way = reg[fd].way
                      /\ reg'[fd].armed = (reg[fd].armed /\ fd \notin Came) /\ reg'[fd] \in RegSet
  <2> SUFFICES ASSUME NEW fd \in Fds
               PROVE  /\ reg'[fd].t = reg[fd].t /\ reg'[fd].way = reg[fd].way
                      /\ reg'[fd].armed = (reg[fd].armed /\ fd \notin Came) /\ reg'[fd] \in RegSet
    OBVIOUS
  <2>1. reg[fd] \in RegSet
    BY Members DEF IInv
  <2>2. PICK b \in BOOLEAN : b = (reg[fd].armed /\ fd \notin Came)
    BY <2>1 DEF RegSet
  <2>3. reg'[fd] = [reg[fd] EXCEPT !.armed = b]
    BY <1>3, <2>2
  <2> QED
    BY <2>1, <2>2, <2>3 DEF RegSet
(* What came is armed for a task that waits for it. *)
<1>5. \A fd \in Came : /\ fd \in Fds /\ reg[fd].t \in Tasks /\ Parked(reg[fd].t) /\ call[reg[fd].t].came
                       /\ call[reg[fd].t].fd = fd
  <2> SUFFICES ASSUME NEW fd \in Came
               PROVE  /\ fd \in Fds /\ reg[fd].t \in Tasks /\ Parked(reg[fd].t) /\ call[reg[fd].t].came
                      /\ call[reg[fd].t].fd = fd
    OBVIOUS
  <2>1. fd \in Fds /\ reg[fd].armed /\ <<fd, reg[fd].way>> \in ready
    BY DEF Came
  <2>2. reg[fd].t \in Tasks /\ Parked(reg[fd].t) /\ call[reg[fd].t].fd = fd /\ call[reg[fd].t].way = reg[fd].way
    BY <2>1 DEF IInv, ArmedInv
  <2> QED
    BY <2>1, <2>2 DEF IInv, CameInv
<1>6. evs \subseteq Tasks
  BY <1>5
<1>7. /\ poller' \in PollerSet /\ poller'.pc = "got" /\ poller'.evs = evs
      /\ poller'.waking = None /\ poller'.todo = <<>>
  <2>1. PICK s \in SUBSET Tasks : s = evs
    BY <1>6
  <2>2. kicked \in BOOLEAN
    BY DEF IInv, Types
  <2>3. poller' = [Planning EXCEPT !.pc = "got", !.evs = s, !.kick = kicked]
    BY <1>2, <2>1
  <2>4. Planning \in PollerSet
    BY PollerAssumption DEF Planning, PollerSet, NoLimit
  <2>5. poller' \in PollerSet
    BY <2>2, <2>3, <2>4 DEF PollerSet
  <2>6. poller'.pc = "got" /\ poller'.evs = s /\ poller'.waking = None /\ poller'.todo = <<>>
    BY <2>3 DEF Planning
  <2> QED
    BY <2>1, <2>5, <2>6
<1>8. kicked' \in BOOLEAN /\ reg' \in [Fds -> RegSet]
  <2>1. reg' = [fd \in Fds |-> reg'[fd]]
    BY DEF Wait
  <2> QED
    BY <1>1, <1>4, <2>1 DEF IInv, Types
<1> HIDE DEF evs
<1>9. /\ Types' /\ HeapInv' /\ PendingInv' /\ WakingInv' /\ PfdInv' /\ CameInv'
      /\ \A t : (Parked(t)' <=> Parked(t))
  BY <1>1, <1>7, <1>8, PollerStays
<1>10. ArmedInv'
  <2> SUFFICES ASSUME NEW fd \in Fds, reg'[fd].armed
      PROVE /\ reg'[fd].t \in Tasks /\ reg'[fd].t \notin poller'.evs /\ reg'[fd].t # poller'.waking
            /\ task'[reg'[fd].t].st = "parked"
            /\ call'[reg'[fd].t].fd = fd /\ call'[reg'[fd].t].way = reg'[fd].way
    BY DEF ArmedInv, Parked
  <2>1. reg[fd].armed /\ fd \notin Came /\ reg'[fd].t = reg[fd].t /\ reg'[fd].way = reg[fd].way
    BY <1>4
  <2>2. /\ reg[fd].t \in Tasks /\ Parked(reg[fd].t) /\ call[reg[fd].t].fd = fd
        /\ call[reg[fd].t].way = reg[fd].way
    BY <2>1 DEF IInv, ArmedInv
  <2>3. reg[fd].t \notin evs
    BY <1>5, <2>1, <2>2 DEF evs
  <2>4. None \notin Tasks
    BY PollerAssumption
  <2> QED
    BY <1>1, <1>7, <2>1, <2>2, <2>3, <2>4 DEF Parked
<1>11. EvsInv'
  <2>1. \A t \in evs : t \in Tasks /\ Parked(t) /\ call[t].came
    BY <1>5 DEF evs
  <2>2. None \notin Tasks
    BY PollerAssumption
  <2> QED
    BY <1>1, <1>7, <1>9, <2>1, <2>2 DEF EvsInv
<1> QED
  BY <1>9, <1>10, <1>11 DEF IInv

LEMMA LockKeeps == ASSUME IInv, Lock PROVE IInv'
<1>1. /\ poller.pc = "got" /\ UNCHANGED <<now, ready, reg, heap, cap, pending, task, call, robbed>>
      /\ poller' = [poller EXCEPT !.pc = "events", !.kick = FALSE]
      /\ kicked' \in BOOLEAN /\ poller.waking = None /\ poller.todo = <<>>
  BY NobodyWaking DEF Lock
<1>2. /\ poller' \in PollerSet /\ poller'.pc = "events" /\ poller'.evs = poller.evs
      /\ poller'.waking = None /\ poller'.todo = <<>>
  BY <1>1 DEF IInv, Types, PollerSet
<1>3. reg' \in [Fds -> RegSet]
  BY <1>1 DEF IInv, Types
<1>4. /\ Types' /\ HeapInv' /\ PendingInv' /\ WakingInv' /\ PfdInv' /\ CameInv'
      /\ \A t : (Parked(t)' <=> Parked(t))
  BY <1>1, <1>2, <1>3, PollerStays
<1>5. ArmedInv'
  BY <1>1, <1>2, <1>4 DEF IInv, ArmedInv
<1>6. EvsInv'
  BY <1>1, <1>2, <1>4 DEF IInv, EvsInv
<1> QED
  BY <1>4, <1>5, <1>6 DEF IInv

LEMMA EventsDoneKeeps == ASSUME IInv, EventsDone PROVE IInv'
<1>1. /\ poller.evs = {} /\ UNCHANGED <<now, ready, reg, kicked, heap, cap, pending, task, call, robbed>>
      /\ poller' = [poller EXCEPT !.pc = "timers", !.now = now]
      /\ poller.waking = None /\ poller.todo = <<>>
  BY NobodyWaking DEF EventsDone
<1>2. now \in 0 .. MaxTime /\ now <= now /\ kicked' \in BOOLEAN /\ reg' \in [Fds -> RegSet]
  BY <1>1, PollerAssumption DEF IInv, Types
<1>3. /\ poller' \in PollerSet /\ poller'.now = now /\ poller'.evs = {}
      /\ poller'.waking = None /\ poller'.todo = <<>>
  BY <1>1, <1>2 DEF IInv, Types, PollerSet
<1>4. /\ Types' /\ HeapInv' /\ PendingInv' /\ WakingInv' /\ PfdInv' /\ CameInv'
      /\ \A t : (Parked(t)' <=> Parked(t))
  BY <1>1, <1>2, <1>3, PollerStays
<1>5. ArmedInv'
  BY <1>1, <1>3, <1>4 DEF IInv, ArmedInv
<1>6. EvsInv'
  BY <1>3 DEF EvsInv
<1> QED
  BY <1>4, <1>5, <1>6 DEF IInv

-----------------------------------------------------------------------------
(* What the steps of the tasks have in common.                             *)
LEMMA CallingFinite == IsFiniteSet(Calling) /\ Cardinality(Calling) \in Nat
<1>1. Calling \subseteq Tasks
  BY DEF Calling
<1>2. IsFiniteSet(Calling)
  BY <1>1, FS_Subset, PollerAssumption
<1> QED
  BY <1>2, FS_CardinalityType

Settled == IF Settling THEN 1 ELSE 0

(* One more call under way, and one less. *)
LEMMA PendingUp ==
  ASSUME PendingInv, NEW t \in Tasks, t \notin Calling, Calling' = Calling \cup {t},
         pending' = pending + 1, Settling' <=> Settling
  PROVE  PendingInv'
<1>1. Cardinality(Calling \cup {t}) = Cardinality(Calling) + 1 /\ Cardinality(Calling) \in Nat
  BY CallingFinite, FS_AddElement
<1>2. PICK c \in Nat, d \in Nat : c = Cardinality(Calling) /\ d = Cardinality(Calling') /\ d = c + 1
  BY <1>1
<1> QED
  BY <1>2 DEF PendingInv

LEMMA PendingDown ==
  ASSUME PendingInv, NEW t \in Calling, Calling' = Calling \ {t},
         pending \in Int => pending' = (pending - Settled) - 1 + Settled'
  PROVE  PendingInv'
<1>1. /\ Cardinality(Calling \ {t}) = Cardinality(Calling) - 1 /\ Cardinality(Calling) \in Nat
  BY CallingFinite, FS_RemoveElement
<1>2. PICK c \in Nat, d \in Int : c = Cardinality(Calling) /\ d = Cardinality(Calling') /\ d = c - 1
  BY <1>1
<1>3. Settled \in {0, 1} /\ Settled' \in {0, 1}
  BY DEF Settled
<1>4. pending = c + Settled /\ pending \in Int
  BY <1>2, <1>3 DEF PendingInv, Settled
<1>5. pending' = d + Settled'
  BY <1>2, <1>3, <1>4
<1> QED
  BY <1>2, <1>5 DEF PendingInv, Settled

(* A step of a task while the poller stays where it is. *)
LEMMA WakingStays ==
  ASSUME WakingInv, Types, poller' = poller, now' = now,
         \A u \in Tasks : (Parked(u)' <=> Parked(u)) /\ ((Parked(u) /\ Reason(u)) => Reason(u)')
  PROVE  WakingInv'
<1>1. poller.waking \in Tasks \cup {None}
  BY PollerIs
<1>2. poller.todo # <<>> => poller.waking \in Tasks
  BY <1>1 DEF WakingInv
<1>3. <<"ready", "settle">> # <<>> /\ <<"settle">> # <<>>
  OBVIOUS
<1> QED
  BY <1>2, <1>3 DEF WakingInv

LEMMA Quiet ==
  ASSUME IInv, Unlocked
  PROVE  /\ poller.waking = None /\ poller.todo = <<>>
         /\ (poller' = poller => WakingInv')
<1>1. poller.waking = None /\ poller.todo = <<>> /\ poller.pc # "timers"
  BY NobodyWaking DEF Unlocked
<1>2. <<"ready", "settle">> # <<>> /\ <<"settle">> # <<>>
  OBVIOUS
<1> QED
  BY <1>1, <1>2 DEF WakingInv

LEMMA ArmedStays ==
  ASSUME ArmedInv, reg' = reg, poller' = poller,
         \A u \in Tasks : Parked(u) => (Parked(u)' /\ call'[u].fd = call[u].fd /\ call'[u].way = call[u].way)
  PROVE  ArmedInv'
BY DEF ArmedInv, Parked

LEMMA EvsStays ==
  ASSUME EvsInv, Types, poller' = poller,
         \A u \in Tasks : Parked(u) => (Parked(u)' /\ (call[u].came => call'[u].came))
  PROVE  EvsInv'
<1>1. poller.evs \subseteq Tasks
  BY PollerIs
<1> QED
  BY <1>1 DEF EvsInv

-----------------------------------------------------------------------------
(* The steps of the tasks.                                                 *)
LEMMA CallKeeps == ASSUME IInv, NEW t \in Tasks, Call(t) PROVE IInv'
<1>1. PICK a \in Asks[t] :
        /\ now + a.limit < MaxTime
        /\ call' = [call EXCEPT ![t] = [fd |-> a.fd, way |-> a.way, came |-> FALSE,
                                        at |-> IF a.limit = NoLimit THEN NoLimit ELSE now + a.limit]]
  BY DEF Call
<1>2. /\ task[t].st = "run" /\ pending' = pending + 1
      /\ task' = [task EXCEPT ![t].st = "enter", ![t].pfd = None, ![t].hidx = 0]
      /\ UNCHANGED <<now, ready, reg, kicked, heap, cap, poller, robbed>>
  BY DEF Call
<1>3. a.fd \in Fds \cup {None} /\ a.way \in Ways \cup {None} /\ a.limit \in Nat \cup {-1}
  BY PollerAssumption
<1>4. (IF a.limit = NoLimit THEN NoLimit ELSE now + a.limit) \in -1 .. MaxTime
  <2>1. now \in Nat /\ MaxTime \in Nat
    BY PollerAssumption DEF IInv, Types
  <2> QED
    BY <1>1, <1>3, <2>1 DEF NoLimit
<1>5. /\ \A u \in Tasks : u # t => (call'[u] = call[u] /\ task'[u] = task[u])
      /\ call'[t] \in CallSet /\ call' \in [Tasks -> CallSet]
      /\ task'[t].st = "enter" /\ task'[t].hidx = 0 /\ task' \in [Tasks -> TaskSet]
  <2>1. PICK at \in -1 .. MaxTime : at = IF a.limit = NoLimit THEN NoLimit ELSE now + a.limit
    BY <1>4
  <2>2. PICK c \in CallSet : c = [fd |-> a.fd, way |-> a.way, came |-> FALSE, at |-> at]
    BY <1>3 DEF CallSet
  <2>3. call' = [call EXCEPT ![t] = c] /\ call \in [Tasks -> CallSet]
    BY <1>1, <2>1, <2>2 DEF IInv, Types
  <2>4. task \in [Tasks -> TaskSet] /\ task[t] \in TaskSet
    BY DEF IInv, Types
  <2>5. task' \in [Tasks -> TaskSet] /\ task'[t].st = "enter" /\ task'[t].hidx = 0
    BY <1>2, <2>4 DEF TaskSet
  <2> QED
    BY <1>2, <2>2, <2>3, <2>4, <2>5
<1>6. \A u \in Tasks : (Parked(u)' <=> Parked(u)) /\ (Parked(u) => u # t) /\ (Timing(u)' <=> Timing(u))
  <2>1. \A u \in Tasks : (Parked(u)' <=> Parked(u)) /\ (Parked(u) => u # t)
    BY <1>2, <1>5 DEF Parked
  <2> QED
    BY <1>2, <1>5, <2>1 DEF Timing, Timed
<1>7. Types'
  BY <1>2, <1>5 DEF IInv, Types
<1>8. HeapInv'
  <2>1. task[t].hidx = 0
    BY <1>6, TimersPlaced DEF IInv, Timing
  <2>2. \A u \in Tasks : task'[u].hidx = task[u].hidx
    BY <1>5, <2>1
  <2>3. Places' = Places
    BY <2>2 DEF Places
  <2>4. \A u \in Tasks : Timing(u) => call'[u].at = call[u].at
    BY <1>5, <1>6 DEF Timing
  <2> QED
    BY <1>2, <1>6, <2>3, <2>4, HeapStays DEF IInv
<1>9. PendingInv'
  <2>1. t \notin Calling /\ Calling' = Calling \cup {t}
    BY <1>2, <1>5 DEF Calling
  <2>2. Settling' <=> Settling
    BY <1>2 DEF Settling
  <2> QED
    BY <1>2, <2>1, <2>2, PendingUp DEF IInv
<1>10. WakingInv'
  <2>1. \A u \in Tasks : (Parked(u) /\ Reason(u)) => Reason(u)'
    BY <1>2, <1>5, <1>6 DEF Reason, Timed
  <2> QED
    BY <1>2, <1>6, <2>1, WakingStays DEF IInv
<1>11. PfdInv' /\ CameInv'
  BY <1>2, <1>5, <1>6 DEF IInv, PfdInv, CameInv
<1>12. ArmedInv' /\ EvsInv'
  <2>1. ArmedInv'
    BY <1>2, <1>5, <1>6, ArmedStays DEF IInv
  <2>2. EvsInv'
    BY <1>2, <1>5, <1>6, EvsStays DEF IInv
  <2> QED
    BY <2>1, <2>2
<1> QED
  BY <1>7, <1>8, <1>9, <1>10, <1>11, <1>12 DEF IInv

LEMMA ReturnKeeps == ASSUME IInv, NEW t \in Tasks, Return(t) PROVE IInv'
<1>1. /\ task[t].st = "ready"
      /\ task' = [task EXCEPT ![t].st = "run", ![t].why = "none"]
      /\ call' = [call EXCEPT ![t] = NoCall]
      /\ robbed' = robbed \ {t}
      /\ UNCHANGED <<now, ready, reg, kicked, heap, cap, pending, poller>>
  BY DEF Return
<1>2. /\ \A u \in Tasks : u # t => (call'[u] = call[u] /\ task'[u] = task[u])
      /\ call' \in [Tasks -> CallSet]
      /\ task'[t].st = "run" /\ task'[t].hidx = task[t].hidx /\ task' \in [Tasks -> TaskSet]
  <2>1. NoCall \in CallSet
    BY PollerAssumption DEF NoCall, NoLimit, CallSet
  <2>2. task \in [Tasks -> TaskSet] /\ task[t] \in TaskSet /\ call \in [Tasks -> CallSet]
    BY DEF IInv, Types
  <2>3. task' \in [Tasks -> TaskSet] /\ task'[t].st = "run" /\ task'[t].hidx = task[t].hidx
    BY <1>1, <2>2 DEF TaskSet
  <2> QED
    BY <1>1, <2>1, <2>2, <2>3
<1>3. \A u \in Tasks : (Parked(u)' <=> Parked(u)) /\ (Parked(u) => u # t) /\ (Timing(u)' <=> Timing(u))
  <2>1. \A u \in Tasks : (Parked(u)' <=> Parked(u)) /\ (Parked(u) => u # t)
    BY <1>1, <1>2 DEF Parked
  <2> QED
    BY <1>1, <1>2, <2>1 DEF Timing, Timed
<1>4. Types'
  <2>1. robbed' \subseteq Tasks
    BY <1>1 DEF IInv, Types
  <2> QED
    BY <1>1, <1>2, <2>1 DEF IInv, Types
<1>5. HeapInv'
  <2>1. \A u \in Tasks : task'[u].hidx = task[u].hidx
    BY <1>2
  <2>2. Places' = Places
    BY <2>1 DEF Places
  <2>3. \A u \in Tasks : Timing(u) => call'[u].at = call[u].at
    BY <1>2, <1>3 DEF Timing
  <2> QED
    BY <1>1, <1>3, <2>2, <2>3, HeapStays DEF IInv
<1>6. PendingInv'
  <2>1. Calling' = Calling
    BY <1>1, <1>2 DEF Calling
  <2>2. Settling' = Settling
    BY <1>1 DEF Settling
  <2> QED
    BY <1>1, <2>1, <2>2, PendingStays DEF IInv
<1>7. WakingInv'
  <2>1. \A u \in Tasks : (Parked(u) /\ Reason(u)) => Reason(u)'
    BY <1>1, <1>2, <1>3 DEF Reason, Timed
  <2> QED
    BY <1>1, <1>3, <2>1, WakingStays DEF IInv
<1>8. PfdInv' /\ CameInv'
  BY <1>1, <1>2, <1>3 DEF IInv, PfdInv, CameInv
<1>9. ArmedInv' /\ EvsInv'
  <2>1. ArmedInv'
    BY <1>1, <1>2, <1>3, ArmedStays DEF IInv
  <2>2. EvsInv'
    BY <1>1, <1>2, <1>3, EvsStays DEF IInv
  <2> QED
    BY <2>1, <2>2
<1> QED
  BY <1>4, <1>5, <1>6, <1>7, <1>8, <1>9 DEF IInv

(* The timer of a call goes into the heap, which grows for it. *)
LEMMA AddedIs ==
  ASSUME IInv, NEW t \in Tasks, task[t].st = "enter"
  PROVE  LET r == Added(t) IN
         /\ HeapIs(r.h, r.x) /\ Len(r.h) <= CapWith(t) /\ CapWith(t) \in Nat
         /\ \A e : Holds(r.h, e) <=> (Holds(heap, e) \/ (Timed(t) /\ e = TimerOf(t)))
         /\ \A e : Holds(heap, e) => e.t # t
<1>1. /\ HeapIs(heap, Places) /\ Len(heap) <= cap
      /\ \A e : Holds(heap, e) <=> \E u \in Tasks : Timing(u) /\ e = TimerOf(u)
  BY HeapHolds DEF IInv
<1>2. ~Timing(t)
  BY DEF Timing, Parked
<1>3. Places[t] = 0 /\ (Timed(t) => call[t].at \in Nat)
  BY <1>2, TimersPlaced, Members DEF IInv
<1>4. \A e : Holds(heap, e) => e.t # t
  BY <1>1, <1>2 DEF TimerOf
<1>5. cap \in Nat /\ Len(heap) \in Nat
  BY <1>1 DEF IInv, Types, HeapIs
<1>6. CASE ~Timed(t)
  <2>1. Added(t) = [h |-> heap, x |-> Places] /\ CapWith(t) = cap
    BY <1>6 DEF Added, CapWith
  <2> QED
    BY <1>1, <1>4, <1>5, <1>6, <2>1
<1>7. CASE Timed(t)
  <2> DEFINE r == HeapAdd(heap, Places, t, call[t].at)
  <2>1. Added(t) = r /\ CapWith(t) = Grown(Len(heap))
    BY <1>7 DEF Added, CapWith
  <2>2. /\ HeapIs(r.h, r.x) /\ Len(r.h) = Len(heap) + 1
        /\ \A e : Holds(r.h, e) <=> (Holds(heap, e) \/ e = TimerOf(t))
    BY <1>1, <1>3, <1>7, HeapAddIs DEF TimerOf
  <2> HIDE DEF r
  <2>3. Grown(Len(heap)) \in Nat /\ Len(heap) + 1 <= Grown(Len(heap))
    <3>1. PICK n \in Nat : n = Len(heap) /\ n <= cap
      BY <1>1, <1>5
    <3>2. FirstCap \in Nat \ {0}
      BY PollerAssumption
    <3> QED
      BY <1>5, <3>1, <3>2 DEF Grown
  <2> QED
    BY <1>4, <1>7, <2>1, <2>2, <2>3
<1> QED
  BY <1>6, <1>7

LEMMA PlacedIs ==
  ASSUME Types, NEW x \in [Tasks -> Nat]
  PROVE  /\ PlacedIn(x) \in [Tasks -> TaskSet]
         /\ \A u \in Tasks : /\ PlacedIn(x)[u].st = task[u].st /\ PlacedIn(x)[u].pfd = task[u].pfd
                             /\ PlacedIn(x)[u].why = task[u].why /\ PlacedIn(x)[u].hidx = x[u]
<1>1. ASSUME NEW u \in Tasks
      PROVE /\ PlacedIn(x)[u] \in TaskSet
            /\ PlacedIn(x)[u].st = task[u].st /\ PlacedIn(x)[u].pfd = task[u].pfd
            /\ PlacedIn(x)[u].why = task[u].why /\ PlacedIn(x)[u].hidx = x[u]
  <2>1. task[u] \in TaskSet /\ x[u] \in Nat
    BY Members
  <2>2. PlacedIn(x)[u] = [task[u] EXCEPT !.hidx = x[u]]
    BY DEF PlacedIn
  <2> QED
    BY <2>1, <2>2 DEF TaskSet
<1>2. PlacedIn(x) = [u \in Tasks |-> PlacedIn(x)[u]]
  BY DEF PlacedIn
<1>3. PlacedIn(x) \in [Tasks -> TaskSet]
  BY <1>1, <1>2
<1> QED
  BY <1>1, <1>3

(* A call that fails leaves the heap with the entries it had. *)
LEMMA FailKeeps ==
  ASSUME IInv, NEW t \in Tasks, task[t].st = "enter", Unlocked, NEW x, Fail(t, x),
         HeapIs(heap', x), cap' \in Nat, Len(heap') <= cap',
         \A e : Holds(heap', e) <=> Holds(heap, e)
  PROVE  IInv'
<1>0. x \in [Tasks -> Nat]
  BY DEF HeapIs
<1>1. /\ task' = [PlacedIn(x) EXCEPT ![t].st = "run"]
      /\ call' = [call EXCEPT ![t] = NoCall]
      /\ pending' = pending - 1
      /\ UNCHANGED <<now, ready, reg, kicked, poller, robbed>>
  BY DEF Fail
<1>2. /\ \A u \in Tasks : u # t => (/\ call'[u] = call[u] /\ task'[u].st = task[u].st
                                    /\ task'[u].pfd = task[u].pfd /\ task'[u].why = task[u].why)
      /\ \A u \in Tasks : task'[u].hidx = x[u]
      /\ call' \in [Tasks -> CallSet] /\ task'[t].st = "run" /\ task' \in [Tasks -> TaskSet]
  <2>1. NoCall \in CallSet
    BY PollerAssumption DEF NoCall, NoLimit, CallSet
  <2>2. call \in [Tasks -> CallSet]
    BY DEF IInv, Types
  <2>3. /\ PlacedIn(x) \in [Tasks -> TaskSet]
        /\ \A u \in Tasks : /\ PlacedIn(x)[u].st = task[u].st /\ PlacedIn(x)[u].pfd = task[u].pfd
                            /\ PlacedIn(x)[u].why = task[u].why /\ PlacedIn(x)[u].hidx = x[u]
    BY <1>0, PlacedIs DEF IInv
  <2>4. \A u \in Tasks : u # t => task'[u] = PlacedIn(x)[u]
    BY <1>1, <2>3
  <2>5. task'[t] = [PlacedIn(x)[t] EXCEPT !.st = "run"] /\ PlacedIn(x)[t] \in TaskSet
    BY <1>1, <2>3
  <2>6. task'[t] \in TaskSet /\ task'[t].st = "run" /\ task'[t].hidx = x[t]
    BY <2>3, <2>5 DEF TaskSet
  <2>7. task' \in [Tasks -> TaskSet]
    BY <1>1, <2>3, <2>6 DEF TaskSet
  <2> QED
    BY <1>1, <2>1, <2>2, <2>3, <2>4, <2>6, <2>7
<1>3. \A u \in Tasks : (Parked(u)' <=> Parked(u)) /\ (Parked(u) => u # t) /\ (Timing(u)' <=> Timing(u))
  <2>1. \A u \in Tasks : (Parked(u)' <=> Parked(u)) /\ (Parked(u) => u # t)
    BY <1>1, <1>2 DEF Parked
  <2> QED
    BY <1>1, <1>2, <2>1 DEF Timing, Timed
<1>4. Types'
  BY <1>1, <1>2 DEF IInv, Types
<1>5. HeapInv'
  <2>1. Places' = x
    <3>1. Places' = [u \in Tasks |-> task'[u].hidx]
      BY DEF Places
    <3> QED
      BY <1>0, <1>2, <3>1
  <2>2. \A u \in Tasks : Timing(u) => TimerOf(u)' = TimerOf(u)
    BY <1>2, <1>3 DEF Timing, TimerOf
  <2>3. \A e : (\E u \in Tasks : Timing(u) /\ e = TimerOf(u)) <=> (\E u \in Tasks : Timing(u)' /\ e = TimerOf(u)')
    BY <1>3, <2>2
  <2>4. \A e : Holds(heap, e) <=> \E u \in Tasks : Timing(u) /\ e = TimerOf(u)
    BY HeapHolds DEF IInv
  <2> QED
    BY <2>1, <2>3, <2>4, HeapHoldsNext
<1>6. PendingInv'
  <2>1. t \in Calling /\ Calling' = Calling \ {t}
    BY <1>2 DEF Calling
  <2>2. Settled' = Settled /\ Settled \in {0, 1}
    BY <1>1 DEF Settling, Settled
  <2>3. pending \in Int => pending' = (pending - Settled) - 1 + Settled'
    BY <1>1, <2>2
  <2> QED
    BY <2>1, <2>3, PendingDown DEF IInv
<1>7. WakingInv'
  BY <1>1, Quiet
<1>8. PfdInv' /\ CameInv'
  BY <1>1, <1>2, <1>3 DEF IInv, PfdInv, CameInv
<1>9. ArmedInv' /\ EvsInv'
  <2>1. ArmedInv'
    BY <1>1, <1>2, <1>3, ArmedStays DEF IInv
  <2>2. EvsInv'
    BY <1>1, <1>2, <1>3, EvsStays DEF IInv
  <2> QED
    BY <2>1, <2>2
<1> QED
  BY <1>4, <1>5, <1>6, <1>7, <1>8, <1>9 DEF IInv

LEMMA NoMemoryKeeps == ASSUME IInv, NEW t \in Tasks, NoMemory(t) PROVE IInv'
<1>1. task[t].st = "enter" /\ Unlocked /\ Fail(t, Places) /\ heap' = heap /\ cap' = cap
  BY DEF NoMemory
<1>2. HeapIs(heap, Places) /\ Len(heap) <= cap /\ cap \in Nat
  BY DEF IInv, HeapInv, Types
<1> QED
  BY <1>1, <1>2, FailKeeps

LEMMA NoEpollKeeps == ASSUME IInv, NEW t \in Tasks, NoEpoll(t) PROVE IInv'
<1> DEFINE a == Added(t)
           r == HeapDel(a.h, a.x, t)
<1>1. task[t].st = "enter" /\ Unlocked /\ heap' = r.h /\ Fail(t, r.x) /\ cap' = CapWith(t)
  BY DEF NoEpoll
<1>2. /\ HeapIs(a.h, a.x) /\ Len(a.h) <= CapWith(t) /\ CapWith(t) \in Nat
      /\ \A e : Holds(a.h, e) <=> (Holds(heap, e) \/ (Timed(t) /\ e = TimerOf(t)))
      /\ \A e : Holds(heap, e) => e.t # t
  BY <1>1, AddedIs
<1> HIDE DEF a
<1>3. /\ HeapIs(r.h, r.x) /\ Len(r.h) <= Len(a.h)
      /\ \A e : Holds(r.h, e) <=> (Holds(a.h, e) /\ e.t # t)
  BY <1>2, HeapDelIs
<1> HIDE DEF r
<1>4. \A e : Holds(r.h, e) <=> Holds(heap, e)
  BY <1>2, <1>3 DEF TimerOf
<1>5. Len(r.h) <= CapWith(t)
  <2>1. Len(r.h) \in Int /\ Len(a.h) \in Int
    BY <1>2, <1>3 DEF HeapIs
  <2> QED
    BY <1>2, <1>3, <2>1
<1> QED
  BY <1>1, <1>2, <1>3, <1>4, <1>5, FailKeeps

(* What the parking task writes: its own record, and the places. *)
LEMMA ParkIs ==
  ASSUME IInv, NEW t \in Tasks, Park(t)
  PROVE  /\ \A u \in Tasks : u # t => (/\ call'[u] = call[u] /\ task'[u].st = task[u].st
                                       /\ task'[u].pfd = task[u].pfd /\ task'[u].why = task[u].why)
         /\ \A u \in Tasks : task'[u].hidx = Added(t).x[u] /\ call'[u].at = call[u].at
         /\ call' \in [Tasks -> CallSet] /\ task' \in [Tasks -> TaskSet] /\ Added(t).x \in [Tasks -> Nat]
         /\ task'[t].st = "parked" /\ task'[t].pfd = call[t].fd
         /\ call'[t].fd = call[t].fd /\ call'[t].way = call[t].way
         /\ call'[t].came = (<<call[t].fd, call[t].way>> \in ready)
<1> DEFINE r == Added(t)
           fd == call[t].fd
           b == <<fd, call[t].way>> \in ready
<1>1. /\ task[t].st = "enter"
      /\ task' = [PlacedIn(r.x) EXCEPT ![t].st = "parked", ![t].pfd = fd]
      /\ call' = [call EXCEPT ![t].came = b]
  BY DEF Park
<1>2. HeapIs(r.h, r.x)
  BY <1>1, AddedIs DEF Park
<1> HIDE DEF r
<1>3. r.x \in [Tasks -> Nat]
  BY <1>2 DEF HeapIs
<1>4. /\ PlacedIn(r.x) \in [Tasks -> TaskSet]
      /\ \A u \in Tasks : /\ PlacedIn(r.x)[u].st = task[u].st /\ PlacedIn(r.x)[u].pfd = task[u].pfd
                          /\ PlacedIn(r.x)[u].why = task[u].why /\ PlacedIn(r.x)[u].hidx = r.x[u]
  BY <1>3, PlacedIs DEF IInv
<1>5. \A u \in Tasks : u # t => task'[u] = PlacedIn(r.x)[u]
  BY <1>1, <1>4
<1>6. task'[t] = [PlacedIn(r.x)[t] EXCEPT !.st = "parked", !.pfd = fd] /\ PlacedIn(r.x)[t] \in TaskSet
  BY <1>1, <1>4
<1>7. fd \in Fds \cup {None}
  BY Members DEF IInv
<1>8. task'[t] \in TaskSet /\ task'[t].st = "parked" /\ task'[t].pfd = fd /\ task'[t].hidx = r.x[t]
  BY <1>4, <1>6, <1>7 DEF TaskSet
<1>9. task' \in [Tasks -> TaskSet]
  BY <1>1, <1>4, <1>8 DEF TaskSet
<1>10. call \in [Tasks -> CallSet] /\ call[t] \in CallSet
  BY Members DEF IInv, Types
<1>11. call'[t] = [call[t] EXCEPT !.came = b] /\ \A u \in Tasks : u # t => call'[u] = call[u]
  <2>1. call' = [call EXCEPT ![t].came = b]
    BY <1>1
  <2> HIDE DEF b, fd
  <2> QED
    BY <1>10, <2>1
<1>12. call'[t] \in CallSet /\ call'[t].at = call[t].at
  <2>1. b \in BOOLEAN
    OBVIOUS
  <2> HIDE DEF b, fd
  <2> QED
    BY <1>10, <1>11, <2>1 DEF CallSet
<1>13. call' \in [Tasks -> CallSet]
  BY <1>1, <1>10, <1>12 DEF CallSet
<1>14. call'[t].fd = fd /\ call'[t].way = call[t].way /\ call'[t].came = b
  BY <1>10, <1>11 DEF CallSet
<1> QED
  BY ZenonT(60), <1>3, <1>4, <1>5, <1>8, <1>9, <1>11, <1>12, <1>13, <1>14
  DEF r

LEMMA ParkKeeps == ASSUME IInv, NEW t \in Tasks, Park(t) PROVE IInv'
<1> DEFINE r == Added(t)
           fd == call[t].fd
           b == <<fd, call[t].way>> \in ready
<1>1. /\ task[t].st = "enter" /\ Unlocked /\ heap' = r.h /\ cap' = CapWith(t)
      /\ task' = [PlacedIn(r.x) EXCEPT ![t].st = "parked", ![t].pfd = fd]
      /\ kicked' = (kicked \/ Kicks(r.x, t))
      /\ IF fd = None THEN UNCHANGED <<reg, robbed>>
         ELSE /\ reg' = [reg EXCEPT ![fd] = [t |-> t, way |-> call[t].way, armed |-> TRUE]]
              /\ Robs(t, fd)
      /\ call' = [call EXCEPT ![t].came = b]
      /\ UNCHANGED <<now, ready, pending, poller>>
  BY DEF Park
<1>2. /\ HeapIs(r.h, r.x) /\ Len(r.h) <= CapWith(t) /\ CapWith(t) \in Nat
      /\ \A e : Holds(r.h, e) <=> (Holds(heap, e) \/ (Timed(t) /\ e = TimerOf(t)))
  BY <1>1, AddedIs
<1>3. poller.waking = None /\ WakingInv' /\ t # None
  BY <1>1, Quiet, PollerAssumption
<1> HIDE DEF r
<1>4. /\ \A u \in Tasks : u # t => (/\ call'[u] = call[u] /\ task'[u].st = task[u].st
                                    /\ task'[u].pfd = task[u].pfd /\ task'[u].why = task[u].why)
      /\ \A u \in Tasks : task'[u].hidx = r.x[u] /\ call'[u].at = call[u].at
      /\ call' \in [Tasks -> CallSet] /\ task' \in [Tasks -> TaskSet] /\ r.x \in [Tasks -> Nat]
      /\ task'[t].st = "parked" /\ task'[t].pfd = fd
      /\ call'[t].fd = fd /\ call'[t].way = call[t].way /\ call'[t].came = b
  BY ParkIs DEF r
<1>5. \A u \in Tasks : /\ (Parked(u)' <=> (Parked(u) \/ u = t)) /\ (Parked(u) => u # t)
                       /\ (Timed(u)' <=> Timed(u)) /\ (Timing(u)' <=> (Timing(u) \/ (u = t /\ Timed(t))))
  <2>1. \A u \in Tasks : (Parked(u)' <=> (Parked(u) \/ u = t)) /\ (Parked(u) => u # t)
    BY <1>1, <1>4 DEF Parked
  <2>2. \A u \in Tasks : Timed(u)' <=> Timed(u)
    BY <1>4 DEF Timed
  <2> QED
    BY <1>1, <1>3, <2>1, <2>2 DEF Timing
<1>6. kicked' \in BOOLEAN /\ reg' \in [Fds -> RegSet] /\ robbed' \subseteq Tasks
  <2>1. kicked' \in BOOLEAN
    BY <1>1
  <2>2. CASE fd = None
    BY <1>1, <2>1, <2>2 DEF IInv, Types
  <2>3. CASE fd # None
    <3>1. [t |-> t, way |-> call[t].way, armed |-> TRUE] \in RegSet
      BY Members DEF IInv, RegSet
    <3>2. reg' \in [Fds -> RegSet]
      BY <1>1, <2>3, <3>1 DEF IInv, Types
    <3>3. robbed' \subseteq Tasks
      BY <1>1, <2>3 DEF Robs, IInv, Types
    <3> QED
      BY <2>1, <3>2, <3>3
  <2> QED
    BY <2>2, <2>3
<1>7. Types'
  BY <1>1, <1>2, <1>4, <1>6 DEF IInv, Types
<1>8. HeapInv'
  <2>1. Places' = r.x
    <3>1. Places' = [u \in Tasks |-> task'[u].hidx]
      BY DEF Places
    <3> QED
      BY <1>4, <3>1
  <2>2. \A u \in Tasks : TimerOf(u)' = TimerOf(u)
    BY <1>4 DEF TimerOf
  <2>3. \A e : Holds(heap, e) <=> \E u \in Tasks : Timing(u) /\ e = TimerOf(u)
    BY HeapHolds DEF IInv
  <2>4. \A e : (\E u \in Tasks : Timing(u)' /\ e = TimerOf(u)')
               <=> ((\E u \in Tasks : Timing(u) /\ e = TimerOf(u)) \/ (Timed(t) /\ e = TimerOf(t)))
    BY <1>5, <2>2
  <2>5. \A e : Holds(heap', e) <=> \E u \in Tasks : Timing(u)' /\ e = TimerOf(u)'
    BY <1>1, <1>2, <2>3, <2>4
  <2> QED
    BY <1>1, <1>2, <2>1, <2>5, HeapHoldsNext
<1>9. PendingInv'
  <2>1. Calling' = Calling
    BY <1>1, <1>4 DEF Calling
  <2>2. Settling' = Settling
    BY <1>1 DEF Settling
  <2> QED
    BY <1>1, <2>1, <2>2, PendingStays DEF IInv
<1>10. PfdInv' /\ CameInv'
  <2>1. PfdInv'
    BY <1>1, <1>4, <1>5 DEF IInv, PfdInv
  <2>2. CameInv'
    BY <1>1, <1>4, <1>5 DEF IInv, CameInv
  <2> QED
    BY <2>1, <2>2
<1>11. t \notin poller.evs
  BY <1>5 DEF IInv, EvsInv
<1>12. ArmedInv'
  <2> SUFFICES ASSUME NEW f \in Fds, reg'[f].armed
      PROVE /\ reg'[f].t \in Tasks /\ reg'[f].t \notin poller'.evs /\ reg'[f].t # poller'.waking
            /\ task'[reg'[f].t].st = "parked"
            /\ call'[reg'[f].t].fd = f /\ call'[reg'[f].t].way = reg'[f].way
    BY DEF ArmedInv, Parked
  <2>1. CASE fd = f /\ fd # None
    <3>1. reg'[f] = [t |-> t, way |-> call[t].way, armed |-> TRUE]
      BY <1>1, <2>1 DEF IInv, Types
    <3>2. reg'[f].t = t /\ reg'[f].way = call[t].way
      BY <3>1
    <3> QED
      BY <1>1, <1>3, <1>4, <1>11, <2>1, <3>2
  <2>2. CASE ~(fd = f /\ fd # None)
    <3>1. reg'[f] = reg[f]
      BY <1>1, <2>2 DEF IInv, Types
    <3>2. /\ reg[f].t \in Tasks /\ reg[f].t \notin poller.evs /\ reg[f].t # poller.waking
          /\ Parked(reg[f].t) /\ call[reg[f].t].fd = f /\ call[reg[f].t].way = reg[f].way
      BY <3>1 DEF IInv, ArmedInv
    <3>3. reg[f].t # t
      BY <1>5, <3>2
    <3> QED
      BY <1>1, <1>4, <3>1, <3>2, <3>3 DEF Parked
  <2> QED
    BY <2>1, <2>2
<1>13. EvsInv'
  <2>1. \A u \in Tasks : Parked(u) => (Parked(u)' /\ (call[u].came => call'[u].came))
    BY <1>4, <1>5
  <2> QED
    BY <1>1, <2>1, EvsStays DEF IInv
<1> QED
  BY <1>3, <1>7, <1>8, <1>9, <1>10, <1>12, <1>13 DEF IInv

-----------------------------------------------------------------------------
(* The steps in which the poller wakes a task.                             *)
LEMMA ForgetIs ==
  ASSUME IInv, NEW t \in Tasks, NEW why \in {"event", "deadline"}, Forget(t, why)
  PROVE  /\ heap' = HeapDel(heap, Places, t).h /\ Places' = HeapDel(heap, Places, t).x
         /\ task' \in [Tasks -> TaskSet] /\ \A u \in Tasks : task'[u].st = task[u].st
         /\ \A u \in Tasks : u # t => (task'[u].pfd = task[u].pfd /\ task'[u].why = task[u].why)
         /\ task'[t].pfd = None /\ task'[t].why = why /\ Deregister(t, why)
<1> DEFINE r == HeapDel(heap, Places, t)
<1>1. heap' = r.h /\ task' = [PlacedIn(r.x) EXCEPT ![t].pfd = None, ![t].why = why] /\ Deregister(t, why)
  BY DEF Forget
<1>2. HeapIs(r.h, r.x)
  BY HeapDelIs DEF IInv, HeapInv
<1> HIDE DEF r
<1>3. r.x \in [Tasks -> Nat]
  BY <1>2 DEF HeapIs
<1>4. /\ PlacedIn(r.x) \in [Tasks -> TaskSet]
      /\ \A u \in Tasks : /\ PlacedIn(r.x)[u].st = task[u].st /\ PlacedIn(r.x)[u].pfd = task[u].pfd
                          /\ PlacedIn(r.x)[u].why = task[u].why /\ PlacedIn(r.x)[u].hidx = r.x[u]
  BY <1>3, PlacedIs DEF IInv
<1>5. \A u \in Tasks : u # t => task'[u] = PlacedIn(r.x)[u]
  BY <1>1, <1>4
<1>6. task'[t] = [PlacedIn(r.x)[t] EXCEPT !.pfd = None, !.why = why] /\ PlacedIn(r.x)[t] \in TaskSet
  BY <1>1, <1>4
<1>7. /\ task'[t] \in TaskSet /\ task'[t].st = PlacedIn(r.x)[t].st /\ task'[t].hidx = PlacedIn(r.x)[t].hidx
      /\ task'[t].pfd = None /\ task'[t].why = why
  BY <1>6 DEF TaskSet
<1>8. task' \in [Tasks -> TaskSet]
  BY <1>1, <1>4, <1>7 DEF TaskSet
<1>9. Places' = r.x
  <2>1. Places' = [u \in Tasks |-> task'[u].hidx]
    BY DEF Places
  <2>2. \A u \in Tasks : task'[u].hidx = r.x[u]
    BY <1>4, <1>5, <1>7
  <2> QED
    BY <1>3, <2>1, <2>2
<1> QED
  BY <1>1, <1>4, <1>5, <1>7, <1>8, <1>9 DEF r

(* A wake that begins, for a true reason, leaves no registration of the    *)
(* task armed.                                                             *)
LEMMA WakingBegins ==
  ASSUME IInv, NEW t \in Tasks, NEW why \in {"event", "deadline"}, Forget(t, why), Waking(t),
         Parked(t), poller.waking = None, poller.pc \in {"events", "timers"},
         UNCHANGED <<now, ready, kicked, cap, pending, call>>,
         (why = "event" /\ call[t].came) \/ (why = "deadline" /\ Timed(t) /\ call[t].at <= now),
         reg' \in [Fds -> RegSet], robbed' \subseteq Tasks,
         \A fd \in Fds : reg'[fd].armed => (reg'[fd] = reg[fd] /\ reg[fd].t # t)
  PROVE  IInv'
<1>1. poller' = [poller EXCEPT !.waking = t, !.todo = WakeOrder, !.evs = @ \ {t}]
  BY DEF Waking
<1>2. /\ poller' \in PollerSet /\ poller'.pc = poller.pc /\ poller'.evs = poller.evs \ {t}
      /\ poller'.waking = t /\ poller'.todo = <<"ready", "settle">> /\ poller'.now = poller.now
  BY <1>1 DEF IInv, Types, PollerSet, WakeOrder
<1>3. /\ heap' = HeapDel(heap, Places, t).h /\ Places' = HeapDel(heap, Places, t).x
      /\ task' \in [Tasks -> TaskSet] /\ \A u \in Tasks : task'[u].st = task[u].st
      /\ \A u \in Tasks : u # t => (task'[u].pfd = task[u].pfd /\ task'[u].why = task[u].why)
      /\ task'[t].pfd = None /\ task'[t].why = why
  BY ForgetIs
<1>4. \A u \in Tasks : (Parked(u)' <=> Parked(u)) /\ (Timed(u)' <=> Timed(u))
  BY <1>3 DEF Parked, Timed
<1>5. t # None
  BY PollerAssumption
<1>6. Types'
  BY <1>2, <1>3 DEF IInv, Types
<1>7. HeapInv'
  <2>1. \A u \in Tasks : (Timing(u)' <=> (Timing(u) /\ u # t)) /\ (Timing(u)' => call'[u].at = call[u].at)
    <3>1. \A u \in Tasks : u # poller.waking
      BY PollerAssumption
    <3> QED
      BY <1>2, <1>4, <3>1 DEF Timing
  <2> QED
    BY <1>3, <2>1, HeapWithout DEF IInv
<1>8. PendingInv'
  <2>1. Calling' = Calling
    BY <1>3 DEF Calling
  <2>2. ~Settling
    BY DEF Settling
  <2>3. ~Settling'
    <3>1. <<"ready", "settle">> # <<"settle">>
      OBVIOUS
    <3> QED
      BY <1>2, <3>1 DEF Settling
  <2> QED
    BY <2>1, <2>2, <2>3 DEF IInv, PendingInv
<1>9. WakingInv'
  <2>1. Reason(t)'
    BY <1>3, <1>4 DEF Reason
  <2>2. Parked(t)'
    BY <1>4
  <2>3. <<"ready", "settle">> # <<"settle">> /\ <<"ready", "settle">> # <<>>
    OBVIOUS
  <2>4. poller'.pc = "timers" => poller'.now <= now'
    BY <1>2 DEF IInv, WakingInv
  <2> QED
    BY <1>2, <1>5, <2>1, <2>2, <2>3, <2>4 DEF WakingInv
<1>10. PfdInv' /\ CameInv'
  <2>1. \A u \in Tasks : u # poller.waking
    BY PollerAssumption
  <2>2. PfdInv'
    BY <1>2, <1>3, <1>4, <2>1 DEF IInv, PfdInv
  <2>3. CameInv'
    BY <1>4 DEF IInv, CameInv
  <2> QED
    BY <2>2, <2>3
<1>11. ArmedInv'
  <2> SUFFICES ASSUME NEW f \in Fds, reg'[f].armed
      PROVE /\ reg'[f].t \in Tasks /\ reg'[f].t \notin poller'.evs /\ reg'[f].t # poller'.waking
            /\ task'[reg'[f].t].st = "parked"
            /\ call'[reg'[f].t].fd = f /\ call'[reg'[f].t].way = reg'[f].way
    BY DEF ArmedInv, Parked
  <2>1. reg'[f] = reg[f] /\ reg[f].t # t
    OBVIOUS
  <2>2. /\ reg[f].t \in Tasks /\ reg[f].t \notin poller.evs
        /\ Parked(reg[f].t) /\ call[reg[f].t].fd = f /\ call[reg[f].t].way = reg[f].way
    BY <2>1 DEF IInv, ArmedInv
  <2> QED
    BY <1>2, <1>3, <2>1, <2>2 DEF Parked
<1>12. EvsInv'
  <2>1. poller.evs \subseteq Tasks
    BY PollerIs DEF IInv
  <2> QED
    BY <1>2, <1>4, <2>1 DEF IInv, EvsInv
<1> QED
  BY <1>6, <1>7, <1>8, <1>9, <1>10, <1>11, <1>12 DEF IInv

LEMMA EventKeeps == ASSUME IInv, NEW t \in Tasks, Event(t) PROVE IInv'
<1>1. /\ poller.pc = "events" /\ poller.waking = None /\ t \in poller.evs
      /\ UNCHANGED <<now, ready, kicked, cap, pending, call>>
  BY DEF Event
<1>2. CASE task[t].pfd = None
  <2>1. poller' = [poller EXCEPT !.evs = @ \ {t}] /\ UNCHANGED <<heap, task, reg, robbed>>
    BY <1>2 DEF Event
  <2>2. poller.todo = <<>>
    BY <1>1, NobodyWaking
  <2>3. /\ poller' \in PollerSet /\ poller'.pc = "events" /\ poller'.evs = poller.evs \ {t}
        /\ poller'.waking = None /\ poller'.todo = <<>>
    BY <1>1, <2>1, <2>2 DEF IInv, Types, PollerSet
  <2>4. kicked' \in BOOLEAN /\ reg' \in [Fds -> RegSet]
    BY <1>1, <2>1 DEF IInv, Types
  <2>5. /\ Types' /\ HeapInv' /\ PendingInv' /\ WakingInv' /\ PfdInv' /\ CameInv'
        /\ \A u : (Parked(u)' <=> Parked(u))
    BY <1>1, <2>1, <2>3, <2>4, PollerStays
  <2>6. ArmedInv'
    BY <1>1, <2>1, <2>3, <2>5 DEF IInv, ArmedInv
  <2>7. EvsInv'
    BY <1>1, <2>1, <2>3, <2>5 DEF IInv, EvsInv
  <2> QED
    BY <2>5, <2>6, <2>7 DEF IInv
<1>3. CASE task[t].pfd # None
  <2>1. Forget(t, "event") /\ Waking(t)
    BY <1>3 DEF Event
  <2>2. UNCHANGED <<reg, robbed>>
    BY <2>1 DEF Forget, Deregister
  <2>3. Parked(t) /\ call[t].came
    BY <1>1 DEF IInv, EvsInv
  <2>4. \A fd \in Fds : reg'[fd].armed => (reg'[fd] = reg[fd] /\ reg[fd].t # t)
    BY <1>1, <2>2 DEF IInv, ArmedInv
  <2>5. reg' \in [Fds -> RegSet] /\ robbed' \subseteq Tasks
    BY <2>2 DEF IInv, Types
  <2> QED
    BY <1>1, <2>1, <2>3, <2>4, <2>5, WakingBegins
<1> QED
  BY <1>2, <1>3

LEMMA TimerKeeps == ASSUME IInv, Timer PROVE IInv'
<1>1. /\ poller.pc = "timers" /\ poller.waking = None
      /\ UNCHANGED <<now, ready, kicked, cap, pending, call>>
  BY DEF Timer
<1>2. CASE ~(heap # <<>> /\ heap[1].at <= poller.now)
  <2>1. poller' = Planning /\ UNCHANGED <<heap, task, reg, robbed>>
    BY <1>2 DEF Timer
  <2>2. /\ poller' \in PollerSet /\ poller'.pc = "plan" /\ poller'.evs = {}
        /\ poller'.waking = None /\ poller'.todo = <<>>
    BY <2>1, PollerAssumption DEF Planning, PollerSet, NoLimit
  <2>3. kicked' \in BOOLEAN /\ reg' \in [Fds -> RegSet]
    BY <1>1, <2>1 DEF IInv, Types
  <2>4. /\ Types' /\ HeapInv' /\ PendingInv' /\ WakingInv' /\ PfdInv' /\ CameInv'
        /\ \A u : (Parked(u)' <=> Parked(u))
    BY <1>1, <2>1, <2>2, <2>3, PollerStays
  <2>5. ArmedInv'
    BY <1>1, <2>1, <2>2, <2>4 DEF IInv, ArmedInv
  <2>6. EvsInv'
    BY <2>2 DEF EvsInv
  <2> QED
    BY <2>4, <2>5, <2>6 DEF IInv
<1>3. CASE heap # <<>> /\ heap[1].at <= poller.now
  <2> DEFINE t == heap[1].t
  <2>1. Forget(t, "deadline") /\ Waking(t)
    BY <1>3 DEF Timer
  <2>2. /\ heap \in Seq(Entry)
        /\ \A e : Holds(heap, e) <=> \E u \in Tasks : Timing(u) /\ e = TimerOf(u)
    BY HeapHolds DEF IInv, HeapIs
  <2>3. Holds(heap, heap[1])
    <3>1. 1 \in 1 .. Len(heap)
      BY <1>3, <2>2
    <3> QED
      BY <3>1 DEF Holds
  <2>4. PICK u \in Tasks : Timing(u) /\ heap[1] = TimerOf(u)
    BY <2>2, <2>3
  <2>5. t = u /\ heap[1].at = call[u].at
    BY <2>4 DEF TimerOf
  <2> HIDE DEF t
  <2>6. t \in Tasks /\ Parked(t) /\ Timed(t) /\ heap[1].at = call[t].at
    BY <2>4, <2>5 DEF Timing
  <2>7. call[t].at <= now
    <3>1. poller.now <= now
      BY <1>1 DEF IInv, WakingInv
    <3>2. call[t].at \in Int /\ poller.now \in Int /\ now \in Int
      BY <2>6, Members, PollerIs DEF IInv, Types
    <3> QED
      BY <1>3, <2>6, <3>1, <3>2
  <2>8. t # poller.waking
    BY <1>1, <2>6, PollerAssumption
  <2>9. Deregister(t, "deadline") /\ task[t].pfd = call[t].fd
    BY <2>1, <2>6, <2>8 DEF Forget, IInv, PfdInv
  <2>10. \A fd \in Fds : (reg[fd].armed /\ reg[fd].t = t) => fd = call[t].fd
    BY DEF IInv, ArmedInv
  <2>11. CASE task[t].pfd = None
    <3>1. UNCHANGED <<reg, robbed>>
      BY <2>9, <2>11 DEF Deregister
    <3>2. \A fd \in Fds : reg'[fd].armed => (reg'[fd] = reg[fd] /\ reg[fd].t # t)
      BY <2>9, <2>10, <2>11, <3>1, PollerAssumption
    <3>3. reg' \in [Fds -> RegSet] /\ robbed' \subseteq Tasks
      BY <3>1 DEF IInv, Types
    <3> QED
      BY <1>1, <2>1, <2>6, <2>7, <3>2, <3>3, WakingBegins
  <2>12. CASE task[t].pfd # None
    <3>1. reg' = [reg EXCEPT ![task[t].pfd] = Unregistered] /\ Robs(t, task[t].pfd)
      BY <2>9, <2>12 DEF Deregister
    <3>2. Unregistered \in RegSet /\ Unregistered.armed = FALSE
      BY DEF Unregistered, RegSet
    <3>3. reg' \in [Fds -> RegSet] /\ robbed' \subseteq Tasks
      BY <3>1, <3>2 DEF IInv, Types, Robs
    <3>4. \A fd \in Fds : reg'[fd].armed => (reg'[fd] = reg[fd] /\ fd # task[t].pfd)
      BY <3>1, <3>2 DEF IInv, Types
    <3>5. \A fd \in Fds : reg'[fd].armed => (reg'[fd] = reg[fd] /\ reg[fd].t # t)
      BY <2>9, <2>10, <3>4
    <3> QED
      BY <1>1, <2>1, <2>6, <2>7, <3>3, <3>5, WakingBegins
  <2> QED
    BY <2>11, <2>12
<1> QED
  BY <1>2, <1>3

LEMMA WakeKeeps == ASSUME IInv, Wake PROVE IInv'
<1> DEFINE w == poller.waking
<1>1. /\ w # None /\ UNCHANGED <<now, ready, reg, kicked, heap, cap, call, robbed>>
      /\ IF Head(poller.todo) = "ready"
         THEN task' = [task EXCEPT ![w].st = "ready"] /\ UNCHANGED pending
         ELSE pending' = pending - 1 /\ UNCHANGED task
      /\ poller' = [poller EXCEPT !.todo = Tail(@), !.waking = IF Len(poller.todo) = 1 THEN None ELSE @]
  BY DEF Wake
<1>2. /\ w \in Tasks /\ poller.pc \in {"events", "timers"}
      /\ poller.todo = <<"ready", "settle">> \/ poller.todo = <<"settle">>
  BY <1>1, PollerIs DEF IInv, WakingInv
<1>3. \A u \in Tasks : Timed(u)' <=> Timed(u)
  BY <1>1 DEF Timed
<1>4. <<"ready", "settle">> # <<"settle">> /\ <<"ready", "settle">> # <<>> /\ <<"settle">> # <<>>
  OBVIOUS
<1>5. CASE poller.todo = <<"ready", "settle">>
  <2>1. Head(poller.todo) = "ready" /\ Tail(poller.todo) = <<"settle">> /\ Len(poller.todo) = 2
    BY <1>5
  <2>2. Parked(w)
    BY <1>5 DEF IInv, WakingInv
  <2>3. /\ task' \in [Tasks -> TaskSet] /\ pending' = pending
        /\ \A u \in Tasks : u # w => task'[u] = task[u]
        /\ \A u \in Tasks : task'[u].hidx = task[u].hidx
        /\ task'[w].st = "ready"
    <3>1. task' = [task EXCEPT ![w].st = "ready"] /\ pending' = pending
      BY <1>1, <2>1
    <3>2. task \in [Tasks -> TaskSet]
      BY DEF IInv, Types
    <3>3. task' \in [Tasks -> TaskSet] /\ task'[w].st = "ready" /\ task'[w].hidx = task[w].hidx
      BY <1>2, <3>1, <3>2 DEF TaskSet
    <3> QED
      BY <1>2, <3>1, <3>2, <3>3
  <2>4. /\ poller' \in PollerSet /\ poller'.todo = <<"settle">> /\ poller'.waking = w
        /\ poller'.pc = poller.pc /\ poller'.evs = poller.evs /\ poller'.now = poller.now
    <3>1. PICK d, v : /\ poller' = [poller EXCEPT !.todo = d, !.waking = v]
                      /\ d = Tail(poller.todo) /\ v = IF Len(poller.todo) = 1 THEN None ELSE poller.waking
      BY <1>1
    <3>2. d = <<"settle">> /\ v = w
      BY <2>1, <3>1
    <3> QED
      BY <1>2, <3>1, <3>2 DEF IInv, Types, PollerSet
  <2>5. \A u \in Tasks : (Parked(u)' <=> (Parked(u) /\ u # w)) /\ (Timing(u)' <=> Timing(u))
    <3>1. \A u \in Tasks : Parked(u)' <=> (Parked(u) /\ u # w)
      BY <2>3 DEF Parked
    <3> QED
      BY <1>3, <2>4, <3>1 DEF Timing
  <2>6. Types'
    BY <1>1, <2>3, <2>4 DEF IInv, Types
  <2>7. HeapInv'
    <3>1. Places' = Places
      BY <2>3 DEF Places
    <3> QED
      BY <1>1, <2>5, <3>1, HeapStays DEF IInv
  <2>8. PendingInv'
    <3>1. w \in Calling /\ Calling' = Calling \ {w}
      BY <1>2, <2>2, <2>3 DEF Calling, Parked
    <3>2. ~Settling /\ Settling'
      BY <1>1, <1>4, <1>5, <2>4 DEF Settling
    <3>3. Settled = 0 /\ Settled' = 1
      BY <3>2 DEF Settled
    <3>4. pending \in Int => pending' = (pending - Settled) - 1 + Settled'
      BY <2>3, <3>3
    <3> QED
      BY <3>1, <3>4, PendingDown DEF IInv
  <2>9. WakingInv'
    <3>1. ~Parked(poller.waking)'
      BY <2>3, <2>4 DEF Parked
    <3>2. poller'.pc = "timers" => poller'.now <= now'
      BY <1>1, <2>4 DEF IInv, WakingInv
    <3> QED
      BY <1>1, <1>2, <1>4, <2>4, <3>1, <3>2 DEF WakingInv
  <2>10. PfdInv' /\ CameInv'
    BY <1>1, <2>3, <2>4, <2>5 DEF IInv, PfdInv, CameInv
  <2>11. ArmedInv'
    BY <1>1, <1>2, <2>3, <2>4, <2>5 DEF IInv, ArmedInv, Parked
  <2>12. EvsInv'
    <3>1. poller.evs \subseteq Tasks
      BY PollerIs DEF IInv
    <3> QED
      BY <1>1, <2>4, <2>5, <3>1 DEF IInv, EvsInv
  <2> QED
    BY <2>6, <2>7, <2>8, <2>9, <2>10, <2>11, <2>12 DEF IInv
<1>6. CASE poller.todo = <<"settle">>
  <2>1. Head(poller.todo) # "ready" /\ Tail(poller.todo) = <<>> /\ Len(poller.todo) = 1
    BY <1>6
  <2>2. ~Parked(w) /\ task' = task /\ pending' = pending - 1
    BY <1>1, <1>6, <2>1 DEF IInv, WakingInv
  <2>3. /\ poller' \in PollerSet /\ poller'.todo = <<>> /\ poller'.waking = None
        /\ poller'.pc = poller.pc /\ poller'.evs = poller.evs /\ poller'.now = poller.now
    <3>1. poller' = [poller EXCEPT !.todo = <<>>, !.waking = None]
      BY <1>1, <2>1
    <3> QED
      BY <3>1 DEF IInv, Types, PollerSet
  <2>4. \A u \in Tasks : (Parked(u)' <=> Parked(u)) /\ (Parked(u) => (u # w /\ u # None)) /\ (Timing(u)' <=> Timing(u))
    <3>1. \A u \in Tasks : (Parked(u)' <=> Parked(u)) /\ (Parked(u) => (u # w /\ u # None))
      BY <2>2, PollerAssumption DEF Parked
    <3> QED
      BY <1>3, <2>3, <3>1 DEF Timing
  <2>5. Types'
    BY <1>1, <2>2, <2>3 DEF IInv, Types
  <2>6. HeapInv'
    <3>1. Places' = Places
      BY <2>2 DEF Places
    <3> QED
      BY <1>1, <2>4, <3>1, HeapStays DEF IInv
  <2>7. PendingInv'
    <3>1. Calling' = Calling
      BY <2>2 DEF Calling
    <3>2. Settling /\ ~Settling'
      BY <1>1, <1>6, <2>3 DEF Settling
    <3>3. PICK c \in Nat : c = Cardinality(Calling)
      BY CallingFinite
    <3> QED
      BY <2>2, <3>1, <3>2, <3>3 DEF IInv, PendingInv
  <2>8. WakingInv'
    BY <1>1, <1>4, <2>3 DEF IInv, WakingInv
  <2>9. PfdInv' /\ CameInv'
    BY <1>1, <2>2, <2>3, <2>4 DEF IInv, PfdInv, CameInv
  <2>10. ArmedInv'
    BY <1>1, <2>2, <2>3, <2>4, PollerAssumption DEF IInv, ArmedInv, Parked
  <2>11. EvsInv'
    <3>1. poller.evs \subseteq Tasks
      BY PollerIs DEF IInv
    <3> QED
      BY <1>1, <2>3, <2>4, <3>1 DEF IInv, EvsInv
  <2> QED
    BY <2>5, <2>6, <2>7, <2>8, <2>9, <2>10, <2>11 DEF IInv
<1> QED
  BY <1>2, <1>5, <1>6

LEMMA NextInv == IInv /\ [Next]_vars => IInv'
<1>a. SUFFICES ASSUME IInv, [Next]_vars PROVE IInv'
  OBVIOUS
<1>1. CASE PollerNext
  BY <1>a, <1>1, PlanKeeps, WaitKeeps, LockKeeps, EventKeeps, EventsDoneKeeps, TimerKeeps, WakeKeeps
  DEF PollerNext
<1>2. CASE World
  BY <1>a, <1>2, TickKeeps, CloseKeeps, ArriveKeeps, DrainKeeps DEF World
<1>3. CASE \E t \in Tasks : TaskNext(t)
  BY <1>a, <1>3, CallKeeps, NoMemoryKeeps, NoEpollKeeps, ParkKeeps, ReturnKeeps DEF TaskNext
<1> QED
  BY <1>a, <1>1, <1>2, <1>3, StutterKeeps DEF Next

LEMMA IInvAlways == Spec => []IInv
BY InitInv, NextInv, PTL DEF Spec

-----------------------------------------------------------------------------
(* The theorems. *)

\* The poller's state keeps its types, whatever the kernel, the clock and the
\* tasks do: above all the heap never outgrows its memory (m9_heap_add), every
\* hidx is a place in it, and m9_pending is a count, one more than the tasks at
\* most, as m9_poll_wake takes a task off it only after it has let it go.
THEOREM TypeCorrect == Spec => []TypeOK
<1>1. IInv => TypeOK
  <2>a. SUFFICES ASSUME IInv PROVE TypeOK
    OBVIOUS
  <2>1. /\ HeapIs(heap, Places) /\ Len(heap) <= cap
        /\ \A e : Holds(heap, e) <=> \E t \in Tasks : Timing(t) /\ e = TimerOf(t)
    BY <2>a, HeapHolds DEF IInv
  <2>2. heap \in Seq([at: 0 .. MaxTime, t: Tasks])
    <3> DEFINE TimerSet == [at: 0 .. MaxTime, t: Tasks]
    <3>1. heap \in Seq(Entry)
      BY <2>1 DEF HeapIs
    <3>2. ASSUME NEW i \in 1 .. Len(heap) PROVE heap[i] \in TimerSet
      <4>1. Holds(heap, heap[i])
        BY DEF Holds
      <4>2. PICK t \in Tasks : Timing(t) /\ heap[i] = TimerOf(t)
        BY <2>1, <4>1
      <4>3. call[t].at \in Nat /\ call[t].at \in -1 .. MaxTime
        BY <2>a, <4>2, TimersPlaced, Members DEF IInv, Timing
      <4> QED
        BY <4>2, <4>3, PollerAssumption DEF TimerOf
    <3> HIDE DEF TimerSet
    <3>3. heap \in Seq(TimerSet)
      BY <3>1, <3>2
    <3> QED
      BY <3>3 DEF TimerSet
  <2>3. pending \in 0 .. Cardinality(Tasks) + 1
    <3>1. Cardinality(Calling) <= Cardinality(Tasks) /\ Cardinality(Tasks) \in Nat
      <4>1. Calling \subseteq Tasks
        BY DEF Calling
      <4> QED
        BY <4>1, FS_Subset, FS_CardinalityType, PollerAssumption
    <3>2. PICK c \in Nat, n \in Nat : c = Cardinality(Calling) /\ n = Cardinality(Tasks) /\ c <= n
      BY <3>1, CallingFinite
    <3>3. pending = c \/ pending = c + 1
      BY <2>a, <3>2 DEF IInv, PendingInv
    <3> QED
      BY <3>2, <3>3
  <2>4. task \in [Tasks -> [st: {"run", "enter", "parked", "ready"}, pfd: Fds \cup {None},
                            hidx: 0 .. Len(heap), why: {"none", "event", "deadline"}]]
    <3>1. \A t \in Tasks : task[t].hidx \in 0 .. Len(heap) /\ task[t] \in TaskSet
      BY <2>a, TimersPlaced, Members DEF IInv
    <3>2. task \in [Tasks -> TaskSet]
      BY <2>a DEF IInv, Types
    <3> HIDE <2>a
    <3> QED
      BY <3>1, <3>2 DEF TaskSet
  <2>5. call \in [Tasks -> [fd: Fds \cup {None}, way: Ways \cup {None}, at: -1 .. MaxTime, came: BOOLEAN]]
    BY <2>a DEF IInv, Types, CallSet
  <2>6. reg \in [Fds -> [t: Tasks \cup {None}, way: Ways \cup {None}, armed: BOOLEAN]]
    BY <2>a DEF IInv, Types, RegSet
  <2>7. /\ now \in 0 .. MaxTime /\ ready \subseteq Fds \X Ways /\ kicked \in BOOLEAN
        /\ cap \in Nat /\ robbed \subseteq Tasks
    BY <2>a DEF IInv, Types
  <2>8. /\ poller.pc \in {"plan", "wait", "got", "events", "timers"}
        /\ poller.evs \subseteq Tasks /\ poller.waking \in Tasks \cup {None}
    BY <2>a, PollerIs DEF IInv
  <2> QED
    BY <2>1, <2>2, <2>3, <2>4, <2>5, <2>6, <2>7, <2>8 DEF TypeOK
<1> QED
  BY <1>1, IInvAlways, PTL

\* The timers are a heap after any number of m9_heap_add and m9_heap_del in any
\* order, for every number of tasks; each task's hidx is its place in it, and it
\* holds the timers of the parked tasks with a deadline and no other: a task that
\* an event wakes, or whose call is refused, leaves no stale timer behind.
THEOREM HeapStaysRight == Spec => []HeapRight
<1>1. IInv => HeapRight
  <2>a. SUFFICES ASSUME IInv PROVE HeapRight
    OBVIOUS
  <2>1. /\ HeapIs(heap, Places) /\ Len(heap) <= cap
        /\ \A e : Holds(heap, e) <=> \E t \in Tasks : Timing(t) /\ e = TimerOf(t)
    BY <2>a, HeapHolds DEF IInv
  <2>2. Len(heap) \in Nat /\ DOMAIN heap = 1 .. Len(heap)
    BY <2>1 DEF HeapIs
  <2>3. \A i \in 2 .. Len(heap) : heap[i \div 2].at <= heap[i].at
    BY <2>1 DEF HeapIs, Ordered
  <2>4. ASSUME NEW i \in DOMAIN heap
        PROVE  task[heap[i].t].hidx = i /\ heap[i].at = call[heap[i].t].at
    <3>1. Holds(heap, heap[i])
      BY <2>2 DEF Holds
    <3>2. PICK t \in Tasks : Timing(t) /\ heap[i] = TimerOf(t)
      BY <2>1, <3>1
    <3>3. heap[i].t = t /\ heap[i].at = call[t].at
      BY <3>2 DEF TimerOf
    <3>4. Places[t] = i
      BY <2>1, <2>2, <3>3 DEF HeapIs, Known
    <3> QED
      BY <2>a, <3>3, <3>4, Members DEF IInv
  <2>5. {heap[i].t : i \in DOMAIN heap} = {t \in Tasks : Parked(t) /\ Timed(t) /\ t # poller.waking}
    <3>1. \A t \in Tasks : (Parked(t) /\ Timed(t) /\ t # poller.waking) <=> Timing(t)
      BY DEF Timing
    <3>2. ASSUME NEW i \in DOMAIN heap PROVE heap[i].t \in Tasks /\ Timing(heap[i].t)
      <4>1. Holds(heap, heap[i])
        BY <2>2 DEF Holds
      <4>2. PICK t \in Tasks : Timing(t) /\ heap[i] = TimerOf(t)
        BY <2>1, <4>1
      <4> QED
        BY <4>2 DEF TimerOf
    <3>3. ASSUME NEW t \in Tasks, Timing(t) PROVE \E i \in DOMAIN heap : heap[i].t = t
      <4>1. Holds(heap, TimerOf(t))
        BY <2>1, <3>3
      <4> QED
        BY <2>2, <4>1 DEF Holds, TimerOf
    <3> QED
      BY <3>1, <3>2, <3>3
  <2> QED
    BY <2>3, <2>4, <2>5 DEF HeapRight
<1> QED
  BY <1>1, IInvAlways, PTL

\* m9_pending counts every parked task until it is in a run queue: the deadlock
\* test, which reads it beside the queues, never meets a task as neither.
THEOREM NeverNeitherHolds == Spec => []NeverNeither
<1>1. IInv => NeverNeither
  <2>a. SUFFICES ASSUME IInv PROVE NeverNeither
    OBVIOUS
  <2>1. {t \in Tasks : Parked(t)} \subseteq Calling
    BY DEF Parked, Calling
  <2>2. /\ Cardinality({t \in Tasks : Parked(t)}) <= Cardinality(Calling)
        /\ Cardinality({t \in Tasks : Parked(t)}) \in Nat /\ Cardinality(Calling) \in Nat
    BY <2>1, CallingFinite, FS_Subset, FS_CardinalityType
  <2>3. PICK c \in Nat, n \in Nat :
          c = Cardinality(Calling) /\ n = Cardinality({t \in Tasks : Parked(t)}) /\ n <= c
    BY <2>2
  <2>4. pending = c \/ pending = c + 1
    BY <2>a, <2>3 DEF IInv, PendingInv
  <2> QED
    BY <2>3, <2>4 DEF NeverNeither
<1> QED
  BY <1>1, IInvAlways, PTL

-----------------------------------------------------------------------------
(* The promise: what the mapping makes of a state, and of a step.          *)
SeenAll == [t \in Tasks |-> Seen(t)]
Asked == [t \in Tasks |-> IF Seen(t) = "out" THEN NoCall ELSE call[t]]
Told == [t \in Tasks |-> IF Seen(t) = "woken" THEN task[t].why ELSE "none"]
Same(u) ==
  /\ Seen(u)' = Seen(u)
  /\ Seen(u) # "out" => call'[u] = call[u]
  /\ Seen(u) = "woken" => task'[u].why = task[u].why

LEMMA SeenIs ==
  ASSUME NEW t \in Tasks
  PROVE  /\ Seen(t) = IF task[t].st = "parked" THEN "waiting" ELSE IF task[t].st = "ready" THEN "woken" ELSE "out"
         /\ Seen(t)' = IF task'[t].st = "parked" THEN "waiting"
                       ELSE IF task'[t].st = "ready" THEN "woken" ELSE "out"
BY DEF Seen, Parked

LEMMA AllSame ==
  ASSUME now' = now, ready' = ready, \A u \in Tasks : Same(u)
  PROVE  UNCHANGED Promise!vars
<1>1. SeenAll' = SeenAll /\ Asked' = Asked /\ Told' = Told
  BY DEF SeenAll, Asked, Told, Same
<1> QED
  BY <1>1 DEF Promise!vars, SeenAll, Asked, Told

(* A step of one task. *)
LEMMA OthersSame ==
  ASSUME NEW t \in Tasks, \A u \in Tasks : u # t => Same(u)
  PROVE  /\ SeenAll' = [SeenAll EXCEPT ![t] = Seen(t)']
         /\ Asked' = [Asked EXCEPT ![t] = IF Seen(t)' = "out" THEN NoCall ELSE call'[t]]
         /\ Told' = [Told EXCEPT ![t] = IF Seen(t)' = "woken" THEN task'[t].why ELSE "none"]
<1>1. SeenAll' = [u \in Tasks |-> IF u = t THEN Seen(t)' ELSE SeenAll[u]]
  BY DEF SeenAll, Same
<1>2. Asked' = [u \in Tasks |-> IF u = t THEN (IF Seen(t)' = "out" THEN NoCall ELSE call'[t]) ELSE Asked[u]]
  BY DEF Asked, Same
<1>3. Told' = [u \in Tasks |-> IF u = t THEN (IF Seen(t)' = "woken" THEN task'[t].why ELSE "none") ELSE Told[u]]
  BY DEF Told, Same
<1>4. SeenAll = [u \in Tasks |-> SeenAll[u]] /\ Asked = [u \in Tasks |-> Asked[u]] /\ Told = [u \in Tasks |-> Told[u]]
  BY DEF SeenAll, Asked, Told
<1> HIDE DEF Same, Seen
<1> QED
  BY <1>1, <1>2, <1>3, <1>4

LEMMA PromiseInit == Init => Promise!Init
BY DEF Init, Promise!Init, Promise!NoCall, NoCall, Seen, Parked

(* Descriptors become ready, or cease to be. *)
LEMMA ChangeMaps ==
  ASSUME IInv, now' = now, task' = task, ready' \subseteq Fds \X Ways,
         \A t \in Tasks : call'[t] = [call[t] EXCEPT !.came = @ \/ (Parked(t) /\ <<call[t].fd, call[t].way>> \in ready')]
  PROVE  Promise!Change
<1>1. \A t \in Tasks : Seen(t)' = Seen(t) /\ (Seen(t) = "waiting" <=> Parked(t))
  BY SeenIs DEF Parked
<1>2. SeenAll' = SeenAll /\ \A t \in Tasks : SeenAll[t] = Seen(t)
  BY <1>1 DEF SeenAll
<1>3. Told' = Told
  BY <1>1 DEF Told
<1>4. ASSUME NEW t \in Tasks
      PROVE  Asked'[t] = [Asked[t] EXCEPT !.came = @ \/ (SeenAll[t] = "waiting"
                                                        /\ <<Asked[t].fd, Asked[t].way>> \in ready')]
  <2>1. CASE Seen(t) = "out"
    <3>1. Asked'[t] = NoCall /\ Asked[t] = NoCall /\ SeenAll[t] = "out"
      BY <1>1, <1>2, <2>1 DEF Asked
    <3>2. NoCall = [NoCall EXCEPT !.came = FALSE] /\ NoCall.came = FALSE
      <4>1. NoCall \in [fd: {None}, way: {None}, at: {NoLimit}, came: {FALSE}]
        BY DEF NoCall
      <4> QED
        BY <4>1
    <3>3. (NoCall.came \/ (SeenAll[t] = "waiting" /\ <<Asked[t].fd, Asked[t].way>> \in ready')) = FALSE
      BY <3>1, <3>2
    <3> QED
      BY <3>1, <3>2, <3>3, Zenon
  <2>2. CASE Seen(t) # "out"
    <3>1. Asked'[t] = call'[t] /\ Asked[t] = call[t] /\ (SeenAll[t] = "waiting" <=> Parked(t))
      BY <1>1, <1>2, <2>2 DEF Asked
    <3>2. Parked(t) \in BOOLEAN
      BY DEF Parked
    <3>3. (SeenAll[t] = "waiting") = Parked(t)
      BY <3>1, <3>2
    <3> QED
      BY <3>1, <3>3
  <2> QED
    BY <2>1, <2>2
<1>5. Asked' = [t \in Tasks |-> [Asked[t] EXCEPT !.came = @ \/ (SeenAll[t] = "waiting"
                                                              /\ <<Asked[t].fd, Asked[t].way>> \in ready')]]
  <2>1. Asked' = [t \in Tasks |-> Asked'[t]]
    BY DEF Asked
  <2> QED
    BY <1>4, <2>1
<1> QED
  BY <1>2, <1>3, <1>5 DEF Promise!Change, SeenAll, Asked, Told

LEMMA ReadyLess ==
  ASSUME IInv, now' = now, task' = task, call' = call, ready' \subseteq ready
  PROVE  Promise!Change
<1>1. ASSUME NEW t \in Tasks
      PROVE  call'[t] = [call[t] EXCEPT !.came = @ \/ (Parked(t) /\ <<call[t].fd, call[t].way>> \in ready')]
  <2>1. call[t] \in CallSet /\ call[t].came \in BOOLEAN
    BY Members DEF IInv
  <2>2. (Parked(t) /\ <<call[t].fd, call[t].way>> \in ready') => call[t].came
    BY DEF IInv, CameInv
  <2>3. call[t].came = (call[t].came \/ (Parked(t) /\ <<call[t].fd, call[t].way>> \in ready'))
    BY <2>1, <2>2
  <2>4. call[t] = [call[t] EXCEPT !.came = call[t].came]
    BY <2>1 DEF CallSet
  <2> QED
    BY <2>3, <2>4
<1>2. ready' \subseteq Fds \X Ways
  BY DEF IInv, Types
<1> QED
  BY <1>1, <1>2, ChangeMaps

LEMMA ArriveMaps ==
  ASSUME IInv, NEW fd \in Fds, NEW way \in Ways, Arrive(fd, way)
  PROVE  Promise!Change
<1>1. /\ now' = now /\ task' = task /\ ready' = ready \cup {<<fd, way>>}
      /\ \A t \in Tasks : call'[t] = [call[t] EXCEPT !.came = @ \/ (Parked(t) /\ call[t].fd = fd /\ call[t].way = way)]
  BY DEF Arrive, Parked
<1>2. ASSUME NEW t \in Tasks
      PROVE  call'[t] = [call[t] EXCEPT !.came = @ \/ (Parked(t) /\ <<call[t].fd, call[t].way>> \in ready')]
  <2>1. call[t].came \in BOOLEAN
    BY Members DEF IInv
  <2>2. (Parked(t) /\ <<call[t].fd, call[t].way>> \in ready) => call[t].came
    BY DEF IInv, CameInv
  <2>3. <<call[t].fd, call[t].way>> \in ready'
        <=> (<<call[t].fd, call[t].way>> \in ready \/ (call[t].fd = fd /\ call[t].way = way))
    BY <1>1
  <2>4. (call[t].came \/ (Parked(t) /\ call[t].fd = fd /\ call[t].way = way))
        = (call[t].came \/ (Parked(t) /\ <<call[t].fd, call[t].way>> \in ready'))
    BY <2>1, <2>2, <2>3
  <2> QED
    BY <1>1, <2>4
<1>3. ready' \subseteq Fds \X Ways
  BY <1>1 DEF IInv, Types
<1> QED
  BY <1>1, <1>2, <1>3, ChangeMaps

LEMMA WorldMaps == ASSUME IInv, World PROVE Promise!Tick \/ Promise!Change
<1>1. CASE Tick
  <2>1. SeenAll' = SeenAll /\ Asked' = Asked /\ Told' = Told
    BY <1>1 DEF Tick, SeenAll, Asked, Told, Seen, Parked
  <2> QED
    BY <1>1, <2>1 DEF Tick, Promise!Tick, SeenAll, Asked, Told
<1>2. ASSUME NEW fd \in Fds, Close(fd) PROVE Promise!Change
  BY <1>2, ReadyLess DEF Close
<1>3. ASSUME NEW fd \in Fds, NEW way \in Ways, Drain(fd, way) PROVE Promise!Change
  BY <1>3, ReadyLess DEF Drain
<1> QED
  BY <1>1, <1>2, <1>3, ArriveMaps DEF World

(* The steps that the promise does not see. *)
LEMMA TaskSame ==
  ASSUME IInv, NEW t \in Tasks, Call(t) \/ NoMemory(t) \/ NoEpoll(t)
  PROVE  UNCHANGED Promise!vars
<1>1. /\ now' = now /\ ready' = ready /\ task[t].st \in {"run", "enter"} /\ task'[t].st \in {"run", "enter"}
      /\ \A u \in Tasks : u # t => (/\ call'[u] = call[u] /\ task'[u].st = task[u].st
                                    /\ task'[u].why = task[u].why)
  <2>1. CASE Call(t)
    <3>1. /\ task' = [task EXCEPT ![t].st = "enter", ![t].pfd = None, ![t].hidx = 0]
          /\ task \in [Tasks -> TaskSet] /\ call \in [Tasks -> CallSet]
      BY <2>1 DEF Call, IInv, Types
    <3>2. task'[t].st = "enter" /\ \A u \in Tasks : u # t => task'[u] = task[u]
      BY <3>1 DEF TaskSet
    <3>3. \A u \in Tasks : u # t => call'[u] = call[u]
      BY <2>1, <3>1 DEF Call
    <3> QED
      BY <2>1, <3>2, <3>3 DEF Call
  <2>2. ASSUME NEW x \in [Tasks -> Nat], Fail(t, x)
        PROVE  /\ task'[t].st = "run" /\ \A u \in Tasks : u # t => (/\ call'[u] = call[u]
                                             /\ task'[u].st = task[u].st /\ task'[u].why = task[u].why)
    <3>1. task' = [PlacedIn(x) EXCEPT ![t].st = "run"] /\ call' = [call EXCEPT ![t] = NoCall]
      BY <2>2 DEF Fail
    <3>2. /\ PlacedIn(x) \in [Tasks -> TaskSet]
          /\ \A u \in Tasks : PlacedIn(x)[u].st = task[u].st /\ PlacedIn(x)[u].why = task[u].why
      BY PlacedIs DEF IInv
    <3>3. task'[t].st = "run" /\ \A u \in Tasks : u # t => task'[u] = PlacedIn(x)[u]
      BY <3>1, <3>2 DEF TaskSet
    <3>4. \A u \in Tasks : u # t => call'[u] = call[u]
      BY <3>1 DEF IInv, Types
    <3> QED
      BY <3>2, <3>3, <3>4
  <2>3. CASE NoMemory(t)
    <3>1. Fail(t, Places) /\ task[t].st = "enter" /\ Places \in [Tasks -> Nat]
      BY <2>3, Members DEF NoMemory, IInv
    <3> QED
      BY <2>2, <3>1 DEF Fail
  <2>4. CASE NoEpoll(t)
    <3> DEFINE a == Added(t)
               r == HeapDel(a.h, a.x, t)
    <3>1. task[t].st = "enter" /\ Fail(t, r.x)
      BY <2>4 DEF NoEpoll
    <3>2. HeapIs(a.h, a.x)
      BY <3>1, AddedIs, <2>4 DEF NoEpoll
    <3> HIDE DEF a
    <3>3. HeapIs(r.h, r.x)
      BY <3>2, HeapDelIs
    <3> HIDE DEF r
    <3>4. r.x \in [Tasks -> Nat]
      BY <3>3 DEF HeapIs
    <3> QED
      BY <2>2, <3>1, <3>4 DEF Fail
  <2> QED
    BY <2>1, <2>3, <2>4
<1>2. \A u \in Tasks : Same(u)
  <2>1. Same(t)
    BY <1>1, SeenIs DEF Same
  <2>2. ASSUME NEW u \in Tasks, u # t PROVE Same(u)
    BY <1>1, <2>2, SeenIs DEF Same
  <2> QED
    BY <2>1, <2>2
<1> QED
  BY <1>1, <1>2, AllSame

LEMMA ParkMaps == ASSUME IInv, NEW t \in Tasks, Park(t) PROVE Promise!Wait(t)
<1>1. /\ now' = now /\ ready' = ready /\ task[t].st = "enter" /\ task'[t].st = "parked"
      /\ \A u \in Tasks : u # t => (/\ call'[u] = call[u] /\ task'[u].st = task[u].st
                                    /\ task'[u].why = task[u].why)
      /\ call'[t] \in CallSet /\ call'[t].came = (<<call[t].fd, call[t].way>> \in ready)
      /\ call'[t].fd = call[t].fd /\ call'[t].way = call[t].way
  BY ParkIs DEF Park
<1>2. \A u \in Tasks : u # t => Same(u)
  BY <1>1, SeenIs DEF Same
<1>3. Seen(t) = "out" /\ Seen(t)' = "waiting"
  BY <1>1, SeenIs
<1>4. /\ SeenAll' = [SeenAll EXCEPT ![t] = "waiting"] /\ SeenAll[t] = "out"
      /\ Asked' = [Asked EXCEPT ![t] = call'[t]] /\ Asked'[t] = call'[t]
      /\ Told' = [Told EXCEPT ![t] = "none"] /\ Told[t] = "none"
  BY <1>2, <1>3, OthersSame DEF SeenAll, Asked, Told
<1>5. Told' = Told
  BY <1>4 DEF Told
<1>6. /\ call'[t] \in [fd: Fds \cup {None}, way: Ways \cup {None}, at: Int, came: BOOLEAN]
      /\ call'[t].came = (<<call'[t].fd, call'[t].way>> \in ready)
  BY <1>1, PollerAssumption DEF CallSet
<1>7. /\ SeenAll[t] = "out" /\ SeenAll' = [SeenAll EXCEPT ![t] = "waiting"]
      /\ Asked' = [Asked EXCEPT ![t] = Asked'[t]]
      /\ Asked'[t] \in [fd: Fds \cup {None}, way: Ways \cup {None}, at: Int, came: BOOLEAN]
      /\ Asked'[t].came = (<<Asked'[t].fd, Asked'[t].way>> \in ready)
      /\ UNCHANGED <<now, ready, Told>>
  BY <1>1, <1>4, <1>5, <1>6
<1> QED
  BY <1>7 DEF Promise!Wait, Promise!Move, SeenAll, Asked, Told

LEMMA ReturnMaps == ASSUME IInv, NEW t \in Tasks, Return(t) PROVE Promise!Return(t)
<1>1. /\ now' = now /\ ready' = ready /\ task[t].st = "ready"
      /\ task' = [task EXCEPT ![t].st = "run", ![t].why = "none"]
      /\ call' = [call EXCEPT ![t] = NoCall]
      /\ task \in [Tasks -> TaskSet] /\ call \in [Tasks -> CallSet]
  BY DEF Return, IInv, Types
<1>2. task'[t].st = "run" /\ \A u \in Tasks : u # t => (task'[u] = task[u] /\ call'[u] = call[u])
  BY <1>1 DEF TaskSet
<1>3. \A u \in Tasks : u # t => Same(u)
  BY <1>2, SeenIs DEF Same
<1>4. Seen(t) = "woken" /\ Seen(t)' = "out"
  BY <1>1, <1>2, SeenIs
<1>5. /\ SeenAll' = [SeenAll EXCEPT ![t] = "out"] /\ SeenAll[t] = "woken"
      /\ Asked' = [Asked EXCEPT ![t] = NoCall] /\ Told' = [Told EXCEPT ![t] = "none"]
  BY <1>3, <1>4, OthersSame DEF SeenAll
<1> QED
  BY <1>1, <1>5 DEF Promise!Return, Promise!Move, Promise!NoCall, NoCall, SeenAll, Asked, Told

LEMMA WakeMaps ==
  ASSUME IInv, NEW t \in Tasks, Wake, t = poller.waking, poller.todo = <<"ready", "settle">>
  PROVE  Promise!Event(t) \/ Promise!Deadline(t)
<1>1. /\ now' = now /\ ready' = ready /\ call' = call /\ task' = [task EXCEPT ![t].st = "ready"]
      /\ task \in [Tasks -> TaskSet]
  BY DEF Wake, IInv, Types
<1>2. Parked(t) /\ Reason(t)
  BY DEF IInv, WakingInv
<1>3. task'[t].st = "ready" /\ task'[t].why = task[t].why /\ \A u \in Tasks : u # t => task'[u] = task[u]
  BY <1>1 DEF TaskSet
<1>4. \A u \in Tasks : u # t => Same(u)
  BY <1>1, <1>3, SeenIs DEF Same
<1>5. Seen(t) = "waiting" /\ Seen(t)' = "woken"
  BY ZenonT(40), <1>2, <1>3, SeenIs DEF Parked
<1>6. /\ SeenAll' = [SeenAll EXCEPT ![t] = "woken"] /\ SeenAll[t] = "waiting"
      /\ Asked' = [Asked EXCEPT ![t] = Asked[t]] /\ Asked[t] = call[t]
      /\ Told' = [Told EXCEPT ![t] = task[t].why]
  BY ZenonT(60), <1>1, <1>3, <1>4, <1>5, OthersSame DEF SeenAll, Asked
<1>7. Asked' = Asked
  BY <1>6 DEF Asked
<1>8. ASSUME NEW reason, reason = task[t].why PROVE Promise!WakeFor(t, reason)
  <2>1. Told' = [Told EXCEPT ![t] = reason]
    BY <1>6, <1>8
  <2> QED
    BY <1>1, <1>6, <1>7, <2>1 DEF Promise!WakeFor, Promise!Move, SeenAll, Asked, Told
<1>9. CASE task[t].why = "event" /\ call[t].came
  <2>1. Promise!WakeFor(t, "event")
    BY <1>8, <1>9
  <2> QED
    BY <1>6, <1>9, <2>1 DEF Promise!Event, Asked
<1>10. CASE task[t].why = "deadline" /\ Timed(t) /\ call[t].at <= now
  <2>1. Promise!WakeFor(t, "deadline")
    BY <1>8, <1>10
  <2> QED
    BY <1>6, <1>10, <2>1 DEF Promise!Deadline, Asked, Timed
<1> QED
  BY <1>2, <1>9, <1>10 DEF Reason

(* The poller takes a task in hand: its reason is written, and not read yet. *)
LEMMA ForgetSame ==
  ASSUME IInv, NEW t \in Tasks, NEW why \in {"event", "deadline"}, Forget(t, why), Parked(t),
         now' = now, ready' = ready, call' = call
  PROVE  UNCHANGED Promise!vars
<1>1. /\ \A u \in Tasks : task'[u].st = task[u].st
      /\ \A u \in Tasks : u # t => task'[u].why = task[u].why
  BY ForgetIs
<1>2. Seen(t) = "waiting"
  BY SeenIs DEF Parked
<1>3. \A u \in Tasks : Same(u)
  BY <1>1, <1>2, SeenIs DEF Same
<1> QED
  BY <1>3, AllSame

LEMMA IdleSame ==
  ASSUME now' = now, ready' = ready, call' = call, task' = task
  PROVE  UNCHANGED Promise!vars
<1>1. \A u \in Tasks : Same(u)
  BY SeenIs DEF Same
<1> QED
  BY <1>1, AllSame

LEMMA PollerMaps ==
  ASSUME IInv, PollerNext
  PROVE  UNCHANGED Promise!vars \/ \E t \in Tasks : Promise!Event(t) \/ Promise!Deadline(t)
<1>1. CASE Plan \/ Wait \/ Lock \/ EventsDone
  BY <1>1, IdleSame DEF Plan, Wait, Lock, EventsDone
<1>2. ASSUME NEW t \in Tasks, Event(t) PROVE UNCHANGED Promise!vars
  <2>1. now' = now /\ ready' = ready /\ call' = call /\ Parked(t)
    BY <1>2 DEF Event, IInv, EvsInv
  <2>2. CASE task[t].pfd = None
    BY <1>2, <2>1, <2>2, IdleSame DEF Event
  <2>3. CASE task[t].pfd # None
    BY <1>2, <2>1, <2>3, ForgetSame DEF Event
  <2> QED
    BY <2>2, <2>3
<1>3. CASE Timer
  <2>1. now' = now /\ ready' = ready /\ call' = call
    BY <1>3 DEF Timer
  <2>2. CASE heap # <<>> /\ heap[1].at <= poller.now
    <3>1. /\ HeapIs(heap, Places)
          /\ \A e : Holds(heap, e) <=> \E u \in Tasks : Timing(u) /\ e = TimerOf(u)
      BY HeapHolds DEF IInv
    <3>2. Holds(heap, heap[1])
      BY <2>2, <3>1 DEF Holds, HeapIs
    <3>3. PICK t \in Tasks : Timing(t) /\ heap[1] = TimerOf(t)
      BY <3>1, <3>2
    <3>4. heap[1].t = t /\ Parked(t)
      BY <3>3 DEF TimerOf, Timing
    <3>5. Forget(t, "deadline")
      BY <1>3, <2>2, <3>4 DEF Timer
    <3> QED
      BY <2>1, <3>4, <3>5, ForgetSame
  <2>3. CASE ~(heap # <<>> /\ heap[1].at <= poller.now)
    BY <1>3, <2>1, <2>3, IdleSame DEF Timer
  <2> QED
    BY <2>2, <2>3
<1>4. CASE Wake
  <2>1. PICK t \in Tasks : t = poller.waking
    BY <1>4, PollerIs DEF Wake, IInv
  <2>2. poller.todo = <<"ready", "settle">> \/ poller.todo = <<"settle">>
    BY <1>4, PollerIs DEF Wake, IInv, WakingInv
  <2>3. CASE poller.todo = <<"ready", "settle">>
    BY <1>4, <2>1, <2>3, WakeMaps
  <2>4. CASE poller.todo = <<"settle">>
    <3>1. Head(poller.todo) # "ready"
      BY <2>4
    <3> QED
      BY <1>4, <3>1, IdleSame DEF Wake
  <2> QED
    BY <2>2, <2>3, <2>4
<1> QED
  BY <1>1, <1>2, <1>3, <1>4 DEF PollerNext

LEMMA PromiseNext == IInv /\ [Next]_vars => [Promise!Next]_(Promise!vars)
<1>a. SUFFICES ASSUME IInv, [Next]_vars PROVE Promise!Next \/ UNCHANGED Promise!vars
  OBVIOUS
<1>1. CASE PollerNext
  BY <1>a, <1>1, PollerMaps DEF Promise!Next
<1>2. CASE World
  BY <1>a, <1>2, WorldMaps DEF Promise!Next
<1>3. ASSUME NEW t \in Tasks, TaskNext(t) PROVE Promise!Next \/ UNCHANGED Promise!vars
  BY <1>a, <1>3, TaskSame, ParkMaps, ReturnMaps DEF TaskNext, Promise!Next
<1>4. CASE UNCHANGED vars
  BY <1>4, IdleSame DEF vars
<1> QED
  BY <1>a, <1>1, <1>2, <1>3, <1>4 DEF Next

\* Whoever waits is woken once for each call, for an event that came or for a
\* deadline that passed during that very call, and is told which: m9rt's heap,
\* registrations, kicks and batches do what PollerSpec promises, however the
\* poller's steps, the tasks' calls, the clock and the descriptors interleave.
THEOREM PollerRefinement == Spec => ImplementsPoller
BY PromiseInit, PromiseNext, IInvAlways, PTL DEF Spec, ImplementsPoller, Promise!Spec
=============================================================================
