---------------------------- MODULE SchedProofs ----------------------------
(***************************************************************************)
(* The scheduler of module Sched, for any tasks and any number of          *)
(* carriers: a ready task is in one place, a stack is used by one carrier, *)
(* and a pinned task stays where it is.                                    *)
(***************************************************************************)
EXTENDS Sched, FiniteSetTheorems, TLAPS

-----------------------------------------------------------------------------
(* The inductive invariant.  Where each kind of thread may be.             *)
AtCall  == {"user"}
AtPush  == {"push", "ask", "pick", "signal"}
AtLook  == {"sched", "steal", "chain", "found"}
AtIdle  == {"last", "laststeal", "go"}
AtSleep == {"asleep", "woken"} \cup Locked
CarrierPoints == AtCall \cup AtPush \cup AtLook \cup AtIdle \cup AtSleep \cup {"after", "unborn"}
PollerPoints  == AtPush \cup {"free", "settle"}
ThreadPoints  == AtPush \cup {"free"}
WatchPoints   == {"watch", "signal"} \cup Locked

Types ==
  /\ state \in [Tasks -> States] /\ home \in [Tasks -> Cars]
  /\ pinned \in [Tasks -> BOOLEAN] /\ onstack \in [Tasks -> BOOLEAN]
  /\ rq \in [Carriers -> Seq(Tasks)] /\ runnext \in [Carriers -> Tasks \cup {None}]
  /\ cur \in [Carriers -> Tasks \cup {None}] /\ left \in [Carriers -> Tasks \cup {None}]
  /\ sleeping \in [Carriers -> BOOLEAN] /\ handed \in [Carriers -> BOOLEAN]
  /\ spins \in [Carriers -> 0 .. Spins - 1]
  /\ ncars \in Joined .. MaxCarriers
  /\ nidle \in Int /\ nspin \in Int /\ pending \in Int
  /\ pc \in [Procs -> Points]
  /\ hand \in [Procs -> Seq(Tasks)]
  /\ look \in [Procs -> SUBSET Cars]
  /\ aim \in [Procs -> Cars \cup {None}]
  /\ ops \in Nat /\ polls \in Nat /\ quiet \in {0, 1}
  /\ alive \in BOOLEAN /\ aborted \in BOOLEAN /\ short \in BOOLEAN

(* Where a thread is, and what it has in hand there. *)
PointsRight ==
  /\ \A c \in Carriers : pc[c] \in CarrierPoints /\ (pc[c] = "unborn" <=> c > ncars)
  /\ pc[Poller] \in PollerPoints /\ pc[Thread] \in ThreadPoints /\ pc[Overseer] \in WatchPoints
  /\ \A c \in Carriers : sleeping[c] <=> pc[c] \in AtSleep
  /\ \A p \in Procs : pc[p] = "signal" => aim[p] \in Cars
HandsRight ==
  \A p \in Procs :
    /\ pc[p] \in {"push", "found", "go"} => Len(hand[p]) = 1
    /\ pc[p] = "chain" => Len(hand[p]) > 1
    /\ pc[p] \notin {"push", "found", "go", "chain"} => hand[p] = <<>>

(* No two carriers are on one stack; a running task is on its own carrier, *)
(* and one that may not move is at home.                                   *)
On(c) == {cur[c], left[c]} \ {None}
StacksRight ==
  /\ \A t \in Tasks : onstack[t] <=> \E c \in Carriers : t \in On(c)
  /\ \A c, d \in Carriers : c # d => On(c) \cap On(d) = {}
  /\ \A c \in Carriers :
       /\ left[c] # None <=> pc[c] = "after"
       /\ cur[c] # None => cur[c] # left[c]
       /\ pc[c] \in AtIdle \cup AtSleep \cup {"unborn"} => cur[c] = None
       /\ pc[c] \in {"user", "after"} /\ cur[c] # None => state[cur[c]] = "RUN"
       /\ pc[c] \in AtCall \cup AtPush => cur[c] # None
       /\ pc[c] \in AtLook /\ cur[c] # None => state[cur[c]] # "RUN"
       /\ cur[c] # None /\ state[cur[c]] = "RUN" => home[cur[c]] = c
       /\ \A t \in On(c) : Stays(t) => home[t] = c
  /\ \A t \in Tasks : state[t] = "RUN" => \E c \in Carriers : cur[c] = t

(* Each task is in one place at most, and that place fits its state.       *)
Q(c) == {rq[c][i] : i \in 1 .. Len(rq[c])}
H(p) == {hand[p][i] : i \in 1 .. Len(hand[p])}
NoQ(t) == \A c \in Carriers : t \notin Q(c)
NoS(t) == \A c \in Carriers : runnext[c] # t
NoH(t) == \A p \in Procs : t \notin H(p)
OnlyQ(t, c) == t \in Q(c) /\ (\A d \in Carriers : t \in Q(d) => d = c) /\ NoS(t) /\ NoH(t)
OnlyS(t, c) == runnext[c] = t /\ (\A d \in Carriers : runnext[d] = t => d = c) /\ NoQ(t) /\ NoH(t)
OnlyH(t, p) == t \in H(p) /\ (\A r \in Procs : t \in H(r) => r = p) /\ NoQ(t) /\ NoS(t)
Nowhere(t) == NoQ(t) /\ NoS(t) /\ NoH(t)

Fits(t, p) ==
  \/ p = Poller /\ pc[p] = "push" /\ state[t] = "POLL"
  \/ p = Thread /\ pc[p] = "push" /\ state[t] \in {"WAIT", "NEW"}
  \/ p \in Carriers /\ pc[p] = "push" /\ state[t] = "READY" /\ home[t] = p
  \/ p \in Carriers /\ pc[p] = "push" /\ state[t] \in {"WAIT", "NEW"} /\ Stays(t)
  \/ p \in Carriers /\ pc[p] \in {"found", "go"} /\ state[t] = "READY" /\ home[t] = p
  \/ p \in Carriers /\ pc[p] = "chain" /\ state[t] = "READY" /\ ~Stays(t)
       /\ (t = hand[p][1] => home[t] = p)
PlaceRight(t) ==
  \/ \E c \in Carriers : OnlyQ(t, c) /\ state[t] = "READY" /\ home[t] = c
  \/ \E c \in Carriers : OnlyS(t, c) /\ state[t] = "READY" /\ home[t] = c /\ ~Stays(t)
  \/ \E p \in Procs : OnlyH(t, p) /\ Fits(t, p)
  \/ Nowhere(t) /\ state[t] # "READY"
PlacesRight ==
  /\ \A t \in Tasks : PlaceRight(t) /\ (state[t] = "NEW" => ~Stays(t))
  /\ \A c \in Carriers : pc[c] \notin AtCall \cup AtPush \cup {"sched", "after"} => runnext[c] = None
Differ(s) == \A i, j \in 1 .. Len(s) : i # j => s[i] # s[j]
DifferRight == (\A c \in Carriers : Differ(rq[c])) /\ \A p \in Procs : Differ(hand[p])

(* The counters of sleepers, spinners and tasks in the poller. *)
Spinners == {c \in Carriers : spins[c] > 0}
Polled == {t \in Tasks : state[t] = "POLL"}
Unsettled == pc[Poller] \in {"ask", "pick", "signal", "settle"}
CountsRight ==
  /\ nidle = Cardinality(Sleepers)
  /\ nspin = Cardinality(Spinners)
  /\ pending = Cardinality(Polled) + IF Unsettled THEN 1 ELSE 0

IInv ==
  Types /\ PointsRight /\ HandsRight /\ StacksRight /\ PlacesRight /\ DifferRight /\ CountsRight

-----------------------------------------------------------------------------
(* The processes, and the carriers there are. *)
LEMMA ProcsIs ==
  /\ Carriers \subseteq Procs /\ Poller \in Procs /\ Thread \in Procs /\ Overseer \in Procs
  /\ Poller \notin Carriers /\ Thread \notin Carriers /\ Overseer \notin Carriers
  /\ Poller # Thread /\ Poller # Overseer /\ Thread # Overseer
  /\ Carriers \subseteq Nat /\ 1 \in Carriers
  /\ Tasks \cap {None} = {} /\ IsFiniteSet(Tasks) /\ IsFiniteSet(Carriers)
<1>1. IsFiniteSet(Carriers)
  BY FS_Interval, SchedAssumption DEF Carriers
<1> QED
  BY <1>1, SchedAssumption DEF Carriers, Procs

LEMMA CarsIs ==
  ASSUME Types
  PROVE  /\ Cars \subseteq Carriers /\ IsFiniteSet(Cars) /\ ncars \in Nat /\ 1 \in Cars
         /\ \A c \in Carriers : c \in Cars <=> c <= ncars
<1>1. ncars \in Nat /\ ncars <= MaxCarriers /\ MaxCarriers \in Nat /\ ncars >= 1
  BY SchedAssumption DEF Types
<1>2. IsFiniteSet(1 .. ncars)
  BY <1>1, FS_Interval
<1> QED
  BY <1>1, <1>2 DEF Cars, Carriers

(* Induction up to n: a set P of numbers up to n that holds 0 and goes on   *)
(* below n holds n, for without n the successor would map P into P, one to *)
(* one and not onto.                                                       *)
LEMMA UpTo ==
  ASSUME NEW n \in Nat, NEW P \in SUBSET (0 .. n), 0 \in P,
         \A i \in 0 .. n - 1 : i \in P => i + 1 \in P
  PROVE  n \in P
<1> SUFFICES ASSUME n \notin P PROVE FALSE
  OBVIOUS
<1> DEFINE f == [i \in P |-> i + 1]
<1>1. IsFiniteSet(P)
  <2>1. IsFiniteSet(0 .. n)
    BY FS_Interval
  <2> QED
    BY <2>1, FS_Subset
<1>2. f \in [P -> P]
  OBVIOUS
<1>3. \A i, j \in P : f[i] = f[j] => i = j
  OBVIOUS
<1>4. f \in Injection(P, P)
  <2> HIDE DEF f
  <2> QED
    BY <1>2, <1>3 DEF Injection, IsInjective
<1>5. f \in Surjection(P, P)
  <2> HIDE DEF f
  <2> QED
    BY <1>1, <1>4, FS_Injection
<1>6. PICK i \in P : f[i] = 0
  <2> HIDE DEF f
  <2> QED
    BY <1>5 DEF Surjection
<1> QED
  BY <1>6

LEMMA BornIs ==
  ASSUME Types, PointsRight, NEW c \in Carriers
  PROVE  (pc[c] # "unborn") <=> (c \in Cars)
<1>1. c \in Nat /\ ncars \in Nat /\ (c \in Cars <=> c <= ncars)
  BY ProcsIs, CarsIs
<1> QED
  BY <1>1 DEF PointsRight

(* The least of a set of carriers is one of them. *)
LEMMA MinIs ==
  ASSUME NEW T \in SUBSET Carriers, T # {}
  PROVE  Min(T) \in T
<1>1. MaxCarriers \in Nat
  BY SchedAssumption
<1>2. \E m \in T : \A x \in T : m <= x
  <2> SUFFICES ASSUME \A m \in T : \E x \in T : x < m PROVE FALSE
    BY <1>1 DEF Carriers
  <2> DEFINE P == {i \in 0 .. MaxCarriers : \A x \in T : x > i}
  <2>1. P \in SUBSET (0 .. MaxCarriers) /\ 0 \in P
    BY <1>1 DEF Carriers
  <2>2. \A i \in 0 .. MaxCarriers - 1 : i \in P => i + 1 \in P
    <3> SUFFICES ASSUME NEW i \in 0 .. MaxCarriers - 1, i \in P, NEW x \in T PROVE x > i + 1
      BY <1>1
    <3>1. PICK y \in T : y < x
      OBVIOUS
    <3> QED
      BY <1>1, <3>1 DEF Carriers
  <2>3. MaxCarriers \in P
    <3> HIDE DEF P
    <3> QED
      BY <1>1, <2>1, <2>2, UpTo
  <2>4. PICK x \in T : x \in 1 .. MaxCarriers
    BY DEF Carriers
  <2> QED
    BY <1>1, <2>3, <2>4
<1> QED
  BY <1>2 DEF Min

-----------------------------------------------------------------------------
(* Sequences: their elements, and whether these differ. *)
Elems(s) == {s[i] : i \in 1 .. Len(s)}

LEMMA ElemsOne ==
  ASSUME NEW t \in Tasks
  PROVE  <<t>> \in Seq(Tasks) /\ Len(<<t>>) = 1 /\ Elems(<<t>>) = {t} /\ Differ(<<t>>) /\ <<t>>[1] = t
BY DEF Elems, Differ

LEMMA ElemsNone ==
  /\ <<>> \in Seq(Tasks) /\ Elems(<<>>) = {} /\ Differ(<<>>)
BY DEF Elems, Differ

LEMMA ElemsAppend ==
  ASSUME NEW s \in Seq(Tasks), NEW t \in Tasks
  PROVE  /\ Append(s, t) \in Seq(Tasks) /\ Elems(Append(s, t)) = Elems(s) \cup {t}
         /\ Differ(s) /\ t \notin Elems(s) => Differ(Append(s, t))
<1>1. /\ Append(s, t) \in Seq(Tasks) /\ Len(Append(s, t)) = Len(s) + 1 /\ Len(s) \in Nat
      /\ \A i \in 1 .. Len(s) : Append(s, t)[i] = s[i]
      /\ Append(s, t)[Len(s) + 1] = t
  OBVIOUS
<1>2. Elems(Append(s, t)) = Elems(s) \cup {t}
  BY <1>1 DEF Elems
<1>3. Differ(s) /\ t \notin Elems(s) => Differ(Append(s, t))
  BY <1>1 DEF Elems, Differ
<1> QED
  BY <1>1, <1>2, <1>3

LEMMA ElemsTail ==
  ASSUME NEW s \in Seq(Tasks), s # <<>>
  PROVE  /\ Head(s) \in Tasks /\ Tail(s) \in Seq(Tasks) /\ Head(s) = s[1] /\ Len(s) \in Nat \ {0}
         /\ Elems(s) = {Head(s)} \cup Elems(Tail(s))
         /\ Differ(s) => Differ(Tail(s)) /\ Head(s) \notin Elems(Tail(s))
<1>1. /\ Tail(s) \in Seq(Tasks) /\ Len(s) \in Nat /\ Len(s) > 0 /\ Len(Tail(s)) = Len(s) - 1
      /\ \A i \in 1 .. Len(s) - 1 : Tail(s)[i] = s[i + 1]
      /\ Head(s) = s[1] /\ s[1] \in Tasks
  OBVIOUS
<1>2. Elems(s) = {Head(s)} \cup Elems(Tail(s))
  <2>1. ASSUME NEW x \in Elems(s) PROVE x \in {Head(s)} \cup Elems(Tail(s))
    <3>1. PICK i \in 1 .. Len(s) : x = s[i]
      BY DEF Elems
    <3>2. CASE i # 1
      <4>1. i - 1 \in 1 .. Len(Tail(s)) /\ Tail(s)[i - 1] = s[i]
        BY <1>1, <3>2
      <4> QED
        BY <3>1, <4>1 DEF Elems
    <3> QED
      BY <1>1, <3>1, <3>2
  <2>2. ASSUME NEW x \in Elems(Tail(s)) PROVE x \in Elems(s)
    <3>1. PICK i \in 1 .. Len(Tail(s)) : x = Tail(s)[i]
      BY DEF Elems
    <3>2. i + 1 \in 1 .. Len(s) /\ x = s[i + 1]
      BY <1>1, <3>1
    <3> QED
      BY <3>2 DEF Elems
  <2>3. Head(s) \in Elems(s)
    BY <1>1 DEF Elems
  <2> QED
    BY <2>1, <2>2, <2>3
<1>3. Differ(s) => Differ(Tail(s)) /\ Head(s) \notin Elems(Tail(s))
  BY <1>1 DEF Elems, Differ
<1> QED
  BY <1>1, <1>2, <1>3

LEMMA ElemsConcat ==
  ASSUME NEW s \in Seq(Tasks), NEW r \in Seq(Tasks)
  PROVE  /\ s \o r \in Seq(Tasks) /\ Elems(s \o r) = Elems(s) \cup Elems(r)
         /\ Differ(s) /\ Differ(r) /\ Elems(s) \cap Elems(r) = {} => Differ(s \o r)
<1>1. /\ s \o r \in Seq(Tasks) /\ Len(s) \in Nat /\ Len(r) \in Nat /\ Len(s \o r) = Len(s) + Len(r)
      /\ \A i \in 1 .. Len(s) + Len(r) : (s \o r)[i] = IF i <= Len(s) THEN s[i] ELSE r[i - Len(s)]
  OBVIOUS
<1>2. Elems(s \o r) = Elems(s) \cup Elems(r)
  <2>1. ASSUME NEW x \in Elems(s \o r) PROVE x \in Elems(s) \cup Elems(r)
    <3>1. PICK i \in 1 .. Len(s) + Len(r) : x = (s \o r)[i]
      BY <1>1 DEF Elems
    <3>2. i <= Len(s) \/ i - Len(s) \in 1 .. Len(r)
      BY <1>1
    <3> QED
      BY <1>1, <3>1, <3>2 DEF Elems
  <2>2. ASSUME NEW x \in Elems(s) PROVE x \in Elems(s \o r)
    BY <1>1 DEF Elems
  <2>3. ASSUME NEW x \in Elems(r) PROVE x \in Elems(s \o r)
    <3>1. PICK i \in 1 .. Len(r) : x = r[i]
      BY DEF Elems
    <3>2. i + Len(s) \in 1 .. Len(s) + Len(r) /\ (s \o r)[i + Len(s)] = x
      BY <1>1, <3>1
    <3> QED
      BY <1>1, <3>2 DEF Elems
  <2> QED
    BY <2>1, <2>2, <2>3
<1>3. ASSUME Differ(s), Differ(r), Elems(s) \cap Elems(r) = {} PROVE Differ(s \o r)
  <2> SUFFICES ASSUME NEW i \in 1 .. Len(s) + Len(r), NEW j \in 1 .. Len(s) + Len(r), i < j
               PROVE  (s \o r)[i] # (s \o r)[j]
    BY <1>1 DEF Differ
  <2>1. CASE j <= Len(s)
    BY <1>1, <1>3, <2>1 DEF Differ
  <2>2. CASE i > Len(s)
    <3>1. i - Len(s) \in 1 .. Len(r) /\ j - Len(s) \in 1 .. Len(r) /\ i - Len(s) # j - Len(s)
      BY <1>1, <2>2
    <3> QED
      BY <1>1, <1>3, <2>2, <3>1 DEF Differ
  <2>3. CASE i <= Len(s) /\ j > Len(s)
    <3>1. j - Len(s) \in 1 .. Len(r)
      BY <1>1, <2>3
    <3>2. s[i] \in Elems(s) /\ r[j - Len(s)] \in Elems(r)
      BY <1>1, <2>3, <3>1 DEF Elems
    <3> QED
      BY <1>1, <1>3, <2>3, <3>2
  <2> QED
    BY <1>1, <2>1, <2>2, <2>3
<1> QED
  BY <1>1, <1>2, <1>3

(* The ranks of n numbers are 1 to n, one each. *)
LEMMA RankIs ==
  ASSUME NEW n \in Nat, NEW I \in SUBSET (1 .. n)
  PROVE  /\ IsFiniteSet(I) /\ Cardinality(I) \in Nat
         /\ \A i \in I : Rank(i, I) \in 1 .. Cardinality(I)
         /\ \A k \in 1 .. Cardinality(I) : \E i \in I : Rank(i, I) = k
         /\ \A i, j \in I : Rank(i, I) = Rank(j, I) => i = j
<1>1. IsFiniteSet(1 .. n)
  BY FS_Interval
<1>2. IsFiniteSet(I) /\ Cardinality(I) \in Nat
  BY <1>1, FS_Subset, FS_CardinalityType
<1> DEFINE Low(i) == {j \in I : j <= i}
<1>3. \A i \in I : IsFiniteSet(Low(i)) /\ Cardinality(Low(i)) \in Nat /\ Cardinality(Low(i)) <= Cardinality(I)
  <2> SUFFICES ASSUME NEW i \in I
               PROVE IsFiniteSet(Low(i)) /\ Cardinality(Low(i)) \in Nat /\ Cardinality(Low(i)) <= Cardinality(I)
    OBVIOUS
  <2>1. Low(i) \in SUBSET I
    OBVIOUS
  <2> HIDE DEF Low
  <2> QED
    BY <1>2, <2>1, FS_Subset, FS_CardinalityType
<1>4. \A i \in I : Cardinality(Low(i)) # 0
  <2> SUFFICES ASSUME NEW i \in I, Cardinality(Low(i)) = 0 PROVE FALSE
    OBVIOUS
  <2>1. i \in Low(i)
    OBVIOUS
  <2> HIDE DEF Low
  <2> QED
    BY <1>3, <2>1, FS_EmptySet
<1>5. \A i, j \in I : i < j => Cardinality(Low(i)) # Cardinality(Low(j))
  <2> SUFFICES ASSUME NEW i \in I, NEW j \in I, i < j, Cardinality(Low(i)) = Cardinality(Low(j)) PROVE FALSE
    OBVIOUS
  <2>0. \A x \in I : x \in Int
    OBVIOUS
  <2>1. Low(i) \in SUBSET Low(j) /\ j \in Low(j) /\ j \notin Low(i)
    <3>1. \A x \in Low(i) : x \in Low(j)
      BY <2>0
    <3>2. j \in Low(j) /\ j \notin Low(i)
      BY <2>0
    <3> HIDE DEF Low
    <3> QED
      BY <3>1, <3>2
  <2> HIDE DEF Low
  <2> QED
    BY <1>3, <2>1, FS_Subset
<1> DEFINE f == [i \in I |-> Cardinality(Low(i))]
<1> DEFINE N == 1 .. Cardinality(I)
<1>6. \A i \in I : Cardinality(Low(i)) \in N
  <2> HIDE DEF Low
  <2> QED
    BY <1>2, <1>3, <1>4
<1>7. f \in [I -> N]
  <2> HIDE DEF Low, N
  <2> QED
    BY <1>6
<1>8. \A i, j \in I : f[i] = f[j] => i = j
  <2>1. \A i, j \in I : i = j \/ i < j \/ j < i
    OBVIOUS
  <2> HIDE DEF Low, N
  <2> QED
    BY <1>5, <2>1
<1>9. f \in Injection(I, N)
  <2> HIDE DEF f, N
  <2> QED
    BY <1>7, <1>8 DEF Injection, IsInjective
<1>10. IsFiniteSet(N) /\ Cardinality(N) = Cardinality(I)
  <2>1. PICK m \in Nat : m = Cardinality(I)
    BY <1>2
  <2>2. IsFiniteSet(1 .. m) /\ Cardinality(1 .. m) = IF 1 > m THEN 0 ELSE m - 1 + 1
    BY FS_Interval
  <2> QED
    BY <2>1, <2>2
<1>11. f \in Surjection(I, N)
  <2> HIDE DEF f, N
  <2> QED
    BY <1>9, <1>10, FS_Injection
<1>12. \A k \in N : \E i \in I : f[i] = k
  <2> HIDE DEF f, N
  <2> QED
    BY <1>11 DEF Surjection
<1> QED
  BY <1>2, <1>6, <1>8, <1>12 DEF Rank

LEMMA PickIs ==
  ASSUME NEW s \in Seq(Tasks), NEW I \in SUBSET (1 .. Len(s))
  PROVE  /\ Pick(s, I) \in Seq(Tasks) /\ Elems(Pick(s, I)) = {s[i] : i \in I}
         /\ Differ(s) => Differ(Pick(s, I))
<1>0. Len(s) \in Nat /\ \A i \in 1 .. Len(s) : s[i] \in Tasks
  OBVIOUS
<1> DEFINE N == 1 .. Cardinality(I)
           at == [k \in N |-> CHOOSE i \in I : Rank(i, I) = k]
<1>1. /\ Cardinality(I) \in Nat /\ \A i \in I : Rank(i, I) \in N
      /\ \A k \in N : \E i \in I : Rank(i, I) = k
  BY <1>0, RankIs
<1>2. \A k \in N : at[k] \in I /\ Rank(at[k], I) = k
  <2> HIDE DEF N
  <2> QED
    BY <1>1
<1>3. \A i \in I : \E k \in N : at[k] = i
  <2> SUFFICES ASSUME NEW i \in I PROVE at[Rank(i, I)] = i
    BY <1>1
  <2>1. PICK k \in N : k = Rank(i, I)
    BY <1>1
  <2>2. at[k] \in I /\ Rank(at[k], I) = Rank(i, I)
    BY <1>2, <2>1
  <2>3. \A j \in I : Rank(j, I) = Rank(i, I) => j = i
    BY <1>0, RankIs
  <2> HIDE DEF at
  <2> QED
    BY <2>1, <2>2, <2>3
<1>4. Pick(s, I) = [k \in N |-> s[at[k]]]
  <2>1. \A k \in N : s[CHOOSE i \in I : Rank(i, I) = k] = s[at[k]]
    OBVIOUS
  <2> QED
    BY <2>1 DEF Pick
<1> HIDE DEF at
<1>5. \A k \in N : s[at[k]] \in Tasks
  BY <1>0, <1>2
<1>6. Pick(s, I) \in Seq(Tasks) /\ Len(Pick(s, I)) = Cardinality(I)
  BY <1>1, <1>4, <1>5
<1>7. \A k \in N : Pick(s, I)[k] = s[at[k]]
  BY <1>4
<1>8. Elems(Pick(s, I)) = {s[i] : i \in I}
  <2>1. Elems(Pick(s, I)) = {s[at[k]] : k \in N}
    BY <1>6, <1>7 DEF Elems
  <2> HIDE DEF N
  <2> QED
    BY <1>2, <1>3, <2>1
<1>9. Differ(s) => Differ(Pick(s, I))
  <2> SUFFICES ASSUME Differ(s), NEW j \in N, NEW k \in N, j # k PROVE Pick(s, I)[j] # Pick(s, I)[k]
    BY <1>6 DEF Differ
  <2>1. at[j] \in 1 .. Len(s) /\ at[k] \in 1 .. Len(s) /\ at[j] # at[k]
    BY <1>2
  <2> QED
    BY <1>7, <2>1 DEF Differ
<1> QED
  BY <1>6, <1>8, <1>9

(* What is stolen and what is left: a queue cut in two. *)
LEMMA SplitIs ==
  ASSUME Types, NEW v \in Carriers
  PROVE  /\ Loot(v) \in Seq(Tasks) /\ Left(v) \in Seq(Tasks)
         /\ Elems(Loot(v)) \cup Elems(Left(v)) = Elems(rq[v])
         /\ \A t \in Elems(Loot(v)) : CanMove(t)
         /\ Differ(rq[v]) => /\ Differ(Loot(v)) /\ Differ(Left(v))
                             /\ Elems(Loot(v)) \cap Elems(Left(v)) = {}
<1>0. rq[v] \in Seq(Tasks)
  BY DEF Types
<1> DEFINE D == 1 .. Len(rq[v])
<1>1. Grab(v) \in SUBSET D /\ \A i \in Grab(v) : CanMove(rq[v][i])
  BY DEF Grab, Movable
<1>2. PICK I \in SUBSET D : I = Grab(v)
  BY <1>1
<1>3. /\ Loot(v) \in Seq(Tasks) /\ Elems(Loot(v)) = {rq[v][i] : i \in I}
      /\ Differ(rq[v]) => Differ(Loot(v))
  BY <1>0, <1>2, PickIs DEF Loot
<1>4. /\ Left(v) \in Seq(Tasks) /\ Elems(Left(v)) = {rq[v][i] : i \in D \ I}
      /\ Differ(rq[v]) => Differ(Left(v))
  <2>1. D \ I \in SUBSET D
    OBVIOUS
  <2> QED
    BY <1>0, <1>2, <2>1, PickIs DEF Left
<1>5. Elems(Loot(v)) \cup Elems(Left(v)) = Elems(rq[v])
  BY <1>3, <1>4 DEF Elems
<1>6. Differ(rq[v]) => Elems(Loot(v)) \cap Elems(Left(v)) = {}
  <2> HIDE DEF D
  <2>1. Differ(rq[v]) => \A i, j \in D : i # j => rq[v][i] # rq[v][j]
    BY DEF D, Differ
  <2> QED
    BY <1>2, <1>3, <1>4, <2>1
<1>7. \A t \in Elems(Loot(v)) : CanMove(t)
  BY <1>1, <1>2, <1>3
<1> QED
  BY <1>3, <1>4, <1>5, <1>6, <1>7

-----------------------------------------------------------------------------
(* The steps, and what each leaves alone. *)
LEMMA Steps ==
  ASSUME [Next]_vars
  PROVE  \/ UNCHANGED vars
         \/ \E c \in Carriers, t \in Tasks : Ready(c, t)
         \/ \E c \in Carriers, held \in BOOLEAN : Wait(c, held) \/ Poll(c, held) \/ Yield(c, held)
         \/ \E c \in Carriers :
              \/ End(c) \/ Take(c) \/ Chain(c) \/ ToIdle(c) \/ Spin(c) \/ GiveUp(c) \/ Sleep(c)
              \/ Wake(c) \/ Go(c) \/ WaitStack(c) \/ PutBack(c) \/ After(c)
              \/ HandOnBlocked(c) \/ HandOnBusy(c) \/ Forget(c)
         \/ \E c, v \in Carriers : StealSlot(c, v) \/ StealQueue(c, v)
         \/ \E p \in Procs : Pushing(p) \/ Testing(p)
         \/ \E t \in Tasks : Fire(t) \/ Call(t)
         \/ Settle \/ EndThread \/ Hire \/ Watch
<1>1. ASSUME NEW c \in Carriers, NEW held \in {FALSE, cur[c] \in Holders} PROVE held \in BOOLEAN
  <2>1. (cur[c] \in Holders) \in BOOLEAN
    OBVIOUS
  <2> QED
    BY <2>1, Zenon
<1>2. ASSUME NEW c \in Carriers, TaskCode(c)
      PROVE  \/ \E t \in Tasks : Ready(c, t)
             \/ \E held \in BOOLEAN : Wait(c, held) \/ Poll(c, held) \/ Yield(c, held)
             \/ End(c)
  BY <1>1, <1>2 DEF TaskCode
<1> QED
  BY <1>2, ProcsIs DEF Next, Carrier, Looking, Pushing

LEMMA StateChanges ==
  ASSUME [Next]_vars
  PROVE  \/ UNCHANGED <<state>>
         \/ \E c \in Carriers, t \in Tasks : Ready(c, t)
         \/ \E c \in Carriers, held \in BOOLEAN : Wait(c, held) \/ Poll(c, held) \/
              Yield(c, held)
         \/ \E c \in Carriers : End(c) \/ Go(c)
         \/ \E p \in Procs : Push(p)
BY Steps, ZenonT(100) DEF Pushing, Testing, vars, taskVars, queues, stacks, counters, bounds, rest,
   ToG0, Noise, AskSpinners, PickSleeper, Signal, ReadPending, ReadIdle, ReadQueue,
   AllQuiet, Take, StealSlot, StealQueue, Chain, ToIdle, Spin, GiveUp, Sleep, Wake,
   WaitStack, PutBack, After, Settle, EndThread, Hire, Fire, Call, Watch, HandOnBlocked,
   HandOnBusy, Forget

LEMMA HomeChanges ==
  ASSUME [Next]_vars
  PROVE  \/ UNCHANGED <<home>>
         \/ \E c \in Carriers, t \in Tasks : Ready(c, t)
         \/ \E c, v \in Carriers : StealSlot(c, v) \/ StealQueue(c, v)
         \/ \E c \in Carriers : Chain(c) \/ Go(c)
         \/ \E t \in Tasks : Call(t)
BY Steps, ZenonT(100) DEF Pushing, Testing, vars, taskVars, queues, stacks, counters, bounds, rest,
   ToG0, Noise, Wait, Poll, Yield, End, Push, AskSpinners, PickSleeper, Signal,
   ReadPending, ReadIdle, ReadQueue, AllQuiet, Take, ToIdle, Spin, GiveUp, Sleep, Wake,
   WaitStack, PutBack, After, Settle, EndThread, Hire, Fire, Watch, HandOnBlocked, HandOnBusy,
   Forget

LEMMA PinnedChanges ==
  ASSUME [Next]_vars
  PROVE  \/ UNCHANGED <<pinned>>
         \/ \E c \in Carriers, held \in BOOLEAN : Wait(c, held) \/ Poll(c, held) \/
              Yield(c, held)
BY Steps, ZenonT(100) DEF Pushing, Testing, vars, taskVars, queues, stacks, counters, bounds, rest,
   ToG0, Noise, Ready, End, Push, AskSpinners, PickSleeper, Signal, ReadPending,
   ReadIdle, ReadQueue, AllQuiet, Take, StealSlot, StealQueue, Chain, ToIdle, Spin,
   GiveUp, Sleep, Wake, Go, WaitStack, PutBack, After, Settle, EndThread, Hire, Fire, Call,
   Watch, HandOnBlocked, HandOnBusy, Forget

LEMMA OnstackChanges ==
  ASSUME [Next]_vars
  PROVE  \/ UNCHANGED <<onstack>>
         \/ \E c \in Carriers : Go(c) \/ After(c)
BY Steps, ZenonT(100) DEF Pushing, Testing, vars, taskVars, queues, stacks, counters, bounds, rest,
   ToG0, Noise, Ready, Wait, Poll, Yield, End, Push, AskSpinners, PickSleeper, Signal,
   ReadPending, ReadIdle, ReadQueue, AllQuiet, Take, StealSlot, StealQueue, Chain,
   ToIdle, Spin, GiveUp, Sleep, Wake, WaitStack, PutBack, Settle, EndThread, Hire, Fire, Call,
   Watch, HandOnBlocked, HandOnBusy, Forget

LEMMA RqChanges ==
  ASSUME [Next]_vars
  PROVE  \/ UNCHANGED <<rq>>
         \/ \E p \in Procs : Push(p)
         \/ \E c \in Carriers : Take(c) \/ Chain(c)
         \/ \E c, v \in Carriers : StealQueue(c, v)
BY Steps, ZenonT(100) DEF Pushing, Testing, vars, taskVars, queues, stacks, counters, bounds, rest,
   ToG0, Noise, Ready, Wait, Poll, Yield, End, AskSpinners, PickSleeper, Signal,
   ReadPending, ReadIdle, ReadQueue, AllQuiet, StealSlot, ToIdle, Spin, GiveUp, Sleep,
   Wake, Go, WaitStack, PutBack, After, Settle, EndThread, Hire, Fire, Call, Watch,
   HandOnBlocked, HandOnBusy, Forget

LEMMA SlotChanges ==
  ASSUME [Next]_vars
  PROVE  \/ UNCHANGED <<runnext>>
         \/ \E c \in Carriers, t \in Tasks : Ready(c, t)
         \/ \E c \in Carriers : Take(c) \/ PutBack(c)
         \/ \E c, v \in Carriers : StealSlot(c, v)
BY Steps, ZenonT(100) DEF Pushing, Testing, vars, taskVars, queues, stacks, counters, bounds, rest,
   ToG0, Noise, Wait, Poll, Yield, End, Push, AskSpinners, PickSleeper, Signal,
   ReadPending, ReadIdle, ReadQueue, AllQuiet, StealQueue, Chain, ToIdle, Spin, GiveUp,
   Sleep, Wake, Go, WaitStack, After, Settle, EndThread, Hire, Fire, Call, Watch,
   HandOnBlocked, HandOnBusy, Forget

LEMMA HandChanges ==
  ASSUME [Next]_vars
  PROVE  \/ UNCHANGED <<hand>>
         \/ \E c \in Carriers, t \in Tasks : Ready(c, t)
         \/ \E c \in Carriers, held \in BOOLEAN : Yield(c, held)
         \/ \E p \in Procs : Push(p)
         \/ \E c \in Carriers : Take(c) \/ Chain(c) \/ Go(c) \/ PutBack(c)
         \/ \E c, v \in Carriers : StealSlot(c, v) \/ StealQueue(c, v)
         \/ \E t \in Tasks : Fire(t) \/ Call(t)
BY Steps, ZenonT(100) DEF Pushing, Testing, vars, taskVars, queues, stacks, counters, bounds, rest,
   ToG0, Noise, Wait, Poll, End, AskSpinners, PickSleeper, Signal, ReadPending,
   ReadIdle, ReadQueue, AllQuiet, ToIdle, Spin, GiveUp, Sleep, Wake, WaitStack, After,
   Settle, EndThread, Hire, Watch, HandOnBlocked, HandOnBusy, Forget

LEMMA StackChanges ==
  ASSUME [Next]_vars
  PROVE  \/ UNCHANGED <<cur, left>>
         \/ \E c \in Carriers : ToIdle(c) \/ PutBack(c) \/ Go(c) \/ After(c)
<1>1. \/ UNCHANGED stacks
      \/ \E c \in Carriers : ToIdle(c) \/ PutBack(c) \/ Go(c) \/ After(c)
  BY Steps, ZenonT(100) DEF Pushing, Testing, vars, taskVars, queues, counters, bounds, rest,
     ToG0, Noise, Ready, Wait, Poll, Yield, End, Push, AskSpinners, PickSleeper, Signal,
     ReadPending, ReadIdle, ReadQueue, AllQuiet, Take, StealSlot, StealQueue, Chain, Spin,
     GiveUp, Sleep, Wake, WaitStack, Settle, EndThread, Hire, Fire, Call, Watch, HandOnBlocked,
     HandOnBusy, Forget
<1> QED
  BY <1>1 DEF stacks

LEMMA HandedChanges ==
  ASSUME [Next]_vars
  PROVE  \/ UNCHANGED <<handed>>
         \/ \E c \in Carriers : ToIdle(c) \/ PutBack(c) \/ Go(c) \/ HandOnBlocked(c) \/
              Forget(c)
BY Steps, ZenonT(100) DEF Pushing, Testing, vars, taskVars, queues, stacks, counters, bounds, rest,
   ToG0, Noise, Ready, Wait, Poll, Yield, End, Push, AskSpinners, PickSleeper, Signal,
   ReadPending, ReadIdle, ReadQueue, AllQuiet, Take, StealSlot, StealQueue, Chain, Spin,
   GiveUp, Sleep, Wake, WaitStack, After, Settle, EndThread, Hire, Fire, Call, Watch,
   HandOnBusy

LEMMA SleepingChanges ==
  ASSUME [Next]_vars
  PROVE  \/ UNCHANGED <<sleeping>>
         \/ \E c \in Carriers : Sleep(c) \/ Wake(c)
BY Steps, ZenonT(100) DEF Pushing, Testing, vars, taskVars, queues, stacks, counters, bounds, rest,
   ToG0, Noise, Ready, Wait, Poll, Yield, End, Push, AskSpinners, PickSleeper, Signal,
   ReadPending, ReadIdle, ReadQueue, AllQuiet, Take, StealSlot, StealQueue, Chain,
   ToIdle, Spin, GiveUp, Go, WaitStack, PutBack, After, Settle, EndThread, Hire, Fire, Call,
   Watch, HandOnBlocked, HandOnBusy, Forget

LEMMA IdleChanges ==
  ASSUME [Next]_vars
  PROVE  \/ UNCHANGED <<nidle>>
         \/ \E c \in Carriers : Sleep(c) \/ Wake(c)
BY Steps, ZenonT(100) DEF Pushing, Testing, vars, taskVars, queues, stacks, counters, bounds, rest,
   ToG0, Noise, Ready, Wait, Poll, Yield, End, Push, AskSpinners, PickSleeper, Signal,
   ReadPending, ReadIdle, ReadQueue, AllQuiet, Take, StealSlot, StealQueue, Chain,
   ToIdle, Spin, GiveUp, Go, WaitStack, PutBack, After, Settle, EndThread, Hire, Fire, Call,
   Watch, HandOnBlocked, HandOnBusy, Forget

LEMMA SpinsChanges ==
  ASSUME [Next]_vars
  PROVE  \/ UNCHANGED <<spins>>
         \/ \E c \in Carriers : Spin(c) \/ GiveUp(c) \/ Go(c) \/ WaitStack(c)
BY Steps, ZenonT(100) DEF Pushing, Testing, vars, taskVars, queues, stacks, counters, bounds, rest,
   ToG0, Noise, Ready, Wait, Poll, Yield, End, Push, AskSpinners, PickSleeper, Signal,
   ReadPending, ReadIdle, ReadQueue, AllQuiet, Take, StealSlot, StealQueue, Chain,
   ToIdle, Sleep, Wake, PutBack, After, Settle, EndThread, Hire, Fire, Call, Watch,
   HandOnBlocked, HandOnBusy, Forget

LEMMA SpinChanges ==
  ASSUME [Next]_vars
  PROVE  \/ UNCHANGED <<nspin>>
         \/ \E c \in Carriers : Spin(c) \/ GiveUp(c) \/ Go(c) \/ WaitStack(c)
BY Steps, ZenonT(100) DEF Pushing, Testing, vars, taskVars, queues, stacks, counters, bounds, rest,
   ToG0, Noise, Ready, Wait, Poll, Yield, End, Push, AskSpinners, PickSleeper, Signal,
   ReadPending, ReadIdle, ReadQueue, AllQuiet, Take, StealSlot, StealQueue, Chain,
   ToIdle, Sleep, Wake, PutBack, After, Settle, EndThread, Hire, Fire, Call, Watch,
   HandOnBlocked, HandOnBusy, Forget

LEMMA CarsChanges ==
  ASSUME [Next]_vars
  PROVE  \/ UNCHANGED <<ncars>>
         \/ \E c \in Carriers : HandOnBlocked(c)
         \/ Hire
BY Steps, ZenonT(100) DEF Pushing, Testing, vars, taskVars, queues, stacks, counters, bounds, rest,
   ToG0, Noise, Ready, Wait, Poll, Yield, End, Push, AskSpinners, PickSleeper, Signal,
   ReadPending, ReadIdle, ReadQueue, AllQuiet, Take, StealSlot, StealQueue, Chain,
   ToIdle, Spin, GiveUp, Sleep, Wake, Go, WaitStack, PutBack, After, Settle, EndThread,
   Fire, Call, Watch, HandOnBusy, Forget

LEMMA PendingChanges ==
  ASSUME [Next]_vars
  PROVE  \/ UNCHANGED <<pending>>
         \/ \E c \in Carriers, held \in BOOLEAN : Poll(c, held)
         \/ Settle
BY Steps, ZenonT(100) DEF Pushing, Testing, vars, taskVars, queues, stacks, counters, bounds, rest,
   ToG0, Noise, Ready, Wait, Yield, End, Push, AskSpinners, PickSleeper, Signal,
   ReadPending, ReadIdle, ReadQueue, AllQuiet, Take, StealSlot, StealQueue, Chain,
   ToIdle, Spin, GiveUp, Sleep, Wake, Go, WaitStack, PutBack, After, EndThread, Hire, Fire,
   Call, Watch, HandOnBlocked, HandOnBusy, Forget

LEMMA LookChanges ==
  ASSUME [Next]_vars
  PROVE  \/ UNCHANGED <<look>>
         \/ \E c \in Carriers : Take(c)
         \/ \E c, v \in Carriers : StealQueue(c, v)
         \/ \E p \in Procs : ReadPending(p) \/ ReadQueue(p)
BY Steps, ZenonT(100) DEF Pushing, Testing, vars, taskVars, queues, stacks, counters, bounds, rest,
   ToG0, Noise, Ready, Wait, Poll, Yield, End, Push, AskSpinners, PickSleeper, Signal,
   ReadIdle, AllQuiet, StealSlot, Chain, ToIdle, Spin, GiveUp, Sleep, Wake, Go,
   WaitStack, PutBack, After, Settle, EndThread, Hire, Fire, Call, Watch, HandOnBlocked,
   HandOnBusy, Forget

LEMMA AimChanges ==
  ASSUME [Next]_vars
  PROVE  \/ UNCHANGED <<aim>>
         \/ \E p \in Procs : PickSleeper(p) \/ Signal(p)
         \/ \E c \in Carriers : HandOnBlocked(c) \/ HandOnBusy(c)
BY Steps, ZenonT(100) DEF Pushing, Testing, vars, taskVars, queues, stacks, counters, bounds, rest,
   ToG0, Noise, Ready, Wait, Poll, Yield, End, Push, AskSpinners, ReadPending, ReadIdle,
   ReadQueue, AllQuiet, Take, StealSlot, StealQueue, Chain, ToIdle, Spin, GiveUp, Sleep,
   Wake, Go, WaitStack, PutBack, After, Settle, EndThread, Hire, Fire, Call, Watch, Forget

LEMMA OpsChanges ==
  ASSUME [Next]_vars
  PROVE  \/ UNCHANGED <<ops>>
         \/ \E c \in Carriers, t \in Tasks : Ready(c, t)
         \/ \E c \in Carriers, held \in BOOLEAN : Poll(c, held) \/ Yield(c, held)
         \/ \E t \in Tasks : Call(t)
BY Steps, ZenonT(100) DEF Pushing, Testing, vars, taskVars, queues, stacks, counters, bounds, rest,
   ToG0, Noise, Wait, End, Push, AskSpinners, PickSleeper, Signal, ReadPending,
   ReadIdle, ReadQueue, AllQuiet, Take, StealSlot, StealQueue, Chain, ToIdle, Spin,
   GiveUp, Sleep, Wake, Go, WaitStack, PutBack, After, Settle, EndThread, Hire, Fire, Watch,
   HandOnBlocked, HandOnBusy, Forget

LEMMA PollsChanges ==
  ASSUME [Next]_vars
  PROVE  \/ UNCHANGED <<polls>>
         \/ \E c \in Carriers, held \in BOOLEAN : Poll(c, held)
BY Steps, ZenonT(100) DEF Pushing, Testing, vars, taskVars, queues, stacks, counters, bounds, rest,
   ToG0, Noise, Ready, Wait, Yield, End, Push, AskSpinners, PickSleeper, Signal,
   ReadPending, ReadIdle, ReadQueue, AllQuiet, Take, StealSlot, StealQueue, Chain,
   ToIdle, Spin, GiveUp, Sleep, Wake, Go, WaitStack, PutBack, After, Settle, EndThread, Hire,
   Fire, Call, Watch, HandOnBlocked, HandOnBusy, Forget

LEMMA AliveChanges ==
  ASSUME [Next]_vars
  PROVE  \/ UNCHANGED <<alive>>
         \/ EndThread
BY Steps, ZenonT(100) DEF Pushing, Testing, vars, taskVars, queues, stacks, counters, bounds, rest,
   ToG0, Noise, Ready, Wait, Poll, Yield, End, Push, AskSpinners, PickSleeper, Signal,
   ReadPending, ReadIdle, ReadQueue, AllQuiet, Take, StealSlot, StealQueue, Chain,
   ToIdle, Spin, GiveUp, Sleep, Wake, Go, WaitStack, PutBack, After, Settle, Hire, Fire,
   Call, Watch, HandOnBlocked, HandOnBusy, Forget

LEMMA QuietChanges ==
  ASSUME [Next]_vars
  PROVE  \/ UNCHANGED <<quiet>>
         \/ \E p \in Procs : ReadPending(p) \/ ReadIdle(p) \/ ReadQueue(p) \/
              AllQuiet(p)
         \/ Watch
BY Steps, ZenonT(100) DEF Pushing, Testing, vars, taskVars, queues, stacks, counters, bounds, rest,
   ToG0, Noise, Ready, Wait, Poll, Yield, End, Push, AskSpinners, PickSleeper, Signal,
   Take, StealSlot, StealQueue, Chain, ToIdle, Spin, GiveUp, Sleep, Wake, Go, WaitStack,
   PutBack, After, Settle, EndThread, Hire, Fire, Call, HandOnBlocked, HandOnBusy, Forget

LEMMA AbortChanges ==
  ASSUME [Next]_vars
  PROVE  \/ UNCHANGED <<aborted>>
         \/ \E p \in Procs : AllQuiet(p)
BY Steps, ZenonT(100) DEF Pushing, Testing, vars, taskVars, queues, stacks, counters, bounds, rest,
   ToG0, Noise, Ready, Wait, Poll, Yield, End, Push, AskSpinners, PickSleeper, Signal,
   ReadPending, ReadIdle, ReadQueue, Take, StealSlot, StealQueue, Chain, ToIdle, Spin,
   GiveUp, Sleep, Wake, Go, WaitStack, PutBack, After, Settle, EndThread, Hire, Fire, Call,
   Watch, HandOnBlocked, HandOnBusy, Forget

LEMMA ShortChanges ==
  ASSUME [Next]_vars
  PROVE  \/ UNCHANGED <<short>>
         \/ \E c \in Carriers, t \in Tasks : Ready(c, t)
         \/ \E c \in Carriers : HandOnBlocked(c)
BY Steps, ZenonT(100) DEF Pushing, Testing, vars, taskVars, queues, stacks, counters, bounds, rest,
   ToG0, Noise, Wait, Poll, Yield, End, Push, AskSpinners, PickSleeper, Signal,
   ReadPending, ReadIdle, ReadQueue, AllQuiet, Take, StealSlot, StealQueue, Chain,
   ToIdle, Spin, GiveUp, Sleep, Wake, Go, WaitStack, PutBack, After, Settle, EndThread, Hire,
   Fire, Call, Watch, HandOnBusy, Forget

-----------------------------------------------------------------------------
(* What a thread has in hand. *)
LEMMA HandIs ==
  ASSUME Types, HandsRight, NEW p \in Procs
  PROVE  /\ pc[p] \in {"push", "found", "go", "chain"} => hand[p] # <<>> /\ hand[p][1] \in Tasks
         /\ pc[p] \in {"push", "found", "go"} => H(p) = {hand[p][1]}
         /\ pc[p] \notin {"push", "found", "go", "chain"} => hand[p] = <<>> /\ H(p) = {}
         /\ hand[p] \in Seq(Tasks) /\ hand[p][1] = Head(hand[p])
<1>1. hand[p] \in Seq(Tasks)
  BY DEF Types
<1>2. pc[p] \in {"push", "found", "go"} => Len(hand[p]) = 1
  BY DEF HandsRight
<1>3. pc[p] = "chain" => Len(hand[p]) > 1
  BY DEF HandsRight
<1>4. pc[p] \notin {"push", "found", "go", "chain"} => hand[p] = <<>> /\ H(p) = {}
  BY DEF HandsRight, H
<1>5. pc[p] \in {"push", "found", "go"} => H(p) = {hand[p][1]}
  BY <1>2 DEF H
<1>6. pc[p] \in {"push", "found", "go", "chain"} => hand[p] # <<>> /\ hand[p][1] \in Tasks
  BY <1>1, <1>2, <1>3
<1> QED
  BY <1>1, <1>4, <1>5, <1>6

LEMMA CurIs ==
  ASSUME Types, NEW c \in Carriers
  PROVE  /\ cur[c] # None => cur[c] \in Tasks /\ state[cur[c]] \in States
         /\ left[c] # None => left[c] \in Tasks
         /\ runnext[c] # None => runnext[c] \in Tasks
BY DEF Types

(* The types hold after a step: first those of the tasks. *)
LEMMA CarsNext ==
  ASSUME Types, [Next]_vars
  PROVE  /\ ncars' \in Joined .. MaxCarriers /\ ncars' >= ncars
         /\ Cars \subseteq Cars' /\ Cars' \subseteq Carriers
<1>0. ncars \in Joined .. MaxCarriers /\ MaxCarriers \in Nat /\ Joined \in Nat
  BY SchedAssumption DEF Types
<1>1. ncars' \in Joined .. MaxCarriers /\ ncars' >= ncars
  <2>1. ASSUME NEW c \in Carriers, HandOnBlocked(c) \/ Hire
        PROVE  ncars' = ncars \/ (ncars' = ncars + 1 /\ ncars < MaxCarriers)
    BY <2>1 DEF HandOnBlocked, Hire, StartWorker
  <2> QED
    BY <1>0, <2>1, CarsChanges, ProcsIs
<1> QED
  BY <1>0, <1>1 DEF Cars, Carriers

LEMMA StateTypes == IInv /\ [Next]_vars => state' \in [Tasks -> States]
<1> SUFFICES ASSUME IInv, [Next]_vars PROVE state' \in [Tasks -> States]
  OBVIOUS
<1> USE DEF IInv
<1>0. state \in [Tasks -> States]
  BY DEF Types
<1>1. ASSUME NEW t \in Tasks, NEW s \in States, state' = [state EXCEPT ![t] = s]
      PROVE  state' \in [Tasks -> States]
  BY <1>0, <1>1
<1>2. ASSUME NEW c \in Carriers, InTask(c) PROVE cur[c] \in Tasks
  BY <1>2, CurIs DEF InTask
<1>3. ASSUME NEW c \in Carriers, NEW t \in Tasks, Ready(c, t)
      PROVE  state' = state \/ state' = [state EXCEPT ![t] = "READY"]
  BY <1>3 DEF Ready
<1>4. ASSUME NEW c \in Carriers, NEW held \in BOOLEAN, Wait(c, held) \/ Poll(c, held) \/ Yield(c, held)
      PROVE  cur[c] \in Tasks /\ \E s \in States : state' = [state EXCEPT ![cur[c]] = s]
  BY <1>2, <1>4 DEF Wait, Poll, Yield, States
<1>5. ASSUME NEW c \in Carriers, End(c)
      PROVE  cur[c] \in Tasks /\ \E s \in States : state' = [state EXCEPT ![cur[c]] = s]
  BY <1>2, <1>5 DEF End, States
<1>6. ASSUME NEW p \in Procs, Push(p)
      PROVE  hand[p][1] \in Tasks /\ state' = [state EXCEPT ![hand[p][1]] = "READY"]
  BY <1>6, HandIs DEF Push
<1>7. ASSUME NEW c \in Carriers, Go(c)
      PROVE  hand[c][1] \in Tasks /\ state' = [state EXCEPT ![hand[c][1]] = "RUN"]
  BY <1>7, HandIs, ProcsIs DEF Go
<1>8. "READY" \in States /\ "RUN" \in States
  BY DEF States
<1> QED
  BY <1>0, <1>1, <1>3, <1>4, <1>5, <1>6, <1>7, <1>8, StateChanges

LEMMA HomeTypes == IInv /\ [Next]_vars => home' \in [Tasks -> Cars']
<1> SUFFICES ASSUME IInv, [Next]_vars PROVE home' \in [Tasks -> Cars']
  OBVIOUS
<1> USE DEF IInv
<1>0. home \in [Tasks -> Cars] /\ Cars \subseteq Cars'
  BY CarsNext DEF Types
<1>1. ASSUME NEW t \in Tasks, NEW c \in Cars, home' = [home EXCEPT ![t] = c]
      PROVE  home' \in [Tasks -> Cars']
  BY <1>0, <1>1
<1>2. ASSUME NEW c \in Carriers, pc[c] # "unborn" PROVE c \in Cars
  BY <1>2, BornIs
<1>3. ASSUME NEW c \in Carriers, NEW t \in Tasks, Ready(c, t) PROVE home' \in [Tasks -> Cars']
  <2>1. c \in Cars
    BY <1>2, <1>3 DEF Ready, InTask
  <2>2. home' = home \/ home' = [home EXCEPT ![t] = c]
    BY <1>3 DEF Ready
  <2> QED
    BY <1>0, <1>1, <2>1, <2>2
<1>4. ASSUME NEW c \in Carriers, NEW v \in Carriers, StealSlot(c, v) PROVE home' \in [Tasks -> Cars']
  <2>1. c \in Cars /\ runnext[v] \in Tasks /\ home' = [home EXCEPT ![runnext[v]] = c]
    BY <1>2, <1>4, CurIs DEF StealSlot
  <2> QED
    BY <1>1, <2>1
<1>5. ASSUME NEW c \in Carriers, NEW v \in Carriers, StealQueue(c, v) PROVE home' \in [Tasks -> Cars']
  <2>1. c \in Cars
    BY <1>2, <1>5 DEF StealQueue
  <2>2. CASE Loot(v) = <<>>
    BY <1>0, <1>5, <2>2 DEF StealQueue
  <2>3. CASE Loot(v) # <<>>
    <3>1. Loot(v)[1] \in Tasks
      BY <2>3, SplitIs, ElemsTail
    <3>2. home' = [home EXCEPT ![Loot(v)[1]] = c]
      BY <1>5, <2>3 DEF StealQueue
    <3> QED
      BY <1>1, <2>1, <3>1, <3>2
  <2> QED
    BY <2>2, <2>3
<1>6. ASSUME NEW c \in Carriers, Chain(c) PROVE home' \in [Tasks -> Cars']
  <2>1. c \in Cars
    BY <1>2, <1>6 DEF Chain
  <2>2. home' = [t \in Tasks |-> IF Contains(Tail(hand[c]), t) THEN c ELSE home[t]]
    BY <1>6 DEF Chain
  <2> QED
    BY <1>0, <2>1, <2>2
<1>7. ASSUME NEW c \in Carriers, Go(c) PROVE home' \in [Tasks -> Cars']
  <2>1. c \in Cars /\ hand[c][1] \in Tasks /\ home' = [home EXCEPT ![hand[c][1]] = c]
    BY <1>2, <1>7, HandIs, ProcsIs DEF Go
  <2> QED
    BY <1>1, <2>1
<1>8. ASSUME NEW t \in Tasks, Call(t) PROVE home' \in [Tasks -> Cars']
  <2>1. home' = home \/ \E c \in Cars : home' = [home EXCEPT ![t] = c]
    BY <1>8 DEF Call
  <2> QED
    BY <1>0, <1>1, <2>1
<1> QED
  BY <1>0, <1>3, <1>4, <1>5, <1>6, <1>7, <1>8, HomeChanges

LEMMA FlagTypes ==
  IInv /\ [Next]_vars => pinned' \in [Tasks -> BOOLEAN] /\ onstack' \in [Tasks -> BOOLEAN]
<1> SUFFICES ASSUME IInv, [Next]_vars
             PROVE  pinned' \in [Tasks -> BOOLEAN] /\ onstack' \in [Tasks -> BOOLEAN]
  OBVIOUS
<1> USE DEF IInv
<1>1. pinned' \in [Tasks -> BOOLEAN]
  <2>1. pinned \in [Tasks -> BOOLEAN]
    BY DEF Types
  <2>2. ASSUME NEW c \in Carriers, NEW held \in BOOLEAN, Wait(c, held) \/ Poll(c, held) \/ Yield(c, held)
        PROVE  pinned' = [pinned EXCEPT ![cur[c]] = held]
    BY <2>2 DEF Wait, Poll, Yield
  <2>3. ASSUME NEW t, NEW held \in BOOLEAN, pinned' = [pinned EXCEPT ![t] = held]
        PROVE  pinned' \in [Tasks -> BOOLEAN]
    BY <2>1, <2>3
  <2> QED
    BY <2>1, <2>2, <2>3, PinnedChanges
<1>2. onstack' \in [Tasks -> BOOLEAN]
  <2>1. onstack \in [Tasks -> BOOLEAN]
    BY DEF Types
  <2>2. ASSUME NEW c \in Carriers, Go(c) PROVE onstack' = [onstack EXCEPT ![hand[c][1]] = TRUE]
    BY <2>2 DEF Go
  <2>3. ASSUME NEW c \in Carriers, After(c) PROVE onstack' = [onstack EXCEPT ![left[c]] = FALSE]
    BY <2>3 DEF After
  <2>4. ASSUME NEW t, NEW on \in BOOLEAN, onstack' = [onstack EXCEPT ![t] = on]
        PROVE  onstack' \in [Tasks -> BOOLEAN]
    BY <2>1, <2>4
  <2> QED
    BY <2>1, <2>2, <2>3, <2>4, OnstackChanges
<1> QED
  BY <1>1, <1>2

LEMMA QueueTypes == IInv /\ [Next]_vars => rq' \in [Carriers -> Seq(Tasks)]
<1> SUFFICES ASSUME IInv, [Next]_vars PROVE rq' \in [Carriers -> Seq(Tasks)]
  OBVIOUS
<1> USE DEF IInv
<1>0. rq \in [Carriers -> Seq(Tasks)]
  BY DEF Types
<1>1. ASSUME NEW c \in Carriers, NEW s \in Seq(Tasks), rq' = [rq EXCEPT ![c] = s]
      PROVE  rq' \in [Carriers -> Seq(Tasks)]
  BY <1>0, <1>1
<1>2. ASSUME NEW p \in Procs, Push(p) PROVE rq' \in [Carriers -> Seq(Tasks)]
  <2>1. hand[p][1] \in Tasks
    BY <1>2, HandIs DEF Push
  <2>2. home[hand[p][1]] \in Carriers
    BY <2>1, CarsIs DEF Types
  <2>3. PICK c \in Carriers : c = home[hand[p][1]] /\ rq' = [rq EXCEPT ![c] = Append(rq[c], hand[p][1])]
    BY <1>2, <2>2 DEF Push
  <2>4. Append(rq[c], hand[p][1]) \in Seq(Tasks)
    BY <1>0, <2>1, ElemsAppend
  <2> QED
    BY <1>1, <2>3, <2>4
<1>3. ASSUME NEW c \in Carriers, Take(c) PROVE rq' \in [Carriers -> Seq(Tasks)]
  <2>1. rq' = rq \/ (rq[c] # <<>> /\ rq' = [rq EXCEPT ![c] = Tail(rq[c])])
    BY <1>3 DEF Take
  <2>2. rq[c] # <<>> => Tail(rq[c]) \in Seq(Tasks)
    BY <1>0, ElemsTail
  <2> QED
    BY <1>0, <1>1, <2>1, <2>2
<1>4. ASSUME NEW c \in Carriers, NEW v \in Carriers, StealQueue(c, v) PROVE rq' \in [Carriers -> Seq(Tasks)]
  <2>1. rq' = rq \/ rq' = [rq EXCEPT ![v] = Left(v)]
    BY <1>4 DEF StealQueue
  <2> QED
    BY <1>0, <1>1, <2>1, SplitIs
<1>5. ASSUME NEW c \in Carriers, Chain(c) PROVE rq' \in [Carriers -> Seq(Tasks)]
  <2>1. hand[c] \in Seq(Tasks) /\ hand[c] # <<>>
    BY <1>5, HandIs, ProcsIs DEF Chain
  <2>2. rq[c] \o Tail(hand[c]) \in Seq(Tasks)
    BY <1>0, <2>1, ElemsTail, ElemsConcat
  <2>3. rq' = [rq EXCEPT ![c] = rq[c] \o Tail(hand[c])]
    BY <1>5 DEF Chain
  <2> QED
    BY <1>1, <2>2, <2>3
<1> QED
  BY <1>0, <1>2, <1>3, <1>4, <1>5, RqChanges

LEMMA SlotTypes == IInv /\ [Next]_vars => runnext' \in [Carriers -> Tasks \cup {None}]
<1> SUFFICES ASSUME IInv, [Next]_vars PROVE runnext' \in [Carriers -> Tasks \cup {None}]
  OBVIOUS
<1> USE DEF IInv
<1>0. runnext \in [Carriers -> Tasks \cup {None}]
  BY DEF Types
<1>1. ASSUME NEW c \in Carriers, NEW t \in Tasks \cup {None}, runnext' = [runnext EXCEPT ![c] = t]
      PROVE  runnext' \in [Carriers -> Tasks \cup {None}]
  BY <1>0, <1>1
<1>2. ASSUME NEW c \in Carriers, NEW t \in Tasks, Ready(c, t)
      PROVE  runnext' = runnext \/ runnext' = [runnext EXCEPT ![c] = t]
  BY <1>2 DEF Ready
<1>3. ASSUME NEW c \in Carriers, Take(c)
      PROVE  runnext' = runnext \/ runnext' = [runnext EXCEPT ![c] = None]
  BY <1>3 DEF Take
<1>4. ASSUME NEW c \in Carriers, NEW v \in Carriers, StealSlot(c, v)
      PROVE  runnext' = [runnext EXCEPT ![v] = None]
  BY <1>4 DEF StealSlot
<1>5. ASSUME NEW c \in Carriers, PutBack(c)
      PROVE  hand[c][1] \in Tasks /\ runnext' = [runnext EXCEPT ![c] = hand[c][1]]
  BY <1>5, HandIs, ProcsIs DEF PutBack
<1> QED
  BY <1>0, <1>1, <1>2, <1>3, <1>4, <1>5, SlotChanges

LEMMA HandTypes == IInv /\ [Next]_vars => hand' \in [Procs -> Seq(Tasks)]
<1> SUFFICES ASSUME IInv, [Next]_vars PROVE hand' \in [Procs -> Seq(Tasks)]
  OBVIOUS
<1> USE DEF IInv
<1>0. hand \in [Procs -> Seq(Tasks)] /\ <<>> \in Seq(Tasks) /\ \A t \in Tasks : <<t>> \in Seq(Tasks)
  BY DEF Types
<1>1. ASSUME NEW p \in Procs, NEW s \in Seq(Tasks), hand' = [hand EXCEPT ![p] = s]
      PROVE  hand' \in [Procs -> Seq(Tasks)]
  BY <1>0, <1>1
<1>2. ASSUME NEW p \in Procs, NEW t \in Tasks, hand' = [hand EXCEPT ![p] = <<t>>]
      PROVE  hand' \in [Procs -> Seq(Tasks)]
  BY <1>0, <1>1, <1>2
<1>3. ASSUME NEW c \in Carriers, NEW t \in Tasks, Ready(c, t) PROVE hand' \in [Procs -> Seq(Tasks)]
  <2>1. \/ hand' = hand \/ hand' = [hand EXCEPT ![c] = <<t>>]
        \/ (runnext[c] \in Tasks /\ hand' = [hand EXCEPT ![c] = <<runnext[c]>>])
    BY <1>3, CurIs DEF Ready
  <2> QED
    BY <1>0, <1>2, <2>1, ProcsIs
<1>4. ASSUME NEW c \in Carriers, NEW held \in BOOLEAN, Yield(c, held) PROVE hand' \in [Procs -> Seq(Tasks)]
  <2>1. cur[c] \in Tasks /\ hand' = [hand EXCEPT ![c] = <<cur[c]>>]
    BY <1>4, CurIs DEF Yield, InTask
  <2> QED
    BY <1>2, <2>1, ProcsIs
<1>5. ASSUME NEW p \in Procs, Push(p) PROVE hand' \in [Procs -> Seq(Tasks)]
  BY <1>0, <1>1, <1>5 DEF Push
<1>6. ASSUME NEW c \in Carriers, Take(c) PROVE hand' \in [Procs -> Seq(Tasks)]
  <2>1. \/ hand' = hand
        \/ (runnext[c] # None /\ hand' = [hand EXCEPT ![c] = <<runnext[c]>>])
        \/ (rq[c] # <<>> /\ hand' = [hand EXCEPT ![c] = <<Head(rq[c])>>])
    BY <1>6 DEF Take
  <2>2. (runnext[c] # None => runnext[c] \in Tasks) /\ (rq[c] # <<>> => Head(rq[c]) \in Tasks)
    BY CurIs, ElemsTail DEF Types
  <2> QED
    BY <1>0, <1>2, <2>1, <2>2, ProcsIs
<1>7. ASSUME NEW c \in Carriers, NEW v \in Carriers, StealSlot(c, v) PROVE hand' \in [Procs -> Seq(Tasks)]
  <2>1. runnext[v] \in Tasks /\ hand' = [hand EXCEPT ![c] = <<runnext[v]>>]
    BY <1>7, CurIs DEF StealSlot
  <2> QED
    BY <1>2, <2>1, ProcsIs
<1>8. ASSUME NEW c \in Carriers, NEW v \in Carriers, StealQueue(c, v) PROVE hand' \in [Procs -> Seq(Tasks)]
  <2>1. hand' = hand \/ hand' = [hand EXCEPT ![c] = Loot(v)]
    BY <1>8 DEF StealQueue
  <2> QED
    BY <1>0, <1>1, <2>1, SplitIs, ProcsIs
<1>9. ASSUME NEW c \in Carriers, Chain(c) PROVE hand' \in [Procs -> Seq(Tasks)]
  <2>1. Head(hand[c]) \in Tasks /\ hand' = [hand EXCEPT ![c] = <<Head(hand[c])>>]
    BY <1>9, HandIs, ProcsIs DEF Chain
  <2> QED
    BY <1>2, <2>1, ProcsIs
<1>10. ASSUME NEW c \in Carriers, Go(c) \/ PutBack(c) PROVE hand' \in [Procs -> Seq(Tasks)]
  <2>1. hand' = [hand EXCEPT ![c] = <<>>]
    BY <1>10 DEF Go, PutBack
  <2> QED
    BY <1>0, <1>1, <2>1, ProcsIs
<1>11. ASSUME NEW t \in Tasks, Fire(t) \/ Call(t) PROVE hand' \in [Procs -> Seq(Tasks)]
  <2>1. hand' = [hand EXCEPT ![Poller] = <<t>>] \/ hand' = [hand EXCEPT ![Thread] = <<t>>]
    BY <1>11 DEF Fire, Call
  <2> QED
    BY <1>2, <2>1, ProcsIs
<1> QED
  BY <1>0, <1>3, <1>4, <1>5, <1>6, <1>7, <1>8, <1>9, <1>10, <1>11, HandChanges

(* Then those of the carriers, ... *)
LEMMA StackTypes ==
  IInv /\ [Next]_vars => cur' \in [Carriers -> Tasks \cup {None}] /\ left' \in [Carriers -> Tasks \cup {None}]
<1> SUFFICES ASSUME IInv, [Next]_vars
             PROVE  cur' \in [Carriers -> Tasks \cup {None}] /\ left' \in [Carriers -> Tasks \cup {None}]
  OBVIOUS
<1> USE DEF IInv
<1>0. cur \in [Carriers -> Tasks \cup {None}] /\ left \in [Carriers -> Tasks \cup {None}]
  BY DEF Types
<1>1. ASSUME NEW c \in Carriers, ToIdle(c) \/ PutBack(c)
      PROVE  left' = [left EXCEPT ![c] = cur[c]] /\ cur' = [cur EXCEPT ![c] = None]
  BY <1>1 DEF ToIdle, PutBack, ToG0
<1>2. ASSUME NEW c \in Carriers, Go(c)
      PROVE  /\ hand[c][1] \in Tasks /\ cur' = [cur EXCEPT ![c] = hand[c][1]]
             /\ left' = [left EXCEPT ![c] = IF hand[c][1] = cur[c] THEN None ELSE cur[c]]
  BY <1>2, HandIs, ProcsIs DEF Go
<1>3. ASSUME NEW c \in Carriers, After(c)
      PROVE  cur' = cur /\ left' = [left EXCEPT ![c] = None]
  BY <1>3 DEF After
<1>4. ASSUME NEW c \in Carriers, NEW t \in Tasks \cup {None}, cur' = [cur EXCEPT ![c] = t]
      PROVE  cur' \in [Carriers -> Tasks \cup {None}]
  BY <1>0, <1>4
<1>5. ASSUME NEW c \in Carriers, NEW t \in Tasks \cup {None}, left' = [left EXCEPT ![c] = t]
      PROVE  left' \in [Carriers -> Tasks \cup {None}]
  BY <1>0, <1>5
<1>6. ASSUME NEW c \in Carriers
      PROVE  /\ cur[c] \in Tasks \cup {None}
             /\ (IF hand[c][1] = cur[c] THEN None ELSE cur[c]) \in Tasks \cup {None}
  BY <1>0
<1> QED
  BY <1>0, <1>1, <1>2, <1>3, <1>4, <1>5, <1>6, StackChanges

LEMMA SpinTypes ==
  IInv /\ [Next]_vars =>
    /\ sleeping' \in [Carriers -> BOOLEAN] /\ handed' \in [Carriers -> BOOLEAN]
    /\ spins' \in [Carriers -> 0 .. Spins - 1]
<1> SUFFICES ASSUME IInv, [Next]_vars
             PROVE  /\ sleeping' \in [Carriers -> BOOLEAN] /\ handed' \in [Carriers -> BOOLEAN]
                    /\ spins' \in [Carriers -> 0 .. Spins - 1]
  OBVIOUS
<1> USE DEF IInv
<1>1. sleeping' \in [Carriers -> BOOLEAN]
  <2>1. ASSUME NEW c \in Carriers, Sleep(c) \/ Wake(c)
        PROVE  sleeping' = sleeping \/ \E b \in BOOLEAN : sleeping' = [sleeping EXCEPT ![c] = b]
    BY <2>1 DEF Sleep, Wake
  <2> QED
    BY <2>1, SleepingChanges DEF Types
<1>2. handed' \in [Carriers -> BOOLEAN]
  <2>1. handed \in [Carriers -> BOOLEAN]
    BY DEF Types
  <2>2. ASSUME NEW c \in Carriers, ToIdle(c) \/ PutBack(c) \/ HandOnBlocked(c) \/ Forget(c)
        PROVE  \E b \in BOOLEAN : handed' = [handed EXCEPT ![c] = b]
    BY <2>2 DEF ToIdle, PutBack, ToG0, HandOnBlocked, Forget
  <2>3. ASSUME NEW c \in Carriers, Go(c) PROVE \E b \in BOOLEAN : handed' = [handed EXCEPT ![c] = b]
    <3>1. handed' = [handed EXCEPT ![c] = handed[c] /\ hand[c][1] = cur[c]]
      BY <2>3 DEF Go
    <3>2. (handed[c] /\ hand[c][1] = cur[c]) \in BOOLEAN
      OBVIOUS
    <3> QED
      BY <3>1, <3>2, Zenon
  <2>4. ASSUME NEW c \in Carriers, NEW b \in BOOLEAN, handed' = [handed EXCEPT ![c] = b]
        PROVE  handed' \in [Carriers -> BOOLEAN]
    BY <2>1, <2>4
  <2> QED
    BY <2>1, <2>2, <2>3, <2>4, HandedChanges
<1>3. spins' \in [Carriers -> 0 .. Spins - 1]
  <2>0. spins \in [Carriers -> 0 .. Spins - 1] /\ Spins \in Nat /\ Spins >= 3
    BY SchedAssumption DEF Types
  <2>1. ASSUME NEW c \in Carriers, Spin(c) \/ GiveUp(c) \/ Go(c) \/ WaitStack(c)
        PROVE  \E n \in 0 .. Spins - 1 : spins' = [spins EXCEPT ![c] = n]
    <3>1. CASE Spin(c)
      <4>1. spins' = [spins EXCEPT ![c] = spins[c] + 1] /\ spins[c] + 1 < Spins
        BY <3>1 DEF Spin
      <4>2. spins[c] \in 0 .. Spins - 1
        BY <2>0
      <4>3. spins[c] + 1 \in 0 .. Spins - 1
        BY <2>0, <4>1, <4>2
      <4> QED
        BY <4>1, <4>3, Zenon
    <3>2. CASE GiveUp(c) \/ Go(c) \/ WaitStack(c)
      <4>1. spins' = [spins EXCEPT ![c] = 0]
        BY <3>2 DEF GiveUp, Go, WaitStack
      <4>2. 0 \in 0 .. Spins - 1
        BY <2>0
      <4> QED
        BY <4>1, <4>2, Zenon
    <3> QED
      BY <2>1, <3>1, <3>2
  <2>2. ASSUME NEW c \in Carriers, NEW n \in 0 .. Spins - 1, spins' = [spins EXCEPT ![c] = n]
        PROVE  spins' \in [Carriers -> 0 .. Spins - 1]
    BY <2>0, <2>2
  <2> QED
    BY <2>0, <2>1, <2>2, SpinsChanges
<1> QED
  BY <1>1, <1>2, <1>3

LEMMA NumberTypes ==
  IInv /\ [Next]_vars =>
    /\ nidle' \in Int /\ nspin' \in Int /\ pending' \in Int
    /\ ops' \in Nat /\ polls' \in Nat /\ quiet' \in {0, 1}
    /\ alive' \in BOOLEAN /\ aborted' \in BOOLEAN /\ short' \in BOOLEAN
<1> SUFFICES ASSUME IInv, [Next]_vars
             PROVE  /\ nidle' \in Int /\ nspin' \in Int /\ pending' \in Int
                    /\ ops' \in Nat /\ polls' \in Nat /\ quiet' \in {0, 1}
                    /\ alive' \in BOOLEAN /\ aborted' \in BOOLEAN /\ short' \in BOOLEAN
  OBVIOUS
<1> USE DEF IInv
<1>0. /\ nidle \in Int /\ nspin \in Int /\ pending \in Int
      /\ ops \in Nat /\ polls \in Nat /\ quiet \in {0, 1}
      /\ alive \in BOOLEAN /\ aborted \in BOOLEAN /\ short \in BOOLEAN
  BY DEF Types
<1>1. nidle' \in Int
  <2>1. ASSUME NEW c \in Carriers, Sleep(c) \/ Wake(c)
        PROVE  nidle' = nidle \/ nidle' = nidle + 1 \/ nidle' = nidle - 1
    BY <2>1 DEF Sleep, Wake
  <2> QED
    BY <1>0, <2>1, IdleChanges
<1>2. nspin' \in Int
  <2>1. ASSUME NEW c \in Carriers, Spin(c) \/ GiveUp(c) \/ Go(c) \/ WaitStack(c)
        PROVE  nspin' = nspin \/ nspin' = nspin + 1 \/ nspin' = nspin - 1
    BY <2>1 DEF Spin, GiveUp, Go, WaitStack
  <2> QED
    BY <1>0, <2>1, SpinChanges
<1>3. pending' \in Int
  <2>1. ASSUME NEW c \in Carriers, NEW held \in BOOLEAN, Poll(c, held) PROVE pending' = pending + 1
    BY <2>1 DEF Poll
  <2>2. ASSUME Settle PROVE pending' = pending - 1
    BY <2>2 DEF Settle
  <2> QED
    BY <1>0, <2>1, <2>2, PendingChanges
<1>4. ops' \in Nat
  <2>1. ASSUME ops' = ops - 1, ops > 0 PROVE ops' \in Nat
    BY <1>0, <2>1
  <2>2. ASSUME NEW c \in Carriers, NEW t \in Tasks, Ready(c, t) PROVE ops' = ops - 1 /\ ops > 0
    BY <2>2 DEF Ready
  <2>3. ASSUME NEW c \in Carriers, NEW held \in BOOLEAN, Poll(c, held) \/ Yield(c, held)
        PROVE  ops' = ops - 1 /\ ops > 0
    BY <2>3 DEF Poll, Yield
  <2>4. ASSUME NEW t \in Tasks, Call(t) PROVE ops' = ops - 1 /\ ops > 0
    BY <2>4 DEF Call
  <2> QED
    BY <1>0, <2>1, <2>2, <2>3, <2>4, OpsChanges
<1>5. polls' \in Nat
  <2>1. ASSUME NEW c \in Carriers, NEW held \in BOOLEAN, Poll(c, held) PROVE polls' = polls - 1 /\ polls > 0
    BY <2>1 DEF Poll
  <2> QED
    BY <1>0, <2>1, PollsChanges
<1>6. quiet' \in {0, 1}
  <2>1. ASSUME NEW p \in Procs, ReadPending(p) \/ ReadIdle(p) \/ ReadQueue(p) \/ AllQuiet(p)
        PROVE  quiet' \in {0, 1}
    BY <1>0, <2>1 DEF ReadPending, ReadIdle, ReadQueue, AllQuiet, Noise
  <2>2. ASSUME Watch PROVE quiet' \in {0, 1}
    BY <1>0, <2>2 DEF Watch
  <2> QED
    BY <1>0, <2>1, <2>2, QuietChanges
<1>7. alive' \in BOOLEAN
  <2>1. EndThread => alive' = FALSE
    BY DEF EndThread
  <2> QED
    BY <1>0, <2>1, AliveChanges
<1>8. aborted' \in BOOLEAN
  <2>1. ASSUME NEW p \in Procs, AllQuiet(p) PROVE aborted' = aborted \/ aborted' = TRUE
    BY <2>1 DEF AllQuiet
  <2> QED
    BY <1>0, <2>1, AbortChanges
<1>9. short' \in BOOLEAN
  <2>1. ASSUME NEW c \in Carriers, NEW t \in Tasks, Ready(c, t) PROVE short' \in BOOLEAN
    <3>1. short' = (short \/ handed[c])
      BY <2>1 DEF Ready
    <3> QED
      BY <3>1, Zenon
  <2>2. ASSUME NEW c \in Carriers, HandOnBlocked(c) PROVE short' = short \/ short' = TRUE
    BY <2>2 DEF HandOnBlocked
  <2> QED
    BY <1>0, <2>1, <2>2, ShortChanges
<1> QED
  BY <1>1, <1>2, <1>3, <1>4, <1>5, <1>6, <1>7, <1>8, <1>9

-----------------------------------------------------------------------------
(* Where the threads go.  What a thread may do next, by its kind. *)
PointsOf(p) ==
  IF p \in Carriers THEN CarrierPoints \ {"unborn"}
  ELSE IF p = Poller THEN PollerPoints ELSE IF p = Thread THEN ThreadPoints ELSE WatchPoints

LEMMA PointsOfIs ==
  /\ \A c \in Carriers : PointsOf(c) = CarrierPoints \ {"unborn"}
  /\ PointsOf(Poller) = PollerPoints /\ PointsOf(Thread) = ThreadPoints
  /\ PointsOf(Overseer) = WatchPoints
  /\ \A p \in Procs : PointsOf(p) \subseteq Points
  /\ \A p \in Procs : p \in Carriers \/ p = Poller \/ p = Thread \/ p = Overseer
<1>1. \A p \in Procs : p \in Carriers \/ p = Poller \/ p = Thread \/ p = Overseer
  BY DEF Procs
<1>2. /\ CarrierPoints \subseteq Points /\ PollerPoints \subseteq Points /\ ThreadPoints \subseteq Points
      /\ WatchPoints \subseteq Points
  BY DEF CarrierPoints, PollerPoints, ThreadPoints, WatchPoints, Points, AtCall, AtPush, AtLook,
         AtIdle, AtSleep, Locked
<1> QED
  BY <1>1, <1>2, ProcsIs DEF PointsOf

LEMMA BackIs ==
  /\ Back(Poller) = "settle" /\ Back(Thread) = "free" /\ Back(Overseer) = "watch"
  /\ \A c \in Carriers : Back(c) = IF state[cur[c]] = "RUN" THEN "user" ELSE "sched"
BY ProcsIs DEF Back

LEMMA BackPoint ==
  ASSUME NEW p \in Procs
  PROVE  Back(p) \in PointsOf(p) /\ Back(p) \notin AtSleep /\ Back(p) \in {"settle", "free", "watch", "user", "sched"}
<1>1. \A c \in Carriers : Back(c) \in {"user", "sched"}
  BY BackIs
<1> QED
  BY <1>1, BackIs, PointsOfIs
     DEF CarrierPoints, PollerPoints, ThreadPoints, WatchPoints, AtCall, AtLook, AtSleep, Locked

(* What holds of one thread's point, and that it is all PointsRight says. *)
AtRight(p) ==
  /\ p \in Carriers => pc[p] \in CarrierPoints /\ (pc[p] = "unborn" <=> p > ncars)
  /\ p \notin Carriers => pc[p] \in PointsOf(p)
  /\ p \in Carriers => (sleeping[p] <=> pc[p] \in AtSleep)
  /\ pc[p] = "signal" => aim[p] \in Cars

LEMMA PointsEach == PointsRight <=> \A p \in Procs : AtRight(p)
<1>1. ASSUME PointsRight PROVE \A p \in Procs : AtRight(p)
  BY <1>1, PointsOfIs, ProcsIs DEF PointsRight, AtRight
<1>2. ASSUME \A p \in Procs : AtRight(p) PROVE PointsRight
  BY <1>2, PointsOfIs, ProcsIs DEF PointsRight, AtRight
<1> QED
  BY <1>1, <1>2

LEMMA PointsEachNext == PointsRight' <=> \A p \in Procs : AtRight(p)'
<1>1. ASSUME PointsRight' PROVE \A p \in Procs : AtRight(p)'
  BY <1>1, PointsOfIs, ProcsIs DEF PointsRight, AtRight, PointsOf
<1>2. ASSUME \A p \in Procs : AtRight(p)' PROVE PointsRight'
  BY <1>2, PointsOfIs, ProcsIs DEF PointsRight, AtRight, PointsOf
<1> QED
  BY <1>1, <1>2

(* A thread that moves, or none, while the others stay. *)
LEMMA MoveOne ==
  ASSUME Types, PointsRight, NEW p \in Procs, NEW x, pc' = [pc EXCEPT ![p] = x],
         pc[p] # "unborn", x \in PointsOf(p), ncars' = ncars,
         \A q \in Procs \ {p} : aim'[q] = aim[q],
         \A d \in Carriers \ {p} : sleeping'[d] = sleeping[d],
         p \in Carriers => (sleeping'[p] <=> x \in AtSleep),
         x = "signal" => aim'[p] \in Cars
  PROVE  PointsRight' /\ pc' \in [Procs -> Points]
<1>0. pc \in [Procs -> Points] /\ Cars' = Cars
  BY DEF Types, Cars
<1>1. pc' \in [Procs -> Points]
  BY <1>0, PointsOfIs
<1>2. ASSUME NEW q \in Procs, q # p PROVE AtRight(q)'
  <2>1. AtRight(q) /\ pc'[q] = pc[q]
    BY <1>0, <1>2, PointsEach
  <2> QED
    BY <1>0, <1>2, <2>1 DEF AtRight, PointsOf
<1>3. AtRight(p)'
  <2>1. AtRight(p) /\ pc'[p] = x
    BY <1>0, PointsEach
  <2> QED
    BY <1>0, <2>1, PointsOfIs DEF AtRight, PointsOf
<1> QED
  BY <1>1, <1>2, <1>3, PointsEachNext

(* A step that wakes no one: the sleepers and the aims stay. *)
LEMMA MovePlain ==
  ASSUME Types, PointsRight, NEW p \in Procs, NEW x, pc' = [pc EXCEPT ![p] = x],
         pc[p] # "unborn", x \in PointsOf(p), x # "signal",
         UNCHANGED <<ncars, aim, sleeping>>,
         p \in Carriers => (pc[p] \in AtSleep <=> x \in AtSleep)
  PROVE  PointsRight' /\ pc' \in [Procs -> Points]
<1>1. p \in Carriers => (sleeping'[p] <=> x \in AtSleep)
  BY DEF PointsRight
<1> QED
  BY <1>1, MoveOne

(* A thread that moves and wakes a sleeper. *)
LEMMA MoveWake ==
  ASSUME Types, PointsRight, NEW p \in Procs, NEW v \in Carriers, sleeping[v],
         pc[p] \in AtPush, pc' = [pc EXCEPT ![p] = Back(p), ![v] = "woken"],
         UNCHANGED <<ncars, sleeping>>, \A q \in Procs \ {p} : aim'[q] = aim[q]
  PROVE  PointsRight' /\ pc' \in [Procs -> Points]
<1>0. pc \in [Procs -> Points] /\ Cars' = Cars /\ v \in Procs
  BY ProcsIs DEF Types, Cars
<1>1. pc[v] \in AtSleep /\ p # v
  BY DEF PointsRight, AtSleep, AtPush, Locked
<1>2. pc'[v] = "woken" /\ pc'[p] = Back(p) /\ \A q \in Procs \ {p, v} : pc'[q] = pc[q]
  BY <1>0, <1>1
<1>3. pc' \in [Procs -> Points]
  <2>1. Back(p) \in Points /\ "woken" \in Points
    BY BackPoint, PointsOfIs DEF Points
  <2> QED
    BY <1>0, <2>1
<1>4. AtRight(v)'
  <2>1. AtRight(v)
    BY <1>0, PointsEach
  <2> QED
    BY <1>0, <1>1, <1>2, <2>1 DEF AtRight, AtSleep, Locked, CarrierPoints
<1>5. AtRight(p)'
  <2>1. AtRight(p)
    BY PointsEach
  <2>2. Back(p) \in PointsOf(p) /\ Back(p) \notin AtSleep /\ Back(p) # "signal"
    BY BackPoint
  <2> QED
    BY <1>0, <1>1, <1>2, <2>1, <2>2, PointsOfIs DEF AtRight, AtPush, AtSleep, Locked, PointsOf
<1>6. ASSUME NEW q \in Procs, q \notin {p, v} PROVE AtRight(q)'
  <2>1. AtRight(q)
    BY PointsEach
  <2> QED
    BY <1>0, <1>2, <1>6, <2>1 DEF AtRight, PointsOf
<1> QED
  BY <1>3, <1>4, <1>5, <1>6, PointsEachNext

(* A carrier's steps that wake no one. *)
LEMMA PointsOfCarrier ==
  ASSUME Types, PointsRight, NEW c \in Carriers, NEW x \in CarrierPoints \ {"unborn", "signal"},
         pc' = [pc EXCEPT ![c] = x], pc[c] # "unborn", pc[c] \in AtSleep <=> x \in AtSleep,
         UNCHANGED <<ncars, aim, sleeping>>
  PROVE  PointsRight' /\ pc' \in [Procs -> Points]
BY MovePlain, ProcsIs, PointsOfIs

LEMMA CarrierPointsIs ==
  /\ {"user", "push", "ask", "pick", "sched", "steal", "chain", "found", "last", "laststeal", "go", "after"}
       \subseteq CarrierPoints \ {"unborn", "signal"}
  /\ {"user", "push", "ask", "pick", "signal", "sched", "steal", "chain", "found", "last", "laststeal",
      "go", "after", "unborn"} \cap AtSleep = {}
  /\ AtSleep = {"asleep", "woken", "pending", "count", "cars"}
  /\ AtSleep \subseteq CarrierPoints \ {"unborn", "signal"}
  /\ AtPush = {"push", "ask", "pick", "signal"}
BY DEF CarrierPoints, AtCall, AtPush, AtLook, AtIdle, AtSleep, Locked

LEMMA PointsTask ==
  ASSUME Types, PointsRight, NEW c \in Carriers, NEW held \in BOOLEAN, NEW t \in Tasks,
         Ready(c, t) \/ Wait(c, held) \/ Poll(c, held) \/ Yield(c, held) \/ End(c)
  PROVE  PointsRight' /\ pc' \in [Procs -> Points]
<1>0. pc \in [Procs -> Points] /\ c \in Procs /\ pc[c] = "user"
  BY ProcsIs DEF Types, Ready, Wait, Poll, Yield, End, InTask
<1>1. UNCHANGED <<ncars, aim, sleeping>>
  BY DEF Ready, Wait, Poll, Yield, End, counters
<1>2. \E x \in {"user", "push", "sched"} : pc' = [pc EXCEPT ![c] = x]
  <2>1. pc = [pc EXCEPT ![c] = "user"]
    BY <1>0
  <2>2. ASSUME Ready(c, t) PROVE pc' = pc \/ pc' = [pc EXCEPT ![c] = "push"]
    BY <2>2 DEF Ready, Goto
  <2>3. ASSUME Wait(c, held) \/ Poll(c, held) \/ End(c) PROVE pc' = [pc EXCEPT ![c] = "sched"]
    BY <2>3 DEF Wait, Poll, End, Goto
  <2>4. ASSUME Yield(c, held) PROVE pc' = [pc EXCEPT ![c] = "push"]
    BY <2>4 DEF Yield, Goto
  <2> QED
    BY <2>1, <2>2, <2>3, <2>4
<1> QED
  BY <1>0, <1>1, <1>2, PointsOfCarrier, CarrierPointsIs

LEMMA PointsFind ==
  ASSUME Types, PointsRight, NEW c \in Carriers, NEW v \in Carriers,
         \/ Take(c) \/ StealSlot(c, v) \/ StealQueue(c, v) \/ Chain(c) \/ ToIdle(c) \/ Spin(c)
         \/ GiveUp(c) \/ Go(c) \/ WaitStack(c) \/ PutBack(c) \/ After(c)
  PROVE  PointsRight' /\ pc' \in [Procs -> Points]
<1> DEFINE here == {"sched", "last", "steal", "laststeal", "chain", "found", "go", "after", "user"}
<1>0. pc \in [Procs -> Points] /\ c \in Procs
  BY ProcsIs DEF Types
<1>1. pc[c] \in here
  BY DEF Take, StealSlot, StealQueue, Chain, ToIdle, Spin, GiveUp, Go, WaitStack, PutBack, After
<1>2. UNCHANGED <<ncars, aim, sleeping>>
  BY DEF Take, StealSlot, StealQueue, Chain, ToIdle, Spin, GiveUp, Go, WaitStack, PutBack, After,
         counters, ToG0
<1>3. \E x \in here : pc' = [pc EXCEPT ![c] = x]
  <2>1. pc = [pc EXCEPT ![c] = pc[c]]
    BY <1>0
  <2>2. ASSUME Take(c) PROVE \E x \in here : pc' = [pc EXCEPT ![c] = x]
    BY <2>2 DEF Take, Goto
  <2>3. ASSUME StealSlot(c, v) \/ Chain(c) PROVE pc' = [pc EXCEPT ![c] = "found"]
    BY <2>3 DEF StealSlot, Chain, Goto
  <2>4. ASSUME StealQueue(c, v) PROVE pc' = pc \/ \E x \in here : pc' = [pc EXCEPT ![c] = x]
    BY <2>4 DEF StealQueue, Goto
  <2>5. ASSUME ToIdle(c) \/ PutBack(c) PROVE pc' = [pc EXCEPT ![c] = "after"]
    BY <2>5 DEF ToIdle, PutBack, ToG0, Goto
  <2>6. ASSUME Spin(c) \/ GiveUp(c) \/ WaitStack(c) PROVE \E x \in here : pc' = [pc EXCEPT ![c] = x]
    BY <2>6 DEF Spin, GiveUp, WaitStack, Goto
  <2>7. ASSUME Go(c) PROVE \E x \in here : pc' = [pc EXCEPT ![c] = x]
    BY <2>7 DEF Go, Goto
  <2>8. ASSUME After(c) PROVE \E x \in here : pc' = [pc EXCEPT ![c] = x]
    BY <2>8 DEF After, Goto
  <2> QED
    BY <1>1, <2>1, <2>2, <2>3, <2>4, <2>5, <2>6, <2>7, <2>8
<1>4. \A x \in here : x \in CarrierPoints \ {"unborn", "signal"} /\ x \notin AtSleep /\ x # "unborn"
  BY CarrierPointsIs
<1> HIDE DEF here
<1>5. PICK x \in here : pc' = [pc EXCEPT ![c] = x]
  BY <1>3
<1> QED
  BY <1>1, <1>2, <1>4, <1>5, PointsOfCarrier

LEMMA PointsSleep ==
  ASSUME Types, PointsRight, NEW c \in Carriers, Sleep(c) \/ Wake(c)
  PROVE  PointsRight' /\ pc' \in [Procs -> Points]
<1>0. pc \in [Procs -> Points] /\ sleeping \in [Carriers -> BOOLEAN] /\ c \in Procs
  BY ProcsIs DEF Types
<1>1. UNCHANGED <<ncars, aim>> /\ pc[c] # "unborn"
  BY DEF Sleep, Wake
<1>2. CASE Sleep(c) /\ rq[c] # <<>>
  <2>1. pc[c] = "laststeal" /\ pc' = [pc EXCEPT ![c] = "sched"] /\ sleeping' = sleeping
    BY <1>2 DEF Sleep, Goto
  <2> QED
    BY <1>1, <2>1, PointsOfCarrier, CarrierPointsIs
<1>3. CASE Sleep(c) /\ rq[c] = <<>>
  <2>1. pc' = [pc EXCEPT ![c] = "pending"] /\ sleeping' = [sleeping EXCEPT ![c] = TRUE]
    BY <1>3 DEF Sleep, Goto
  <2>2. "pending" \in PointsOf(c) /\ "pending" \in AtSleep
    BY CarrierPointsIs, PointsOfIs
  <2>3. sleeping'[c] = TRUE /\ \A d \in Carriers \ {c} : sleeping'[d] = sleeping[d]
    BY <1>0, <2>1
  <2> QED
    BY <1>0, <1>1, <2>1, <2>2, <2>3, MoveOne
<1>4. CASE Wake(c)
  <2>1. pc' = [pc EXCEPT ![c] = "sched"] /\ sleeping' = [sleeping EXCEPT ![c] = FALSE]
    BY <1>4 DEF Wake, Goto
  <2>2. "sched" \in PointsOf(c) /\ "sched" \notin AtSleep
    BY CarrierPointsIs, PointsOfIs
  <2>3. sleeping'[c] = FALSE /\ \A d \in Carriers \ {c} : sleeping'[d] = sleeping[d]
    BY <1>0, <2>1
  <2> QED
    BY <1>0, <1>1, <2>1, <2>2, <2>3, MoveOne
<1> QED
  BY <1>2, <1>3, <1>4

LEMMA PointsTest ==
  ASSUME Types, PointsRight, NEW p \in Procs, Testing(p)
  PROVE  PointsRight' /\ pc' \in [Procs -> Points]
<1>0. pc \in [Procs -> Points]
  BY DEF Types
<1>1. pc[p] \in Locked
  BY DEF Testing, ReadPending, ReadIdle, ReadQueue, AllQuiet, Locked
<1>2. p \in Carriers \/ p = Overseer
  BY <1>1, PointsOfIs DEF PointsRight, PollerPoints, ThreadPoints, AtPush, Locked
<1>3. UNCHANGED <<ncars, aim, sleeping>>
  BY DEF Testing, ReadPending, ReadIdle, ReadQueue, AllQuiet, counters
<1>4. \E x \in Locked \cup {IF p = Overseer THEN "watch" ELSE "asleep"} : pc' = [pc EXCEPT ![p] = x]
  <2>1. pc = [pc EXCEPT ![p] = pc[p]]
    BY <1>0
  <2>2. ASSUME ReadPending(p) \/ ReadIdle(p)
        PROVE  \E x \in Locked \cup {IF p = Overseer THEN "watch" ELSE "asleep"} : pc' = [pc EXCEPT ![p] = x]
    BY <2>2 DEF ReadPending, ReadIdle, Noise, Goto, Locked
  <2>3. ASSUME ReadQueue(p) \/ AllQuiet(p)
        PROVE  \/ pc' = pc
               \/ \E x \in Locked \cup {IF p = Overseer THEN "watch" ELSE "asleep"} : pc' = [pc EXCEPT ![p] = x]
    BY <2>3 DEF ReadQueue, AllQuiet, Noise, Goto, Locked
  <2> QED
    BY <1>1, <2>1, <2>2, <2>3 DEF Testing
<1>5. CASE p \in Carriers
  <2>1. \E x \in AtSleep : pc' = [pc EXCEPT ![p] = x]
    BY <1>4, <1>5, ProcsIs, CarrierPointsIs DEF Locked
  <2> QED
    BY <1>1, <1>3, <1>5, <2>1, PointsOfCarrier, CarrierPointsIs DEF Locked
<1>6. CASE p = Overseer
  <2>1. \E x \in WatchPoints \ {"signal"} : pc' = [pc EXCEPT ![p] = x]
    BY <1>4, <1>6 DEF WatchPoints, Locked
  <2>2. p \notin Carriers /\ pc[p] # "unborn" /\ PointsOf(p) = WatchPoints
    BY <1>1, <1>6, ProcsIs, PointsOfIs DEF Locked
  <2> QED
    BY <1>3, <2>1, <2>2, MovePlain
<1> QED
  BY <1>2, <1>5, <1>6

LEMMA SleepersAre ==
  ASSUME Types
  PROVE  Sleepers # {} => Min(Sleepers) \in Cars /\ Min(Sleepers) \in Carriers
<1>1. Sleepers \in SUBSET Carriers /\ Sleepers \subseteq Cars
  BY CarsIs DEF Sleepers
<1> QED
  BY <1>1, MinIs

LEMMA PointsPush ==
  ASSUME IInv, NEW p \in Procs, Pushing(p)
  PROVE  PointsRight' /\ pc' \in [Procs -> Points]
<1> USE DEF IInv
<1>0. pc \in [Procs -> Points] /\ aim \in [Procs -> Cars \cup {None}]
  BY DEF Types
<1>1. /\ UNCHANGED <<ncars, sleeping>> /\ pc[p] \in AtPush /\ pc[p] # "unborn"
      /\ \A q \in Procs \ {p} : aim'[q] = aim[q]
  BY <1>0 DEF Pushing, Push, AskSpinners, PickSleeper, Signal, counters, AtPush
<1>2. p \in Carriers => (sleeping'[p] <=> FALSE)
  BY <1>1, CarrierPointsIs DEF PointsRight
<1>3. ASSUME NEW x \in PointsOf(p) \ AtSleep, pc' = [pc EXCEPT ![p] = x], x = "signal" => aim'[p] \in Cars
      PROVE  PointsRight' /\ pc' \in [Procs -> Points]
  BY <1>1, <1>2, <1>3, MoveOne
<1>4. Back(p) \in PointsOf(p) \ AtSleep /\ Back(p) # "signal"
  BY BackPoint
<1>5. {"ask", "pick", "signal"} \subseteq PointsOf(p) \ AtSleep \/ p = Overseer
  BY PointsOfIs, CarrierPointsIs DEF PollerPoints, ThreadPoints, CarrierPoints
<1>6. p = Overseer => Signal(p)
  <2>1. p = Overseer => pc[p] \in WatchPoints
    BY DEF PointsRight
  <2> QED
    BY <2>1 DEF Pushing, Push, AskSpinners, PickSleeper, WatchPoints, Locked
<1>7. CASE Push(p)
  <2> DEFINE t == hand[p][1]
  <2>1. t \in Tasks /\ home[t] \in Carriers
    <3>1. t \in Tasks
      BY <1>7, HandIs DEF Push
    <3> QED
      BY <3>1, CarsIs DEF Types
  <2>2. CASE sleeping[home[t]]
    <3>1. pc' = [pc EXCEPT ![p] = Back(p), ![home[t]] = "woken"]
      BY <1>7, <2>2 DEF Push
    <3> QED
      BY <1>1, <2>1, <2>2, <3>1, MoveWake
  <2>3. CASE ~sleeping[home[t]]
    <3>1. pc' = [pc EXCEPT ![p] = IF Stays(t) THEN Back(p) ELSE "ask"] /\ p # Overseer
      BY <1>7, <2>3, <1>6, ProcsIs DEF Push, Signal
    <3>2. pc' = [pc EXCEPT ![p] = Back(p)] \/ pc' = [pc EXCEPT ![p] = "ask"]
      BY <3>1
    <3> QED
      BY <1>3, <1>4, <1>5, <3>1, <3>2
  <2> QED
    BY <2>2, <2>3
<1>8. CASE AskSpinners(p)
  <2>1. (pc' = [pc EXCEPT ![p] = "pick"] \/ pc' = [pc EXCEPT ![p] = Back(p)]) /\ p # Overseer
    BY <1>6, <1>8 DEF AskSpinners, Goto, Signal
  <2> QED
    BY <1>3, <1>4, <1>5, <2>1
<1>9. CASE PickSleeper(p)
  <2>1. p # Overseer
    BY <1>6, <1>9 DEF PickSleeper, Signal
  <2>2. CASE nidle > 0 /\ Sleepers # {}
    <3>1. pc' = [pc EXCEPT ![p] = "signal"] /\ aim' = [aim EXCEPT ![p] = Min(Sleepers)]
      BY <1>9, <2>2 DEF PickSleeper, Goto
    <3>2. aim'[p] \in Cars
      BY <1>0, <2>2, <3>1, SleepersAre
    <3> QED
      BY <1>3, <1>5, <2>1, <3>1, <3>2
  <2>3. CASE ~(nidle > 0 /\ Sleepers # {})
    <3>1. pc' = [pc EXCEPT ![p] = Back(p)]
      BY <1>9, <2>3 DEF PickSleeper, Goto
    <3> QED
      BY <1>3, <1>4, <3>1
  <2> QED
    BY <2>2, <2>3
<1>10. CASE Signal(p)
  <2>1. aim[p] \in Carriers
    BY <1>10, CarsIs DEF Signal, PointsRight
  <2>2. CASE sleeping[aim[p]]
    <3>1. pc' = [pc EXCEPT ![p] = Back(p), ![aim[p]] = "woken"]
      BY <1>10, <2>2 DEF Signal
    <3> QED
      BY <1>1, <2>1, <2>2, <3>1, MoveWake
  <2>3. CASE ~sleeping[aim[p]]
    <3>1. pc' = [pc EXCEPT ![p] = Back(p)]
      BY <1>10, <2>3 DEF Signal
    <3> QED
      BY <1>3, <1>4, <3>1
  <2> QED
    BY <2>2, <2>3
<1> QED
  BY <1>7, <1>8, <1>9, <1>10 DEF Pushing

LEMMA PointsOther ==
  ASSUME IInv, NEW t \in Tasks, Fire(t) \/ Call(t) \/ Settle \/ Watch
  PROVE  PointsRight' /\ pc' \in [Procs -> Points]
<1> USE DEF IInv
<1>0. pc \in [Procs -> Points] /\ UNCHANGED <<ncars, aim, sleeping>>
  BY DEF Types, Fire, Call, Settle, Watch, counters
<1>1. ASSUME NEW p \in {Poller, Thread, Overseer}, NEW x, pc' = [pc EXCEPT ![p] = x],
             x \in PointsOf(p), x # "signal", pc[p] # "unborn"
      PROVE  PointsRight' /\ pc' \in [Procs -> Points]
  BY <1>0, <1>1, MovePlain, ProcsIs
<1>2. /\ "push" \in PointsOf(Poller) /\ "free" \in PointsOf(Poller) /\ "push" \in PointsOf(Thread)
      /\ "pending" \in PointsOf(Overseer)
  BY PointsOfIs DEF PollerPoints, ThreadPoints, WatchPoints, AtPush, Locked
<1>3. CASE Fire(t)
  BY <1>1, <1>2, <1>3 DEF Fire, Goto
<1>4. CASE Call(t)
  BY <1>1, <1>2, <1>4 DEF Call, Goto
<1>5. CASE Settle
  BY <1>1, <1>2, <1>5 DEF Settle, Goto
<1>6. CASE Watch
  <2>1. pc' = [pc EXCEPT ![Overseer] = "pending"] \/ pc' = pc
    BY <1>6 DEF Watch, Goto
  <2>2. pc[Overseer] = "watch"
    BY <1>6 DEF Watch
  <2>3. CASE pc' = pc
    BY <1>0, <2>3 DEF PointsRight, Cars
  <2> QED
    BY <1>1, <1>2, <2>1, <2>2, <2>3
<1> QED
  BY <1>3, <1>4, <1>5, <1>6

(* The idle carriers are the sleepers; and the monitor thread hands on the *)
(* work of a carrier that does not switch.                                 *)
LEMMA IdleIs ==
  ASSUME IInv, nidle > 0
  PROVE  Sleepers # {}
BY FS_EmptySet DEF IInv, CountsRight

LEMMA PointsBorn ==
  ASSUME IInv, StartWorker, UNCHANGED <<aim, sleeping>>
  PROVE  PointsRight' /\ pc' \in [Procs -> Points]
<1> USE DEF IInv
<1>0. /\ pc \in [Procs -> Points] /\ ncars \in Nat /\ ncars < MaxCarriers
      /\ pc' = [pc EXCEPT ![ncars + 1] = "sched"] /\ ncars' = ncars + 1
  BY CarsIs DEF Types, StartWorker, Goto
<1>1. PICK d \in Carriers : d = ncars + 1
  <2>1. ncars + 1 \in Carriers
    BY <1>0, SchedAssumption DEF Carriers
  <2> QED
    BY <2>1
<1>2. pc'[d] = "sched" /\ \A q \in Procs \ {d} : pc'[q] = pc[q]
  <2>1. pc' = [pc EXCEPT ![d] = "sched"] /\ d \in Procs
    BY <1>0, <1>1, ProcsIs
  <2> QED
    BY <1>0, <2>1
<1>3. d \in Procs /\ "sched" \in Points /\ Cars \subseteq Cars'
  BY <1>0, <1>1, ProcsIs DEF Points, Cars
<1>4. pc' \in [Procs -> Points]
  BY <1>0, <1>1, <1>3
<1>5. pc[d] = "unborn"
  BY <1>0, <1>1, ProcsIs DEF PointsRight
<1>6. ASSUME NEW q \in Procs, q # d PROVE AtRight(q)'
  <2>1. AtRight(q) /\ pc'[q] = pc[q]
    BY <1>2, <1>6, PointsEach
  <2>2. q \in Carriers => (q > ncars' <=> q > ncars)
    BY <1>0, <1>1, <1>6, ProcsIs
  <2> QED
    BY <1>0, <1>3, <2>1, <2>2 DEF AtRight, PointsOf
<1>7. AtRight(d)'
  <2>1. AtRight(d) /\ ~(d > ncars')
    BY <1>0, <1>1, <1>3, PointsEach
  <2> QED
    BY <1>0, <1>1, <1>2, <1>5, <2>1, CarrierPointsIs DEF AtRight
<1> QED
  BY <1>4, <1>6, <1>7, PointsEachNext

LEMMA PointsHandOn ==
  ASSUME IInv, NEW c \in Carriers, HandOnBlocked(c) \/ HandOnBusy(c) \/ Hire
  PROVE  PointsRight' /\ pc' \in [Procs -> Points]
<1> USE DEF IInv
<1>0. /\ pc \in [Procs -> Points] /\ aim \in [Procs -> Cars \cup {None}] /\ Overseer \in Procs
      /\ sleeping' = sleeping
  BY ProcsIs DEF Types, HandOnBlocked, HandOnBusy, Hire
<1>1. CASE nidle > 0 /\ (HandOnBlocked(c) \/ HandOnBusy(c))
  <2>1. /\ pc' = [pc EXCEPT ![Overseer] = "signal"] /\ aim' = [aim EXCEPT ![Overseer] = Min(Sleepers)]
        /\ ncars' = ncars /\ pc[Overseer] = "watch"
    BY <1>1 DEF HandOnBlocked, HandOnBusy, Goto, counters
  <2>2. Min(Sleepers) \in Cars
    BY <1>1, IdleIs, SleepersAre
  <2>3. aim'[Overseer] \in Cars /\ \A q \in Procs \ {Overseer} : aim'[q] = aim[q]
    BY <1>0, <2>1, <2>2
  <2>4. "signal" \in PointsOf(Overseer) /\ Overseer \notin Carriers
    BY PointsOfIs, ProcsIs DEF WatchPoints
  <2> QED
    BY <1>0, <2>1, <2>3, <2>4, MoveOne
<1>2. CASE StartWorker /\ aim' = aim
  BY <1>0, <1>2, PointsBorn
<1>3. CASE UNCHANGED <<pc, aim, ncars>>
  BY <1>0, <1>3 DEF PointsRight, Cars
<1> QED
  BY <1>1, <1>2, <1>3 DEF HandOnBlocked, HandOnBusy, Hire

LEMMA PointsNext == IInv /\ [Next]_vars => PointsRight' /\ pc' \in [Procs -> Points]
<1> SUFFICES ASSUME IInv, [Next]_vars PROVE PointsRight' /\ pc' \in [Procs -> Points]
  OBVIOUS
<1> USE DEF IInv
<1>1. ASSUME UNCHANGED vars \/ EndThread \/ \E c \in Carriers : Forget(c)
      PROVE  PointsRight' /\ pc' \in [Procs -> Points]
  <2>1. UNCHANGED <<pc, aim, ncars, sleeping>>
    BY <1>1 DEF vars, EndThread, Forget, counters
  <2> QED
    BY <2>1 DEF PointsRight, Cars, Types
<1>2. Root \in Tasks /\ TRUE \in BOOLEAN /\ 1 \in Carriers
  BY SchedAssumption, ProcsIs
<1> QED
  BY <1>1, <1>2, Steps, PointsTask, PointsFind, PointsSleep, PointsTest, PointsPush, PointsOther,
     PointsHandOn

LEMMA LookTypes == IInv /\ [Next]_vars => look' \in [Procs -> SUBSET Cars']
<1> SUFFICES ASSUME IInv, [Next]_vars PROVE look' \in [Procs -> SUBSET Cars']
  OBVIOUS
<1> USE DEF IInv
<1>0. look \in [Procs -> SUBSET Cars] /\ Cars \subseteq Cars'
  BY CarsNext DEF Types
<1>1. ASSUME NEW p \in Procs, NEW s \in SUBSET Cars, look' = [look EXCEPT ![p] = s]
      PROVE  look' \in [Procs -> SUBSET Cars']
  BY <1>0, <1>1
<1>2. ASSUME NEW c \in Carriers, Take(c) PROVE look' = look \/ look' = [look EXCEPT ![c] = Cars \ {c}]
  BY <1>2 DEF Take
<1>3. ASSUME NEW c \in Carriers, NEW v \in Carriers, StealQueue(c, v)
      PROVE  look' = look \/ look' = [look EXCEPT ![c] = look[c] \ {v}]
  BY <1>3 DEF StealQueue
<1>4. ASSUME NEW p \in Procs, ReadPending(p) \/ ReadQueue(p)
      PROVE  \/ look' = look \/ look' = [look EXCEPT ![p] = Cars] \/ look' = [look EXCEPT ![p] = {}]
             \/ look' = [look EXCEPT ![p] = look[p] \ {Min(look[p])}]
  BY <1>4 DEF ReadPending, ReadQueue
<1>5. \A p \in Procs : \A x : look[p] \ {x} \in SUBSET Cars
  BY <1>0
<1>6. \A x : Cars \ {x} \in SUBSET Cars
  OBVIOUS
<1> QED
  BY <1>0, <1>1, <1>2, <1>3, <1>4, <1>5, <1>6, LookChanges, ProcsIs

LEMMA AimTypes == IInv /\ [Next]_vars => aim' \in [Procs -> Cars' \cup {None}]
<1> SUFFICES ASSUME IInv, [Next]_vars PROVE aim' \in [Procs -> Cars' \cup {None}]
  OBVIOUS
<1> USE DEF IInv
<1>0. aim \in [Procs -> Cars \cup {None}] /\ Cars \subseteq Cars'
  BY CarsNext DEF Types
<1>1. ASSUME NEW p \in Procs, NEW v \in Cars \cup {None}, aim' = [aim EXCEPT ![p] = v]
      PROVE  aim' \in [Procs -> Cars' \cup {None}]
  BY <1>0, <1>1
<1>2. ASSUME NEW p \in Procs, PickSleeper(p)
      PROVE  aim' = aim \/ (Min(Sleepers) \in Cars /\ aim' = [aim EXCEPT ![p] = Min(Sleepers)])
  BY <1>2, SleepersAre DEF PickSleeper
<1>3. ASSUME NEW p \in Procs, Signal(p) PROVE aim' = [aim EXCEPT ![p] = None]
  BY <1>3 DEF Signal
<1>4. ASSUME NEW c \in Carriers, HandOnBlocked(c) \/ HandOnBusy(c)
      PROVE  aim' = aim \/ (Min(Sleepers) \in Cars /\ aim' = [aim EXCEPT ![Overseer] = Min(Sleepers)])
  BY <1>4, SleepersAre, IdleIs DEF HandOnBlocked, HandOnBusy
<1> QED
  BY <1>0, <1>1, <1>2, <1>3, <1>4, AimChanges, ProcsIs

LEMMA TypesNext == IInv /\ [Next]_vars => Types'
BY StateTypes, HomeTypes, FlagTypes, QueueTypes, SlotTypes, HandTypes, StackTypes, SpinTypes,
   NumberTypes, PointsNext, LookTypes, AimTypes, CarsNext DEF Types, IInv

-----------------------------------------------------------------------------
(* The small steps touch no task, no queue, no stack and no hand: they only *)
(* move a thread on, as Drift says.                                        *)
Drift(p) ==
  \/ pc'[p] = pc[p]
  \/ p \in Carriers /\ pc[p] \in {"ask", "pick", "signal"} /\ pc'[p] \in {"pick", "signal", Back(p)}
  \/ p \in Carriers /\ pc[p] \in AtSleep /\ pc'[p] \in AtSleep \cup {"sched"}
  \/ p \in Carriers /\ pc[p] \in {"steal", "laststeal"} /\ cur[p] = None
       /\ pc'[p] \in {"sched", "last"} \cup AtSleep
  \/ p \in Carriers /\ pc[p] = "found" /\ cur[p] = None /\ pc'[p] = "go"
  \/ p \notin Carriers /\ pc[p] # "push" /\ pc'[p] # "push"
       /\ (p = Poller => ((pc[p] \in {"ask", "pick", "signal"} /\ pc'[p] \in {"pick", "signal", "settle"})
                            \/ Settle))

SmallStep ==
  UNCHANGED <<taskVars, queues, stacks, hand, ncars>> /\ \A p \in Procs : Drift(p)

LEMMA DriftOne ==
  ASSUME Types, NEW p \in Procs, NEW x, pc' = [pc EXCEPT ![p] = x], Drift(p)
  PROVE  \A q \in Procs : Drift(q)
BY DEF Drift, Types

LEMMA SmallPush ==
  ASSUME IInv, NEW p \in Procs, AskSpinners(p) \/ PickSleeper(p) \/ Signal(p)
  PROVE  SmallStep
<1> USE DEF IInv
<1>0. pc \in [Procs -> Points] /\ pc' \in [Procs -> Points]
  BY PointsPush DEF Types, Pushing
<1>1. UNCHANGED <<taskVars, queues, stacks, hand, ncars>> /\ pc[p] \in {"ask", "pick", "signal"}
  BY DEF AskSpinners, PickSleeper, Signal, counters
<1>2. ASSUME pc'[p] \in {"pick", "signal", Back(p)} PROVE Drift(p)
  <2>1. CASE p \in Carriers
    BY <1>1, <1>2, <2>1 DEF Drift
  <2>2. CASE p \notin Carriers
    <3>1. pc[p] # "push" /\ pc'[p] # "push"
      BY <1>1, <1>2, BackPoint
    <3> QED
      BY <1>1, <1>2, <2>2, <3>1, BackIs DEF Drift
  <2> QED
    BY <2>1, <2>2
<1>3. CASE AskSpinners(p) \/ PickSleeper(p)
  <2>1. \E x \in {"pick", "signal", Back(p)} : pc' = [pc EXCEPT ![p] = x]
    BY <1>3 DEF AskSpinners, PickSleeper, Goto
  <2> QED
    BY <1>0, <1>1, <1>2, <2>1, DriftOne DEF SmallStep
<1>4. CASE Signal(p)
  <2>1. aim[p] \in Carriers
    BY <1>4, CarsIs DEF Signal, PointsRight
  <2>2. CASE ~sleeping[aim[p]]
    <3>1. pc' = [pc EXCEPT ![p] = Back(p)]
      BY <1>4, <2>2 DEF Signal
    <3> QED
      BY <1>0, <1>1, <1>2, <3>1, DriftOne DEF SmallStep
  <2>3. CASE sleeping[aim[p]]
    <3>1. PICK v \in Carriers : v = aim[p]
      BY <2>1
    <3>2. pc' = [pc EXCEPT ![p] = Back(p), ![v] = "woken"]
      BY <1>4, <2>3, <3>1 DEF Signal
    <3>3. pc[v] \in AtSleep /\ v # p /\ v \in Procs
      BY <1>1, <2>3, <3>1, CarrierPointsIs, ProcsIs DEF PointsRight
    <3>4. pc'[p] = Back(p) /\ pc'[v] = "woken" /\ \A q \in Procs \ {p, v} : pc'[q] = pc[q]
      BY <1>0, <3>2, <3>3
    <3>5. Drift(v)
      BY <3>3, <3>4, CarrierPointsIs DEF Drift
    <3>6. \A q \in Procs \ {p, v} : Drift(q)
      BY <3>4 DEF Drift
    <3>7. Drift(p)
      BY <1>2, <3>4
    <3> QED
      BY <1>1, <3>5, <3>6, <3>7 DEF SmallStep
  <2> QED
    BY <2>2, <2>3
<1> QED
  BY <1>3, <1>4

LEMMA SmallTest ==
  ASSUME IInv, NEW p \in Procs, Testing(p)
  PROVE  SmallStep
<1> USE DEF IInv
<1>0. /\ pc \in [Procs -> Points] /\ pc' \in [Procs -> Points] /\ PointsRight'
  BY PointsTest DEF Types
<1>1. UNCHANGED <<taskVars, queues, stacks, hand, ncars>> /\ pc[p] \in Locked
  BY DEF Testing, ReadPending, ReadIdle, ReadQueue, AllQuiet, counters, Locked
<1>2. p \in Carriers \/ p = Overseer
  BY <1>1, PointsOfIs DEF PointsRight, PollerPoints, ThreadPoints, AtPush, Locked
<1>3. \E x : pc' = [pc EXCEPT ![p] = x]
  <2>1. pc = [pc EXCEPT ![p] = pc[p]]
    BY <1>0
  <2> QED
    BY <2>1 DEF Testing, ReadPending, ReadIdle, ReadQueue, AllQuiet, Noise, Goto
<1>4. sleeping' = sleeping
  BY DEF Testing, ReadPending, ReadIdle, ReadQueue, AllQuiet
<1>5. CASE p \in Carriers
  <2>1. pc[p] \in AtSleep /\ pc'[p] \in AtSleep
    BY <1>0, <1>1, <1>4, <1>5, CarrierPointsIs DEF PointsRight, Locked
  <2> QED
    BY <1>1, <1>3, <1>5, <2>1, DriftOne DEF SmallStep, Drift
<1>6. CASE p = Overseer
  <2>1. pc[p] # "push" /\ pc'[p] # "push"
    BY <1>0, <1>6 DEF PointsRight, WatchPoints, Locked
  <2>2. Drift(p)
    BY <1>6, <2>1, ProcsIs DEF Drift
  <2> QED
    BY <1>1, <1>3, <2>2, DriftOne DEF SmallStep
<1> QED
  BY <1>2, <1>5, <1>6

LEMMA SmallIdle ==
  ASSUME IInv, NEW c \in Carriers,
         \/ Spin(c) \/ GiveUp(c) \/ Sleep(c) \/ Wake(c) \/ WaitStack(c) \/ Forget(c)
         \/ HandOnBusy(c) \/ Settle \/ EndThread \/ Watch \/ UNCHANGED vars
  PROVE  SmallStep
<1> USE DEF IInv
<1>0. pc \in [Procs -> Points] /\ c \in Procs
  BY ProcsIs DEF Types
<1>1. UNCHANGED <<taskVars, queues, stacks, hand, ncars>>
  BY DEF Spin, GiveUp, Sleep, Wake, WaitStack, Forget, HandOnBusy, Settle, EndThread, Watch, vars, counters
<1>2. CASE Spin(c) \/ GiveUp(c)
  <2>1. /\ pc[c] = "steal" /\ cur[c] = None
        /\ \E x \in {"sched", "last"} : pc' = [pc EXCEPT ![c] = x]
    BY <1>2 DEF Spin, GiveUp, Goto
  <2> QED
    BY <1>0, <1>1, <2>1, DriftOne DEF SmallStep, Drift
<1>3. CASE Sleep(c)
  <2>1. pc[c] = "laststeal" /\ \E x \in {"sched", "pending"} : pc' = [pc EXCEPT ![c] = x]
    BY <1>3 DEF Sleep, Goto
  <2>2. cur[c] = None
    BY <2>1 DEF StacksRight, AtIdle
  <2> QED
    BY <1>0, <1>1, <2>1, <2>2, DriftOne, CarrierPointsIs DEF SmallStep, Drift
<1>4. CASE Wake(c)
  <2>1. pc[c] = "woken" /\ pc' = [pc EXCEPT ![c] = "sched"]
    BY <1>4 DEF Wake, Goto
  <2> QED
    BY <1>0, <1>1, <2>1, DriftOne, CarrierPointsIs DEF SmallStep, Drift
<1>5. CASE WaitStack(c)
  <2>1. pc[c] = "found" /\ cur[c] = None /\ pc' = [pc EXCEPT ![c] = "go"]
    BY <1>5 DEF WaitStack, Goto
  <2> QED
    BY <1>0, <1>1, <2>1, DriftOne DEF SmallStep, Drift
<1>6. CASE HandOnBusy(c) \/ Watch
  <2>1. pc[Overseer] = "watch" /\ (pc' = pc \/ \E x \in {"signal", "pending"} : pc' = [pc EXCEPT ![Overseer] = x])
    BY <1>6 DEF HandOnBusy, Watch, Goto
  <2>2. CASE pc' = pc
    BY <1>1, <2>2 DEF SmallStep, Drift
  <2>3. CASE pc' # pc
    <3>1. PICK x \in {"signal", "pending"} : pc' = [pc EXCEPT ![Overseer] = x]
      BY <2>1, <2>3
    <3>2. pc'[Overseer] = x
      BY <1>0, <3>1, ProcsIs
    <3>3. Drift(Overseer)
      BY <2>1, <3>2, ProcsIs DEF Drift
    <3> QED
      BY <1>1, <3>1, <3>3, DriftOne, ProcsIs DEF SmallStep
  <2> QED
    BY <2>2, <2>3
<1>7. CASE Settle
  <2>1. pc[Poller] = "settle" /\ pc' = [pc EXCEPT ![Poller] = "free"]
    BY <1>7 DEF Settle, Goto
  <2>2. pc'[Poller] = "free"
    BY <1>0, <2>1, ProcsIs
  <2>3. Drift(Poller)
    BY <1>7, <2>1, <2>2, ProcsIs DEF Drift
  <2> QED
    BY <1>1, <2>1, <2>3, DriftOne, ProcsIs DEF SmallStep
<1>8. CASE Forget(c) \/ EndThread \/ UNCHANGED vars
  <2>1. pc' = pc
    BY <1>8 DEF Forget, EndThread, vars
  <2> QED
    BY <1>1, <2>1 DEF SmallStep, Drift
<1> QED
  BY <1>2, <1>3, <1>4, <1>5, <1>6, <1>7, <1>8

(* Every step is small, or one of these. *)
LEMMA BigSteps ==
  ASSUME IInv, [Next]_vars
  PROVE  \/ SmallStep
         \/ \E c \in Carriers, t \in Tasks : Ready(c, t)
         \/ \E c \in Carriers, held \in BOOLEAN : Wait(c, held) \/ Poll(c, held) \/ Yield(c, held)
         \/ \E c \in Carriers :
              \/ End(c) \/ Take(c) \/ Chain(c) \/ ToIdle(c) \/ Go(c) \/ PutBack(c) \/ After(c)
              \/ HandOnBlocked(c) \/ Hire
         \/ \E c, v \in Carriers : StealSlot(c, v) \/ StealQueue(c, v)
         \/ \E p \in Procs : Push(p)
         \/ \E t \in Tasks : Fire(t) \/ Call(t)
<1>1. 1 \in Carriers
  BY ProcsIs
<1> QED
  BY <1>1, Steps, SmallPush, SmallTest, SmallIdle DEF Pushing

-----------------------------------------------------------------------------
(* What a thread has in hand fits where it is. *)
LEMMA HandOne ==
  ASSUME Types, HandsRight, NEW p \in Procs, NEW x, NEW s,
         pc' = [pc EXCEPT ![p] = x], hand' = [hand EXCEPT ![p] = s],
         \/ x \in {"push", "found", "go"} /\ Len(s) = 1
         \/ x = "chain" /\ Len(s) > 1
         \/ x \notin {"push", "found", "go", "chain"} /\ s = <<>>
  PROVE  HandsRight'
<1>0. pc \in [Procs -> Points] /\ hand \in [Procs -> Seq(Tasks)]
  BY DEF Types
<1>1. pc'[p] = x /\ hand'[p] = s /\ \A q \in Procs \ {p} : pc'[q] = pc[q] /\ hand'[q] = hand[q]
  BY <1>0
<1> QED
  BY <1>1 DEF HandsRight

LEMMA OneLong == \A t : Len(<<t>>) = 1
OBVIOUS

LEMMA HandsSmall ==
  ASSUME IInv, PointsRight', SmallStep
  PROVE  HandsRight'
<1> USE DEF IInv
<1>1. hand' = hand
  BY DEF SmallStep
<1>2. ASSUME NEW p \in Procs
      PROVE  \/ pc'[p] = pc[p]
             \/ (pc[p] = "found" /\ pc'[p] = "go")
             \/ (pc[p] \notin {"push", "found", "go", "chain"} /\ pc'[p] \notin {"push", "found", "go", "chain"})
  <2>1. Drift(p)
    BY DEF SmallStep
  <2>2. Back(p) \notin {"push", "found", "go", "chain"}
    BY BackPoint
  <2>3. CASE p \in Carriers
    BY <2>1, <2>2, <2>3, CarrierPointsIs DEF Drift
  <2>4. CASE p \notin Carriers /\ pc'[p] # pc[p]
    <3>1. pc[p] # "push" /\ pc'[p] # "push"
      BY <2>1, <2>4 DEF Drift
    <3>2. pc[p] \notin {"found", "go", "chain"}
      BY <2>4, PointsOfIs DEF PointsRight, PollerPoints, ThreadPoints, WatchPoints, AtPush, Locked
    <3>3. pc'[p] \notin {"found", "go", "chain"}
      BY <2>4, PointsOfIs DEF PointsRight, PollerPoints, ThreadPoints, WatchPoints, AtPush, Locked
    <3> QED
      BY <3>1, <3>2, <3>3
  <2> QED
    BY <2>3, <2>4
<1> QED
  BY <1>1, <1>2 DEF HandsRight

LEMMA HandsNext == IInv /\ [Next]_vars => HandsRight'
<1> SUFFICES ASSUME IInv, [Next]_vars PROVE HandsRight'
  OBVIOUS
<1> USE DEF IInv
<1> DEFINE holding == {"push", "found", "go", "chain"}
<1>0. /\ pc \in [Procs -> Points] /\ hand \in [Procs -> Seq(Tasks)] /\ PointsRight'
      /\ \A c \in Carriers : c \in Procs
  BY PointsNext, ProcsIs DEF Types
<1>1. ASSUME NEW p \in Procs, NEW x, pc' = [pc EXCEPT ![p] = x], hand' = hand,
             pc[p] \notin holding, x \notin holding
      PROVE  HandsRight'
  <2>1. hand' = [hand EXCEPT ![p] = <<>>]
    BY <1>0, <1>1, HandIs
  <2> QED
    BY <1>1, <2>1, HandOne
<1>2. CASE SmallStep
  BY <1>0, <1>2, HandsSmall
<1>3. ASSUME NEW c \in Carriers, NEW t \in Tasks, Ready(c, t) PROVE HandsRight'
  <2>1. \/ hand' = hand /\ pc' = pc
        \/ \E s : hand' = [hand EXCEPT ![c] = <<s>>] /\ pc' = [pc EXCEPT ![c] = "push"]
    BY <1>3 DEF Ready, Goto
  <2>2. CASE hand' = hand /\ pc' = pc
    BY <2>2 DEF HandsRight
  <2> QED
    BY <1>0, <2>1, <2>2, HandOne, OneLong
<1>4. ASSUME NEW c \in Carriers, NEW held \in BOOLEAN, Wait(c, held) \/ Poll(c, held) \/ End(c)
      PROVE  HandsRight'
  <2>1. hand' = hand /\ pc[c] = "user" /\ pc' = [pc EXCEPT ![c] = "sched"]
    BY <1>4 DEF Wait, Poll, End, InTask, Goto
  <2> QED
    BY <1>0, <1>1, <2>1
<1>5. ASSUME NEW c \in Carriers, NEW held \in BOOLEAN, Yield(c, held) PROVE HandsRight'
  <2>1. hand' = [hand EXCEPT ![c] = <<cur[c]>>] /\ pc' = [pc EXCEPT ![c] = "push"]
    BY <1>5 DEF Yield, Goto
  <2> QED
    BY <1>0, <2>1, HandOne, OneLong
<1>6. ASSUME NEW c \in Carriers, Take(c) PROVE HandsRight'
  <2>1. \/ (pc[c] \in {"sched", "last"} /\ hand' = hand /\ \E x \in {"steal", "laststeal"} : pc' = [pc EXCEPT ![c] = x])
        \/ \E t : hand' = [hand EXCEPT ![c] = <<t>>] /\ pc' = [pc EXCEPT ![c] = "found"]
    BY <1>6 DEF Take, Goto
  <2>2. CASE pc[c] \in {"sched", "last"} /\ hand' = hand /\ \E x \in {"steal", "laststeal"} : pc' = [pc EXCEPT ![c] = x]
    BY <1>0, <1>1, <2>2
  <2> QED
    BY <1>0, <2>1, <2>2, HandOne, OneLong
<1>7. ASSUME NEW c \in Carriers, NEW v \in Carriers, StealSlot(c, v) \/ Chain(c) PROVE HandsRight'
  <2>1. \E t : hand' = [hand EXCEPT ![c] = <<t>>] /\ pc' = [pc EXCEPT ![c] = "found"]
    BY <1>7 DEF StealSlot, Chain, Goto
  <2> QED
    BY <1>0, <2>1, HandOne, OneLong
<1>8. ASSUME NEW c \in Carriers, NEW v \in Carriers, StealQueue(c, v) PROVE HandsRight'
  <2>1. CASE Loot(v) = <<>>
    BY <1>8, <2>1 DEF StealQueue, HandsRight
  <2>2. CASE Loot(v) # <<>>
    <3>1. /\ hand' = [hand EXCEPT ![c] = Loot(v)]
          /\ pc' = [pc EXCEPT ![c] = IF Len(Loot(v)) > 1 THEN "chain" ELSE "found"]
      BY <1>8, <2>2 DEF StealQueue, Goto
    <3>2. PICK n \in Nat \ {0} : n = Len(Loot(v))
      BY <2>2, SplitIs, ElemsTail
    <3>3. n > 1 \/ n = 1
      OBVIOUS
    <3>4. Len(Loot(v)) > 1 \/ Len(Loot(v)) = 1
      BY <3>2, <3>3, Zenon
    <3> QED
      BY <1>0, <3>1, <3>4, HandOne
  <2> QED
    BY <2>1, <2>2
<1>9. ASSUME NEW c \in Carriers, ToIdle(c) \/ After(c) PROVE HandsRight'
  <2>1. hand' = hand /\ pc[c] \notin holding /\ \E x \in {"after", "sched", "user"} : pc' = [pc EXCEPT ![c] = x]
    BY <1>9 DEF ToIdle, After, ToG0, Goto
  <2> QED
    BY <1>0, <1>1, <2>1
<1>10. ASSUME NEW c \in Carriers, Go(c) \/ PutBack(c) PROVE HandsRight'
  <2>1. hand' = [hand EXCEPT ![c] = <<>>] /\ \E x \in {"after", "user"} : pc' = [pc EXCEPT ![c] = x]
    BY <1>10 DEF Go, PutBack, ToG0, Goto
  <2> QED
    BY <1>0, <2>1, HandOne
<1>11. ASSUME NEW p \in Procs, Push(p) PROVE HandsRight'
  <2>1. hand' = [hand EXCEPT ![p] = <<>>] /\ pc[p] = "push"
    BY <1>11 DEF Push
  <2>2. Back(p) \notin holding
    BY BackPoint
  <2>3. CASE ~sleeping[home[hand[p][1]]]
    <3>1. \E x \in {Back(p), "ask"} : pc' = [pc EXCEPT ![p] = x]
      BY <1>11, <2>3 DEF Push
    <3> QED
      BY <2>1, <2>2, <3>1, HandOne
  <2>4. CASE sleeping[home[hand[p][1]]]
    <3>1. hand[p][1] \in Tasks
      BY <2>1, HandIs
    <3>2. PICK v \in Carriers : v = home[hand[p][1]]
      BY <3>1, CarsIs DEF Types
    <3>3. pc' = [pc EXCEPT ![p] = Back(p), ![v] = "woken"]
      BY <1>11, <2>4, <3>2 DEF Push
    <3>4. pc[v] \in AtSleep /\ p # v
      BY <2>1, <2>4, <3>2, CarrierPointsIs DEF PointsRight
    <3>5. /\ pc'[p] = Back(p) /\ pc'[v] = "woken" /\ \A q \in Procs \ {p, v} : pc'[q] = pc[q]
          /\ hand'[p] = <<>> /\ \A q \in Procs \ {p} : hand'[q] = hand[q]
      BY <1>0, <2>1, <3>3, <3>4
    <3>6. hand[v] = <<>>
      BY <1>0, <3>4, HandIs, CarrierPointsIs
    <3> QED
      BY <1>0, <2>2, <3>4, <3>5, <3>6 DEF HandsRight
  <2> QED
    BY <2>3, <2>4
<1>12. ASSUME NEW t \in Tasks, Fire(t) \/ Call(t) PROVE HandsRight'
  <2>1. \E p \in Procs : hand' = [hand EXCEPT ![p] = <<t>>] /\ pc' = [pc EXCEPT ![p] = "push"]
    BY <1>12, ProcsIs DEF Fire, Call, Goto
  <2> QED
    BY <2>1, HandOne, OneLong
<1>13. ASSUME NEW c \in Carriers, HandOnBlocked(c) \/ Hire PROVE HandsRight'
  <2>1. hand' = hand
    BY <1>13 DEF HandOnBlocked, Hire
  <2>2. \/ pc' = pc
        \/ (pc[Overseer] = "watch" /\ pc' = [pc EXCEPT ![Overseer] = "signal"])
        \/ (ncars < MaxCarriers /\ pc' = [pc EXCEPT ![ncars + 1] = "sched"])
    BY <1>13 DEF HandOnBlocked, Hire, StartWorker, Goto
  <2>3. CASE pc' = pc
    BY <2>1, <2>3 DEF HandsRight
  <2>4. ASSUME ncars < MaxCarriers PROVE ncars + 1 \in Carriers /\ pc[ncars + 1] = "unborn"
    <3>1. ncars + 1 \in Carriers /\ ncars + 1 > ncars
      BY <2>4, CarsIs, SchedAssumption DEF Carriers
    <3> QED
      BY <3>1 DEF PointsRight
  <2> QED
    BY <1>0, <1>1, <2>1, <2>2, <2>3, <2>4, ProcsIs
<1> HIDE DEF holding
<1> QED
  BY <1>2, <1>3, <1>4, <1>5, <1>6, <1>7, <1>8, <1>9, <1>10, <1>11, <1>12, <1>13, BigSteps, ProcsIs

-----------------------------------------------------------------------------
(* The places of the tasks.  What a step leaves alone: the hands of the     *)
(* other threads, and the place, state and home of a task.                 *)
Aside(p) ==
  \A q \in Procs \ {p} : hand'[q] = hand[q] /\ (hand[q] # <<>> => pc'[q] = pc[q])
StillQ(t) ==
  \A c \in Carriers : (t \in Q(c)' <=> t \in Q(c)) /\ (runnext'[c] = t <=> runnext[c] = t)
StillT(t) == state'[t] = state[t] /\ home'[t] = home[t] /\ (Stays(t)' <=> Stays(t))

LEMMA QIs == \A c \in Carriers : Q(c) = Elems(rq[c]) /\ Q(c)' = Elems(rq'[c])
BY DEF Q, Elems

LEMMA HIs == \A p \in Procs : H(p) = Elems(hand[p]) /\ H(p)' = Elems(hand'[p])
BY DEF H, Elems

LEMMA ContainsIs == \A s, t : Contains(s, t) <=> t \in Elems(s)
BY DEF Contains, Elems

LEMMA AsideOne ==
  ASSUME Types, NEW p \in Procs, NEW x, pc' = [pc EXCEPT ![p] = x],
         hand' = hand \/ \E s : hand' = [hand EXCEPT ![p] = s]
  PROVE  Aside(p)
BY DEF Aside, Types

LEMMA SameQueues ==
  ASSUME UNCHANGED <<rq, runnext>>
  PROVE  \A t : StillQ(t)
BY DEF StillQ, Q

LEMMA SameTasks ==
  ASSUME UNCHANGED <<state, home, pinned>>
  PROVE  \A t : StillT(t)
BY DEF StillT, Stays

(* A task that p has not in hand before or after the step, and that is not *)
(* moved otherwise, stays in its place.                                    *)
LEMMA PlaceKept ==
  ASSUME NEW t \in Tasks, PlaceRight(t), NEW p \in Procs, Aside(p), t \notin H(p), t \notin H(p)',
         StillQ(t), StillT(t)
  PROVE  PlaceRight(t)'
<1>1. \A q \in Procs : t \in H(q)' <=> t \in H(q)
  BY DEF Aside, H
<1>2. \A q \in Procs : t \in H(q) => pc'[q] = pc[q] /\ hand'[q] = hand[q]
  <2> SUFFICES ASSUME NEW q \in Procs, t \in H(q) PROVE pc'[q] = pc[q] /\ hand'[q] = hand[q]
    OBVIOUS
  <2>1. hand[q] # <<>>
    BY DEF H
  <2> QED
    BY <2>1 DEF Aside
<1>3. \A c \in Carriers : OnlyQ(t, c) => OnlyQ(t, c)'
  BY <1>1 DEF StillQ, OnlyQ, NoS, NoH
<1>4. \A c \in Carriers : OnlyS(t, c) => OnlyS(t, c)'
  BY <1>1 DEF StillQ, OnlyS, NoQ, NoH
<1>5. \A q \in Procs : OnlyH(t, q) => OnlyH(t, q)'
  BY <1>1 DEF StillQ, OnlyH, NoQ, NoS
<1>6. Nowhere(t) => Nowhere(t)'
  BY <1>1 DEF StillQ, Nowhere, NoQ, NoS, NoH
<1>7. \A q \in Procs : OnlyH(t, q) /\ Fits(t, q) => Fits(t, q)'
  BY <1>2 DEF OnlyH, Fits, StillT
<1>8. CASE \E c \in Carriers : OnlyQ(t, c) /\ state[t] = "READY" /\ home[t] = c
  BY <1>3, <1>8 DEF PlaceRight, StillT
<1>9. CASE \E c \in Carriers : OnlyS(t, c) /\ state[t] = "READY" /\ home[t] = c /\ ~Stays(t)
  BY <1>4, <1>9 DEF PlaceRight, StillT
<1>10. CASE \E q \in Procs : OnlyH(t, q) /\ Fits(t, q)
  BY <1>5, <1>7, <1>10 DEF PlaceRight
<1>11. CASE Nowhere(t) /\ state[t] # "READY"
  BY <1>6, <1>11 DEF PlaceRight, StillT
<1> QED
  BY <1>8, <1>9, <1>10, <1>11 DEF PlaceRight

(* Where a task is, seen from one place. *)
LEMMA PlaceOf ==
  ASSUME NEW t \in Tasks, PlaceRight(t)
  PROVE  /\ \A c \in Carriers : t \in Q(c) => OnlyQ(t, c) /\ state[t] = "READY" /\ home[t] = c
         /\ \A c \in Carriers : runnext[c] = t => OnlyS(t, c) /\ state[t] = "READY" /\ home[t] = c /\ ~Stays(t)
         /\ \A p \in Procs : t \in H(p) => OnlyH(t, p) /\ Fits(t, p)
         /\ state[t] \in {"RUN", "DONE"} => Nowhere(t)
         /\ state[t] \in {"WAIT", "NEW", "POLL"} /\ NoH(t) => Nowhere(t)
<1> USE DEF OnlyQ, OnlyS, OnlyH, Nowhere, NoQ, NoS, NoH
<1>1. ASSUME NEW c \in Carriers, t \in Q(c) PROVE OnlyQ(t, c) /\ state[t] = "READY" /\ home[t] = c
  BY <1>1 DEF PlaceRight
<1>2. ASSUME NEW c \in Carriers, runnext[c] = t
      PROVE  OnlyS(t, c) /\ state[t] = "READY" /\ home[t] = c /\ ~Stays(t)
  BY <1>2 DEF PlaceRight
<1>3. ASSUME NEW p \in Procs, t \in H(p) PROVE OnlyH(t, p) /\ Fits(t, p)
  BY <1>3 DEF PlaceRight
<1>4. state[t] \in {"RUN", "DONE"} => Nowhere(t)
  <2>1. \A p \in Procs : Fits(t, p) => state[t] \in {"READY", "WAIT", "NEW", "POLL"}
    BY DEF Fits
  <2> QED
    BY <2>1 DEF PlaceRight
<1>5. state[t] \in {"WAIT", "NEW", "POLL"} /\ NoH(t) => Nowhere(t)
  BY DEF PlaceRight
<1> QED
  BY <1>1, <1>2, <1>3, <1>4, <1>5

LEMMA WakeableIs ==
  ASSUME IInv, NEW t \in Tasks, Wakeable(t)
  PROVE  Nowhere(t) /\ state[t] \in {"WAIT", "NEW"}
<1>1. NoH(t)
  BY ContainsIs, HIs DEF Wakeable, NoH
<1> QED
  BY <1>1, PlaceOf DEF IInv, PlacesRight, Wakeable

(* A task that is now in the hands of p, or in the slot or the queue of c, *)
(* or nowhere, and was moved from where it was.                            *)
LEMMA PlaceInHand ==
  ASSUME NEW t \in Tasks, NEW p \in Procs, t \in H(p)', \A q \in Procs \ {p} : t \notin H(q)',
         \A c \in Carriers : t \notin Q(c)' /\ runnext'[c] # t, Fits(t, p)'
  PROVE  PlaceRight(t)'
BY DEF PlaceRight, OnlyH, NoQ, NoS

LEMMA PlaceInSlot ==
  ASSUME NEW t \in Tasks, NEW c \in Carriers, runnext'[c] = t,
         \A d \in Carriers \ {c} : runnext'[d] # t, \A d \in Carriers : t \notin Q(d)',
         \A q \in Procs : t \notin H(q)', state'[t] = "READY", home'[t] = c, ~Stays(t)'
  PROVE  PlaceRight(t)'
BY DEF PlaceRight, OnlyS, NoQ, NoH

LEMMA PlaceInQueue ==
  ASSUME NEW t \in Tasks, NEW c \in Carriers, t \in Q(c)',
         \A d \in Carriers \ {c} : t \notin Q(d)', \A d \in Carriers : runnext'[d] # t,
         \A q \in Procs : t \notin H(q)', state'[t] = "READY", home'[t] = c
  PROVE  PlaceRight(t)'
BY DEF PlaceRight, OnlyQ, NoS, NoH

LEMMA PlaceNowhere ==
  ASSUME NEW t \in Tasks, \A c \in Carriers : t \notin Q(c)' /\ runnext'[c] # t,
         \A q \in Procs : t \notin H(q)', state'[t] # "READY"
  PROVE  PlaceRight(t)'
BY DEF PlaceRight, Nowhere, NoQ, NoS, NoH

AllPlaced == \A t \in Tasks : PlaceRight(t)

LEMMA PlacesSmall ==
  ASSUME IInv, SmallStep
  PROVE  AllPlaced'
<1> USE DEF IInv
<1>1. UNCHANGED <<taskVars, queues, hand>>
  BY DEF SmallStep
<1>2. ASSUME NEW p \in Procs, hand[p] # <<>> PROVE pc'[p] = pc[p] \/ (pc[p] = "found" /\ pc'[p] = "go")
  <2>1. pc[p] \in {"push", "found", "go", "chain"} /\ Drift(p)
    BY <1>2, HandIs DEF SmallStep
  <2>2. p \notin Carriers => pc[p] = "push"
    BY <2>1, PointsOfIs DEF PointsRight, PollerPoints, ThreadPoints, WatchPoints, AtPush, Locked
  <2> QED
    BY <2>1, <2>2, CarrierPointsIs DEF Drift
<1>3. ASSUME NEW t \in Tasks PROVE PlaceRight(t)'
  <2>1. PlaceRight(t) /\ StillQ(t) /\ StillT(t)
    BY <1>1, SameQueues, SameTasks DEF PlacesRight, taskVars, queues
  <2>2. \A p \in Procs : t \in H(p)' <=> t \in H(p)
    BY <1>1 DEF H
  <2>3. CASE \E p \in Procs : t \in H(p)
    <3>1. PICK p \in Procs : t \in H(p)
      BY <2>3
    <3>2. OnlyH(t, p) /\ Fits(t, p) /\ hand[p] # <<>> /\ hand'[p] = hand[p]
      BY <1>1, <2>1, <3>1, PlaceOf DEF H
    <3>3. Fits(t, p)'
      BY <1>2, <2>1, <3>2 DEF Fits, StillT
    <3>4. \A q \in Procs \ {p} : t \notin H(q)'
      BY <2>2, <3>2 DEF OnlyH
    <3>5. \A c \in Carriers : t \notin Q(c)' /\ runnext'[c] # t
      BY <2>1, <3>2 DEF OnlyH, NoQ, NoS, StillQ
    <3> QED
      BY <2>2, <3>1, <3>3, <3>4, <3>5, PlaceInHand
  <2>4. CASE \A p \in Procs : t \notin H(p)
    <3>1. \/ \E c \in Carriers : OnlyQ(t, c) /\ state[t] = "READY" /\ home[t] = c
          \/ \E c \in Carriers : OnlyS(t, c) /\ state[t] = "READY" /\ home[t] = c /\ ~Stays(t)
          \/ Nowhere(t) /\ state[t] # "READY"
      BY <2>1, <2>4 DEF PlaceRight, OnlyH
    <3>2. \A c \in Carriers : (OnlyQ(t, c) => OnlyQ(t, c)') /\ (OnlyS(t, c) => OnlyS(t, c)')
      BY <2>1, <2>2 DEF OnlyQ, OnlyS, NoQ, NoS, NoH, StillQ
    <3>3. Nowhere(t) => Nowhere(t)'
      BY <2>1, <2>2 DEF Nowhere, NoQ, NoS, NoH, StillQ
    <3> QED
      BY <2>1, <3>1, <3>2, <3>3 DEF PlaceRight, StillT
  <2> QED
    BY <2>3, <2>4
<1> QED
  BY <1>3 DEF AllPlaced

(* A task's code. *)
LEMMA PlacesReady ==
  ASSUME IInv, NEW c \in Carriers, NEW t \in Tasks, Ready(c, t)
  PROVE  AllPlaced'
<1> USE DEF IInv
<1>0. /\ c \in Procs /\ pc \in [Procs -> Points] /\ hand \in [Procs -> Seq(Tasks)]
      /\ state \in [Tasks -> States] /\ home \in [Tasks -> Cars] /\ runnext \in [Carriers -> Tasks \cup {None}]
  BY ProcsIs DEF Types
<1>1. /\ pc[c] = "user" /\ hand[c] = <<>> /\ H(c) = {} /\ Nowhere(t) /\ state[t] \in {"WAIT", "NEW"}
      /\ UNCHANGED <<rq, pinned>>
  BY <1>0, WakeableIs, HandIs DEF Ready, InTask
<1>2. \A u : (Stays(u)' <=> Stays(u)) /\ \A d \in Carriers : u \in Q(d)' <=> u \in Q(d)
  BY <1>1 DEF Stays, Q
<1>3. \A u \in Tasks : PlaceRight(u)
  BY DEF PlacesRight
<1>4. CASE Stays(t)
  <2>1. /\ hand' = [hand EXCEPT ![c] = <<t>>] /\ pc' = [pc EXCEPT ![c] = "push"]
        /\ UNCHANGED <<state, home, runnext>>
    BY <1>4 DEF Ready, Goto
  <2>2. Aside(c) /\ hand'[c] = <<t>> /\ H(c)' = {t} /\ pc'[c] = "push"
    BY <1>0, <2>1, AsideOne, HIs, ElemsOne
  <2>3. \A u : StillQ(u) /\ StillT(u)
    BY <1>1, <2>1, SameQueues, SameTasks
  <2>4. ASSUME NEW u \in Tasks, u # t PROVE PlaceRight(u)'
    BY <1>0, <1>1, <1>3, <2>2, <2>3, <2>4, PlaceKept
  <2>5. PlaceRight(t)'
    <3>1. \A q \in Procs \ {c} : t \notin H(q)'
      BY <1>1, <2>2 DEF Aside, H, Nowhere, NoH
    <3>2. \A d \in Carriers : t \notin Q(d)' /\ runnext'[d] # t
      BY <1>1, <2>3 DEF StillQ, Nowhere, NoQ, NoS
    <3>3. Fits(t, c)'
      BY <1>1, <1>2, <1>4, <2>1, <2>2 DEF Fits
    <3> QED
      BY <1>0, <2>2, <3>1, <3>2, <3>3, PlaceInHand
  <2> QED
    BY <2>4, <2>5 DEF AllPlaced
<1>5. CASE ~Stays(t)
  <2>1. /\ state' = [state EXCEPT ![t] = "READY"] /\ home' = [home EXCEPT ![t] = c]
        /\ runnext' = [runnext EXCEPT ![c] = t]
        /\ IF runnext[c] = None THEN UNCHANGED <<hand, pc>>
           ELSE hand' = [hand EXCEPT ![c] = <<runnext[c]>>] /\ pc' = [pc EXCEPT ![c] = "push"]
    BY <1>5 DEF Ready, Goto
  <2>2. /\ state'[t] = "READY" /\ home'[t] = c /\ runnext'[c] = t
        /\ \A u \in Tasks \ {t} : StillT(u) /\ \A d \in Carriers \ {c} : runnext'[d] = runnext[d]
    BY <1>0, <1>2, <2>1 DEF StillT
  <2>3. Aside(c)
    <3>1. pc = [pc EXCEPT ![c] = pc[c]]
      BY <1>0
    <3> QED
      BY <1>0, <2>1, <3>1, AsideOne
  <2>4. (runnext[c] = None => H(c)' = {}) /\ (runnext[c] # None => H(c)' = {runnext[c]})
    <3>1. runnext[c] = None => hand'[c] = <<>>
      BY <1>1, <2>1
    <3>2. runnext[c] # None => hand'[c] = <<runnext[c]>> /\ runnext[c] \in Tasks
      BY <1>0, <2>1, CurIs
    <3> QED
      BY <1>0, <3>1, <3>2, HIs, ElemsOne, ElemsNone
  <2>5. \A d \in Carriers \ {c} : runnext'[d] = runnext[d]
    BY <1>0, <2>1
  <2>6. PlaceRight(t)'
    <3>1. runnext[c] # t /\ \A q \in Procs : t \notin H(q)'
      <4>1. runnext[c] # t
        BY <1>1 DEF Nowhere, NoS
      <4>2. t \notin H(c)'
        BY <2>4, <4>1
      <4>3. \A q \in Procs \ {c} : t \notin H(q)'
        BY <1>1, <2>3 DEF Aside, H, Nowhere, NoH
      <4> QED
        BY <4>1, <4>2, <4>3
    <3>2. /\ \A d \in Carriers \ {c} : runnext'[d] # t
          /\ \A d \in Carriers : t \notin Q(d)'
      BY <1>1, <1>2, <2>5 DEF Nowhere, NoQ, NoS
    <3> QED
      BY <1>2, <1>5, <2>2, <3>1, <3>2, PlaceInSlot
  <2>7. ASSUME NEW u \in Tasks, u # t, u # runnext[c] PROVE PlaceRight(u)'
    <3>1. StillQ(u)
      BY <1>2, <2>2, <2>5, <2>7 DEF StillQ
    <3>2. u \notin H(c) /\ u \notin H(c)'
      BY <1>1, <2>4, <2>7
    <3> QED
      BY <1>0, <1>3, <2>2, <2>3, <2>7, <3>1, <3>2, PlaceKept
  <2>8. ASSUME NEW u \in Tasks, u # t, u = runnext[c] PROVE PlaceRight(u)'
    <3>1. OnlyS(u, c) /\ state[u] = "READY" /\ home[u] = c
      BY <1>3, <2>8, PlaceOf
    <3>2. runnext[c] # None
      BY <2>8, SchedAssumption
    <3>3. pc'[c] = "push" /\ u \in H(c)'
      BY <1>0, <2>1, <2>4, <2>8, <3>2
    <3>4. Fits(u, c)'
      BY <2>2, <2>8, <3>1, <3>3 DEF Fits, StillT
    <3>5. \A q \in Procs \ {c} : u \notin H(q)'
      BY <2>3, <3>1 DEF Aside, H, OnlyS, NoH
    <3>6. \A d \in Carriers : u \notin Q(d)' /\ runnext'[d] # u
      BY <1>2, <2>2, <2>5, <2>8, <3>1 DEF OnlyS, NoQ
    <3> QED
      BY <1>0, <3>3, <3>4, <3>5, <3>6, PlaceInHand
  <2> QED
    BY <2>6, <2>7, <2>8 DEF AllPlaced
<1> QED
  BY <1>4, <1>5

LEMMA PlacesTask ==
  ASSUME IInv, NEW c \in Carriers, NEW held \in BOOLEAN,
         Wait(c, held) \/ Poll(c, held) \/ Yield(c, held) \/ End(c)
  PROVE  AllPlaced'
<1> USE DEF IInv
<1>a. PICK t \in Tasks : t = cur[c]
  BY CurIs DEF Wait, Poll, Yield, End, InTask
<1>0. /\ c \in Procs /\ pc \in [Procs -> Points] /\ hand \in [Procs -> Seq(Tasks)]
      /\ state \in [Tasks -> States] /\ pinned \in [Tasks -> BOOLEAN]
  BY ProcsIs DEF Types
<1>1. /\ pc[c] = "user" /\ cur[c] # None /\ hand[c] = <<>> /\ H(c) = {}
      /\ UNCHANGED <<rq, runnext, home>>
  BY <1>0, HandIs DEF Wait, Poll, Yield, End, InTask, queues
<1>2. state[t] = "RUN" /\ home[t] = c
  BY <1>1, <1>a DEF StacksRight
<1>3. /\ \A u \in Tasks : PlaceRight(u)
      /\ Nowhere(t)
  BY <1>1, <1>2, PlaceOf DEF PlacesRight
<1>4. \A u : StillQ(u)
  BY <1>1, SameQueues
<1>5. \A u \in Tasks \ {t} : StillT(u)
  <2>1. /\ \E s \in States : state' = [state EXCEPT ![t] = s]
        /\ pinned' = pinned \/ pinned' = [pinned EXCEPT ![t] = held]
    BY <1>a DEF Wait, Poll, Yield, End, States
  <2> QED
    BY <1>0, <1>1, <2>1 DEF StillT, Stays
<1>6. Aside(c)
  <2>1. /\ pc' = [pc EXCEPT ![c] = "sched"] \/ pc' = [pc EXCEPT ![c] = "push"]
        /\ hand' = hand \/ \E s : hand' = [hand EXCEPT ![c] = s]
    BY DEF Wait, Poll, Yield, End, Goto
  <2> QED
    BY <1>0, <2>1, AsideOne
<1>7. \A q \in Procs \ {c} : t \notin H(q)'
  BY <1>3, <1>6 DEF Aside, H, Nowhere, NoH
<1>8. \A d \in Carriers : t \notin Q(d)' /\ runnext'[d] # t
  BY <1>3, <1>4 DEF StillQ, Nowhere, NoQ, NoS
<1>9. PlaceRight(t)' /\ \A u \in Tasks \ {t} : u \notin H(c)'
  <2>1. CASE Wait(c, held) \/ Poll(c, held) \/ End(c)
    <3>1. hand' = hand /\ \E s \in {"WAIT", "POLL", "DONE"} : state' = [state EXCEPT ![t] = s]
      BY <1>a, <2>1 DEF Wait, Poll, End
    <3>2. H(c)' = {} /\ state'[t] # "READY"
      BY <1>0, <1>1, <3>1 DEF H
    <3>3. \A q \in Procs : t \notin H(q)'
      BY <1>7, <3>2
    <3> QED
      BY <1>1, <1>8, <3>2, <3>3, PlaceNowhere
  <2>2. CASE Yield(c, held)
    <3>1. /\ hand' = [hand EXCEPT ![c] = <<t>>] /\ pc' = [pc EXCEPT ![c] = "push"]
          /\ state' = [state EXCEPT ![t] = "READY"]
      BY <1>a, <2>2 DEF Yield, Goto
    <3>2. hand'[c] = <<t>> /\ pc'[c] = "push" /\ state'[t] = "READY" /\ home'[t] = c
      BY <1>0, <1>1, <1>2, <3>1, ZenonT(60)
    <3>3. H(c)' = {t}
      BY ZenonT(60), <1>0, <1>1, <3>2, HIs, ElemsOne
    <3>4. Fits(t, c)'
      BY <3>2 DEF Fits
    <3> QED
      BY <1>0, <1>1, <1>7, <1>8, <3>3, <3>4, PlaceInHand
  <2> QED
    BY <2>1, <2>2
<1>10. ASSUME NEW u \in Tasks, u # t PROVE PlaceRight(u)'
  BY <1>0, <1>1, <1>3, <1>4, <1>5, <1>6, <1>9, <1>10, PlaceKept
<1> QED
  BY <1>9, <1>10 DEF AllPlaced

(* m9_rq_push. *)
LEMMA PushIs ==
  ASSUME IInv, NEW p \in Procs, Push(p)
  PROVE  \E t \in Tasks, c \in Carriers :
           /\ hand[p] = <<t>> /\ c = home[t] /\ H(p) = {t} /\ pc[p] = "push"
           /\ OnlyH(t, p) /\ Fits(t, p)
           /\ rq' = [rq EXCEPT ![c] = Append(rq[c], t)] /\ state' = [state EXCEPT ![t] = "READY"]
           /\ hand' = [hand EXCEPT ![p] = <<>>]
           /\ UNCHANGED <<home, pinned, runnext>>
           /\ \E x \in {Back(p), "ask"} :
                pc' = [pc EXCEPT ![p] = x]
                \/ (sleeping[c] /\ pc' = [pc EXCEPT ![p] = Back(p), ![c] = "woken"])
           /\ Aside(p)
<1> USE DEF IInv
<1>0. /\ pc \in [Procs -> Points] /\ hand \in [Procs -> Seq(Tasks)] /\ pc[p] = "push" /\ Len(hand[p]) = 1
  BY DEF Types, HandsRight, Push
<1>1. PICK t \in Tasks : t = hand[p][1]
  BY <1>0, HandIs
<1>2. hand[p] = <<t>> /\ H(p) = {t}
  <2>1. hand[p] \in Seq(Tasks)
    BY <1>0
  <2>2. hand[p] = <<t>>
    BY <1>0, <1>1, <2>1
  <2> QED
    BY <1>0, <1>1, <2>2, HandIs
<1>3. PICK c \in Carriers : c = home[t]
  BY CarsIs DEF Types
<1>4. OnlyH(t, p) /\ Fits(t, p)
  BY <1>2, PlaceOf DEF PlacesRight
<1>5. /\ rq' = [rq EXCEPT ![c] = Append(rq[c], t)] /\ state' = [state EXCEPT ![t] = "READY"]
      /\ hand' = [hand EXCEPT ![p] = <<>>] /\ UNCHANGED <<home, pinned, runnext>>
  BY <1>1, <1>3 DEF Push
<1>6. \E x \in {Back(p), "ask"} :
        pc' = [pc EXCEPT ![p] = x]
        \/ (sleeping[c] /\ pc' = [pc EXCEPT ![p] = Back(p), ![c] = "woken"])
  BY <1>1, <1>3 DEF Push
<1>7. Aside(p)
  <2>1. sleeping[c] => hand[c] = <<>> /\ c \in Procs
    BY HandIs, CarrierPointsIs, ProcsIs DEF PointsRight
  <2> QED
    BY <1>0, <1>5, <1>6, <2>1 DEF Aside
<1> QED
  BY <1>0, <1>2, <1>3, <1>4, <1>5, <1>6, <1>7

LEMMA PlacesPush ==
  ASSUME IInv, NEW p \in Procs, Push(p)
  PROVE  AllPlaced'
<1> USE DEF IInv
<1>0. /\ hand \in [Procs -> Seq(Tasks)] /\ rq \in [Carriers -> Seq(Tasks)] /\ state \in [Tasks -> States]
      /\ \A u \in Tasks : PlaceRight(u)
  BY DEF Types, PlacesRight
<1>1. PICK t \in Tasks, c \in Carriers :
           /\ hand[p] = <<t>> /\ c = home[t] /\ H(p) = {t}
           /\ OnlyH(t, p)
           /\ rq' = [rq EXCEPT ![c] = Append(rq[c], t)] /\ state' = [state EXCEPT ![t] = "READY"]
           /\ hand' = [hand EXCEPT ![p] = <<>>]
           /\ UNCHANGED <<home, pinned, runnext>> /\ Aside(p)
  BY PushIs
<1>2. Q(c)' = Q(c) \cup {t} /\ \A d \in Carriers \ {c} : Q(d)' = Q(d)
  <2>1. rq'[c] = Append(rq[c], t) /\ \A d \in Carriers \ {c} : rq'[d] = rq[d]
    BY <1>0, <1>1
  <2> QED
    BY <1>0, <2>1, QIs, ElemsAppend
<1>3. H(p)' = {} /\ state'[t] = "READY" /\ \A u \in Tasks \ {t} : StillT(u)
  <2>1. hand'[p] = <<>>
    BY <1>0, <1>1
  <2> QED
    BY <1>0, <1>1, <2>1, HIs, ElemsNone DEF StillT, Stays
<1>4. ASSUME NEW u \in Tasks, u # t PROVE PlaceRight(u)'
  <2>1. StillQ(u)
    BY <1>1, <1>2, <1>4 DEF StillQ
  <2> QED
    BY <1>0, <1>1, <1>3, <1>4, <2>1, PlaceKept
<1>5. PlaceRight(t)'
  <2>1. \A q \in Procs : t \notin H(q)'
    <3>1. \A q \in Procs \ {p} : t \notin H(q)'
      BY <1>1 DEF Aside, H, OnlyH
    <3> QED
      BY <1>3, <3>1
  <2>2. \A d \in Carriers \ {c} : t \notin Q(d)'
    BY <1>1, <1>2 DEF OnlyH, NoQ
  <2>3. \A d \in Carriers : runnext'[d] # t
    BY <1>1 DEF OnlyH, NoS
  <2>4. home'[t] = c /\ t \in Q(c)'
    BY <1>1, <1>2
  <2> QED
    BY <1>3, <2>1, <2>2, <2>3, <2>4, PlaceInQueue
<1> QED
  BY <1>4, <1>5 DEF AllPlaced

(* m9_task_sched takes from its slot or its queue. *)
LEMMA PlacesTake ==
  ASSUME IInv, NEW c \in Carriers, Take(c)
  PROVE  AllPlaced'
<1> USE DEF IInv
<1>0. /\ hand \in [Procs -> Seq(Tasks)] /\ rq \in [Carriers -> Seq(Tasks)] /\ c \in Procs
      /\ pc \in [Procs -> Points] /\ runnext \in [Carriers -> Tasks \cup {None}]
      /\ \A u \in Tasks : PlaceRight(u)
  BY ProcsIs DEF Types, PlacesRight
<1>1. hand[c] = <<>> /\ H(c) = {} /\ UNCHANGED <<state, home, pinned>> /\ \A u : StillT(u)
  <2>1. UNCHANGED <<state, home, pinned>> /\ pc[c] \in {"sched", "last"}
    BY DEF Take, taskVars
  <2> QED
    BY <1>0, <2>1, SameTasks, HandIs
<1>2. CASE hand' = hand
  <2>1. UNCHANGED <<rq, runnext>> /\ Aside(c)
    <3>1. UNCHANGED <<rq, runnext>> /\ \E x : pc' = [pc EXCEPT ![c] = x]
      <4>1. ASSUME NEW t, hand' = [hand EXCEPT ![c] = <<t>>] PROVE FALSE
        <5>1. hand'[c] = <<t>>
          BY <1>0, <4>1
        <5> QED
          BY <1>1, <1>2, <5>1
      <4> QED
        BY <4>1 DEF Take, Goto
    <3> QED
      BY <1>0, <1>2, <3>1, AsideOne
  <2>2. H(c)' = {}
    BY <1>1, <1>2 DEF H
  <2> QED
    BY <1>0, <1>1, <2>1, <2>2, SameQueues, PlaceKept DEF AllPlaced
<1>3. ASSUME NEW t \in Tasks, hand' = [hand EXCEPT ![c] = <<t>>], pc' = [pc EXCEPT ![c] = "found"],
             state[t] = "READY", home[t] = c,
             \A u \in Tasks \ {t} : StillQ(u),
             \A d \in Carriers : t \notin Q(d)' /\ runnext'[d] # t, NoH(t)
      PROVE  AllPlaced'
  <2>1. Aside(c) /\ hand'[c] = <<t>> /\ H(c)' = {t} /\ pc'[c] = "found"
    BY <1>0, <1>3, AsideOne, HIs, ElemsOne
  <2>2. ASSUME NEW u \in Tasks, u # t PROVE PlaceRight(u)'
    BY <1>0, <1>1, <1>3, <2>1, <2>2, PlaceKept
  <2>3. Fits(t, c)'
    BY <1>1, <1>3, <2>1 DEF Fits
  <2>4. \A q \in Procs \ {c} : t \notin H(q)'
    BY <1>3, <2>1 DEF Aside, H, NoH
  <2>5. PlaceRight(t)'
    BY <1>0, <1>3, <2>1, <2>3, <2>4, PlaceInHand
  <2> QED
    BY <2>2, <2>5 DEF AllPlaced
<1>4. CASE pc[c] = "sched" /\ runnext[c] # None
  <2>1. PICK t \in Tasks : t = runnext[c]
    BY <1>4, CurIs
  <2>2. /\ hand' = [hand EXCEPT ![c] = <<t>>] /\ runnext' = [runnext EXCEPT ![c] = None]
        /\ pc' = [pc EXCEPT ![c] = "found"] /\ rq' = rq
    BY <1>4, <2>1 DEF Take, Goto
  <2>3. OnlyS(t, c) /\ state[t] = "READY" /\ home[t] = c
    BY <1>0, <2>1, PlaceOf
  <2>4. runnext'[c] = None /\ \A d \in Carriers \ {c} : runnext'[d] = runnext[d]
    BY <1>0, <2>2
  <2>5. t # None /\ \A u \in Tasks : u # None
    BY SchedAssumption
  <2>6. \A u \in Tasks \ {t} : StillQ(u)
    BY <2>1, <2>2, <2>4, <2>5 DEF StillQ, Q
  <2>7. \A d \in Carriers : t \notin Q(d)' /\ runnext'[d] # t
    BY <2>2, <2>3, <2>4, <2>5 DEF OnlyS, NoQ, Q
  <2>8. NoH(t)
    BY <2>3 DEF OnlyS
  <2> QED
    BY <1>3, <2>2, <2>3, <2>6, <2>7, <2>8
<1>5. CASE ~(pc[c] = "sched" /\ runnext[c] # None) /\ rq[c] # <<>>
  <2>1. PICK t \in Tasks : t = Head(rq[c])
    BY <1>0, <1>5, ElemsTail
  <2>2. /\ hand' = [hand EXCEPT ![c] = <<t>>] /\ rq' = [rq EXCEPT ![c] = Tail(rq[c])]
        /\ pc' = [pc EXCEPT ![c] = "found"] /\ runnext' = runnext
    BY <1>5, <2>1 DEF Take, Goto
  <2>3. Q(c) = {t} \cup Q(c)' /\ t \notin Q(c)'
    <3>1. rq'[c] = Tail(rq[c])
      BY <1>0, <2>2
    <3>2. Differ(rq[c])
      BY DEF DifferRight
    <3>3. Q(c) = Elems(rq[c]) /\ Q(c)' = Elems(Tail(rq[c])) /\ rq[c] \in Seq(Tasks)
      BY <1>0, <3>1, QIs
    <3> QED
      BY <1>5, <2>1, <3>2, <3>3, ElemsTail
  <2>4. \A d \in Carriers \ {c} : Q(d)' = Q(d)
    <3>1. \A d \in Carriers \ {c} : rq'[d] = rq[d]
      BY <1>0, <2>2
    <3> QED
      BY <3>1, QIs
  <2>5. OnlyQ(t, c) /\ state[t] = "READY" /\ home[t] = c
    BY <1>0, <2>3, PlaceOf
  <2>6. \A u \in Tasks \ {t} : StillQ(u)
    BY <2>2, <2>3, <2>4 DEF StillQ
  <2>7. \A d \in Carriers : t \notin Q(d)' /\ runnext'[d] # t
    BY <2>2, <2>3, <2>4, <2>5 DEF OnlyQ, NoS
  <2>8. NoH(t)
    BY <2>5 DEF OnlyQ
  <2> QED
    BY <1>3, <2>2, <2>5, <2>6, <2>7, <2>8
<1>6. CASE ~(pc[c] = "sched" /\ runnext[c] # None) /\ rq[c] = <<>>
  <2>1. hand' = hand
    BY <1>6 DEF Take
  <2> QED
    BY <1>2, <2>1
<1> QED
  BY <1>4, <1>5, <1>6

(* A thief takes a slot, or a part of a queue. *)
LEMMA PlacesStealSlot ==
  ASSUME IInv, NEW c \in Carriers, NEW v \in Carriers, StealSlot(c, v)
  PROVE  AllPlaced'
<1> USE DEF IInv
<1>0. /\ hand \in [Procs -> Seq(Tasks)] /\ c \in Procs /\ home \in [Tasks -> Cars]
      /\ pc \in [Procs -> Points] /\ runnext \in [Carriers -> Tasks \cup {None}]
      /\ \A u \in Tasks : PlaceRight(u)
  BY ProcsIs DEF Types, PlacesRight
<1>1. PICK t \in Tasks : t = runnext[v]
  BY CurIs DEF StealSlot
<1>2. /\ hand' = [hand EXCEPT ![c] = <<t>>] /\ home' = [home EXCEPT ![t] = c]
      /\ runnext' = [runnext EXCEPT ![v] = None] /\ pc' = [pc EXCEPT ![c] = "found"]
      /\ UNCHANGED <<state, pinned, rq>> /\ pc[c] = "steal"
  BY <1>1 DEF StealSlot, Goto
<1>3. H(c) = {} /\ OnlyS(t, v) /\ state[t] = "READY"
  BY <1>0, <1>1, <1>2, HandIs, PlaceOf
<1>4. Aside(c) /\ hand'[c] = <<t>> /\ H(c)' = {t} /\ pc'[c] = "found"
  BY <1>0, <1>2, AsideOne, HIs, ElemsOne
<1>5. /\ runnext'[v] = None /\ \A d \in Carriers \ {v} : runnext'[d] = runnext[d]
      /\ t # None /\ \A u \in Tasks : u # None
  BY <1>0, <1>2, SchedAssumption
<1>6. home'[t] = c /\ \A u \in Tasks \ {t} : StillT(u)
  BY <1>0, <1>2 DEF StillT, Stays
<1>7. \A u \in Tasks \ {t} : StillQ(u)
  BY <1>1, <1>2, <1>5 DEF StillQ, Q
<1>8. ASSUME NEW u \in Tasks, u # t PROVE PlaceRight(u)'
  BY <1>0, <1>3, <1>4, <1>6, <1>7, <1>8, PlaceKept
<1>9. PlaceRight(t)'
  <2>1. Fits(t, c)'
    BY <1>2, <1>3, <1>4, <1>6 DEF Fits
  <2>2. \A q \in Procs \ {c} : t \notin H(q)'
    BY <1>3, <1>4 DEF Aside, H, NoH, OnlyS
  <2>3. \A d \in Carriers : t \notin Q(d)' /\ runnext'[d] # t
    BY <1>2, <1>3, <1>5 DEF OnlyS, NoQ, Q
  <2> QED
    BY <1>0, <1>4, <2>1, <2>2, <2>3, PlaceInHand
<1> QED
  BY <1>8, <1>9 DEF AllPlaced

LEMMA StealQueueIs ==
  ASSUME IInv, NEW c \in Carriers, NEW v \in Carriers, StealQueue(c, v), Loot(v) # <<>>
  PROVE  \E t \in Tasks :
           /\ t = Loot(v)[1] /\ t = Head(Loot(v)) /\ hand' = [hand EXCEPT ![c] = Loot(v)]
           /\ hand'[c] = Loot(v) /\ H(c)' = Elems(Loot(v)) /\ H(c) = {}
           /\ rq' = [rq EXCEPT ![v] = Left(v)] /\ home' = [home EXCEPT ![t] = c]
           /\ Q(v) = Q(v)' \cup H(c)' /\ Q(v)' \cap H(c)' = {} /\ \A d \in Carriers \ {v} : Q(d)' = Q(d)
           /\ pc' = [pc EXCEPT ![c] = IF Len(Loot(v)) > 1 THEN "chain" ELSE "found"]
           /\ \A u \in H(c)' : CanMove(u)
           /\ UNCHANGED <<state, pinned, runnext>> /\ Aside(c)
<1> USE DEF IInv
<1>0. /\ hand \in [Procs -> Seq(Tasks)] /\ rq \in [Carriers -> Seq(Tasks)] /\ c \in Procs
      /\ pc \in [Procs -> Points]
  BY ProcsIs DEF Types
<1>1. PICK t \in Tasks : t = Loot(v)[1] /\ t = Head(Loot(v))
  BY SplitIs, ElemsTail
<1>2. /\ hand' = [hand EXCEPT ![c] = Loot(v)] /\ rq' = [rq EXCEPT ![v] = Left(v)]
      /\ home' = [home EXCEPT ![t] = c]
      /\ pc' = [pc EXCEPT ![c] = IF Len(Loot(v)) > 1 THEN "chain" ELSE "found"]
      /\ UNCHANGED <<state, pinned, runnext>> /\ pc[c] \in {"steal", "laststeal"}
  BY <1>1 DEF StealQueue, Goto
<1>3. H(c)' = Elems(Loot(v)) /\ hand'[c] = Loot(v)
  <2>1. hand'[c] = Loot(v)
    BY <1>0, <1>2
  <2> QED
    BY <1>0, <2>1, HIs
<1>4. H(c) = {}
  BY <1>0, <1>2, HandIs
<1>5. Q(v)' = Elems(Left(v)) /\ Q(v) = Elems(rq[v]) /\ \A d \in Carriers \ {v} : Q(d)' = Q(d)
  <2>1. rq'[v] = Left(v) /\ \A d \in Carriers \ {v} : rq'[d] = rq[d]
    BY <1>0, <1>2
  <2> QED
    BY <2>1, QIs
<1>6. Differ(rq[v])
  BY DEF DifferRight
<1>7. Aside(c)
  BY <1>0, <1>2, AsideOne
<1>8. /\ Q(v) = Q(v)' \cup H(c)' /\ Q(v)' \cap H(c)' = {} /\ \A u \in H(c)' : CanMove(u)
  BY <1>3, <1>5, <1>6, SplitIs
<1> QED
  BY <1>1, <1>2, <1>3, <1>4, <1>5, <1>7, <1>8

LEMMA PlacesStealQueue ==
  ASSUME IInv, NEW c \in Carriers, NEW v \in Carriers, StealQueue(c, v)
  PROVE  AllPlaced'
<1> USE DEF IInv
<1>0. /\ hand \in [Procs -> Seq(Tasks)] /\ c \in Procs /\ home \in [Tasks -> Cars]
      /\ pc \in [Procs -> Points] /\ \A u \in Tasks : PlaceRight(u)
  BY ProcsIs DEF Types, PlacesRight
<1>1. CASE Loot(v) = <<>>
  <2>1. UNCHANGED <<state, home, pinned, rq, runnext, hand, pc>> /\ H(c) = {}
    BY <1>0, <1>1, HandIs DEF StealQueue
  <2>2. Aside(c) /\ H(c)' = {}
    BY <2>1 DEF Aside, H
  <2> QED
    BY <1>0, <2>1, <2>2, SameQueues, SameTasks, PlaceKept DEF AllPlaced
<1>2. CASE Loot(v) # <<>>
  <2>1. PICK t \in Tasks :
           /\ t = Loot(v)[1] /\ t = Head(Loot(v)) /\ hand'[c] = Loot(v) /\ H(c)' = Elems(Loot(v)) /\ H(c) = {}
           /\ home' = [home EXCEPT ![t] = c]
           /\ Q(v) = Q(v)' \cup H(c)' /\ Q(v)' \cap H(c)' = {} /\ \A d \in Carriers \ {v} : Q(d)' = Q(d)
           /\ pc' = [pc EXCEPT ![c] = IF Len(Loot(v)) > 1 THEN "chain" ELSE "found"]
           /\ \A u \in H(c)' : CanMove(u)
           /\ UNCHANGED <<state, pinned, runnext>> /\ Aside(c)
    BY <1>2, StealQueueIs
  <2>2. t \in H(c)' /\ home'[t] = c /\ \A u \in Tasks \ {t} : StillT(u)
    <3>1. t \in Elems(Loot(v))
      BY <1>2, <2>1, SplitIs, ElemsTail
    <3> QED
      BY <1>0, <2>1, <3>1 DEF StillT, Stays
  <2>3. ASSUME NEW u \in Tasks, u \notin H(c)' PROVE PlaceRight(u)'
    <3>1. StillQ(u)
      BY <2>1, <2>3 DEF StillQ
    <3>2. StillT(u)
      BY <2>2, <2>3
    <3> QED
      BY <1>0, <2>1, <2>3, <3>1, <3>2, PlaceKept
  <2>4. ASSUME NEW u \in Tasks, u \in H(c)' PROVE PlaceRight(u)'
    <3>1. OnlyQ(u, v) /\ state[u] = "READY"
      BY <1>0, <2>1, <2>4, PlaceOf
    <3>2. \A d \in Carriers : u \notin Q(d)' /\ runnext'[d] # u
      BY <2>1, <2>4, <3>1 DEF OnlyQ, NoS
    <3>3. \A q \in Procs \ {c} : u \notin H(q)'
      BY <2>1, <3>1 DEF Aside, H, NoH, OnlyQ
    <3>4. ~Stays(u)' /\ state'[u] = "READY"
      BY <2>1, <2>4, <3>1 DEF CanMove, Stays
    <3>5. Fits(u, c)'
      <4>1. CASE Len(Loot(v)) > 1
        <5>1. pc'[c] = "chain" /\ hand'[c][1] = t
          BY <1>0, <2>1, <4>1
        <5> QED
          BY <2>2, <3>4, <5>1 DEF Fits
      <4>2. CASE ~(Len(Loot(v)) > 1)
        <5>1. pc'[c] = "found"
          BY <1>0, <2>1, <4>2
        <5>2. Len(Loot(v)) = 1
          <6>1. PICK n \in Nat \ {0} : n = Len(Loot(v))
            BY <1>2, SplitIs, ElemsTail
          <6>2. ~(n > 1) => n = 1
            OBVIOUS
          <6> QED
            BY <4>2, <6>1, <6>2
        <5>3. u = t
          BY <2>1, <2>4, <5>2 DEF Elems
        <5> QED
          BY <2>2, <3>4, <5>1, <5>3 DEF Fits
      <4> QED
        BY <4>1, <4>2
    <3> QED
      BY <1>0, <2>4, <3>2, <3>3, <3>5, PlaceInHand
  <2> QED
    BY <2>3, <2>4 DEF AllPlaced
<1> QED
  BY <1>1, <1>2

(* The rest of the loot goes to the thief's own queue. *)
LEMMA ChainIs ==
  ASSUME IInv, NEW c \in Carriers, Chain(c)
  PROVE  \E t \in Tasks :
           /\ t = hand[c][1] /\ hand'[c] = <<t>> /\ H(c)' = {t} /\ pc'[c] = "found"
           /\ H(c) = {t} \cup Elems(Tail(hand[c])) /\ t \notin Elems(Tail(hand[c]))
           /\ Q(c)' = Q(c) \cup Elems(Tail(hand[c])) /\ \A d \in Carriers \ {c} : Q(d)' = Q(d)
           /\ rq' = [rq EXCEPT ![c] = rq[c] \o Tail(hand[c])]
           /\ \A u \in Tasks : home'[u] = IF u \in Elems(Tail(hand[c])) THEN c ELSE home[u]
           /\ UNCHANGED <<state, pinned, runnext>> /\ Aside(c)
<1> USE DEF IInv
<1>0. /\ hand \in [Procs -> Seq(Tasks)] /\ rq \in [Carriers -> Seq(Tasks)] /\ c \in Procs
      /\ pc \in [Procs -> Points] /\ hand[c] \in Seq(Tasks) /\ pc[c] = "chain" /\ hand[c] # <<>>
  BY ProcsIs, HandIs DEF Types, Chain
<1>1. PICK t \in Tasks : t = Head(hand[c]) /\ t = hand[c][1]
  BY <1>0, ElemsTail
<1>2. /\ rq' = [rq EXCEPT ![c] = rq[c] \o Tail(hand[c])]
      /\ home' = [u \in Tasks |-> IF Contains(Tail(hand[c]), u) THEN c ELSE home[u]]
      /\ hand' = [hand EXCEPT ![c] = <<t>>] /\ pc' = [pc EXCEPT ![c] = "found"]
      /\ UNCHANGED <<state, pinned, runnext>>
  BY <1>1 DEF Chain, Goto
<1>3. hand'[c] = <<t>> /\ pc'[c] = "found" /\ Aside(c) /\ H(c)' = {t}
  BY <1>0, <1>2, AsideOne, HIs, ElemsOne
<1>4. Differ(hand[c])
  BY <1>0 DEF DifferRight
<1>5. H(c) = {t} \cup Elems(Tail(hand[c])) /\ t \notin Elems(Tail(hand[c])) /\ Tail(hand[c]) \in Seq(Tasks)
  <2>1. H(c) = Elems(hand[c])
    BY <1>0, HIs
  <2> QED
    BY <1>0, <1>1, <1>4, <2>1, ElemsTail
<1>6. Q(c)' = Q(c) \cup Elems(Tail(hand[c])) /\ \A d \in Carriers \ {c} : Q(d)' = Q(d)
  <2>1. rq'[c] = rq[c] \o Tail(hand[c]) /\ \A d \in Carriers \ {c} : rq'[d] = rq[d]
    BY <1>0, <1>2
  <2>2. Q(c) = Elems(rq[c]) /\ Q(c)' = Elems(rq'[c]) /\ \A d \in Carriers \ {c} : Q(d)' = Q(d)
    BY <2>1, QIs
  <2> QED
    BY <1>0, <1>5, <2>1, <2>2, ElemsConcat, ZenonT(60)
<1>7. \A u \in Tasks : home'[u] = IF u \in Elems(Tail(hand[c])) THEN c ELSE home[u]
  BY <1>2, ContainsIs
<1> QED
  BY <1>1, <1>2, <1>3, <1>5, <1>6, <1>7

LEMMA PlacesChain ==
  ASSUME IInv, NEW c \in Carriers, Chain(c)
  PROVE  AllPlaced'
<1> USE DEF IInv
<1>0. c \in Procs /\ pc[c] = "chain" /\ \A u \in Tasks : PlaceRight(u)
  BY ProcsIs DEF PlacesRight, Chain
<1> DEFINE T == Elems(Tail(hand[c]))
<1>1. PICK t \in Tasks :
           /\ t = hand[c][1] /\ hand'[c] = <<t>> /\ H(c)' = {t} /\ pc'[c] = "found"
           /\ H(c) = {t} \cup T /\ t \notin T
           /\ Q(c)' = Q(c) \cup T /\ \A d \in Carriers \ {c} : Q(d)' = Q(d)
           /\ \A u \in Tasks : home'[u] = IF u \in T THEN c ELSE home[u]
           /\ UNCHANGED <<state, pinned, runnext>> /\ Aside(c)
  BY ChainIs
<1> HIDE DEF T
<1>2. \A u : Stays(u)' <=> Stays(u)
  BY <1>1 DEF Stays
<1>3. ASSUME NEW u \in Tasks, u \notin H(c) PROVE PlaceRight(u)'
  <2>1. StillQ(u) /\ StillT(u)
    BY <1>1, <1>2, <1>3 DEF StillQ, StillT
  <2> QED
    BY <1>0, <1>1, <1>3, <2>1, PlaceKept
<1>4. ASSUME NEW u \in Tasks, u \in H(c) PROVE PlaceRight(u)'
  <2>1. OnlyH(u, c) /\ state[u] = "READY" /\ (u = t => home[u] = c)
    BY <1>0, <1>1, <1>4, PlaceOf DEF Fits
  <2>2. \A q \in Procs \ {c} : u \notin H(q)'
    BY <1>1, <2>1 DEF Aside, H, OnlyH
  <2>3. \A d \in Carriers : runnext'[d] # u
    BY <1>1, <2>1 DEF OnlyH, NoS
  <2>4. \A d \in Carriers : u \notin Q(d)
    BY <2>1 DEF OnlyH, NoQ
  <2>5. CASE u = t
    <3>1. Fits(u, c)'
      BY <1>1, <2>1, <2>5 DEF Fits
    <3>2. \A d \in Carriers : u \notin Q(d)'
      BY <1>1, <2>4, <2>5
    <3> QED
      BY <1>0, <1>1, <2>2, <2>3, <2>5, <3>1, <3>2, PlaceInHand
  <2>6. CASE u # t
    <3>1. u \in T /\ u \in Q(c)' /\ home'[u] = c /\ state'[u] = "READY"
      BY <1>1, <1>4, <2>1, <2>6
    <3>2. \A d \in Carriers \ {c} : u \notin Q(d)'
      BY <1>1, <2>4
    <3>3. \A q \in Procs : u \notin H(q)'
      BY <1>1, <2>2, <2>6
    <3> QED
      BY <2>3, <3>1, <3>2, <3>3, PlaceInQueue
  <2> QED
    BY <2>5, <2>6
<1> QED
  BY <1>3, <1>4 DEF AllPlaced

(* A carrier runs the task it found, or puts it back. *)
LEMMA GoIs ==
  ASSUME IInv, NEW c \in Carriers, Go(c) \/ PutBack(c)
  PROVE  \E t \in Tasks :
           /\ t = hand[c][1] /\ H(c) = {t} /\ H(c)' = {} /\ Aside(c)
           /\ OnlyH(t, c) /\ state[t] = "READY" /\ home[t] = c
           /\ hand' = [hand EXCEPT ![c] = <<>>] /\ UNCHANGED <<rq, pinned>>
<1> USE DEF IInv
<1>0. /\ hand \in [Procs -> Seq(Tasks)] /\ c \in Procs /\ pc \in [Procs -> Points]
      /\ pc[c] \in {"found", "go"} /\ \A u \in Tasks : PlaceRight(u)
  BY ProcsIs DEF Types, PlacesRight, Go, PutBack
<1>1. PICK t \in Tasks : t = hand[c][1]
  BY <1>0, HandIs
<1>2. H(c) = {t}
  BY <1>0, <1>1, HandIs
<1>3. OnlyH(t, c) /\ Fits(t, c)
  BY <1>0, <1>2, PlaceOf
<1>4. state[t] = "READY" /\ home[t] = c
  BY <1>0, <1>3, ProcsIs DEF Fits
<1>5. hand' = [hand EXCEPT ![c] = <<>>] /\ UNCHANGED <<rq, pinned>>
  BY DEF Go, PutBack, taskVars, queues
<1>6. H(c)' = {}
  <2>1. hand'[c] = <<>>
    BY <1>0, <1>5
  <2> QED
    BY <1>0, <2>1, HIs, ElemsNone
<1>7. Aside(c)
  <2>1. \E x \in {"after", "user"} : pc' = [pc EXCEPT ![c] = x]
    BY DEF Go, PutBack, ToG0, Goto
  <2> QED
    BY <1>0, <1>5, <2>1, AsideOne
<1> QED
  BY <1>1, <1>2, <1>3, <1>4, <1>5, <1>6, <1>7

LEMMA PlacesGo ==
  ASSUME IInv, NEW c \in Carriers, Go(c)
  PROVE  AllPlaced'
<1> USE DEF IInv
<1>0. /\ c \in Procs /\ state \in [Tasks -> States] /\ home \in [Tasks -> Cars]
      /\ \A u \in Tasks : PlaceRight(u)
  BY ProcsIs DEF Types, PlacesRight
<1>1. PICK t \in Tasks :
           /\ t = hand[c][1] /\ H(c) = {t} /\ H(c)' = {} /\ Aside(c) /\ OnlyH(t, c)
           /\ UNCHANGED <<rq, pinned>>
  BY GoIs
<1>2. state' = [state EXCEPT ![t] = "RUN"] /\ home' = [home EXCEPT ![t] = c] /\ runnext' = runnext
  BY <1>1 DEF Go, queues
<1>3. \A u : StillQ(u)
  BY <1>1, <1>2, SameQueues
<1>4. state'[t] = "RUN" /\ \A u \in Tasks \ {t} : StillT(u)
  BY <1>0, <1>1, <1>2 DEF StillT, Stays
<1>5. ASSUME NEW u \in Tasks, u # t PROVE PlaceRight(u)'
  BY <1>0, <1>1, <1>3, <1>4, <1>5, PlaceKept
<1>6. PlaceRight(t)'
  <2>1. \A d \in Carriers : t \notin Q(d)' /\ runnext'[d] # t
    BY <1>1, <1>3 DEF StillQ, OnlyH, NoQ, NoS
  <2>2. \A q \in Procs : t \notin H(q)'
    <3>1. \A q \in Procs \ {c} : t \notin H(q)'
      BY <1>1 DEF Aside, H, OnlyH
    <3> QED
      BY <1>1, <3>1
  <2> QED
    BY <1>4, <2>1, <2>2, PlaceNowhere
<1> QED
  BY <1>5, <1>6 DEF AllPlaced

(* A task that may not move is not put back: it would be on the stack of   *)
(* its own carrier, which looked for another.                              *)
LEMMA PutBackMoves ==
  ASSUME IInv, NEW c \in Carriers, NEW t \in Tasks, t = hand[c][1], PutBack(c), home[t] = c
  PROVE  ~Stays(t) /\ runnext[c] = None
<1> USE DEF IInv
<1>1. pc[c] = "found" /\ cur[c] # t /\ onstack[t]
  BY DEF PutBack
<1>2. left[c] = None
  BY <1>1 DEF StacksRight
<1>3. PICK d \in Carriers : t \in On(d)
  BY <1>1 DEF StacksRight
<1>4. Stays(t) => home[t] = d
  BY <1>3 DEF StacksRight
<1>5. t \notin On(c)
  BY <1>1, <1>2 DEF On
<1>6. runnext[c] = None
  BY <1>1 DEF PlacesRight, AtCall, AtPush
<1> QED
  BY <1>3, <1>4, <1>5, <1>6

LEMMA PlacesPutBack ==
  ASSUME IInv, NEW c \in Carriers, PutBack(c)
  PROVE  AllPlaced'
<1> USE DEF IInv
<1>0. /\ c \in Procs /\ runnext \in [Carriers -> Tasks \cup {None}] /\ \A u \in Tasks : PlaceRight(u)
  BY ProcsIs DEF Types, PlacesRight
<1>1. PICK t \in Tasks :
           /\ t = hand[c][1] /\ H(c) = {t} /\ H(c)' = {} /\ Aside(c) /\ OnlyH(t, c)
           /\ state[t] = "READY" /\ home[t] = c /\ UNCHANGED <<rq, pinned>>
  BY GoIs
<1>2. runnext' = [runnext EXCEPT ![c] = t] /\ UNCHANGED <<state, home>>
  BY <1>1 DEF PutBack, taskVars
<1>3. ~Stays(t) /\ runnext[c] = None
  BY <1>1, PutBackMoves
<1>4. /\ runnext'[c] = t /\ \A d \in Carriers \ {c} : runnext'[d] = runnext[d]
      /\ \A u \in Tasks : u # None
  BY <1>0, <1>2, SchedAssumption
<1>5. \A u : StillT(u)
  BY <1>1, <1>2, SameTasks
<1>6. ASSUME NEW u \in Tasks, u # t PROVE PlaceRight(u)'
  <2>1. StillQ(u)
    BY <1>1, <1>3, <1>4, <1>6 DEF StillQ, Q
  <2> QED
    BY <1>0, <1>1, <1>5, <1>6, <2>1, PlaceKept
<1>7. PlaceRight(t)'
  <2>1. \A d \in Carriers : t \notin Q(d)'
    BY <1>1 DEF OnlyH, NoQ, Q
  <2>2. \A d \in Carriers \ {c} : runnext'[d] # t
    BY <1>1, <1>4 DEF OnlyH, NoS
  <2>3. \A q \in Procs : t \notin H(q)'
    <3>1. \A q \in Procs \ {c} : t \notin H(q)'
      BY <1>1 DEF Aside, H, OnlyH
    <3> QED
      BY <1>1, <3>1
  <2>4. state'[t] = "READY" /\ home'[t] = c /\ ~Stays(t)'
    BY <1>1, <1>2, <1>3 DEF Stays
  <2> QED
    BY <1>4, <2>1, <2>2, <2>3, <2>4, PlaceInSlot
<1> QED
  BY <1>6, <1>7 DEF AllPlaced

(* The poller and a THREAD take a task; and steps that move none. *)
LEMMA PlacesFire ==
  ASSUME IInv, NEW t \in Tasks, Fire(t) \/ Call(t)
  PROVE  AllPlaced'
<1> USE DEF IInv
<1>0. /\ hand \in [Procs -> Seq(Tasks)] /\ pc \in [Procs -> Points] /\ home \in [Tasks -> Cars]
      /\ \A u \in Tasks : PlaceRight(u)
  BY DEF Types, PlacesRight
<1>1. /\ UNCHANGED <<state, pinned, rq, runnext>> /\ (home' = home \/ \E c \in Cars : home' = [home EXCEPT ![t] = c])
      /\ \A u : StillQ(u)
  <2>1. UNCHANGED <<state, pinned, rq, runnext>> /\ (home' = home \/ \E c \in Cars : home' = [home EXCEPT ![t] = c])
    BY DEF Fire, Call, taskVars, queues
  <2> QED
    BY <2>1, SameQueues
<1>2. \A u \in Tasks \ {t} : StillT(u)
  BY <1>0, <1>1 DEF StillT, Stays
<1>3. PICK p \in {Poller, Thread} :
        /\ hand' = [hand EXCEPT ![p] = <<t>>] /\ pc' = [pc EXCEPT ![p] = "push"] /\ pc[p] = "free"
        /\ (p = Poller /\ state[t] = "POLL") \/ (p = Thread /\ Wakeable(t))
  <2>1. Fire(t) => /\ hand' = [hand EXCEPT ![Poller] = <<t>>] /\ pc' = [pc EXCEPT ![Poller] = "push"]
                   /\ pc[Poller] = "free" /\ state[t] = "POLL"
    BY DEF Fire, Goto
  <2>2. Call(t) => /\ hand' = [hand EXCEPT ![Thread] = <<t>>] /\ pc' = [pc EXCEPT ![Thread] = "push"]
                   /\ pc[Thread] = "free" /\ Wakeable(t)
    BY DEF Call, Goto
  <2> QED
    BY <2>1, <2>2
<1>4. p \in Procs /\ H(p) = {}
  BY <1>3, ProcsIs, HandIs
<1>5. Aside(p) /\ hand'[p] = <<t>> /\ H(p)' = {t} /\ pc'[p] = "push"
  BY <1>0, <1>3, <1>4, AsideOne, HIs, ElemsOne
<1>6. Nowhere(t)
  <2>1. CASE p = Poller
    <3>1. state[t] = "POLL"
      BY <1>3, <2>1, ProcsIs
    <3>2. NoH(t)
      <4> SUFFICES ASSUME NEW q \in Procs, t \in H(q) PROVE FALSE
        BY DEF NoH
      <4>1. Fits(t, q)
        BY <1>0, PlaceOf
      <4>2. q = Poller /\ pc[q] = "push"
        BY <3>1, <4>1 DEF Fits
      <4> QED
        BY <1>3, <2>1, <4>2
    <3> QED
      BY <1>0, <3>1, <3>2, PlaceOf
  <2>2. CASE p = Thread
    BY <1>3, <2>2, ProcsIs, WakeableIs
  <2> QED
    BY <1>3, <2>1, <2>2
<1>7. ASSUME NEW u \in Tasks, u # t PROVE PlaceRight(u)'
  BY <1>0, <1>1, <1>2, <1>4, <1>5, <1>7, PlaceKept
<1>8. PlaceRight(t)'
  <2>1. \A q \in Procs \ {p} : t \notin H(q)'
    BY <1>5, <1>6 DEF Aside, H, Nowhere, NoH
  <2>2. \A d \in Carriers : t \notin Q(d)' /\ runnext'[d] # t
    BY <1>1, <1>6 DEF StillQ, Nowhere, NoQ, NoS
  <2>3. Fits(t, p)'
    BY <1>1, <1>3, <1>5 DEF Fits, Wakeable
  <2> QED
    BY <1>4, <1>5, <2>1, <2>2, <2>3, PlaceInHand
<1> QED
  BY <1>7, <1>8 DEF AllPlaced

LEMMA PlacesOther ==
  ASSUME IInv, NEW c \in Carriers, ToIdle(c) \/ After(c) \/ HandOnBlocked(c) \/ Hire
  PROVE  AllPlaced'
<1> USE DEF IInv
<1>0. /\ hand \in [Procs -> Seq(Tasks)] /\ pc \in [Procs -> Points] /\ c \in Procs
      /\ \A u \in Tasks : PlaceRight(u)
  BY ProcsIs DEF Types, PlacesRight
<1>1. UNCHANGED <<state, home, pinned, rq, runnext, hand>>
  BY DEF ToIdle, After, HandOnBlocked, Hire, taskVars, queues
<1>2. \E p \in Procs : H(p) = {} /\ Aside(p)
  <2>1. CASE ToIdle(c) \/ After(c)
    <3>1. pc[c] \in {"steal", "after"} /\ \E x : pc' = [pc EXCEPT ![c] = x]
      BY <2>1 DEF ToIdle, After, ToG0, Goto
    <3> QED
      BY <1>0, <1>1, <3>1, HandIs, AsideOne
  <2>2. CASE HandOnBlocked(c) \/ Hire
    <3>1. \/ pc' = pc \/ (pc[Overseer] = "watch" /\ pc' = [pc EXCEPT ![Overseer] = "signal"])
          \/ (ncars < MaxCarriers /\ pc' = [pc EXCEPT ![ncars + 1] = "sched"])
      BY <2>2 DEF HandOnBlocked, Hire, StartWorker, Goto
    <3>2. ASSUME ncars < MaxCarriers PROVE ncars + 1 \in Carriers /\ pc[ncars + 1] = "unborn"
      <4>1. ncars + 1 \in Carriers /\ ncars + 1 > ncars
        BY <3>2, CarsIs, SchedAssumption DEF Carriers
      <4> QED
        BY <4>1 DEF PointsRight
    <3>3. H(Overseer) = {} /\ Overseer \in Procs
      BY HandIs, ProcsIs DEF PointsRight, WatchPoints, Locked
    <3>4. CASE pc' = pc \/ pc' = [pc EXCEPT ![Overseer] = "signal"]
      BY <1>0, <1>1, <3>3, <3>4, AsideOne DEF Aside
    <3>5. CASE ncars < MaxCarriers /\ pc' = [pc EXCEPT ![ncars + 1] = "sched"]
      <4>1. PICK d \in Procs : d = ncars + 1 /\ pc[d] = "unborn"
        BY <3>2, <3>5, ProcsIs
      <4> QED
        BY <1>1, <3>5, <4>1, HandIs, AsideOne
    <3> QED
      BY <3>1, <3>4, <3>5
  <2> QED
    BY <2>1, <2>2
<1>3. \A p \in Procs : H(p)' = H(p)
  BY <1>1 DEF H
<1> QED
  BY <1>0, <1>1, <1>2, <1>3, SameQueues, SameTasks, PlaceKept DEF AllPlaced

LEMMA PlaceNext == IInv /\ [Next]_vars => AllPlaced'
<1> SUFFICES ASSUME IInv, [Next]_vars PROVE AllPlaced'
  OBVIOUS
<1> QED
  BY BigSteps, PlacesSmall, PlacesReady, PlacesTask, PlacesPush, PlacesTake, PlacesStealSlot,
     PlacesStealQueue, PlacesChain, PlacesGo, PlacesPutBack, PlacesFire, PlacesOther

(* A task that is not started holds no monitor, and is not the root. *)
LEMMA NewNext ==
  IInv /\ [Next]_vars => \A t \in Tasks : state'[t] = "NEW" => ~Stays(t)'
<1> SUFFICES ASSUME IInv, [Next]_vars, NEW t \in Tasks, state'[t] = "NEW" PROVE ~Stays(t)'
  OBVIOUS
<1> USE DEF IInv
<1>0. state \in [Tasks -> States] /\ pinned \in [Tasks -> BOOLEAN]
  BY DEF Types
<1>1. ASSUME NEW u, NEW s \in {"READY", "RUN", "DONE"}, state' = [state EXCEPT ![u] = s] PROVE state[t] = "NEW"
  BY <1>0, <1>1
<1>2. ASSUME NEW c \in Carriers, NEW held \in BOOLEAN, Wait(c, held) \/ Poll(c, held) \/ Yield(c, held)
      PROVE  state[t] = "NEW" /\ t # cur[c] /\ pinned' = [pinned EXCEPT ![cur[c]] = held]
  <2>1. /\ \E s \in {"READY", "WAIT", "POLL"} : state' = [state EXCEPT ![cur[c]] = s]
        /\ pinned' = [pinned EXCEPT ![cur[c]] = held]
    BY <1>2 DEF Wait, Poll, Yield
  <2> QED
    BY <1>0, <2>1
<1>3. state[t] = "NEW"
  <2>1. ASSUME NEW c \in Carriers, NEW u \in Tasks, Ready(c, u)
        PROVE  state' = state \/ state' = [state EXCEPT ![u] = "READY"]
    BY <2>1 DEF Ready
  <2>2. ASSUME NEW c \in Carriers, End(c) PROVE state' = [state EXCEPT ![cur[c]] = "DONE"]
    BY <2>2 DEF End
  <2>3. ASSUME NEW c \in Carriers, Go(c) PROVE state' = [state EXCEPT ![hand[c][1]] = "RUN"]
    BY <2>3 DEF Go
  <2>4. ASSUME NEW p \in Procs, Push(p) PROVE state' = [state EXCEPT ![hand[p][1]] = "READY"]
    BY <2>4 DEF Push
  <2> QED
    BY <1>1, <1>2, <2>1, <2>2, <2>3, <2>4, StateChanges
<1>4. pinned'[t] = pinned[t]
  <2>1. ASSUME NEW u, NEW held, t # u, pinned' = [pinned EXCEPT ![u] = held] PROVE pinned'[t] = pinned[t]
    BY <1>0, <2>1
  <2> QED
    BY <1>2, <2>1, PinnedChanges
<1> QED
  BY <1>3, <1>4 DEF PlacesRight, Stays

(* A carrier looks at other queues only when its own slot is empty. *)
MayFill == AtCall \cup AtPush \cup {"sched", "after"}
LEMMA SlotsNext ==
  IInv /\ [Next]_vars => \A c \in Carriers : pc'[c] \notin MayFill => runnext'[c] = None
<1> SUFFICES ASSUME IInv, [Next]_vars, NEW c \in Carriers, pc'[c] \notin MayFill PROVE runnext'[c] = None
  OBVIOUS
<1> USE DEF IInv
<1>0. /\ pc \in [Procs -> Points] /\ runnext \in [Carriers -> Tasks \cup {None}] /\ c \in Procs
      /\ (pc[c] \notin MayFill => runnext[c] = None)
      /\ MayFill = {"user", "push", "ask", "pick", "signal", "sched", "after"}
  BY ProcsIs DEF Types, PlacesRight, MayFill, AtCall, AtPush
<1>1. ASSUME pc'[c] = pc[c] \/ pc[c] \notin MayFill, runnext'[c] = runnext[c] PROVE runnext'[c] = None
  BY <1>0, <1>1
<1>2. CASE SmallStep
  <2>1. runnext' = runnext /\ Drift(c) /\ Back(c) \in {"user", "sched"}
    BY <1>0, <1>2, BackIs DEF SmallStep, queues
  <2>2. pc'[c] = pc[c] \/ pc[c] \notin MayFill
    BY <1>0, <2>1, CarrierPointsIs DEF Drift
  <2> QED
    BY <1>1, <2>1, <2>2
<1>3. ASSUME NEW d \in Carriers, d # c, NEW x, pc' = [pc EXCEPT ![d] = x] \/ pc' = pc, runnext'[c] = runnext[c]
      PROVE  runnext'[c] = None
  <2>1. pc'[c] = pc[c]
    BY <1>0, <1>3
  <2> QED
    BY <1>1, <1>3, <2>1
<1>4. ASSUME NEW x \in MayFill, pc' = [pc EXCEPT ![c] = x] PROVE FALSE
  BY <1>0, <1>4
<1>5. ASSUME NEW d \in Carriers, NEW t \in Tasks, Ready(d, t) PROVE runnext'[c] = None
  <2>1. /\ pc[d] = "user" /\ (pc' = pc \/ pc' = [pc EXCEPT ![d] = "push"])
        /\ (runnext' = runnext \/ runnext' = [runnext EXCEPT ![d] = t])
    BY <1>5 DEF Ready, InTask, Goto
  <2> QED
    BY <1>0, <1>3, <1>4, <2>1
<1>6. ASSUME NEW d \in Carriers, NEW held \in BOOLEAN,
             Wait(d, held) \/ Poll(d, held) \/ Yield(d, held) \/ End(d) \/ ToIdle(d) \/ After(d) \/ Go(d)
      PROVE  runnext'[c] = None
  <2>1. runnext' = runnext /\ \E x \in MayFill : pc' = [pc EXCEPT ![d] = x]
    BY <1>0, <1>6 DEF Wait, Poll, Yield, End, ToIdle, ToG0, After, Go, Goto, queues
  <2> QED
    BY <1>3, <1>4, <2>1
<1>7. ASSUME NEW d \in Carriers, Take(d) PROVE runnext'[c] = None
  <2>1. /\ \E x : pc' = [pc EXCEPT ![d] = x]
        /\ \/ runnext' = [runnext EXCEPT ![d] = None]
           \/ (runnext' = runnext /\ (pc[d] = "last" \/ runnext[d] = None))
    BY <1>7 DEF Take, Goto
  <2>2. CASE d # c
    <3>1. runnext'[c] = runnext[c]
      BY <1>0, <2>1, <2>2
    <3> QED
      BY <1>3, <2>1, <2>2, <3>1
  <2>3. CASE d = c
    BY <1>0, <2>1, <2>3
  <2> QED
    BY <2>2, <2>3
<1>8. ASSUME NEW d \in Carriers, NEW v \in Carriers, StealSlot(d, v) \/ StealQueue(d, v) \/ Chain(d)
      PROVE  runnext'[c] = None
  <2>1. /\ pc[d] \notin MayFill /\ (pc' = pc \/ \E x : pc' = [pc EXCEPT ![d] = x])
        /\ runnext' = runnext \/ runnext' = [runnext EXCEPT ![v] = None]
    BY <1>0, <1>8 DEF StealSlot, StealQueue, Chain, Goto
  <2>2. runnext'[c] = runnext[c] \/ runnext'[c] = None
    BY <1>0, <2>1
  <2> QED
    BY <1>1, <1>3, <2>1, <2>2
<1>9. ASSUME NEW d \in Carriers, PutBack(d) PROVE runnext'[c] = None
  <2>1. pc' = [pc EXCEPT ![d] = "after"] /\ \E t : runnext' = [runnext EXCEPT ![d] = t]
    BY <1>9 DEF PutBack, ToG0, Goto
  <2>2. d # c
    BY <1>0, <1>4, <2>1
  <2>3. runnext'[c] = runnext[c]
    BY <1>0, <2>1, <2>2
  <2> QED
    BY <1>3, <2>1, <2>2, <2>3
<1>10. ASSUME NEW p \in Procs, Push(p) PROVE runnext'[c] = None
  <2>1. PICK d \in Carriers : /\ runnext' = runnext /\ pc[p] = "push"
           /\ \E x \in {Back(p), "ask"} :
                pc' = [pc EXCEPT ![p] = x]
                \/ (sleeping[d] /\ pc' = [pc EXCEPT ![p] = Back(p), ![d] = "woken"])
    BY <1>10, PushIs
  <2>2. sleeping[d] => pc[d] \in AtSleep /\ d # p
    BY <2>1, CarrierPointsIs DEF PointsRight
  <2>3. p \in Carriers => Back(p) \in MayFill
    BY <1>0, BackIs
  <2>4. CASE c = p
    BY <1>0, <2>1, <2>2, <2>3, <2>4
  <2>5. CASE c # p
    <3>1. pc'[c] = pc[c] \/ pc[c] \in AtSleep
      BY <1>0, <2>1, <2>2, <2>5
    <3> QED
      BY <1>0, <1>1, <2>1, <3>1, CarrierPointsIs
  <2> QED
    BY <2>4, <2>5
<1>11. ASSUME NEW t \in Tasks, Fire(t) \/ Call(t) PROVE runnext'[c] = None
  <2>1. runnext' = runnext /\ pc'[c] = pc[c]
    BY <1>0, <1>11, ProcsIs DEF Fire, Call, Goto, queues
  <2> QED
    BY <1>1, <2>1
<1>12. ASSUME NEW d \in Carriers, HandOnBlocked(d) \/ Hire PROVE runnext'[c] = None
  <2>1. /\ runnext' = runnext
        /\ \/ pc' = pc \/ pc' = [pc EXCEPT ![Overseer] = "signal"]
           \/ (ncars < MaxCarriers /\ pc' = [pc EXCEPT ![ncars + 1] = "sched"])
    BY <1>12 DEF HandOnBlocked, Hire, StartWorker, Goto, queues
  <2>2. pc'[c] = pc[c] \/ pc'[c] = "sched"
    BY <1>0, <2>1, ProcsIs
  <2> QED
    BY <1>0, <1>1, <2>1, <2>2
<1> QED
  BY <1>2, <1>5, <1>6, <1>7, <1>8, <1>9, <1>10, <1>11, <1>12, BigSteps

LEMMA PlacesNext == IInv /\ [Next]_vars => PlacesRight'
BY PlaceNext, NewNext, SlotsNext DEF PlacesRight, AllPlaced, MayFill

(* No task is twice in a queue, or twice in a thread's hands. *)
LEMMA DifferQueue ==
  ASSUME IInv, NEW c \in Carriers, NEW s \in Seq(Tasks), rq' = [rq EXCEPT ![c] = s], Differ(s)
  PROVE  \A d \in Carriers : Differ(rq'[d])
<1>1. rq'[c] = s /\ \A d \in Carriers \ {c} : rq'[d] = rq[d]
  BY DEF IInv, Types
<1>2. \A d \in Carriers : Differ(rq[d])
  BY DEF IInv, DifferRight
<1> QED
  BY <1>1, <1>2

LEMMA DifferQueues == IInv /\ [Next]_vars => \A c \in Carriers : Differ(rq'[c])
<1> SUFFICES ASSUME IInv, [Next]_vars PROVE \A c \in Carriers : Differ(rq'[c])
  OBVIOUS
<1> USE DEF IInv
<1>0. rq \in [Carriers -> Seq(Tasks)] /\ \A c \in Carriers : Differ(rq[c])
  BY DEF Types, DifferRight
<1>1. CASE rq' = rq
  BY <1>0, <1>1
<1>2. ASSUME NEW p \in Procs, Push(p) PROVE \A c \in Carriers : Differ(rq'[c])
  <2>1. PICK t \in Tasks, c \in Carriers : rq' = [rq EXCEPT ![c] = Append(rq[c], t)] /\ OnlyH(t, p)
    BY <1>2, PushIs
  <2>2. t \notin Elems(rq[c])
    BY <2>1, QIs DEF OnlyH, NoQ
  <2> QED
    BY <1>0, <2>1, <2>2, ElemsAppend, DifferQueue
<1>3. ASSUME NEW c \in Carriers, Take(c) PROVE \A d \in Carriers : Differ(rq'[d])
  <2>1. rq' = rq \/ (rq[c] # <<>> /\ rq' = [rq EXCEPT ![c] = Tail(rq[c])])
    BY <1>3 DEF Take
  <2> QED
    BY <1>0, <1>1, <2>1, ElemsTail, DifferQueue
<1>4. ASSUME NEW c \in Carriers, NEW v \in Carriers, StealQueue(c, v) PROVE \A d \in Carriers : Differ(rq'[d])
  <2>1. rq' = rq \/ rq' = [rq EXCEPT ![v] = Left(v)]
    BY <1>4 DEF StealQueue
  <2> QED
    BY <1>0, <1>1, <2>1, SplitIs, DifferQueue
<1>5. ASSUME NEW c \in Carriers, Chain(c) PROVE \A d \in Carriers : Differ(rq'[d])
  <2>1. H(c) = Elems(hand[c]) /\ rq' = [rq EXCEPT ![c] = rq[c] \o Tail(hand[c])] /\ c \in Procs
    BY <1>5, HIs, ProcsIs DEF Chain
  <2>2. hand[c] \in Seq(Tasks) /\ hand[c] # <<>> /\ Differ(hand[c])
    BY <1>5, <2>1, HandIs DEF Chain, DifferRight
  <2>3. Tail(hand[c]) \in Seq(Tasks) /\ Differ(Tail(hand[c])) /\ Elems(Tail(hand[c])) \subseteq H(c)
    BY <2>1, <2>2, ElemsTail
  <2>4. Elems(rq[c]) \cap Elems(Tail(hand[c])) = {}
    <3> SUFFICES ASSUME NEW t \in Elems(Tail(hand[c])), t \in Elems(rq[c]) PROVE FALSE
      OBVIOUS
    <3>1. t \in H(c) /\ t \in Q(c)
      BY <2>3, QIs
    <3>2. t \in Tasks
      <4>1. PICK i \in 1 .. Len(Tail(hand[c])) : t = Tail(hand[c])[i]
        BY DEF Elems
      <4> QED
        BY <2>3, <4>1
    <3> QED
      BY <2>1, <3>1, <3>2, PlaceOf DEF PlacesRight, OnlyH, NoQ
  <2> QED
    BY <1>0, <2>1, <2>3, <2>4, ElemsConcat, DifferQueue
<1> QED
  BY <1>1, <1>2, <1>3, <1>4, <1>5, RqChanges

LEMMA DifferNext == IInv /\ [Next]_vars => DifferRight'
<1> SUFFICES ASSUME IInv, [Next]_vars PROVE \A p \in Procs : Differ(hand'[p])
  BY DifferQueues DEF DifferRight
<1> USE DEF IInv
<1>0. hand \in [Procs -> Seq(Tasks)] /\ \A p \in Procs : Differ(hand[p])
  BY DEF Types, DifferRight
<1>1. ASSUME NEW p \in Procs, NEW s, Differ(s), hand' = [hand EXCEPT ![p] = s]
      PROVE  \A q \in Procs : Differ(hand'[q])
  <2>1. hand'[p] = s /\ \A q \in Procs \ {p} : hand'[q] = hand[q]
    BY <1>0, <1>1
  <2> QED
    BY <1>0, <1>1, <2>1
<1>2. Differ(<<>>) /\ \A t : Differ(<<t>>)
  BY DEF Differ
<1>3. ASSUME NEW c \in Carriers, NEW t \in Tasks, Ready(c, t)
      PROVE  hand' = hand \/ \E u : hand' = [hand EXCEPT ![c] = <<u>>]
  BY <1>3 DEF Ready
<1>4. ASSUME NEW c \in Carriers, NEW held \in BOOLEAN, Yield(c, held)
      PROVE  hand' = [hand EXCEPT ![c] = <<cur[c]>>]
  BY <1>4 DEF Yield
<1>5. ASSUME NEW p \in Procs, Push(p) PROVE hand' = [hand EXCEPT ![p] = <<>>]
  BY <1>5 DEF Push
<1>6. ASSUME NEW c \in Carriers, Take(c) \/ Chain(c)
      PROVE  hand' = hand \/ \E u : hand' = [hand EXCEPT ![c] = <<u>>]
  BY <1>6 DEF Take, Chain
<1>7. ASSUME NEW c \in Carriers, Go(c) \/ PutBack(c) PROVE hand' = [hand EXCEPT ![c] = <<>>]
  BY <1>7 DEF Go, PutBack
<1>8. ASSUME NEW c \in Carriers, NEW v \in Carriers, StealSlot(c, v)
      PROVE  \E u : hand' = [hand EXCEPT ![c] = <<u>>]
  BY <1>8 DEF StealSlot
<1>9. ASSUME NEW c \in Carriers, NEW v \in Carriers, StealQueue(c, v)
      PROVE  hand' = hand \/ (hand' = [hand EXCEPT ![c] = Loot(v)] /\ Differ(Loot(v)))
  BY <1>9, SplitIs DEF StealQueue, DifferRight
<1>10. ASSUME NEW t \in Tasks, Fire(t) \/ Call(t)
       PROVE  \E p \in Procs : hand' = [hand EXCEPT ![p] = <<t>>]
  BY <1>10, ProcsIs DEF Fire, Call
<1> QED
  BY <1>0, <1>1, <1>2, <1>3, <1>4, <1>5, <1>6, <1>7, <1>8, <1>9, <1>10, HandChanges, ProcsIs, ZenonT(60)

-----------------------------------------------------------------------------
(* The stacks.  What StacksRight says of one carrier, and of the tasks. *)
CarrierRight(c) ==
  /\ left[c] # None <=> pc[c] = "after"
  /\ cur[c] # None => cur[c] # left[c]
  /\ pc[c] \in AtIdle \cup AtSleep \cup {"unborn"} => cur[c] = None
  /\ pc[c] \in {"user", "after"} /\ cur[c] # None => state[cur[c]] = "RUN"
  /\ pc[c] \in AtCall \cup AtPush => cur[c] # None
  /\ pc[c] \in AtLook /\ cur[c] # None => state[cur[c]] # "RUN"
  /\ cur[c] # None /\ state[cur[c]] = "RUN" => home[cur[c]] = c
  /\ \A t \in On(c) : Stays(t) => home[t] = c
OnRight ==
  /\ \A t \in Tasks : onstack[t] <=> \E c \in Carriers : t \in On(c)
  /\ \A c, d \in Carriers : c # d => On(c) \cap On(d) = {}
RunRight == \A t \in Tasks : state[t] = "RUN" => \E c \in Carriers : cur[c] = t

LEMMA StacksEach == StacksRight <=> OnRight /\ RunRight /\ \A c \in Carriers : CarrierRight(c)
BY DEF StacksRight, OnRight, RunRight, CarrierRight

LEMMA StacksEachNext == StacksRight' <=> OnRight' /\ RunRight' /\ \A c \in Carriers : CarrierRight(c)'
BY DEF StacksRight, OnRight, RunRight, CarrierRight

(* A task that is as it was, as far as a stack is concerned. *)
Calm(t) ==
  /\ state'[t] = "RUN" <=> state[t] = "RUN"
  /\ Stays(t)' <=> Stays(t)
  /\ home'[t] = home[t] \/ (state[t] # "RUN" /\ ~Stays(t))

LEMMA OnIs ==
  /\ \A c \in Carriers : cur[c] # None => cur[c] \in On(c)
  /\ \A c \in Carriers : left[c] # None => left[c] \in On(c)
  /\ \A c \in Carriers, t \in Tasks : t \in On(c) <=> t = cur[c] \/ t = left[c]
BY SchedAssumption DEF On

LEMMA OnTasks == Types => \A c \in Carriers : On(c) \subseteq Tasks
BY DEF On, Types

(* A carrier whose stacks and tasks stay, at a point of the same kind. *)
LEMMA CarrierKept ==
  ASSUME NEW c \in Carriers, CarrierRight(c), cur'[c] = cur[c], left'[c] = left[c],
         \A t \in On(c) : Calm(t),
         \/ pc'[c] = pc[c]
         \/ pc[c] \in AtCall \cup AtPush /\ pc'[c] \in AtPush
         \/ pc[c] \in AtPush /\ pc'[c] = Back(c)
         \/ pc[c] \in AtLook /\ pc'[c] \in AtLook
         \/ cur[c] = None /\ pc[c] # "after" /\ pc'[c] \in AtLook \cup AtIdle \cup AtSleep
  PROVE  CarrierRight(c)'
<1>1. On(c)' = On(c)
  BY DEF On
<1>2. cur[c] # None => Calm(cur[c])
  BY OnIs
<1>3. Back(c) = IF state[cur[c]] = "RUN" THEN "user" ELSE "sched"
  BY BackIs
<1>4. \A t \in On(c) : Stays(t)' => home'[t] = c
  BY DEF CarrierRight, Calm
<1>5. cur'[c] # None /\ state'[cur'[c]] = "RUN" => home'[cur'[c]] = c
  BY <1>2 DEF CarrierRight, Calm
<1>6. cur[c] # None => (state'[cur[c]] = "RUN" <=> state[cur[c]] = "RUN")
  BY <1>2 DEF Calm
<1> DEFINE P == AtCall \cup AtPush
           L == AtLook
           I == AtIdle \cup AtSleep
<1>7. /\ AtCall = {"user"} /\ AtPush = {"push", "ask", "pick", "signal"}
      /\ AtLook = {"sched", "steal", "chain", "found"} /\ AtIdle = {"last", "laststeal", "go"}
      /\ AtSleep = {"asleep", "woken", "pending", "count", "cars"}
  BY DEF AtCall, AtPush, AtLook, AtIdle, AtSleep, Locked
<1>8. CASE pc'[c] = pc[c]
  BY <1>1, <1>4, <1>5, <1>6, <1>8 DEF CarrierRight
<1>9. CASE pc[c] \in AtCall \cup AtPush /\ pc'[c] \in AtPush
  BY <1>1, <1>4, <1>5, <1>6, <1>7, <1>9 DEF CarrierRight
<1>10. CASE pc[c] \in AtPush /\ pc'[c] = Back(c)
  BY <1>1, <1>3, <1>4, <1>5, <1>6, <1>7, <1>10 DEF CarrierRight
<1>11. CASE pc[c] \in AtLook /\ pc'[c] \in AtLook
  BY <1>1, <1>4, <1>5, <1>6, <1>7, <1>11 DEF CarrierRight
<1>12. CASE cur[c] = None /\ pc[c] # "after" /\ pc'[c] \in AtLook \cup AtIdle \cup AtSleep
  BY <1>1, <1>4, <1>5, <1>6, <1>7, <1>12 DEF CarrierRight
<1> QED
  BY <1>8, <1>9, <1>10, <1>11, <1>12

(* A step that leaves the stacks, and calms every task. *)
LEMMA StacksKept ==
  ASSUME IInv, UNCHANGED <<cur, left, onstack>>,
         \A t \in Tasks : state'[t] = "RUN" => state[t] = "RUN",
         \A c \in Carriers : CarrierRight(c)'
  PROVE  StacksRight'
<1> USE DEF IInv
<1>1. OnRight /\ RunRight
  BY StacksEach
<1>2. \A c \in Carriers : On(c)' = On(c)
  BY DEF On
<1>3. OnRight' /\ RunRight'
  BY <1>1, <1>2 DEF OnRight, RunRight
<1> QED
  BY <1>3, StacksEachNext

LEMMA CalmSame ==
  ASSUME UNCHANGED <<state, home, pinned>>
  PROVE  \A t : Calm(t)
BY DEF Calm, Stays

LEMMA StacksSmall ==
  ASSUME IInv, SmallStep
  PROVE  StacksRight'
<1> USE DEF IInv
<1>1. UNCHANGED <<state, home, pinned, onstack, cur, left>>
  BY DEF SmallStep, taskVars, stacks
<1>2. ASSUME NEW c \in Carriers PROVE CarrierRight(c)'
  <2>1. Drift(c) /\ CarrierRight(c) /\ (pc[c] \in AtSleep \cup AtIdle => cur[c] = None)
    BY StacksEach, ProcsIs DEF SmallStep, CarrierRight
  <2>2. \/ pc'[c] = pc[c]
        \/ pc[c] \in AtCall \cup AtPush /\ pc'[c] \in AtPush
        \/ pc[c] \in AtPush /\ pc'[c] = Back(c)
        \/ cur[c] = None /\ pc[c] # "after" /\ pc'[c] \in AtLook \cup AtIdle \cup AtSleep
    BY <2>1, CarrierPointsIs DEF Drift, AtLook, AtIdle
  <2> QED
    BY <1>1, <2>1, <2>2, CalmSame, CarrierKept
<1> QED
  BY <1>1, <1>2, StacksKept

(* A carrier that moves alone, within its kind. *)
LEMMA StacksMove ==
  ASSUME IInv, UNCHANGED <<cur, left, onstack>>, \A t \in Tasks : Calm(t),
         \A c \in Carriers :
           \/ pc'[c] = pc[c]
           \/ pc[c] \in AtCall \cup AtPush /\ pc'[c] \in AtPush
           \/ pc[c] \in AtPush /\ pc'[c] = Back(c)
           \/ pc[c] \in AtLook /\ pc'[c] \in AtLook
           \/ cur[c] = None /\ pc[c] # "after" /\ pc'[c] \in AtLook \cup AtIdle \cup AtSleep
  PROVE  StacksRight'
<1> USE DEF IInv
<1>1. \A c \in Carriers : On(c) \subseteq Tasks /\ CarrierRight(c)
  BY OnTasks, StacksEach
<1>2. \A c \in Carriers : CarrierRight(c)'
  BY <1>1, CarrierKept
<1>3. \A t \in Tasks : state'[t] = "RUN" => state[t] = "RUN"
  BY DEF Calm
<1> QED
  BY <1>2, <1>3, StacksKept

LEMMA StacksReady ==
  ASSUME IInv, NEW c \in Carriers, NEW t \in Tasks, Ready(c, t)
  PROVE  StacksRight'
<1> USE DEF IInv
<1>0. /\ state \in [Tasks -> States] /\ home \in [Tasks -> Cars] /\ pc \in [Procs -> Points]
      /\ c \in Procs
  BY ProcsIs DEF Types
<1>1. /\ UNCHANGED <<cur, left, onstack, pinned>> /\ pc[c] = "user" /\ state[t] \in {"WAIT", "NEW"}
      /\ (pc' = pc \/ pc' = [pc EXCEPT ![c] = "push"])
      /\ \/ UNCHANGED <<state, home>>
         \/ ~Stays(t) /\ state' = [state EXCEPT ![t] = "READY"] /\ home' = [home EXCEPT ![t] = c]
  BY DEF Ready, InTask, stacks, Goto, Wakeable
<1>2. ASSUME NEW u \in Tasks PROVE Calm(u)
  <2>1. CASE u = t
    <3>1. state'[t] # "RUN" /\ state[t] # "RUN"
      BY <1>0, <1>1
    <3>2. home'[t] = home[t] \/ ~Stays(t)
      BY <1>1
    <3> QED
      BY <1>1, <2>1, <3>1, <3>2 DEF Calm, Stays
  <2>2. CASE u # t
    <3>1. state'[u] = state[u] /\ home'[u] = home[u]
      BY <1>0, <1>1, <2>2
    <3> QED
      BY <1>1, <3>1 DEF Calm, Stays
  <2> QED
    BY <2>1, <2>2
<1>3. \A d \in Carriers : pc'[d] = pc[d] \/ (pc[d] \in AtCall /\ pc'[d] \in AtPush)
  <2>1. CASE pc' = pc
    BY <2>1
  <2>2. CASE pc' = [pc EXCEPT ![c] = "push"]
    <3>1. pc'[c] = "push" /\ \A d \in Procs \ {c} : pc'[d] = pc[d]
      BY <1>0, <2>2
    <3> QED
      BY <1>1, <3>1, ProcsIs DEF AtCall, AtPush
  <2> QED
    BY <1>1, <2>1, <2>2
<1> QED
  BY <1>1, <1>2, <1>3, StacksMove

LEMMA StacksTask ==
  ASSUME IInv, NEW c \in Carriers, NEW held \in BOOLEAN,
         Wait(c, held) \/ Poll(c, held) \/ Yield(c, held) \/ End(c)
  PROVE  StacksRight'
<1> USE DEF IInv
<1>0. /\ state \in [Tasks -> States] /\ pinned \in [Tasks -> BOOLEAN] /\ pc \in [Procs -> Points]
      /\ c \in Procs
  BY ProcsIs DEF Types
<1>1. PICK t \in Tasks : t = cur[c]
  BY CurIs DEF Wait, Poll, Yield, End, InTask
<1>2. /\ UNCHANGED <<cur, left, onstack, home>> /\ pc[c] = "user" /\ cur[c] # None
      /\ \E s \in {"WAIT", "POLL", "READY", "DONE"} : state' = [state EXCEPT ![t] = s]
      /\ pinned' = pinned \/ pinned' = [pinned EXCEPT ![t] = held]
      /\ \E x \in {"sched", "push"} : pc' = [pc EXCEPT ![c] = x]
  BY <1>1 DEF Wait, Poll, Yield, End, InTask, stacks, Goto
<1>3. \A d \in Carriers : CarrierRight(d)
  BY StacksEach
<1>4. state[t] = "RUN" /\ home[t] = c /\ left[c] = None /\ On(c) = {t} /\ OnRight
  <2>1. state[t] = "RUN" /\ home[t] = c /\ left[c] = None
    BY <1>1, <1>2, <1>3 DEF CarrierRight
  <2> QED
    BY <1>1, <1>2, <2>1, StacksEach DEF On
<1>5. /\ state'[t] # "RUN" /\ \A u \in Tasks \ {t} : Calm(u)
      /\ pc'[c] \in {"sched", "push"} /\ \A d \in Carriers \ {c} : pc'[d] = pc[d]
  <2>1. state'[t] # "RUN" /\ \A u \in Tasks \ {t} : state'[u] = state[u] /\ pinned'[u] = pinned[u]
    BY <1>0, <1>2
  <2>2. pc'[c] \in {"sched", "push"} /\ \A d \in Carriers \ {c} : pc'[d] = pc[d]
    BY <1>0, <1>2
  <2> QED
    BY <1>2, <2>1, <2>2 DEF Calm, Stays
<1>6. ASSUME NEW d \in Carriers, d # c PROVE CarrierRight(d)'
  <2>1. t \notin On(d) /\ On(d) \subseteq Tasks
    BY <1>4, <1>6, OnTasks DEF OnRight
  <2> QED
    BY <1>2, <1>3, <1>5, <1>6, <2>1, CarrierKept
<1>7. CarrierRight(c)'
  <2>1. On(c)' = {t}
    BY <1>2, <1>4 DEF On
  <2> QED
    BY <1>1, <1>2, <1>4, <1>5, <2>1 DEF CarrierRight, AtIdle, AtSleep, AtCall, AtPush, AtLook, Locked
<1>8. \A u \in Tasks : state'[u] = "RUN" => state[u] = "RUN"
  BY <1>4, <1>5 DEF Calm
<1> QED
  BY <1>2, <1>6, <1>7, <1>8, StacksKept

LEMMA StacksPush ==
  ASSUME IInv, NEW p \in Procs, Push(p)
  PROVE  StacksRight'
<1> USE DEF IInv
<1>0. state \in [Tasks -> States] /\ pc \in [Procs -> Points]
  BY DEF Types
<1>1. PICK t \in Tasks, c \in Carriers :
           /\ pc[p] = "push" /\ Fits(t, p) /\ state' = [state EXCEPT ![t] = "READY"]
           /\ UNCHANGED <<home, pinned>>
           /\ \E x \in {Back(p), "ask"} :
                pc' = [pc EXCEPT ![p] = x]
                \/ (sleeping[c] /\ pc' = [pc EXCEPT ![p] = Back(p), ![c] = "woken"])
  BY PushIs
<1>2. UNCHANGED <<cur, left, onstack>>
  BY DEF Push, stacks
<1>3. state[t] # "RUN"
  BY <1>1 DEF Fits
<1>4. ASSUME NEW u \in Tasks PROVE Calm(u)
  <2>1. state'[u] = "RUN" <=> state[u] = "RUN"
    BY <1>0, <1>1, <1>3
  <2> QED
    BY <1>1, <2>1 DEF Calm, Stays
<1>5. sleeping[c] => pc[c] \in AtSleep /\ c # p /\ cur[c] = None
  BY <1>1, CarrierPointsIs DEF PointsRight, StacksRight
<1>6. ASSUME NEW d \in Carriers
      PROVE  \/ pc'[d] = pc[d]
             \/ pc[d] \in AtPush /\ pc'[d] \in AtPush
             \/ pc[d] \in AtPush /\ pc'[d] = Back(d)
             \/ cur[d] = None /\ pc[d] # "after" /\ pc'[d] \in AtSleep
  <2>0. d \in Procs /\ c \in Procs
    BY ProcsIs
  <2>1. CASE \E x \in {Back(p), "ask"} : pc' = [pc EXCEPT ![p] = x]
    <3>1. pc'[p] \in {Back(p), "ask"} /\ \A q \in Procs \ {p} : pc'[q] = pc[q]
      BY <1>0, <2>1
    <3> QED
      BY <1>1, <2>0, <3>1 DEF AtPush
  <2>2. CASE sleeping[c] /\ pc' = [pc EXCEPT ![p] = Back(p), ![c] = "woken"]
    <3>1. pc'[p] = Back(p) /\ pc'[c] = "woken" /\ \A q \in Procs \ {p, c} : pc'[q] = pc[q]
      BY <1>0, <1>5, <2>0, <2>2
    <3>2. cur[c] = None /\ pc[c] # "after" /\ pc'[c] \in AtSleep
      BY <1>5, <2>2, <3>1, CarrierPointsIs
    <3>3. CASE d = c
      BY <3>2, <3>3
    <3>4. CASE d = p /\ d # c
      BY <1>1, <3>1, <3>4, CarrierPointsIs
    <3>5. CASE d # p /\ d # c
      BY <2>0, <3>1, <3>5
    <3> QED
      BY <3>3, <3>4, <3>5
  <2> QED
    BY <1>1, <2>1, <2>2
<1> QED
  BY <1>2, <1>4, <1>6, StacksMove

LEMMA StacksFind ==
  ASSUME IInv, NEW c \in Carriers, NEW v \in Carriers,
         Take(c) \/ StealSlot(c, v) \/ StealQueue(c, v) \/ Chain(c)
  PROVE  StacksRight'
<1> USE DEF IInv
<1>0. /\ home \in [Tasks -> Cars] /\ pc \in [Procs -> Points] /\ c \in Procs
      /\ \A u \in Tasks : PlaceRight(u)
  BY ProcsIs DEF Types, PlacesRight
<1>1. UNCHANGED <<cur, left, onstack, state, pinned>>
  BY DEF Take, StealSlot, StealQueue, Chain, stacks, taskVars
<1>2. \A u \in Tasks : home'[u] = home[u] \/ (state[u] = "READY" /\ ~Stays(u))
  <2>1. CASE Take(c)
    BY <2>1 DEF Take, taskVars
  <2>2. CASE StealSlot(c, v)
    <3>1. PICK t \in Tasks : t = runnext[v]
      BY <2>2, CurIs DEF StealSlot
    <3>2. home' = [home EXCEPT ![t] = c] /\ state[t] = "READY" /\ ~Stays(t)
      BY <1>0, <2>2, <3>1, PlaceOf DEF StealSlot
    <3> QED
      BY <1>0, <3>2
  <2>3. CASE StealQueue(c, v) /\ Loot(v) = <<>>
    BY <2>3 DEF StealQueue
  <2>4. CASE StealQueue(c, v) /\ Loot(v) # <<>>
    <3>1. PICK t \in Tasks : /\ home' = [home EXCEPT ![t] = c] /\ t = Head(Loot(v)) /\ H(c)' = Elems(Loot(v))
                             /\ Q(v) = Q(v)' \cup H(c)' /\ \A u \in H(c)' : CanMove(u)
      BY <2>4, StealQueueIs
    <3>2. t \in H(c)'
      BY <2>4, <3>1, SplitIs, ElemsTail
    <3>3. state[t] = "READY" /\ ~Stays(t)
      BY <1>0, <3>1, <3>2, PlaceOf DEF CanMove
    <3> QED
      BY <1>0, <3>1, <3>3
  <2>5. CASE Chain(c)
    <3>1. PICK t \in Tasks : /\ H(c) = {t} \cup Elems(Tail(hand[c]))
                             /\ \A u \in Tasks : home'[u] = IF u \in Elems(Tail(hand[c])) THEN c ELSE home[u]
      BY <2>5, ChainIs
    <3>2. pc[c] = "chain"
      BY <2>5 DEF Chain
    <3>3. \A u \in Tasks : u \in H(c) => state[u] = "READY" /\ ~Stays(u)
      BY <1>0, <3>2, PlaceOf DEF Fits
    <3> QED
      BY <3>1, <3>3
  <2> QED
    BY <2>1, <2>2, <2>3, <2>4, <2>5
<1>3. \A u \in Tasks : Calm(u)
  BY <1>1, <1>2 DEF Calm, Stays
<1>4. /\ pc[c] \in AtLook \/ (pc[c] \in AtIdle /\ cur[c] = None)
      /\ pc'[c] = pc[c] \/ pc'[c] \in {"found", "chain", "steal", "laststeal"}
      /\ pc'[c] = "laststeal" => (pc[c] = "last" \/ pc'[c] = pc[c])
      /\ \A d \in Carriers \ {c} : pc'[d] = pc[d]
  <2>1. pc[c] \in {"sched", "last", "steal", "laststeal", "chain"} /\ (pc[c] \in {"last", "laststeal"} => cur[c] = None)
    BY DEF Take, StealSlot, StealQueue, Chain, StacksRight, AtIdle
  <2>2. \/ pc' = pc \/ \E x \in {"found", "chain", "steal"} : pc' = [pc EXCEPT ![c] = x]
        \/ (pc[c] = "last" /\ pc' = [pc EXCEPT ![c] = "laststeal"])
    BY DEF Take, StealSlot, StealQueue, Chain, Goto
  <2>3. CASE pc' = pc
    BY <2>1, <2>3 DEF AtLook, AtIdle
  <2>4. ASSUME NEW x, pc' = [pc EXCEPT ![c] = x] PROVE pc'[c] = x /\ \A d \in Carriers \ {c} : pc'[d] = pc[d]
    BY <1>0, <2>4, ProcsIs
  <2>5. CASE \E x \in {"found", "chain", "steal"} : pc' = [pc EXCEPT ![c] = x]
    BY <2>1, <2>4, <2>5 DEF AtLook, AtIdle
  <2>6. CASE pc[c] = "last" /\ pc' = [pc EXCEPT ![c] = "laststeal"]
    BY <2>1, <2>4, <2>6 DEF AtLook, AtIdle
  <2> QED
    BY <2>2, <2>3, <2>5, <2>6
<1>5. \A d \in Carriers :
           \/ pc'[d] = pc[d]
           \/ pc[d] \in AtLook /\ pc'[d] \in AtLook
           \/ cur[d] = None /\ pc[d] # "after" /\ pc'[d] \in AtLook \cup AtIdle
  <2>1. \/ pc'[c] = pc[c]
        \/ pc[c] \in AtLook /\ pc'[c] \in AtLook
        \/ cur[c] = None /\ pc[c] # "after" /\ pc'[c] \in AtLook \cup AtIdle
    BY <1>4 DEF AtLook, AtIdle
  <2> QED
    BY <1>4, <2>1
<1> QED
  BY <1>1, <1>3, <1>5, StacksMove

LEMMA StacksFire ==
  ASSUME IInv, NEW t \in Tasks, Fire(t) \/ Call(t)
  PROVE  StacksRight'
<1> USE DEF IInv
<1>0. home \in [Tasks -> Cars] /\ pc \in [Procs -> Points]
  BY DEF Types
<1>1. UNCHANGED <<cur, left, onstack, state, pinned>>
  BY DEF Fire, Call, stacks, taskVars
<1>2. home' = home \/ (state[t] = "NEW" /\ \E c \in Cars : home' = [home EXCEPT ![t] = c])
  BY DEF Fire, Call, taskVars
<1>3. state[t] = "NEW" => ~Stays(t)
  BY DEF PlacesRight
<1>4. \A u \in Tasks : Calm(u)
  <2>1. \A u \in Tasks : home'[u] = home[u] \/ (state[u] = "NEW" /\ ~Stays(u))
    BY <1>0, <1>2, <1>3
  <2> QED
    BY <1>1, <2>1 DEF Calm, Stays
<1>5. \A c \in Carriers : pc'[c] = pc[c]
  BY <1>0, ProcsIs DEF Fire, Call, Goto
<1> QED
  BY <1>1, <1>4, <1>5, StacksMove

LEMMA StacksHandOn ==
  ASSUME IInv, NEW c \in Carriers, HandOnBlocked(c) \/ Hire
  PROVE  StacksRight'
<1> USE DEF IInv
<1>0. pc \in [Procs -> Points] /\ UNCHANGED <<cur, left, onstack, state, home, pinned>>
  BY DEF Types, HandOnBlocked, Hire, stacks, taskVars
<1>1. \/ pc' = pc \/ pc' = [pc EXCEPT ![Overseer] = "signal"]
      \/ (ncars < MaxCarriers /\ pc' = [pc EXCEPT ![ncars + 1] = "sched"])
  BY DEF HandOnBlocked, Hire, StartWorker, Goto
<1>2. ASSUME ncars < MaxCarriers PROVE ncars + 1 \in Carriers /\ pc[ncars + 1] = "unborn"
  <2>1. ncars + 1 \in Carriers /\ ncars + 1 > ncars
    BY <1>2, CarsIs, SchedAssumption DEF Carriers
  <2> QED
    BY <2>1 DEF PointsRight
<1>3. ASSUME NEW d \in Carriers
      PROVE  pc'[d] = pc[d] \/ (cur[d] = None /\ pc[d] # "after" /\ pc'[d] \in AtLook)
  <2>1. CASE pc' = pc \/ pc' = [pc EXCEPT ![Overseer] = "signal"]
    BY <1>0, <2>1, ProcsIs
  <2>2. CASE ncars < MaxCarriers /\ pc' = [pc EXCEPT ![ncars + 1] = "sched"]
    <3>1. PICK e \in Carriers : e = ncars + 1 /\ pc[e] = "unborn" /\ e \in Procs
      BY <1>2, <2>2, ProcsIs
    <3>2. cur[e] = None
      BY <3>1 DEF StacksRight
    <3>3. pc'[e] = "sched" /\ \A q \in Procs \ {e} : pc'[q] = pc[q]
      <4>1. pc' = [pc EXCEPT ![e] = "sched"]
        BY <2>2, <3>1
      <4> QED
        BY <1>0, <3>1, <4>1
    <3> QED
      BY <3>1, <3>2, <3>3, ProcsIs DEF AtLook
  <2> QED
    BY <1>1, <2>1, <2>2
<1> QED
  BY <1>0, <1>3, CalmSame, StacksMove

(* The steps that change stacks: to g0, to a task, and after either. *)
LEMMA CarrierStays ==
  ASSUME NEW c \in Carriers, NEW d \in Carriers, d # c, CarrierRight(d), pc \in [Procs -> Points],
         cur \in [Carriers -> Tasks \cup {None}], left \in [Carriers -> Tasks \cup {None}],
         NEW x, NEW y, NEW z, pc' = [pc EXCEPT ![c] = x], cur' = cur \/ cur' = [cur EXCEPT ![c] = y],
         left' = [left EXCEPT ![c] = z], \A t \in On(d) : Calm(t)
  PROVE  CarrierRight(d)' /\ On(d)' = On(d)
<1>1. cur'[d] = cur[d] /\ left'[d] = left[d] /\ pc'[d] = pc[d]
  BY ProcsIs
<1> QED
  BY <1>1, CarrierKept DEF On

LEMMA StacksIdle ==
  ASSUME IInv, NEW c \in Carriers, ToIdle(c) \/ PutBack(c)
  PROVE  StacksRight'
<1> USE DEF IInv
<1>0. /\ pc \in [Procs -> Points] /\ cur \in [Carriers -> Tasks \cup {None}]
      /\ left \in [Carriers -> Tasks \cup {None}] /\ c \in Procs
  BY ProcsIs DEF Types
<1>1. /\ pc[c] \in {"steal", "found"} /\ cur[c] # None
      /\ left' = [left EXCEPT ![c] = cur[c]] /\ cur' = [cur EXCEPT ![c] = None]
      /\ pc' = [pc EXCEPT ![c] = "after"] /\ UNCHANGED <<state, home, pinned, onstack>>
  BY DEF ToIdle, PutBack, ToG0, Goto, taskVars
<1>2. \A d \in Carriers : CarrierRight(d)
  BY StacksEach
<1>3. OnRight /\ RunRight
  BY StacksEach
<1>4. left'[c] = cur[c] /\ cur'[c] = None /\ pc'[c] = "after"
  BY <1>0, <1>1
<1>5. left[c] = None /\ state[cur[c]] # "RUN"
  BY <1>1, <1>2 DEF CarrierRight, AtLook
<1>6. On(c)' = On(c)
  BY <1>4, <1>5 DEF On
<1>7. \A d \in Carriers \ {c} : CarrierRight(d)' /\ On(d)' = On(d)
  BY <1>0, <1>1, <1>2, CalmSame, CarrierStays
<1>8. CarrierRight(c)'
  <2>1. \A t \in On(c)' : Stays(t)' => home'[t] = c
    BY <1>1, <1>2, <1>6 DEF CarrierRight, Stays
  <2> QED
    BY <1>1, <1>4, <2>1 DEF CarrierRight, AtCall, AtPush
<1>9. OnRight'
  <2>1. \A d \in Carriers : On(d)' = On(d)
    BY <1>6, <1>7
  <2> QED
    BY <1>1, <1>3, <2>1 DEF OnRight
<1>10. RunRight'
  <2> SUFFICES ASSUME NEW t \in Tasks, state'[t] = "RUN" PROVE \E d \in Carriers : cur'[d] = t
    BY DEF RunRight
  <2>1. PICK d \in Carriers : cur[d] = t
    BY <1>1, <1>3 DEF RunRight
  <2>2. d # c
    BY <1>1, <1>5, <2>1
  <2> QED
    BY <1>0, <1>1, <2>1, <2>2
<1> QED
  BY <1>7, <1>8, <1>9, <1>10, StacksEachNext

LEMMA StacksGo ==
  ASSUME IInv, NEW c \in Carriers, Go(c)
  PROVE  StacksRight'
<1> USE DEF IInv
<1>0. /\ pc \in [Procs -> Points] /\ cur \in [Carriers -> Tasks \cup {None}]
      /\ left \in [Carriers -> Tasks \cup {None}] /\ c \in Procs
      /\ state \in [Tasks -> States] /\ home \in [Tasks -> Cars] /\ onstack \in [Tasks -> BOOLEAN]
      /\ None \notin Tasks
  BY ProcsIs, SchedAssumption DEF Types
<1>1. PICK t \in Tasks : t = hand[c][1] /\ state[t] = "READY" /\ home[t] = c /\ pinned' = pinned
  BY GoIs
<1>2. /\ pc[c] \in {"found", "go"}
      /\ t = cur[c] \/ ~onstack[t]
      /\ state' = [state EXCEPT ![t] = "RUN"] /\ home' = [home EXCEPT ![t] = c]
      /\ onstack' = [onstack EXCEPT ![t] = TRUE] /\ cur' = [cur EXCEPT ![c] = t]
      /\ left' = [left EXCEPT ![c] = IF t = cur[c] THEN None ELSE cur[c]]
      /\ pc' = [pc EXCEPT ![c] = IF cur[c] \in {None, t} THEN "user" ELSE "after"]
  BY <1>1 DEF Go, StackFree, Goto
<1>3. \A d \in Carriers : CarrierRight(d)
  BY StacksEach
<1>4. OnRight /\ RunRight
  BY StacksEach
<1>5. left[c] = None /\ (cur[c] # None => state[cur[c]] # "RUN")
  <2>1. CarrierRight(c) /\ pc[c] \in {"found", "go"}
    BY <1>2, <1>3
  <2> QED
    BY <2>1 DEF CarrierRight, AtLook, AtIdle
<1>6. /\ state'[t] = "RUN" /\ home'[t] = c /\ onstack'[t] = TRUE /\ cur'[c] = t
      /\ left'[c] = IF t = cur[c] THEN None ELSE cur[c]
      /\ pc'[c] = IF cur[c] \in {None, t} THEN "user" ELSE "after"
      /\ \A u \in Tasks \ {t} : state'[u] = state[u] /\ home'[u] = home[u] /\ onstack'[u] = onstack[u]
      /\ \A d \in Carriers \ {c} : cur'[d] = cur[d]
  BY <1>0, <1>2
<1>7. \A u \in Tasks \ {t} : Calm(u)
  BY <1>1, <1>6 DEF Calm, Stays
<1>8. On(c)' = On(c) \cup {t}
  BY <1>0, <1>5, <1>6 DEF On
<1>9. \A d \in Carriers \ {c} : t \notin On(d)
  <2>1. CASE t = cur[c]
    <3>1. t \in On(c)
      BY <1>0, <2>1 DEF On
    <3> QED
      BY <1>4, <3>1 DEF OnRight
  <2>2. CASE ~onstack[t]
    BY <1>4, <2>2 DEF OnRight
  <2> QED
    BY <1>2, <2>1, <2>2
<1>10. \A d \in Carriers \ {c} : CarrierRight(d)' /\ On(d)' = On(d)
  <2> SUFFICES ASSUME NEW d \in Carriers, d # c PROVE CarrierRight(d)' /\ On(d)' = On(d)
    OBVIOUS
  <2>1. \A u \in On(d) : Calm(u)
    BY <1>7, <1>9, OnTasks
  <2> QED
    BY <1>0, <1>2, <1>3, <2>1, CarrierStays
<1>11. CarrierRight(c)'
  <2>1. \A u \in On(c)' : Stays(u)' => home'[u] = c
    <3>1. \A u \in On(c) : Stays(u) => home[u] = c
      BY <1>3 DEF CarrierRight
    <3>2. \A u : Stays(u)' <=> Stays(u)
      BY <1>1 DEF Stays
    <3> QED
      BY <1>6, <1>8, <3>1, <3>2, OnTasks
  <2>2. cur'[c] # None /\ cur'[c] # left'[c] /\ state'[cur'[c]] = "RUN" /\ home'[cur'[c]] = c
    BY <1>0, <1>6
  <2>3. left'[c] # None <=> pc'[c] = "after"
    BY <1>0, <1>6
  <2>4. pc'[c] \in {"user", "after"}
    BY <1>6
  <2> QED
    BY <2>1, <2>2, <2>3, <2>4 DEF CarrierRight, AtIdle, AtSleep, AtLook, Locked
<1>12. OnRight'
  <2>1. \A u \in Tasks : onstack'[u] <=> \E d \in Carriers : u \in On(d)'
    BY <1>4, <1>6, <1>8, <1>10 DEF OnRight
  <2>2. \A d, e \in Carriers : d # e => On(d)' \cap On(e)' = {}
    BY <1>4, <1>8, <1>9, <1>10 DEF OnRight
  <2> QED
    BY <2>1, <2>2 DEF OnRight
<1>13. RunRight'
  <2> SUFFICES ASSUME NEW u \in Tasks, state'[u] = "RUN" PROVE \E d \in Carriers : cur'[d] = u
    BY DEF RunRight
  <2>1. CASE u # t
    <3>1. state[u] = "RUN"
      BY <1>6, <2>1
    <3>2. PICK d \in Carriers : cur[d] = u
      BY <1>4, <3>1 DEF RunRight
    <3>3. d # c
      BY <1>0, <1>5, <3>1, <3>2
    <3> QED
      BY <1>6, <3>2, <3>3
  <2> QED
    BY <1>6, <2>1
<1> QED
  BY <1>10, <1>11, <1>12, <1>13, StacksEachNext

LEMMA StacksAfter ==
  ASSUME IInv, NEW c \in Carriers, After(c)
  PROVE  StacksRight'
<1> USE DEF IInv
<1>0. /\ pc \in [Procs -> Points] /\ cur \in [Carriers -> Tasks \cup {None}]
      /\ left \in [Carriers -> Tasks \cup {None}] /\ c \in Procs
      /\ onstack \in [Tasks -> BOOLEAN] /\ None \notin Tasks
  BY ProcsIs, SchedAssumption DEF Types
<1>1. /\ pc[c] = "after" /\ onstack' = [onstack EXCEPT ![left[c]] = FALSE]
      /\ left' = [left EXCEPT ![c] = None] /\ cur' = cur
      /\ pc' = [pc EXCEPT ![c] = IF cur[c] = None THEN "sched" ELSE "user"]
      /\ UNCHANGED <<state, home, pinned>>
  BY DEF After, Goto
<1>2. \A d \in Carriers : CarrierRight(d)
  BY StacksEach
<1>3. OnRight /\ RunRight
  BY StacksEach
<1>4. PICK u \in Tasks : u = left[c]
  BY <1>0, <1>1, <1>2 DEF CarrierRight
<1>5. /\ cur[c] # u /\ left'[c] = None /\ cur'[c] = cur[c]
      /\ pc'[c] = IF cur[c] = None THEN "sched" ELSE "user"
      /\ onstack'[u] = FALSE /\ \A t \in Tasks \ {u} : onstack'[t] = onstack[t]
  BY <1>0, <1>1, <1>2, <1>4 DEF CarrierRight
<1>6. On(c)' = On(c) \ {u}
  BY <1>0, <1>4, <1>5 DEF On
<1>7. \A d \in Carriers \ {c} : CarrierRight(d)' /\ On(d)' = On(d) /\ u \notin On(d)
  <2>1. \A d \in Carriers \ {c} : CarrierRight(d)' /\ On(d)' = On(d)
    BY <1>0, <1>1, <1>2, CalmSame, CarrierStays
  <2>2. u \in On(c)
    BY <1>0, <1>4 DEF On
  <2> QED
    BY <1>3, <2>1, <2>2 DEF OnRight
<1>8. CarrierRight(c)'
  <2>1. \A t \in On(c)' : Stays(t)' => home'[t] = c
    BY <1>1, <1>2, <1>6 DEF CarrierRight, Stays
  <2>2. cur[c] # None => state[cur[c]] = "RUN" /\ home[cur[c]] = c
    BY <1>1, <1>2 DEF CarrierRight
  <2> QED
    BY <1>1, <1>5, <2>1, <2>2 DEF CarrierRight, AtCall, AtPush, AtLook, AtIdle, AtSleep, Locked
<1>9. OnRight'
  <2>1. \A t \in Tasks : onstack'[t] <=> \E d \in Carriers : t \in On(d)'
    BY <1>3, <1>5, <1>6, <1>7 DEF OnRight
  <2>2. \A d, e \in Carriers : d # e => On(d)' \cap On(e)' = {}
    BY <1>3, <1>6, <1>7 DEF OnRight
  <2> QED
    BY <2>1, <2>2 DEF OnRight
<1>10. RunRight'
  BY <1>1, <1>3 DEF RunRight
<1> QED
  BY <1>7, <1>8, <1>9, <1>10, StacksEachNext

LEMMA StacksNext == IInv /\ [Next]_vars => StacksRight'
<1> SUFFICES ASSUME IInv, [Next]_vars PROVE StacksRight'
  OBVIOUS
<1> QED
  BY BigSteps, StacksSmall, StacksReady, StacksTask, StacksPush, StacksFind, StacksFire, StacksHandOn,
     StacksIdle, StacksGo, StacksAfter

-----------------------------------------------------------------------------
(* The counters. *)
LEMMA CountOne ==
  ASSUME NEW S, IsFiniteSet(S), NEW x
  PROVE  /\ Cardinality(S) \in Nat
         /\ x \notin S => Cardinality(S \cup {x}) = Cardinality(S) + 1
         /\ x \in S => Cardinality(S \ {x}) = Cardinality(S) - 1
BY FS_CardinalityType, FS_AddElement, FS_RemoveElement

LEMMA IdleNext == IInv /\ [Next]_vars => nidle' = Cardinality(Sleepers')
<1> SUFFICES ASSUME IInv, [Next]_vars PROVE nidle' = Cardinality(Sleepers')
  OBVIOUS
<1> USE DEF IInv
<1>0. /\ sleeping \in [Carriers -> BOOLEAN] /\ nidle = Cardinality(Sleepers) /\ IsFiniteSet(Sleepers)
      /\ Sleepers \subseteq Cars /\ Cars \subseteq Carriers
  <2>1. Sleepers \in SUBSET Cars /\ IsFiniteSet(Cars) /\ Cars \subseteq Carriers
    BY CarsIs DEF Sleepers
  <2> QED
    BY <2>1, FS_Subset DEF Types, CountsRight
<1>1. ASSUME NEW c \in Carriers, Sleep(c) PROVE nidle' = Cardinality(Sleepers')
  <2>1. CASE rq[c] = <<>>
    <3>1. /\ sleeping' = [sleeping EXCEPT ![c] = TRUE] /\ nidle' = nidle + 1 /\ ncars' = ncars
          /\ pc[c] = "laststeal"
      BY <1>1, <2>1 DEF Sleep
    <3>2. c \in Cars /\ ~sleeping[c]
      BY <3>1, BornIs, CarrierPointsIs DEF PointsRight
    <3>3. Sleepers' = Sleepers \cup {c} /\ c \notin Sleepers
      BY <1>0, <3>1, <3>2 DEF Sleepers, Cars
    <3> QED
      BY <1>0, <3>1, <3>3, CountOne
  <2>2. CASE rq[c] # <<>>
    BY <1>0, <1>1, <2>2 DEF Sleep, Sleepers, Cars
  <2> QED
    BY <2>1, <2>2
<1>2. ASSUME NEW c \in Carriers, Wake(c) PROVE nidle' = Cardinality(Sleepers')
  <2>1. /\ sleeping' = [sleeping EXCEPT ![c] = FALSE] /\ nidle' = nidle - 1 /\ ncars' = ncars
        /\ pc[c] = "woken"
    BY <1>2 DEF Wake
  <2>2. c \in Cars /\ sleeping[c]
    BY <2>1, BornIs, CarrierPointsIs DEF PointsRight
  <2>3. Sleepers' = Sleepers \ {c} /\ c \in Sleepers
    BY <1>0, <2>1, <2>2 DEF Sleepers, Cars
  <2> QED
    BY <1>0, <2>1, <2>3, CountOne
<1>3. CASE UNCHANGED <<sleeping, nidle>>
  <2>1. Cars \subseteq Cars' /\ Cars' \subseteq Carriers
    BY CarsNext
  <2>2. \A c \in Carriers : sleeping[c] => c \in Cars
    BY BornIs, CarrierPointsIs DEF PointsRight
  <2>3. Sleepers' = Sleepers
    BY <1>0, <1>3, <2>1, <2>2 DEF Sleepers
  <2> QED
    BY <1>0, <1>3, <2>3
<1>4. ASSUME NEW c \in Carriers, Sleep(c) \/ Wake(c) PROVE nidle' = Cardinality(Sleepers')
  BY <1>1, <1>2, <1>4
<1> QED
  BY <1>3, <1>4, SleepingChanges, IdleChanges

LEMMA SpinNext == IInv /\ [Next]_vars => nspin' = Cardinality(Spinners')
<1> SUFFICES ASSUME IInv, [Next]_vars PROVE nspin' = Cardinality(Spinners')
  OBVIOUS
<1> USE DEF IInv
<1>0. /\ spins \in [Carriers -> 0 .. Spins - 1] /\ nspin = Cardinality(Spinners) /\ IsFiniteSet(Spinners)
      /\ Spins \in Nat /\ Spins >= 3
  <2>1. Spinners \in SUBSET Carriers /\ IsFiniteSet(Carriers)
    BY ProcsIs DEF Spinners
  <2> QED
    BY <2>1, FS_Subset, SchedAssumption DEF Types, CountsRight
<1>1. CASE UNCHANGED <<spins, nspin>>
  BY <1>0, <1>1 DEF Spinners
<1>2. ASSUME NEW c \in Carriers, spins[c] > 0, spins' = [spins EXCEPT ![c] = 0], nspin' = nspin - 1
      PROVE  nspin' = Cardinality(Spinners')
  <2>1. Spinners' = Spinners \ {c} /\ c \in Spinners
    BY <1>0, <1>2 DEF Spinners
  <2> QED
    BY <1>0, <1>2, <2>1, CountOne
<1>3. ASSUME NEW c \in Carriers, ~(spins[c] > 0), spins' = [spins EXCEPT ![c] = 0], nspin' = nspin
      PROVE  nspin' = Cardinality(Spinners')
  <2>1. Spinners' = Spinners
    BY <1>0, <1>3 DEF Spinners
  <2> QED
    BY <1>0, <1>3, <2>1
<1>4. ASSUME NEW c \in Carriers, Spin(c) PROVE nspin' = Cardinality(Spinners')
  <2>1. /\ spins' = [spins EXCEPT ![c] = spins[c] + 1] /\ spins[c] \in 0 .. Spins - 1
        /\ nspin' = IF spins[c] = 0 THEN nspin + 1 ELSE nspin
    BY <1>0, <1>4 DEF Spin
  <2>2. spins'[c] > 0 /\ \A d \in Carriers \ {c} : spins'[d] = spins[d]
    BY <1>0, <2>1
  <2>3. Spinners' = Spinners \cup {c}
    BY <2>2 DEF Spinners
  <2>4. CASE spins[c] = 0
    <3>1. c \notin Spinners
      BY <2>4 DEF Spinners
    <3> QED
      BY <1>0, <2>1, <2>3, <2>4, <3>1, CountOne
  <2>5. CASE spins[c] # 0
    <3>1. c \in Spinners
      BY <2>1, <2>5 DEF Spinners
    <3>2. Spinners \cup {c} = Spinners
      BY <3>1
    <3> QED
      BY <1>0, <2>1, <2>3, <2>5, <3>2
  <2> QED
    BY <2>4, <2>5
<1>5. ASSUME NEW c \in Carriers, GiveUp(c) PROVE nspin' = Cardinality(Spinners')
  <2>1. spins[c] + 1 = Spins /\ spins' = [spins EXCEPT ![c] = 0] /\ nspin' = nspin - 1
    BY <1>5 DEF GiveUp
  <2>2. spins[c] > 0
    BY <1>0, <2>1
  <2> QED
    BY <1>2, <2>1, <2>2
<1>6. ASSUME NEW c \in Carriers, Go(c) \/ WaitStack(c) PROVE nspin' = Cardinality(Spinners')
  <2>1. spins' = [spins EXCEPT ![c] = 0] /\ nspin' = IF spins[c] > 0 THEN nspin - 1 ELSE nspin
    BY <1>6 DEF Go, WaitStack
  <2> QED
    BY <1>2, <1>3, <2>1
<1>7. ASSUME NEW c \in Carriers, Spin(c) \/ GiveUp(c) \/ Go(c) \/ WaitStack(c)
      PROVE  nspin' = Cardinality(Spinners')
  BY <1>4, <1>5, <1>6, <1>7
<1> QED
  BY <1>1, <1>7, SpinsChanges, SpinChanges

(* The poller counts a task as pending until it has settled. *)
LEMMA PollNext ==
  IInv /\ [Next]_vars => pending' = Cardinality(Polled') + IF Unsettled' THEN 1 ELSE 0
<1> SUFFICES ASSUME IInv, [Next]_vars PROVE pending' = Cardinality(Polled') + IF Unsettled' THEN 1 ELSE 0
  OBVIOUS
<1> USE DEF IInv
<1>0. /\ state \in [Tasks -> States] /\ pc \in [Procs -> Points] /\ Poller \in Procs
      /\ pending = Cardinality(Polled) + (IF Unsettled THEN 1 ELSE 0)
      /\ IsFiniteSet(Polled) /\ Cardinality(Polled) \in Nat /\ pending \in Int
  <2>1. Polled \in SUBSET Tasks /\ IsFiniteSet(Tasks)
    BY ProcsIs DEF Polled
  <2>2. IsFiniteSet(Polled)
    BY <2>1, FS_Subset
  <2>3. Cardinality(Polled) \in Nat
    BY <2>2, FS_CardinalityType
  <2> QED
    BY <2>2, <2>3, ProcsIs DEF Types, CountsRight
<1> DEFINE goal == pending' = Cardinality(Polled') + IF Unsettled' THEN 1 ELSE 0
<1>1. ASSUME \A t \in Tasks : state'[t] = "POLL" <=> state[t] = "POLL", Unsettled' <=> Unsettled,
             pending' = pending
      PROVE  goal
  <2>1. Polled' = Polled
    BY <1>1 DEF Polled
  <2> QED
    BY <1>0, <1>1, <2>1
<1>2. ASSUME ~Settle, \A c \in Carriers, held \in BOOLEAN : ~Poll(c, held) PROVE pending' = pending
  BY <1>2, PendingChanges
<1>3. Settle => goal
  <2> SUFFICES ASSUME Settle PROVE goal
    OBVIOUS
  <2>1. /\ pending' = pending - 1 /\ state' = state /\ pc[Poller] = "settle"
        /\ pc' = [pc EXCEPT ![Poller] = "free"]
    BY DEF Settle, Goto, taskVars
  <2>2. Polled' = Polled /\ Unsettled /\ ~Unsettled'
    BY <1>0, <2>1 DEF Polled, Unsettled
  <2> QED
    BY <1>0, <2>1, <2>2
<1>4. ASSUME NEW c \in Carriers, NEW held \in BOOLEAN, Poll(c, held) PROVE goal
  <2>1. PICK t \in Tasks : t = cur[c]
    BY <1>4, CurIs DEF Poll, InTask
  <2>2. /\ pending' = pending + 1 /\ state' = [state EXCEPT ![t] = "POLL"] /\ pc[c] = "user"
        /\ pc' = [pc EXCEPT ![c] = "sched"]
    BY <1>4, <2>1 DEF Poll, InTask, Goto
  <2>3. state[t] = "RUN"
    <3>1. cur[c] # None
      BY <1>4 DEF Poll, InTask
    <3> QED
      BY <2>1, <2>2, <3>1 DEF StacksRight
  <2>4. Polled' = Polled \cup {t} /\ t \notin Polled
    BY <1>0, <2>2, <2>3 DEF Polled
  <2>5. Unsettled' <=> Unsettled
    BY <1>0, <2>2, ProcsIs DEF Unsettled
  <2>6. Cardinality(Polled') = Cardinality(Polled) + 1
    BY <1>0, <2>4, CountOne
  <2> QED
    BY <1>0, <2>2, <2>5, <2>6
<1>5. ASSUME NEW p \in Procs, Push(p) PROVE goal
  <2>1. PICK t \in Tasks, c \in Carriers :
           /\ pc[p] = "push" /\ Fits(t, p) /\ state' = [state EXCEPT ![t] = "READY"]
           /\ \E x \in {Back(p), "ask"} :
                pc' = [pc EXCEPT ![p] = x]
                \/ (sleeping[c] /\ pc' = [pc EXCEPT ![p] = Back(p), ![c] = "woken"])
    BY <1>5, PushIs
  <2>2. pending' = pending
    BY <1>5 DEF Push, counters
  <2>3. CASE p = Poller
    <3>1. state[t] = "POLL"
      BY <2>1, <2>3, ProcsIs DEF Fits
    <3>2. pc'[p] \in {"settle", "ask"}
      BY <1>0, <2>1, <2>3, ProcsIs, BackIs
    <3>3. ~Unsettled /\ Unsettled'
      BY <2>1, <2>3, <3>2 DEF Unsettled
    <3>4. Polled' = Polled \ {t} /\ t \in Polled
      BY <1>0, <2>1, <3>1 DEF Polled
    <3>5. Cardinality(Polled') = Cardinality(Polled) - 1
      BY <1>0, <3>4, CountOne
    <3> QED
      BY <1>0, <2>2, <3>3, <3>5
  <2>4. CASE p # Poller
    <3>1. state[t] # "POLL"
      BY <2>1, <2>4 DEF Fits
    <3>2. pc'[Poller] = pc[Poller]
      BY <1>0, <2>1, <2>4, ProcsIs
    <3>3. \A u \in Tasks : state'[u] = "POLL" <=> state[u] = "POLL"
      BY <1>0, <2>1, <3>1
    <3> QED
      BY <1>1, <2>2, <3>2, <3>3 DEF Unsettled
  <2> QED
    BY <2>3, <2>4
<1>6. ASSUME SmallStep, ~Settle, \A c \in Carriers, held \in BOOLEAN : ~Poll(c, held) PROVE goal
  <2>1. state' = state /\ Drift(Poller)
    BY <1>0, <1>6 DEF SmallStep, taskVars
  <2>2. Unsettled' <=> Unsettled
    BY <1>6, <2>1, ProcsIs DEF Drift, Unsettled
  <2> QED
    BY <1>1, <1>2, <1>6, <2>1, <2>2
<1>7. ASSUME NEW c \in Carriers, NEW held \in BOOLEAN, Wait(c, held) \/ Yield(c, held) \/ End(c) PROVE goal
  <2>1. PICK t \in Tasks : t = cur[c]
    BY <1>7, CurIs DEF Wait, Yield, End, InTask
  <2>2. /\ pending' = pending /\ pc[c] = "user" /\ cur[c] # None
        /\ \E s \in {"WAIT", "READY", "DONE"} : state' = [state EXCEPT ![t] = s]
        /\ \E x \in {"sched", "push"} : pc' = [pc EXCEPT ![c] = x]
    BY <1>7, <2>1 DEF Wait, Yield, End, InTask, Goto, counters
  <2>3. state[t] = "RUN"
    BY <2>1, <2>2 DEF StacksRight
  <2>4. \A u \in Tasks : state'[u] = "POLL" <=> state[u] = "POLL"
    BY <1>0, <2>2, <2>3
  <2>5. Unsettled' <=> Unsettled
    BY <1>0, <2>2, ProcsIs DEF Unsettled
  <2> QED
    BY <1>1, <2>2, <2>4, <2>5
<1>8. ASSUME NEW c \in Carriers, NEW t \in Tasks, Ready(c, t) PROVE goal
  <2>1. /\ pending' = pending /\ state[t] \in {"WAIT", "NEW"}
        /\ state' = state \/ state' = [state EXCEPT ![t] = "READY"]
        /\ pc' = pc \/ pc' = [pc EXCEPT ![c] = "push"]
    BY <1>8 DEF Ready, Goto, counters, Wakeable
  <2>2. \A u \in Tasks : state'[u] = "POLL" <=> state[u] = "POLL"
    BY <1>0, <2>1
  <2>3. Unsettled' <=> Unsettled
    BY <1>0, <2>1, ProcsIs DEF Unsettled
  <2> QED
    BY <1>1, <2>1, <2>2, <2>3
<1>9. ASSUME NEW c \in Carriers, NEW v \in Carriers,
             \/ Take(c) \/ Chain(c) \/ ToIdle(c) \/ PutBack(c) \/ After(c)
             \/ StealSlot(c, v) \/ StealQueue(c, v)
      PROVE  goal
  <2>1. UNCHANGED <<state, pending>>
    BY <1>9 DEF Take, Chain, ToIdle, PutBack, After, StealSlot, StealQueue, taskVars, counters
  <2>2. pc' = pc \/ \E x : pc' = [pc EXCEPT ![c] = x]
    BY <1>9 DEF Take, Chain, ToIdle, PutBack, After, StealSlot, StealQueue, ToG0, Goto
  <2>3. Unsettled' <=> Unsettled
    BY <1>0, <2>2, ProcsIs DEF Unsettled
  <2> QED
    BY <1>1, <2>1, <2>3
<1>10. ASSUME NEW c \in Carriers, Go(c) PROVE goal
  <2>1. PICK t \in Tasks : t = hand[c][1] /\ state[t] = "READY"
    BY <1>10, GoIs
  <2>2. /\ pending' = pending /\ state' = [state EXCEPT ![t] = "RUN"] /\ \E x : pc' = [pc EXCEPT ![c] = x]
    BY <1>10, <2>1 DEF Go, Goto
  <2>3. \A u \in Tasks : state'[u] = "POLL" <=> state[u] = "POLL"
    BY <1>0, <2>1, <2>2
  <2>4. Unsettled' <=> Unsettled
    BY <1>0, <2>2, ProcsIs DEF Unsettled
  <2> QED
    BY <1>1, <2>2, <2>3, <2>4
<1>11. ASSUME NEW t \in Tasks, Fire(t) \/ Call(t) PROVE goal
  <2>1. UNCHANGED <<state, pending>>
    BY <1>11 DEF Fire, Call, taskVars, counters
  <2>2. (pc[Poller] = "free" /\ pc' = [pc EXCEPT ![Poller] = "push"]) \/ pc' = [pc EXCEPT ![Thread] = "push"]
    BY <1>11 DEF Fire, Call, Goto
  <2>3. Unsettled' <=> Unsettled
    BY <1>0, <2>2, ProcsIs DEF Unsettled
  <2> QED
    BY <1>1, <2>1, <2>3
<1>12. ASSUME NEW c \in Carriers, HandOnBlocked(c) \/ Hire PROVE goal
  <2>1. UNCHANGED <<state, pending>>
    BY <1>12 DEF HandOnBlocked, Hire, taskVars
  <2>2. \/ pc' = pc \/ pc' = [pc EXCEPT ![Overseer] = "signal"]
        \/ (ncars < MaxCarriers /\ pc' = [pc EXCEPT ![ncars + 1] = "sched"])
    BY <1>12 DEF HandOnBlocked, Hire, StartWorker, Goto
  <2>3. ncars < MaxCarriers => ncars + 1 \in Carriers
    BY CarsIs, SchedAssumption DEF Carriers
  <2>4. Unsettled' <=> Unsettled
    BY <1>0, <2>2, <2>3, ProcsIs DEF Unsettled
  <2> QED
    BY <1>1, <2>1, <2>4
<1> HIDE DEF goal
<1>13. goal
  BY <1>3, <1>4, <1>5, <1>6, <1>7, <1>8, <1>9, <1>10, <1>11, <1>12, BigSteps
<1> QED
  BY <1>13 DEF goal

LEMMA CountsNext == IInv /\ [Next]_vars => CountsRight'
BY IdleNext, SpinNext, PollNext DEF CountsRight

-----------------------------------------------------------------------------
(* The invariant holds at the start. *)
LEMMA PointsInit ==
  ASSUME Init
  PROVE  /\ pc \in [Procs -> Points] /\ pc[1] = "user" /\ ncars = Joined
         /\ \A c \in Carriers : c # 1 => pc[c] = IF c > ncars THEN "unborn" ELSE "sched"
         /\ pc[Poller] = "free" /\ pc[Thread] = "free" /\ pc[Overseer] = "watch"
<1>1. /\ Joined \in Nat /\ Joined >= 1 /\ MaxCarriers \in Nat /\ Joined <= MaxCarriers
      /\ Poller \notin Carriers /\ Thread \notin Carriers /\ Overseer \notin Carriers
      /\ Carriers = 1 .. MaxCarriers
  BY ProcsIs, SchedAssumption DEF Carriers
<1>2. /\ pc = [p \in Procs |-> CASE p = 1 -> "user"
                                 [] p \in 2 .. Joined -> "sched"
                                 [] p \in Joined + 1 .. MaxCarriers -> "unborn"
                                 [] p = Overseer -> "watch"
                                 [] OTHER -> "free"]
      /\ ncars = Joined
  BY DEF Init
<1>3. pc[1] = "user"
  BY <1>1, <1>2, ProcsIs
<1>4. ASSUME NEW c \in Carriers, c # 1 PROVE pc[c] = IF c > ncars THEN "unborn" ELSE "sched"
  <2>1. c \in Procs /\ c \in Nat /\ c >= 1 /\ c <= MaxCarriers
    BY <1>1, ProcsIs
  <2>2. CASE c > ncars
    <3>1. c \notin 2 .. Joined /\ c \in Joined + 1 .. MaxCarriers
      BY <1>1, <1>2, <2>1, <2>2
    <3> QED
      BY <1>1, <1>2, <1>4, <2>1, <2>2, <3>1
  <2>3. CASE ~(c > ncars)
    <3>1. c \in 2 .. Joined
      BY <1>1, <1>2, <1>4, <2>1, <2>3
    <3> QED
      BY <1>1, <1>2, <1>4, <2>1, <2>3, <3>1
  <2> QED
    BY <2>2, <2>3
<1>5. pc[Poller] = "free" /\ pc[Thread] = "free" /\ pc[Overseer] = "watch"
  <2>1. \A p \in {Poller, Thread, Overseer} : p # 1 /\ p \notin 2 .. Joined /\ p \notin Joined + 1 .. MaxCarriers
    BY <1>1
  <2> QED
    BY <1>2, <2>1, ProcsIs
<1>6. \A p \in Procs : pc[p] \in Points
  BY <1>3, <1>4, <1>5 DEF Procs, Points
<1> QED
  BY <1>2, <1>3, <1>4, <1>5, <1>6

LEMMA IInvInit == Init => IInv
<1> SUFFICES ASSUME Init PROVE IInv
  OBVIOUS
<1>1. /\ Joined \in Nat /\ Joined >= 1 /\ MaxCarriers \in Nat /\ Joined <= MaxCarriers
      /\ Spins \in Nat /\ Spins >= 3 /\ Root \in Tasks /\ Root # None
  BY ProcsIs, SchedAssumption
<1>2. ncars = Joined /\ Cars = 1 .. Joined /\ 1 \in Cars
  BY <1>1 DEF Init, Cars
<1>3. Types
  <2>1. ops \in Nat /\ polls \in Nat /\ alive \in BOOLEAN
    <3>1. PICK b \in Budgets : ops = b.ops /\ polls = b.polls /\ alive = b.thread
      BY DEF Init
    <3>2. b.ops \in Nat /\ b.polls \in Nat /\ b.thread \in BOOLEAN
      BY SchedAssumption
    <3> QED
      BY <3>1, <3>2
  <2>2. (\A t \in Tasks : (t = Root) \in BOOLEAN) /\ onstack = [t \in Tasks |-> t = Root]
    BY DEF Init
  <2>3. onstack \in [Tasks -> BOOLEAN]
    BY <2>2, Zenon
  <2>4. state \in [Tasks -> States] /\ home \in [Tasks -> Cars] /\ pinned \in [Tasks -> BOOLEAN]
    BY <1>2 DEF Init, States
  <2>5. /\ rq \in [Carriers -> Seq(Tasks)] /\ runnext \in [Carriers -> Tasks \cup {None}]
        /\ cur \in [Carriers -> Tasks \cup {None}] /\ left \in [Carriers -> Tasks \cup {None}]
    BY <1>1 DEF Init
  <2>6. /\ sleeping \in [Carriers -> BOOLEAN] /\ handed \in [Carriers -> BOOLEAN]
        /\ spins \in [Carriers -> 0 .. Spins - 1] /\ ncars \in Joined .. MaxCarriers
        /\ nidle \in Int /\ nspin \in Int /\ pending \in Int
    BY <1>1 DEF Init
  <2>7. /\ hand \in [Procs -> Seq(Tasks)] /\ look \in [Procs -> SUBSET Cars]
        /\ aim \in [Procs -> Cars \cup {None}] /\ quiet \in {0, 1} /\ aborted \in BOOLEAN /\ short \in BOOLEAN
    <3>1. hand = [p \in Procs |-> <<>>] /\ look = [p \in Procs |-> {}] /\ aim = [p \in Procs |-> None]
      BY DEF Init
    <3>2. quiet = 0 /\ aborted = FALSE /\ short = FALSE
      BY DEF Init
    <3>3. hand \in [Procs -> Seq(Tasks)]
      BY <3>1, ElemsNone
    <3> QED
      BY <3>1, <3>2, <3>3
  <2> QED
    BY <2>1, <2>3, <2>4, <2>5, <2>6, <2>7, PointsInit DEF Types
<1>4. /\ \A c \in Carriers : c \in Nat /\ c >= 1
      /\ \A c \in Carriers : pc[c] \in {"user", "sched", "unborn"} /\ sleeping[c] = FALSE
      /\ \A c \in Carriers : pc[c] = "user" <=> c = 1
      /\ \A c \in Carriers : pc[c] = "unborn" <=> c > ncars
  <2>1. \A c \in Carriers : c \in Nat /\ c >= 1 /\ sleeping[c] = FALSE
    BY <1>1 DEF Carriers, Init
  <2>2. ~(1 > ncars)
    BY <1>1, <1>2
  <2> QED
    BY <2>1, <2>2, PointsInit, ProcsIs
<1>5. PointsRight
  <2>1. \A p \in Procs : pc[p] # "signal"
    BY <1>4, PointsInit DEF Procs
  <2> QED
    BY <1>4, <2>1, PointsInit
       DEF PointsRight, CarrierPoints, PollerPoints, ThreadPoints, WatchPoints, AtCall, AtPush,
           AtLook, AtIdle, AtSleep, Locked
<1>6. \A p \in Procs : hand[p] = <<>> /\ pc[p] \notin {"push", "found", "go", "chain"}
  BY <1>4, PointsInit DEF Init, Procs
<1>7. HandsRight
  BY <1>6 DEF HandsRight
<1>8. /\ \A c \in Carriers : cur[c] = (IF c = 1 THEN Root ELSE None) /\ left[c] = None
      /\ \A t \in Tasks : /\ (onstack[t] <=> t = Root) /\ state[t] = (IF t = Root THEN "RUN" ELSE "NEW")
                          /\ home[t] = 1 /\ ~pinned[t] /\ (Stays(t) <=> t = Root)
      /\ \A c \in Carriers : rq[c] = <<>> /\ runnext[c] = None /\ spins[c] = 0
  BY DEF Init, Stays
<1>9. StacksRight
  <2>1. \A c \in Carriers : On(c) = IF c = 1 THEN {Root} ELSE {}
    BY <1>1, <1>8 DEF On
  <2>2. \A c \in Carriers : left[c] # None <=> pc[c] = "after"
    BY <1>4, <1>8
  <2>3. \A c \in Carriers : pc[c] \in AtIdle \cup AtSleep \cup {"unborn"} => c # 1
    BY <1>4 DEF AtIdle, AtSleep, Locked
  <2>4. \A c \in Carriers : pc[c] \in AtCall \cup AtPush => c = 1
    BY <1>4 DEF AtCall, AtPush
  <2>5. \A c \in Carriers : pc[c] \in AtLook => c # 1
    BY <1>4 DEF AtLook
  <2> QED
    <3>1. 1 \in Carriers
      BY ProcsIs
    <3>2. \A t \in Tasks : (onstack[t] <=> \E c \in Carriers : t \in On(c))
                           /\ (state[t] = "RUN" => \E c \in Carriers : cur[c] = t)
      BY <1>8, <2>1, <3>1
    <3>3. \A c, d \in Carriers : c # d => On(c) \cap On(d) = {}
      BY <2>1
    <3>4. \A c \in Carriers : \A t \in On(c) : Stays(t) => home[t] = c
      BY <1>1, <1>8, <2>1
    <3>5. \A c \in Carriers : c # 1 => cur[c] = None
      BY <1>8
    <3>6. cur[1] = Root /\ cur[1] # None /\ state[Root] = "RUN" /\ home[Root] = 1
          /\ \A c \in Carriers : left[c] = None
      BY <1>1, <1>8, <3>1
    <3>7. \A c \in Carriers :
            /\ cur[c] # None => cur[c] # left[c]
            /\ pc[c] \in {"user", "after"} /\ cur[c] # None => state[cur[c]] = "RUN"
            /\ cur[c] # None /\ state[cur[c]] = "RUN" => home[cur[c]] = c
      BY <3>5, <3>6
    <3>8. \A c \in Carriers :
            /\ pc[c] \in AtIdle \cup AtSleep \cup {"unborn"} => cur[c] = None
            /\ pc[c] \in AtCall \cup AtPush => cur[c] # None
            /\ pc[c] \in AtLook /\ cur[c] # None => state[cur[c]] # "RUN"
      BY <2>3, <2>4, <2>5, <3>5, <3>6
    <3> QED
      BY <2>2, <3>2, <3>3, <3>4, <3>7, <3>8 DEF StacksRight
<1>10. PlacesRight
  <2>1. \A c \in Carriers : Q(c) = {}
    BY <1>8, QIs, ElemsNone
  <2>2. \A p \in Procs : H(p) = {}
    BY <1>6, HIs, ElemsNone
  <2>3. \A t \in Tasks : \A c \in Carriers : runnext[c] # t
    BY <1>8, ProcsIs
  <2>4. \A t \in Tasks : Nowhere(t) /\ state[t] # "READY" /\ (state[t] = "NEW" => ~Stays(t))
    BY <1>8, <2>1, <2>2, <2>3 DEF Nowhere, NoQ, NoS, NoH
  <2> QED
    BY <1>8, <2>4 DEF PlacesRight, PlaceRight
<1>11. DifferRight
  BY <1>6, <1>8, ElemsNone DEF DifferRight
<1>12. CountsRight
  <2>1. Sleepers = {} /\ Spinners = {}
    BY <1>3, <1>4, <1>8, CarsIs DEF Sleepers, Spinners
  <2>2. Polled = {}
    BY <1>8 DEF Polled
  <2>3. ~Unsettled /\ nidle = 0 /\ nspin = 0 /\ pending = 0
    BY PointsInit DEF Unsettled, Init
  <2> QED
    BY <2>1, <2>2, <2>3, FS_EmptySet DEF CountsRight
<1> QED
  BY <1>3, <1>5, <1>7, <1>9, <1>10, <1>11, <1>12 DEF IInv

LEMMA IInvNext == IInv /\ [Next]_vars => IInv'
<1> HIDE DEF IInv
<1> SUFFICES ASSUME IInv, [Next]_vars PROVE IInv'
  OBVIOUS
<1>1. /\ Types' /\ PointsRight' /\ HandsRight' /\ StacksRight'
      /\ PlacesRight' /\ DifferRight' /\ CountsRight'
  BY TypesNext, PointsNext, HandsNext, StacksNext, PlacesNext, DifferNext, CountsNext
<1> QED
  BY <1>1 DEF IInv

LEMMA IInvAlways == Spec => []IInv
<1>1. Init => IInv
  BY IInvInit
<1>2. IInv /\ [Next]_vars => IInv'
  BY IInvNext
<1> QED
  BY <1>1, <1>2, PTL DEF Spec

-----------------------------------------------------------------------------
(* What the invariant says of the system. *)

\* Every variable has its type, and m9_nidle, m9_nspin and m9_poll_pending
\* count the sleeping carriers, the spinning ones and the tasks in the poller.
THEOREM TypeCorrect == Spec => []TypeOK
<1>1. IInv => TypeOK
  <2> SUFFICES ASSUME IInv PROVE TypeOK
    OBVIOUS
  <2> USE DEF IInv
  <2>1. /\ \A c \in Carriers : rq[c] \in Seq(Tasks)
        /\ \A p \in Procs : hand[p] \in Seq(Tasks) /\ look[p] \subseteq Cars
    BY DEF Types
  <2>2. \A s \in Seq(Tasks) : Range(s) \subseteq Tasks
    BY DEF Range
  <2>3. /\ nidle = Cardinality(Sleepers)
        /\ nspin = Cardinality({c \in Carriers : spins[c] > 0})
        /\ pending = Cardinality({t \in Tasks : state[t] = "POLL"})
                       + IF pc[Poller] \in {"ask", "pick", "signal", "settle"} THEN 1 ELSE 0
    BY DEF CountsRight, Spinners, Polled, Unsettled
  <2> QED
    BY <2>1, <2>2, <2>3 DEF Types, TypeOK
<1> QED
  BY <1>1, IInvAlways, PTL

\* At most one carrier uses the stack of a task at any moment, and `onstack'
\* says whether one does (m9_task_go, m9_task_after).
THEOREM OneStackHolds == Spec => []OneStack
<1>1. IInv => OneStack
  <2> SUFFICES ASSUME IInv, NEW t \in Tasks
               PROVE  /\ Cardinality({c \in Carriers : t \in {cur[c], left[c]}}) <= 1
                      /\ onstack[t] <=> {c \in Carriers : t \in {cur[c], left[c]}} # {}
    BY DEF OneStack
  <2> USE DEF IInv
  <2> DEFINE on == {c \in Carriers : t \in {cur[c], left[c]}}
  <2>1. \A c \in Carriers : c \in on <=> t \in On(c)
    BY ProcsIs DEF On
  <2>2. onstack[t] <=> on # {}
    BY <2>1 DEF StacksRight
  <2>3. on = {} \/ \E c : on = {c}
    <3>1. \A c, d \in Carriers : c \in on /\ d \in on => c = d
      BY <2>1 DEF StacksRight
    <3>2. on \subseteq Carriers
      OBVIOUS
    <3> HIDE DEF on
    <3>3. ASSUME NEW c \in on PROVE on = {c}
      BY <3>1, <3>2
    <3> QED
      BY <3>3
  <2>4. Cardinality(on) <= 1
    <3> HIDE DEF on
    <3> QED
      BY <2>3, FS_EmptySet, FS_Singleton
  <2> QED
    BY <2>2, <2>4
<1> QED
  BY <1>1, IInvAlways, PTL

\* A queue of different tasks is no longer than there are tasks.
LEMMA DifferShort ==
  ASSUME NEW s \in Seq(Tasks), Differ(s)
  PROVE  Len(s) <= Cardinality(Tasks)
<1> DEFINE f == [i \in 1 .. Len(s) |-> s[i]]
<1>1. f \in [1 .. Len(s) -> Tasks] /\ \A i, j \in 1 .. Len(s) : f[i] = f[j] => i = j
  BY DEF Differ
<1>2. Len(s) \in Nat
  OBVIOUS
<1> HIDE DEF f
<1>3. PICK D : D = 1 .. Len(s)
  OBVIOUS
<1>4. f \in Injection(D, Tasks)
  BY <1>1, <1>3 DEF Injection, IsInjective
<1>5. IsFiniteSet(Tasks)
  BY SchedAssumption
<1>6. Cardinality(D) <= Cardinality(Tasks)
  BY <1>4, <1>5, FS_Injection
<1>7. Cardinality(1 .. Len(s)) = Len(s)
  BY SMTT(60), <1>2, FS_Interval
<1> QED
  BY <1>3, <1>6, <1>7

\* The places of a task, by where the invariant has it.
LEMMA PlacesAre ==
  ASSUME IInv, NEW t \in Tasks
  PROVE  /\ \A c \in Carriers : OnlyQ(t, c) => Cardinality(Queues(t)) = 1
         /\ NoQ(t) => Cardinality(Queues(t)) = 0
         /\ \A c \in Carriers : OnlyS(t, c) => Cardinality(Slots(t)) = 1
         /\ NoS(t) => Cardinality(Slots(t)) = 0
         /\ \A p \in Procs : OnlyH(t, p) => Cardinality(Hands(t)) = 1
         /\ NoH(t) => Cardinality(Hands(t)) = 0
<1> USE DEF IInv
<1>0. /\ \A c \in Carriers : rq[c] \in Seq(Tasks) /\ Differ(rq[c]) /\ Len(rq[c]) \in Nat
      /\ Cardinality(Tasks) \in Nat
  BY ProcsIs, FS_CardinalityType DEF Types, DifferRight
<1>1. ASSUME NEW c \in Carriers, OnlyQ(t, c) PROVE Cardinality(Queues(t)) = 1
  <2>1. PICK i \in 1 .. Len(rq[c]) : rq[c][i] = t
    BY <1>1 DEF OnlyQ, Q
  <2>2. i \in 1 .. Cardinality(Tasks) /\ i <= Len(rq[c])
    <3>1. Len(rq[c]) <= Cardinality(Tasks)
      BY <1>0, DifferShort
    <3> QED
      BY <1>0, <2>1, <3>1
  <2>3. <<c, i>> \in Queues(t)
    BY <2>1, <2>2 DEF Queues
  <2>4. ASSUME NEW x \in Queues(t) PROVE x = <<c, i>>
    <3>1. PICK d \in Carriers, j \in 1 .. Cardinality(Tasks) : x = <<d, j>> /\ j <= Len(rq[d]) /\ rq[d][j] = t
      BY DEF Queues
    <3>2. j \in 1 .. Len(rq[d])
      BY <1>0, <3>1
    <3>3. t \in Q(d)
      BY <3>1, <3>2 DEF Q
    <3>4. d = c
      BY <1>1, <3>3 DEF OnlyQ
    <3>5. j = i
      BY <1>0, <2>1, <3>1, <3>2, <3>4 DEF Differ
    <3> QED
      BY <3>1, <3>4, <3>5
  <2>5. Queues(t) = {<<c, i>>}
    BY <2>3, <2>4
  <2> QED
    BY <2>5, FS_Singleton
<1>2. ASSUME NoQ(t) PROVE Cardinality(Queues(t)) = 0
  <2>1. ASSUME NEW x \in Queues(t) PROVE FALSE
    <3>1. PICK d \in Carriers, j \in 1 .. Cardinality(Tasks) : x = <<d, j>> /\ j <= Len(rq[d]) /\ rq[d][j] = t
      BY DEF Queues
    <3>2. j \in 1 .. Len(rq[d])
      BY <1>0, <3>1
    <3> QED
      BY <1>2, <3>1, <3>2 DEF NoQ, Q
  <2>2. Queues(t) = {}
    BY <2>1
  <2> QED
    BY <2>2, FS_EmptySet
<1>3. ASSUME NEW c \in Carriers, OnlyS(t, c) PROVE Cardinality(Slots(t)) = 1
  <2>1. Slots(t) = {c}
    BY <1>3 DEF OnlyS, Slots
  <2> QED
    BY <2>1, FS_Singleton
<1>4. ASSUME NoS(t) PROVE Cardinality(Slots(t)) = 0
  <2>1. Slots(t) = {}
    BY <1>4 DEF NoS, Slots
  <2> QED
    BY <2>1, FS_EmptySet
<1>5. \A p \in Procs : p \in Hands(t) <=> t \in H(p)
  BY ContainsIs, HIs DEF Hands
<1>6. ASSUME NEW p \in Procs, OnlyH(t, p) PROVE Cardinality(Hands(t)) = 1
  <2>1. Hands(t) = {p}
    BY <1>5, <1>6 DEF OnlyH, Hands
  <2> QED
    BY <2>1, FS_Singleton
<1>7. ASSUME NoH(t) PROVE Cardinality(Hands(t)) = 0
  <2>1. Hands(t) = {}
    BY <1>5, <1>7 DEF NoH, Hands
  <2> QED
    BY <2>1, FS_EmptySet
<1> QED
  BY <1>1, <1>2, <1>3, <1>4, <1>6, <1>7

\* A ready task is in one queue, slot or hand; one that runs or has ended is
\* in none; one that is being woken is in the hands of one waker at most.
THEOREM QueuedOnceHolds == Spec => []QueuedOnce
<1>1. IInv => QueuedOnce
  <2> SUFFICES ASSUME IInv, NEW t \in Tasks
               PROVE  LET places == Cardinality(Queues(t)) + Cardinality(Slots(t)) + Cardinality(Hands(t))
                      IN CASE state[t] = "READY" -> places = 1
                           [] state[t] \in {"RUN", "DONE"} -> places = 0
                           [] OTHER -> places = Cardinality(Hands(t)) /\ places <= 1
    BY DEF QueuedOnce
  <2>1. PlaceRight(t) /\ state[t] \in States
    BY DEF IInv, PlacesRight, Types
  <2>2. CASE \E c \in Carriers : OnlyQ(t, c) /\ state[t] = "READY"
    <3>1. Cardinality(Queues(t)) = 1 /\ Cardinality(Slots(t)) = 0 /\ Cardinality(Hands(t)) = 0
      BY <2>2, PlacesAre DEF OnlyQ
    <3> QED
      BY <2>2, <3>1
  <2>3. CASE \E c \in Carriers : OnlyS(t, c) /\ state[t] = "READY"
    <3>1. Cardinality(Queues(t)) = 0 /\ Cardinality(Slots(t)) = 1 /\ Cardinality(Hands(t)) = 0
      BY <2>3, PlacesAre DEF OnlyS
    <3> QED
      BY <2>3, <3>1
  <2>4. CASE \E p \in Procs : OnlyH(t, p) /\ Fits(t, p)
    <3>1. Cardinality(Queues(t)) = 0 /\ Cardinality(Slots(t)) = 0 /\ Cardinality(Hands(t)) = 1
      BY <2>4, PlacesAre DEF OnlyH
    <3>2. state[t] \in {"READY", "WAIT", "NEW", "POLL"}
      BY <2>4 DEF Fits
    <3> QED
      BY <3>1, <3>2
  <2>5. CASE Nowhere(t) /\ state[t] # "READY"
    <3>1. Cardinality(Queues(t)) = 0 /\ Cardinality(Slots(t)) = 0 /\ Cardinality(Hands(t)) = 0
      BY <2>5, PlacesAre DEF Nowhere
    <3> QED
      BY <2>5, <3>1
  <2> QED
    BY <2>1, <2>2, <2>3, <2>4, <2>5 DEF PlaceRight
<1> QED
  BY <1>1, IInvAlways, PTL

\* A root, and a task that holds a locked monitor, stays on its carrier: no
\* slot, queue, thief or waker moves it.
THEOREM PinnedStaysHold == Spec => PinnedStays
<1>1. IInv /\ [Next]_vars => [\A t \in Tasks : Stays(t) => home'[t] = home[t]]_vars
  <2> SUFFICES ASSUME IInv, [Next]_vars, NEW t \in Tasks, Stays(t) PROVE home'[t] = home[t]
    OBVIOUS
  <2> USE DEF IInv
  <2>0. /\ home \in [Tasks -> Cars] /\ runnext \in [Carriers -> Tasks \cup {None}]
        /\ \A u \in Tasks : PlaceRight(u) /\ (state[u] = "NEW" => ~Stays(u))
    BY DEF Types, PlacesRight
  <2>1. CASE \E c \in Carriers, u \in Tasks : Ready(c, u)
    BY <2>0, <2>1 DEF Ready
  <2>2. ASSUME NEW c \in Carriers, NEW v \in Carriers, StealSlot(c, v) PROVE home'[t] = home[t]
    <3>1. PICK u \in Tasks : u = runnext[v] /\ home' = [home EXCEPT ![u] = c]
      BY <2>2, CurIs DEF StealSlot
    <3>2. ~Stays(u)
      BY <2>0, <3>1, PlaceOf
    <3> QED
      BY <2>0, <3>1, <3>2
  <2>3. ASSUME NEW c \in Carriers, NEW v \in Carriers, StealQueue(c, v) PROVE home'[t] = home[t]
    <3>1. CASE Loot(v) = <<>>
      BY <2>3, <3>1 DEF StealQueue
    <3>2. CASE Loot(v) # <<>>
      <4>1. PICK u \in Tasks : /\ home' = [home EXCEPT ![u] = c] /\ u = Head(Loot(v)) /\ H(c)' = Elems(Loot(v))
                               /\ \A w \in H(c)' : CanMove(w)
        BY <2>3, <3>2, StealQueueIs
      <4>2. u \in H(c)'
        BY <3>2, <4>1, SplitIs, ElemsTail
      <4> QED
        BY <2>0, <4>1, <4>2 DEF CanMove
    <3> QED
      BY <3>1, <3>2
  <2>4. ASSUME NEW c \in Carriers, Chain(c) PROVE home'[t] = home[t]
    <3>1. PICK u \in Tasks : /\ H(c) = {u} \cup Elems(Tail(hand[c]))
                             /\ \A w \in Tasks : home'[w] = IF w \in Elems(Tail(hand[c])) THEN c ELSE home[w]
      BY <2>4, ChainIs
    <3>2. pc[c] = "chain" /\ c \in Procs /\ c # Poller /\ c # Thread
      BY <2>4, ProcsIs DEF Chain
    <3>3. t \notin H(c)
      BY <2>0, <3>2, PlaceOf DEF Fits
    <3> QED
      BY <3>1, <3>3
  <2>5. ASSUME NEW c \in Carriers, Go(c) PROVE home'[t] = home[t]
    <3>1. PICK u \in Tasks : u = hand[c][1] /\ home[u] = c
      BY <2>5, GoIs
    <3>2. home' = [home EXCEPT ![u] = c]
      BY <2>5, <3>1 DEF Go
    <3> QED
      BY <2>0, <3>1, <3>2
  <2>6. CASE \E u \in Tasks : Call(u)
    BY <2>0, <2>6 DEF Call
  <2> QED
    BY <2>1, <2>2, <2>3, <2>4, <2>5, <2>6, HomeChanges
<1> QED
  BY <1>1, IInvAlways, PTL DEF Spec, PinnedStays
=============================================================================
