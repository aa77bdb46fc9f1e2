------------------------------ MODULE SupProofs ------------------------------
(***************************************************************************)
(* The Board of module Sup, for any number of children and seats, any ring *)
(* and any policies: its types, the limit on restarts, and when Watch      *)
(* returns or gives up.                                                    *)
(***************************************************************************)
EXTENDS Sup, SequenceTheorems, TLAPS

(* An index of the ring is one of its slots, and indices less than a ring  *)
(* apart have different slots.                                             *)
LEMMA InRing ==
  ASSUME NEW R \in Nat \ {0}, NEW a \in Nat
  PROVE  a % R \in 0 .. R - 1
  BY SMT

LEMMA SlotsDiffer ==
  ASSUME NEW R \in Nat \ {0}, NEW a \in Nat, NEW b \in Nat, a < b, b - a < R
  PROVE  a % R # b % R
<1> DEFINE p == a \div R  q == b \div R
<1>1. p \in Int /\ q \in Int /\ a = R * p + (a % R) /\ b = R * q + (b % R)
  BY SMT
<1> SUFFICES ASSUME a % R = b % R PROVE FALSE
  OBVIOUS
<1>2. b - a = R * q - R * p
  <2>1. a % R \in Int /\ R * p \in Int /\ R * q \in Int
    BY <1>1, SMT
  <2> QED
    BY <1>1, <2>1
<1>3. R * q - R * p = R * (q - p)
  BY <1>1, SMT
<1>4. CASE q - p <= 0
  <2>1. R * (q - p) <= 0
    BY <1>1, <1>4, SMT
  <2> QED
    BY <1>1, <1>2, <1>3, <2>1
<1>5. CASE q - p >= 1
  <2>1. R * (q - p) >= R
    BY <1>1, <1>5, SMT
  <2> QED
    BY <1>1, <1>2, <1>3, <2>1
<1> QED
  BY <1>1, <1>4, <1>5

LEMMA PolicyIs ==
  ASSUME NEW p \in Policies
  PROVE  /\ p.maxRestarts \in Nat /\ p.window \in Nat /\ Limits(p) \in Locals
         /\ Limits(p).most = p.maxRestarts /\ Limits(p).window = p.window
         /\ Limits(p).k = 0 /\ Limits(p).finished = 0 /\ Limits(p).giveUp = FALSE
  BY SupAssumption DEF PolicyOK, Limits, Locals

(* A clean restart is counted only where it is not one too many. *)
Counted ==
  /\ times' = [times EXCEPT ![restarts % Ring] = now]
  /\ restarts' = restarts + 1
  /\ log' = Append(log, now)

LEMMA FailingIs ==
  ASSUME ScanFailing
  PROVE  \/ TooMany(now) /\ Scanned(0, TRUE) /\ UNCHANGED <<times, restarts, log>>
         \/ ~TooMany(now) /\ Scanned(0, w.giveUp) /\ Counted
<1>1. CASE TooMany(now)
  BY <1>1 DEF ScanFailing
<1>2. CASE ~TooMany(now)
  BY <1>2 DEF ScanFailing, Counted
<1> QED
  BY <1>1, <1>2

-----------------------------------------------------------------------------
(* Who asks Run for a start, or works, has a seat. *)
Seated == \A c \in Children : cpc[c] \in {"run", "work"} => c < n
Types == TypeOK /\ Seated

LEMMA TypesInit == Init => Types
<1> SUFFICES ASSUME Init PROVE Types
  OBVIOUS
<1>1. w \in Locals
  BY SupAssumption, PolicyIs DEF Init
<1>2. times \in [0 .. Ring - 1 -> Nat] /\ log \in Seq(0..MaxTime)
  BY EmptySeq, SupAssumption DEF Init
<1>3. /\ order \in [Seats -> Nat] /\ dirty \in [Seats -> Nat] /\ state \in [Seats -> States]
      /\ cpc \in [Children -> {"new", "run", "work", "gone"}] /\ run \in [Children -> Nat]
  BY DEF Init, States
<1>4. pol \in Policies /\ n \in 0..Started /\ n <= MaxChildren /\ now \in 0..MaxTime
  BY SupAssumption DEF Init
<1>5. TypeOK
  BY <1>1, <1>2, <1>3, <1>4 DEF Init, TypeOK
<1>6. Seated
  BY DEF Init, Seated
<1> QED
  BY <1>5, <1>6 DEF Types

(* A child's own steps, then Watch's, then the clock's. *)
LEMMA JoinTypes ==
  ASSUME Types, NEW c \in Children, Join(c) \/ NoSeat(c)
  PROVE  Types'
<1>1. CASE Join(c)
  <2>1. n + 1 \in 0..Started /\ n + 1 <= MaxChildren
    BY <1>1, SupAssumption DEF Join, Room, Types, TypeOK, Children
  <2>2. TypeOK'
    BY <1>1, <2>1 DEF Join, SIGNAL, Go, Types, TypeOK, States
  <2>3. Seated'
    BY <1>1, SupAssumption DEF Join, Go, Types, TypeOK, Seated, Children
  <2> QED
    BY <2>2, <2>3 DEF Types
<1>2. CASE NoSeat(c)
  BY <1>2 DEF NoSeat, board, Go, Types, TypeOK, Seated
<1> QED
  BY <1>1, <1>2

LEMMA RunTypes ==
  ASSUME Types, NEW c \in Children, Run(c)
  PROVE  Types'
<1>1. c < n /\ c \in Seats
  BY SupAssumption DEF Run, Types, TypeOK, Seated, Children, Seats
<1> USE DEF Run, Types, TypeOK, Seated
<1>2. CASE RunWait(c)
  BY <1>2 DEF RunWait
<1>3. CASE RunStart(c)
  BY <1>1, <1>3 DEF RunStart, Go, States
<1>4. CASE RunEnd(c)
  BY <1>4 DEF RunEnd, Go
<1> QED
  BY <1>2, <1>3, <1>4

LEMMA EndsTypes ==
  ASSUME Types, NEW c \in Children, Ends(c)
  PROVE  Types'
<1> USE DEF Types, TypeOK, Seated
<1>0. ASSUME NEW what \in States, Reported(c, what)
      PROVE  state' \in [Seats -> States] /\ waiters' = {}
  BY <1>0 DEF Reported, SIGNAL
<1>1. ASSUME NEW what \in States, Report(c, what) PROVE Types'
  BY <1>0, <1>1 DEF Report, Go
<1>2. CASE Crashed(c)
  <2>1. dirty' \in [Seats -> Nat]
    <3>1. c \in Seats
      BY <1>2, SupAssumption DEF Crashed, Children, Seats
    <3> QED
      BY <1>2, <3>1 DEF Crashed
  <2>2. CASE halted' = TRUE /\ UNCHANGED <<state, cpc, waiters>>
    BY <1>2, <2>1, <2>2 DEF Crashed
  <2>3. CASE Reported(c, "Crashing") /\ Go(c, "run") /\ UNCHANGED halted
    BY <1>0, <1>2, <2>1, <2>3 DEF Crashed, Go, States
  <2> QED
    BY <1>2, <2>2, <2>3 DEF Crashed
<1>3. CASE Asked(c)
  BY <1>3 DEF Asked, Go, board
<1> QED
  BY <1>1, <1>2, <1>3 DEF Ends, Done, Failed, States

LEMMA WatchingTypes ==
  ASSUME Types, Watching
  PROVE  Types'
<1> USE DEF Types, TypeOK, Seated
<1>0. ASSUME NEW more \in {0, 1}, NEW up \in BOOLEAN, Scanned(more, up)
      PROVE  w' \in Locals
  <2>1. w.k + 1 \in Nat /\ w.finished + more \in Nat
    BY DEF Locals
  <2> QED
    BY <1>0, <2>1 DEF Scanned, Locals
<1>1. ASSUME Again PROVE order' \in [Seats -> Nat] /\ state' \in [Seats -> States]
  BY <1>1 DEF Again, States
<1>2. CASE Watch
  <2>1. w' \in Locals
    BY <1>2, PolicyIs DEF Watch
  <2> QED
    BY <1>2, <2>1 DEF Watch, board
<1>3. CASE ScanQuiet
  <2>1. w' \in Locals
    BY <1>0, <1>3 DEF ScanQuiet, Locals
  <2> QED
    BY <1>3, <2>1 DEF ScanQuiet, board
<1>4. CASE ScanFailing
  <2>1. w' \in Locals
    BY <1>0, <1>4 DEF ScanFailing, Locals
  <2>2. order' \in [Seats -> Nat] /\ state' \in [Seats -> States]
    BY <1>1, <1>4 DEF ScanFailing
  <2>3. times' \in [0 .. Ring - 1 -> Nat] /\ restarts' \in Nat /\ log' \in Seq(0..MaxTime)
    <3>1. Append(log, now) \in Seq(0..MaxTime)
      BY AppendProperties
    <3>2. now \in Nat
      BY SupAssumption
    <3>3. [times EXCEPT ![restarts % Ring] = now] \in [0 .. Ring - 1 -> Nat]
      BY <3>2
    <3>4. CASE UNCHANGED <<times, restarts, log>>
      BY <3>4
    <3>5. CASE Counted
      BY <3>1, <3>3, <3>5 DEF Counted
    <3> QED
      BY <1>4, <3>4, <3>5, FailingIs
  <2> QED
    BY <1>4, <2>1, <2>2, <2>3 DEF ScanFailing
<1>5. CASE ScanCrashing
  <2>1. w' \in Locals
    BY <1>0, <1>5 DEF ScanCrashing, Locals
  <2>2. order' \in [Seats -> Nat] /\ state' \in [Seats -> States]
    BY <1>1, <1>5 DEF ScanCrashing
  <2> QED
    BY <1>5, <2>1, <2>2 DEF ScanCrashing
<1>6. CASE ScanEnd
  BY <1>6 DEF ScanEnd, Stopped, SIGNAL
<1>7. CASE Rescan
  BY <1>7 DEF Rescan, board, Locals
<1> QED
  BY <1>2, <1>3, <1>4, <1>5, <1>6, <1>7 DEF Watching

LEMMA TypesNext == Types /\ [Next]_vars => Types'
<1> SUFFICES ASSUME Types, [Next]_vars PROVE Types'
  OBVIOUS
<1>1. ASSUME NEW p \in Policies, Policy(p) PROVE Types'
  BY <1>1 DEF Policy, Types, TypeOK, Seated
<1>2. CASE Tick
  BY <1>2, SupAssumption DEF Tick, board, Types, TypeOK, Seated
<1>3. CASE UNCHANGED vars
  BY <1>3 DEF vars, board, Types, TypeOK, Seated
<1> QED
  BY <1>1, <1>2, <1>3, JoinTypes, RunTypes, EndsTypes, WatchingTypes DEF Next

-----------------------------------------------------------------------------
(* What the ring remembers: a slot holds no older restart than those that  *)
(* had it, and each of the last Ring restarts has its slot still.          *)
Newer == \A i \in 1..Len(log) : times[(i - 1) % Ring] >= log[i]
Kept  == \A i \in 1..Len(log) : i + Ring > Len(log) => times[(i - 1) % Ring] = log[i]
Past  == \A i \in 1..Len(log) : log[i] <= now

(* Watch's limits are those of a policy, read before the first restart. *)
FromPolicy == \E p \in Policies : w.most = p.maxRestarts /\ w.window = p.window

Remembered ==
  /\ restarts = Len(log) /\ (wpc = "out" => log = <<>>)
  /\ Past /\ Newer /\ Kept /\ FromPolicy /\ RestartLimit

LEMMA RememberedInit == Init => Remembered
<1> SUFFICES ASSUME Init PROVE Remembered
  OBVIOUS
<1>1. log = <<>> /\ Len(log) = 0
  BY EmptySeq DEF Init
<1>2. FromPolicy
  BY PolicyIs, SupAssumption DEF Init, FromPolicy
<1>3. RestartLimit /\ Past /\ Newer /\ Kept
  BY <1>1 DEF RestartLimit, Past, Newer, Kept
<1> QED
  BY <1>1, <1>2, <1>3 DEF Init, Remembered

(* A step that counts no restart and keeps Watch's limits. *)
Uncounted ==
  /\ UNCHANGED <<times, restarts, log>>
  /\ w'.most = w.most /\ w'.window = w.window
  /\ now' \in {now, now + 1} /\ (wpc' = "out" => wpc = "out")

LEMMA UncountedRemembered ==
  ASSUME Types, Remembered, Uncounted
  PROVE  Remembered'
<1>1. Past'
  <2>1. now \in Int /\ now' \in Int /\ now' >= now /\ log' = log
    BY SupAssumption DEF Types, TypeOK, Uncounted
  <2>2. ASSUME NEW i \in 1..Len(log) PROVE log[i] \in Int /\ log[i] <= now
    BY ElementOfSeq, SupAssumption DEF Types, TypeOK, Remembered, Past
  <2> SUFFICES ASSUME NEW i \in 1..Len(log) PROVE log[i] <= now'
    BY <2>1 DEF Past
  <2> QED
    BY <2>1, <2>2
<1>2. Newer' /\ Kept'
  BY DEF Remembered, Uncounted, Newer, Kept
<1>3. FromPolicy' /\ RestartLimit'
  BY DEF Remembered, Uncounted, FromPolicy, RestartLimit
<1> QED
  BY <1>1, <1>2, <1>3 DEF Remembered, Uncounted

LEMMA WatchRemembered ==
  ASSUME Types, Remembered, Watch
  PROVE  Remembered'
<1>1. log = <<>> /\ log' = <<>> /\ restarts' = restarts /\ wpc' # "out"
  BY DEF Watch, board, Remembered
<1>2. Len(log') = 0 /\ Len(log) = 0
  BY <1>1, EmptySeq
<1>3. FromPolicy'
  BY PolicyIs DEF Watch, FromPolicy, Types, TypeOK
<1>4. RestartLimit' /\ Past' /\ Newer' /\ Kept'
  BY <1>2 DEF RestartLimit, Past, Newer, Kept
<1> QED
  BY <1>1, <1>2, <1>3, <1>4 DEF Remembered

(* Counting the restart number Len(log) + 1: its slot is new, and the slot *)
(* of another of the last Ring restarts is not the one written.            *)
LEMMA CountedRemembered ==
  ASSUME Types, Remembered, ~TooMany(now), Counted,
         w'.most = w.most, w'.window = w.window, now' = now, wpc' = wpc, wpc # "out"
  PROVE  Remembered'
<1> DEFINE L == Len(log)  at(i) == (i - 1) % Ring
<1>1. /\ L \in Nat /\ restarts = L /\ now \in Nat /\ log \in Seq(0..MaxTime)
      /\ times \in [0 .. Ring - 1 -> Nat] /\ Ring \in Nat \ {0}
      /\ \A i \in 1..L : log[i] \in Nat
  BY ElementOfSeq, LenProperties, SupAssumption DEF Types, TypeOK, Remembered
<1>2. /\ Len(log') = L + 1 /\ log'[L + 1] = now
      /\ \A i \in 1..L : log'[i] = log[i]
  <2>1. log' = Append(log, now) /\ now \in 0..MaxTime
    BY DEF Counted, Types, TypeOK
  <2>2. Len(log') = L + 1
    BY <1>1, <2>1, AppendProperties
  <2>3. log'[L + 1] = now
    BY <1>1, <2>1, AppendProperties
  <2>4. ASSUME NEW i \in 1..L PROVE log'[i] = log[i]
    BY <1>1, <2>1, AppendProperties
  <2> QED
    BY <2>2, <2>3, <2>4
<1>3. ASSUME NEW i \in 1 .. L + 1 PROVE at(i) \in 0 .. Ring - 1
  <2>1. i - 1 \in Nat
    BY <1>1
  <2> QED
    BY <1>1, <2>1, InRing
<1>4. times'[at(L + 1)] = now
  <2>1. at(L + 1) = L % Ring
    BY <1>1
  <2>2. L % Ring \in 0 .. Ring - 1
    BY <1>1, InRing
  <2> QED
    BY <1>1, <2>1, <2>2 DEF Counted
<1>5. ASSUME NEW i \in 1..L
      PROVE  times'[at(i)] = IF at(i) = L % Ring THEN now ELSE times[at(i)]
  <2>1. at(i) \in 0 .. Ring - 1
    BY <1>1, <1>3
  <2> QED
    BY <1>1, <2>1 DEF Counted
<1>6. Past'
  <2> SUFFICES ASSUME NEW i \in 1 .. L + 1 PROVE log'[i] <= now
    BY <1>2 DEF Past
  <2>1. i \in 1..L => log[i] <= now
    BY DEF Past, Remembered
  <2> QED
    BY SMTT(60), <1>1, <1>2, <2>1
<1>7. Newer'
  <2> SUFFICES ASSUME NEW i \in 1 .. L + 1 PROVE times'[at(i)] >= log'[i]
    BY <1>2 DEF Newer
  <2>1. CASE i = L + 1
    BY <1>1, <1>2, <1>4, <2>1
  <2>2. CASE i \in 1..L
    <3>1. times[at(i)] >= log[i] /\ now >= log[i] /\ log'[i] = log[i]
      BY <1>1, <1>2, <2>2 DEF Newer, Past, Remembered
    <3> QED
      BY <1>5, <2>2, <3>1
  <2> QED
    BY <1>1, <2>1, <2>2
<1>8. Kept'
  <2> SUFFICES ASSUME NEW i \in 1 .. L + 1, i + Ring > L + 1 PROVE times'[at(i)] = log'[i]
    BY <1>2 DEF Kept
  <2>1. CASE i = L + 1
    BY <1>2, <1>4, <2>1
  <2>2. CASE i \in 1..L
    <3>1. i - 1 \in Nat /\ i - 1 < L /\ L - (i - 1) < Ring
      BY <1>1, <2>2
    <3>2. at(i) # L % Ring
      BY <1>1, <3>1, SlotsDiffer
    <3>3. i + Ring > L
      BY <1>1, <2>2
    <3>4. times[at(i)] = log[i]
      BY <2>2, <3>3 DEF Kept, Remembered
    <3> QED
      BY <1>2, <1>5, <2>2, <3>2, <3>4
  <2> QED
    BY SMTT(60), <1>1, <2>1, <2>2
<1>9. RestartLimit'
  <2>1. w.most \in Nat /\ w.window \in Nat
    BY DEF Types, TypeOK, Locals
  <2> SUFFICES ASSUME NEW i \in 1 .. L + 1, i + w.most <= L + 1
               PROVE  log'[i + w.most] - log'[i] > w.window
    BY <1>2 DEF RestartLimit
  <2>2. w.most # 0 /\ i \in 1..L
    BY <1>1, <2>1 DEF TooMany
  <2>3. CASE i + w.most <= L
    <3>1. i + w.most \in 1..L
      BY <1>1, <2>1, <2>2, <2>3
    <3>2. log[i + w.most] - log[i] > w.window
      BY <2>2, <2>3 DEF RestartLimit, Remembered
    <3> QED
      BY <1>2, <2>2, <3>1, <3>2
  <2>4. CASE i + w.most = L + 1
    <3>1. L >= w.most /\ L - w.most = i - 1
      BY <1>1, <2>1, <2>2, <2>4
    <3>2. ~(now - times[at(i)] <= w.window)
      BY <1>1, <2>2, <3>1 DEF TooMany
    <3>3. times[at(i)] >= log[i] /\ times[at(i)] \in Nat
      <4>1. at(i) \in 0 .. Ring - 1
        BY <1>3, <2>2
      <4> QED
        BY <1>1, <2>2, <4>1 DEF Newer, Remembered
    <3>4. now - log[i] > w.window
      BY SMTT(60), <1>1, <2>1, <2>2, <3>2, <3>3
    <3> QED
      BY <1>2, <2>2, <2>4, <3>4
  <2> QED
    BY SMTT(60), <1>1, <2>1, <2>3, <2>4
<1>10. FromPolicy'
  BY DEF Remembered, FromPolicy
<1> QED
  BY <1>1, <1>2, <1>6, <1>7, <1>8, <1>9, <1>10 DEF Remembered, Counted

LEMMA RememberedNext ==
  ASSUME Types, Remembered, [Next]_vars
  PROVE  Remembered'
<1>0. now \in Int /\ w \in Locals
  BY SupAssumption DEF Types, TypeOK
<1>1. ASSUME NEW more, NEW up, Scanned(more, up) PROVE w'.most = w.most /\ w'.window = w.window
  BY <1>0, <1>1 DEF Scanned, Locals
<1>2. CASE Watch
  BY <1>2, WatchRemembered
<1>3. CASE ScanFailing
  <2>1. w'.most = w.most /\ w'.window = w.window /\ now' = now /\ wpc' = wpc /\ wpc # "out"
    BY <1>1, <1>3, FailingIs DEF ScanFailing, Scanning
  <2>2. CASE UNCHANGED <<times, restarts, log>>
    BY <2>1, <2>2, UncountedRemembered DEF Uncounted
  <2>3. CASE ~TooMany(now) /\ Counted
    BY <2>1, <2>3, CountedRemembered
  <2> QED
    BY <1>3, <2>2, <2>3, FailingIs
<1>4. ASSUME ScanQuiet \/ ScanCrashing PROVE Uncounted
  BY <1>1, <1>4 DEF ScanQuiet, ScanCrashing, Scanning, board, Uncounted
<1>5. ASSUME ScanEnd \/ Rescan PROVE Uncounted
  BY <1>0, <1>5 DEF ScanEnd, Stopped, Rescan, Locals, board, Uncounted
<1>6. ASSUME NEW p \in Policies, Policy(p) PROVE Uncounted
  BY <1>6 DEF Policy, Uncounted
<1>7. ASSUME NEW c \in Children, Join(c) \/ NoSeat(c) \/ Run(c) \/ Ends(c) PROVE Uncounted
  BY <1>7 DEF Join, NoSeat, Run, Ends, Done, Failed, Report, Crashed, Asked, board, Uncounted
<1>8. ASSUME Tick \/ UNCHANGED vars PROVE Uncounted
  BY <1>8 DEF Tick, vars, board, Uncounted
<1> QED
  BY <1>2, <1>3, <1>4, <1>5, <1>6, <1>7, <1>8, UncountedRemembered DEF Next, Watching

-----------------------------------------------------------------------------
(* Until the stop, a child the Board calls finished has run its last order *)
(* to the end; and Watch has found finished what it has counted.           *)
Idle(c) == run[c] = order[c] /\ cpc[c] = "run"
FinishedIdle == ~stop => \A c \in Children : c < n /\ state[c] = "Finished" => Idle(c)
CountRight ==
  wpc = "scan" =>
    /\ w.finished <= w.k /\ w.k <= n
    /\ w.finished = w.k => \A c \in Children : c < w.k => state[c] = "Finished"
NotStopped == wpc \in {"out", "scan", "wait"} => ~stop
Told == FinishedIdle /\ CountRight /\ NotStopped

LEMMA ToldInit == Init => Told
  BY SupAssumption DEF Init, Told, FinishedIdle, CountRight, NotStopped, Children

(* A child's step is taken when Watch is not scanning. *)
LEMMA ChildTold ==
  ASSUME Types, Told, NEW c \in Children, Join(c) \/ NoSeat(c) \/ Run(c) \/ Ends(c)
  PROVE  Told'
<1>1. wpc # "scan" /\ wpc' = wpc /\ stop' = stop
  BY DEF Join, NoSeat, Run, Ends, Done, Failed, Report, Crashed, Asked, Free, board
<1>2. CountRight' /\ NotStopped'
  BY <1>1 DEF Told, CountRight, NotStopped
<1>3. FinishedIdle'
  <2> SUFFICES ASSUME ~stop, NEW d \in Children, d < n', state'[d] = "Finished"
               PROVE  Idle(d)'
    BY <1>1 DEF FinishedIdle
  <2>0. /\ state \in [Seats -> States] /\ order \in [Seats -> Nat]
        /\ cpc \in [Children -> {"new", "run", "work", "gone"}] /\ run \in [Children -> Nat]
        /\ n <= MaxChildren /\ n \in Nat /\ n \in Int /\ c \in Int /\ d \in Int
    BY SupAssumption DEF Types, TypeOK, Children
  <2>1. d < n /\ state[d] = "Finished" => Idle(d)
    BY DEF Told, FinishedIdle
  <2>2. CASE Join(c)
    <3>1. c \in Seats /\ d # c /\ state'[d] = state[d] /\ order'[d] = order[d]
      BY <2>0, <2>2, SupAssumption DEF Join, Room, Children, Seats
    <3>2. d < n /\ run' = run /\ cpc'[d] = cpc[d]
      BY <2>0, <2>2, <3>1 DEF Join, Go
    <3> QED
      BY <2>1, <3>1, <3>2 DEF Idle
  <2>3. CASE NoSeat(c)
    BY <2>0, <2>1, <2>3 DEF NoSeat, Go, board, Idle
  <2>4. CASE Run(c)
    <3>1. c \in Seats /\ UNCHANGED <<n, order>> /\ ~RunEnd(c)
      BY <2>0, <2>4, SupAssumption DEF Run, RunEnd, Types, Seated, Seats, Children
    <3>2. CASE RunWait(c)
      BY <2>1, <3>1, <3>2 DEF RunWait, Idle
    <3>3. CASE RunStart(c)
      BY <2>0, <2>1, <3>1, <3>3 DEF RunStart, Go, Idle
    <3> QED
      BY <2>4, <3>1, <3>2, <3>3 DEF Run
  <2>5. CASE Ends(c)
    <3>1. c \in Seats /\ c < n /\ cpc[c] = "work" /\ UNCHANGED <<n, order, run>>
      BY <2>0, <2>5, SupAssumption
      DEF Ends, Done, Failed, Report, Crashed, Asked, Types, Seated, Seats, Children, board
    <3>2. state[c] # "Finished"
      BY <2>1, <3>1 DEF Told, FinishedIdle, Idle
    <3>3. CASE UNCHANGED <<state, cpc>>
      BY <2>1, <3>1, <3>3 DEF Idle
    <3>4. CASE UNCHANGED state /\ Go(c, "run")
      BY <2>0, <2>1, <3>1, <3>4 DEF Idle, Go
    <3>5. ASSUME NEW what, Reported(c, what), Go(c, "run") PROVE Idle(d)'
      <4>1. CASE d = c
        BY <2>0, <3>1, <3>2, <3>5, <4>1 DEF Idle, Go, Reported
      <4>2. CASE d # c
        BY <2>0, <2>1, <3>1, <3>5, <4>2 DEF Idle, Go, Reported
      <4> QED
        BY <4>1, <4>2
    <3> QED
      BY <2>5, <3>3, <3>4, <3>5 DEF Ends, Done, Failed, Report, Crashed, Asked, board
  <2> QED
    BY <2>2, <2>3, <2>4, <2>5
<1> QED
  BY <1>2, <1>3 DEF Told

(* A child passed over, or started again with its state put back. *)
LEMMA ScanTold ==
  ASSUME Types, Told, ScanQuiet \/ ScanFailing \/ ScanCrashing
  PROVE  Told'
<1>0. /\ wpc = "scan" /\ w.k < n /\ UNCHANGED <<n, stop, cpc, run, wpc>>
      /\ state \in [Seats -> States] /\ order \in [Seats -> Nat] /\ n \in Int
      /\ w \in Locals /\ Joined \subseteq Seats /\ w.k \in Joined
      /\ \A c \in Children : c \in Int /\ (c < n => c \in Seats)
  <2>1. wpc = "scan" /\ w.k < n /\ UNCHANGED <<n, stop, cpc, run, wpc>>
    BY DEF ScanQuiet, ScanFailing, ScanCrashing, Scanning, board
  <2>2. /\ state \in [Seats -> States] /\ order \in [Seats -> Nat]
        /\ w \in Locals /\ w.k \in Nat /\ n \in Nat /\ n <= MaxChildren
    BY SupAssumption DEF Types, TypeOK, Locals
  <2> QED
    BY <2>1, <2>2, SupAssumption DEF Joined, Seats, Children
<1>1. NotStopped'
  BY <1>0 DEF Told, NotStopped
<1>2. ASSUME NEW c \in Children, c < n, state'[c] = "Finished"
      PROVE  state[c] = "Finished" /\ order'[c] = order[c]
  <2>1. CASE UNCHANGED <<order, state>>
    BY <1>2, <2>1
  <2>2. CASE Again
    BY <1>0, <1>2, <2>2 DEF Again
  <2> QED
    BY <2>1, <2>2 DEF ScanQuiet, ScanFailing, ScanCrashing, board
<1>3. FinishedIdle'
  BY <1>0, <1>2 DEF Told, FinishedIdle, Idle
<1>4. /\ w.k \in Nat /\ w.finished \in Nat /\ w.finished <= w.k
      /\ w.finished = w.k => \A c \in Children : c < w.k => state[c] = "Finished"
  BY <1>0 DEF Told, CountRight, Locals
<1>5. CASE ScanQuiet
  <2>1. UNCHANGED state /\ w'.k = w.k + 1
        /\ w'.finished = w.finished + (IF state[w.k] = "Finished" THEN 1 ELSE 0)
    BY <1>0, <1>5 DEF ScanQuiet, Scanned, Locals, board
  <2>2. ASSUME w'.finished = w'.k PROVE state[w.k] = "Finished" /\ w.finished = w.k
    BY <1>4, <2>1, <2>2
  <2>3. ASSUME w'.finished = w'.k, NEW c \in Children, c < w'.k PROVE state[c] = "Finished"
    <3>1. c = w.k \/ c < w.k
      BY <1>0, <1>4, <2>1, <2>3
    <3> QED
      BY <1>4, <2>2, <2>3, <3>1
  <2>4. w'.finished <= w'.k /\ w'.k <= n
    BY <1>0, <1>4, <2>1
  <2>5. CountRight'
    BY <1>0, <2>1, <2>3, <2>4 DEF CountRight
  <2> QED
    BY <1>1, <1>3, <2>5 DEF Told
<1>6. CASE ScanFailing \/ ScanCrashing
  <2>0. ASSUME NEW up, Scanned(0, up) PROVE w'.k = w.k + 1 /\ w'.finished = w.finished
    BY <1>0, <1>4, <2>0 DEF Scanned, Locals
  <2>1. w'.k = w.k + 1 /\ w'.finished = w.finished
    BY <1>6, <2>0, FailingIs DEF ScanCrashing
  <2>2. CountRight'
    BY <1>0, <1>4, <2>1 DEF CountRight
  <2> QED
    BY <1>1, <1>3, <2>2 DEF Told
<1> QED
  BY <1>5, <1>6

(* Watch's other steps, Policy and the clock leave the children as they are. *)
LEMMA OtherTold ==
  ASSUME Types, Told, UNCHANGED <<n, order, state, cpc, run>>,
         \/ Watch \/ Rescan
         \/ ScanEnd
         \/ UNCHANGED <<stop, wpc, w>>
  PROVE  Told'
<1>1. stop' = stop \/ stop' = TRUE
  BY DEF Watch, Rescan, ScanEnd, Stopped, board
<1>2. FinishedIdle'
  BY <1>1 DEF Told, FinishedIdle, Idle
<1>3. n \in Nat /\ w \in Locals /\ \A c \in Children : ~(c < 0)
  BY SupAssumption DEF Types, TypeOK, Children
<1>4. CASE Watch \/ Rescan
  <2>1. w'.k = 0 /\ w'.finished = 0 /\ ~stop /\ stop' = stop
    BY <1>3, <1>4, PolicyIs DEF Watch, Rescan, Locals, Types, TypeOK, board, Told, NotStopped
  <2> QED
    BY <1>2, <1>3, <2>1 DEF Told, CountRight, NotStopped
<1>5. CASE ScanEnd
  BY <1>2, <1>5 DEF ScanEnd, Stopped, Told, CountRight, NotStopped
<1>6. CASE UNCHANGED <<stop, wpc, w>>
  BY <1>2, <1>6 DEF Told, CountRight, NotStopped
<1> QED
  BY <1>4, <1>5, <1>6

LEMMA ToldNext ==
  ASSUME Types, Told, [Next]_vars
  PROVE  Told'
<1>1. ASSUME NEW p \in Policies, Policy(p) PROVE Told'
  BY <1>1, OtherTold DEF Policy
<1>2. CASE Watch \/ Rescan \/ ScanEnd
  BY <1>2, OtherTold DEF Watch, Rescan, ScanEnd, board
<1>3. CASE Tick \/ UNCHANGED vars
  BY <1>3, OtherTold DEF Tick, vars, board
<1> QED
  BY <1>1, <1>2, <1>3, ChildTold, ScanTold DEF Next, Watching

-----------------------------------------------------------------------------
IInv == Types /\ Remembered /\ Told

LEMMA IInvAlways == Spec => []IInv
<1>1. Init => IInv
  BY TypesInit, RememberedInit, ToldInit DEF IInv
<1>2. IInv /\ [Next]_vars => IInv'
  BY TypesNext, RememberedNext, ToldNext DEF IInv
<1> QED
  BY <1>1, <1>2, PTL DEF Spec

(* No more children join than there are seats, and the Board's figures and *)
(* Watch's locals have their types, whatever the policies.                 *)
THEOREM TypeCorrect == Spec => []TypeOK
<1>1. IInv => TypeOK
  BY DEF IInv, Types
<1> QED
  BY <1>1, IInvAlways, PTL

(* At most maxRestarts clean restarts in a window, even under a policy     *)
(* whose maxRestarts the ring cannot hold: Watch then refuses too early,   *)
(* never too late.                                                         *)
THEOREM RestartLimitHolds == Spec => []RestartLimit
<1>1. IInv => RestartLimit
  BY DEF IInv, Remembered
<1> QED
  BY <1>1, IInvAlways, PTL

(* Watch returns only when every child that joined has run its last order  *)
(* to the end and waits in Run for another.                                *)
THEOREM ReturnsRightly == Spec => ReturnsWhenDone
<1>1. ASSUME IInv, [Next]_vars, wpc' = "done", wpc # "done"
      PROVE  n >= Watched /\ \A c \in Joined : run[c] = order[c] /\ cpc[c] = "run"
  <2>1. ScanEnd
    BY <1>1 DEF Next, Policy, Join, NoSeat, Run, Ends, Done, Failed, Report, Crashed, Asked,
       Watching, Watch, ScanQuiet, ScanFailing, ScanCrashing, Rescan, Scanning, Tick, vars
  <2>2. wpc = "scan" /\ w.k >= n /\ AllDone
    BY <1>1, <2>1 DEF ScanEnd, Stopped
  <2>3. /\ n \in Nat /\ w.k \in Nat /\ w.finished \in Nat
        /\ \A c \in Joined : c \in Children /\ c < n
    BY <1>1, SupAssumption DEF IInv, Types, TypeOK, Locals, Joined, Children
  <2>4. w.k = n /\ w.finished = w.k
    BY <1>1, <2>2, <2>3 DEF IInv, Told, CountRight, AllDone
  <2>5. ASSUME NEW c \in Joined PROVE state[c] = "Finished"
    BY <1>1, <2>2, <2>3, <2>4 DEF IInv, Told, CountRight
  <2>6. ASSUME NEW c \in Joined PROVE Idle(c)
    BY <1>1, <2>2, <2>3, <2>5 DEF IInv, Told, FinishedIdle, NotStopped
  <2> QED
    BY <2>2, <2>6 DEF AllDone, Idle
<1> QED
  BY <1>1, IInvAlways, PTL DEF Spec, ReturnsWhenDone

(* Where the ring can hold as many restarts as every policy allows, Watch  *)
(* gives up only when one more would have been one too many: the slot it   *)
(* looks at is still that of the restart it means.                         *)
THEOREM GivesUpRight ==
  ASSUME \A p \in Policies : p.maxRestarts <= Ring
  PROVE  Spec => GivesUpRightly
<1>1. ASSUME IInv, [Next]_vars, w'.giveUp, ~w.giveUp
      PROVE  OneTooMany(now)
  <2>0. w \in Locals
    BY <1>1 DEF IInv, Types, TypeOK
  <2>1. ScanFailing /\ TooMany(now)
    <3>1. ASSUME NEW more, NEW up, Scanned(more, up) PROVE w'.giveUp = up
      BY <2>0, <3>1 DEF Scanned, Locals
    <3>2. ~Watch
      BY <1>1, PolicyIs DEF Watch, IInv, Types, TypeOK
    <3>3. ~Rescan
      BY <1>1, <2>0 DEF Rescan, Locals
    <3>4. ~ScanQuiet /\ ~ScanCrashing /\ (ScanFailing => TooMany(now))
      BY <1>1, <3>1, FailingIs DEF ScanQuiet, ScanCrashing
    <3>5. w' # w
      BY <1>1
    <3> QED
      BY <1>1, <3>2, <3>3, <3>4, <3>5
      DEF Next, Policy, Join, NoSeat, Run, Ends, Done, Failed, Report, Crashed, Asked,
          Watching, ScanEnd, Tick, vars
  <2>2. /\ restarts = Len(log) /\ Kept /\ Len(log) \in Nat /\ Ring \in Nat /\ w.most \in Nat
        /\ w.most <= Ring
    BY <1>1, <2>0, SupAssumption, LenProperties, PolicyIs
    DEF IInv, Types, TypeOK, Remembered, FromPolicy, Locals
  <2>3. CASE w.most # 0 /\ Len(log) >= w.most
    <3>1. /\ Len(log) - w.most + 1 \in 1..Len(log)
          /\ Len(log) - w.most + 1 + Ring > Len(log)
          /\ Len(log) - w.most + 1 - 1 = Len(log) - w.most
      BY <2>2, <2>3
    <3>2. times[(Len(log) - w.most) % Ring] = log[Len(log) - w.most + 1]
      BY <2>2, <3>1 DEF Kept
    <3> QED
      BY <2>1, <2>2, <2>3, <3>2 DEF TooMany, OneTooMany
  <2> QED
    BY <2>1, <2>2, <2>3 DEF TooMany, OneTooMany
<1> QED
  BY <1>1, IInvAlways, PTL DEF Spec, GivesUpRightly
=============================================================================
