--------------------------- MODULE ProgramsProofs ---------------------------
(***************************************************************************)
(* Theorems about the programs that use the library, as MCPrograms puts    *)
(* them together, for any number of processes, servers, messages,          *)
(* repetitions, operations and accounts.                                   *)
(***************************************************************************)
EXTENDS MCPrograms, ColorScanProofs, FiniteSetTheorems, TLAPS

-----------------------------------------------------------------------------
(* barrier_test: the invariant *)

Others == Procs \ {0}

BTTyped ==
  /\ btpc \in [Procs -> {"begin", "loop", "broadcast", "cross", "term"}]
  /\ num \in [Procs -> 0 .. Reps] /\ core \in 0 .. N /\ barr \in [Procs -> Drawn]
  /\ btslot \in [BT!Ch!Chan -> Drawn \cup {None}]
  /\ btarrivals \in [Drawn -> [Procs -> Nat]] /\ btdepartures \in [Drawn -> [Procs -> Nat]]
  /\ btparty \in [Drawn -> SUBSET Procs] /\ btparty[0] = Procs /\ btparty[10] = Procs

\* Where a process is tells how far it has come.
Stage(p) ==
  /\ btpc[p] = "begin" => num[p] = 0
  /\ btpc[p] = "broadcast" => p = 0 /\ core < N
  /\ btpc[p] \in {"broadcast", "cross"} => num[p] < Reps
  /\ btpc[p] = "term" => num[p] = Reps

\* The messages that process 0 has sent to p, and those that p has received.
Sent(p) == IF btpc[0] = "cross" \/ (btpc[0] = "broadcast" /\ core > p)
           THEN num[0] + 1 ELSE num[0]
Received(p) == IF btpc[p] = "cross" THEN num[p] + 1 ELSE num[p]

\* The one that is neither is in the line.
Line(p) ==
  /\ btslot[<<0, p>>] = None => Sent(p) = Received(p)
  /\ btslot[<<0, p>>] # None => Sent(p) = Received(p) + 1

\* A process is inside a barrier only where the program waits on it.
Where(p, b) == \/ btpc[p] = "begin" /\ b = 0
               \/ btpc[p] = "cross" /\ b = barr[p]
               \/ btpc[p] = "loop" /\ num[p] = Reps /\ b = 10

Waits(p, b) ==
  p \in btparty[b] => \/ btarrivals[b][p] = btdepartures[b][p]
                      \/ btarrivals[b][p] = btdepartures[b][p] + 1 /\ Where(p, b)

\* d[r] is the barrier drawn in repetition r; how often it was b before n.
Count(d, b, n) == Cardinality({r \in 0 .. n - 1 : d[r] = b})

\* Everybody knows of the same draws, and has left each barrier as often as
\* they say, besides barrier 0 in the beginning and barrier 10 at the end.
Crossed(d, p, b) ==
  p \in btparty[b] =>
    btdepartures[b][p] = Count(d, b, num[p]) + (IF b = 0 /\ btpc[p] # "begin" THEN 1 ELSE 0)
                                             + (IF b = 10 /\ btpc[p] = "term" THEN 1 ELSE 0)

Draws(d) ==
  /\ \A p \in Procs : btpc[p] \in {"broadcast", "cross"} => barr[p] = d[num[p]]
  /\ \A p \in Others : btslot[<<0, p>>] # None => btslot[<<0, p>>] = d[Received(p)]
  /\ \A p \in Procs, b \in Drawn : Crossed(d, p, b)

BTInv == /\ BTTyped
         /\ \A p \in Procs : Stage(p)
         /\ \A p \in Others : Line(p)
         /\ \A p \in Procs, b \in Drawn : Waits(p, b)
         /\ \E d \in [Nat -> Drawn] : Draws(d)

-----------------------------------------------------------------------------
(* barrier_test: counting *)

LEMMA BTFacts ==
  /\ N \in Nat \ {0} /\ Reps \in Nat /\ 0 \in Procs /\ Procs = 0 .. N - 1
  /\ {0, 10} \subseteq Drawn /\ Drawn \subseteq 0 .. 15 /\ None \notin Drawn
  /\ BT!Procs = Procs /\ BT!Ch!Chan = {c \in Procs \X Procs : c[1] # c[2]}
  /\ \A p \in Others : <<0, p>> \in BT!Ch!Chan /\ p \in Procs /\ p # 0
BY Instances DEF BT!Parameters, BT!Procs, Procs, BT!Ch!Chan, Others

LEMMA OthersAre ==
  ASSUME NEW q \in Others
  PROVE  /\ q \in Procs /\ q # 0 /\ q \in 1 .. N - 1
         /\ <<0, q>> \in BT!Ch!Chan
<1>1. q \in Procs /\ q # 0 BY DEF Others
<1>2. <<0, q>> \in BT!Ch!Chan BY <1>1, BTFacts
<1> QED BY <1>1, <1>2, BTFacts

LEMMA CountIs ==
  ASSUME NEW d, NEW b, NEW n \in Nat
  PROVE  /\ Count(d, b, n) \in Nat /\ Count(d, b, 0) = 0
         /\ Count(d, b, n + 1) = Count(d, b, n) + (IF d[n] = b THEN 1 ELSE 0)
<1> DEFINE S == {r \in 0 .. n - 1 : d[r] = b}
<1>1. IsFiniteSet(S)
  <2>1. IsFiniteSet(0 .. n - 1) BY FS_Interval
  <2> QED BY <2>1, FS_Subset
<1>2. Count(d, b, n) \in Nat BY <1>1, FS_CardinalityType DEF Count
<1>3. Count(d, b, 0) = 0
  <2>1. {r \in 0 .. 0 - 1 : d[r] = b} = {} OBVIOUS
  <2> QED BY <2>1, FS_EmptySet DEF Count
<1>4. CASE d[n] = b
  <2>1. {r \in 0 .. (n + 1) - 1 : d[r] = b} = S \cup {n} /\ n \notin S BY <1>4
  <2> QED BY <1>1, <1>2, <1>3, <1>4, <2>1, FS_AddElement DEF Count
<1>5. CASE d[n] # b
  <2>1. {r \in 0 .. (n + 1) - 1 : d[r] = b} = S BY <1>5
  <2>2. Count(d, b, n + 1) = Count(d, b, n) BY <2>1 DEF Count
  <2> QED BY <1>2, <1>3, <1>5, <2>2
<1> QED BY <1>4, <1>5

\* Draws after n do not count.
LEMMA CountBefore ==
  ASSUME NEW d, NEW e, NEW b, NEW n \in Nat, \A r \in 0 .. n - 1 : d[r] = e[r]
  PROVE  Count(d, b, n) = Count(e, b, n)
<1>1. {r \in 0 .. n - 1 : d[r] = b} = {r \in 0 .. n - 1 : e[r] = b} OBVIOUS
<1> QED BY <1>1 DEF Count

\* A barrier drawn at m is counted once more after it.
LEMMA CountGrows ==
  ASSUME NEW d, NEW b, NEW m \in Nat, NEW n \in Nat, m < n, d[m] = b
  PROVE  Count(d, b, m) < Count(d, b, n)
<1> DEFINE S == {r \in 0 .. (m + 1) - 1 : d[r] = b}
           T == {r \in 0 .. n - 1 : d[r] = b}
<1>1. IsFiniteSet(T)
  <2>1. IsFiniteSet(0 .. n - 1) BY FS_Interval
  <2> QED BY <2>1, FS_Subset
<1>2. S \subseteq T OBVIOUS
<1>3. Cardinality(S) <= Cardinality(T) BY <1>1, <1>2, FS_Subset
<1>4. /\ Cardinality(S) = Count(d, b, m + 1) /\ Cardinality(T) = Count(d, b, n) BY DEF Count
<1>5. /\ Count(d, b, m + 1) = Count(d, b, m) + 1 /\ Count(d, b, m) \in Nat /\ Count(d, b, n) \in Nat
  BY CountIs
<1> QED BY <1>3, <1>4, <1>5

-----------------------------------------------------------------------------
(* barrier_test: the properties follow *)

LEMMA BTSafe == BTInv => BarriersInStep
<1> SUFFICES ASSUME BTInv PROVE BarriersInStep
  OBVIOUS
<1>t. BTTyped /\ \A p \in Procs : Stage(p) /\ num[p] \in Nat BY DEF BTInv, BTTyped
<1>1. PICK d \in [Nat -> Drawn] : Draws(d) BY DEF BTInv
<1>2. BT!SameBarrier
  <2> SUFFICES ASSUME NEW p \in Procs, NEW q \in Procs, btpc[p] = "cross", btpc[q] = "cross",
                      num[p] = num[q]
               PROVE  barr[p] = barr[q]
    BY BTFacts DEF BT!SameBarrier
  <2> QED BY <1>1 DEF Draws
<1>3. BT!NotFarAhead
  <2> SUFFICES ASSUME NEW p \in Procs PROVE num[0] <= num[p] + 2
    BY BTFacts DEF BT!NotFarAhead
  <2>1. CASE p = 0 BY <1>t, <2>1
  <2>2. CASE p # 0
    <3>1. Line(p) BY <2>2 DEF BTInv, Others
    <3>2. num[0] \in Nat /\ num[p] \in Nat BY <1>t, BTFacts
    <3> QED BY <3>1, <3>2 DEF Line, Sent, Received
  <2> QED BY <2>1, <2>2
<1>4. BT!InStep
  <2> SUFFICES ASSUME NEW b \in Drawn, NEW p \in btparty[b], NEW q \in btparty[b],
                      BT!Inside(p, b), BT!Inside(q, b), btarrivals[b][p] = btarrivals[b][q],
                      num[p] # num[q]
               PROVE  FALSE
    BY DEF BT!InStep
  <2>1. p \in Procs /\ q \in Procs /\ num[p] \in Nat /\ num[q] \in Nat BY <1>t DEF BTTyped
  <2>2. ASSUME NEW r \in {p, q}
        PROVE  /\ Where(r, b) /\ btarrivals[b][r] = btdepartures[b][r] + 1
               /\ Crossed(d, r, b) /\ r \in btparty[b] /\ Stage(r)
               /\ btdepartures[b][r] \in Nat /\ Count(d, b, num[r]) \in Nat
               /\ num[r] \in Nat /\ num[r] <= Reps
    <3>1. r \in Procs /\ Waits(r, b) /\ BT!Inside(r, b) BY <2>1 DEF BTInv
    <3>2. btdepartures[b][r] \in Nat /\ num[r] \in 0 .. Reps BY <1>t, <3>1 DEF BTTyped
    <3>3. Count(d, b, num[r]) \in Nat BY <3>2, CountIs
    <3> QED BY <1>1, <1>t, <3>1, <3>2, <3>3, BTFacts DEF Waits, BT!Inside, Draws
  <2>3. btdepartures[b][p] = btdepartures[b][q] BY <2>2
  <2>4. ASSUME NEW r \in {p, q}, NEW s \in {p, q}, num[r] < num[s],
               btdepartures[b][r] = btdepartures[b][s]
        PROVE  FALSE
    <3>1. CASE btpc[r] = "begin" /\ b = 0
      <4>1. btdepartures[b][r] = 0
        <5>1. num[r] = 0 /\ Count(d, b, 0) = 0 BY <3>1, <2>2, CountIs DEF Stage
        <5> QED BY <2>2, <3>1, <5>1 DEF Crossed
      <4>2. btpc[s] # "begin" BY <2>2, <2>4 DEF Stage
      <4>3. btdepartures[b][s] >= 1 BY <2>2, <3>1, <4>2 DEF Crossed
      <4> QED BY <2>4, <4>1, <4>3
    <3>2. CASE btpc[r] = "cross" /\ b = barr[r]
      <4>1. d[num[r]] = b BY <1>1, <2>1, <3>2 DEF Draws
      <4>2. Count(d, b, num[r]) < Count(d, b, num[s]) BY <2>2, <2>4, <4>1, CountGrows
      <4>3. btdepartures[b][r] = Count(d, b, num[r]) + IF b = 0 THEN 1 ELSE 0
        BY <2>2, <3>2 DEF Crossed
      <4>4. btpc[s] # "begin" BY <2>2, <2>4 DEF Stage
      <4>5. btdepartures[b][s] >= Count(d, b, num[s]) + IF b = 0 THEN 1 ELSE 0
        BY <2>2, <4>4 DEF Crossed
      <4> QED BY <2>2, <2>4, <4>2, <4>3, <4>5
    <3>3. CASE num[r] = Reps BY <2>2, <2>4, <3>3, BTFacts
    <3> QED BY <2>2, <3>1, <3>2, <3>3 DEF Where
  <2> QED BY <2>1, <2>3, <2>4
<1> QED BY <1>2, <1>3, <1>4 DEF BarriersInStep
-----------------------------------------------------------------------------
(* barrier_test: the invariant holds *)

LEMMA BTInitHolds == BT!Init => BTInv
<1> SUFFICES ASSUME BT!Init PROVE BTInv
  OBVIOUS
<1>1. /\ btslot = [c \in BT!Ch!Chan |-> None]
      /\ btparty = [b \in Drawn |-> IF b = 1 THEN {p \in Procs : BT!color_app(p)} ELSE Procs]
      /\ btarrivals = [b \in Drawn |-> [p \in Procs |-> 0]]
      /\ btdepartures = [b \in Drawn |-> [p \in Procs |-> 0]]
      /\ btpc = [p \in Procs |-> "begin"] /\ core = 0
      /\ barr = [p \in Procs |-> 0] /\ num = [p \in Procs |-> 0]
  BY BTFacts DEF BT!Init, BT!Ch!Init
<1>2. BTTyped BY <1>1, BTFacts DEF BTTyped
<1>3. \A p \in Procs : Stage(p) BY <1>1 DEF Stage
<1>4. \A p \in Others : Line(p) BY <1>1, BTFacts DEF Line, Sent, Received
<1>5. \A p \in Procs, b \in Drawn : Waits(p, b) BY <1>1 DEF Waits
<1>6. \A d : Draws(d)
  <2> SUFFICES ASSUME NEW d PROVE Draws(d)
    OBVIOUS
  <2>1. \A b \in Drawn : Count(d, b, 0) = 0 BY CountIs
  <2>2. \A p \in Procs, b \in Drawn : Crossed(d, p, b) BY <1>1, <2>1 DEF Crossed
  <2> QED BY <1>1, <2>2, BTFacts DEF Draws
<1>7. [r \in Nat |-> 0] \in [Nat -> Drawn] BY BTFacts
<1> QED BY <1>2, <1>3, <1>4, <1>5, <1>6, <1>7 DEF BTInv

\* Somebody enters a barrier.
LEMMA EnterStep ==
  ASSUME BTInv, NEW p \in Procs, NEW b \in Drawn, BT!Bar!Arrive(b, p), Where(p, b),
         UNCHANGED <<btslot, btpc, core, barr, num>>
  PROVE  BTInv'
<1>t. BTTyped BY DEF BTInv
<1>1. /\ btarrivals[b][p] = btdepartures[b][p]
      /\ btarrivals' = [btarrivals EXCEPT ![b][p] = @ + 1]
      /\ UNCHANGED <<btparty, btdepartures>>
  BY DEF BT!Bar!Arrive
<1>2. /\ btarrivals' \in [Drawn -> [Procs -> Nat]]
      /\ \A c \in Drawn, q \in Procs :
           btarrivals'[c][q] = IF c = b /\ q = p THEN btarrivals[c][q] + 1 ELSE btarrivals[c][q]
  BY <1>t, <1>1 DEF BTTyped
<1>3. BTTyped' BY <1>t, <1>1, <1>2 DEF BTTyped
<1>4. \A q \in Procs : Stage(q)' BY DEF BTInv, Stage
<1>5. \A q \in Others : Line(q)' BY DEF BTInv, Line, Sent, Received
<1>6. ASSUME NEW q \in Procs, NEW c \in Drawn PROVE Waits(q, c)'
  <2>1. Waits(q, c) BY DEF BTInv
  <2>2. Where(q, c)' = Where(q, c) BY DEF Where
  <2>3. CASE c = b /\ q = p BY <1>1, <1>2, <2>2, <2>3 DEF Waits
  <2>4. CASE ~(c = b /\ q = p) BY <1>1, <1>2, <2>1, <2>2, <2>4 DEF Waits
  <2> QED BY <2>3, <2>4
<1>7. PICK d \in [Nat -> Drawn] : Draws(d) BY DEF BTInv
<1>8. \A q \in Procs, c \in Drawn : Crossed(d, q, c)' BY <1>1, <1>7 DEF Draws, Crossed
<1>9. Draws(d)' BY <1>7, <1>8 DEF Draws, Received
<1> QED BY <1>3, <1>4, <1>5, <1>6, <1>9 DEF BTInv

\* Somebody's wait is over, in the beginning, in a repetition or at the end.
LEMMA LeaveStep ==
  ASSUME BTInv, NEW p \in Procs, NEW b \in Drawn, NEW place,
         \/ BT!Bar!Depart(b, p)
         \/ p \notin btparty[b] /\ UNCHANGED <<btparty, btarrivals, btdepartures>>,
         UNCHANGED <<btslot, core, barr>>, btpc' = [btpc EXCEPT ![p] = place],
         \/ btpc[p] = "begin" /\ place = "loop" /\ b = 0 /\ num' = num
         \/ btpc[p] = "cross" /\ place = "loop" /\ b = barr[p] /\ num' = [num EXCEPT ![p] = @ + 1]
         \/ btpc[p] = "loop" /\ place = "term" /\ b = 10 /\ num[p] = Reps /\ num' = num
  PROVE  BTInv'
<1>t. BTTyped /\ \A q \in Procs : num[q] \in 0 .. Reps /\ Stage(q) BY DEF BTInv, BTTyped
<1>1. /\ UNCHANGED <<btparty, btarrivals>>
      /\ p \in btparty[b] => /\ btdepartures[b][p] < btarrivals[b][p]
                             /\ btdepartures' = [btdepartures EXCEPT ![b][p] = @ + 1]
      /\ p \notin btparty[b] => UNCHANGED btdepartures
  BY DEF BT!Bar!Depart
<1>2. /\ btdepartures' \in [Drawn -> [Procs -> Nat]]
      /\ \A c \in Drawn, q \in Procs :
           btdepartures'[c][q] = IF c = b /\ q = p /\ p \in btparty[b]
                                 THEN btdepartures[c][q] + 1 ELSE btdepartures[c][q]
  BY <1>t, <1>1 DEF BTTyped
<1>3. \A q \in Procs : btpc'[q] = IF q = p THEN place ELSE btpc[q]
  BY <1>t DEF BTTyped
<1>4. /\ num' \in [Procs -> 0 .. Reps]
      /\ \A q \in Procs : num'[q] = IF q = p /\ btpc[p] = "cross" THEN num[q] + 1 ELSE num[q]
  <2>1. btpc[p] = "cross" => num[p] + 1 \in 0 .. Reps BY <1>t, BTFacts DEF Stage
  <2> QED BY <1>t, <2>1 DEF BTTyped
<1>5. BTTyped' BY <1>t, <1>1, <1>2, <1>4 DEF BTTyped
<1>6. ASSUME NEW q \in Procs PROVE Stage(q)'
  BY <1>t, <1>3, <1>4 DEF Stage
<1>7. ASSUME NEW q \in Others PROVE Line(q)'
  <2>1. q \in Procs /\ 0 \in Procs /\ Line(q) BY BTFacts DEF BTInv
  <2>2. Sent(q)' = Sent(q)
    <3>1. btpc[p] = "broadcast" => FALSE OBVIOUS
    <3>2. num'[0] = (IF 0 = p /\ btpc[p] = "cross" THEN num[0] + 1 ELSE num[0]) BY <2>1, <1>4
    <3>3. btpc'[0] = (IF 0 = p THEN place ELSE btpc[0]) BY <2>1, <1>3
    <3>4. CASE p = 0
      <4>1. btpc'[0] \in {"loop", "term"} /\ btpc[0] # "broadcast" BY <3>1, <3>3, <3>4
      <4>2. Sent(q)' = num'[0] BY <4>1 DEF Sent
      <4>3. Sent(q) = IF btpc[0] = "cross" THEN num[0] + 1 ELSE num[0] BY <4>1 DEF Sent
      <4> QED BY <3>2, <3>4, <4>2, <4>3
    <3>5. CASE p # 0 BY <3>2, <3>3, <3>5 DEF Sent
    <3> QED BY <3>4, <3>5
  <2>3. Received(q)' = Received(q) BY <2>1, <1>3, <1>4 DEF Received
  <2> QED BY <2>1, <2>2, <2>3 DEF Line
<1>8. ASSUME NEW q \in Procs, NEW c \in Drawn PROVE Waits(q, c)'
  <2>1. Waits(q, c) /\ btarrivals[c][q] \in Nat /\ btdepartures[c][q] \in Nat
    BY <1>t DEF BTInv, BTTyped
  <2>2. CASE q # p
    <3>1. Where(q, c)' = Where(q, c) BY <2>2, <1>3, <1>4 DEF Where
    <3> QED BY <1>1, <1>2, <2>1, <2>2, <3>1 DEF Waits
  <2>3. CASE q = p /\ c = b BY <1>1, <1>2, <2>1, <2>3 DEF Waits
  <2>4. CASE q = p /\ c # b
    <3>1. ~Where(q, c) BY <2>4 DEF Where
    <3> QED BY <1>1, <1>2, <2>1, <2>4, <3>1 DEF Waits
  <2> QED BY <2>2, <2>3, <2>4
<1>9. PICK d \in [Nat -> Drawn] : Draws(d) BY DEF BTInv
<1>10. ASSUME NEW q \in Procs, NEW c \in Drawn PROVE Crossed(d, q, c)'
  <2>1. Crossed(d, q, c) BY <1>9 DEF Draws
  <2>2. CASE q # p BY <1>1, <1>2, <1>3, <1>4, <2>1, <2>2 DEF Crossed
  <2>3. CASE q = p
    <3> SUFFICES ASSUME p \in btparty[c]
                 PROVE  btdepartures'[c][p] = Count(d, c, num'[p])
                          + (IF c = 0 /\ btpc'[p] # "begin" THEN 1 ELSE 0)
                          + (IF c = 10 /\ btpc'[p] = "term" THEN 1 ELSE 0)
      BY <1>1, <2>3 DEF Crossed
    <3>1. /\ btdepartures[c][p] = Count(d, c, num[p])
               + (IF c = 0 /\ btpc[p] # "begin" THEN 1 ELSE 0)
               + (IF c = 10 /\ btpc[p] = "term" THEN 1 ELSE 0)
          /\ btdepartures'[c][p] = btdepartures[c][p] + IF c = b THEN 1 ELSE 0
      BY <1>t, <1>2, <2>1, <2>3 DEF Crossed, BTTyped
    <3>2. num[p] \in Nat /\ Count(d, c, num[p]) \in Nat BY <1>t, CountIs
    <3>3. btpc'[p] = place /\ num'[p] = IF btpc[p] = "cross" THEN num[p] + 1 ELSE num[p]
      BY <1>3, <1>4
    <3>4. CASE btpc[p] = "begin" BY <3>1, <3>2, <3>3, <3>4
    <3>5. CASE btpc[p] = "loop" BY <3>1, <3>2, <3>3, <3>5
    <3>6. CASE btpc[p] = "cross"
      <4>1. d[num[p]] = b BY <1>9, <3>6 DEF Draws
      <4>2. Count(d, c, num[p] + 1) = Count(d, c, num[p]) + IF c = b THEN 1 ELSE 0
        BY <3>2, <4>1, CountIs
      <4>3. num'[p] = num[p] + 1 /\ place = "loop" BY <3>3, <3>6
      <4> QED BY <3>1, <3>2, <3>3, <3>6, <4>2, <4>3
    <3> QED BY <3>4, <3>5, <3>6
  <2> QED BY <2>2, <2>3
<1>11. Draws(d)'
  <2>1. ASSUME NEW q \in Procs, btpc'[q] \in {"broadcast", "cross"} PROVE barr'[q] = d[num'[q]]
    <3>1. q # p BY <1>3, <2>1
    <3> QED BY <1>3, <1>4, <1>9, <2>1, <3>1 DEF Draws
  <2>2. ASSUME NEW q \in Others PROVE Received(q)' = Received(q)
    <3>1. q \in Procs BY <2>2, BTFacts
    <3>2. q = p => btpc'[q] \in {"loop", "term"} BY <1>3, <3>1
    <3> QED BY <1>3, <1>4, <3>1, <3>2 DEF Received
  <2> QED BY <1>9, <1>10, <2>1, <2>2 DEF Draws
<1> QED BY <1>5, <1>6, <1>7, <1>8, <1>11 DEF BTInv
LEMMA DrawStep == BTInv /\ BT!Draw => BTInv'
<1> SUFFICES ASSUME BTInv, BT!Draw PROVE BTInv'
  OBVIOUS
<1>t. BTTyped /\ \A q \in Procs : num[q] \in 0 .. Reps /\ Stage(q) BY DEF BTInv, BTTyped
<1>1. /\ btpc[0] = "loop" /\ num[0] < Reps /\ core' = 0
      /\ UNCHANGED <<btslot, btparty, btarrivals, btdepartures, num>>
      /\ btpc' = [btpc EXCEPT ![0] = "broadcast"]
  BY DEF BT!Draw, BT!channels, BT!barrier
<1>2. PICK b \in Drawn : barr' = [barr EXCEPT ![0] = b] BY DEF BT!Draw
<1>3. /\ \A q \in Procs : btpc'[q] = IF q = 0 THEN "broadcast" ELSE btpc[q]
      /\ \A q \in Procs : barr'[q] = IF q = 0 THEN b ELSE barr[q]
  BY <1>t, <1>1, <1>2, BTFacts DEF BTTyped
<1>4. BTTyped'
  <2>1. /\ barr' \in [Procs -> Drawn] /\ core' \in 0 .. N
        /\ btpc' \in [Procs -> {"begin", "loop", "broadcast", "cross", "term"}]
    <3>1. barr' \in [Procs -> Drawn] BY <1>t, <1>2 DEF BTTyped
    <3>2. btpc' \in [Procs -> {"begin", "loop", "broadcast", "cross", "term"}]
      BY <1>t, <1>1 DEF BTTyped
    <3>3. core' \in 0 .. N BY <1>1, BTFacts
    <3> QED BY <3>1, <3>2, <3>3
  <2> QED BY <1>t, <1>1, <2>1 DEF BTTyped
<1>5. \A q \in Procs : Stage(q)' BY <1>t, <1>1, <1>3, BTFacts DEF Stage
<1>6. ASSUME NEW q \in Others
      PROVE  /\ Line(q) /\ Line(q)' /\ Sent(q) = num[0] /\ Received(q)' = Received(q)
             /\ q \in Procs /\ num[q] \in Nat
  <2>1. q \in Procs /\ q \in 1 .. N - 1 /\ q # 0 /\ 0 \in Procs /\ num[q] \in Nat
    <3>1. q \in Procs /\ q \in 1 .. N - 1 /\ q # 0 BY OthersAre
    <3> QED BY <1>t, <3>1, BTFacts
  <2>2. Received(q)' = Received(q) BY <1>1, <1>3, <2>1 DEF Received
  <2>3. Sent(q)' = num[0] /\ Sent(q) = num[0]
    <3>1. btpc'[0] = "broadcast" /\ ~(core' > q) BY <1>1, <1>3, <2>1
    <3> QED BY <1>1, <3>1 DEF Sent
  <2>4. Line(q) BY DEF BTInv
  <2> QED BY <1>1, <2>1, <2>2, <2>3, <2>4 DEF Line
<1>7. ASSUME NEW q \in Procs, NEW c \in Drawn PROVE Waits(q, c)'
  <2>1. Waits(q, c) BY DEF BTInv
  <2>2. btarrivals[c][q] # btdepartures[c][q] /\ q \in btparty[c] => Where(q, c)' = Where(q, c)
    <3>1. CASE q # 0 BY <1>1, <1>3, <3>1 DEF Where
    <3>2. CASE q = 0
      <4>1. ~Where(0, c)
        <5>1. num[0] # Reps BY <1>1, <1>t, BTFacts
        <5> QED BY <1>1, <5>1 DEF Where
      <4>2. btarrivals[c][q] = btdepartures[c][q] \/ q \notin btparty[c]
        BY <2>1, <3>2, <4>1 DEF Waits
      <4> QED BY <4>2
    <3> QED BY <3>1, <3>2
  <2> QED BY <1>1, <2>1, <2>2 DEF Waits
<1>8. PICK d \in [Nat -> Drawn] : Draws(d) BY DEF BTInv
<1>9. PICK e \in [Nat -> Drawn] : /\ num[0] \in Nat /\ e[num[0]] = b
                                  /\ \A r \in Nat : r < num[0] => e[r] = d[r]
  <2>1. [d EXCEPT ![num[0]] = b] \in [Nat -> Drawn] /\ num[0] \in Nat
    BY <1>t, BTFacts
  <2>2. /\ [d EXCEPT ![num[0]] = b][num[0]] = b
        /\ \A r \in Nat : r < num[0] => [d EXCEPT ![num[0]] = b][r] = d[r]
    BY <2>1
  <2> QED BY <2>1, <2>2
<1>10. ASSUME NEW q \in Others
       PROVE  /\ Received(q) \in Nat /\ Received(q) <= num[0]
              /\ btslot[<<0, q>>] # None => Received(q) < num[0]
  BY <1>6, <1>9 DEF Line, Received
<1>11. \A q \in Procs : num[q] \in Nat /\ num[q] <= num[0]
  <2>1. ASSUME NEW q \in Procs, q # 0 PROVE num[q] <= num[0]
    <3>1. q \in Others BY <2>1 DEF Others
    <3>2. Received(q) \in {num[q], num[q] + 1} /\ num[q] \in Nat BY <1>6, <3>1 DEF Received
    <3>3. num[0] \in Nat /\ Received(q) <= num[0] BY <1>9, <1>10, <3>1
    <3> QED BY <3>2, <3>3
  <2> QED BY <1>t, <2>1, BTFacts
<1>12. ASSUME NEW q \in Procs, btpc'[q] \in {"broadcast", "cross"} PROVE barr'[q] = e[num[q]]
  <2>1. CASE q = 0 BY <1>3, <1>9, <2>1
  <2>2. CASE q # 0
    <3>1. btpc[q] = "cross" BY <1>t, <1>3, <1>12, <2>2 DEF Stage
    <3>2. num[q] \in Nat /\ num[q] < num[0]
      <4>1. q \in Others BY <2>2 DEF Others
      <4>2. Received(q) = num[q] + 1 /\ num[q] \in Nat BY <1>6, <3>1, <4>1 DEF Received
      <4>3. num[0] \in Nat /\ Received(q) <= num[0] BY <1>9, <1>10, <4>1
      <4> QED BY <4>2, <4>3
    <3> QED BY <1>3, <1>8, <1>9, <2>2, <3>1, <3>2 DEF Draws
  <2> QED BY <2>1, <2>2
<1>13. ASSUME NEW q \in Others, btslot[<<0, q>>] # None PROVE btslot[<<0, q>>] = e[Received(q)]
  BY <1>8, <1>9, <1>10, <1>13 DEF Draws
<1>14. ASSUME NEW q \in Procs, NEW c \in Drawn PROVE Crossed(e, q, c)'
  <2>1. Count(e, c, num[q]) = Count(d, c, num[q])
    <3>1. \A r \in 0 .. num[q] - 1 : e[r] = d[r] BY <1>9, <1>11
    <3> QED BY <1>11, <3>1, CountBefore
  <2>2. Crossed(d, q, c) BY <1>8 DEF Draws
  <2>3. (btpc'[q] = "begin" <=> btpc[q] = "begin") /\ (btpc'[q] = "term" <=> btpc[q] = "term")
    BY <1>1, <1>3
  <2>4. q \in btparty[c] =>
          btdepartures[c][q] = Count(e, c, num[q])
                                 + (IF c = 0 /\ btpc[q] # "begin" THEN 1 ELSE 0)
                                 + (IF c = 10 /\ btpc[q] = "term" THEN 1 ELSE 0)
    BY <2>1, <2>2 DEF Crossed
  <2> QED BY <1>1, <2>3, <2>4 DEF Crossed
<1>15. \A q \in Others : btslot'[<<0, q>>] # None => btslot'[<<0, q>>] = e[Received(q)']
  BY <1>1, <1>6, <1>13
<1>16. \A q \in Procs : btpc'[q] \in {"broadcast", "cross"} => barr'[q] = e[num'[q]]
  BY <1>1, <1>12
<1>17. Draws(e)' BY <1>14, <1>15, <1>16 DEF Draws
<1> QED BY <1>4, <1>5, <1>6, <1>7, <1>9, <1>17 DEF BTInv

LEMMA BroadcastStep == BTInv /\ BT!Broadcast => BTInv'
<1> SUFFICES ASSUME BTInv, BT!Broadcast PROVE BTInv'
  OBVIOUS
<1>t. BTTyped /\ \A q \in Procs : num[q] \in 0 .. Reps /\ Stage(q) BY DEF BTInv, BTTyped
<1> DEFINE place == IF core + 1 < N THEN "broadcast" ELSE "cross"
<1>1. /\ btpc[0] = "broadcast" /\ core' = core + 1
      /\ btpc' = [btpc EXCEPT ![0] = place]
      /\ UNCHANGED <<btparty, btarrivals, btdepartures, barr, num>>
  BY DEF BT!Broadcast, BT!barrier
<1>2. /\ core = 0 => UNCHANGED btslot
      /\ core # 0 => /\ btslot[<<0, core>>] = None
                     /\ btslot' = [btslot EXCEPT ![<<0, core>>] = barr[0]]
  BY DEF BT!Broadcast, BT!Ch!Send, BT!channels
<1>3. core \in 0 .. N - 1 /\ core \in Procs /\ 0 \in Procs
  BY <1>t, <1>1, BTFacts DEF Stage, BTTyped
<1>4. \A q \in Procs : btpc'[q] = IF q = 0 THEN place ELSE btpc[q] BY <1>t, <1>1 DEF BTTyped
<1>5. /\ btslot' \in [BT!Ch!Chan -> Drawn \cup {None}]
      /\ \A q \in Others : btslot'[<<0, q>>] = IF q = core THEN barr[0] ELSE btslot[<<0, q>>]
  <2>1. barr[0] \in Drawn BY <1>t, <1>3 DEF BTTyped
  <2>2. CASE core = 0 BY <1>t, <1>2, <2>2 DEF BTTyped, Others
  <2>3. CASE core # 0
    <3>1. <<0, core>> \in BT!Ch!Chan BY <1>3, <2>3, BTFacts
    <3>2. \A q \in Others : q # core => <<0, q>> # <<0, core>> OBVIOUS
    <3> QED BY <1>t, <1>2, <2>1, <2>3, <3>1, <3>2, BTFacts DEF BTTyped
  <2> QED BY <2>2, <2>3
<1>6. BTTyped'
  <2>1. /\ core' \in 0 .. N
        /\ btpc' \in [Procs -> {"begin", "loop", "broadcast", "cross", "term"}]
    BY <1>t, <1>1, <1>3, BTFacts DEF BTTyped
  <2> QED BY <1>t, <1>1, <1>5, <2>1 DEF BTTyped
<1>7. \A q \in Procs : Stage(q)' BY <1>t, <1>1, <1>3, <1>4, BTFacts DEF Stage
<1>8. ASSUME NEW q \in Others
      PROVE  /\ Line(q)' /\ Received(q)' = Received(q)
             /\ q = core => Received(q) = num[0]
  <2>1. q \in Procs /\ q # 0 /\ q \in 1 .. N - 1 /\ num[0] \in Nat
    <3>1. num[0] \in 0 .. Reps BY <1>t, <1>3
    <3>2. q \in Procs /\ q # 0 /\ q \in 1 .. N - 1 BY OthersAre
    <3> QED BY <3>1, <3>2
  <2>2. Received(q)' = Received(q) BY <1>1, <1>4, <2>1 DEF Received
  <2>3. Line(q) BY DEF BTInv
  <2>4. Sent(q) = IF core > q THEN num[0] + 1 ELSE num[0] BY <1>1 DEF Sent
  <2>5. Sent(q)' = IF core + 1 > q THEN num[0] + 1 ELSE num[0]
    <3>1. btpc'[0] = place BY <1>3, <1>4
    <3>2. CASE core + 1 < N BY <1>1, <3>1, <3>2 DEF Sent
    <3>3. CASE ~(core + 1 < N)
      <4>1. core + 1 > q /\ btpc'[0] = "cross" BY <1>3, <2>1, <3>1, <3>3, BTFacts
      <4> QED BY <1>1, <4>1 DEF Sent
    <3> QED BY <3>2, <3>3
  <2>6. CASE q = core
    <3>1. btslot[<<0, q>>] = None BY <1>2, <2>1, <2>6
    <3>2. Received(q) = num[0] BY <2>1, <2>3, <2>4, <2>6, <3>1 DEF Line
    <3>3. barr[0] # None BY <1>t, <1>3, BTFacts DEF BTTyped
    <3> QED BY <1>5, <2>1, <2>2, <2>5, <2>6, <3>2, <3>3 DEF Line
  <2>7. CASE q # core
    <3>1. Sent(q)' = Sent(q) BY <1>3, <2>1, <2>4, <2>5, <2>7
    <3> QED BY <1>5, <2>2, <2>3, <2>7, <3>1 DEF Line
  <2> QED BY <2>6, <2>7
<1>9. ASSUME NEW q \in Procs, NEW c \in Drawn PROVE Waits(q, c)'
  <2>1. Waits(q, c) BY DEF BTInv
  <2>2. CASE q # 0
    <3>1. Where(q, c)' = Where(q, c) BY <1>1, <1>4, <2>2 DEF Where
    <3> QED BY <1>1, <2>1, <3>1 DEF Waits
  <2>3. CASE q = 0
    <3>1. ~Where(0, c) BY <1>1 DEF Where
    <3> QED BY <1>1, <2>1, <2>3, <3>1 DEF Waits
  <2> QED BY <2>2, <2>3
<1>10. PICK d \in [Nat -> Drawn] : Draws(d) BY DEF BTInv
<1>11. barr[0] = d[num[0]] BY <1>1, <1>3, <1>10 DEF Draws
<1>12. ASSUME NEW q \in Others, btslot'[<<0, q>>] # None
       PROVE  btslot'[<<0, q>>] = d[Received(q)]
  BY <1>5, <1>8, <1>10, <1>11, <1>12 DEF Draws
<1>13. ASSUME NEW q \in Procs, NEW c \in Drawn PROVE Crossed(d, q, c)'
  <2>1. Crossed(d, q, c) BY <1>10 DEF Draws
  <2>2. (btpc'[q] = "begin" <=> btpc[q] = "begin") /\ (btpc'[q] = "term" <=> btpc[q] = "term")
    BY <1>1, <1>4
  <2> QED BY <1>1, <2>1, <2>2 DEF Crossed
<1>14. \A q \in Procs : btpc'[q] \in {"broadcast", "cross"} => barr[q] = d[num[q]]
  BY <1>4, <1>10, <1>11 DEF Draws
<1>15. Draws(d)' BY <1>1, <1>8, <1>12, <1>13, <1>14 DEF Draws
<1> QED BY <1>6, <1>7, <1>8, <1>9, <1>15 DEF BTInv

LEMMA RecvStep ==
  ASSUME BTInv, NEW p \in Procs, BT!RecvFrom(p)
  PROVE  BTInv'
<1>t. BTTyped /\ \A q \in Procs : num[q] \in 0 .. Reps /\ Stage(q) BY DEF BTInv, BTTyped
<1>1. /\ p # 0 /\ btpc[p] = "loop" /\ num[p] < Reps
      /\ btslot[<<0, p>>] # None
      /\ btslot' = [btslot EXCEPT ![<<0, p>>] = None]
      /\ barr' = [barr EXCEPT ![p] = btslot[<<0, p>>]]
      /\ btpc' = [btpc EXCEPT ![p] = "cross"]
      /\ UNCHANGED <<btparty, btarrivals, btdepartures, core, num>>
  BY DEF BT!RecvFrom, BT!Ch!Receive, BT!barrier
<1>2. p \in Others /\ <<0, p>> \in BT!Ch!Chan /\ 0 \in Procs BY <1>1, BTFacts DEF Others
<1>3. btslot[<<0, p>>] \in Drawn BY <1>t, <1>1, <1>2 DEF BTTyped
<1>4. /\ \A q \in Procs : btpc'[q] = IF q = p THEN "cross" ELSE btpc[q]
      /\ \A q \in Procs : barr'[q] = IF q = p THEN btslot[<<0, p>>] ELSE barr[q]
      /\ \A q \in Others : btslot'[<<0, q>>] = IF q = p THEN None ELSE btslot[<<0, q>>]
  <2>1. \A q \in Others : q # p => <<0, q>> # <<0, p>> OBVIOUS
  <2> QED BY <1>t, <1>1, <1>2, <2>1, BTFacts DEF BTTyped
<1>5. BTTyped' BY <1>t, <1>1, <1>3 DEF BTTyped
<1>6. \A q \in Procs : Stage(q)' BY <1>t, <1>1, <1>4 DEF Stage
<1>7. ASSUME NEW q \in Others
      PROVE  Line(q)' /\ (q # p => Received(q)' = Received(q))
  <2>1. q \in Procs /\ num[0] \in Nat /\ num[q] \in Nat /\ Line(q)
    <3>1. q \in Procs BY OthersAre
    <3>2. num[0] \in 0 .. Reps /\ num[q] \in 0 .. Reps BY <1>t, <1>2, <3>1
    <3> QED BY <3>1, <3>2 DEF BTInv
  <2>2. Sent(q)' = Sent(q) BY <1>1, <1>2, <1>4 DEF Sent
  <2>3. CASE q = p
    <3>1. Received(q) = num[q] /\ Received(q)' = num[q] + 1 BY <1>1, <1>4, <2>1, <2>3 DEF Received
    <3> QED BY <1>1, <1>4, <2>1, <2>2, <2>3, <3>1 DEF Line
  <2>4. CASE q # p
    <3>1. Received(q)' = Received(q) BY <1>1, <1>4, <2>1, <2>4 DEF Received
    <3> QED BY <1>4, <2>1, <2>2, <2>4, <3>1 DEF Line
  <2> QED BY <2>3, <2>4
<1>8. ASSUME NEW q \in Procs, NEW c \in Drawn PROVE Waits(q, c)'
  <2>1. Waits(q, c) BY DEF BTInv
  <2>2. CASE q # p
    <3>1. Where(q, c)' = Where(q, c) BY <1>1, <1>4, <2>2 DEF Where
    <3> QED BY <1>1, <2>1, <3>1 DEF Waits
  <2>3. CASE q = p
    <3>1. ~Where(p, c)
      <4>1. num[p] # Reps BY <1>1, <1>t, BTFacts
      <4> QED BY <1>1, <4>1 DEF Where
    <3> QED BY <1>1, <2>1, <2>3, <3>1 DEF Waits
  <2> QED BY <2>2, <2>3
<1>9. PICK d \in [Nat -> Drawn] : Draws(d) BY DEF BTInv
<1>10. btslot[<<0, p>>] = d[num[p]]
  <2>1. Received(p) = num[p] BY <1>1 DEF Received
  <2> QED BY <1>1, <1>2, <1>9, <2>1 DEF Draws
<1>11. \A q \in Procs : btpc'[q] \in {"broadcast", "cross"} => barr'[q] = d[num[q]]
  BY <1>4, <1>9, <1>10 DEF Draws
<1>12. ASSUME NEW q \in Others, btslot'[<<0, q>>] # None
       PROVE  btslot'[<<0, q>>] = d[Received(q)']
  <2>1. q # p BY <1>4, <1>12
  <2> QED BY <1>4, <1>7, <1>9, <1>12, <2>1 DEF Draws
<1>13. ASSUME NEW q \in Procs, NEW c \in Drawn PROVE Crossed(d, q, c)'
  <2>1. Crossed(d, q, c) BY <1>9 DEF Draws
  <2>2. (btpc'[q] = "begin" <=> btpc[q] = "begin") /\ (btpc'[q] = "term" <=> btpc[q] = "term")
    BY <1>1, <1>4
  <2> QED BY <1>1, <2>1, <2>2 DEF Crossed
<1>14. Draws(d)' BY <1>1, <1>11, <1>12, <1>13 DEF Draws
<1> QED BY <1>5, <1>6, <1>7, <1>8, <1>14 DEF BTInv

LEMMA BTStepHolds ==
  ASSUME BTInv, NEW p \in Procs, BT!Step(p)
  PROVE  BTInv'
<1>t. BTTyped /\ Stage(p) /\ barr[p] \in Drawn /\ {0, 10} \subseteq Drawn
  BY BTFacts DEF BTInv, BTTyped
<1>1. CASE BT!Begin(p)
  <2>1. btpc[p] = "begin" /\ UNCHANGED <<btslot, core, barr, num>>
    BY <1>1 DEF BT!Begin, BT!channels
  <2>2. CASE BT!WaitBegins(0, p)
    <3>1. BT!Bar!Arrive(0, p) /\ UNCHANGED btpc BY <2>2 DEF BT!WaitBegins
    <3>2. Where(p, 0) BY <2>1 DEF Where
    <3> QED BY <1>t, <2>1, <3>1, <3>2, EnterStep
  <2>3. CASE BT!WaitEnds(0, p, "loop")
    <3>1. /\ \/ BT!Bar!Depart(0, p)
             \/ p \notin btparty[0] /\ UNCHANGED <<btparty, btarrivals, btdepartures>>
          /\ btpc' = [btpc EXCEPT ![p] = "loop"]
      BY <2>3 DEF BT!WaitEnds, BT!barrier
    <3> QED BY <1>t, <2>1, <3>1, LeaveStep
  <2> QED BY <1>1, <2>2, <2>3 DEF BT!Begin
<1>2. CASE BT!Cross(p)
  <2>1. btpc[p] = "cross" /\ UNCHANGED <<btslot, core, barr>>
    BY <1>2 DEF BT!Cross, BT!channels
  <2>2. CASE BT!WaitBegins(barr[p], p) /\ UNCHANGED num
    <3>1. BT!Bar!Arrive(barr[p], p) /\ UNCHANGED btpc BY <2>2 DEF BT!WaitBegins
    <3>2. Where(p, barr[p]) BY <2>1 DEF Where
    <3> QED BY <1>t, <2>1, <2>2, <3>1, <3>2, EnterStep
  <2>3. CASE BT!WaitEnds(barr[p], p, "loop") /\ num' = [num EXCEPT ![p] = @ + 1]
    <3>1. /\ \/ BT!Bar!Depart(barr[p], p)
             \/ p \notin btparty[barr[p]] /\ UNCHANGED <<btparty, btarrivals, btdepartures>>
          /\ btpc' = [btpc EXCEPT ![p] = "loop"]
      BY <2>3 DEF BT!WaitEnds, BT!barrier
    <3> QED BY <1>t, <2>1, <2>3, <3>1, LeaveStep
  <2> QED BY <1>2, <2>2, <2>3 DEF BT!Cross
<1>3. CASE BT!Finish(p)
  <2>1. btpc[p] = "loop" /\ num[p] = Reps /\ UNCHANGED <<btslot, core, barr, num>>
    BY <1>3 DEF BT!Finish, BT!channels
  <2>2. CASE BT!WaitBegins(10, p)
    <3>1. BT!Bar!Arrive(10, p) /\ UNCHANGED btpc BY <2>2 DEF BT!WaitBegins
    <3>2. Where(p, 10) BY <2>1 DEF Where
    <3> QED BY <1>t, <2>1, <3>1, <3>2, EnterStep
  <2>3. CASE BT!WaitEnds(10, p, "term")
    <3>1. /\ \/ BT!Bar!Depart(10, p)
             \/ p \notin btparty[10] /\ UNCHANGED <<btparty, btarrivals, btdepartures>>
          /\ btpc' = [btpc EXCEPT ![p] = "term"]
      BY <2>3 DEF BT!WaitEnds, BT!barrier
    <3> QED BY <1>t, <2>1, <3>1, LeaveStep
  <2> QED BY <1>3, <2>2, <2>3 DEF BT!Finish
<1>4. CASE BT!RecvFrom(p) BY <1>4, RecvStep
<1>5. CASE BT!Draw \/ BT!Broadcast BY <1>5, DrawStep, BroadcastStep
<1> QED BY <1>1, <1>2, <1>3, <1>4, <1>5 DEF BT!Step

LEMMA BTStutters == BTInv /\ UNCHANGED bt => BTInv'
<1> SUFFICES ASSUME BTInv, UNCHANGED bt PROVE BTInv'
  OBVIOUS
<1>1. UNCHANGED <<btslot, btparty, btarrivals, btdepartures, btpc, core, barr, num>> BY DEF bt
<1>2. BTTyped' BY <1>1 DEF BTInv, BTTyped
<1>3. \A p \in Procs : Stage(p)' BY <1>1 DEF BTInv, Stage
<1>4. \A p \in Others : Line(p)' BY <1>1 DEF BTInv, Line, Sent, Received
<1>5. \A p \in Procs, b \in Drawn : Waits(p, b)' BY <1>1 DEF BTInv, Waits, Where
<1>6. \A d : Draws(d) => Draws(d)' BY <1>1 DEF Draws, Received, Crossed
<1> QED BY <1>2, <1>3, <1>4, <1>5, <1>6 DEF BTInv

LEMMA BTAlways == ProgramsSpec => []BTInv
<1>1. ProgramsInit => BTInv BY BTInitHolds DEF ProgramsInit
<1>2. BTInv /\ [ProgramsNext]_allvars => BTInv'
  <2> SUFFICES ASSUME BTInv, [ProgramsNext]_allvars PROVE BTInv'
    OBVIOUS
  <2>1. CASE UNCHANGED bt BY <2>1, BTStutters
  <2>2. ASSUME NEW p \in Procs, BT!Step(p) PROVE BTInv' BY <2>2, BTStepHolds
  <2>3. UNCHANGED bt \/ \E p \in Procs : BT!Step(p)
    <3>1. CASE ScanNext \/ LocalNext BY <3>1 DEF ScanNext, LocalNext, bt
    <3>2. ASSUME NEW p \in BT!Procs, Own(p) PROVE UNCHANGED bt \/ BT!Step(p) BY <3>2 DEF Own
    <3>3. CASE UNCHANGED allvars BY <3>3 DEF allvars
    <3> QED BY <3>1, <3>2, <3>3, BTFacts DEF ProgramsNext
  <2> QED BY <2>1, <2>2, <2>3
<1> QED BY <1>1, <1>2, PTL DEF ProgramsSpec

\* What was received last is a barrier's number and its sender.
BTGot == btgot \in [Procs -> [sender : Procs, msg : Drawn] \cup {None}]

LEMMA BTGotStep ==
  ASSUME BTInv, BTGot, NEW p \in Procs, BT!Step(p)
  PROVE  BTGot'
<1>t. BTTyped BY DEF BTInv
<1>1. CASE BT!RecvFrom(p)
  <2>1. /\ p # 0 /\ btslot[<<0, p>>] # None
        /\ btgot' = [btgot EXCEPT ![p] = [sender |-> 0, msg |-> btslot[<<0, p>>]]]
    BY <1>1 DEF BT!RecvFrom, BT!Ch!Receive
  <2>2. <<0, p>> \in BT!Ch!Chan /\ 0 \in Procs BY <2>1, BTFacts DEF Others
  <2>3. btslot[<<0, p>>] \in Drawn BY <1>t, <2>1, <2>2 DEF BTTyped
  <2>4. [sender |-> 0, msg |-> btslot[<<0, p>>]] \in [sender : Procs, msg : Drawn]
    BY <2>2, <2>3
  <2> QED BY <2>1, <2>4 DEF BTGot
<1>2. CASE ~BT!RecvFrom(p)
  <2>1. UNCHANGED btgot
    BY <1>2 DEF BT!Step, BT!Begin, BT!Cross, BT!Finish, BT!Draw, BT!Broadcast, BT!Ch!Send,
                BT!channels
  <2> QED BY <2>1 DEF BTGot
<1> QED BY <1>1, <1>2

LEMMA BTGotAlways == ProgramsSpec => []BTGot
<1>1. ProgramsInit => BTGot
  <2> SUFFICES ASSUME ProgramsInit PROVE BTGot OBVIOUS
  <2>1. btgot = [p \in Procs |-> None]
    BY BTFacts DEF ProgramsInit, BT!Init, BT!Ch!Init
  <2> QED BY <2>1 DEF BTGot
<1>2. BTInv /\ BTGot /\ [ProgramsNext]_allvars => BTGot'
  <2> SUFFICES ASSUME BTInv, BTGot, [ProgramsNext]_allvars PROVE BTGot'
    OBVIOUS
  <2>1. CASE UNCHANGED bt BY <2>1 DEF bt, BTGot
  <2>2. ASSUME NEW p \in Procs, BT!Step(p) PROVE BTGot' BY <2>2, BTGotStep
  <2>3. UNCHANGED bt \/ \E p \in Procs : BT!Step(p)
    <3>1. CASE ScanNext \/ LocalNext BY <3>1 DEF ScanNext, LocalNext, bt
    <3>2. ASSUME NEW p \in BT!Procs, Own(p) PROVE UNCHANGED bt \/ BT!Step(p) BY <3>2 DEF Own
    <3>3. CASE UNCHANGED allvars BY <3>3 DEF allvars
    <3> QED BY <3>1, <3>2, <3>3, BTFacts DEF ProgramsNext
  <2> QED BY <2>1, <2>2, <2>3
<1> QED BY <1>1, <1>2, BTAlways, PTL DEF ProgramsSpec

LEMMA BTTypes == BTInv /\ BTGot => BT!TypeOK
BY BTFacts DEF BTInv, BTTyped, BTGot, BT!TypeOK

\* Those that wait on the same barrier of barrier_test are in the same
\* repetition, everybody crosses the barrier drawn for it, and process 0 is at
\* most two repetitions ahead, whatever is drawn, however often.
THEOREM InStepCorrect == ProgramsSpec => []BarriersInStep
BY BTAlways, BTSafe, PTL

-----------------------------------------------------------------------------
(* Processes in ascending order *)

\* A finite set of numbers has one with i smaller ones.
LEMMA Ranked ==
  ASSUME NEW S \in SUBSET Nat, IsFiniteSet(S), NEW i \in 0 .. Cardinality(S) - 1
  PROVE  \E c \in S : Cardinality({q \in S : q < c}) = i
<1> DEFINE n == Cardinality(S)
           Below(c) == {q \in S : q < c}
           rank == [c \in S |-> Cardinality(Below(c))]
<1>1. n \in Nat BY FS_CardinalityType
<1>2. ASSUME NEW c \in S
      PROVE  IsFiniteSet(Below(c)) /\ Cardinality(Below(c)) \in 0 .. n - 1
  <2>1. Below(c) \subseteq S /\ c \in S /\ c \notin Below(c) OBVIOUS
  <2>2. /\ IsFiniteSet(Below(c)) /\ Cardinality(Below(c)) <= n
        /\ Cardinality(Below(c)) = n => Below(c) = S
    BY <2>1, FS_Subset
  <2>3. Cardinality(Below(c)) \in Nat BY <2>2, FS_CardinalityType
  <2> QED BY <1>1, <2>1, <2>2, <2>3
<1>3. ASSUME NEW c \in S, NEW d \in S, c < d PROVE Cardinality(Below(c)) < Cardinality(Below(d))
  <2>1. Below(c) \subseteq Below(d) /\ c \in Below(d) /\ c \notin Below(c)
    <3>1. c \in Nat /\ d \in Nat /\ \A q \in S : q \in Nat OBVIOUS
    <3>2. ASSUME NEW q \in Below(c) PROVE q \in Below(d)
      <4>1. q \in Nat /\ q < c BY <3>1
      <4> QED BY <1>3, <3>1, <4>1
    <3>3. c \in Below(d) BY <1>3
    <3>4. c \notin Below(c) BY <3>1
    <3> HIDE DEF Below
    <3> QED BY <3>2, <3>3, <3>4
  <2>2. IsFiniteSet(Below(d)) /\ IsFiniteSet(Below(c)) BY <1>2
  <2>3. /\ Cardinality(Below(c)) <= Cardinality(Below(d))
        /\ Cardinality(Below(c)) # Cardinality(Below(d))
    BY <2>1, <2>2, FS_Subset
  <2>4. Cardinality(Below(c)) \in Nat /\ Cardinality(Below(d)) \in Nat BY <2>2, FS_CardinalityType
  <2> QED BY <2>3, <2>4
<1>4. rank \in Injection(S, 0 .. n - 1)
  <2>1. rank \in [S -> 0 .. n - 1] BY <1>2
  <2>2. ASSUME NEW c \in S, NEW d \in S, rank[c] = rank[d] PROVE c = d
    <3>1. c \in Nat /\ d \in Nat OBVIOUS
    <3>2. rank[c] \in 0 .. n - 1 /\ rank[d] \in 0 .. n - 1 BY <2>1
    <3>3. c < d => rank[c] < rank[d] BY <1>3
    <3>4. d < c => rank[d] < rank[c] BY <1>3
    <3> QED BY <2>2, <3>1, <3>2, <3>3, <3>4
  <2> QED BY <2>1, <2>2 DEF Injection, IsInjective
<1>5. IsFiniteSet(0 .. n - 1) /\ Cardinality(0 .. n - 1) = n BY <1>1, FS_Interval
<1>6. rank \in Surjection(S, 0 .. n - 1)
  BY <1>4, <1>5, FS_Injection
<1>7. \E c \in S : rank[c] = i BY <1>6 DEF Surjection
<1> QED BY <1>7

\* Every non-empty set of natural numbers has a least one.
LEMMA Least ==
  ASSUME NEW T \in SUBSET Nat, T # {}
  PROVE  \E x \in T : \A y \in T : x <= y
<1>1. PICK n \in T : TRUE OBVIOUS
<1> DEFINE S == {k \in T : k <= n}
<1>2. S \in SUBSET Nat /\ n \in S /\ n \in Nat
  <2>1. n \in Nat OBVIOUS
  <2>2. n <= n BY <2>1
  <2> QED BY <2>1, <2>2
<1>3. IsFiniteSet(S)
  <2>1. S \subseteq 0 .. n BY <1>2
  <2>2. IsFiniteSet(0 .. n) BY <1>2, FS_Interval
  <2> QED BY <2>1, <2>2, FS_Subset
<1>4. 0 \in 0 .. Cardinality(S) - 1
  <2>1. Cardinality(S) \in Nat /\ Cardinality(S) # 0
    BY <1>2, <1>3, FS_CardinalityType, FS_EmptySet
  <2> QED BY <2>1
<1>5. PICK c \in S : Cardinality({q \in S : q < c}) = 0
  <2> HIDE DEF S
  <2> QED BY <1>2, <1>3, <1>4, Ranked
<1>6. {q \in S : q < c} = {}
  <2>1. IsFiniteSet({q \in S : q < c}) BY <1>3, FS_Subset
  <2> QED BY <1>5, <2>1, FS_EmptySet
<1>7. ASSUME NEW y \in T PROVE c <= y
  <2>1. c \in Nat /\ y \in Nat /\ c <= n BY <1>2
  <2>2. CASE y \in S BY <1>6, <2>1, <2>2
  <2>3. CASE y \notin S BY <1>2, <2>1, <2>3
  <2> QED BY <2>2, <2>3
<1> QED BY <1>7

-----------------------------------------------------------------------------
(* barrier_test: somebody can always go on *)

\* Nothing keeps p at barrier b: it may enter, leave, or does not take part.
Passes(p, b) == \/ p \notin btparty[b] \/ btarrivals[b][p] = btdepartures[b][p]
                \/ /\ btdepartures[b][p] < btarrivals[b][p]
                   /\ \A q \in btparty[b] : btdepartures[b][p] < btarrivals[b][q]

\* p has a message to receive, a free line to broadcast to, or a barrier to
\* draw or to pass.
GoesOn(p) ==
  \/ btpc[p] = "begin" /\ Passes(p, 0)
  \/ btpc[p] = "loop" /\ num[p] < Reps /\ (p = 0 \/ btslot[<<0, p>>] # None)
  \/ btpc[p] = "broadcast" /\ (core = 0 \/ btslot[<<0, core>>] = None)
  \/ btpc[p] = "cross" /\ Passes(p, barr[p])
  \/ btpc[p] = "loop" /\ num[p] = Reps /\ Passes(p, 10)

NobodyLeftBehind == BT!Ended \/ \E p \in Procs : GoesOn(p)

\* Who is kept at a barrier waits for somebody who has not entered it as often.
LEMMA Kept ==
  ASSUME BTInv, NEW p \in Procs, NEW b \in Drawn, ~Passes(p, b)
  PROVE  /\ p \in btparty[b]
         /\ \E q \in btparty[b] : /\ q \in Procs
                                  /\ btdepartures[b][q] <= btarrivals[b][q]
                                  /\ btarrivals[b][q] <= btdepartures[b][p]
<1>t. /\ btparty[b] \subseteq Procs
      /\ \A q \in Procs : btarrivals[b][q] \in Nat /\ btdepartures[b][q] \in Nat
  BY DEF BTInv, BTTyped
<1>1. p \in btparty[b] /\ btarrivals[b][p] # btdepartures[b][p] /\ Waits(p, b)
  BY DEF BTInv, Passes
<1>2. btdepartures[b][p] < btarrivals[b][p] BY <1>t, <1>1 DEF Waits
<1>3. PICK q \in btparty[b] : ~(btdepartures[b][p] < btarrivals[b][q])
  BY <1>1, <1>2 DEF Passes
<1>4. q \in Procs /\ Waits(q, b) BY <1>t DEF BTInv
<1>5. btdepartures[b][q] <= btarrivals[b][q] BY <1>t, <1>3, <1>4 DEF Waits
<1> QED BY <1>t, <1>1, <1>3, <1>4, <1>5

\* Of those who have done the fewest repetitions somebody goes on: they are in
\* the same repetition, for which process 0 draws without waiting for anybody,
\* and nobody else can keep them at the barrier it draws.
LEMMA Onward == BTInv => NobodyLeftBehind
<1> SUFFICES ASSUME BTInv, \A p \in Procs : ~GoesOn(p) PROVE BT!Ended
  BY DEF NobodyLeftBehind
<1>1. PICK d \in [Nat -> Drawn] : Draws(d) BY DEF BTInv
<1>2. ASSUME NEW p \in Procs
      PROVE  /\ Stage(p) /\ num[p] \in Nat /\ num[p] <= Reps /\ barr[p] \in Drawn
             /\ btpc[p] \in {"begin", "loop", "broadcast", "cross", "term"}
             /\ \A b \in Drawn : /\ Crossed(d, p, b)
                                 /\ btarrivals[b][p] \in Nat /\ btdepartures[b][p] \in Nat
                                 /\ Count(d, b, num[p]) \in Nat
  <2>1. num[p] \in Nat /\ num[p] <= Reps
    <3>1. Reps \in Nat /\ num[p] \in 0 .. Reps BY BTFacts DEF BTInv, BTTyped
    <3> QED BY <3>1
  <2>2. \A b \in Drawn : Crossed(d, p, b) /\ Count(d, b, num[p]) \in Nat
    BY <1>1, <2>1, CountIs DEF Draws
  <2>3. /\ Stage(p) /\ barr[p] \in Drawn
        /\ btpc[p] \in {"begin", "loop", "broadcast", "cross", "term"}
    BY DEF BTInv, BTTyped
  <2>4. \A b \in Drawn : btarrivals[b][p] \in Nat /\ btdepartures[b][p] \in Nat
    BY DEF BTInv, BTTyped
  <2> QED BY <2>1, <2>2, <2>3, <2>4
<1>3. 0 \in Drawn /\ 10 \in Drawn /\ 0 \in Procs /\ N \in Nat /\ Reps \in Nat BY BTFacts
<1>4. ASSUME NEW p \in Procs, btpc[p] = "begin" PROVE FALSE
  <2>1. ~Passes(p, 0) BY <1>4 DEF GoesOn
  <2>2. PICK q \in btparty[0] : /\ q \in Procs
                                /\ btdepartures[0][q] <= btarrivals[0][q]
                                /\ btarrivals[0][q] <= btdepartures[0][p]
    BY <1>3, <2>1, Kept
  <2>3. btdepartures[0][p] = 0
    <3>1. num[p] = 0 BY <1>2, <1>4 DEF Stage
    <3>2. Count(d, 0, num[p]) = 0
      <4>1. 0 \in Nat OBVIOUS
      <4>2. Count(d, 0, 0) = 0 BY <4>1, CountIs
      <4> QED BY <3>1, <4>2
    <3>3. p \in btparty[0] /\ Crossed(d, p, 0) BY <1>2, <1>3, <2>1, Kept
    <3>4. btdepartures[0][p] = 0 + 0 + 0 BY <1>4, <3>2, <3>3 DEF Crossed
    <3> QED BY <3>4
  <2>4. btdepartures[0][q] = 0 /\ btarrivals[0][q] = 0
    <3>1. btdepartures[0][q] \in Nat /\ btarrivals[0][q] \in Nat BY <1>2, <1>3, <2>2
    <3> QED BY <2>2, <2>3, <3>1
  <2>5. btpc[q] = "begin" BY <1>2, <1>3, <2>2, <2>4 DEF Crossed
  <2>6. GoesOn(q) BY <2>4, <2>5 DEF GoesOn, Passes
  <2> QED BY <2>2, <2>6
<1>5. PICK r \in Procs : \A q \in Procs : num[r] <= num[q]
  <2> DEFINE T == {num[q] : q \in Procs}
  <2>1. T \in SUBSET Nat /\ T # {} BY <1>2, <1>3
  <2>2. PICK x \in T : \A y \in T : x <= y
    <3> HIDE DEF T
    <3> QED BY <2>1, Least
  <2> QED BY <2>2
<1>6. CASE num[r] < Reps
  <2>1. ASSUME num[0] = num[r], btpc[0] \in {"loop", "broadcast"} PROVE FALSE
    <3>1. btpc[0] = "broadcast" /\ core # 0 /\ btslot[<<0, core>>] # None
      BY <1>3, <1>6, <2>1 DEF GoesOn
    <3>2. core \in Others /\ core \in Procs /\ core \in Nat
      <4>1. core < N /\ core \in 0 .. N BY <1>2, <1>3, <3>1 DEF Stage, BTInv, BTTyped
      <4> QED BY <1>3, <3>1, <4>1, BTFacts DEF Others
    <3>3. Sent(core) = Received(core) + 1 BY <3>1, <3>2 DEF BTInv, Line
    <3>4. Sent(core) = num[0] BY <3>1, <3>2 DEF Sent
    <3>5. Received(core) \in {num[core], num[core] + 1} BY DEF Received
    <3>6. num[core] \in Nat /\ num[r] \in Nat /\ num[r] <= num[core] BY <1>2, <1>5, <3>2
    <3> QED BY <2>1, <3>3, <3>4, <3>5, <3>6
  <2>2. ASSUME NEW q \in Procs, num[q] = num[r], btpc[q] \in {"loop", "broadcast"} PROVE FALSE
    <3>1. q # 0 BY <2>1, <2>2
    <3>2. btpc[q] = "loop" BY <1>2, <2>2, <3>1 DEF Stage
    <3>3. btslot[<<0, q>>] = None BY <1>6, <2>2, <3>1, <3>2 DEF GoesOn
    <3>4. Sent(q) = num[q]
      <4>1. Sent(q) = Received(q) BY <3>1, <3>3 DEF BTInv, Line, Others
      <4> QED BY <3>2, <4>1 DEF Received
    <3>5. num[0] \in Nat /\ num[r] \in Nat /\ num[r] <= num[0] BY <1>2, <1>3, <1>5
    <3>6. num[0] = num[r] /\ btpc[0] # "cross"
      <4>1. Sent(q) \in {num[0], num[0] + 1} /\ (btpc[0] = "cross" => Sent(q) = num[0] + 1)
        BY DEF Sent
      <4> QED BY <2>2, <3>4, <3>5, <4>1
    <3>7. btpc[0] \in {"loop", "broadcast"}
      <4>1. btpc[0] # "begin" BY <1>3, <1>4
      <4>2. btpc[0] # "term" BY <1>2, <1>3, <1>6, <3>5, <3>6 DEF Stage
      <4> QED BY <1>2, <1>3, <3>6, <4>1, <4>2
    <3> QED BY <2>1, <3>6, <3>7
  <2>3. ASSUME NEW q \in Procs, num[q] = num[r] PROVE btpc[q] = "cross" /\ barr[q] = d[num[r]]
    <3>1. btpc[q] # "begin" BY <1>4
    <3>2. btpc[q] # "term" BY <1>2, <1>3, <1>6, <2>3 DEF Stage
    <3>3. btpc[q] = "cross" BY <1>2, <2>2, <2>3, <3>1, <3>2
    <3> QED BY <1>1, <2>3, <3>3 DEF Draws
  <2> DEFINE b == barr[r]
  <2>4. btpc[r] = "cross" /\ b = d[num[r]] /\ b \in Drawn BY <1>2, <2>3
  <2> HIDE DEF b
  <2>5. ~Passes(r, b) BY <2>4 DEF GoesOn, b
  <2>6. PICK q \in btparty[b] : /\ q \in Procs
                                /\ btdepartures[b][q] <= btarrivals[b][q]
                                /\ btarrivals[b][q] <= btdepartures[b][r]
    BY <2>4, <2>5, Kept
  <2>7. btdepartures[b][r] = Count(d, b, num[r]) + (IF b = 0 THEN 1 ELSE 0)
    BY <1>2, <2>4, <2>5, Kept DEF Crossed
  <2>8. btdepartures[b][q] >= Count(d, b, num[q]) + (IF b = 0 THEN 1 ELSE 0)
    <3>1. btpc[q] # "begin" BY <1>4, <2>6
    <3> QED BY <1>2, <2>4, <2>6, <3>1 DEF Crossed
  <2>9. /\ num[q] \in Nat /\ num[r] \in Nat /\ num[r] <= num[q]
        /\ Count(d, b, num[r]) \in Nat /\ Count(d, b, num[q]) \in Nat
        /\ btdepartures[b][q] \in Nat /\ btarrivals[b][q] \in Nat
    BY <1>2, <1>5, <2>4, <2>6
  <2>10. num[q] = num[r]
    <3>1. num[r] < num[q] => Count(d, b, num[r]) < Count(d, b, num[q])
      BY <2>4, <2>9, CountGrows
    <3> QED BY <2>6, <2>7, <2>8, <2>9, <3>1
  <2>11. btpc[q] = "cross" /\ barr[q] = b BY <2>3, <2>4, <2>6, <2>10
  <2>12. btarrivals[b][q] = btdepartures[b][q] BY <2>6, <2>7, <2>8, <2>9, <2>10
  <2>13. GoesOn(q) BY <2>11, <2>12 DEF GoesOn, Passes
  <2> QED BY <2>6, <2>13
<1>7. CASE num[r] = Reps
  <2>1. ASSUME NEW p \in Procs PROVE num[p] = Reps /\ btpc[p] \in {"loop", "term"}
    <3>1. num[p] = Reps
      <4>1. num[p] \in Nat /\ num[p] <= Reps /\ Reps \in Nat /\ Reps <= num[p]
        BY <1>2, <1>3, <1>5, <1>7
      <4> QED BY <4>1
    <3> QED BY <1>2, <1>3, <1>4, <3>1 DEF Stage
  <2>2. ASSUME NEW p \in Procs, btpc[p] = "loop" PROVE FALSE
    <3>1. ~Passes(p, 10) BY <2>1, <2>2 DEF GoesOn
    <3>2. PICK q \in btparty[10] : /\ q \in Procs
                                   /\ btdepartures[10][q] <= btarrivals[10][q]
                                   /\ btarrivals[10][q] <= btdepartures[10][p]
      BY <1>3, <3>1, Kept
    <3>3. btdepartures[10][p] = Count(d, 10, Reps)
      <4>1. p \in btparty[10] /\ Crossed(d, p, 10) /\ num[p] = Reps BY <1>2, <1>3, <2>1, <3>1, Kept
      <4>2. Count(d, 10, Reps) \in Nat BY <1>3, CountIs
      <4> QED BY <2>2, <4>1, <4>2 DEF Crossed
    <3>4. btdepartures[10][q] = Count(d, 10, Reps) + (IF btpc[q] = "term" THEN 1 ELSE 0)
      <4>1. Crossed(d, q, 10) /\ num[q] = Reps BY <1>2, <1>3, <2>1, <3>2
      <4>2. Count(d, 10, Reps) \in Nat BY <1>3, CountIs
      <4> QED BY <3>2, <4>1, <4>2 DEF Crossed
    <3>5. btpc[q] = "loop" /\ btarrivals[10][q] = btdepartures[10][q]
      <4>1. /\ Count(d, 10, Reps) \in Nat
            /\ btdepartures[10][q] \in Nat /\ btarrivals[10][q] \in Nat
        BY <1>2, <1>3, <2>1, <3>2
      <4> QED BY <2>1, <3>2, <3>3, <3>4, <4>1
    <3>6. GoesOn(q) BY <2>1, <3>2, <3>5 DEF GoesOn, Passes
    <3> QED BY <3>2, <3>6
  <2>3. \A p \in Procs : btpc[p] = "term" BY <2>1, <2>2
  <2> QED BY <2>3, BTFacts DEF BT!Ended
<1>8. num[r] \in Nat /\ num[r] <= Reps /\ Reps \in Nat BY <1>2, <1>3
<1> QED BY <1>6, <1>7, <1>8

\* barrier_test never stands still before its end: whatever is drawn, however
\* many processes there are and however far some are ahead of others, one of
\* them has a message to receive, a free line to send to or a barrier to pass.
THEOREM BarrierTestGetsOn == ProgramsSpec => []NobodyLeftBehind
BY BTAlways, Onward, PTL

-----------------------------------------------------------------------------
(* Every so many processes *)

LEMMA Products ==
  ASSUME NEW d \in Nat \ {0}, NEW i \in Nat
  PROVE  /\ i * d \in Nat /\ (i * d) % d = 0 /\ (i * d) \div d = i
         /\ i \div d \in Nat /\ (i \div d) * d <= i
         /\ i % d = 0 => i = (i \div d) * d
OBVIOUS

LEMMA ProductsGrow ==
  ASSUME NEW d \in Nat \ {0}, NEW i \in Nat, NEW j \in Nat, i <= j
  PROVE  i * d <= j * d /\ i \div d <= j \div d
OBVIOUS

\* The multiples of d below n are those of the numbers below their count.
LEMMA Multiples ==
  ASSUME NEW d \in Nat \ {0}, NEW n \in Nat \ {0}
  PROVE  LET S == {p \in 0 .. n - 1 : p % d = 0}
         IN  /\ IsFiniteSet(S) /\ Cardinality(S) \in Nat \ {0}
             /\ \A i \in 0 .. Cardinality(S) - 1 : i * d \in S
             /\ \A p \in S : p \div d \in 0 .. Cardinality(S) - 1 /\ p = (p \div d) * d
<1> DEFINE S == {p \in 0 .. n - 1 : p % d = 0}
           k == (n - 1) \div d
           f == [i \in 0 .. k |-> i * d]
<1>1. k \in Nat /\ k * d <= n - 1 BY Products
<1>2. ASSUME NEW i \in 0 .. k PROVE i * d \in S
  <2>1. i \in Nat /\ i * d \in Nat /\ (i * d) % d = 0 BY <1>1, Products
  <2>2. i * d <= k * d BY <1>1, ProductsGrow
  <2>3. k * d \in Nat BY <1>1, Products
  <2> QED BY <1>1, <2>1, <2>2, <2>3
<1>3. ASSUME NEW p \in S PROVE p \div d \in 0 .. k /\ p = (p \div d) * d
  <2>1. p \in Nat /\ n - 1 \in Nat /\ p <= n - 1 /\ p % d = 0 OBVIOUS
  <2>2. p \div d \in Nat /\ p = (p \div d) * d BY <2>1, Products
  <2>3. p \div d <= k BY <2>1, ProductsGrow
  <2> QED BY <1>1, <2>2, <2>3
<1>4. f \in Bijection(0 .. k, S)
  <2>1. f \in [0 .. k -> S] BY <1>2
  <2>2. ASSUME NEW i \in 0 .. k, NEW j \in 0 .. k, f[i] = f[j] PROVE i = j
    <3>1. i \in Nat /\ j \in Nat /\ i * d = j * d BY <1>1, <2>2
    <3>2. (i * d) \div d = i /\ (j * d) \div d = j BY <3>1, Products
    <3> QED BY <3>1, <3>2
  <2>3. \A p \in S : \E i \in 0 .. k : f[i] = p
    <3> SUFFICES ASSUME NEW p \in S PROVE f[p \div d] = p /\ p \div d \in 0 .. k
      OBVIOUS
    <3> QED BY <1>3
  <2> HIDE DEF f, S, k
  <2> QED BY <2>1, <2>2, <2>3 DEF Bijection, Injection, Surjection, IsInjective
<1>5. ExistsBijection(0 .. k, S) BY <1>4 DEF ExistsBijection
<1>6. IsFiniteSet(0 .. k) /\ Cardinality(0 .. k) = k + 1 BY <1>1, FS_Interval
<1>7. IsFiniteSet(S) /\ Cardinality(S) = k + 1 BY <1>5, <1>6, FS_Bijection
<1>8. /\ Cardinality(S) \in Nat \ {0} /\ 0 .. Cardinality(S) - 1 = 0 .. k
  <2> HIDE DEF S, k
  <2> QED BY <1>1, <1>7
<1>9. /\ \A i \in 0 .. Cardinality(S) - 1 : i * d \in S
      /\ \A p \in S : p \div d \in 0 .. Cardinality(S) - 1 /\ p = (p \div d) * d
  <2> HIDE DEF S, k
  <2> QED BY <1>2, <1>3, <1>8
<1> HIDE DEF k
<1> QED BY <1>7, <1>8, <1>9

-----------------------------------------------------------------------------
(* client_server *)

\* Every d-th process is a server; with round trip and NO_SYNC_SRV, or neither.
CS(d, rt) == INSTANCE ClientServer WITH
  DslPerCore <- d, Roundtrip <- rt, NoSync <- rt,
  slot <- csslot, got <- csgot, party <- csparty, arrivals <- csarrivals,
  departures <- csdepartures, pc <- cspc, start <- csstart, answer <- csanswer

LEMMA CSFacts ==
  ASSUME NEW d, NEW rt, CS(d, rt)!Parameters
  PROVE  /\ N \in Nat \ {0, 1} /\ d \in Nat \ {0, 1} /\ NumMsgs \in Nat /\ rt \in BOOLEAN
         /\ Procs = 0 .. N - 1 /\ CS(d, rt)!Procs = Procs /\ 0 \in Procs
         /\ CS(d, rt)!Ch!Chan = {c \in Procs \X Procs : c[1] # c[2]}
BY DEF CS!Parameters, CS!Procs, Procs, CS!Ch!Chan

\* The instance counts as everybody does.
LEMMA CSCounts ==
  ASSUME NEW d, NEW rt, NEW S
  PROVE  CS(d, rt)!Cardinality(S) = Cardinality(S)
BY DEF CS!Cardinality, Cardinality

LEMMA CSServers ==
  ASSUME NEW d, NEW rt, CS(d, rt)!Parameters
  PROVE  /\ CS(d, rt)!Servers \subseteq Procs /\ 0 \in CS(d, rt)!Servers
         /\ CS(d, rt)!num_dsl \in Nat \ {0}
         /\ \A i \in 0 .. CS(d, rt)!num_dsl - 1 :
              CS(d, rt)!dsl_seq(i) \in CS(d, rt)!Servers /\ CS(d, rt)!dsl_seq(i) \div d = i
         /\ \A s \in CS(d, rt)!Servers : /\ s \div d \in 0 .. CS(d, rt)!num_dsl - 1
                                         /\ s = CS(d, rt)!dsl_seq(s \div d)
<1> DEFINE S == {p \in 0 .. N - 1 : p % d = 0}
<1>1. CS(d, rt)!Servers = S BY CSFacts DEF CS!Servers, CS!color_dsl
<1>2. /\ IsFiniteSet(S) /\ Cardinality(S) \in Nat \ {0}
      /\ \A i \in 0 .. Cardinality(S) - 1 : i * d \in S
      /\ \A p \in S : p \div d \in 0 .. Cardinality(S) - 1 /\ p = (p \div d) * d
  BY CSFacts, Multiples
<1>3. CS(d, rt)!num_dsl = Cardinality(S) BY <1>1, CSCounts DEF CS!num_dsl
<1>4. ASSUME NEW i \in 0 .. Cardinality(S) - 1
      PROVE  CS(d, rt)!dsl_seq(i) = i * d /\ (i * d) \div d = i
  <2>1. d \in Nat \ {0} BY CSFacts
  <2>2. i \in Nat
    <3> HIDE DEF S
    <3> QED BY <1>2
  <2> QED BY <2>1, <2>2, Products DEF CS!dsl_seq
<1>5. 0 \in S
  <2>1. 0 % d = 0 BY CSFacts
  <2> QED BY <2>1, CSFacts
<1>6. S \subseteq Procs BY CSFacts
<1> HIDE DEF S
<1> QED BY <1>1, <1>2, <1>3, <1>4, <1>5, <1>6

LEMMA CSClients ==
  ASSUME NEW d, NEW rt, CS(d, rt)!Parameters
  PROVE  /\ CS(d, rt)!Clients = Procs \ CS(d, rt)!Servers /\ IsFiniteSet(CS(d, rt)!Clients)
         /\ CS(d, rt)!num_app \in Nat \ {0}
         /\ \A i \in 0 .. CS(d, rt)!num_app - 1 : CS(d, rt)!Sender(i) \in CS(d, rt)!Clients
<1> DEFINE C == CS(d, rt)!Clients
<1>1. C = Procs \ CS(d, rt)!Servers BY CSFacts DEF CS!Clients
<1>2. IsFiniteSet(C) /\ C \in SUBSET Nat
  <2>1. IsFiniteSet(Procs) /\ C \subseteq Procs /\ Procs \subseteq Nat
    <3>1. 0 \in Int /\ N - 1 \in Int /\ Procs = 0 .. N - 1 BY CSFacts
    <3>2. IsFiniteSet(Procs) BY <3>1, FS_Interval
    <3> HIDE DEF C
    <3> QED BY <1>1, <3>1, <3>2
  <2> QED BY <2>1, FS_Subset
<1>3. 1 \in C
  <2>1. 1 \in Procs /\ 1 % d # 0 BY CSFacts
  <2> QED BY <1>1, <2>1 DEF CS!Servers, CS!color_dsl
<1>4. CS(d, rt)!num_app = Cardinality(C) BY CSCounts DEF CS!num_app
<1>5. Cardinality(C) \in Nat \ {0} BY <1>2, <1>3, FS_CardinalityType, FS_EmptySet
<1>6. ASSUME NEW i \in 0 .. Cardinality(C) - 1 PROVE CS(d, rt)!Sender(i) \in C
  <2>1. \E c \in C : Cardinality({q \in C : q < c}) = i BY <1>2, Ranked
  <2>2. CS(d, rt)!Sender(i) = CHOOSE c \in C : Cardinality({q \in C : q < c}) = i
    BY CSCounts DEF CS!Sender
  <2> HIDE DEF C
  <2> QED BY <2>1, <2>2
<1> HIDE DEF C
<1> QED BY <1>1, <1>2, <1>4, <1>5, <1>6 DEF C

\* The two kinds of messages.
LEMMA CSMessages ==
  ASSUME NEW d, NEW rt, CS(d, rt)!Parameters
  PROVE  /\ CS(d, rt)!Message = (0 .. NumMsgs - 1) \cup {CS(d, rt)!REPORT}
         /\ CS(d, rt)!REPORT \in Nat /\ CS(d, rt)!REPORT = NumMsgs + CS(d, rt)!num_dsl
         /\ CS(d, rt)!REPORT \notin 0 .. NumMsgs - 1
         /\ None \notin CS(d, rt)!Message
         /\ None \notin CS(d, rt)!Clients \X CS(d, rt)!Message
<1>1. /\ CS(d, rt)!Message = (0 .. NumMsgs - 1) \cup {CS(d, rt)!REPORT}
      /\ CS(d, rt)!REPORT = NumMsgs + CS(d, rt)!num_dsl
  BY DEF CS!Message, CS!REPORT
<1>2. CS(d, rt)!REPORT \in Nat /\ CS(d, rt)!REPORT \notin 0 .. NumMsgs - 1
  BY <1>1, CSFacts, CSServers
<1>3. None \notin CS(d, rt)!Message \cup (CS(d, rt)!Clients \X CS(d, rt)!Message)
  BY DEF CS!Parameters
<1> QED BY <1>1, <1>2, <1>3

-----------------------------------------------------------------------------
(* client_server: the types *)

\* A server in its loop waits for somebody; the rounds at the end are one for
\* each process.
CSPlaces(d, rt) ==
  /\ \A p \in CS(d, rt)!Servers :
       cspc[p] \in {"begin", "main", "loop"} /\ csanswer[p] = None => num_zeros[p] >= 1
  /\ \A p \in Procs : cspc[p] = "next" => co[p] < N

CSTyped(d, rt) == CS(d, rt)!TypeOK /\ CSPlaces(d, rt)

CSAt == {"begin", "main", "loop", "answer", "report", "next", "last", "term"}

LEMMA CSTypes ==
  ASSUME NEW d, NEW rt, CS(d, rt)!Parameters
  PROVE  CS(d, rt)!TypeOK <=>
           /\ csslot \in [CS(d, rt)!Ch!Chan -> CS(d, rt)!Message \cup {None}]
           /\ cspc \in [Procs -> CSAt]
           /\ num_msgs1 \in [Procs -> 0 .. NumMsgs]
           /\ to \in [Procs -> CS(d, rt)!Servers]
           /\ to_idx \in [Procs -> 0 .. CS(d, rt)!num_dsl - 1]
           /\ num_zeros \in [Procs -> 0 .. CS(d, rt)!num_app]
           /\ \A p \in CS(d, rt)!Servers : csstart[p] \in 0 .. CS(d, rt)!num_app - 1
           /\ csanswer \in [Procs -> {None} \cup (CS(d, rt)!Clients \X CS(d, rt)!Message)]
           /\ co \in [Procs -> 0 .. N]
BY CSFacts DEF CS!TypeOK, CSAt

LEMMA CSTypeInit ==
  ASSUME NEW d, NEW rt, CS(d, rt)!Parameters, CS(d, rt)!Init
  PROVE  CSTyped(d, rt)
<1>1. /\ csslot = [c \in CS(d, rt)!Ch!Chan |-> None]
      /\ cspc = [p \in Procs |-> "begin"] /\ num_msgs1 = [p \in Procs |-> NumMsgs]
      /\ to = [p \in Procs |-> 0] /\ to_idx = [p \in Procs |-> 0]
      /\ num_zeros = [p \in Procs |-> CS(d, rt)!num_app]
      /\ csstart = [p \in Procs |-> 0]
      /\ csanswer = [p \in Procs |-> None] /\ co = [p \in Procs |-> 0]
  BY CSFacts DEF CS!Init, CS!Ch!Init
<1>2. CS(d, rt)!TypeOK
  <2>1. /\ 0 \in 0 .. CS(d, rt)!num_dsl - 1 /\ 0 \in 0 .. CS(d, rt)!num_app - 1
        /\ CS(d, rt)!num_app \in 0 .. CS(d, rt)!num_app
        /\ NumMsgs \in 0 .. NumMsgs /\ 0 \in 0 .. N
        /\ 0 \in CS(d, rt)!Servers /\ CS(d, rt)!Servers \subseteq Procs
    BY CSFacts, CSServers, CSClients
  <2> QED BY <1>1, <2>1, CSTypes DEF CSAt
<1>3. CSPlaces(d, rt)
  <2>1. CS(d, rt)!num_app >= 1 /\ CS(d, rt)!Servers \subseteq Procs BY CSServers, CSClients
  <2> QED BY <1>1, <2>1 DEF CSPlaces
<1> QED BY <1>2, <1>3 DEF CSTyped

\* The index of the next server stays in its range.
LEMMA AdvanceIs ==
  ASSUME NEW d, NEW rt, CS(d, rt)!Parameters, CS(d, rt)!TypeOK, NEW p \in Procs,
         CS(d, rt)!Advance(p)
  PROVE  to' \in [Procs -> CS(d, rt)!Servers] /\ to_idx' \in [Procs -> 0 .. CS(d, rt)!num_dsl - 1]
<1>1. /\ to \in [Procs -> CS(d, rt)!Servers] /\ to_idx \in [Procs -> 0 .. CS(d, rt)!num_dsl - 1]
      /\ CS(d, rt)!num_dsl \in Nat \ {0}
  BY CSTypes, CSServers
<1>2. to_idx[p] \in 0 .. CS(d, rt)!num_dsl - 1 BY <1>1
<1>3. CS(d, rt)!dsl_seq(to_idx[p]) \in CS(d, rt)!Servers BY <1>2, CSServers
<1>4. (IF to_idx[p] + 1 = CS(d, rt)!num_dsl THEN 0 ELSE to_idx[p] + 1)
        \in 0 .. CS(d, rt)!num_dsl - 1
  BY <1>1, <1>2
<1> QED BY <1>1, <1>3, <1>4 DEF CS!Advance

LEMMA CSTypeStep ==
  ASSUME NEW d, NEW rt, CS(d, rt)!Parameters, CSTyped(d, rt), NEW p \in Procs, CS(d, rt)!Step(p)
  PROVE  CSTyped(d, rt)'
<1> DEFINE Sv == CS(d, rt)!Servers
           Cl == CS(d, rt)!Clients
           M == CS(d, rt)!Message
           Chan == CS(d, rt)!Ch!Chan
           n == CS(d, rt)!num_app
<1>t. /\ csslot \in [Chan -> M \cup {None}] /\ cspc \in [Procs -> CSAt]
      /\ num_msgs1 \in [Procs -> 0 .. NumMsgs]
      /\ to \in [Procs -> Sv] /\ to_idx \in [Procs -> 0 .. CS(d, rt)!num_dsl - 1]
      /\ num_zeros \in [Procs -> 0 .. n] /\ \A q \in Sv : csstart[q] \in 0 .. n - 1
      /\ csanswer \in [Procs -> {None} \cup (Cl \X M)] /\ co \in [Procs -> 0 .. N]
      /\ CSPlaces(d, rt)
  BY CSTypes DEF CSTyped
<1>f. /\ N \in Nat /\ Procs = 0 .. N - 1 /\ Sv \subseteq Procs /\ Cl = Procs \ Sv /\ n \in Nat \ {0}
      /\ M = (0 .. NumMsgs - 1) \cup {CS(d, rt)!REPORT} /\ NumMsgs \in Nat
      /\ None \notin M /\ None \notin Cl \X M
  <2>1. N \in Nat /\ Procs = 0 .. N - 1 /\ NumMsgs \in Nat BY CSFacts
  <2>2. Sv \subseteq Procs BY CSServers
  <2>3. Cl = Procs \ Sv /\ n \in Nat \ {0} BY CSClients
  <2>4. /\ M = (0 .. NumMsgs - 1) \cup {CS(d, rt)!REPORT}
        /\ None \notin M /\ None \notin Cl \X M
    BY CSMessages
  <2> QED BY <2>1, <2>2, <2>3, <2>4
<1> HIDE DEF Sv, Cl, M, Chan, n
<1> DEFINE Typed ==
      /\ csslot' \in [Chan -> M \cup {None}] /\ cspc' \in [Procs -> CSAt]
      /\ num_msgs1' \in [Procs -> 0 .. NumMsgs]
      /\ to' \in [Procs -> Sv] /\ to_idx' \in [Procs -> 0 .. CS(d, rt)!num_dsl - 1]
      /\ num_zeros' \in [Procs -> 0 .. n] /\ \A q \in Sv : csstart'[q] \in 0 .. n - 1
      /\ csanswer' \in [Procs -> {None} \cup (Cl \X M)] /\ co' \in [Procs -> 0 .. N]
      /\ \A q \in Sv : cspc'[q] \in {"begin", "main", "loop"} /\ csanswer'[q] = None
                         => num_zeros'[q] >= 1
      /\ \A q \in Procs : cspc'[q] = "next" => co'[q] < N
<1> SUFFICES Typed
  BY CSFacts DEF CSTyped, CSPlaces, CS!TypeOK, CSAt, Sv, Cl, M, Chan, n
<1>p. /\ \A q \in Sv : cspc[q] \in {"begin", "main", "loop"} /\ csanswer[q] = None
                         => num_zeros[q] >= 1
      /\ \A q \in Procs : cspc[q] = "next" => co[q] < N
  BY <1>t DEF CSPlaces, Sv
\* Most steps change only where p is.
<1>a. ASSUME NEW at \in CSAt, cspc' = [cspc EXCEPT ![p] = at],
             at \in {"begin", "main", "loop"} /\ p \in Sv => cspc[p] \in {"begin", "main", "loop"},
             UNCHANGED <<num_zeros, csanswer>>
      PROVE  /\ cspc' \in [Procs -> CSAt]
             /\ \A q \in Sv : cspc'[q] \in {"begin", "main", "loop"} /\ csanswer'[q] = None
                                => num_zeros'[q] >= 1
  <2>1. /\ cspc' \in [Procs -> CSAt]
        /\ \A q \in Procs : cspc'[q] = IF q = p THEN at ELSE cspc[q]
    BY <1>t, <1>a
  <2>2. \A q \in Sv : cspc'[q] \in {"begin", "main", "loop"}
                     => cspc[q] \in {"begin", "main", "loop"}
    BY <1>f, <1>a, <2>1 DEF CSAt
  <2> QED BY <1>p, <1>a, <2>1, <2>2
<1>1. ASSUME NEW at \in CSAt, NEW after \in CSAt, CS(d, rt)!Wait(p, at, after),
             after # "next", after \in {"begin", "main", "loop"} => at \in {"begin", "main"}
      PROVE  Typed
  <2>1. /\ cspc[p] = at
        /\ UNCHANGED cspc \/ cspc' = [cspc EXCEPT ![p] = after]
        /\ UNCHANGED <<csslot, num_msgs1, to, to_idx, num_zeros, csstart, csanswer, co>>
    BY <1>1 DEF CS!Wait, CS!channels
  <2>2. CASE UNCHANGED cspc BY <1>t, <1>p, <2>1, <2>2
  <2>3. CASE cspc' = [cspc EXCEPT ![p] = after]
    <3>1. \A q \in Procs : cspc'[q] = "next" => cspc[q] = "next" BY <1>t, <1>1, <2>3
    <3> QED BY <1>t, <1>p, <1>a, <1>1, <2>1, <2>3, <3>1
  <2> QED BY <2>1, <2>2, <2>3
<1>2. CASE p \in Cl /\ CS(d, rt)!Request(p)
  <2>1. /\ num_msgs1[p] > 0 /\ cspc[p] = "loop"
        /\ csslot' = [csslot EXCEPT ![<<p, to[p]>>] = num_msgs1[p] - 1]
        /\ num_msgs1' = [num_msgs1 EXCEPT ![p] = @ - 1]
        /\ \/ cspc' = [cspc EXCEPT ![p] = "answer"] /\ UNCHANGED <<to, to_idx>>
           \/ CS(d, rt)!Advance(p) /\ UNCHANGED cspc
        /\ UNCHANGED <<num_zeros, csstart, csanswer, co>>
    BY <1>2 DEF CS!Request, CS!Ch!Send
  <2>2. num_msgs1[p] \in 0 .. NumMsgs BY <1>t
  <2>3. num_msgs1[p] - 1 \in M /\ num_msgs1[p] - 1 \in 0 .. NumMsgs BY <1>f, <2>1, <2>2
  <2>4. csslot' \in [Chan -> M \cup {None}] /\ num_msgs1' \in [Procs -> 0 .. NumMsgs]
    BY <1>t, <2>1, <2>3
  <2>5. to' \in [Procs -> Sv] /\ to_idx' \in [Procs -> 0 .. CS(d, rt)!num_dsl - 1]
    BY <1>t, <2>1, AdvanceIs DEF CSTyped, Sv
  <2>6. /\ cspc' \in [Procs -> CSAt]
        /\ \A q \in Sv : cspc'[q] \in {"begin", "main", "loop"} /\ csanswer'[q] = None
                           => num_zeros'[q] >= 1
    <3>1. CASE UNCHANGED cspc BY <1>t, <1>p, <2>1, <3>1
    <3>2. CASE cspc' = [cspc EXCEPT ![p] = "answer"] BY <1>a, <2>1, <3>2 DEF CSAt
    <3> QED BY <2>1, <3>1, <3>2
  <2>7. \A q \in Procs : cspc'[q] = "next" => cspc[q] = "next" BY <1>t, <2>1
  <2> QED BY <1>t, <1>p, <2>1, <2>4, <2>5, <2>6, <2>7
<1>3. CASE p \in Cl /\ CS(d, rt)!Answer(p)
  <2>1. /\ cspc[p] = "answer" /\ cspc' = [cspc EXCEPT ![p] = "loop"]
        /\ csslot' = [csslot EXCEPT ![<<to[p], p>>] = None]
        /\ CS(d, rt)!Advance(p)
        /\ UNCHANGED <<num_msgs1, num_zeros, csstart, csanswer, co>>
    BY <1>3 DEF CS!Answer, CS!Ch!Receive
  <2>2. csslot' \in [Chan -> M \cup {None}] BY <1>t, <2>1
  <2>3. to' \in [Procs -> Sv] /\ to_idx' \in [Procs -> 0 .. CS(d, rt)!num_dsl - 1]
    BY <2>1, AdvanceIs DEF CSTyped, Sv
  <2>4. \A q \in Procs : cspc'[q] = "next" => cspc[q] = "next" BY <1>t, <2>1
  <2>5. p \notin Sv BY <1>3, <1>f
  <2> QED BY <1>t, <1>p, <1>a, <2>1, <2>2, <2>3, <2>4, <2>5 DEF CSAt
<1>4. CASE CS(d, rt)!AllSent(p)
  <2>1. /\ cspc[p] = "loop" /\ cspc' = [cspc EXCEPT ![p] = "report"]
        /\ UNCHANGED <<csslot, num_msgs1, to, to_idx, num_zeros, csstart, csanswer, co>>
    BY <1>4 DEF CS!AllSent, CS!channels
  <2>2. \A q \in Procs : cspc'[q] = "next" => cspc[q] = "next" BY <1>t, <2>1
  <2> QED BY <1>t, <1>p, <1>a, <2>1, <2>2 DEF CSAt
\* After a look at one sender the position is that of the next.
<1>b. ASSUME p \in Sv, csstart' = [csstart EXCEPT ![p] = CS(d, rt)!After(@)]
      PROVE  \A q \in Sv : csstart'[q] \in 0 .. n - 1
  <2>1. csstart[p] \in 0 .. n - 1 BY <1>t, <1>b
  <2>2. CS(d, rt)!After(csstart[p]) \in 0 .. n - 1 BY <1>f, <2>1 DEF CS!After, n
  <2>3. \A q \in Sv : csstart'[q] \in {csstart[q], CS(d, rt)!After(csstart[p])} BY <1>b
  <2> QED BY <1>t, <2>2, <2>3
<1>5. CASE p \in Sv /\ CS(d, rt)!Miss(p)
  <2>1. /\ csstart' = [csstart EXCEPT ![p] = CS(d, rt)!After(@)]
        /\ UNCHANGED <<csslot, cspc, num_msgs1, to, to_idx, num_zeros, csanswer, co>>
    BY <1>5 DEF CS!Miss, CS!channels
  <2> QED BY <1>t, <1>p, <1>b, <1>5, <2>1
<1>6. CASE p \in Sv /\ CS(d, rt)!Serve(p)
  <2> DEFINE c == CS(d, rt)!Sender(csstart[p])
             m == csslot[<<c, p>>]
  <2>1. /\ cspc[p] = "loop" /\ csanswer[p] = None /\ m # None
        /\ csslot' = [csslot EXCEPT ![<<c, p>>] = None]
        /\ num_zeros' = [num_zeros EXCEPT ![p] = CS(d, rt)!Counted(p, m)]
        /\ csanswer' = IF rt THEN [csanswer EXCEPT ![p] = <<c, m>>] ELSE csanswer
        /\ cspc' = IF ~rt /\ num_zeros'[p] = 0 THEN [cspc EXCEPT ![p] = "report"] ELSE cspc
        /\ csstart' = [csstart EXCEPT ![p] = CS(d, rt)!After(@)]
        /\ UNCHANGED <<num_msgs1, to, to_idx, co>>
    BY <1>6 DEF CS!Serve, CS!Ch!Receive
  <2>2. c \in Cl
    <3>1. csstart[p] \in 0 .. n - 1 BY <1>t, <1>6
    <3> QED BY <3>1, CSClients DEF n, Cl
  <2>3. <<c, p>> \in Chan BY <1>f, <1>6, <2>2, CSFacts DEF Chan
  <2>4. m \in M BY <1>t, <2>1, <2>3
  <2> HIDE DEF c, m
  <2>5. p \in Procs /\ num_zeros[p] \in 0 .. n /\ num_zeros[p] >= 1 BY <1>t, <1>p, <1>f, <1>6, <2>1
  <2>6. CS(d, rt)!Counted(p, m) \in 0 .. n
    BY <1>f, <2>5 DEF CS!Counted
  <2>7. num_zeros' \in [Procs -> 0 .. n] /\ \A q \in Procs : q # p => num_zeros'[q] = num_zeros[q]
    BY <1>t, <2>1, <2>6
  <2>8. csanswer' \in [Procs -> {None} \cup (Cl \X M)] BY <1>t, <2>1, <2>2, <2>4
  <2>9. csslot' \in [Chan -> M \cup {None}] BY <1>t, <2>1
  <2>10. cspc' \in [Procs -> CSAt] /\ \A q \in Procs : cspc'[q] = "next" => cspc[q] = "next"
    BY <1>t, <2>1 DEF CSAt
  <2>11. ASSUME NEW q \in Sv, cspc'[q] \in {"begin", "main", "loop"}, csanswer'[q] = None
         PROVE  num_zeros'[q] >= 1
    <3>1. CASE q # p
      <4>1. q \in Procs /\ cspc'[q] = cspc[q] /\ csanswer'[q] = csanswer[q]
        BY <1>t, <1>f, <2>1, <3>1
      <4> QED BY <1>p, <2>7, <2>11, <3>1, <4>1
    <3>2. CASE q = p
      <4>1. ~rt
        <5>1. rt => csanswer'[p] = <<c, m>> BY <1>t, <2>1, <2>5
        <5>2. <<c, m>> \in Cl \X M BY <2>2, <2>4
        <5> QED BY <1>f, <2>11, <3>2, <5>1, <5>2
      <4>2. num_zeros'[p] # 0
        <5>1. num_zeros'[p] = 0 => cspc'[p] = "report" BY <1>t, <2>1, <2>5, <4>1
        <5> QED BY <2>11, <3>2, <5>1
      <4>3. num_zeros'[p] \in 0 .. n BY <2>5, <2>7
      <4> QED BY <1>f, <3>2, <4>2, <4>3
    <3> QED BY <3>1, <3>2
  <2> QED BY <1>t, <1>p, <1>b, <1>6, <2>1, <2>7, <2>8, <2>9, <2>10, <2>11
<1>7. CASE p \in Sv /\ CS(d, rt)!SendBack(p)
  <2>1. /\ csanswer[p] # None
        /\ csslot' = [csslot EXCEPT ![<<p, csanswer[p][1]>>] = csanswer[p][2]]
        /\ csanswer' = [csanswer EXCEPT ![p] = None]
        /\ cspc' = IF num_zeros[p] = 0 THEN [cspc EXCEPT ![p] = "report"] ELSE cspc
        /\ UNCHANGED <<num_msgs1, to, to_idx, num_zeros, csstart, co>>
    BY <1>7 DEF CS!SendBack
  <2>2. csanswer[p] \in Cl \X M BY <1>t, <2>1
  <2>3. csanswer[p][2] \in M BY <2>2
  <2>4. csslot' \in [Chan -> M \cup {None}] /\ csanswer' \in [Procs -> {None} \cup (Cl \X M)]
    BY <1>t, <2>1, <2>3
  <2>5. cspc' \in [Procs -> CSAt] /\ \A q \in Procs : cspc'[q] = "next" => cspc[q] = "next"
    BY <1>t, <2>1 DEF CSAt
  <2>6. ASSUME NEW q \in Sv, cspc'[q] \in {"begin", "main", "loop"}, csanswer'[q] = None
        PROVE  num_zeros'[q] >= 1
    <3>1. CASE q # p
      <4>1. q \in Procs /\ cspc'[q] = cspc[q] /\ csanswer'[q] = csanswer[q]
        BY <1>t, <1>f, <2>1, <3>1
      <4> QED BY <1>p, <2>1, <2>6, <3>1, <4>1
    <3>2. CASE q = p
      <4>1. num_zeros[p] # 0
        <5>1. num_zeros[p] = 0 => cspc'[p] = "report" BY <1>t, <2>1
        <5> QED BY <2>6, <3>2, <5>1
      <4>2. num_zeros[p] \in 0 .. n BY <1>t
      <4> QED BY <1>f, <2>1, <3>2, <4>1, <4>2
    <3> QED BY <3>1, <3>2
  <2> QED BY <1>t, <1>p, <2>1, <2>4, <2>5, <2>6
\* The rounds at the end.
<1>8. CASE CS(d, rt)!SendReport(p)
  <2>1. /\ co[p] = p /\ cspc[p] = "report"
        /\ csslot' = [csslot EXCEPT ![<<p, 0>>] = CS(d, rt)!REPORT]
        /\ cspc' = [cspc EXCEPT ![p] = "next"]
        /\ UNCHANGED <<num_msgs1, to, to_idx, num_zeros, csstart, csanswer, co>>
    BY <1>8 DEF CS!SendReport, CS!Ch!Send
  <2>2. csslot' \in [Chan -> M \cup {None}] BY <1>t, <1>f, <2>1
  <2>3. co[p] < N BY <1>f, <2>1
  <2>4. \A q \in Procs : cspc'[q] = "next" => co'[q] < N BY <1>t, <1>p, <2>1, <2>3
  <2> QED BY <1>t, <1>p, <1>a, <2>1, <2>2, <2>4 DEF CSAt
<1>9. CASE CS(d, rt)!Collect(p)
  <2>1. /\ co[p] \in Cl /\ cspc[p] = "report"
        /\ csslot' = [csslot EXCEPT ![<<co[p], p>>] = None]
        /\ cspc' = [cspc EXCEPT ![p] = "next"]
        /\ UNCHANGED <<num_msgs1, to, to_idx, num_zeros, csstart, csanswer, co>>
    BY <1>9 DEF CS!Collect, CS!Ch!Receive, Cl
  <2>2. csslot' \in [Chan -> M \cup {None}] BY <1>t, <2>1
  <2>3. co[p] < N BY <1>f, <2>1
  <2>4. \A q \in Procs : cspc'[q] = "next" => co'[q] < N BY <1>t, <1>p, <2>1, <2>3
  <2> QED BY <1>t, <1>p, <1>a, <2>1, <2>2, <2>4 DEF CSAt
<1>10. CASE CS(d, rt)!Skip(p)
  <2>1. /\ cspc[p] = "report"
        /\ cspc' = [cspc EXCEPT ![p] = IF co[p] < N THEN "next" ELSE "last"]
        /\ UNCHANGED <<csslot, num_msgs1, to, to_idx, num_zeros, csstart, csanswer, co>>
    BY <1>10 DEF CS!Skip, CS!channels
  <2>2. \A q \in Procs : cspc'[q] = "next" => co'[q] < N BY <1>t, <1>p, <2>1
  <2> QED BY <1>t, <1>p, <1>a, <2>1, <2>2 DEF CSAt
<1>11. CASE CS(d, rt)!NextCo(p)
  <2>1. /\ cspc[p] = "next"
        /\ \/ UNCHANGED <<cspc, co>>
           \/ cspc' = [cspc EXCEPT ![p] = "report"] /\ co' = [co EXCEPT ![p] = @ + 1]
        /\ UNCHANGED <<csslot, num_msgs1, to, to_idx, num_zeros, csstart, csanswer>>
    BY <1>11 DEF CS!NextCo, CS!channels
  <2>2. co[p] \in 0 .. N /\ co[p] < N BY <1>t, <1>p, <2>1
  <2>3. co' \in [Procs -> 0 .. N] /\ \A q \in Procs : q # p => co'[q] = co[q]
    <3>1. co[p] + 1 \in 0 .. N BY <1>f, <2>2
    <3> QED BY <1>t, <2>1, <3>1
  <2>4. \A q \in Procs : cspc'[q] = "next" => co'[q] < N BY <1>t, <1>p, <2>1, <2>3
  <2>5. CASE UNCHANGED <<cspc, co>> BY <1>t, <1>p, <2>1, <2>5
  <2>6. CASE cspc' = [cspc EXCEPT ![p] = "report"]
    BY <1>t, <1>p, <1>a, <2>1, <2>3, <2>4, <2>6 DEF CSAt
  <2> QED BY <2>1, <2>5, <2>6
<1>12. CASE p \in Cl /\ CS(d, rt)!Client(p)
  BY <1>1, <1>2, <1>3, <1>4, <1>12 DEF CS!Client, CSAt
<1>13. CASE p \in Sv /\ CS(d, rt)!Server(p)
  BY <1>1, <1>5, <1>6, <1>7, <1>13 DEF CS!Server, CSAt
<1>14. CASE CS(d, rt)!End(p)
  BY <1>1, <1>8, <1>9, <1>10, <1>11, <1>14 DEF CS!End, CSAt
<1> QED BY <1>12, <1>13, <1>14 DEF CS!Step, Sv, Cl

-----------------------------------------------------------------------------
(* client_server: barrier 0 *)

\* The waits on barrier 0 that are behind p.
Behind(p) == CASE cspc[p] = "begin" -> 0
               [] cspc[p] = "main" -> 1
               [] cspc[p] \in {"loop", "answer"} -> 2
               [] cspc[p] \in {"report", "next", "last"} -> 2 + co[p]
               [] cspc[p] = "term" -> 3 + co[p]

InLoop == {"begin", "main", "loop", "answer"}

CSWaits ==
  /\ csparty = [b \in {0} |-> Procs]
  /\ csarrivals \in [{0} -> [Procs -> Nat]] /\ csdepartures \in [{0} -> [Procs -> Nat]]
  /\ \A p \in Procs :
       /\ cspc[p] \in InLoop => co[p] = 0
       /\ csdepartures[0][p] = Behind(p)
       /\ \/ csarrivals[0][p] = Behind(p)
          \/ csarrivals[0][p] = Behind(p) + 1 /\ cspc[p] \in {"begin", "main", "next", "last"}
  /\ \A p, q \in Procs : csdepartures[0][p] <= csarrivals[0][q]

\* When one is in the second round at the end nobody is in the loop any more.
LEMMA Together ==
  ASSUME CSWaits, cspc \in [Procs -> CSAt], co \in [Procs -> 0 .. N], N \in Nat,
         NEW p \in Procs, NEW q \in Procs, co[p] >= 1
  PROVE  cspc[q] \in {"report", "next", "last", "term"}
<1>1. co[p] \in Nat /\ cspc[p] \in CSAt \ InLoop /\ cspc[q] \in CSAt
  <2>1. co[p] \in Nat /\ cspc[p] \in CSAt /\ cspc[q] \in CSAt OBVIOUS
  <2>2. cspc[p] \in InLoop => co[p] = 0 BY DEF CSWaits
  <2> QED BY <2>1, <2>2
<1>2. Behind(p) >= 3 BY <1>1 DEF Behind, CSAt, InLoop
<1>3. csarrivals[0][q] >= 3
  <2>1. csdepartures[0][p] = Behind(p) /\ csdepartures[0][p] <= csarrivals[0][q] BY DEF CSWaits
  <2>2. csarrivals[0][q] \in Nat /\ csdepartures[0][p] \in Nat BY DEF CSWaits
  <2> QED BY <1>2, <2>1, <2>2
<1>4. ASSUME cspc[q] \in InLoop PROVE FALSE
  <2>1. \/ csarrivals[0][q] = Behind(q)
        \/ csarrivals[0][q] = Behind(q) + 1 /\ cspc[q] \in {"begin", "main", "next", "last"}
    BY DEF CSWaits
  <2> QED BY <1>3, <1>4, <2>1 DEF Behind, InLoop
<1> QED BY <1>1, <1>4 DEF CSAt, InLoop

\* A step that leaves the barrier and what is behind everybody alone.
LEMMA CSNoWait ==
  ASSUME CSWaits, NEW p \in Procs, NEW at, cspc \in [Procs -> CSAt],
         UNCHANGED <<csparty, csarrivals, csdepartures, co>>,
         \/ UNCHANGED cspc
         \/ /\ cspc' = [cspc EXCEPT ![p] = at]
            /\ \/ cspc[p] \in {"loop", "answer"} /\ at \in {"loop", "answer", "report"}
               \/ cspc[p] = "report" /\ at \in {"next", "last"}
  PROVE  CSWaits'
<1>1. CASE UNCHANGED cspc BY <1>1 DEF CSWaits, Behind
<1>2. CASE ~UNCHANGED cspc
  <2>1. \A q \in Procs : cspc'[q] = IF q = p THEN at ELSE cspc[q] BY <1>2
  <2>2. ASSUME NEW q \in Procs
        PROVE  /\ cspc'[q] \in InLoop => co[q] = 0
               /\ Behind(q)' = Behind(q)
               /\ cspc[q] \in {"begin", "main", "next", "last"}
                    => cspc'[q] \in {"begin", "main", "next", "last"}
    <3>1. cspc[q] \in InLoop => co[q] = 0 BY DEF CSWaits
    <3>2. CASE q # p BY <2>1, <3>1, <3>2 DEF Behind
    <3>3. CASE q = p
      <4>1. cspc'[p] = at BY <2>1
      <4>2. CASE cspc[p] \in {"loop", "answer"} /\ at \in {"loop", "answer"}
        <5>1. Behind(p)' = 2 /\ Behind(p) = 2 BY <4>1, <4>2 DEF Behind
        <5> QED BY <3>1, <3>3, <4>1, <4>2, <5>1 DEF InLoop
      <4>3. CASE cspc[p] \in {"loop", "answer"} /\ at = "report"
        <5>1. Behind(p)' = 2 + co'[p] /\ Behind(p) = 2 BY <4>1, <4>3 DEF Behind
        <5>2. co[p] = 0 /\ co'[p] = 0 BY <3>1, <3>3, <4>3 DEF InLoop
        <5> QED BY <3>1, <3>3, <4>1, <4>3, <5>1, <5>2
      <4>4. CASE cspc[p] = "report" /\ at \in {"next", "last"}
        <5>1. Behind(p)' = 2 + co'[p] /\ Behind(p) = 2 + co[p] BY <4>1, <4>4 DEF Behind
        <5> QED BY <3>1, <3>3, <4>1, <4>4, <5>1 DEF InLoop
      <4> QED BY <1>2, <4>2, <4>3, <4>4
    <3> QED BY <3>2, <3>3
  <2> QED BY <2>2 DEF CSWaits
<1> QED BY <1>1, <1>2

LEMMA CSArrives ==
  ASSUME CSWaits, NEW p \in Procs, cspc[p] \in {"begin", "main", "next", "last"},
         csarrivals[0][p] = csdepartures[0][p],
         csarrivals' = [csarrivals EXCEPT ![0][p] = @ + 1],
         UNCHANGED <<csparty, csdepartures, cspc, co>>
  PROVE  CSWaits'
<1>1. /\ csarrivals' \in [{0} -> [Procs -> Nat]]
      /\ \A q \in Procs : csarrivals'[0][q] = IF q = p THEN csarrivals[0][q] + 1
                                              ELSE csarrivals[0][q]
      /\ \A q \in Procs : csarrivals[0][q] \in Nat /\ csdepartures[0][q] \in Nat
  BY DEF CSWaits
<1>2. \A q \in Procs : Behind(q)' = Behind(q) BY DEF Behind
<1>3. ASSUME NEW q \in Procs
      PROVE  \/ csarrivals'[0][q] = Behind(q)
             \/ csarrivals'[0][q] = Behind(q) + 1 /\ cspc[q] \in {"begin", "main", "next", "last"}
  BY <1>1 DEF CSWaits
<1>4. ASSUME NEW q \in Procs, NEW r \in Procs PROVE csdepartures[0][q] <= csarrivals'[0][r]
  <2>1. csdepartures[0][q] <= csarrivals[0][r] BY DEF CSWaits
  <2> QED BY <1>1, <2>1
<1> QED BY <1>1, <1>2, <1>3, <1>4 DEF CSWaits

LEMMA CSDeparts ==
  ASSUME NEW d, NEW rt, CSWaits, NEW p \in Procs, CS(d, rt)!Bar!Depart(0, p),
         cspc \in [Procs -> CSAt],
         co \in [Procs -> Nat], NEW at, cspc' = [cspc EXCEPT ![p] = at],
         \/ cspc[p] = "begin" /\ at = "main" /\ UNCHANGED co
         \/ cspc[p] = "main" /\ at = "loop" /\ UNCHANGED co
         \/ cspc[p] = "next" /\ at = "report" /\ co' = [co EXCEPT ![p] = @ + 1]
         \/ cspc[p] = "last" /\ at = "term" /\ UNCHANGED co
  PROVE  CSWaits'
<1>1. /\ csdepartures[0][p] < csarrivals[0][p]
      /\ \A q \in csparty[0] : csdepartures[0][p] < csarrivals[0][q]
      /\ csdepartures' = [csdepartures EXCEPT ![0][p] = @ + 1]
      /\ UNCHANGED <<csparty, csarrivals>>
  BY DEF CS!Bar!Depart
<1>2. /\ csdepartures' \in [{0} -> [Procs -> Nat]]
      /\ \A q \in Procs : csdepartures'[0][q] = IF q = p THEN csdepartures[0][q] + 1
                                                ELSE csdepartures[0][q]
      /\ \A q \in Procs : csarrivals[0][q] \in Nat /\ csdepartures[0][q] \in Nat
      /\ csparty[0] = Procs
  BY <1>1 DEF CSWaits
<1>3. /\ \A q \in Procs : cspc'[q] = IF q = p THEN at ELSE cspc[q]
      /\ \A q \in Procs : co[q] \in Nat
      /\ \A q \in Procs : co'[q] = IF q = p /\ cspc[p] = "next" THEN co[q] + 1 ELSE co[q]
  OBVIOUS
<1>4. ASSUME NEW q \in Procs
      PROVE  /\ cspc'[q] \in InLoop => co'[q] = 0
             /\ csdepartures'[0][q] = Behind(q)'
             /\ \/ csarrivals[0][q] = Behind(q)'
                \/ /\ csarrivals[0][q] = Behind(q)' + 1
                   /\ cspc'[q] \in {"begin", "main", "next", "last"}
  <2>1. /\ cspc[q] \in InLoop => co[q] = 0
        /\ csdepartures[0][q] = Behind(q)
        /\ \/ csarrivals[0][q] = Behind(q)
           \/ csarrivals[0][q] = Behind(q) + 1 /\ cspc[q] \in {"begin", "main", "next", "last"}
    BY DEF CSWaits
  <2>2. CASE q # p
    <3>1. Behind(q)' = Behind(q) BY <1>3, <2>2 DEF Behind
    <3> QED BY <1>2, <1>3, <2>1, <2>2, <3>1
  <2>3. CASE q = p
    <3>1. Behind(p)' = Behind(p) + 1 /\ Behind(p) \in Nat
      <4>1. cspc'[p] = at /\ co[p] \in Nat /\ co'[p] = IF cspc[p] = "next" THEN co[p] + 1 ELSE co[p]
        BY <1>3
      <4>2. CASE cspc[p] = "begin" BY <4>1, <4>2 DEF Behind
      <4>3. CASE cspc[p] = "main" BY <4>1, <4>3 DEF Behind
      <4>4. CASE cspc[p] = "next"
        <5>1. Behind(p) = 2 + co[p] BY <4>4 DEF Behind
        <5>2. Behind(p)' = 2 + co'[p] BY <4>1, <4>4 DEF Behind
        <5> QED BY <4>1, <4>4, <5>1, <5>2
      <4>5. CASE cspc[p] = "last"
        <5>1. Behind(p) = 2 + co[p] BY <4>5 DEF Behind
        <5>2. Behind(p)' = 3 + co'[p] BY <4>1, <4>5 DEF Behind
        <5> QED BY <4>1, <4>5, <5>1, <5>2
      <4> QED BY <4>2, <4>3, <4>4, <4>5
    <3>2. csarrivals[0][p] = Behind(p) + 1 /\ csdepartures[0][p] = Behind(p)
      BY <1>1, <1>2, <2>1, <2>3, <3>1
    <3>3. cspc'[p] \in InLoop => co'[p] = 0 BY <1>3, <2>1, <2>3 DEF InLoop
    <3> QED BY <1>2, <2>3, <3>1, <3>2, <3>3
  <2> QED BY <2>2, <2>3
<1>5. ASSUME NEW q \in Procs, NEW r \in Procs PROVE csdepartures'[0][q] <= csarrivals[0][r]
  <2>1. csdepartures[0][q] <= csarrivals[0][r] BY DEF CSWaits
  <2>2. csdepartures[0][p] < csarrivals[0][r] BY <1>1, <1>2
  <2> QED BY <1>2, <2>1, <2>2
<1> QED BY <1>1, <1>2, <1>4, <1>5 DEF CSWaits

\* Who owes an answer is a server in its loop.
CSOwes(d, rt) ==
  \A p \in Procs : csanswer[p] # None => p \in CS(d, rt)!Servers /\ cspc[p] = "loop"

LEMMA CSOwesInit ==
  ASSUME NEW d, NEW rt, CS(d, rt)!Parameters, CS(d, rt)!Init
  PROVE  CSOwes(d, rt)
BY CSFacts DEF CSOwes, CS!Init

LEMMA CSOwesStep ==
  ASSUME NEW d, NEW rt, CS(d, rt)!Parameters, CSTyped(d, rt), CSOwes(d, rt),
         NEW p \in Procs, CS(d, rt)!Step(p)
  PROVE  CSOwes(d, rt)'
<1> DEFINE Sv == CS(d, rt)!Servers
<1>t. /\ cspc \in [Procs -> CSAt]
      /\ csanswer \in [Procs -> {None} \cup (CS(d, rt)!Clients \X CS(d, rt)!Message)]
      /\ Sv' = Sv
  BY CSTypes DEF CSTyped, CS!Servers, CS!Procs, CS!color_dsl
<1>f. \A q \in Procs : csanswer[q] # None => q \in Sv /\ cspc[q] = "loop" BY DEF CSOwes
<1> SUFFICES \A q \in Procs : csanswer'[q] # None => q \in Sv /\ cspc'[q] = "loop"
  BY <1>t DEF CSOwes
<1> HIDE DEF Sv
<1>1. CASE UNCHANGED csanswer /\ csanswer[p] = None /\ \A q \in Procs : q # p => cspc'[q] = cspc[q]
  BY <1>f, <1>1
<1>2. ASSUME NEW at, NEW after, CS(d, rt)!Wait(p, at, after), at # "loop"
      PROVE  /\ UNCHANGED csanswer /\ csanswer[p] = None
             /\ \A q \in Procs : q # p => cspc'[q] = cspc[q]
  <2>1. UNCHANGED csanswer /\ csanswer[p] = None BY <1>f, <1>2 DEF CS!Wait
  <2>2. UNCHANGED cspc \/ cspc' = [cspc EXCEPT ![p] = after] BY <1>2 DEF CS!Wait
  <2> QED BY <1>t, <2>1, <2>2
<1>3. CASE CS(d, rt)!End(p)
  <2>1. CASE CS(d, rt)!SendReport(p)
    BY <1>t, <1>f, <1>1, <2>1 DEF CS!SendReport
  <2>2. CASE CS(d, rt)!Collect(p)
    BY <1>t, <1>f, <1>1, <2>2 DEF CS!Collect
  <2>3. CASE CS(d, rt)!Skip(p)
    BY <1>t, <1>f, <1>1, <2>3 DEF CS!Skip
  <2>4. CASE CS(d, rt)!NextCo(p)
    BY <1>t, <1>f, <1>1, <2>4 DEF CS!NextCo
  <2>5. CASE CS(d, rt)!Wait(p, "last", "term") BY <1>1, <1>2, <2>5
  <2> QED BY <1>3, <2>1, <2>2, <2>3, <2>4, <2>5 DEF CS!End
<1>4. CASE p \in CS(d, rt)!Clients /\ CS(d, rt)!Client(p)
  <2>1. csanswer[p] = None BY <1>f, <1>4, CSClients DEF Sv
  <2>2. CASE CS(d, rt)!Wait(p, "begin", "main") \/ CS(d, rt)!Wait(p, "main", "loop")
    BY <1>1, <1>2, <2>2
  <2>3. CASE CS(d, rt)!Request(p) BY <1>t, <1>1, <2>1, <2>3 DEF CS!Request
  <2>4. CASE CS(d, rt)!Answer(p) BY <1>t, <1>1, <2>1, <2>4 DEF CS!Answer
  <2>5. CASE CS(d, rt)!AllSent(p) BY <1>t, <1>1, <2>1, <2>5 DEF CS!AllSent
  <2> QED BY <1>4, <2>2, <2>3, <2>4, <2>5 DEF CS!Client
<1>5. CASE p \in Sv /\ CS(d, rt)!Server(p)
  <2>2. CASE CS(d, rt)!Wait(p, "begin", "main") \/ CS(d, rt)!Wait(p, "main", "loop")
    BY <1>1, <1>2, <2>2
  <2>3. CASE CS(d, rt)!Miss(p) BY <1>t, <1>f, <2>3 DEF CS!Miss
  <2>4. CASE CS(d, rt)!Serve(p)
    <3>1. /\ cspc[p] = "loop" /\ csanswer[p] = None
          /\ ~rt => UNCHANGED csanswer
          /\ \A q \in Procs : q # p => csanswer'[q] = csanswer[q] /\ cspc'[q] = cspc[q]
          /\ rt => UNCHANGED cspc
      BY <1>t, <2>4 DEF CS!Serve
    <3> QED BY <1>5, <1>f, <3>1
  <2>5. CASE CS(d, rt)!SendBack(p)
    <3>1. /\ csanswer'[p] = None
          /\ \A q \in Procs : q # p => csanswer'[q] = csanswer[q] /\ cspc'[q] = cspc[q]
      BY <1>t, <2>5 DEF CS!SendBack
    <3> QED BY <1>f, <3>1
  <2> QED BY <1>5, <2>2, <2>3, <2>4, <2>5 DEF CS!Server
<1> QED BY <1>3, <1>4, <1>5 DEF CS!Step, Sv

LEMMA CSWaitInit ==
  ASSUME NEW d, NEW rt, CS(d, rt)!Parameters, CS(d, rt)!Init
  PROVE  CSWaits
<1>1. /\ cspc = [p \in Procs |-> "begin"] /\ co = [p \in Procs |-> 0]
      /\ csparty = [b \in {0} |-> Procs]
      /\ csarrivals = [b \in {0} |-> [p \in Procs |-> 0]]
      /\ csdepartures = [b \in {0} |-> [p \in Procs |-> 0]]
  BY CSFacts DEF CS!Init
<1>2. \A p \in Procs : Behind(p) = 0 BY <1>1 DEF Behind
<1> QED BY <1>1, <1>2 DEF CSWaits

LEMMA CSWaitStep ==
  ASSUME NEW d, NEW rt, CS(d, rt)!Parameters, CSTyped(d, rt), CSOwes(d, rt), CSWaits,
         NEW p \in Procs, CS(d, rt)!Step(p)
  PROVE  CSWaits'
<1>t. /\ cspc \in [Procs -> CSAt] /\ co \in [Procs -> 0 .. N] /\ N \in Nat
      /\ co \in [Procs -> Nat]
  <2>1. cspc \in [Procs -> CSAt] /\ co \in [Procs -> 0 .. N] BY CSTypes DEF CSTyped
  <2>2. N \in Nat BY CSFacts
  <2> QED BY <2>1, <2>2
<1>a. ASSUME NEW at \in {"begin", "main", "next", "last"}, cspc[p] = at,
             CS(d, rt)!Bar!Arrive(0, p), UNCHANGED <<cspc, co>>
      PROVE  CSWaits'
  BY <1>a, CSArrives DEF CS!Bar!Arrive
<1>1. ASSUME NEW at, NEW after, CS(d, rt)!Wait(p, at, after),
             \/ at = "begin" /\ after = "main"
             \/ at = "main" /\ after = "loop"
             \/ at = "last" /\ after = "term"
      PROVE  CSWaits'
  <2>1. cspc[p] = at /\ UNCHANGED co BY <1>1 DEF CS!Wait
  <2>2. CASE CS(d, rt)!Bar!Arrive(0, p) /\ UNCHANGED cspc BY <1>a, <1>1, <2>1, <2>2
  <2>3. CASE CS(d, rt)!Bar!Depart(0, p) /\ cspc' = [cspc EXCEPT ![p] = after]
    BY <1>t, <1>1, <2>1, <2>3, CSDeparts
  <2> QED BY <1>1, <2>2, <2>3 DEF CS!Wait
<1>2. CASE CS(d, rt)!NextCo(p)
  <2>1. cspc[p] = "next" BY <1>2 DEF CS!NextCo
  <2>2. CASE CS(d, rt)!Bar!Arrive(0, p) /\ UNCHANGED <<cspc, co>> BY <1>a, <2>1, <2>2
  <2>3. CASE /\ CS(d, rt)!Bar!Depart(0, p)
             /\ cspc' = [cspc EXCEPT ![p] = "report"] /\ co' = [co EXCEPT ![p] = @ + 1]
    BY <1>t, <2>1, <2>3, CSDeparts
  <2> QED BY <1>2, <2>2, <2>3 DEF CS!NextCo
<1>3. ASSUME NEW at,
             UNCHANGED <<csparty, csarrivals, csdepartures, co>>,
             \/ UNCHANGED cspc
             \/ /\ cspc' = [cspc EXCEPT ![p] = at]
                /\ \/ cspc[p] \in {"loop", "answer"} /\ at \in {"loop", "answer", "report"}
                   \/ cspc[p] = "report" /\ at \in {"next", "last"}
      PROVE  CSWaits'
  BY <1>t, <1>3, CSNoWait
<1>4. CASE CS(d, rt)!Request(p) BY <1>3, <1>4 DEF CS!Request, CS!barrier
<1>5. CASE CS(d, rt)!Answer(p) BY <1>3, <1>5 DEF CS!Answer, CS!barrier
<1>6. CASE CS(d, rt)!AllSent(p) BY <1>3, <1>6 DEF CS!AllSent, CS!barrier
<1>7. CASE CS(d, rt)!Miss(p) BY <1>3, <1>7 DEF CS!Miss, CS!barrier
<1>8. CASE CS(d, rt)!Serve(p)
  <2>1. /\ UNCHANGED <<csparty, csarrivals, csdepartures, co>>
        /\ UNCHANGED cspc \/ cspc' = [cspc EXCEPT ![p] = "report"]
    BY <1>8 DEF CS!Serve, CS!barrier
  <2>2. cspc[p] = "loop" BY <1>8 DEF CS!Serve
  <2> QED BY <1>3, <2>1, <2>2
<1>9. CASE CS(d, rt)!SendBack(p)
  <2>1. cspc[p] = "loop" BY <1>9 DEF CS!SendBack, CSOwes
  <2> QED BY <1>3, <1>9, <2>1 DEF CS!SendBack, CS!barrier
<1>10. CASE CS(d, rt)!SendReport(p) BY <1>3, <1>10 DEF CS!SendReport, CS!barrier
<1>11. CASE CS(d, rt)!Collect(p) BY <1>3, <1>11 DEF CS!Collect, CS!barrier
<1>12. CASE CS(d, rt)!Skip(p) BY <1>3, <1>12 DEF CS!Skip, CS!barrier
<1>13. CASE CS(d, rt)!End(p)
  BY <1>1, <1>2, <1>10, <1>11, <1>12, <1>13 DEF CS!End
<1>14. CASE CS(d, rt)!Client(p)
  BY <1>1, <1>4, <1>5, <1>6, <1>14 DEF CS!Client
<1>15. CASE CS(d, rt)!Server(p)
  BY <1>1, <1>7, <1>8, <1>9, <1>15 DEF CS!Server
<1> QED BY <1>13, <1>14, <1>15 DEF CS!Step

\* Nobody goes back into the loop.
LEMMA CSLeaves ==
  ASSUME NEW d, NEW rt, CS(d, rt)!Parameters, CSTyped(d, rt), CSOwes(d, rt),
         NEW p \in Procs, CS(d, rt)!Step(p), NEW q \in Procs, cspc[q] \notin InLoop
  PROVE  cspc'[q] \notin InLoop
<1>t. cspc \in [Procs -> CSAt] BY CSTypes DEF CSTyped
<1>1. ASSUME NEW at, NEW after, CS(d, rt)!Wait(p, at, after),
             at \in InLoop \/ after \notin InLoop
      PROVE  cspc'[q] \notin InLoop
  BY <1>t, <1>1 DEF CS!Wait
<1>2. CASE CS(d, rt)!End(p)
  BY <1>t, <1>1, <1>2 DEF CS!End, CS!SendReport, CS!Collect, CS!Skip, CS!NextCo, InLoop
<1>3. CASE CS(d, rt)!Client(p)
  BY <1>t, <1>1, <1>3 DEF CS!Client, CS!Request, CS!Answer, CS!AllSent, InLoop
<1>4. CASE CS(d, rt)!Server(p)
  <2>1. CASE CS(d, rt)!Wait(p, "begin", "main") \/ CS(d, rt)!Wait(p, "main", "loop")
    BY <1>1, <2>1 DEF InLoop
  <2>2. CASE CS(d, rt)!Miss(p) BY <2>2 DEF CS!Miss
  <2>3. CASE CS(d, rt)!Serve(p)
    <3>1. UNCHANGED cspc \/ cspc' = [cspc EXCEPT ![p] = "report"] BY <2>3 DEF CS!Serve
    <3> QED BY <1>t, <3>1 DEF InLoop
  <2>4. CASE CS(d, rt)!SendBack(p)
    <3>1. UNCHANGED cspc \/ cspc' = [cspc EXCEPT ![p] = "report"] BY <2>4 DEF CS!SendBack
    <3> QED BY <1>t, <3>1 DEF InLoop
  <2> QED BY <1>4, <2>1, <2>2, <2>3, <2>4 DEF CS!Server
<1> QED BY <1>2, <1>3, <1>4 DEF CS!Step

-----------------------------------------------------------------------------
(* client_server, round trip: a message and its answer *)

\* Client c waits for server s; s has an answer for c.
Asked(c, s) == cspc[c] = "answer" /\ to[c] = s
Owed(s, c) == csanswer[s] # None /\ csanswer[s][1] = c

\* The question, or its answer, is in one place; nothing else is under way,
\* besides the throughputs that process 0 collects after its loop.
RTPair(d, c, s) ==
  IF Asked(c, s)
  THEN \/ csslot[<<c, s>>] = num_msgs1[c] /\ ~Owed(s, c) /\ csslot[<<s, c>>] = None
       \/ /\ csslot[<<c, s>>] = None /\ csslot[<<s, c>>] = None
          /\ Owed(s, c) /\ csanswer[s] = <<c, num_msgs1[c]>>
       \/ csslot[<<c, s>>] = None /\ ~Owed(s, c) /\ csslot[<<s, c>>] = num_msgs1[c]
  ELSE /\ ~Owed(s, c) /\ csslot[<<s, c>>] = None
       /\ csslot[<<c, s>>] # None =>
            csslot[<<c, s>>] = CS(d, TRUE)!REPORT /\ s = 0 /\ cspc[0] \notin InLoop

RTInv(d) ==
  \A c \in CS(d, TRUE)!Clients, s \in CS(d, TRUE)!Servers : RTPair(d, c, s)

LEMMA RTInitHolds ==
  ASSUME NEW d, CS(d, TRUE)!Parameters, CS(d, TRUE)!Init
  PROVE  RTInv(d)
<1>1. /\ csslot = [c \in CS(d, TRUE)!Ch!Chan |-> None]
      /\ cspc = [p \in Procs |-> "begin"] /\ csanswer = [p \in Procs |-> None]
  BY CSFacts DEF CS!Init, CS!Ch!Init
<1>2. ASSUME NEW c \in CS(d, TRUE)!Clients, NEW s \in CS(d, TRUE)!Servers PROVE RTPair(d, c, s)
  <2>1. c \in Procs /\ s \in Procs /\ c # s
    <3>1. CS(d, TRUE)!Servers \subseteq Procs BY CSServers
    <3>2. CS(d, TRUE)!Clients = Procs \ CS(d, TRUE)!Servers BY CSClients
    <3> QED BY <3>1, <3>2
  <2>2. <<c, s>> \in CS(d, TRUE)!Ch!Chan /\ <<s, c>> \in CS(d, TRUE)!Ch!Chan BY <2>1, CSFacts
  <2> QED BY <1>1, <2>1, <2>2 DEF RTPair, Asked, Owed
<1> QED BY <1>2 DEF RTInv

\* What does not concern c and s.
LEMMA RTFrame ==
  ASSUME NEW d, NEW c, NEW s, RTPair(d, c, s),
         csslot'[<<c, s>>] = csslot[<<c, s>>], csslot'[<<s, c>>] = csslot[<<s, c>>],
         csanswer'[s] = csanswer[s], Asked(c, s)' = Asked(c, s),
         Asked(c, s) => num_msgs1'[c] = num_msgs1[c],
         cspc[0] \notin InLoop => cspc'[0] \notin InLoop
  PROVE  RTPair(d, c, s)'
BY DEF RTPair, Owed, CS!REPORT

LEMMA RTStepHolds ==
  ASSUME NEW d, CS(d, TRUE)!Parameters, CSTyped(d, TRUE), CSOwes(d, TRUE), CSWaits, RTInv(d),
         NEW p \in Procs, CS(d, TRUE)!Step(p)
  PROVE  RTInv(d)'
<1> DEFINE Sv == CS(d, TRUE)!Servers
           Cl == CS(d, TRUE)!Clients
           M == CS(d, TRUE)!Message
           Chan == CS(d, TRUE)!Ch!Chan
<1>t. /\ csslot \in [Chan -> M \cup {None}]
      /\ cspc \in [Procs -> CSAt]
      /\ num_msgs1 \in [Procs -> 0 .. NumMsgs]
      /\ to \in [Procs -> Sv]
      /\ csanswer \in [Procs -> {None} \cup (Cl \X M)]
      /\ co \in [Procs -> 0 .. N]
  BY CSTypes DEF CSTyped
<1>f. /\ Sv \subseteq Procs /\ Cl = Procs \ Sv /\ 0 \in Sv /\ 0 \in Procs
      /\ Procs = 0 .. N - 1 /\ N \in Nat
      /\ \A c \in Procs, s \in Procs : c # s => <<c, s>> \in Chan
      /\ None \notin M /\ None \notin Cl \X M
  <2>1. N \in Nat /\ Procs = 0 .. N - 1 /\ 0 \in Procs BY CSFacts
  <2>2. Sv \subseteq Procs /\ 0 \in Sv BY CSServers
  <2>3. Cl = Procs \ Sv BY CSClients
  <2>4. None \notin M /\ None \notin Cl \X M BY CSMessages
  <2>5. \A c \in Procs, s \in Procs : c # s => <<c, s>> \in Chan BY CSFacts
  <2> QED BY <2>1, <2>2, <2>3, <2>4, <2>5
<1>o. \A q \in Procs : csanswer[q] # None => q \in Sv /\ cspc[q] = "loop" BY DEF CSOwes
<1>i. \A c \in Cl, s \in Sv : RTPair(d, c, s) BY DEF RTInv
<1>l. cspc[0] \notin InLoop => cspc'[0] \notin InLoop BY <1>f, CSLeaves
<1>s. Sv' = Sv /\ Cl' = Cl BY DEF CS!Servers, CS!Clients, CS!Procs, CS!color_dsl
<1> SUFFICES ASSUME NEW c \in Cl, NEW s \in Sv PROVE RTPair(d, c, s)'
  BY <1>s DEF RTInv
<1>c. /\ c \in Procs /\ s \in Procs /\ c # s /\ c \notin Sv /\ s \notin Cl /\ c # 0
      /\ <<c, s>> \in Chan /\ <<s, c>> \in Chan /\ RTPair(d, c, s)
  BY <1>f, <1>i
<1> HIDE DEF Sv, Cl, M, Chan
<1>1. ASSUME NEW after, UNCHANGED csslot, UNCHANGED csanswer, UNCHANGED to, UNCHANGED num_msgs1,
             UNCHANGED cspc \/ cspc' = [cspc EXCEPT ![p] = after],
             cspc[p] # "answer", after # "answer"
      PROVE  RTPair(d, c, s)'
  <2>1. Asked(c, s)' = Asked(c, s) BY <1>t, <1>c, <1>1 DEF Asked
  <2> QED BY <1>l, <1>c, <1>1, <2>1, RTFrame
<1>2. ASSUME NEW at, NEW after, CS(d, TRUE)!Wait(p, at, after), at # "answer", after # "answer"
      PROVE  RTPair(d, c, s)'
  BY <1>1, <1>2 DEF CS!Wait, CS!channels
<1>3. CASE p \in Cl /\ CS(d, TRUE)!Request(p)
  <2>1. /\ cspc[p] = "loop" /\ csslot[<<p, to[p]>>] = None
        /\ csslot' = [csslot EXCEPT ![<<p, to[p]>>] = num_msgs1[p] - 1]
        /\ num_msgs1' = [num_msgs1 EXCEPT ![p] = @ - 1]
        /\ cspc' = [cspc EXCEPT ![p] = "answer"]
        /\ UNCHANGED <<to, csanswer>>
    BY <1>3 DEF CS!Request, CS!Ch!Send
  <2>2. to[p] \in Sv BY <1>t
  <2>3. <<s, c>> # <<p, to[p]>> BY <1>c, <1>3
  <2>4. csslot'[<<s, c>>] = csslot[<<s, c>>] BY <1>t, <1>c, <2>1, <2>3
  <2>5. CASE c = p /\ s = to[p]
    <3>1. ~Asked(c, s) BY <2>1, <2>5 DEF Asked
    <3>2. ~Owed(s, c) /\ csslot[<<s, c>>] = None BY <1>c, <3>1 DEF RTPair
    <3>3. ~Owed(s, c)' BY <2>1, <3>2 DEF Owed
    <3>4. csslot'[<<c, s>>] = num_msgs1[c] - 1 BY <1>t, <1>c, <2>1, <2>5
    <3>5. num_msgs1'[c] = num_msgs1[c] - 1 BY <1>t, <1>c, <2>1, <2>5
    <3>6. Asked(c, s)' BY <1>t, <1>c, <2>1, <2>5 DEF Asked
    <3> QED BY <2>4, <3>2, <3>3, <3>4, <3>5, <3>6 DEF RTPair
  <2>6. CASE ~(c = p /\ s = to[p])
    <3>1. <<c, s>> # <<p, to[p]>> BY <2>6
    <3>2. csslot'[<<c, s>>] = csslot[<<c, s>>] BY <1>t, <1>c, <2>1, <3>1
    <3>3. Asked(c, s)' = Asked(c, s) BY <1>t, <1>c, <2>1, <2>6 DEF Asked
    <3>4. Asked(c, s) => num_msgs1'[c] = num_msgs1[c]
      BY <1>t, <1>c, <2>1, <2>6 DEF Asked
    <3> QED BY <1>l, <1>c, <2>1, <2>4, <3>2, <3>3, <3>4, RTFrame
  <2> QED BY <2>5, <2>6
<1>4. CASE p \in Cl /\ CS(d, TRUE)!Answer(p)
  <2>1. /\ cspc[p] = "answer" /\ csslot[<<to[p], p>>] # None
        /\ csslot' = [csslot EXCEPT ![<<to[p], p>>] = None]
        /\ cspc' = [cspc EXCEPT ![p] = "loop"]
        /\ to' = [to EXCEPT ![p] = CS(d, TRUE)!dsl_seq(to_idx[p])]
        /\ UNCHANGED <<num_msgs1, csanswer>>
    BY <1>4 DEF CS!Answer, CS!Ch!Receive, CS!Advance
  <2>2. to[p] \in Sv BY <1>t
  <2>3. <<c, s>> # <<to[p], p>> BY <1>c, <1>4
  <2>4. csslot'[<<c, s>>] = csslot[<<c, s>>] BY <1>t, <1>c, <2>1, <2>3
  <2>5. CASE c = p /\ s = to[p]
    <3>1. Asked(c, s) BY <2>1, <2>5 DEF Asked
    <3>2. ~Owed(s, c) /\ csslot[<<c, s>>] = None BY <1>c, <2>1, <2>5, <3>1 DEF RTPair
    <3>3. ~Owed(s, c)' BY <2>1, <3>2 DEF Owed
    <3>4. csslot'[<<s, c>>] = None BY <1>t, <1>c, <2>1, <2>5
    <3>5. ~Asked(c, s)' BY <1>t, <1>c, <2>1, <2>5 DEF Asked
    <3> QED BY <2>4, <3>2, <3>3, <3>4, <3>5 DEF RTPair
  <2>6. CASE ~(c = p /\ s = to[p])
    <3>1. <<s, c>> # <<to[p], p>> BY <2>6
    <3>2. csslot'[<<s, c>>] = csslot[<<s, c>>] BY <1>t, <1>c, <2>1, <3>1
    <3>3. Asked(c, s)' = Asked(c, s)
      <4>1. CASE c = p
        <5>1. ~Asked(c, s) BY <2>6, <4>1 DEF Asked
        <5>2. cspc'[c] = "loop" BY <1>t, <1>c, <2>1, <4>1
        <5> QED BY <5>1, <5>2 DEF Asked
      <4>2. CASE c # p BY <1>t, <1>c, <2>1, <4>2 DEF Asked
      <4> QED BY <4>1, <4>2
    <3> QED BY <1>l, <1>c, <2>1, <2>4, <3>2, <3>3, RTFrame
  <2> QED BY <2>5, <2>6
<1>5. CASE CS(d, TRUE)!AllSent(p)
  BY <1>1, <1>5 DEF CS!AllSent, CS!channels
<1>6. CASE CS(d, TRUE)!Miss(p)
  BY <1>1, <1>6 DEF CS!Miss, CS!channels
<1>7. CASE p \in Sv /\ CS(d, TRUE)!Serve(p)
  <2>1. PICK e \in Cl :
          /\ cspc[p] = "loop" /\ csanswer[p] = None /\ csslot[<<e, p>>] # None
          /\ csslot' = [csslot EXCEPT ![<<e, p>>] = None]
          /\ csanswer' = [csanswer EXCEPT ![p] = <<e, csslot[<<e, p>>]>>]
          /\ UNCHANGED <<num_msgs1, to, cspc>>
    <3>1. csstart[p] \in 0 .. CS(d, TRUE)!num_app - 1 BY <1>7, CSTypes DEF CSTyped, Sv
    <3>2. CS(d, TRUE)!Sender(csstart[p]) \in Cl BY <3>1, CSClients DEF Cl
    <3> QED BY <1>7, <3>2 DEF CS!Serve, CS!Ch!Receive
  <2>2. e \in Procs /\ <<e, p>> \in Chan /\ RTPair(d, e, p) BY <1>f, <1>i, <1>7
  <2>3. Asked(e, p) /\ csslot[<<e, p>>] = num_msgs1[e] /\ csslot[<<p, e>>] = None
    <3>1. Asked(e, p) BY <2>1, <2>2 DEF RTPair, InLoop
    <3> QED BY <2>1, <2>2, <3>1 DEF RTPair
  <2>4. <<s, c>> # <<e, p>> BY <1>f, <1>c, <1>7
  <2>5. csslot'[<<s, c>>] = csslot[<<s, c>>] BY <1>t, <1>c, <2>1, <2>4
  <2>6. Asked(c, s)' = Asked(c, s) BY <2>1 DEF Asked
  <2>7. CASE s # p
    <3>1. csanswer'[s] = csanswer[s] BY <1>t, <1>c, <2>1, <2>7
    <3>2. csslot'[<<c, s>>] = csslot[<<c, s>>]
      <4>1. <<c, s>> # <<e, p>> BY <2>7
      <4> QED BY <1>t, <1>c, <2>1, <4>1
    <3> QED BY <1>l, <1>c, <2>1, <2>5, <2>6, <3>1, <3>2, RTFrame
  <2>8. CASE s = p /\ c = e
    <3>1. csanswer'[s] = <<c, num_msgs1'[c]>> /\ Owed(s, c)'
      <4>1. csanswer'[s] = <<e, csslot[<<e, p>>]>> BY <1>t, <1>c, <2>1, <2>8
      <4>2. csslot[<<e, p>>] \in M BY <1>t, <2>1, <2>2
      <4>3. <<e, csslot[<<e, p>>]>> \in Cl \X M BY <4>2
      <4>4. Owed(s, c)' BY <1>f, <2>8, <4>1, <4>3 DEF Owed
      <4> QED BY <2>1, <2>3, <2>8, <4>1, <4>4
    <3>2. csslot'[<<c, s>>] = None BY <1>t, <1>c, <2>1, <2>8
    <3> QED BY <2>3, <2>5, <2>6, <2>8, <3>1, <3>2 DEF RTPair
  <2>9. CASE s = p /\ c # e
    <3>1. csanswer'[s] = <<e, csslot[<<e, p>>]>> BY <1>t, <1>c, <2>1, <2>9
    <3>2. ~Owed(s, c) /\ ~Owed(s, c)' BY <2>1, <2>9, <3>1 DEF Owed
    <3>3. csslot'[<<c, s>>] = csslot[<<c, s>>]
      <4>1. <<c, s>> # <<e, p>> BY <2>9
      <4> QED BY <1>t, <1>c, <2>1, <4>1
    <3> QED BY <1>l, <1>c, <2>1, <2>5, <2>6, <3>2, <3>3 DEF RTPair, CS!REPORT
  <2> QED BY <2>7, <2>8, <2>9
<1>8. CASE p \in Sv /\ CS(d, TRUE)!SendBack(p)
  <2>1. PICK e \in Cl, m \in M :
          /\ csanswer[p] = <<e, m>>
          /\ csslot' = [csslot EXCEPT ![<<p, e>>] = m]
          /\ csanswer' = [csanswer EXCEPT ![p] = None]
          /\ UNCHANGED <<num_msgs1, to>>
    <3>1. csanswer[p] \in Cl \X M BY <1>t, <1>8 DEF CS!SendBack
    <3>2. /\ csanswer[p][1] \in Cl /\ csanswer[p][2] \in M
          /\ csanswer[p] = <<csanswer[p][1], csanswer[p][2]>>
      BY <3>1
    <3>3. /\ csslot' = [csslot EXCEPT ![<<p, csanswer[p][1]>>] = csanswer[p][2]]
          /\ csanswer' = [csanswer EXCEPT ![p] = None]
          /\ UNCHANGED <<num_msgs1, to>>
      BY <1>8 DEF CS!SendBack
    <3> QED BY <3>2, <3>3
  <2>2. e \in Procs /\ <<p, e>> \in Chan /\ RTPair(d, e, p) BY <1>f, <1>i, <1>8
  <2>3. csanswer[p] # None /\ Owed(p, e)
    <3>1. csanswer[p] \in Cl \X M BY <2>1
    <3> QED BY <1>f, <2>1, <3>1 DEF Owed
  <2>4. Asked(e, p) /\ m = num_msgs1[e] /\ csslot[<<e, p>>] = None
    BY <2>1, <2>2, <2>3 DEF RTPair
  <2>5. csslot'[<<c, s>>] = csslot[<<c, s>>]
    <3>1. <<c, s>> # <<p, e>> BY <1>c, <1>8
    <3> QED BY <1>t, <1>c, <2>1, <3>1
  <2>6. Asked(c, s)' = Asked(c, s)
    <3>1. UNCHANGED cspc \/ cspc' = [cspc EXCEPT ![p] = "report"] BY <1>8 DEF CS!SendBack
    <3>2. c # p BY <1>c, <1>8
    <3> QED BY <1>t, <1>c, <2>1, <3>1, <3>2 DEF Asked
  <2>7. CASE s # p
    <3>1. csanswer'[s] = csanswer[s] BY <1>t, <1>c, <2>1, <2>7
    <3>2. csslot'[<<s, c>>] = csslot[<<s, c>>]
      <4>1. <<s, c>> # <<p, e>> BY <2>7
      <4> QED BY <1>t, <1>c, <2>1, <4>1
    <3> QED BY <1>l, <1>c, <2>1, <2>5, <2>6, <3>1, <3>2, RTFrame
  <2>8. CASE s = p /\ c = e
    <3>1. csanswer'[s] = None BY <1>t, <1>c, <2>1, <2>8
    <3>2. csslot'[<<s, c>>] = num_msgs1'[c] BY <1>t, <1>c, <2>1, <2>4, <2>8
    <3>3. ~Owed(s, c)' BY <3>1 DEF Owed
    <3> QED BY <2>4, <2>5, <2>6, <2>8, <3>2, <3>3 DEF RTPair
  <2>9. CASE s = p /\ c # e
    <3>1. csanswer'[s] = None BY <1>t, <1>c, <2>1, <2>9
    <3>2. ~Owed(s, c) /\ ~Owed(s, c)' BY <2>1, <2>9, <3>1 DEF Owed
    <3>3. csslot'[<<s, c>>] = csslot[<<s, c>>]
      <4>1. <<s, c>> # <<p, e>> BY <2>9
      <4> QED BY <1>t, <1>c, <2>1, <4>1
    <3> QED BY <1>l, <1>c, <2>1, <2>5, <2>6, <3>2, <3>3 DEF RTPair, CS!REPORT
  <2> QED BY <2>7, <2>8, <2>9
<1>9. CASE CS(d, TRUE)!SendReport(p)
  <2>1. /\ cspc[p] = "report" /\ co[p] = p /\ p % d # 0
        /\ csslot' = [csslot EXCEPT ![<<p, 0>>] = CS(d, TRUE)!REPORT]
        /\ cspc' = [cspc EXCEPT ![p] = "next"]
        /\ UNCHANGED <<num_msgs1, to, csanswer>>
    BY <1>9 DEF CS!SendReport, CS!Ch!Send, CS!color_dsl
  <2>2. p \notin Sv /\ p # 0 /\ p \in Nat
    <3>1. p \notin Sv BY <2>1 DEF Sv, CS!Servers, CS!color_dsl
    <3> QED BY <1>f, <3>1
  <2>3. cspc[0] \notin InLoop
    <3>1. co[p] >= 1 BY <2>1, <2>2
    <3>2. cspc[0] \in {"report", "next", "last", "term"} BY <1>t, <1>f, <3>1, Together
    <3> QED BY <3>2 DEF InLoop
  <2>4. csslot'[<<s, c>>] = csslot[<<s, c>>]
    <3>1. <<s, c>> # <<p, 0>> BY <1>c
    <3> QED BY <1>t, <1>c, <2>1, <3>1
  <2>5. Asked(c, s)' = Asked(c, s) BY <1>t, <1>c, <2>1 DEF Asked
  <2>6. CASE c = p /\ s = 0
    <3>1. ~Asked(c, s) BY <2>1, <2>6 DEF Asked
    <3>2. csslot'[<<c, s>>] = CS(d, TRUE)!REPORT BY <1>t, <1>c, <2>1, <2>6
    <3>3. ~Owed(s, c)' BY <1>c, <2>1, <3>1 DEF Owed, RTPair
    <3> QED BY <1>l, <1>c, <2>3, <2>4, <2>5, <2>6, <3>1, <3>2, <3>3 DEF RTPair, CS!REPORT
  <2>7. CASE ~(c = p /\ s = 0)
    <3>1. csslot'[<<c, s>>] = csslot[<<c, s>>]
      <4>1. <<c, s>> # <<p, 0>> BY <2>7
      <4> QED BY <1>t, <1>c, <2>1, <4>1
    <3> QED BY <1>l, <1>c, <2>1, <2>4, <2>5, <3>1, RTFrame
  <2> QED BY <2>6, <2>7
<1>10. CASE CS(d, TRUE)!Collect(p)
  <2>1. /\ cspc[p] = "report" /\ co[p] \in Cl /\ p = 0
        /\ csslot' = [csslot EXCEPT ![<<co[p], p>>] = None]
        /\ cspc' = [cspc EXCEPT ![p] = "next"]
        /\ UNCHANGED <<num_msgs1, to, csanswer>>
    BY <1>10 DEF CS!Collect, CS!Ch!Receive, Cl
  <2>2. co[p] >= 1 /\ co[p] \in Procs
    <3>1. co[p] \in Procs /\ co[p] # 0 BY <1>f, <2>1
    <3> QED BY <1>f, <3>1
  <2>3. cspc[co[p]] # "answer"
    <3>1. cspc[co[p]] \in {"report", "next", "last", "term"} BY <1>t, <1>f, <2>2, Together
    <3> QED BY <3>1
  <2>4. csslot'[<<s, c>>] = csslot[<<s, c>>]
    <3>1. <<s, c>> # <<co[p], p>> BY <1>c, <2>1
    <3> QED BY <1>t, <1>c, <2>1, <3>1
  <2>5. Asked(c, s)' = Asked(c, s) BY <1>t, <1>c, <2>1 DEF Asked
  <2>6. CASE c = co[p] /\ s = 0
    <3>1. ~Asked(c, s) BY <2>3, <2>6 DEF Asked
    <3>2. csslot'[<<c, s>>] = None BY <1>t, <1>c, <2>1, <2>6
    <3>3. ~Owed(s, c)' BY <1>c, <2>1, <3>1 DEF Owed, RTPair
    <3> QED BY <1>c, <2>4, <2>5, <3>1, <3>2, <3>3 DEF RTPair
  <2>7. CASE ~(c = co[p] /\ s = 0)
    <3>1. csslot'[<<c, s>>] = csslot[<<c, s>>]
      <4>1. <<c, s>> # <<co[p], p>> BY <2>1, <2>7
      <4> QED BY <1>t, <1>c, <2>1, <4>1
    <3> QED BY <1>l, <1>c, <2>1, <2>4, <2>5, <3>1, RTFrame
  <2> QED BY <2>6, <2>7
<1>11. CASE CS(d, TRUE)!Skip(p)
  BY <1>1, <1>11 DEF CS!Skip, CS!channels
<1>12. CASE CS(d, TRUE)!NextCo(p)
  BY <1>1, <1>12 DEF CS!NextCo, CS!channels
<1>13. CASE CS(d, TRUE)!End(p)
  BY <1>2, <1>9, <1>10, <1>11, <1>12, <1>13 DEF CS!End
<1>14. CASE p \in Cl /\ CS(d, TRUE)!Client(p)
  BY <1>2, <1>3, <1>4, <1>5, <1>14 DEF CS!Client
<1>15. CASE p \in Sv /\ CS(d, TRUE)!Server(p)
  BY <1>2, <1>6, <1>7, <1>8, <1>15 DEF CS!Server
<1> QED BY <1>13, <1>14, <1>15 DEF CS!Step, Sv, Cl

\* A client gets back what it has sent, and nothing is overwritten.
LEMMA RTSafe ==
  ASSUME NEW d, CS(d, TRUE)!Parameters, CSTyped(d, TRUE), CSOwes(d, TRUE), RTInv(d)
  PROVE  CS(d, TRUE)!PingPong /\ CS(d, TRUE)!NoOverwrite
<1>t. /\ to \in [Procs -> CS(d, TRUE)!Servers]
      /\ csanswer \in [Procs -> {None} \cup (CS(d, TRUE)!Clients \X CS(d, TRUE)!Message)]
      /\ CS(d, TRUE)!Servers \subseteq Procs /\ CS(d, TRUE)!Clients \subseteq Procs
  <2>1. CS(d, TRUE)!Servers \subseteq Procs BY CSServers
  <2>2. CS(d, TRUE)!Clients = Procs \ CS(d, TRUE)!Servers BY CSClients
  <2>3. /\ to \in [Procs -> CS(d, TRUE)!Servers]
        /\ csanswer \in [Procs -> {None} \cup (CS(d, TRUE)!Clients \X CS(d, TRUE)!Message)]
    BY CSTypes DEF CSTyped
  <2> QED BY <2>1, <2>2, <2>3
<1>1. CS(d, TRUE)!PingPong
  <2> SUFFICES ASSUME NEW c \in CS(d, TRUE)!Clients, cspc[c] = "answer",
                      csslot[<<to[c], c>>] # None
               PROVE  csslot[<<to[c], c>>] = num_msgs1[c]
    BY DEF CS!PingPong
  <2>1. to[c] \in CS(d, TRUE)!Servers /\ Asked(c, to[c]) BY <1>t DEF Asked
  <2> QED BY <2>1 DEF RTInv, RTPair
<1>2. CS(d, TRUE)!NoOverwrite
  <2> SUFFICES ASSUME NEW s \in CS(d, TRUE)!Servers, csanswer[s] # None
               PROVE  csslot[<<s, csanswer[s][1]>>] = None
    BY DEF CS!NoOverwrite
  <2>1. csanswer[s] \in CS(d, TRUE)!Clients \X CS(d, TRUE)!Message BY <1>t
  <2>2. PICK c \in CS(d, TRUE)!Clients : csanswer[s][1] = c /\ Owed(s, c) BY <2>1 DEF Owed
  <2>3. RTPair(d, c, s) BY DEF RTInv
  <2> QED BY <2>2, <2>3 DEF RTPair
<1> QED BY <1>1, <1>2

-----------------------------------------------------------------------------
(* client_server: the two instances of MCPrograms *)

LEMMA RTIs ==
  /\ RT!Procs = CS(RTDsl, TRUE)!Procs /\ RT!Servers = CS(RTDsl, TRUE)!Servers
  /\ RT!Clients = CS(RTDsl, TRUE)!Clients
  /\ RT!num_dsl = CS(RTDsl, TRUE)!num_dsl /\ RT!num_app = CS(RTDsl, TRUE)!num_app
  /\ RT!REPORT = CS(RTDsl, TRUE)!REPORT /\ RT!Message = CS(RTDsl, TRUE)!Message
  /\ RT!Ch!Chan = CS(RTDsl, TRUE)!Ch!Chan
<1>1. RT!Procs = CS(RTDsl, TRUE)!Procs BY DEF RT!Procs, CS!Procs
<1>2. RT!Servers = CS(RTDsl, TRUE)!Servers
  BY <1>1 DEF RT!Servers, CS!Servers, RT!color_dsl, CS!color_dsl
<1>3. RT!Clients = CS(RTDsl, TRUE)!Clients BY <1>1, <1>2 DEF RT!Clients, CS!Clients
<1>4. \A S : RT!Cardinality(S) = CS(RTDsl, TRUE)!Cardinality(S)
  BY DEF RT!Cardinality, CS!Cardinality
<1>5. RT!num_dsl = CS(RTDsl, TRUE)!num_dsl /\ RT!num_app = CS(RTDsl, TRUE)!num_app
  BY <1>2, <1>3, <1>4 DEF RT!num_dsl, CS!num_dsl, RT!num_app, CS!num_app
<1>6. RT!REPORT = CS(RTDsl, TRUE)!REPORT BY <1>5 DEF RT!REPORT, CS!REPORT
<1>7. RT!Message = CS(RTDsl, TRUE)!Message BY <1>6 DEF RT!Message, CS!Message
<1>8. RT!Ch!Chan = CS(RTDsl, TRUE)!Ch!Chan BY <1>1 DEF RT!Ch!Chan, CS!Ch!Chan
<1> QED BY <1>1, <1>2, <1>3, <1>5, <1>6, <1>7, <1>8

LEMMA RTParameters == CS(RTDsl, TRUE)!Parameters
BY Instances, RTIs DEF RT!Parameters, CS!Parameters

LEMMA RTStarts == RT!Init => CS(RTDsl, TRUE)!Init
BY RTIs DEF RT!Init, CS!Init, RT!Ch!Init, CS!Ch!Init

LEMMA RTSteps ==
  ASSUME NEW p, RT!Step(p)
  PROVE  CS(RTDsl, TRUE)!Step(p)
<1>1. ASSUME NEW at, NEW after, RT!Wait(p, at, after) PROVE CS(RTDsl, TRUE)!Wait(p, at, after)
  BY <1>1, RTIs DEF RT!Wait, CS!Wait, RT!Bar!Arrive, CS!Bar!Arrive, RT!Bar!Depart, CS!Bar!Depart,
                    RT!channels, CS!channels
<1>2. RT!Advance(p) => CS(RTDsl, TRUE)!Advance(p)
  BY RTIs DEF RT!Advance, CS!Advance, RT!dsl_seq, CS!dsl_seq
<1>3. RT!Request(p) => CS(RTDsl, TRUE)!Request(p)
  BY <1>2 DEF RT!Request, CS!Request, RT!Ch!Send, CS!Ch!Send, RT!barrier, CS!barrier
<1>4. RT!Answer(p) => CS(RTDsl, TRUE)!Answer(p)
  BY <1>2 DEF RT!Answer, CS!Answer, RT!Ch!Receive, CS!Ch!Receive, RT!barrier, CS!barrier
<1>5. RT!AllSent(p) => CS(RTDsl, TRUE)!AllSent(p)
  BY DEF RT!AllSent, CS!AllSent, RT!barrier, CS!barrier, RT!channels, CS!channels
<1>6. \A i : RT!Sender(i) = CS(RTDsl, TRUE)!Sender(i) /\ RT!After(i) = CS(RTDsl, TRUE)!After(i)
  BY RTIs DEF RT!Sender, CS!Sender, RT!After, CS!After, RT!Cardinality, CS!Cardinality
<1>7. RT!Miss(p) => CS(RTDsl, TRUE)!Miss(p)
  BY <1>6 DEF RT!Miss, CS!Miss, RT!barrier, CS!barrier, RT!channels, CS!channels
<1>8. \A m : RT!Counted(p, m) = CS(RTDsl, TRUE)!Counted(p, m)
  BY RTIs DEF RT!Counted, CS!Counted, RT!Small, CS!Small
<1>9. RT!Serve(p) => CS(RTDsl, TRUE)!Serve(p)
  BY <1>6, <1>8 DEF RT!Serve, CS!Serve, RT!Ch!Receive, CS!Ch!Receive, RT!barrier, CS!barrier
<1>10. RT!SendBack(p) => CS(RTDsl, TRUE)!SendBack(p)
  BY DEF RT!SendBack, CS!SendBack, RT!barrier, CS!barrier
<1>11. RT!SendReport(p) => CS(RTDsl, TRUE)!SendReport(p)
  BY RTIs DEF RT!SendReport, CS!SendReport, RT!Ch!Send, CS!Ch!Send, RT!color_dsl, CS!color_dsl,
              RT!barrier, CS!barrier
<1>12. RT!Collect(p) => CS(RTDsl, TRUE)!Collect(p)
  BY RTIs DEF RT!Collect, CS!Collect, RT!Ch!Receive, CS!Ch!Receive, RT!barrier, CS!barrier
<1>13. RT!Skip(p) => CS(RTDsl, TRUE)!Skip(p)
  BY RTIs DEF RT!Skip, CS!Skip, RT!color_dsl, CS!color_dsl, RT!barrier, CS!barrier, RT!channels,
              CS!channels
<1>14. RT!NextCo(p) => CS(RTDsl, TRUE)!NextCo(p)
  BY RTIs DEF RT!NextCo, CS!NextCo, RT!Bar!Arrive, CS!Bar!Arrive, RT!Bar!Depart, CS!Bar!Depart,
              RT!channels, CS!channels
<1>15. RT!Client(p) => CS(RTDsl, TRUE)!Client(p)
  BY <1>1, <1>3, <1>4, <1>5 DEF RT!Client, CS!Client
<1>16. RT!Server(p) => CS(RTDsl, TRUE)!Server(p)
  BY <1>1, <1>7, <1>9, <1>10 DEF RT!Server, CS!Server
<1>17. RT!End(p) => CS(RTDsl, TRUE)!End(p)
  BY <1>1, <1>11, <1>12, <1>13, <1>14 DEF RT!End, CS!End
<1> QED BY <1>15, <1>16, <1>17, RTIs DEF RT!Step, CS!Step

LEMMA OneWayIs ==
  /\ OneWay!Procs = CS(OneWayDsl, FALSE)!Procs /\ OneWay!Servers = CS(OneWayDsl, FALSE)!Servers
  /\ OneWay!Clients = CS(OneWayDsl, FALSE)!Clients
  /\ OneWay!num_dsl = CS(OneWayDsl, FALSE)!num_dsl /\ OneWay!num_app = CS(OneWayDsl, FALSE)!num_app
  /\ OneWay!REPORT = CS(OneWayDsl, FALSE)!REPORT /\ OneWay!Message = CS(OneWayDsl, FALSE)!Message
  /\ OneWay!Ch!Chan = CS(OneWayDsl, FALSE)!Ch!Chan
<1>1. OneWay!Procs = CS(OneWayDsl, FALSE)!Procs BY DEF OneWay!Procs, CS!Procs
<1>2. OneWay!Servers = CS(OneWayDsl, FALSE)!Servers
  BY <1>1 DEF OneWay!Servers, CS!Servers, OneWay!color_dsl, CS!color_dsl
<1>3. OneWay!Clients = CS(OneWayDsl, FALSE)!Clients BY <1>1, <1>2 DEF OneWay!Clients, CS!Clients
<1>4. \A S : OneWay!Cardinality(S) = CS(OneWayDsl, FALSE)!Cardinality(S)
  BY DEF OneWay!Cardinality, CS!Cardinality
<1>5. OneWay!num_dsl = CS(OneWayDsl, FALSE)!num_dsl /\ OneWay!num_app = CS(OneWayDsl, FALSE)!num_app
  BY <1>2, <1>3, <1>4 DEF OneWay!num_dsl, CS!num_dsl, OneWay!num_app, CS!num_app
<1>6. OneWay!REPORT = CS(OneWayDsl, FALSE)!REPORT BY <1>5 DEF OneWay!REPORT, CS!REPORT
<1>7. OneWay!Message = CS(OneWayDsl, FALSE)!Message BY <1>6 DEF OneWay!Message, CS!Message
<1>8. OneWay!Ch!Chan = CS(OneWayDsl, FALSE)!Ch!Chan BY <1>1 DEF OneWay!Ch!Chan, CS!Ch!Chan
<1> QED BY <1>1, <1>2, <1>3, <1>5, <1>6, <1>7, <1>8

LEMMA OneWayParameters == CS(OneWayDsl, FALSE)!Parameters
BY Instances, OneWayIs DEF OneWay!Parameters, CS!Parameters

LEMMA OneWayStarts == OneWay!Init => CS(OneWayDsl, FALSE)!Init
BY OneWayIs DEF OneWay!Init, CS!Init, OneWay!Ch!Init, CS!Ch!Init

LEMMA OneWaySteps ==
  ASSUME NEW p, OneWay!Step(p)
  PROVE  CS(OneWayDsl, FALSE)!Step(p)
<1>1. ASSUME NEW at, NEW after, OneWay!Wait(p, at, after)
      PROVE  CS(OneWayDsl, FALSE)!Wait(p, at, after)
  BY <1>1, OneWayIs DEF OneWay!Wait, CS!Wait, OneWay!Bar!Arrive, CS!Bar!Arrive, OneWay!Bar!Depart,
                        CS!Bar!Depart, OneWay!channels, CS!channels
<1>2. OneWay!Advance(p) => CS(OneWayDsl, FALSE)!Advance(p)
  BY OneWayIs DEF OneWay!Advance, CS!Advance, OneWay!dsl_seq, CS!dsl_seq
<1>3. OneWay!Request(p) => CS(OneWayDsl, FALSE)!Request(p)
  BY <1>2 DEF OneWay!Request, CS!Request, OneWay!Ch!Send, CS!Ch!Send, OneWay!barrier, CS!barrier
<1>4. OneWay!Answer(p) => CS(OneWayDsl, FALSE)!Answer(p)
  BY <1>2 DEF OneWay!Answer, CS!Answer, OneWay!Ch!Receive, CS!Ch!Receive, OneWay!barrier, CS!barrier
<1>5. OneWay!AllSent(p) => CS(OneWayDsl, FALSE)!AllSent(p)
  BY DEF OneWay!AllSent, CS!AllSent, OneWay!barrier, CS!barrier, OneWay!channels, CS!channels
<1>6. \A i : /\ OneWay!Sender(i) = CS(OneWayDsl, FALSE)!Sender(i)
             /\ OneWay!After(i) = CS(OneWayDsl, FALSE)!After(i)
  BY OneWayIs DEF OneWay!Sender, CS!Sender, OneWay!After, CS!After, OneWay!Cardinality,
                  CS!Cardinality
<1>7. OneWay!Miss(p) => CS(OneWayDsl, FALSE)!Miss(p)
  BY <1>6 DEF OneWay!Miss, CS!Miss, OneWay!barrier, CS!barrier, OneWay!channels, CS!channels
<1>8. \A m : OneWay!Counted(p, m) = CS(OneWayDsl, FALSE)!Counted(p, m)
  BY OneWayIs DEF OneWay!Counted, CS!Counted, OneWay!Small, CS!Small
<1>9. OneWay!Serve(p) => CS(OneWayDsl, FALSE)!Serve(p)
  BY <1>6, <1>8 DEF OneWay!Serve, CS!Serve, OneWay!Ch!Receive, CS!Ch!Receive, OneWay!barrier,
                    CS!barrier
<1>10. OneWay!SendBack(p) => CS(OneWayDsl, FALSE)!SendBack(p)
  BY DEF OneWay!SendBack, CS!SendBack, OneWay!barrier, CS!barrier
<1>11. OneWay!SendReport(p) => CS(OneWayDsl, FALSE)!SendReport(p)
  BY OneWayIs DEF OneWay!SendReport, CS!SendReport, OneWay!Ch!Send, CS!Ch!Send, OneWay!color_dsl,
                  CS!color_dsl, OneWay!barrier, CS!barrier
<1>12. OneWay!Collect(p) => CS(OneWayDsl, FALSE)!Collect(p)
  BY OneWayIs DEF OneWay!Collect, CS!Collect, OneWay!Ch!Receive, CS!Ch!Receive, OneWay!barrier,
                  CS!barrier
<1>13. OneWay!Skip(p) => CS(OneWayDsl, FALSE)!Skip(p)
  BY OneWayIs DEF OneWay!Skip, CS!Skip, OneWay!color_dsl, CS!color_dsl, OneWay!barrier,
                  CS!barrier, OneWay!channels, CS!channels
<1>14. OneWay!NextCo(p) => CS(OneWayDsl, FALSE)!NextCo(p)
  BY OneWayIs DEF OneWay!NextCo, CS!NextCo, OneWay!Bar!Arrive, CS!Bar!Arrive, OneWay!Bar!Depart,
                  CS!Bar!Depart, OneWay!channels, CS!channels
<1>15. OneWay!Client(p) => CS(OneWayDsl, FALSE)!Client(p)
  BY <1>1, <1>3, <1>4, <1>5 DEF OneWay!Client, CS!Client
<1>16. OneWay!Server(p) => CS(OneWayDsl, FALSE)!Server(p)
  BY <1>1, <1>7, <1>9, <1>10 DEF OneWay!Server, CS!Server
<1>17. OneWay!End(p) => CS(OneWayDsl, FALSE)!End(p)
  BY <1>1, <1>11, <1>12, <1>13, <1>14 DEF OneWay!End, CS!End
<1> QED BY <1>15, <1>16, <1>17, OneWayIs DEF OneWay!Step, CS!Step

-----------------------------------------------------------------------------
(* client_server, one way: who has sent its small number to whom *)

\* The servers that client c serves before s.
Dist(d, c, s) == IF s \div d >= to[c] \div d THEN (s \div d) - (to[c] \div d)
                 ELSE (s \div d) - (to[c] \div d) + CS(d, FALSE)!num_dsl

\* Nothing that c has still to send goes to s.
DoneWith(d, c, s) == num_msgs1[c] <= Dist(d, c, s)

\* The first two messages go to server 0.
TurnOf(d, c) ==
  /\ cspc[c] # "answer"
  /\ num_msgs1[c] = NumMsgs => to[c] = 0 /\ to_idx[c] = 0
  /\ num_msgs1[c] # NumMsgs =>
       to_idx[c] = IF (to[c] \div d) + 1 = CS(d, FALSE)!num_dsl THEN 0 ELSE (to[c] \div d) + 1

\* The message that is under way is the last one if its number is small.
OWPair(d, c, s) ==
  csslot[<<c, s>>] # None =>
    \/ csslot[<<c, s>>] = CS(d, FALSE)!REPORT /\ s = 0 /\ cspc[0] \notin InLoop
    \/ /\ csslot[<<c, s>>] # CS(d, FALSE)!REPORT
       /\ CS(d, FALSE)!Small(csslot[<<c, s>>]) <=> DoneWith(d, c, s)

\* s has received the last message of c.
IsDone(d, c, s) == /\ DoneWith(d, c, s)
                   /\ csslot[<<c, s>>] \in {None, CS(d, FALSE)!REPORT}
Got(d, s) == {c \in CS(d, FALSE)!Clients : IsDone(d, c, s)}

Counts(d, s) ==
  /\ num_zeros[s] = CS(d, FALSE)!num_app - Cardinality(Got(d, s))
  /\ cspc[s] \notin InLoop => num_zeros[s] = 0
  /\ csanswer[s] = None

OWInv(d) ==
  /\ \A c \in CS(d, FALSE)!Clients : TurnOf(d, c)
  /\ \A c \in CS(d, FALSE)!Clients, s \in CS(d, FALSE)!Servers : OWPair(d, c, s)
  /\ \A s \in CS(d, FALSE)!Servers : Counts(d, s)

\* A server that has left its loop has received everybody's last message.
LEMMA AllGot ==
  ASSUME NEW d, CS(d, FALSE)!Parameters, NEW s, Counts(d, s), cspc[s] \notin InLoop,
         NEW c \in CS(d, FALSE)!Clients
  PROVE  IsDone(d, c, s)
<1> DEFINE Cl == CS(d, FALSE)!Clients
<1>1. IsFiniteSet(Cl) /\ CS(d, FALSE)!num_app = Cardinality(Cl)
  <2>1. IsFiniteSet(Cl) BY CSClients
  <2> QED BY <2>1, CSCounts DEF CS!num_app
<1>2. Got(d, s) \subseteq Cl BY DEF Got
<1> HIDE DEF Cl
<1>3. Cardinality(Got(d, s)) = Cardinality(Cl)
  <2>1. num_zeros[s] = 0 /\ num_zeros[s] = Cardinality(Cl) - Cardinality(Got(d, s))
    BY <1>1 DEF Counts
  <2>2. IsFiniteSet(Got(d, s)) BY <1>1, <1>2, FS_Subset
  <2>3. Cardinality(Got(d, s)) \in Nat /\ Cardinality(Cl) \in Nat BY <1>1, <2>2, FS_CardinalityType
  <2> QED BY <2>1, <2>3
<1>4. Got(d, s) = Cl BY <1>1, <1>2, <1>3, FS_Subset
<1> QED BY <1>4 DEF Got, Cl

LEMMA OWSafe ==
  ASSUME NEW d, CS(d, FALSE)!Parameters, OWInv(d)
  PROVE  CS(d, FALSE)!NothingUnserved
<1> SUFFICES ASSUME NEW s \in CS(d, FALSE)!Servers, NEW c \in CS(d, FALSE)!Clients,
                    cspc[s] \in {"report", "next", "last", "term"}
             PROVE  csslot[<<c, s>>] \in {None, CS(d, FALSE)!REPORT}
  BY DEF CS!NothingUnserved
<1>1. cspc[s] \notin InLoop /\ Counts(d, s) BY DEF InLoop, OWInv
<1>2. IsDone(d, c, s) BY <1>1, AllGot
<1> QED BY <1>2 DEF IsDone

LEMMA OWInitHolds ==
  ASSUME NEW d, CS(d, FALSE)!Parameters, CS(d, FALSE)!Init, NumMsgs > CS(d, FALSE)!num_dsl
  PROVE  OWInv(d)
<1> DEFINE n == CS(d, FALSE)!num_dsl
<1>1. /\ csslot = [c \in CS(d, FALSE)!Ch!Chan |-> None]
      /\ cspc = [p \in Procs |-> "begin"] /\ csanswer = [p \in Procs |-> None]
      /\ num_msgs1 = [p \in Procs |-> NumMsgs] /\ to = [p \in Procs |-> 0]
      /\ to_idx = [p \in Procs |-> 0]
      /\ num_zeros = [p \in Procs |-> CS(d, FALSE)!num_app]
  BY CSFacts DEF CS!Init, CS!Ch!Init
<1>2. CS(d, FALSE)!Servers \subseteq Procs /\ n \in Nat \ {0} BY CSServers
<1>3. CS(d, FALSE)!Clients = Procs \ CS(d, FALSE)!Servers /\ CS(d, FALSE)!num_app \in Nat
  BY CSClients
<1>4. 0 \div d = 0 /\ NumMsgs \in Nat
  <2>1. d \in Nat \ {0} /\ NumMsgs \in Nat BY CSFacts
  <2> QED BY <2>1
<1>5. ASSUME NEW c \in CS(d, FALSE)!Clients, NEW s \in CS(d, FALSE)!Servers
      PROVE  OWPair(d, c, s) /\ ~IsDone(d, c, s)
  <2>1. c \in Procs /\ s \in Procs /\ c # s BY <1>2, <1>3
  <2>2. <<c, s>> \in CS(d, FALSE)!Ch!Chan BY <2>1, CSFacts
  <2>3. s \div d \in 0 .. n - 1 BY CSServers
  <2>4. ~DoneWith(d, c, s)
    <3>1. num_msgs1[c] = NumMsgs /\ to[c] = 0 BY <1>1, <2>1
    <3>2. NumMsgs > n /\ n \in Nat BY <1>2
    <3>3. Dist(d, c, s) = IF s \div d >= 0 THEN (s \div d) - 0 ELSE (s \div d) - 0 + n
      BY <1>4, <3>1 DEF Dist
    <3> HIDE DEF n
    <3> QED BY <1>4, <2>3, <3>1, <3>2, <3>3 DEF DoneWith
  <2> QED BY <1>1, <2>2, <2>4 DEF OWPair, IsDone
<1>6. \A c \in CS(d, FALSE)!Clients : TurnOf(d, c) BY <1>1, <1>3 DEF TurnOf
<1>7. ASSUME NEW s \in CS(d, FALSE)!Servers PROVE Counts(d, s)
  <2>1. Got(d, s) = {} BY <1>5 DEF Got
  <2>2. Cardinality(Got(d, s)) = 0 BY <2>1, FS_EmptySet
  <2>3. /\ num_zeros[s] = CS(d, FALSE)!num_app /\ cspc[s] = "begin" /\ csanswer[s] = None
        /\ CS(d, FALSE)!num_app \in Nat
    BY <1>1, <1>2, <1>3
  <2>4. cspc[s] \in InLoop BY <2>3 DEF InLoop
  <2>5. num_zeros[s] = CS(d, FALSE)!num_app - Cardinality(Got(d, s))
    <3>1. \A x \in Nat : x - 0 = x OBVIOUS
    <3> QED BY <2>2, <2>3, <3>1, Zenon
  <2> QED BY <2>3, <2>4, <2>5 DEF Counts
<1> QED BY <1>5, <1>6, <1>7 DEF OWInv

\* A client that sends a message goes on to the next server.
LEMMA NextTurn ==
  ASSUME NEW d, CS(d, FALSE)!Parameters, CSTyped(d, FALSE), NumMsgs > CS(d, FALSE)!num_dsl,
         NEW c \in CS(d, FALSE)!Clients, TurnOf(d, c), num_msgs1[c] > 0,
         num_msgs1' = [num_msgs1 EXCEPT ![c] = @ - 1], CS(d, FALSE)!Advance(c),
         UNCHANGED cspc
  PROVE  /\ TurnOf(d, c)'
         /\ \A s \in CS(d, FALSE)!Servers :
              IF s = to[c]
              THEN ~DoneWith(d, c, s)
                   /\ (DoneWith(d, c, s)' <=> num_msgs1[c] - 1 < CS(d, FALSE)!num_dsl)
              ELSE DoneWith(d, c, s)' <=> DoneWith(d, c, s)
<1> DEFINE n == CS(d, FALSE)!num_dsl
           Sv == CS(d, FALSE)!Servers
           a == to[c] \div d
           m == num_msgs1[c]
           i == to_idx[c]
<1>1. /\ c \in Procs /\ to \in [Procs -> Sv] /\ to_idx \in [Procs -> 0 .. n - 1]
      /\ num_msgs1 \in [Procs -> 0 .. NumMsgs]
  <2>1. c \in Procs BY CSClients
  <2>2. /\ to \in [Procs -> Sv] /\ to_idx \in [Procs -> 0 .. n - 1]
        /\ num_msgs1 \in [Procs -> 0 .. NumMsgs]
    BY CSTypes DEF CSTyped
  <2> QED BY <2>1, <2>2
<1>2. n \in Nat \ {0} /\ NumMsgs \in Nat /\ d \in Nat \ {0} BY CSServers, CSFacts
<1>3. /\ \A j \in 0 .. n - 1 : CS(d, FALSE)!dsl_seq(j) \div d = j
      /\ \A s \in Sv : s \div d \in 0 .. n - 1 /\ s = CS(d, FALSE)!dsl_seq(s \div d)
  BY CSServers
<1>4. to[c] \in Sv /\ i \in 0 .. n - 1 /\ m \in 0 .. NumMsgs /\ a \in 0 .. n - 1
  <2>1. to[c] \in Sv /\ i \in 0 .. n - 1 /\ m \in 0 .. NumMsgs BY <1>1
  <2> QED BY <1>3, <2>1
<1>5. /\ num_msgs1'[c] = m - 1
      /\ to'[c] = CS(d, FALSE)!dsl_seq(i)
      /\ to_idx'[c] = IF i + 1 = n THEN 0 ELSE i + 1
  BY <1>1 DEF CS!Advance
<1>6. to'[c] \div d = i BY <1>3, <1>4, <1>5
<1>7. 0 \div d = 0 /\ CS(d, FALSE)!dsl_seq(0) = 0 BY <1>2 DEF CS!dsl_seq
<1>8. \/ m = NumMsgs /\ to[c] = 0 /\ a = 0 /\ i = 0
      \/ m # NumMsgs /\ i = IF a + 1 = n THEN 0 ELSE a + 1
  BY <1>7 DEF TurnOf
<1>n. n' = n /\ d' = d BY DEF CS!num_dsl, CS!Servers, CS!Procs, CS!color_dsl, CS!Cardinality
<1>9. ASSUME NEW s \in Sv
      PROVE  /\ Dist(d, c, s) = LET b == s \div d IN IF b >= a THEN b - a ELSE b - a + n
             /\ Dist(d, c, s)' = LET b == s \div d IN IF b >= i THEN b - i ELSE b - i + n
             /\ s # to[c] => s \div d # a
  <2>1. s # to[c] => s \div d # a BY <1>3, <1>4
  <2> QED BY <1>6, <1>n, <2>1 DEF Dist
<1> HIDE DEF n, Sv, a, m, i
<1>10. m > 0 /\ NumMsgs > n BY DEF m, n
<1>11. TurnOf(d, c)'
  <2>1. cspc'[c] # "answer" BY DEF TurnOf
  <2>2. num_msgs1'[c] # NumMsgs BY <1>4, <1>5
  <2> QED BY <1>n, <1>5, <1>6, <2>1, <2>2 DEF TurnOf, n
<1>12. ASSUME NEW s \in Sv, s = to[c]
       PROVE  ~DoneWith(d, c, s) /\ (DoneWith(d, c, s)' <=> m - 1 < n)
  <2> DEFINE b == s \div d
  <2>1. b = a BY <1>12 DEF a
  <2>2. /\ Dist(d, c, s) = IF b >= a THEN b - a ELSE b - a + n
        /\ Dist(d, c, s)' = IF b >= i THEN b - i ELSE b - i + n
    BY <1>9
  <2> HIDE DEF b
  <2> QED BY <1>2, <1>4, <1>5, <1>8, <1>10, <2>1, <2>2 DEF DoneWith, m
<1>13. ASSUME NEW s \in Sv, s # to[c] PROVE DoneWith(d, c, s)' <=> DoneWith(d, c, s)
  <2> DEFINE b == s \div d
  <2>1. b \in 0 .. n - 1 /\ b # a BY <1>3, <1>9, <1>13
  <2>2. /\ Dist(d, c, s) = IF b >= a THEN b - a ELSE b - a + n
        /\ Dist(d, c, s)' = IF b >= i THEN b - i ELSE b - i + n
    BY <1>9
  <2> HIDE DEF b
  <2> QED BY <1>2, <1>4, <1>5, <1>8, <1>10, <2>1, <2>2 DEF DoneWith, m
<1> QED BY <1>11, <1>12, <1>13 DEF m, n, Sv

LEMMA OWStepHolds ==
  ASSUME NEW d, CS(d, FALSE)!Parameters, CSTyped(d, FALSE), CSWaits, OWInv(d),
         NumMsgs > CS(d, FALSE)!num_dsl, NEW p \in Procs, CS(d, FALSE)!Step(p),
         cspc[0] \notin InLoop => cspc'[0] \notin InLoop
  PROVE  OWInv(d)'
<1> DEFINE Sv == CS(d, FALSE)!Servers
           Cl == CS(d, FALSE)!Clients
           M == CS(d, FALSE)!Message
           Chan == CS(d, FALSE)!Ch!Chan
           n == CS(d, FALSE)!num_app
           R == CS(d, FALSE)!REPORT
<1>t. /\ csslot \in [Chan -> M \cup {None}] /\ cspc \in [Procs -> CSAt]
      /\ num_msgs1 \in [Procs -> 0 .. NumMsgs] /\ to \in [Procs -> Sv]
      /\ num_zeros \in [Procs -> 0 .. n] /\ co \in [Procs -> 0 .. N]
      /\ csanswer \in [Procs -> {None} \cup (Cl \X M)]
  BY CSTypes DEF CSTyped
<1>f. /\ Sv \subseteq Procs /\ Cl = Procs \ Sv /\ 0 \in Sv /\ 0 \in Procs
      /\ Procs = 0 .. N - 1 /\ N \in Nat /\ n \in Nat /\ IsFiniteSet(Cl)
      /\ \A c \in Procs, s \in Procs : c # s => <<c, s>> \in Chan
      /\ None \notin M
  <2>1. N \in Nat /\ Procs = 0 .. N - 1 /\ 0 \in Procs BY CSFacts
  <2>2. Sv \subseteq Procs /\ 0 \in Sv BY CSServers
  <2>3. Cl = Procs \ Sv /\ n \in Nat /\ IsFiniteSet(Cl) BY CSClients
  <2>4. None \notin M BY CSMessages
  <2>5. \A c \in Procs, s \in Procs : c # s => <<c, s>> \in Chan BY CSFacts
  <2> QED BY <2>1, <2>2, <2>3, <2>4, <2>5
<1>m. M = (0 .. NumMsgs - 1) \cup {R} /\ R \notin 0 .. NumMsgs - 1 /\ NumMsgs \in Nat
  <2>1. M = (0 .. NumMsgs - 1) \cup {R} /\ R \notin 0 .. NumMsgs - 1 BY CSMessages
  <2>2. NumMsgs \in Nat BY CSFacts
  <2> QED BY <2>1, <2>2
<1>i. /\ \A c \in Cl : TurnOf(d, c)
      /\ \A c \in Cl, s \in Sv : OWPair(d, c, s)
      /\ \A s \in Sv : Counts(d, s)
  BY DEF OWInv
<1>s. Sv' = Sv /\ Cl' = Cl BY DEF CS!Servers, CS!Clients, CS!Procs, CS!color_dsl
<1> DEFINE Goal == /\ \A c \in Cl : TurnOf(d, c)'
                   /\ \A c \in Cl, s \in Sv : OWPair(d, c, s)'
                   /\ \A s \in Sv : Counts(d, s)'
<1> SUFFICES Goal
  BY <1>s DEF OWInv
<1>c. ASSUME NEW c \in Cl, NEW s \in Sv
      PROVE  /\ c \in Procs /\ s \in Procs /\ c # s /\ c \notin Sv /\ s \notin Cl /\ c # 0
             /\ <<c, s>> \in Chan
  BY <1>f, <1>c
<1> HIDE DEF Sv, Cl, M, Chan, n
\* A step in which nobody sends a number.
<1>a. ASSUME NEW after, UNCHANGED <<to, to_idx, num_msgs1>>, after # "answer",
             UNCHANGED cspc \/ cspc' = [cspc EXCEPT ![p] = after]
      PROVE  /\ \A c \in Cl : TurnOf(d, c)'
             /\ \A c \in Cl, s \in Sv : DoneWith(d, c, s)' <=> DoneWith(d, c, s)
  <2>1. ASSUME NEW c \in Cl PROVE TurnOf(d, c)'
    <3>1. c \in Procs /\ TurnOf(d, c) BY <1>f, <1>i
    <3>2. cspc'[c] # "answer" BY <1>t, <1>a, <3>1 DEF TurnOf
    <3> QED BY <1>a, <3>1, <3>2 DEF TurnOf
  <2>2. ASSUME NEW c \in Cl, NEW s \in Sv PROVE DoneWith(d, c, s)' <=> DoneWith(d, c, s)
    BY <1>a DEF DoneWith, Dist
  <2> QED BY <2>1, <2>2
\* A channel of which nothing changes.
<1>b. ASSUME NEW c \in Cl, NEW s \in Sv, csslot'[<<c, s>>] = csslot[<<c, s>>],
             DoneWith(d, c, s)' <=> DoneWith(d, c, s)
      PROVE  OWPair(d, c, s)' /\ (IsDone(d, c, s)' <=> IsDone(d, c, s))
  <2>1. OWPair(d, c, s) BY <1>i
  <2> QED BY <1>b, <2>1 DEF OWPair, IsDone, CS!Small, CS!REPORT
\* A server that has received nothing.
<1>d. ASSUME NEW s \in Sv, \A c \in Cl : IsDone(d, c, s)' <=> IsDone(d, c, s),
             num_zeros'[s] = num_zeros[s], csanswer'[s] = csanswer[s],
             cspc'[s] \notin InLoop => cspc[s] \notin InLoop
      PROVE  Counts(d, s)'
  <2>1. Counts(d, s) BY <1>i
  <2>2. Got(d, s)' = Got(d, s) BY <1>s, <1>d DEF Got, Cl
  <2>3. n' = n BY DEF n, CS!num_app, CS!Clients, CS!Servers, CS!Procs, CS!color_dsl, CS!Cardinality
  <2> QED BY <1>d, <2>1, <2>2, <2>3 DEF Counts, n
<1>1. ASSUME NEW after,
             UNCHANGED <<csslot, csanswer, to, to_idx, num_msgs1, num_zeros>>,
             UNCHANGED cspc \/ cspc' = [cspc EXCEPT ![p] = after],
             after # "answer",
             \/ p \notin Sv
             \/ cspc[p] \notin InLoop
             \/ after \in InLoop
      PROVE  Goal
  <2>1. /\ \A c \in Cl : TurnOf(d, c)'
        /\ \A c \in Cl, s \in Sv : DoneWith(d, c, s)' <=> DoneWith(d, c, s)
    BY <1>a, <1>1
  <2>2. \A c \in Cl, s \in Sv : OWPair(d, c, s)' /\ (IsDone(d, c, s)' <=> IsDone(d, c, s))
    BY <1>b, <1>1, <2>1
  <2>3. ASSUME NEW s \in Sv PROVE cspc'[s] \notin InLoop => cspc[s] \notin InLoop
    BY <1>t, <1>f, <1>1
  <2>4. \A s \in Sv : Counts(d, s)' BY <1>d, <1>1, <2>2, <2>3
  <2> QED BY <2>1, <2>2, <2>4
<1>2. ASSUME NEW at, NEW after, CS(d, FALSE)!Wait(p, at, after), after # "answer",
             at \notin InLoop \/ after \in InLoop
      PROVE  Goal
  BY <1>1, <1>2 DEF CS!Wait, CS!channels
<1>3. CASE p \in Cl /\ CS(d, FALSE)!Request(p)
  <2>1. /\ num_msgs1[p] > 0 /\ csslot[<<p, to[p]>>] = None
        /\ csslot' = [csslot EXCEPT ![<<p, to[p]>>] = num_msgs1[p] - 1]
        /\ num_msgs1' = [num_msgs1 EXCEPT ![p] = @ - 1]
        /\ CS(d, FALSE)!Advance(p)
        /\ UNCHANGED <<cspc, csanswer, num_zeros>>
    BY <1>3 DEF CS!Request, CS!Ch!Send
  <2>2. to' = [to EXCEPT ![p] = CS(d, FALSE)!dsl_seq(to_idx[p])]
        /\ \A q \in Procs : q # p => to_idx'[q] = to_idx[q]
    <3>1. to_idx \in [Procs -> 0 .. CS(d, FALSE)!num_dsl - 1] BY CSTypes DEF CSTyped
    <3> QED BY <2>1, <3>1 DEF CS!Advance
  <2>3. /\ TurnOf(d, p)'
        /\ \A s \in Sv : IF s = to[p]
                         THEN ~DoneWith(d, p, s)
                              /\ (DoneWith(d, p, s)' <=> num_msgs1[p] - 1 < CS(d, FALSE)!num_dsl)
                         ELSE DoneWith(d, p, s)' <=> DoneWith(d, p, s)
    <3>1. TurnOf(d, p) /\ p \in CS(d, FALSE)!Clients BY <1>3, <1>i DEF Cl
    <3> QED BY <2>1, <3>1, NextTurn DEF Sv
  <2>4. ASSUME NEW c \in Cl, c # p
        PROVE  TurnOf(d, c)' /\ \A s \in Sv : DoneWith(d, c, s)' <=> DoneWith(d, c, s)
    <3>1. TurnOf(d, c) /\ c \in Procs BY <1>f, <1>i
    <3>2. to'[c] = to[c] /\ to_idx'[c] = to_idx[c] /\ num_msgs1'[c] = num_msgs1[c]
      BY <1>t, <2>1, <2>2, <2>4, <3>1
    <3> QED BY <2>1, <3>1, <3>2 DEF TurnOf, DoneWith, Dist
  <2>5. ASSUME NEW c \in Cl, NEW s \in Sv
        PROVE  OWPair(d, c, s)' /\ (IsDone(d, c, s)' <=> IsDone(d, c, s))
    <3>1. CASE ~(c = p /\ s = to[p])
      <4>1. <<c, s>> # <<p, to[p]>> BY <3>1
      <4>2. csslot'[<<c, s>>] = csslot[<<c, s>>] BY <1>t, <1>c, <2>1, <4>1
      <4>3. DoneWith(d, c, s)' <=> DoneWith(d, c, s) BY <2>3, <2>4, <3>1
      <4> QED BY <1>b, <4>2, <4>3
    <3>2. CASE c = p /\ s = to[p]
      <4>1. num_msgs1[p] \in 0 .. NumMsgs BY <1>t
      <4>2. csslot'[<<c, s>>] = num_msgs1[p] - 1 BY <1>t, <1>c, <2>1, <3>2
      <4>3. num_msgs1[p] - 1 \in 0 .. NumMsgs - 1 BY <1>m, <2>1, <4>1
      <4>4. num_msgs1[p] - 1 \notin {None, R} /\ num_msgs1[p] - 1 \in M BY <1>f, <1>m, <4>3
      <4>5. ~DoneWith(d, c, s) /\ (DoneWith(d, c, s)' <=> num_msgs1[p] - 1 < CS(d, FALSE)!num_dsl)
        BY <2>3, <3>2
      <4>6. csslot'[<<c, s>>] \notin {None, CS(d, FALSE)!REPORT} BY <4>2, <4>4
      <4>7. ~IsDone(d, c, s)' BY <4>6 DEF IsDone, CS!REPORT
      <4>8. CS(d, FALSE)!Small(csslot'[<<c, s>>]) <=> DoneWith(d, c, s)'
        BY <4>2, <4>5 DEF CS!Small
      <4>9. OWPair(d, c, s)' BY <4>6, <4>8 DEF OWPair, CS!Small, CS!REPORT
      <4> QED BY <4>5, <4>7, <4>9 DEF IsDone
    <3> QED BY <3>1, <3>2
  <2>6. \A s \in Sv : Counts(d, s)' BY <1>d, <2>1, <2>5
  <2> QED BY <2>3, <2>4, <2>5, <2>6
<1>4. CASE p \in Cl /\ CS(d, FALSE)!Answer(p)
  BY <1>i, <1>4 DEF CS!Answer, TurnOf
<1>5. CASE p \in Cl /\ CS(d, FALSE)!AllSent(p)
  <2>1. p \notin Sv BY <1>5, <1>f
  <2> QED BY <1>1, <1>5, <2>1 DEF CS!AllSent, CS!channels
<1>6. CASE CS(d, FALSE)!Miss(p)
  <2>1. UNCHANGED <<csslot, csanswer, to, to_idx, num_msgs1, num_zeros, cspc>> /\ cspc[p] = "loop"
    BY <1>6 DEF CS!Miss, CS!channels
  <2>2. "loop" \in InLoop BY DEF InLoop
  <2> QED BY <1>1, <2>1, <2>2
<1>7. CASE p \in Sv /\ CS(d, FALSE)!Serve(p)
  <2>1. PICK e \in Cl :
          /\ cspc[p] = "loop" /\ csslot[<<e, p>>] # None
          /\ csslot' = [csslot EXCEPT ![<<e, p>>] = None]
          /\ num_zeros' = [num_zeros EXCEPT ![p] = CS(d, FALSE)!Counted(p, csslot[<<e, p>>])]
          /\ cspc' = IF num_zeros'[p] = 0 THEN [cspc EXCEPT ![p] = "report"] ELSE cspc
          /\ UNCHANGED <<num_msgs1, to, to_idx, csanswer>>
    <3>1. csstart[p] \in 0 .. CS(d, FALSE)!num_app - 1 BY <1>7, CSTypes DEF CSTyped, Sv
    <3>2. CS(d, FALSE)!Sender(csstart[p]) \in Cl BY <3>1, CSClients DEF Cl
    <3> QED BY <1>7, <3>2 DEF CS!Serve, CS!Ch!Receive
  <2> DEFINE m == csslot[<<e, p>>]
  <2>2. /\ e \in Procs /\ p \in Procs /\ <<e, p>> \in Chan
        /\ OWPair(d, e, p) /\ Counts(d, p) /\ num_zeros[p] \in 0 .. n
    BY <1>c, <1>i, <1>t, <1>7
  <2>3. m # None /\ m # R /\ (m < CS(d, FALSE)!num_dsl <=> DoneWith(d, e, p))
    <3>1. cspc[p] \in InLoop BY <2>1 DEF InLoop
    <3> QED BY <2>1, <2>2, <3>1 DEF OWPair, CS!Small
  <2>4. \A c \in Cl : TurnOf(d, c)'
    <3>1. UNCHANGED cspc \/ cspc' = [cspc EXCEPT ![p] = "report"] BY <2>1
    <3> QED BY <1>a, <2>1, <3>1
  <2>5. \A c \in Cl, s \in Sv : DoneWith(d, c, s)' <=> DoneWith(d, c, s)
    <3>1. UNCHANGED cspc \/ cspc' = [cspc EXCEPT ![p] = "report"] BY <2>1
    <3> QED BY <1>a, <2>1, <3>1
  <2>6. csslot'[<<e, p>>] = None BY <1>t, <2>1, <2>2
  <2>7. ASSUME NEW c \in Cl, NEW s \in Sv, ~(c = e /\ s = p)
        PROVE  OWPair(d, c, s)' /\ (IsDone(d, c, s)' <=> IsDone(d, c, s))
    <3>1. <<c, s>> # <<e, p>> BY <2>7
    <3>2. csslot'[<<c, s>>] = csslot[<<c, s>>] BY <1>t, <1>c, <2>1, <3>1
    <3> QED BY <1>b, <2>5, <3>2
  <2>8. OWPair(d, e, p)' BY <2>6 DEF OWPair
  <2>9. ~IsDone(d, e, p) /\ (IsDone(d, e, p)' <=> DoneWith(d, e, p))
    <3>1. ~IsDone(d, e, p) BY <2>3 DEF IsDone
    <3>2. DoneWith(d, e, p)' <=> DoneWith(d, e, p) BY <2>5, <1>7
    <3> QED BY <2>6, <3>1, <3>2 DEF IsDone
  <2>10. ASSUME NEW s \in Sv, s # p PROVE Counts(d, s)'
    <3>1. s \in Procs BY <1>f
    <3>2. num_zeros'[s] = num_zeros[s] /\ csanswer'[s] = csanswer[s] /\ cspc'[s] = cspc[s]
      BY <1>t, <2>1, <2>10, <3>1
    <3>3. \A c \in Cl : IsDone(d, c, s)' <=> IsDone(d, c, s) BY <2>7, <2>10
    <3> QED BY <1>d, <3>2, <3>3
  <2>11. Counts(d, p)'
    <3>1. num_zeros'[p] = IF m < CS(d, FALSE)!num_dsl THEN num_zeros[p] - 1 ELSE num_zeros[p]
      BY <1>t, <2>1, <2>2 DEF CS!Counted, CS!Small
    <3>2. \A c \in Cl : c # e => (IsDone(d, c, p)' <=> IsDone(d, c, p)) BY <2>7, <1>7
    <3>3. Got(d, p)' = {c \in Cl : IsDone(d, c, p)'} BY <1>s DEF Got, Cl
    <3>4. Got(d, p) = {c \in Cl : IsDone(d, c, p)} BY DEF Got, Cl
    <3>5. IsFiniteSet(Got(d, p)) BY <1>f, <3>4, FS_Subset
    <3>6. Cardinality(Got(d, p)) \in Nat BY <3>5, FS_CardinalityType
    <3>7. n' = n
      BY DEF n, CS!num_app, CS!Clients, CS!Servers, CS!Procs, CS!color_dsl, CS!Cardinality
    <3>8. num_zeros[p] = n - Cardinality(Got(d, p)) /\ csanswer[p] = None BY <2>2 DEF Counts, n
    <3>9. num_zeros'[p] = n - Cardinality(Got(d, p)')
      <4>1. CASE DoneWith(d, e, p)
        <5>1. Got(d, p)' = Got(d, p) \cup {e} /\ e \notin Got(d, p)
          BY <2>9, <3>2, <3>3, <3>4, <4>1
        <5>2. Cardinality(Got(d, p)') = Cardinality(Got(d, p)) + 1 BY <3>5, <5>1, FS_AddElement
        <5>3. num_zeros'[p] = num_zeros[p] - 1 BY <2>3, <3>1, <4>1
        <5> QED BY <1>f, <3>6, <3>8, <5>2, <5>3
      <4>2. CASE ~DoneWith(d, e, p)
        <5>1. Got(d, p)' = Got(d, p) BY <2>9, <3>2, <3>3, <3>4, <4>2
        <5>2. num_zeros'[p] = num_zeros[p] BY <2>3, <3>1, <4>2
        <5> QED BY <3>8, <5>1, <5>2
      <4> QED BY <4>1, <4>2
    <3>10. cspc'[p] \notin InLoop => num_zeros'[p] = 0
      <4>1. num_zeros'[p] # 0 => cspc'[p] = "loop" BY <2>1
      <4> QED BY <4>1 DEF InLoop
    <3>11. csanswer'[p] = None BY <2>1, <3>8
    <3> QED BY <3>7, <3>9, <3>10, <3>11 DEF Counts, n
  <2> QED BY <2>4, <2>7, <2>8, <2>10, <2>11
<1>8. CASE p \in Sv /\ CS(d, FALSE)!SendBack(p)
  BY <1>i, <1>8 DEF CS!SendBack, Counts
<1>9. CASE CS(d, FALSE)!SendReport(p)
  <2>1. /\ cspc[p] = "report" /\ co[p] = p /\ p % d # 0 /\ csslot[<<p, 0>>] = None
        /\ csslot' = [csslot EXCEPT ![<<p, 0>>] = R]
        /\ cspc' = [cspc EXCEPT ![p] = "next"]
        /\ UNCHANGED <<num_msgs1, to, to_idx, num_zeros, csanswer>>
    BY <1>9 DEF CS!SendReport, CS!Ch!Send, CS!color_dsl
  <2>2. p \in Cl /\ p # 0 /\ p \in Nat
    <3>1. p \notin Sv BY <2>1 DEF Sv, CS!Servers, CS!color_dsl
    <3> QED BY <1>f, <3>1
  <2>3. cspc[0] \notin InLoop
    <3>1. co[p] >= 1 BY <2>1, <2>2
    <3>2. cspc[0] \in {"report", "next", "last", "term"} BY <1>t, <1>f, <3>1, Together
    <3> QED BY <3>2 DEF InLoop
  <2>4. /\ \A c \in Cl : TurnOf(d, c)'
        /\ \A c \in Cl, s \in Sv : DoneWith(d, c, s)' <=> DoneWith(d, c, s)
    BY <1>a, <2>1
  <2>5. ASSUME NEW c \in Cl, NEW s \in Sv
        PROVE  OWPair(d, c, s)' /\ (IsDone(d, c, s)' <=> IsDone(d, c, s))
    <3>1. CASE ~(c = p /\ s = 0)
      <4>1. <<c, s>> # <<p, 0>> BY <3>1
      <4>2. csslot'[<<c, s>>] = csslot[<<c, s>>] BY <1>t, <1>c, <2>1, <4>1
      <4> QED BY <1>b, <2>4, <4>2
    <3>2. CASE c = p /\ s = 0
      <4>1. csslot[<<c, s>>] = None /\ csslot'[<<c, s>>] = CS(d, FALSE)!REPORT
        BY <1>t, <1>c, <2>1, <3>2
      <4>2. OWPair(d, c, s)' BY <2>3, <3>2, <4>1 DEF OWPair, CS!REPORT
      <4>3. DoneWith(d, c, s)' <=> DoneWith(d, c, s) BY <2>4
      <4> QED BY <4>1, <4>2, <4>3 DEF IsDone, CS!REPORT
    <3> QED BY <3>1, <3>2
  <2>6. ASSUME NEW s \in Sv PROVE Counts(d, s)'
    <3>1. s # p BY <1>c, <2>2
    <3>2. s \in Procs BY <1>f
    <3>3. cspc'[s] = cspc[s] BY <1>t, <2>1, <3>1, <3>2
    <3> QED BY <1>d, <2>1, <2>5, <3>3
  <2> QED BY <2>4, <2>5, <2>6
<1>10. CASE CS(d, FALSE)!Collect(p)
  <2>1. /\ cspc[p] = "report" /\ co[p] \in Cl /\ p = 0
        /\ csslot' = [csslot EXCEPT ![<<co[p], p>>] = None]
        /\ cspc' = [cspc EXCEPT ![p] = "next"]
        /\ UNCHANGED <<num_msgs1, to, to_idx, num_zeros, csanswer>>
    BY <1>10 DEF CS!Collect, CS!Ch!Receive, Cl
  <2>2. cspc[0] \notin InLoop /\ Counts(d, 0) BY <1>f, <1>i, <2>1 DEF InLoop
  <2>3. \A c \in Cl : IsDone(d, c, 0) BY <2>2, AllGot DEF Cl
  <2>4. /\ \A c \in Cl : TurnOf(d, c)'
        /\ \A c \in Cl, s \in Sv : DoneWith(d, c, s)' <=> DoneWith(d, c, s)
    BY <1>a, <2>1
  <2>5. ASSUME NEW c \in Cl, NEW s \in Sv
        PROVE  OWPair(d, c, s)' /\ (IsDone(d, c, s)' <=> IsDone(d, c, s))
    <3>1. CASE ~(c = co[p] /\ s = 0)
      <4>1. <<c, s>> # <<co[p], p>> BY <2>1, <3>1
      <4>2. csslot'[<<c, s>>] = csslot[<<c, s>>] BY <1>t, <1>c, <2>1, <4>1
      <4> QED BY <1>b, <2>4, <4>2
    <3>2. CASE c = co[p] /\ s = 0
      <4>1. csslot'[<<c, s>>] = None BY <1>t, <1>c, <2>1, <3>2
      <4>2. OWPair(d, c, s)' BY <4>1 DEF OWPair
      <4>3. IsDone(d, c, s) /\ DoneWith(d, c, s)' BY <2>3, <2>4, <3>2 DEF IsDone
      <4> QED BY <4>1, <4>2, <4>3 DEF IsDone
    <3> QED BY <3>1, <3>2
  <2>6. ASSUME NEW s \in Sv PROVE Counts(d, s)'
    <3>1. s \in Procs BY <1>f
    <3>2. cspc'[s] \notin InLoop => cspc[s] \notin InLoop
      BY <1>t, <2>1, <2>2, <3>1
    <3> QED BY <1>d, <2>1, <2>5, <3>2
  <2> QED BY <2>4, <2>5, <2>6
<1>11. CASE CS(d, FALSE)!Skip(p)
  BY <1>1, <1>11 DEF CS!Skip, CS!channels, InLoop
<1>12. CASE CS(d, FALSE)!NextCo(p)
  BY <1>1, <1>12 DEF CS!NextCo, CS!channels, InLoop
<1>13. CASE CS(d, FALSE)!End(p)
  BY <1>2, <1>9, <1>10, <1>11, <1>12, <1>13 DEF CS!End, InLoop
<1>14. CASE p \in Cl /\ CS(d, FALSE)!Client(p)
  BY <1>2, <1>3, <1>4, <1>5, <1>14 DEF CS!Client, InLoop
<1>15. CASE p \in Sv /\ CS(d, FALSE)!Server(p)
  BY <1>2, <1>6, <1>7, <1>8, <1>15 DEF CS!Server, InLoop
<1> QED BY <1>13, <1>14, <1>15 DEF CS!Step, Sv, Cl

-----------------------------------------------------------------------------
(* client_server: the program *)

CSKind(d, rt) == CSTyped(d, rt) /\ CSOwes(d, rt) /\ CSWaits

CSInv == IF program = "client_server"
         THEN CSKind(OneWayDsl, FALSE) /\ (NumMsgs > OneWay!num_dsl => OWInv(OneWayDsl))
         ELSE CSKind(RTDsl, TRUE) /\ RTInv(RTDsl)

LEMMA CSKindInit ==
  ASSUME NEW d, NEW rt, CS(d, rt)!Parameters, CS(d, rt)!Init
  PROVE  CSKind(d, rt)
BY CSTypeInit, CSOwesInit, CSWaitInit DEF CSKind

LEMMA CSKindStep ==
  ASSUME NEW d, NEW rt, CS(d, rt)!Parameters, CSKind(d, rt), NEW p \in Procs, CS(d, rt)!Step(p)
  PROVE  CSKind(d, rt)'
<1>1. CSTyped(d, rt)' BY CSTypeStep DEF CSKind
<1>2. CSOwes(d, rt)' BY CSOwesStep DEF CSKind
<1>3. CSWaits' BY CSWaitStep DEF CSKind
<1> QED BY <1>1, <1>2, <1>3 DEF CSKind

LEMMA CSStutters == CSInv /\ UNCHANGED <<program, cs>> => CSInv'
<1> SUFFICES ASSUME CSInv, UNCHANGED <<program, cs>> PROVE CSInv'
  OBVIOUS
<1>1. UNCHANGED <<program, csslot, csparty, csarrivals, csdepartures, cspc, num_msgs1, to, to_idx,
                  num_zeros, csstart, csanswer, co>>
  BY DEF cs
<1>2. ASSUME NEW d, NEW rt, CS(d, rt)!Parameters, CSKind(d, rt) PROVE CSKind(d, rt)'
  <2>1. CS(d, rt)!TypeOK => CS(d, rt)!TypeOK'
    BY <1>1 DEF CS!TypeOK, CS!Ch!Chan, CS!Procs, CS!Servers, CS!Clients, CS!color_dsl, CS!Message,
                CS!REPORT, CS!num_dsl, CS!num_app, CS!Cardinality
  <2>2. CSPlaces(d, rt) => CSPlaces(d, rt)'
    BY <1>1 DEF CSPlaces, CS!Servers, CS!Procs, CS!color_dsl
  <2>3. CSOwes(d, rt) => CSOwes(d, rt)' BY <1>1 DEF CSOwes, CS!Servers, CS!Procs, CS!color_dsl
  <2>4. CSWaits => CSWaits' BY <1>1 DEF CSWaits, Behind
  <2> QED BY <1>2, <2>1, <2>2, <2>3, <2>4 DEF CSKind, CSTyped
<1>3. ASSUME NEW d, RTInv(d) PROVE RTInv(d)'
  <2>1. /\ CS(d, TRUE)!Servers' = CS(d, TRUE)!Servers
        /\ CS(d, TRUE)!Clients' = CS(d, TRUE)!Clients
    BY DEF CS!Servers, CS!Clients, CS!Procs, CS!color_dsl
  <2>2. ASSUME NEW c, NEW s, RTPair(d, c, s) PROVE RTPair(d, c, s)'
    <3>1. Asked(c, s)' = Asked(c, s) BY <1>1 DEF Asked
    <3> QED BY <1>1, <2>2, <3>1, RTFrame
  <2> QED BY <1>3, <2>1, <2>2 DEF RTInv
<1>4. ASSUME NEW d, OWInv(d) PROVE OWInv(d)'
  <2>1. /\ CS(d, FALSE)!Servers' = CS(d, FALSE)!Servers
        /\ CS(d, FALSE)!Clients' = CS(d, FALSE)!Clients
        /\ CS(d, FALSE)!num_dsl' = CS(d, FALSE)!num_dsl
        /\ CS(d, FALSE)!num_app' = CS(d, FALSE)!num_app
        /\ CS(d, FALSE)!REPORT' = CS(d, FALSE)!REPORT
    BY DEF CS!Servers, CS!Clients, CS!Procs, CS!color_dsl, CS!num_dsl, CS!num_app, CS!REPORT,
           CS!Cardinality
  <2>2. \A c, s : DoneWith(d, c, s)' <=> DoneWith(d, c, s) BY <1>1, <2>1 DEF DoneWith, Dist
  <2>3. \A c, s : IsDone(d, c, s)' <=> IsDone(d, c, s) BY <1>1, <2>1, <2>2 DEF IsDone
  <2>4. \A s : Got(d, s)' = Got(d, s) BY <2>1, <2>3 DEF Got
  <2>5. \A c : TurnOf(d, c) => TurnOf(d, c)' BY <1>1, <2>1 DEF TurnOf
  <2>6. \A c, s : OWPair(d, c, s) => OWPair(d, c, s)' BY <1>1, <2>1, <2>2 DEF OWPair, CS!Small
  <2>7. \A s : Counts(d, s) => Counts(d, s)' BY <1>1, <2>1, <2>4 DEF Counts
  <2> QED BY <1>4, <2>1, <2>5, <2>6, <2>7 DEF OWInv
<1>5. NumMsgs' = NumMsgs /\ OneWay!num_dsl' = OneWay!num_dsl
  BY DEF OneWay!num_dsl, OneWay!Servers, OneWay!Procs, OneWay!color_dsl, OneWay!Cardinality
<1> QED BY <1>1, <1>2, <1>3, <1>4, <1>5, RTParameters, OneWayParameters DEF CSInv

LEMMA CSInvInit == ProgramsInit => CSInv
<1> SUFFICES ASSUME ProgramsInit PROVE CSInv
  OBVIOUS
<1>1. CASE program = "client_server"
  <2>1. CS(OneWayDsl, FALSE)!Init BY <1>1, OneWayStarts DEF ProgramsInit
  <2>2. CSKind(OneWayDsl, FALSE) BY <2>1, OneWayParameters, CSKindInit
  <2>3. NumMsgs > OneWay!num_dsl => OWInv(OneWayDsl)
    BY <2>1, OneWayParameters, OneWayIs, OWInitHolds
  <2> QED BY <1>1, <2>2, <2>3 DEF CSInv
<1>2. CASE program # "client_server"
  <2>1. CS(RTDsl, TRUE)!Init BY <1>2, RTStarts DEF ProgramsInit
  <2>2. CSKind(RTDsl, TRUE) BY <2>1, RTParameters, CSKindInit
  <2>3. RTInv(RTDsl) BY <2>1, RTParameters, RTInitHolds
  <2> QED BY <1>2, <2>2, <2>3 DEF CSInv
<1> QED BY <1>1, <1>2

LEMMA CSInvStep == CSInv /\ [ProgramsNext]_allvars => CSInv'
<1> SUFFICES ASSUME CSInv, [ProgramsNext]_allvars PROVE CSInv'
  OBVIOUS
<1>1. CASE UNCHANGED <<program, cs>> BY <1>1, CSStutters
<1>2. ASSUME NEW p \in Procs, program = "client_server_rt", RT!Step(p), UNCHANGED program
      PROVE  CSInv'
  <2>1. CS(RTDsl, TRUE)!Step(p) /\ CS(RTDsl, TRUE)!Parameters BY <1>2, RTSteps, RTParameters
  <2>2. CSKind(RTDsl, TRUE) /\ RTInv(RTDsl) BY <1>2 DEF CSInv
  <2>3. CSKind(RTDsl, TRUE)' BY <2>1, <2>2, CSKindStep
  <2>4. RTInv(RTDsl)' BY <2>1, <2>2, RTStepHolds DEF CSKind
  <2> QED BY <1>2, <2>3, <2>4 DEF CSInv
<1>3. ASSUME NEW p \in Procs, program = "client_server", OneWay!Step(p), UNCHANGED program
      PROVE  CSInv'
  <2>1. CS(OneWayDsl, FALSE)!Step(p) /\ CS(OneWayDsl, FALSE)!Parameters
    BY <1>3, OneWaySteps, OneWayParameters
  <2>2. /\ CSKind(OneWayDsl, FALSE)
        /\ NumMsgs > CS(OneWayDsl, FALSE)!num_dsl => OWInv(OneWayDsl)
    BY <1>3, OneWayIs DEF CSInv
  <2>3. CSKind(OneWayDsl, FALSE)' BY <2>1, <2>2, CSKindStep
  <2>4. cspc[0] \notin InLoop => cspc'[0] \notin InLoop
    <3>1. 0 \in Procs BY <2>1, CSFacts
    <3> QED BY <2>1, <2>2, <3>1, CSLeaves DEF CSKind
  <2>5. ASSUME NumMsgs > CS(OneWayDsl, FALSE)!num_dsl PROVE OWInv(OneWayDsl)'
    BY <2>1, <2>2, <2>4, <2>5, OWStepHolds DEF CSKind
  <2>6. (NumMsgs > OneWay!num_dsl)' => NumMsgs > CS(OneWayDsl, FALSE)!num_dsl
    BY OneWayIs DEF OneWay!num_dsl, OneWay!Servers, OneWay!Procs, OneWay!color_dsl,
                    OneWay!Cardinality
  <2> QED BY <1>3, <2>3, <2>5, <2>6 DEF CSInv
<1>4. \/ UNCHANGED <<program, cs>>
      \/ \E p \in Procs : /\ UNCHANGED program
                          /\ \/ program = "client_server_rt" /\ RT!Step(p)
                             \/ program = "client_server" /\ OneWay!Step(p)
  <2>1. CASE ScanNext \/ LocalNext BY <2>1 DEF ScanNext, LocalNext
  <2>2. ASSUME NEW p \in BT!Procs, Own(p)
        PROVE  /\ UNCHANGED program
               /\ \/ UNCHANGED cs
                  \/ program = "client_server_rt" /\ RT!Step(p)
                  \/ program = "client_server" /\ OneWay!Step(p)
    BY <2>2 DEF Own
  <2>3. CASE UNCHANGED allvars BY <2>3 DEF allvars
  <2> QED BY <2>1, <2>2, <2>3, BTFacts DEF ProgramsNext
<1> QED BY <1>1, <1>2, <1>3, <1>4

LEMMA CSAlways == ProgramsSpec => []CSInv
BY CSInvInit, CSInvStep, PTL DEF ProgramsSpec

\* A client of client_server gets back the number it has sent, although the
\* servers answer with ssmp_send_no_sync: the channel back is always empty.
THEOREM RoundTripCorrect == ProgramsSpec => []RoundTrip
<1>1. CSInv => RoundTrip
  <2> SUFFICES ASSUME CSInv, program = "client_server_rt" PROVE RT!PingPong /\ RT!NoOverwrite
    BY DEF RoundTrip
  <2>1. CS(RTDsl, TRUE)!PingPong /\ CS(RTDsl, TRUE)!NoOverwrite
    BY RTParameters, RTSafe DEF CSInv, CSKind
  <2> QED BY <2>1, RTIs DEF RT!PingPong, RT!NoOverwrite, CS!PingPong, CS!NoOverwrite
<1> QED BY <1>1, CSAlways, PTL

-----------------------------------------------------------------------------
(* bank: the invariant *)

BkAt == {"begin", "ops", "answer", "done", "exit", "told", "report",
         "serve", "end", "collect", "stats", "term"}
\* Past the wait on barrier 0; past what comes before it.
Over == {"collect", "stats", "term"}
Ending == Over \cup {"end"}

BkTyped ==
  /\ Bnk!TypeOK
  /\ want \in [Bnk!Procs -> {None} \cup ({"DEPOSIT", "WITHDRAW", "CHECK"} \X Bnk!Accounts)]
  /\ answer \in [Bnk!Procs -> {None} \cup (Bnk!Apps \X Bnk!Message)]
  /\ made \in [Bnk!Places -> Nat] /\ taken \in [Bnk!Places -> Nat]
  /\ begin \in [Bnk!Procs -> Nat]

\* Where p is tells what it is, how far its loops have come, and what it has
\* still to do.
BkStage(p) ==
  /\ p \in Bnk!Servers => pc[p] \in {"begin", "serve"} \cup Ending
  /\ p \in Bnk!Apps => pc[p] \in BkAt \ {"serve", "collect"}
  /\ pc[p] = "collect" => p = 0
  /\ pc[p] = "answer" => want[p] # None /\ want[p][1] # "DEPOSIT"
  /\ pc[p] \in {"begin", "ops", "answer", "done", "serve"} => next[p] = 0
  /\ p \in Bnk!Servers /\ pc[p] = "end" => next[p] = 0
  /\ pc[p] = "exit" => p = 1 /\ next[p] < Bnk!num_dsl
  /\ answer[p] # None => p \in Bnk!Servers /\ pc[p] = "serve"

\* The account that application a has asked for.
Acc(a) == want[a][2]
Asks(a, s) == pc[a] = "answer" /\ Bnk!get_dsl(Acc(a)) = s
Owes(s, a) == answer[s] # None /\ answer[s][1] = a

\* m is, or answers, what a has asked for.
Fits(m, a) == m.w0 = want[a][1] /\ m.w1 = Acc(a) % Bnk!PerDsl

Replies(m, a) ==
  /\ Fits(m, a)
  /\ m.w0 = "WITHDRAW" => m.w2 \in {0, 1}
  /\ m.w0 = "CHECK" /\ Bnk!NumApp = 1 =>
       m.w2 = made[Bnk!Place(Acc(a))] - taken[Bnk!Place(Acc(a))]

\* A question, or its answer, is in one place.  Besides them there are deposits,
\* and what is sent at the end.
BkPair(a, s) ==
  IF Asks(a, s)
  THEN \/ /\ slot[<<a, s>>] # None /\ Fits(slot[<<a, s>>], a) /\ slot[<<a, s>>].w2 = 1
          /\ ~Owes(s, a) /\ slot[<<s, a>>] = None
       \/ /\ slot[<<a, s>>] = None
          /\ Owes(s, a) /\ Replies(answer[s][2], a) /\ slot[<<s, a>>] = None
       \/ /\ slot[<<a, s>>] = None
          /\ ~Owes(s, a) /\ slot[<<s, a>>] # None /\ Replies(slot[<<s, a>>], a)
  ELSE /\ ~Owes(s, a) /\ slot[<<s, a>>] = None
       /\ slot[<<a, s>>] # None =>
            \/ /\ slot[<<a, s>>].w0 = "DEPOSIT" /\ slot[<<a, s>>].w2 = 1
               /\ slot[<<a, s>>].w1 \in 0 .. Bnk!PerDsl - 1
            \/ slot[<<a, s>>].w0 \in {"EXIT", "REPORT"}

\* The wait on barrier 0: nobody collects before everybody has reported.
BkWaits ==
  /\ party[0] = Bnk!Procs
  /\ arrivals \in [Bnk!Barriers -> [Bnk!Procs -> Nat]]
  /\ departures \in [Bnk!Barriers -> [Bnk!Procs -> Nat]]
  /\ \A p \in Bnk!Procs :
       /\ departures[0][p] = IF pc[p] \in Over THEN 1 ELSE 0
       /\ \/ arrivals[0][p] = departures[0][p]
          \/ arrivals[0][p] = departures[0][p] + 1 /\ pc[p] = "end"
  /\ \A p, q \in Bnk!Procs : departures[0][p] <= arrivals[0][q]

Reported(a) ==
  pc[a] \in Ending /\ slot[<<a, 0>>] # None => slot[<<a, 0>>].w0 = "REPORT"

\* A single application: server s has been told to leave, and does.
Told(s) == \/ pc[1] = "exit" /\ next[1] > s \div BankDsl
           \/ pc[1] \in {"told", "report"} \cup Ending

Obeys(s) ==
  IF Told(s)
  THEN IF pc[s] \in {"begin", "serve"}
       THEN slot[<<1, s>>] # None /\ slot[<<1, s>>].w0 = "EXIT"
       ELSE slot[<<1, s>>] # None => slot[<<1, s>>].w0 = "REPORT"
  ELSE /\ pc[s] \in {"begin", "serve"}
       /\ slot[<<1, s>>] # None => slot[<<1, s>>].w0 \notin {"EXIT", "REPORT"}

BkInv ==
  /\ BkTyped /\ BkWaits
  /\ \A p \in Bnk!Procs : BkStage(p)
  /\ \A a \in Bnk!Apps, s \in Bnk!Servers : BkPair(a, s)
  /\ \A a \in Bnk!Apps : Reported(a)
  /\ Bnk!Conservation
  /\ Bnk!NumApp = 1 => \A s \in Bnk!Servers : Obeys(s)

-----------------------------------------------------------------------------
(* bank: processes and accounts *)

LEMMA BkFacts ==
  /\ BankN \in Nat \ {0, 1} /\ BankDsl \in Nat \ {0, 1} /\ NumOps \in Nat \ {0}
  /\ BankAccounts \in Nat /\ Bnk!num_dsl <= BankAccounts
  /\ Bnk!Procs = 0 .. BankN - 1 /\ 0 \in Bnk!Procs /\ 1 \in Bnk!Procs /\ IsFiniteSet(Bnk!Procs)
  /\ Bnk!Ch!Chan = {c \in Bnk!Procs \X Bnk!Procs : c[1] # c[2]}
  /\ None \notin Bnk!Message
  /\ None \notin {"DEPOSIT", "WITHDRAW", "CHECK"} \X Bnk!Accounts
  /\ None \notin Bnk!Apps \X Bnk!Message
<1>1. /\ BankN \in Nat \ {0, 1} /\ BankDsl \in Nat \ {0, 1} /\ NumOps \in Nat \ {0}
      /\ BankAccounts \in Nat /\ Bnk!num_dsl <= BankAccounts
      /\ None \notin Bnk!Message
      /\ None \notin {"DEPOSIT", "WITHDRAW", "CHECK"} \X Bnk!Accounts
      /\ None \notin Bnk!Apps \X Bnk!Message
  BY Instances DEF Bnk!Parameters
<1>2. Bnk!Procs = 0 .. BankN - 1 BY DEF Bnk!Procs
<1>3. 0 \in Bnk!Procs /\ 1 \in Bnk!Procs BY <1>1, <1>2
<1>4. IsFiniteSet(Bnk!Procs)
  <2>1. 0 \in Int /\ BankN - 1 \in Int BY <1>1
  <2> QED BY <1>2, <2>1, FS_Interval
<1>5. Bnk!Ch!Chan = {c \in Bnk!Procs \X Bnk!Procs : c[1] # c[2]} BY DEF Bnk!Ch!Chan
<1> QED BY <1>1, <1>2, <1>3, <1>4, <1>5

LEMMA BkCounts == \A S : Bnk!Cardinality(S) = Cardinality(S)
BY DEF Bnk!Cardinality, Cardinality

LEMMA BkServers ==
  /\ Bnk!Servers \subseteq Bnk!Procs /\ 0 \in Bnk!Servers
  /\ Bnk!num_dsl \in Nat \ {0} /\ Bnk!num_dsl <= BankN
  /\ \A i \in 0 .. Bnk!num_dsl - 1 :
       Bnk!dsl_seq(i) \in Bnk!Servers /\ Bnk!dsl_seq(i) \div BankDsl = i
  /\ \A s \in Bnk!Servers : s \div BankDsl \in 0 .. Bnk!num_dsl - 1
                            /\ s = Bnk!dsl_seq(s \div BankDsl)
  /\ \A i \in Nat : Bnk!dsl_seq(i) \in Bnk!Servers
<1> DEFINE S == {p \in 0 .. BankN - 1 : p % BankDsl = 0}
<1>1. Bnk!Servers = S BY BkFacts DEF Bnk!Servers, Bnk!color_dsl
<1>2. /\ IsFiniteSet(S) /\ Cardinality(S) \in Nat \ {0}
      /\ \A i \in 0 .. Cardinality(S) - 1 : i * BankDsl \in S
      /\ \A p \in S : p \div BankDsl \in 0 .. Cardinality(S) - 1 /\ p = (p \div BankDsl) * BankDsl
  BY BkFacts, Multiples
<1>3. Bnk!num_dsl = Cardinality(S) BY <1>1, BkCounts DEF Bnk!num_dsl
<1>4. ASSUME NEW i \in 0 .. Cardinality(S) - 1
      PROVE  Bnk!dsl_seq(i) = i * BankDsl /\ (i * BankDsl) \div BankDsl = i
  <2>1. BankDsl \in Nat \ {0} BY BkFacts
  <2>2. i \in Nat /\ i < Cardinality(S)
    <3> HIDE DEF S
    <3> QED BY <1>2
  <2>3. Bnk!dsl_seq(i) = i * BankDsl BY <1>3, <2>2 DEF Bnk!dsl_seq
  <2> QED BY <2>1, <2>2, <2>3, Products
<1>5. 0 \in S
  <2>1. 0 % BankDsl = 0 BY BkFacts
  <2> QED BY <2>1, BkFacts
<1>6. S \subseteq Bnk!Procs BY BkFacts
<1>7. Cardinality(S) <= BankN
  <2>1. Cardinality(Bnk!Procs) = BankN
    <3>1. 0 \in Int /\ BankN - 1 \in Int /\ BankN - 1 >= 0 /\ Bnk!Procs = 0 .. BankN - 1 BY BkFacts
    <3>2. Cardinality(0 .. BankN - 1) = (BankN - 1) - 0 + 1 BY <3>1, FS_Interval
    <3> QED BY <3>1, <3>2, BkFacts
  <2>2. Cardinality(S) <= Cardinality(Bnk!Procs) BY <1>6, BkFacts, FS_Subset
  <2> QED BY <2>1, <2>2
<1>8. ASSUME NEW i \in Nat PROVE Bnk!dsl_seq(i) \in S
  <2>1. CASE i < Cardinality(S)
    <3>1. i \in 0 .. Cardinality(S) - 1
      <4> HIDE DEF S
      <4> QED BY <1>2, <2>1
    <3> QED BY <1>2, <1>4, <3>1
  <2>2. CASE ~(i < Cardinality(S))
    <3>1. Bnk!dsl_seq(i) = 0 BY <1>3, <2>2 DEF Bnk!dsl_seq
    <3> QED BY <1>5, <3>1
  <2> QED BY <2>1, <2>2
<1> HIDE DEF S
<1> QED BY <1>1, <1>2, <1>3, <1>4, <1>5, <1>6, <1>7, <1>8

LEMMA BkApps ==
  /\ Bnk!Apps = Bnk!Procs \ Bnk!Servers /\ 1 \in Bnk!Apps /\ IsFiniteSet(Bnk!Apps)
  /\ Bnk!NumApp \in Nat \ {0} /\ Bnk!NumApp <= BankN
  /\ \A i \in 0 .. Bnk!NumApp - 1 : Bnk!Sender(i) \in Bnk!Apps
  /\ Bnk!NumApp = 1 => Bnk!Apps = {1}
<1> DEFINE A == Bnk!Apps
<1>1. A = Bnk!Procs \ Bnk!Servers BY DEF Bnk!Apps
<1>2. IsFiniteSet(A) /\ A \in SUBSET Nat /\ A \subseteq Bnk!Procs
  <2>1. Bnk!Procs \subseteq Nat BY BkFacts
  <2> HIDE DEF A
  <2> QED BY <1>1, <2>1, BkFacts, FS_Subset
<1>3. 1 \in A
  <2>1. 1 % BankDsl # 0 BY BkFacts
  <2> QED BY <1>1, <2>1, BkFacts DEF Bnk!Servers, Bnk!color_dsl
<1>4. Bnk!NumApp = Cardinality(A) BY BkCounts DEF Bnk!NumApp
<1>5. Cardinality(A) \in Nat \ {0} BY <1>2, <1>3, FS_CardinalityType, FS_EmptySet
<1>6. Cardinality(A) <= BankN
  <2>1. Cardinality(Bnk!Procs) = BankN
    <3>1. 0 \in Int /\ BankN - 1 \in Int /\ BankN - 1 >= 0 /\ Bnk!Procs = 0 .. BankN - 1 BY BkFacts
    <3>2. Cardinality(0 .. BankN - 1) = (BankN - 1) - 0 + 1 BY <3>1, FS_Interval
    <3> QED BY <3>1, <3>2, BkFacts
  <2>2. Cardinality(A) <= Cardinality(Bnk!Procs) BY <1>2, BkFacts, FS_Subset
  <2> QED BY <2>1, <2>2
<1>7. ASSUME NEW i \in 0 .. Cardinality(A) - 1 PROVE Bnk!Sender(i) \in A
  <2>1. \E c \in A : Cardinality({q \in A : q < c}) = i BY <1>2, Ranked
  <2>2. Bnk!Sender(i) = CHOOSE c \in A : Cardinality({q \in A : q < c}) = i
    BY BkCounts DEF Bnk!Sender
  <2> HIDE DEF A
  <2> QED BY <2>1, <2>2
<1>8. Cardinality(A) = 1 => A = {1}
  <2>1. {1} \subseteq A /\ Cardinality({1}) = 1 BY <1>3, FS_Singleton
  <2> QED BY <1>2, <2>1, FS_Subset
<1> HIDE DEF A
<1> QED BY <1>1, <1>2, <1>3, <1>4, <1>5, <1>6, <1>7, <1>8 DEF A

LEMMA Split ==
  ASSUME NEW a \in Nat, NEW d \in Nat \ {0}
  PROVE  /\ a \div d \in Nat /\ a % d \in 0 .. d - 1
         /\ a - (a \div d) * d = a % d /\ (a \div d) * d \in Nat /\ (a \div d) * d <= a
<1>1. a \div d \in Nat OBVIOUS
<1>2. a % d \in 0 .. d - 1 OBVIOUS
<1>3. a - (a \div d) * d = a % d OBVIOUS
<1>4. (a \div d) * d <= a OBVIOUS
<1>5. (a \div d) * d \in Nat BY <1>1
<1> QED BY <1>1, <1>2, <1>3, <1>4, <1>5

LEMMA SplitOnce ==
  ASSUME NEW a \in Nat, NEW b \in Nat, NEW d \in Nat \ {0},
         a \div d = b \div d, a % d = b % d
  PROVE  a = b
OBVIOUS

\* The servers share the accounts evenly.
Even == BankAccounts % Bnk!num_dsl = 0

\* Every account has a place, and when the servers share them evenly a place
\* of its own.
LEMMA BkAccounts ==
  /\ Bnk!PerDsl \in Nat \ {0} /\ Bnk!PerDsl <= BankAccounts
  /\ \A acc \in Bnk!Accounts :
       /\ Bnk!get_dsl(acc) \in Bnk!Servers /\ acc % Bnk!PerDsl \in 0 .. Bnk!PerDsl - 1
       /\ Bnk!Place(acc) = <<Bnk!get_dsl(acc), acc % Bnk!PerDsl>> /\ Bnk!Place(acc) \in Bnk!Places
  /\ Even => \A acc, b \in Bnk!Accounts :
               /\ Bnk!get_dsl(acc) = Bnk!get_dsl(b) /\ acc % Bnk!PerDsl = b % Bnk!PerDsl => acc = b
<1> DEFINE P == Bnk!PerDsl
           k == Bnk!num_dsl
<1>1. k \in Nat \ {0} /\ BankAccounts \in Nat /\ k <= BankAccounts BY BkFacts, BkServers
<1>2. P \in Nat \ {0} /\ P <= BankAccounts /\ (Even => BankAccounts = P * k)
  <2>1. P = BankAccounts \div k BY DEF Bnk!PerDsl
  <2>2. Even => BankAccounts % k = 0 BY DEF Even
  <2> HIDE DEF P, k
  <2>3. /\ P \in Nat /\ BankAccounts % k \in 0 .. k - 1
        /\ BankAccounts - P * k = BankAccounts % k /\ P * k \in Nat /\ P * k <= BankAccounts
    BY <1>1, <2>1, Split
  <2>4. P # 0
    <3>1. P = 0 => P * k = 0 BY <1>1
    <3> QED BY <1>1, <2>3, <3>1
  <2>5. P <= P * k
    <3>1. 1 * P <= k * P BY <1>1, <2>3, <2>4, ProductsGrow
    <3>2. 1 * P = P /\ k * P = P * k BY <1>1, <2>3
    <3> QED BY <3>1, <3>2
  <2> QED BY <1>1, <2>2, <2>3, <2>4, <2>5
<1>4. ASSUME NEW acc \in Bnk!Accounts
      PROVE  /\ acc \in Nat /\ acc < BankAccounts /\ acc \div P \in Nat /\ acc % P \in 0 .. P - 1
             /\ Bnk!get_dsl(acc) = Bnk!dsl_seq(acc \div P) /\ Bnk!get_dsl(acc) \in Bnk!Servers
  <2>1. acc \in Nat /\ acc < BankAccounts BY <1>1 DEF Bnk!Accounts
  <2>2. Bnk!get_dsl(acc) = Bnk!dsl_seq(acc \div P) BY DEF Bnk!get_dsl
  <2> HIDE DEF P
  <2>3. acc \div P \in Nat /\ acc % P \in 0 .. P - 1 BY <1>2, <2>1, Split
  <2> QED BY <2>1, <2>2, <2>3, BkServers
<1>5. ASSUME NEW acc \in Bnk!Accounts
      PROVE  Bnk!Place(acc) = <<Bnk!get_dsl(acc), acc % P>> /\ Bnk!Place(acc) \in Bnk!Places
  BY <1>4 DEF Bnk!Place, Bnk!Places
<1>6. ASSUME Even, NEW acc \in Bnk!Accounts, NEW b \in Bnk!Accounts,
             Bnk!get_dsl(acc) = Bnk!get_dsl(b), acc % P = b % P
      PROVE  acc = b
  <2>1. ASSUME NEW x \in Bnk!Accounts PROVE x \div P \in 0 .. k - 1
    <3>1. x \in Nat /\ x < P * k BY <1>2, <1>4, <1>6
    <3> HIDE DEF k, P
    <3>2. x \div P \in Nat /\ (x \div P) * P <= x /\ (x \div P) * P \in Nat BY <1>2, <3>1, Split
    <3>3. ASSUME x \div P >= k PROVE FALSE
      <4>1. k * P <= (x \div P) * P BY <1>1, <1>2, <3>2, <3>3, ProductsGrow
      <4>2. k * P = P * k /\ P * k \in Nat BY <1>1, <1>2
      <4> DEFINE xP == (x \div P) * P
                 kP == k * P
      <4>3. xP \in Nat /\ kP \in Nat /\ kP <= xP /\ xP <= x /\ x < kP BY <3>1, <3>2, <4>1, <4>2
      <4> HIDE DEF xP, kP
      <4> QED BY <3>1, <4>3
    <3> QED BY <1>1, <3>2, <3>3
  <2>2. acc \div P = b \div P
    <3>1. acc \div P \in 0 .. k - 1 /\ b \div P \in 0 .. k - 1 BY <2>1
    <3>2. Bnk!dsl_seq(acc \div P) = Bnk!dsl_seq(b \div P) BY <1>4, <1>6
    <3> QED BY <3>1, <3>2, BkServers
  <2>3. acc \in Nat /\ b \in Nat BY <1>4
  <2> HIDE DEF P
  <2> QED BY <1>2, <1>6, <2>2, <2>3, SplitOnce
<1> HIDE DEF P
<1> QED BY <1>2, <1>4, <1>5, <1>6 DEF P

LEMMA BkApart == Bnk!OwnPlaces
<1> SUFFICES ASSUME Even, NEW acc \in Bnk!Accounts, NEW b \in Bnk!Accounts,
                    Bnk!Place(acc) = Bnk!Place(b)
             PROVE  acc = b
  BY DEF Bnk!OwnPlaces, Even
<1>1. Bnk!get_dsl(acc) = Bnk!get_dsl(b) /\ acc % Bnk!PerDsl = b % Bnk!PerDsl
  BY DEF Bnk!Place
<1> QED BY <1>1, BkAccounts

-----------------------------------------------------------------------------
(* bank: its steps *)

\* A wait takes p from one place to the next.
BkWay(p, b, at, after) ==
  \/ b = 4 /\ at = "begin" /\ p \in Bnk!Apps /\ after = "ops"
  \/ b = 4 /\ at = "begin" /\ p \in Bnk!Servers /\ after = "serve"
  \/ b = 1 /\ at = "done" /\ p = 1 /\ after = "exit"
  \/ b = 1 /\ at = "done" /\ p \in Bnk!Apps /\ p # 1 /\ after = "told"
  \/ b = 1 /\ at = "told" /\ p \in Bnk!Apps /\ after = "report"
  \/ b = 0 /\ at = "end" /\ p = 0 /\ after = "collect"
  \/ b = 0 /\ at = "end" /\ p # 0 /\ after = "stats"
  \/ b = 3 /\ at = "stats" /\ after = "term"

LEMMA BkMoves ==
  ASSUME NEW p \in Bnk!Procs, Bnk!Step(p)
  PROVE  \/ \E b \in {0, 1, 3, 4}, at \in BkAt, after \in BkAt :
              BkWay(p, b, at, after) /\ Bnk!Wait(b, p, at, after)
         \/ /\ p \in Bnk!Apps
            /\ \/ Bnk!Choose(p) \/ Bnk!Request(p) \/ Bnk!Answer(p)
               \/ Bnk!SendExit(p) \/ Bnk!SendReport(p)
         \/ p \in Bnk!Servers /\ (Bnk!Miss(p) \/ Bnk!Serve(p) \/ Bnk!SendAnswer(p))
         \/ Bnk!Collect(p)
<1>a. ASSUME NEW b \in {0, 1, 3, 4}, NEW at \in BkAt, NEW after \in BkAt,
             BkWay(p, b, at, after), Bnk!Wait(b, p, at, after)
      PROVE  \E b2 \in {0, 1, 3, 4}, at2 \in BkAt, after2 \in BkAt :
               BkWay(p, b2, at2, after2) /\ Bnk!Wait(b2, p, at2, after2)
  BY <1>a
<1>0. {"begin", "ops", "serve", "done", "exit", "told", "report", "end", "collect", "stats",
       "term"} \subseteq BkAt
  BY DEF BkAt
<1>1. CASE p \in Bnk!Apps /\ Bnk!App(p)
  <2>1. CASE Bnk!Wait(4, p, "begin", "ops")
    <3>1. BkWay(p, 4, "begin", "ops") BY <1>1 DEF BkWay
    <3> QED BY <1>a, <1>0, <2>1, <3>1
  <2>2. CASE Bnk!WaitDone(p)
    <3>1. CASE p = 1
      <4>1. Bnk!Wait(1, p, "done", "exit") BY <2>2, <3>1 DEF Bnk!WaitDone
      <4>2. BkWay(p, 1, "done", "exit") BY <1>1, <3>1 DEF BkWay
      <4> QED BY <1>a, <1>0, <4>1, <4>2
    <3>2. CASE p # 1
      <4>1. Bnk!Wait(1, p, "done", "told") BY <2>2, <3>2 DEF Bnk!WaitDone
      <4>2. BkWay(p, 1, "done", "told") BY <1>1, <3>2 DEF BkWay
      <4> QED BY <1>a, <1>0, <4>1, <4>2
    <3> QED BY <3>1, <3>2
  <2>3. CASE Bnk!Wait(1, p, "told", "report")
    <3>1. BkWay(p, 1, "told", "report") BY <1>1 DEF BkWay
    <3> QED BY <1>a, <1>0, <2>3, <3>1
  <2> QED BY <1>1, <2>1, <2>2, <2>3 DEF Bnk!App
<1>2. CASE p \in Bnk!Servers /\ Bnk!Dsl(p)
  <2>1. CASE Bnk!Wait(4, p, "begin", "serve")
    <3>1. BkWay(p, 4, "begin", "serve") BY <1>2 DEF BkWay
    <3> QED BY <1>a, <1>0, <2>1, <3>1
  <2> QED BY <1>2, <2>1 DEF Bnk!Dsl
<1>3. CASE Bnk!WaitEnd(p)
  <2>1. CASE p = 0
    <3>1. Bnk!Wait(0, p, "end", "collect") BY <1>3, <2>1 DEF Bnk!WaitEnd
    <3>2. BkWay(p, 0, "end", "collect") BY <2>1 DEF BkWay
    <3> QED BY <1>a, <1>0, <3>1, <3>2
  <2>2. CASE p # 0
    <3>1. Bnk!Wait(0, p, "end", "stats") BY <1>3, <2>2 DEF Bnk!WaitEnd
    <3>2. BkWay(p, 0, "end", "stats") BY <2>2 DEF BkWay
    <3> QED BY <1>a, <1>0, <3>1, <3>2
  <2> QED BY <2>1, <2>2
<1>4. CASE Bnk!WaitStats(p)
  <2>1. Bnk!Wait(3, p, "stats", "term") BY <1>4 DEF Bnk!WaitStats
  <2>2. BkWay(p, 3, "stats", "term") BY DEF BkWay
  <2> QED BY <1>a, <1>0, <2>1, <2>2
<1> QED BY <1>1, <1>2, <1>3, <1>4 DEF Bnk!Step

\* What a wait changes.
LEMMA BkWaitIs ==
  ASSUME NEW p \in Bnk!Procs, NEW b, NEW at, NEW after, Bnk!Wait(b, p, at, after)
  PROVE  /\ pc[p] = at
         /\ UNCHANGED <<slot, ops, want, next, begin, balance, answer, made, taken>>
         /\ \/ Bnk!Bar!Arrive(b, p) /\ UNCHANGED pc
            \/ Bnk!Bar!Depart(b, p) /\ pc' = [pc EXCEPT ![p] = after]
BY DEF Bnk!Wait, Bnk!channels, Bnk!history

\* The channels between applications and servers.
LEMMA BkChannels ==
  ASSUME NEW a \in Bnk!Apps, NEW s \in Bnk!Servers
  PROVE  /\ a # s /\ a \in Bnk!Procs /\ s \in Bnk!Procs
         /\ <<a, s>> \in Bnk!Ch!Chan /\ <<s, a>> \in Bnk!Ch!Chan
<1>1. a # s /\ a \in Bnk!Procs /\ s \in Bnk!Procs BY BkServers, BkApps
<1> QED BY <1>1, BkFacts

\* The messages.
LEMMA BkMessages ==
  /\ Bnk!EXIT \in Bnk!Message /\ Bnk!EXIT.w0 = "EXIT"
  /\ Bnk!REPORT \in Bnk!Message /\ Bnk!REPORT.w0 = "REPORT"
  /\ \A m \in Bnk!Message :
       /\ m # None /\ m.w0 \in {"DEPOSIT", "WITHDRAW", "CHECK", "EXIT", "REPORT"}
       /\ m.w1 \in 0 .. BankAccounts - 1 /\ m.w2 \in Nat
  /\ \A op \in {"DEPOSIT", "WITHDRAW", "CHECK"}, w1 \in 0 .. Bnk!PerDsl - 1, w2 \in Nat :
       [w0 |-> op, w1 |-> w1, w2 |-> w2] \in Bnk!Message
<1>1. 0 \in 0 .. BankAccounts - 1 /\ 0 .. Bnk!PerDsl - 1 \subseteq 0 .. BankAccounts - 1
  BY BkFacts, BkAccounts
<1>2. Bnk!EXIT \in Bnk!Message /\ Bnk!EXIT.w0 = "EXIT" BY <1>1 DEF Bnk!EXIT, Bnk!Message
<1>3. Bnk!REPORT \in Bnk!Message /\ Bnk!REPORT.w0 = "REPORT" BY <1>1 DEF Bnk!REPORT, Bnk!Message
<1>4. ASSUME NEW m \in Bnk!Message
      PROVE  /\ m # None /\ m.w0 \in {"DEPOSIT", "WITHDRAW", "CHECK", "EXIT", "REPORT"}
             /\ m.w1 \in 0 .. BankAccounts - 1 /\ m.w2 \in Nat
  <2>1. m # None BY BkFacts
  <2> QED BY <2>1 DEF Bnk!Message
<1>5. ASSUME NEW op \in {"DEPOSIT", "WITHDRAW", "CHECK"}, NEW w1 \in 0 .. Bnk!PerDsl - 1,
             NEW w2 \in Nat
      PROVE  [w0 |-> op, w1 |-> w1, w2 |-> w2] \in Bnk!Message
  BY <1>1 DEF Bnk!Message
<1> QED BY <1>2, <1>3, <1>4, <1>5

LEMMA BkChoices ==
  ASSUME BkTyped, NEW p \in Bnk!Procs, want[p] # None
  PROVE  /\ want[p][1] \in {"DEPOSIT", "WITHDRAW", "CHECK"} /\ Acc(p) \in Bnk!Accounts
         /\ Bnk!get_dsl(Acc(p)) \in Bnk!Servers
         /\ Acc(p) % Bnk!PerDsl \in 0 .. Bnk!PerDsl - 1
<1>1. want[p] \in {"DEPOSIT", "WITHDRAW", "CHECK"} \X Bnk!Accounts BY DEF BkTyped
<1>2. want[p][1] \in {"DEPOSIT", "WITHDRAW", "CHECK"} /\ Acc(p) \in Bnk!Accounts
  BY <1>1 DEF Acc
<1> QED BY <1>2, BkAccounts

\* Whom a server looks at.
LEMMA BkSender ==
  ASSUME BkTyped, NEW p \in Bnk!Servers
  PROVE  /\ Bnk!Sender(begin[p]) \in Bnk!Apps
         /\ Bnk!After(begin[p]) \in 0 .. Bnk!NumApp - 1
<1>1. begin[p] \in 0 .. Bnk!NumApp - 1 BY DEF BkTyped, Bnk!TypeOK
<1>2. Bnk!NumApp \in Nat \ {0} BY BkApps
<1>3. Bnk!After(begin[p]) \in 0 .. Bnk!NumApp - 1 BY <1>1, <1>2 DEF Bnk!After
<1> QED BY <1>1, <1>3, BkApps

\* What reaches a server, and what becomes of it.
LEMMA BkTakes ==
  ASSUME BkTyped, NEW p \in Bnk!Servers, NEW q \in Bnk!Apps, BkPair(q, p), BkStage(q),
         slot[<<q, p>>] # None
  PROVE  /\ slot[<<q, p>>] \in Bnk!Message
         /\ slot[<<q, p>>].w0 \in {"DEPOSIT", "WITHDRAW", "CHECK"} =>
              slot[<<q, p>>].w1 \in 0 .. Bnk!PerDsl - 1 /\ slot[<<q, p>>].w2 = 1
<1>1. slot[<<q, p>>] \in Bnk!Message
  <2>1. slot \in [Bnk!Ch!Chan -> Bnk!Message \cup {None}] BY DEF BkTyped, Bnk!TypeOK
  <2>2. <<q, p>> \in Bnk!Ch!Chan BY BkChannels
  <2> QED BY <2>1, <2>2
<1>2. CASE Asks(q, p)
  <2>1. q \in Bnk!Procs /\ want[q] # None BY <1>2, BkApps DEF Asks, BkStage
  <2>2. Acc(q) % Bnk!PerDsl \in 0 .. Bnk!PerDsl - 1 BY <2>1, BkChoices
  <2> QED BY <1>1, <1>2, <2>2 DEF BkPair, Fits
<1>3. CASE ~Asks(q, p)
  <2>1. slot[<<q, p>>].w0 = "DEPOSIT" =>
          slot[<<q, p>>].w1 \in 0 .. Bnk!PerDsl - 1 /\ slot[<<q, p>>].w2 = 1
    BY <1>3 DEF BkPair
  <2>2. slot[<<q, p>>].w0 \in {"DEPOSIT", "EXIT", "REPORT"} BY <1>3 DEF BkPair
  <2> QED BY <1>1, <2>1, <2>2
<1> QED BY <1>2, <1>3

LEMMA BkReplyIs ==
  ASSUME NEW m \in Bnk!Message, NEW s \in Bnk!Procs
  PROVE  /\ m.w0 \in {"DEPOSIT", "EXIT", "REPORT"} => Bnk!Reply(m, <<s, m.w1>>) = None
         /\ m.w0 \in {"WITHDRAW", "CHECK"} /\ balance[<<s, m.w1>>] \in Nat =>
              /\ Bnk!Reply(m, <<s, m.w1>>) \in Bnk!Message
              /\ Bnk!Reply(m, <<s, m.w1>>) # None
              /\ Bnk!Reply(m, <<s, m.w1>>).w0 = m.w0 /\ Bnk!Reply(m, <<s, m.w1>>).w1 = m.w1
         /\ m.w0 = "WITHDRAW" =>
              Bnk!Reply(m, <<s, m.w1>>).w2 = IF balance[<<s, m.w1>>] >= m.w2 THEN 1 ELSE 0
         /\ m.w0 = "CHECK" => Bnk!Reply(m, <<s, m.w1>>).w2 = balance[<<s, m.w1>>]
<1> DEFINE b == balance[<<s, m.w1>>]
           r == Bnk!Reply(m, <<s, m.w1>>)
<1>1. m \in [w0 : {"DEPOSIT", "WITHDRAW", "CHECK", "EXIT", "REPORT"},
             w1 : 0 .. BankAccounts - 1, w2 : Nat]
  BY DEF Bnk!Message
<1>2. CASE m.w0 = "WITHDRAW"
  <2>1. r = [m EXCEPT !.w2 = IF b >= m.w2 THEN 1 ELSE 0]
    BY <1>1, <1>2 DEF Bnk!Reply, Bnk!Grant
  <2>2. r \in Bnk!Message BY <1>1, <2>1 DEF Bnk!Message
  <2>3. r.w0 = m.w0 /\ r.w1 = m.w1 /\ r.w2 = IF b >= m.w2 THEN 1 ELSE 0 BY <1>1, <2>1
  <2>4. r # None BY <2>2, BkMessages
  <2> QED BY <1>2, <2>2, <2>3, <2>4
<1>3. CASE m.w0 = "CHECK"
  <2>1. r = [m EXCEPT !.w2 = b] BY <1>1, <1>3 DEF Bnk!Reply
  <2>2. r.w0 = m.w0 /\ r.w1 = m.w1 /\ r.w2 = b BY <1>1, <2>1
  <2>3. b \in Nat => r \in Bnk!Message BY <1>1, <2>1 DEF Bnk!Message
  <2>4. r \in Bnk!Message => r # None BY BkMessages
  <2> QED BY <1>3, <2>2, <2>3, <2>4
<1>4. CASE m.w0 \notin {"WITHDRAW", "CHECK"} BY <1>4 DEF Bnk!Reply
<1> QED BY <1>2, <1>3, <1>4

-----------------------------------------------------------------------------
(* bank: the invariant holds initially *)

LEMMA BkInit == Bnk!Init => BkInv
<1> SUFFICES ASSUME Bnk!Init PROVE BkInv OBVIOUS
<1>1. /\ slot = [c \in Bnk!Ch!Chan |-> None]
      /\ party = [b \in Bnk!Barriers |-> IF b = 1 THEN Bnk!Apps ELSE Bnk!Procs]
      /\ arrivals = [b \in Bnk!Barriers |-> [p \in Bnk!Procs |-> 0]]
      /\ departures = [b \in Bnk!Barriers |-> [p \in Bnk!Procs |-> 0]]
      /\ pc = [p \in Bnk!Procs |-> "begin"]
      /\ ops = [p \in Bnk!Procs |-> 0]
      /\ want = [p \in Bnk!Procs |-> None]
      /\ next = [p \in Bnk!Procs |-> 0]
      /\ begin = [p \in Bnk!Procs |-> 0]
      /\ balance = [pl \in Bnk!Places |-> 0]
      /\ answer = [p \in Bnk!Procs |-> None]
      /\ made = [pl \in Bnk!Places |-> 0]
      /\ taken = [pl \in Bnk!Places |-> 0]
  BY DEF Bnk!Init, Bnk!Ch!Init
<1>2. BkTyped
  <2>1. 0 \in 0 .. NumOps /\ 0 \in 0 .. BankN /\ 0 \in 0 .. Bnk!NumApp - 1 BY BkFacts, BkApps
  <2>2. Bnk!Servers \subseteq Bnk!Procs BY BkServers
  <2>3. Bnk!TypeOK BY <1>1, <2>1, <2>2 DEF Bnk!TypeOK
  <2>4. want \in [Bnk!Procs -> {None} \cup ({"DEPOSIT", "WITHDRAW", "CHECK"} \X Bnk!Accounts)]
    BY <1>1
  <2>5. answer \in [Bnk!Procs -> {None} \cup (Bnk!Apps \X Bnk!Message)] BY <1>1
  <2>6. made \in [Bnk!Places -> Nat] /\ taken \in [Bnk!Places -> Nat] BY <1>1
  <2>7. begin \in [Bnk!Procs -> Nat] BY <1>1
  <2> QED BY <2>3, <2>4, <2>5, <2>6, <2>7 DEF BkTyped
<1>3. BkWaits
  <2>1. 0 \in Bnk!Barriers BY DEF Bnk!Barriers
  <2>2. \A p \in Bnk!Procs : pc[p] \notin Over BY <1>1 DEF Over
  <2> QED BY <1>1, <2>1, <2>2 DEF BkWaits
<1>4. ASSUME NEW p \in Bnk!Procs PROVE BkStage(p) /\ answer[p] = None /\ pc[p] = "begin"
  <2>1. pc[p] = "begin" /\ next[p] = 0 /\ answer[p] = None BY <1>1
  <2> QED BY <2>1 DEF BkStage, BkAt
<1>5. ASSUME NEW a \in Bnk!Apps, NEW s \in Bnk!Servers
      PROVE  /\ slot[<<a, s>>] = None /\ slot[<<s, a>>] = None
             /\ pc[a] = "begin" /\ pc[s] = "begin" /\ answer[s] = None
  BY <1>1, <1>4, BkChannels
<1>6. ASSUME NEW a \in Bnk!Apps, NEW s \in Bnk!Servers PROVE BkPair(a, s)
  BY <1>5 DEF BkPair, Asks, Owes
<1>7. ASSUME NEW a \in Bnk!Apps PROVE Reported(a)
  BY <1>5, BkServers DEF Reported
<1>8. Bnk!Conservation
  <2> SUFFICES ASSUME NEW pl \in Bnk!Places
               PROVE  made[pl] = balance[pl] + taken[pl]
                        + Cardinality(Bnk!Deposits(pl)) + Cardinality(Bnk!Grants(pl))
    BY BkCounts DEF Bnk!Conservation
  <2>1. pl[1] \in Bnk!Servers BY DEF Bnk!Places
  <2>2. Bnk!Deposits(pl) = {} BY <1>5, <2>1 DEF Bnk!Deposits
  <2>3. Bnk!Grants(pl) = {} BY <1>5, <2>1 DEF Bnk!Grants, Bnk!Yes
  <2>4. made[pl] = 0 /\ taken[pl] = 0 /\ balance[pl] = 0 BY <1>1
  <2> QED BY <2>2, <2>3, <2>4, FS_EmptySet
<1>9. ASSUME Bnk!NumApp = 1, NEW s \in Bnk!Servers PROVE Obeys(s)
  <2>1. 1 \in Bnk!Apps BY BkApps
  <2>2. pc[1] = "begin" /\ pc[s] = "begin" /\ slot[<<1, s>>] = None BY <1>5, <2>1
  <2>3. ~Told(s) BY <2>2 DEF Told, Ending, Over
  <2> QED BY <2>2, <2>3 DEF Obeys
<1> QED BY <1>2, <1>3, <1>4, <1>6, <1>7, <1>8, <1>9 DEF BkInv

-----------------------------------------------------------------------------
(* bank: every step keeps the types *)

LEMMA BkTypedStep ==
  ASSUME BkInv, NEW p \in Bnk!Procs, Bnk!Step(p)
  PROVE  BkTyped'
<1> DEFINE Slots == Bnk!Message \cup {None}
           Wants == {None} \cup ({"DEPOSIT", "WITHDRAW", "CHECK"} \X Bnk!Accounts)
           Answers == {None} \cup (Bnk!Apps \X Bnk!Message)
<1>t. /\ slot \in [Bnk!Ch!Chan -> Slots] /\ pc \in [Bnk!Procs -> BkAt]
      /\ ops \in [Bnk!Procs -> 0 .. NumOps] /\ next \in [Bnk!Procs -> 0 .. BankN]
      /\ begin \in [Bnk!Procs -> Nat] /\ \A s \in Bnk!Servers : begin[s] \in 0 .. Bnk!NumApp - 1
      /\ balance \in [Bnk!Places -> Nat]
      /\ want \in [Bnk!Procs -> Wants] /\ answer \in [Bnk!Procs -> Answers]
      /\ made \in [Bnk!Places -> Nat] /\ taken \in [Bnk!Places -> Nat]
  BY DEF BkInv, BkTyped, Bnk!TypeOK, BkAt
<1>f. /\ BankN \in Nat /\ NumOps \in Nat /\ Bnk!num_dsl \in Nat /\ Bnk!num_dsl <= BankN
      /\ Bnk!NumApp \in Nat /\ Bnk!NumApp <= BankN
  BY BkFacts, BkServers, BkApps
<1>i. BkTyped /\ BkStage(p) BY DEF BkInv
<1>a. ASSUME /\ slot' \in [Bnk!Ch!Chan -> Slots] /\ pc' \in [Bnk!Procs -> BkAt]
             /\ ops' \in [Bnk!Procs -> 0 .. NumOps] /\ next' \in [Bnk!Procs -> 0 .. BankN]
             /\ begin' \in [Bnk!Procs -> Nat]
             /\ \A s \in Bnk!Servers : begin'[s] \in 0 .. Bnk!NumApp - 1
             /\ balance' \in [Bnk!Places -> Nat]
             /\ want' \in [Bnk!Procs -> Wants] /\ answer' \in [Bnk!Procs -> Answers]
             /\ made' \in [Bnk!Places -> Nat] /\ taken' \in [Bnk!Places -> Nat]
      PROVE  BkTyped'
  BY <1>a DEF BkTyped, Bnk!TypeOK, BkAt
<1>at. {"begin", "ops", "serve", "done", "exit", "told", "report", "end", "collect", "stats",
        "term", "answer"} \subseteq BkAt
  BY DEF BkAt
<1> HIDE DEF Slots, Wants, Answers
<1>b. ASSUME NEW at \in BkAt, pc' = [pc EXCEPT ![p] = at] PROVE pc' \in [Bnk!Procs -> BkAt]
  BY <1>t, <1>b
<1>c. ASSUME NEW c \in Bnk!Ch!Chan, NEW m \in Slots, slot' = [slot EXCEPT ![c] = m]
      PROVE  slot' \in [Bnk!Ch!Chan -> Slots]
  BY <1>t, <1>c
<1>d. ASSUME p \in Bnk!Servers, begin' = [begin EXCEPT ![p] = Bnk!After(@)]
      PROVE  /\ begin' \in [Bnk!Procs -> Nat]
             /\ \A s \in Bnk!Servers : begin'[s] \in 0 .. Bnk!NumApp - 1
  <2>1. Bnk!After(begin[p]) \in 0 .. Bnk!NumApp - 1 BY <1>i, <1>d, BkSender
  <2>2. Bnk!After(begin[p]) \in Nat BY <1>f, <2>1
  <2>3. Bnk!Servers \subseteq Bnk!Procs BY BkServers
  <2> QED BY <1>t, <1>d, <2>1, <2>2, <2>3
<1>n. None \in Slots /\ None \in Wants /\ None \in Answers BY DEF Slots, Wants, Answers
<1>m. ASSUME NEW m \in Bnk!Message PROVE m \in Slots BY DEF Slots
<1>1. ASSUME NEW b \in {0, 1, 3, 4}, NEW at \in BkAt, NEW after \in BkAt,
             Bnk!Wait(b, p, at, after)
      PROVE  BkTyped'
  <2>1. UNCHANGED <<slot, ops, want, next, begin, balance, answer, made, taken>>
    BY <1>1, BkWaitIs
  <2>2. UNCHANGED pc \/ pc' = [pc EXCEPT ![p] = after] BY <1>1, BkWaitIs
  <2>3. pc' \in [Bnk!Procs -> BkAt] BY <1>t, <1>b, <2>2
  <2> QED BY <1>a, <1>t, <2>1, <2>3
<1>2. CASE p \in Bnk!Apps /\ Bnk!Choose(p)
  <2>1. UNCHANGED <<slot, next, begin, balance, answer, made, taken>>
    BY <1>2 DEF Bnk!Choose, Bnk!channels, Bnk!history
  <2>2. CASE ops[p] < NumOps
    <3>1. ops' = [ops EXCEPT ![p] = @ + 1] /\ UNCHANGED pc BY <1>2, <2>2 DEF Bnk!Choose
    <3>2. PICK op \in {"DEPOSIT", "WITHDRAW", "CHECK"}, acc \in Bnk!Accounts :
            want' = [want EXCEPT ![p] = <<op, acc>>]
      BY <1>2, <2>2 DEF Bnk!Choose
    <3>3. <<op, acc>> \in Wants BY DEF Wants
    <3>4. want' \in [Bnk!Procs -> Wants] BY <1>t, <3>2, <3>3
    <3>5. ops[p] + 1 \in 0 .. NumOps BY <1>t, <1>f, <2>2
    <3>6. ops' \in [Bnk!Procs -> 0 .. NumOps] BY <1>t, <3>1, <3>5
    <3> QED BY <1>a, <1>t, <2>1, <3>1, <3>4, <3>6
  <2>3. CASE ~(ops[p] < NumOps)
    <3>1. pc' = [pc EXCEPT ![p] = "done"] /\ UNCHANGED <<want, ops>>
      BY <1>2, <2>3 DEF Bnk!Choose
    <3>2. pc' \in [Bnk!Procs -> BkAt] BY <1>b, <1>at, <3>1
    <3> QED BY <1>a, <1>t, <2>1, <3>1, <3>2
  <2> QED BY <2>2, <2>3
<1>3. CASE p \in Bnk!Apps /\ Bnk!Request(p)
  <2> DEFINE op == want[p][1]
             acc == Acc(p)
             s == Bnk!get_dsl(acc)
             m == [w0 |-> op, w1 |-> acc % Bnk!PerDsl, w2 |-> 1]
  <2>1. /\ want[p] # None
        /\ UNCHANGED <<ops, next, begin, balance, answer, taken>>
        /\ slot' = [slot EXCEPT ![<<p, s>>] = m]
        /\ made' = IF op = "DEPOSIT" THEN [made EXCEPT ![Bnk!Place(acc)] = @ + 1] ELSE made
        /\ want' = IF op = "DEPOSIT" THEN [want EXCEPT ![p] = None] ELSE want
        /\ pc' = IF op = "DEPOSIT" THEN pc ELSE [pc EXCEPT ![p] = "answer"]
    BY <1>3 DEF Bnk!Request, Bnk!Ch!Send, Acc
  <2>2. /\ op \in {"DEPOSIT", "WITHDRAW", "CHECK"} /\ acc \in Bnk!Accounts /\ s \in Bnk!Servers
        /\ acc % Bnk!PerDsl \in 0 .. Bnk!PerDsl - 1
    BY <1>i, <2>1, BkChoices
  <2>3. m \in Bnk!Message
    <3> HIDE DEF op, acc, s
    <3> QED BY <2>2, BkMessages
  <2>4. <<p, s>> \in Bnk!Ch!Chan BY <1>3, <2>2, BkChannels
  <2> HIDE DEF op, acc, s, m
  <2>5. slot' \in [Bnk!Ch!Chan -> Slots] BY <1>c, <1>m, <2>1, <2>3, <2>4
  <2>6. made' \in [Bnk!Places -> Nat]
    <3>1. Bnk!Place(acc) \in Bnk!Places BY <2>2, BkAccounts
    <3> QED BY <1>t, <2>1, <3>1
  <2>7. want' \in [Bnk!Procs -> Wants] BY <1>t, <1>n, <2>1
  <2>8. pc' \in [Bnk!Procs -> BkAt] BY <1>t, <1>b, <1>at, <2>1
  <2> QED BY <1>a, <1>t, <2>1, <2>5, <2>6, <2>7, <2>8
<1>4. CASE p \in Bnk!Apps /\ Bnk!Answer(p)
  <2> DEFINE op == want[p][1]
             acc == Acc(p)
             s == Bnk!get_dsl(acc)
             m == slot[<<s, p>>]
  <2>1. /\ pc[p] = "answer" /\ m # None
        /\ UNCHANGED <<ops, next, begin, balance, answer, made>>
        /\ slot' = [slot EXCEPT ![<<s, p>>] = None]
        /\ taken' = IF op = "WITHDRAW" THEN [taken EXCEPT ![Bnk!Place(acc)] = @ + m.w2] ELSE taken
        /\ want' = [want EXCEPT ![p] = None]
        /\ pc' = [pc EXCEPT ![p] = "ops"]
    BY <1>4 DEF Bnk!Answer, Bnk!Ch!Receive, Acc
  <2>2. want[p] # None BY <1>i, <2>1 DEF BkStage
  <2>3. acc \in Bnk!Accounts /\ s \in Bnk!Servers BY <1>i, <2>2, BkChoices
  <2>4. <<s, p>> \in Bnk!Ch!Chan BY <1>4, <2>3, BkChannels
  <2>5. m.w2 \in Nat
    <3>1. m \in Bnk!Message BY <1>t, <2>1, <2>4 DEF Slots
    <3> HIDE DEF m
    <3> QED BY <3>1, BkMessages
  <2> HIDE DEF op, acc, s, m
  <2>6. slot' \in [Bnk!Ch!Chan -> Slots] BY <1>c, <1>n, <2>1, <2>4
  <2>7. taken' \in [Bnk!Places -> Nat]
    <3>1. Bnk!Place(acc) \in Bnk!Places BY <2>3, BkAccounts
    <3> QED BY <1>t, <2>1, <2>5, <3>1
  <2>8. want' \in [Bnk!Procs -> Wants] BY <1>t, <1>n, <2>1
  <2>9. pc' \in [Bnk!Procs -> BkAt] BY <1>b, <1>at, <2>1
  <2> QED BY <1>a, <1>t, <2>1, <2>6, <2>7, <2>8, <2>9
<1>5. CASE p \in Bnk!Apps /\ Bnk!SendExit(p)
  <2>1. /\ pc[p] = "exit" /\ UNCHANGED <<ops, want, begin, balance, answer, made, taken>>
        /\ slot' = [slot EXCEPT ![<<p, Bnk!dsl_seq(next[p])>>] = Bnk!EXIT]
        /\ next' = [next EXCEPT ![p] = @ + 1]
        /\ pc' = [pc EXCEPT ![p] = IF next[p] + 1 < Bnk!num_dsl THEN "exit" ELSE "told"]
    BY <1>5 DEF Bnk!SendExit, Bnk!Ch!Send, Bnk!history
  <2>2. next[p] \in Nat /\ next[p] < Bnk!num_dsl BY <1>i, <1>t, <1>f, <2>1 DEF BkStage
  <2>3. Bnk!dsl_seq(next[p]) \in Bnk!Servers BY <2>2, BkServers
  <2>4. <<p, Bnk!dsl_seq(next[p])>> \in Bnk!Ch!Chan BY <1>5, <2>3, BkChannels
  <2>5. Bnk!EXIT \in Slots BY <1>m, BkMessages
  <2>6. slot' \in [Bnk!Ch!Chan -> Slots] BY <1>c, <2>1, <2>4, <2>5
  <2>7. next[p] + 1 \in 0 .. BankN BY <1>f, <2>2
  <2>8. next' \in [Bnk!Procs -> 0 .. BankN] BY <1>t, <2>1, <2>7
  <2>9. pc' \in [Bnk!Procs -> BkAt]
    <3>1. (IF next[p] + 1 < Bnk!num_dsl THEN "exit" ELSE "told") \in BkAt BY <1>at
    <3> QED BY <1>b, <2>1, <3>1
  <2> QED BY <1>a, <1>t, <2>1, <2>6, <2>8, <2>9
<1>6. CASE p \in Bnk!Apps /\ Bnk!SendReport(p)
  <2>1. /\ UNCHANGED <<ops, want, next, begin, balance, answer, made, taken>>
        /\ slot' = [slot EXCEPT ![<<p, 0>>] = Bnk!REPORT]
        /\ pc' = [pc EXCEPT ![p] = "end"]
    BY <1>6 DEF Bnk!SendReport, Bnk!Ch!Send, Bnk!history
  <2>2. <<p, 0>> \in Bnk!Ch!Chan BY <1>6, BkServers, BkChannels
  <2>3. Bnk!REPORT \in Slots BY <1>m, BkMessages
  <2>4. slot' \in [Bnk!Ch!Chan -> Slots] BY <1>c, <2>1, <2>2, <2>3
  <2>5. pc' \in [Bnk!Procs -> BkAt] BY <1>b, <1>at, <2>1
  <2> QED BY <1>a, <1>t, <2>1, <2>4, <2>5
<1>7. CASE p \in Bnk!Servers /\ Bnk!Miss(p)
  <2>1. /\ UNCHANGED <<slot, pc, ops, want, next, balance, answer, made, taken>>
        /\ begin' = [begin EXCEPT ![p] = Bnk!After(@)]
    BY <1>7 DEF Bnk!Miss, Bnk!channels, Bnk!history
  <2>2. /\ begin' \in [Bnk!Procs -> Nat]
        /\ \A s \in Bnk!Servers : begin'[s] \in 0 .. Bnk!NumApp - 1
    BY <1>d, <1>7, <2>1
  <2> QED BY <1>a, <1>t, <2>1, <2>2
<1>8. CASE p \in Bnk!Servers /\ Bnk!Serve(p)
  <2> DEFINE q == Bnk!Sender(begin[p])
             m == slot[<<q, p>>]
             pl == <<p, m.w1>>
             r == Bnk!Reply(m, pl)
  <2>1. /\ m # None /\ UNCHANGED <<ops, want, next, made, taken>>
        /\ slot' = [slot EXCEPT ![<<q, p>>] = None]
        /\ Bnk!Apply(m, pl)
        /\ answer' = IF r = None THEN answer ELSE [answer EXCEPT ![p] = <<q, r>>]
        /\ pc' = IF m.w0 \in {"DEPOSIT", "WITHDRAW", "CHECK"} THEN pc ELSE [pc EXCEPT ![p] = "end"]
        /\ begin' = [begin EXCEPT ![p] = Bnk!After(@)]
    BY <1>8 DEF Bnk!Serve, Bnk!Ch!Receive, Bnk!history
  <2>2. q \in Bnk!Apps BY <1>i, <1>8, BkSender
  <2>3. BkPair(q, p) /\ BkStage(q) BY <1>8, <2>2, BkApps DEF BkInv
  <2>4. /\ m \in Bnk!Message
        /\ m.w0 \in {"DEPOSIT", "WITHDRAW", "CHECK"} =>
             m.w1 \in 0 .. Bnk!PerDsl - 1 /\ m.w2 = 1
    BY <1>i, <1>8, <2>1, <2>2, <2>3, BkTakes
  <2>5. <<q, p>> \in Bnk!Ch!Chan BY <1>8, <2>2, BkChannels
  <2>6. /\ begin' \in [Bnk!Procs -> Nat]
        /\ \A s \in Bnk!Servers : begin'[s] \in 0 .. Bnk!NumApp - 1
    BY <1>d, <1>8, <2>1
  <2> HIDE DEF q, m
  <2>7. slot' \in [Bnk!Ch!Chan -> Slots] BY <1>c, <1>n, <2>1, <2>5
  <2>8. m.w0 \in {"DEPOSIT", "WITHDRAW", "CHECK"} => pl \in Bnk!Places /\ balance[pl] \in Nat
    <3>1. m.w0 \in {"DEPOSIT", "WITHDRAW", "CHECK"} => pl \in Bnk!Places
      BY <1>8, <2>4 DEF Bnk!Places
    <3> HIDE DEF pl
    <3> QED BY <1>t, <3>1
  <2>9. r = None \/ r \in Bnk!Message
    <3>1. m.w0 \in {"DEPOSIT", "WITHDRAW", "CHECK", "EXIT", "REPORT"} BY <2>4, BkMessages
    <3> QED BY <2>4, <2>8, <3>1, BkReplyIs
  <2>10. answer' \in [Bnk!Procs -> Answers]
    <3>1. r # None => <<q, r>> \in Answers BY <2>2, <2>9 DEF Answers
    <3> HIDE DEF r
    <3> QED BY <1>t, <2>1, <3>1
  <2>11. pc' \in [Bnk!Procs -> BkAt] BY <1>t, <1>b, <1>at, <2>1
  <2>12. balance' \in [Bnk!Places -> Nat]
    <3> HIDE DEF pl
    <3>1. CASE m.w0 = "DEPOSIT"
      <4>1. balance' = [balance EXCEPT ![pl] = @ + m.w2] BY <2>1, <3>1 DEF Bnk!Apply
      <4>2. balance[pl] + m.w2 \in Nat BY <2>4, <2>8, <3>1
      <4> QED BY <1>t, <4>1, <4>2
    <3>2. CASE m.w0 = "WITHDRAW" /\ balance[pl] >= m.w2
      <4>1. balance' = [balance EXCEPT ![pl] = @ - m.w2]
        BY <2>1, <3>2 DEF Bnk!Apply, Bnk!Grant
      <4>2. balance[pl] - m.w2 \in Nat BY <2>4, <2>8, <3>2
      <4> QED BY <1>t, <4>1, <4>2
    <3>3. CASE m.w0 # "DEPOSIT" /\ ~(m.w0 = "WITHDRAW" /\ balance[pl] >= m.w2)
      <4>1. balance' = balance BY <2>1, <3>3 DEF Bnk!Apply, Bnk!Grant
      <4> QED BY <1>t, <4>1
    <3> QED BY <3>1, <3>2, <3>3
  <2> QED BY <1>a, <1>t, <2>1, <2>6, <2>7, <2>10, <2>11, <2>12
<1>9. CASE p \in Bnk!Servers /\ Bnk!SendAnswer(p)
  <2>1. /\ answer[p] # None
        /\ slot' = [slot EXCEPT ![<<p, answer[p][1]>>] = answer[p][2]]
        /\ answer' = [answer EXCEPT ![p] = None]
        /\ UNCHANGED <<pc, ops, want, next, begin, balance, made, taken>>
    BY <1>9 DEF Bnk!SendAnswer, Bnk!Ch!Send, Bnk!history
  <2>2. answer[p] \in Bnk!Apps \X Bnk!Message BY <1>t, <2>1 DEF Answers
  <2>3. answer[p][1] \in Bnk!Apps /\ answer[p][2] \in Bnk!Message BY <2>2
  <2>4. <<p, answer[p][1]>> \in Bnk!Ch!Chan BY <1>9, <2>3, BkChannels
  <2>5. answer[p][2] \in Slots BY <1>m, <2>3
  <2>6. slot' \in [Bnk!Ch!Chan -> Slots] BY <1>c, <2>1, <2>4, <2>5
  <2>7. answer' \in [Bnk!Procs -> Answers] BY <1>t, <1>n, <2>1
  <2> QED BY <1>a, <1>t, <2>1, <2>6, <2>7
<1>10. CASE Bnk!Collect(p)
  <2>1. pc[p] = "collect" /\ p = 0 /\ UNCHANGED <<ops, want, begin, balance, answer, made, taken>>
    BY <1>10, <1>i DEF Bnk!Collect, Bnk!history, BkStage
  <2>2. CASE next[p] < Bnk!NumApp
    <3>1. /\ slot' = [slot EXCEPT ![<<Bnk!Sender(next[p]), p>>] = None]
          /\ next' = [next EXCEPT ![p] = @ + 1] /\ UNCHANGED pc
      BY <1>10, <2>2 DEF Bnk!Collect, Bnk!Ch!Receive
    <3>2. next[p] \in 0 .. Bnk!NumApp - 1 /\ next[p] + 1 \in 0 .. BankN
      BY <1>t, <1>f, <2>2
    <3>3. Bnk!Sender(next[p]) \in Bnk!Apps BY <3>2, BkApps
    <3>4. <<Bnk!Sender(next[p]), p>> \in Bnk!Ch!Chan BY <2>1, <3>3, BkServers, BkChannels
    <3>5. slot' \in [Bnk!Ch!Chan -> Slots] BY <1>c, <1>n, <3>1, <3>4
    <3>6. next' \in [Bnk!Procs -> 0 .. BankN] BY <1>t, <3>1, <3>2
    <3> QED BY <1>a, <1>t, <2>1, <3>1, <3>5, <3>6
  <2>3. CASE ~(next[p] < Bnk!NumApp)
    <3>1. pc' = [pc EXCEPT ![p] = "stats"] /\ UNCHANGED <<slot, next>>
      BY <1>10, <2>3 DEF Bnk!Collect, Bnk!channels
    <3>2. pc' \in [Bnk!Procs -> BkAt] BY <1>b, <1>at, <3>1
    <3> QED BY <1>a, <1>t, <2>1, <3>1, <3>2
  <2> QED BY <2>2, <2>3
<1> QED BY <1>1, <1>2, <1>3, <1>4, <1>5, <1>6, <1>7, <1>8, <1>9, <1>10, BkMoves

-----------------------------------------------------------------------------
(* bank: every step keeps the stages *)

LEMMA BkStageStep ==
  ASSUME BkInv, NEW p \in Bnk!Procs, Bnk!Step(p), NEW r \in Bnk!Procs
  PROVE  BkStage(r)'
<1>i. BkTyped /\ BkStage(p) /\ BkStage(r) BY DEF BkInv
<1>t. /\ pc \in [Bnk!Procs -> BkAt] /\ next \in [Bnk!Procs -> 0 .. BankN]
      /\ want \in [Bnk!Procs -> {None} \cup ({"DEPOSIT", "WITHDRAW", "CHECK"} \X Bnk!Accounts)]
      /\ answer \in [Bnk!Procs -> {None} \cup (Bnk!Apps \X Bnk!Message)]
  BY <1>i DEF BkTyped, Bnk!TypeOK, BkAt
<1>f. /\ Bnk!num_dsl \in Nat /\ BankN \in Nat
      /\ \A x \in Bnk!Procs : ~(x \in Bnk!Apps /\ x \in Bnk!Servers)
  BY BkFacts, BkServers, BkApps
<1>a. ASSUME pc'[r] = pc[r], next'[r] = next[r], want'[r] = want[r], answer'[r] = answer[r]
      PROVE  BkStage(r)'
  BY <1>i, <1>a DEF BkStage
<1>b. CASE r # p
  <2>1. /\ UNCHANGED pc \/ \E x : pc' = [pc EXCEPT ![p] = x]
        /\ UNCHANGED next \/ \E x : next' = [next EXCEPT ![p] = x]
        /\ UNCHANGED want \/ \E x : want' = [want EXCEPT ![p] = x]
        /\ UNCHANGED answer \/ \E x : answer' = [answer EXCEPT ![p] = x]
    <3>1. ASSUME NEW b \in {0, 1, 3, 4}, NEW at \in BkAt, NEW after \in BkAt,
                 Bnk!Wait(b, p, at, after)
          PROVE  /\ UNCHANGED <<next, want, answer>>
                 /\ UNCHANGED pc \/ \E x : pc' = [pc EXCEPT ![p] = x]
      BY <3>1, BkWaitIs
    <3>2. CASE Bnk!Choose(p) BY <3>2 DEF Bnk!Choose
    <3>3. CASE Bnk!Request(p) BY <3>3 DEF Bnk!Request
    <3>4. CASE Bnk!Answer(p) BY <3>4 DEF Bnk!Answer
    <3>5. CASE Bnk!SendExit(p) BY <3>5 DEF Bnk!SendExit
    <3>6. CASE Bnk!SendReport(p) BY <3>6 DEF Bnk!SendReport
    <3>7. CASE Bnk!Miss(p) BY <3>7 DEF Bnk!Miss
    <3>8. CASE Bnk!Serve(p) BY <3>8 DEF Bnk!Serve
    <3>9. CASE Bnk!SendAnswer(p) BY <3>9 DEF Bnk!SendAnswer
    <3>10. CASE Bnk!Collect(p) BY <3>10 DEF Bnk!Collect, Bnk!channels
    <3> QED BY <3>1, <3>2, <3>3, <3>4, <3>5, <3>6, <3>7, <3>8, <3>9, <3>10, BkMoves
  <2>2. pc'[r] = pc[r] BY <1>b, <1>t, <2>1
  <2>3. next'[r] = next[r] BY <1>b, <1>t, <2>1
  <2>4. want'[r] = want[r] BY <1>b, <1>t, <2>1
  <2>5. answer'[r] = answer[r] BY <1>b, <1>t, <2>1
  <2> QED BY <1>a, <2>2, <2>3, <2>4, <2>5
<1>c. CASE r = p
  <2>1. ASSUME NEW b \in {0, 1, 3, 4}, NEW at \in BkAt, NEW after \in BkAt,
               BkWay(p, b, at, after), Bnk!Wait(b, p, at, after)
        PROVE  BkStage(p)'
    <3>1. pc[p] = at /\ UNCHANGED <<next, want, answer>> BY <2>1, BkWaitIs
    <3>2. CASE UNCHANGED pc BY <1>a, <1>c, <3>1, <3>2
    <3>3. CASE pc' = [pc EXCEPT ![p] = after]
      <4>1. pc'[p] = after BY <1>t, <3>3
      <4>2. pc[p] # "serve" => answer[p] = None BY <1>i DEF BkStage
      <4>3. /\ at # "serve" /\ after # "answer" /\ after \in BkAt /\ after # "done"
            /\ after = "end" => FALSE
        BY <2>1 DEF BkWay
      <4>4. p \in Bnk!Servers => after \in {"begin", "serve"} \cup Ending
        BY <1>f, <1>i, <2>1, <3>1 DEF BkWay, BkStage, Ending, Over
      <4>5. p \in Bnk!Apps => after \in BkAt \ {"serve", "collect"}
        <5>1. p \in Bnk!Apps => p # 0 /\ p \notin Bnk!Servers BY <1>f, BkServers
        <5> QED BY <5>1, <2>1 DEF BkWay
      <4>6. /\ after = "collect" => p = 0
            /\ after \in {"begin", "ops", "answer", "done", "serve"} => at = "begin"
            /\ after = "exit" => p = 1 /\ at = "done"
        BY <2>1 DEF BkWay
      <4>7. /\ after \in {"begin", "ops", "answer", "done", "serve"} => next[p] = 0
            /\ after = "exit" => next[p] < Bnk!num_dsl
        BY <1>i, <3>1, <4>6, BkServers DEF BkStage
      <4> QED BY <3>1, <4>1, <4>2, <4>3, <4>4, <4>5, <4>6, <4>7 DEF BkStage
    <3> QED BY <2>1, <3>2, <3>3, BkWaitIs
  <2>2. CASE p \in Bnk!Apps /\ Bnk!Choose(p)
    <3>1. pc[p] = "ops" /\ UNCHANGED <<next, answer>> BY <2>2 DEF Bnk!Choose
    <3>2. pc'[p] \in {"ops", "done"} BY <1>t, <2>2, <3>1 DEF Bnk!Choose
    <3>3. p \notin Bnk!Servers BY <1>f, <2>2
    <3> QED BY <1>c, <1>i, <3>1, <3>2, <3>3 DEF BkStage, BkAt, Ending, Over
  <2>3. CASE p \in Bnk!Apps /\ Bnk!Request(p)
    <3>1. pc[p] = "ops" /\ UNCHANGED <<next, answer>> /\ want[p] # None
      BY <2>3 DEF Bnk!Request
    <3>2. \/ pc'[p] = "ops"
          \/ pc'[p] = "answer" /\ want' = want /\ want[p][1] # "DEPOSIT"
      BY <1>t, <2>3, <3>1 DEF Bnk!Request
    <3>3. p \notin Bnk!Servers BY <1>f, <2>3
    <3> QED BY <1>c, <1>i, <3>1, <3>2, <3>3 DEF BkStage, BkAt, Ending, Over
  <2>4. CASE p \in Bnk!Apps /\ Bnk!Answer(p)
    <3>1. pc[p] = "answer" /\ UNCHANGED <<next, answer>> /\ pc'[p] = "ops"
      BY <1>t, <2>4 DEF Bnk!Answer
    <3>3. p \notin Bnk!Servers BY <1>f, <2>4
    <3> QED BY <1>c, <1>i, <3>1, <3>3 DEF BkStage, BkAt, Ending, Over
  <2>5. CASE p \in Bnk!Apps /\ Bnk!SendExit(p)
    <3>1. pc[p] = "exit" /\ UNCHANGED answer /\ next'[p] = next[p] + 1
      BY <1>t, <2>5 DEF Bnk!SendExit
    <3>2. pc'[p] = IF next[p] + 1 < Bnk!num_dsl THEN "exit" ELSE "told"
      BY <1>t, <2>5 DEF Bnk!SendExit
    <3>3. p \notin Bnk!Servers BY <1>f, <2>5
    <3> QED BY <1>c, <1>i, <3>1, <3>2, <3>3 DEF BkStage, BkAt, Ending, Over
  <2>6. CASE p \in Bnk!Apps /\ Bnk!SendReport(p)
    <3>1. pc[p] = "report" /\ UNCHANGED answer /\ pc'[p] = "end"
      BY <1>t, <2>6 DEF Bnk!SendReport
    <3>3. p \notin Bnk!Servers BY <1>f, <2>6
    <3> QED BY <1>c, <1>i, <3>1, <3>3 DEF BkStage, BkAt, Ending, Over
  <2>7. CASE p \in Bnk!Servers /\ Bnk!Miss(p)
    BY <1>a, <1>c, <2>7 DEF Bnk!Miss
  <2>8. CASE p \in Bnk!Servers /\ Bnk!Serve(p)
    <3> DEFINE q == Bnk!Sender(begin[p])
               m == slot[<<q, p>>]
               r0 == Bnk!Reply(m, <<p, m.w1>>)
    <3>1. /\ pc[p] = "serve" /\ answer[p] = None /\ m # None /\ UNCHANGED next
          /\ answer' = IF r0 = None THEN answer ELSE [answer EXCEPT ![p] = <<q, r0>>]
          /\ pc' = IF m.w0 \in {"DEPOSIT", "WITHDRAW", "CHECK"} THEN pc
                   ELSE [pc EXCEPT ![p] = "end"]
      BY <2>8 DEF Bnk!Serve, Bnk!Ch!Receive
    <3>2. q \in Bnk!Apps BY <1>i, <2>8, BkSender
    <3>3. BkPair(q, p) /\ BkStage(q) BY <2>8, <3>2, BkApps DEF BkInv
    <3>4. m \in Bnk!Message
      <4> HIDE DEF q
      <4> QED BY <1>i, <2>8, <3>1, <3>2, <3>3, BkTakes
    <3> HIDE DEF q, m
    <3>5. CASE m.w0 \in {"DEPOSIT", "WITHDRAW", "CHECK"}
      <4>1. pc'[p] = "serve" BY <3>1, <3>5
      <4>2. p \notin Bnk!Apps BY <1>f, <2>8
      <4>3. next'[p] = 0 BY <1>i, <3>1 DEF BkStage
      <4> QED BY <1>c, <2>8, <4>1, <4>2, <4>3 DEF BkStage
    <3>6. CASE m.w0 \notin {"DEPOSIT", "WITHDRAW", "CHECK"}
      <4>1. pc'[p] = "end" BY <1>t, <3>1, <3>6
      <4>2. m.w0 \in {"DEPOSIT", "EXIT", "REPORT"} BY <3>4, <3>6, BkMessages
      <4>3. r0 = None BY <3>4, <4>2, BkReplyIs
      <4>4. answer'[p] = None /\ next'[p] = 0
        <5> HIDE DEF r0
        <5> QED BY <1>i, <3>1, <4>3 DEF BkStage
      <4>5. p \notin Bnk!Apps BY <1>f, <2>8
      <4> QED BY <1>c, <2>8, <4>1, <4>4, <4>5 DEF BkStage, Ending
    <3> QED BY <3>5, <3>6
  <2>9. CASE p \in Bnk!Servers /\ Bnk!SendAnswer(p)
    <3>1. UNCHANGED <<pc, next, want>> /\ answer'[p] = None BY <1>t, <2>9 DEF Bnk!SendAnswer
    <3> QED BY <1>c, <1>i, <3>1 DEF BkStage
  <2>10. CASE Bnk!Collect(p)
    <3>1. pc[p] = "collect" /\ UNCHANGED <<want, answer>> /\ p = 0
      BY <1>i, <2>10 DEF Bnk!Collect, BkStage
    <3>2. p \in Bnk!Servers /\ p \notin Bnk!Apps BY <1>f, <3>1, BkServers
    <3>3. pc'[p] \in {"collect", "stats"} BY <1>t, <2>10, <3>1 DEF Bnk!Collect
    <3> QED BY <1>c, <1>i, <3>1, <3>2, <3>3 DEF BkStage, Ending, Over
  <2> QED BY <1>c, <2>1, <2>2, <2>3, <2>4, <2>5, <2>6, <2>7, <2>8, <2>9, <2>10, BkMoves
<1> QED BY <1>b, <1>c

-----------------------------------------------------------------------------
(* bank: every step keeps what is said of barrier 0 *)

LEMMA BkWaitsStep ==
  ASSUME BkInv, NEW p \in Bnk!Procs, Bnk!Step(p)
  PROVE  BkWaits'
<1>i. BkWaits /\ BkTyped /\ BkStage(p) BY DEF BkInv
<1>t. pc \in [Bnk!Procs -> BkAt] BY <1>i DEF BkTyped, Bnk!TypeOK, BkAt
<1>w. /\ arrivals \in [Bnk!Barriers -> [Bnk!Procs -> Nat]]
      /\ departures \in [Bnk!Barriers -> [Bnk!Procs -> Nat]] /\ 0 \in Bnk!Barriers
      /\ party[0] = Bnk!Procs
  BY <1>i DEF BkWaits, Bnk!Barriers
<1>a. ASSUME party'[0] = party[0], arrivals'[0] = arrivals[0], departures'[0] = departures[0],
             arrivals' \in [Bnk!Barriers -> [Bnk!Procs -> Nat]],
             departures' \in [Bnk!Barriers -> [Bnk!Procs -> Nat]],
             NEW at,
             \/ UNCHANGED pc
             \/ /\ pc' = [pc EXCEPT ![p] = at]
                /\ pc[p] \in Over <=> at \in Over
                /\ pc[p] # "end"
      PROVE  BkWaits'
  <2>1. ASSUME NEW q \in Bnk!Procs
        PROVE  /\ pc'[q] \in Over <=> pc[q] \in Over
               /\ pc[q] = "end" => pc'[q] = "end"
    BY <1>t, <1>a
  <2> QED BY <1>i, <1>a, <2>1 DEF BkWaits
<1>1. ASSUME NEW b \in {0, 1, 3, 4}, NEW at \in BkAt, NEW after \in BkAt,
             BkWay(p, b, at, after), Bnk!Wait(b, p, at, after)
      PROVE  BkWaits'
  <2>1. pc[p] = at /\ b \in Bnk!Barriers BY <1>1, BkWaitIs DEF Bnk!Barriers
  <2>2. CASE Bnk!Bar!Arrive(b, p) /\ UNCHANGED pc
    <3>1. /\ arrivals[b][p] = departures[b][p] /\ UNCHANGED <<party, departures>>
          /\ arrivals' = [arrivals EXCEPT ![b][p] = @ + 1]
      BY <2>2 DEF Bnk!Bar!Arrive
    <3>2. arrivals' \in [Bnk!Barriers -> [Bnk!Procs -> Nat]] BY <1>w, <2>1, <3>1
    <3>3. CASE b # 0
      <4>1. arrivals'[0] = arrivals[0] BY <1>w, <3>1, <3>3
      <4> QED BY <1>a, <1>w, <2>2, <3>1, <3>2, <4>1
    <3>4. CASE b = 0
      <4>1. pc[p] = "end" BY <1>1, <2>1, <3>4 DEF BkWay
      <4>2. /\ arrivals'[0][p] = arrivals[0][p] + 1
            /\ \A q \in Bnk!Procs : q # p => arrivals'[0][q] = arrivals[0][q]
        BY <1>w, <3>1, <3>4
      <4>3. /\ arrivals[0] \in [Bnk!Procs -> Nat] /\ departures[0] \in [Bnk!Procs -> Nat] BY <1>w
      <4>4. \A q \in Bnk!Procs : \/ arrivals'[0][q] = departures[0][q]
                                 \/ arrivals'[0][q] = departures[0][q] + 1 /\ pc[q] = "end"
        BY <1>i, <3>1, <3>4, <4>1, <4>2 DEF BkWaits
      <4>5. \A x, q \in Bnk!Procs : departures[0][x] <= arrivals'[0][q]
        <5>1. ASSUME NEW x \in Bnk!Procs, NEW q \in Bnk!Procs
              PROVE  departures[0][x] <= arrivals'[0][q]
          <6>1. departures[0][x] <= arrivals[0][q] BY <1>i DEF BkWaits
          <6>2. departures[0][x] \in Nat /\ arrivals[0][q] \in Nat BY <4>3
          <6> QED BY <4>2, <6>1, <6>2
        <5> QED BY <5>1
      <4> QED BY <1>i, <2>2, <3>1, <3>2, <4>4, <4>5 DEF BkWaits
    <3> QED BY <3>3, <3>4
  <2>3. CASE Bnk!Bar!Depart(b, p) /\ pc' = [pc EXCEPT ![p] = after]
    <3>1. /\ \A q \in party[b] : departures[b][p] < arrivals[b][q]
          /\ departures' = [departures EXCEPT ![b][p] = @ + 1] /\ UNCHANGED <<party, arrivals>>
      BY <2>3 DEF Bnk!Bar!Depart
    <3>2. departures' \in [Bnk!Barriers -> [Bnk!Procs -> Nat]] BY <1>w, <2>1, <3>1
    <3>3. CASE b # 0
      <4>1. departures'[0] = departures[0] BY <1>w, <3>1, <3>3
      <4>2. at # "end" /\ (at \in Over <=> after \in Over) BY <1>1, <3>3 DEF BkWay, Over
      <4>3. pc[p] # "end" /\ (pc[p] \in Over <=> after \in Over) BY <2>1, <4>2
      <4> QED BY <1>a, <1>w, <2>3, <3>1, <3>2, <4>1, <4>3
    <3>4. CASE b = 0
      <4>1. pc[p] = "end" /\ after \in Over BY <1>1, <2>1, <3>4 DEF BkWay, Over
      <4>2. pc'[p] = after /\ \A q \in Bnk!Procs : q # p => pc'[q] = pc[q] BY <1>t, <2>3
      <4>3. /\ departures'[0][p] = departures[0][p] + 1
            /\ \A q \in Bnk!Procs : q # p => departures'[0][q] = departures[0][q]
        BY <1>w, <3>1, <3>4
      <4>4. departures[0][p] = 0 BY <1>i, <4>1 DEF BkWaits, Over
      <4>5. arrivals[0] \in [Bnk!Procs -> Nat] /\ departures[0] \in [Bnk!Procs -> Nat] BY <1>w
      <4>6. \A q \in Bnk!Procs : arrivals[0][q] >= 1
        <5>1. \A q \in Bnk!Procs : 0 < arrivals[0][q] BY <1>w, <3>1, <3>4, <4>4
        <5> QED BY <4>5, <5>1
      <4>7. arrivals[0][p] = 1
        <5>1. arrivals[0][p] = 0 \/ arrivals[0][p] = 1 BY <1>i, <4>4 DEF BkWaits
        <5>2. arrivals[0][p] >= 1 BY <4>6
        <5> QED BY <5>1, <5>2
      <4>8. ASSUME NEW q \in Bnk!Procs
            PROVE  /\ departures'[0][q] = IF pc'[q] \in Over THEN 1 ELSE 0
                   /\ \/ arrivals[0][q] = departures'[0][q]
                      \/ arrivals[0][q] = departures'[0][q] + 1 /\ pc'[q] = "end"
        <5>1. CASE q = p BY <4>1, <4>2, <4>3, <4>4, <4>7, <5>1
        <5>2. CASE q # p BY <1>i, <4>2, <4>3, <5>2 DEF BkWaits
        <5> QED BY <5>1, <5>2
      <4>9. \A x, q \in Bnk!Procs : departures'[0][x] <= arrivals[0][q]
        <5>1. \A x \in Bnk!Procs : departures'[0][x] \in {0, 1} BY <4>8
        <5>2. \A q \in Bnk!Procs : arrivals[0][q] \in Nat BY <4>5
        <5> QED BY <4>6, <5>1, <5>2
      <4> QED BY <1>i, <3>1, <3>2, <4>8, <4>9 DEF BkWaits
    <3> QED BY <3>3, <3>4
  <2> QED BY <1>1, <2>2, <2>3, BkWaitIs
<1>b. ASSUME UNCHANGED <<party, arrivals, departures>>, NEW at,
             \/ UNCHANGED pc
             \/ /\ pc' = [pc EXCEPT ![p] = at]
                /\ pc[p] \in Over <=> at \in Over
                /\ pc[p] # "end"
      PROVE  BkWaits'
  BY <1>a, <1>b, <1>w
<1>2. CASE p \in Bnk!Apps /\ Bnk!Choose(p)
  BY <1>b, <1>2 DEF Bnk!Choose, Bnk!barriers, Over
<1>3. CASE p \in Bnk!Apps /\ Bnk!Request(p)
  BY <1>b, <1>3 DEF Bnk!Request, Bnk!barriers, Over
<1>4. CASE p \in Bnk!Apps /\ Bnk!Answer(p)
  BY <1>b, <1>4 DEF Bnk!Answer, Bnk!barriers, Over
<1>5. CASE p \in Bnk!Apps /\ Bnk!SendExit(p)
  <2>1. /\ UNCHANGED <<party, arrivals, departures>> /\ pc[p] = "exit"
        /\ pc' = [pc EXCEPT ![p] = IF next[p] + 1 < Bnk!num_dsl THEN "exit" ELSE "told"]
    BY <1>5 DEF Bnk!SendExit, Bnk!barriers
  <2> QED BY <1>b, <2>1 DEF Over
<1>6. CASE p \in Bnk!Apps /\ Bnk!SendReport(p)
  BY <1>b, <1>6 DEF Bnk!SendReport, Bnk!barriers, Over
<1>7. CASE p \in Bnk!Servers /\ Bnk!Miss(p) BY <1>b, <1>7 DEF Bnk!Miss, Bnk!barriers
<1>8. CASE p \in Bnk!Servers /\ Bnk!Serve(p)
  <2>1. /\ UNCHANGED <<party, arrivals, departures>> /\ pc[p] = "serve"
        /\ UNCHANGED pc \/ pc' = [pc EXCEPT ![p] = "end"]
    BY <1>8 DEF Bnk!Serve, Bnk!barriers
  <2> QED BY <1>b, <2>1 DEF Over
<1>9. CASE p \in Bnk!Servers /\ Bnk!SendAnswer(p)
  BY <1>b, <1>9 DEF Bnk!SendAnswer, Bnk!barriers
<1>10. CASE Bnk!Collect(p)
  BY <1>b, <1>10 DEF Bnk!Collect, Bnk!barriers, Over
<1> QED BY <1>1, <1>2, <1>3, <1>4, <1>5, <1>6, <1>7, <1>8, <1>9, <1>10, BkMoves

\* When process 0 collects, everybody has left its loop.
LEMMA BkLeft ==
  ASSUME BkInv, pc[0] = "collect", NEW q \in Bnk!Procs
  PROVE  pc[q] \in Ending
<1>1. BkWaits /\ 0 \in Bnk!Procs BY BkFacts DEF BkInv
<1>2. departures[0][0] = 1 BY <1>1 DEF BkWaits, Over
<1>3. departures[0][0] <= arrivals[0][q] BY <1>1 DEF BkWaits
<1>4. arrivals[0][q] = 0 => FALSE BY <1>2, <1>3
<1>5. \/ arrivals[0][q] = departures[0][q]
      \/ pc[q] = "end"
  BY <1>1 DEF BkWaits
<1>6. departures[0][q] = IF pc[q] \in Over THEN 1 ELSE 0 BY <1>1 DEF BkWaits
<1> QED BY <1>4, <1>5, <1>6 DEF Ending

-----------------------------------------------------------------------------
(* bank: every step keeps what is sent at the end *)

\* The domains.
LEMMA BkDomains ==
  ASSUME BkInv
  PROVE  /\ slot \in [Bnk!Ch!Chan -> Bnk!Message \cup {None}] /\ pc \in [Bnk!Procs -> BkAt]
         /\ next \in [Bnk!Procs -> 0 .. BankN]
         /\ want \in [Bnk!Procs -> {None} \cup ({"DEPOSIT", "WITHDRAW", "CHECK"} \X Bnk!Accounts)]
         /\ answer \in [Bnk!Procs -> {None} \cup (Bnk!Apps \X Bnk!Message)]
         /\ made \in [Bnk!Places -> Nat] /\ taken \in [Bnk!Places -> Nat]
         /\ balance \in [Bnk!Places -> Nat]
BY DEF BkInv, BkTyped, Bnk!TypeOK, BkAt

LEMMA BkKinds ==
  /\ \A x \in Bnk!Procs : x \in Bnk!Apps <=> x \notin Bnk!Servers
  /\ 0 \in Bnk!Servers /\ 0 \notin Bnk!Apps /\ 1 \in Bnk!Apps /\ 1 \notin Bnk!Servers
  /\ Bnk!Apps \subseteq Bnk!Procs /\ Bnk!Servers \subseteq Bnk!Procs
BY BkServers, BkApps

LEMMA ReportedStep ==
  ASSUME BkInv, NEW p \in Bnk!Procs, Bnk!Step(p), NEW a \in Bnk!Apps
  PROVE  Reported(a)'
<1>i. Reported(a) /\ BkTyped /\ BkStage(p) BY DEF BkInv
<1>t. /\ slot \in [Bnk!Ch!Chan -> Bnk!Message \cup {None}] /\ pc \in [Bnk!Procs -> BkAt]
      /\ a \in Bnk!Procs /\ a # 0 /\ <<a, 0>> \in Bnk!Ch!Chan
  BY BkDomains, BkKinds, BkChannels
<1>a. ASSUME slot'[<<a, 0>>] \in {slot[<<a, 0>>], None}, pc'[a] \in Ending => pc[a] \in Ending
      PROVE  Reported(a)'
  BY <1>i, <1>a DEF Reported
<1>b. ASSUME pc'[a] \notin Ending PROVE Reported(a)'
  BY <1>b DEF Reported
<1>1. ASSUME NEW b \in {0, 1, 3, 4}, NEW at \in BkAt, NEW after \in BkAt,
             BkWay(p, b, at, after), Bnk!Wait(b, p, at, after)
      PROVE  Reported(a)'
  <2>1. pc[p] = at /\ UNCHANGED slot BY <1>1, BkWaitIs
  <2>2. UNCHANGED pc \/ pc' = [pc EXCEPT ![p] = after] BY <1>1, BkWaitIs
  <2>3. after \in Ending => at \in Ending BY <1>1 DEF BkWay, Ending, Over
  <2>4. pc'[a] = pc[a] \/ (a = p /\ pc'[a] = after) BY <1>t, <2>2
  <2> QED BY <1>a, <2>1, <2>3, <2>4
<1>2. CASE p \in Bnk!Apps /\ Bnk!Choose(p)
  <2>1. UNCHANGED slot BY <1>2 DEF Bnk!Choose, Bnk!channels
  <2>2. UNCHANGED pc \/ pc' = [pc EXCEPT ![p] = "done"] BY <1>2 DEF Bnk!Choose
  <2>3. pc'[a] = pc[a] \/ pc'[a] = "done" BY <1>t, <2>2
  <2> QED BY <1>a, <2>1, <2>3 DEF Ending, Over
<1>3. CASE p \in Bnk!Apps /\ Bnk!Request(p)
  <2> DEFINE s == Bnk!get_dsl(want[p][2])
             m == [w0 |-> want[p][1], w1 |-> want[p][2] % Bnk!PerDsl, w2 |-> 1]
  <2>1. /\ slot' = [slot EXCEPT ![<<p, s>>] = m] /\ pc[p] = "ops"
        /\ UNCHANGED pc \/ pc' = [pc EXCEPT ![p] = "answer"]
    BY <1>3 DEF Bnk!Request, Bnk!Ch!Send
  <2> HIDE DEF s, m
  <2>2. CASE a = p
    <3>1. pc'[a] \in {"ops", "answer"} BY <1>t, <2>1, <2>2
    <3> QED BY <1>b, <3>1 DEF Ending, Over
  <2>3. CASE a # p
    <3>1. pc'[a] = pc[a] BY <1>t, <2>1, <2>3
    <3>2. slot'[<<a, 0>>] = slot[<<a, 0>>] BY <1>t, <2>1, <2>3
    <3> QED BY <1>a, <3>1, <3>2
  <2> QED BY <2>2, <2>3
<1>4. CASE p \in Bnk!Apps /\ Bnk!Answer(p)
  <2>1. /\ slot' = [slot EXCEPT ![<<Bnk!get_dsl(want[p][2]), p>>] = None]
        /\ pc' = [pc EXCEPT ![p] = "ops"]
    BY <1>4 DEF Bnk!Answer, Bnk!Ch!Receive
  <2>2. slot'[<<a, 0>>] \in {slot[<<a, 0>>], None} BY <1>t, <2>1
  <2>3. pc'[a] = pc[a] \/ pc'[a] = "ops" BY <1>t, <2>1
  <2> QED BY <1>a, <2>2, <2>3 DEF Ending, Over
<1>5. CASE p \in Bnk!Apps /\ Bnk!SendExit(p)
  <2> DEFINE at == IF next[p] + 1 < Bnk!num_dsl THEN "exit" ELSE "told"
  <2>1. /\ slot' = [slot EXCEPT ![<<p, Bnk!dsl_seq(next[p])>>] = Bnk!EXIT]
        /\ pc' = [pc EXCEPT ![p] = at]
    BY <1>5 DEF Bnk!SendExit, Bnk!Ch!Send
  <2>2. at \in {"exit", "told"} OBVIOUS
  <2> HIDE DEF at
  <2>3. CASE a = p
    <3>1. pc'[a] \in {"exit", "told"} BY <1>t, <2>1, <2>2, <2>3
    <3> QED BY <1>b, <3>1 DEF Ending, Over
  <2>4. CASE a # p
    <3>1. pc'[a] = pc[a] BY <1>t, <2>1, <2>4
    <3>2. slot'[<<a, 0>>] = slot[<<a, 0>>] BY <1>t, <2>1, <2>4
    <3> QED BY <1>a, <3>1, <3>2
  <2> QED BY <2>3, <2>4
<1>6. CASE p \in Bnk!Apps /\ Bnk!SendReport(p)
  <2>1. slot' = [slot EXCEPT ![<<p, 0>>] = Bnk!REPORT] /\ pc' = [pc EXCEPT ![p] = "end"]
    BY <1>6 DEF Bnk!SendReport, Bnk!Ch!Send
  <2>2. CASE a = p
    <3>1. slot'[<<a, 0>>] = Bnk!REPORT BY <1>t, <2>1, <2>2
    <3> QED BY <3>1, BkMessages DEF Reported
  <2>3. CASE a # p
    <3>1. pc'[a] = pc[a] BY <1>t, <2>1, <2>3
    <3>2. slot'[<<a, 0>>] = slot[<<a, 0>>] BY <1>t, <2>1, <2>3
    <3> QED BY <1>a, <3>1, <3>2
  <2> QED BY <2>2, <2>3
<1>7. CASE p \in Bnk!Servers /\ Bnk!Miss(p)
  BY <1>a, <1>7 DEF Bnk!Miss, Bnk!channels
<1>8. CASE p \in Bnk!Servers /\ Bnk!Serve(p)
  <2>1. /\ slot' = [slot EXCEPT ![<<Bnk!Sender(begin[p]), p>>] = None]
        /\ UNCHANGED pc \/ pc' = [pc EXCEPT ![p] = "end"]
    BY <1>8 DEF Bnk!Serve, Bnk!Ch!Receive
  <2>2. slot'[<<a, 0>>] \in {slot[<<a, 0>>], None} BY <1>t, <2>1
  <2>3. a # p BY <1>8, BkKinds
  <2>4. pc'[a] = pc[a] BY <1>t, <2>1, <2>3
  <2> QED BY <1>a, <2>2, <2>4
<1>9. CASE p \in Bnk!Servers /\ Bnk!SendAnswer(p)
  <2>1. slot' = [slot EXCEPT ![<<p, answer[p][1]>>] = answer[p][2]] /\ UNCHANGED pc
    BY <1>9 DEF Bnk!SendAnswer, Bnk!Ch!Send
  <2>2. a # p BY <1>9, BkKinds
  <2>3. slot'[<<a, 0>>] = slot[<<a, 0>>] BY <1>t, <2>1, <2>2
  <2> QED BY <1>a, <2>1, <2>3
<1>10. CASE Bnk!Collect(p)
  <2>1. /\ slot' = [slot EXCEPT ![<<Bnk!Sender(next[p]), p>>] = None] \/ UNCHANGED slot
        /\ UNCHANGED pc \/ pc' = [pc EXCEPT ![p] = "stats"]
        /\ p = 0
    BY <1>i, <1>10 DEF Bnk!Collect, Bnk!Ch!Receive, Bnk!channels, BkStage
  <2>2. slot'[<<a, 0>>] \in {slot[<<a, 0>>], None} BY <1>t, <2>1
  <2>3. pc'[a] = pc[a] BY <1>t, <2>1
  <2> QED BY <1>a, <2>2, <2>3
<1> QED BY <1>1, <1>2, <1>3, <1>4, <1>5, <1>6, <1>7, <1>8, <1>9, <1>10, BkMoves

\* A single application tells every server to leave, after all else.
LEMMA ObeysStep ==
  ASSUME BkInv, Bnk!NumApp = 1, NEW p \in Bnk!Procs, Bnk!Step(p), NEW s \in Bnk!Servers
  PROVE  Obeys(s)'
<1>i. Obeys(s) /\ BkTyped /\ BkStage(p) BY DEF BkInv
<1>t. /\ slot \in [Bnk!Ch!Chan -> Bnk!Message \cup {None}] /\ pc \in [Bnk!Procs -> BkAt]
      /\ next \in [Bnk!Procs -> Nat]
      /\ 1 \in Bnk!Procs /\ s \in Bnk!Procs /\ s # 1 /\ <<1, s>> \in Bnk!Ch!Chan
  <2>1. next \in [Bnk!Procs -> 0 .. BankN] BY BkDomains
  <2>2. next \in [Bnk!Procs -> Nat] BY <2>1, BkFacts
  <2>3. <<1, s>> \in Bnk!Ch!Chan BY BkKinds, BkChannels
  <2> QED BY <2>2, <2>3, BkDomains, BkKinds
<1>one. Bnk!Apps = {1} BY BkApps
<1>a. ASSUME slot'[<<1, s>>] = slot[<<1, s>>], pc'[s] = pc[s], Told(s)' <=> Told(s)
      PROVE  Obeys(s)'
  BY <1>i, <1>a DEF Obeys
<1>b. ASSUME UNCHANGED slot, Told(s)' <=> Told(s),
             \/ pc[s] \in {"begin", "serve"} /\ pc'[s] \in {"begin", "serve"}
             \/ pc[s] \notin {"begin", "serve"} /\ pc'[s] \notin {"begin", "serve"}
      PROVE  Obeys(s)'
  BY <1>i, <1>b DEF Obeys
<1>c. ASSUME pc'[1] = pc[1], next'[1] = next[1] PROVE Told(s)' <=> Told(s)
  BY <1>c DEF Told
<1>1. ASSUME NEW b \in {0, 1, 3, 4}, NEW at \in BkAt, NEW after \in BkAt,
             BkWay(p, b, at, after), Bnk!Wait(b, p, at, after)
      PROVE  Obeys(s)'
  <2>1. pc[p] = at /\ UNCHANGED <<slot, next>> BY <1>1, BkWaitIs
  <2>2. UNCHANGED pc \/ pc' = [pc EXCEPT ![p] = after] BY <1>1, BkWaitIs
  <2>3. CASE UNCHANGED pc BY <1>a, <1>c, <2>1, <2>3
  <2>4. CASE pc' = [pc EXCEPT ![p] = after] /\ p = 1
    <3>1. pc[1] = at /\ pc'[1] = after /\ pc'[s] = pc[s] BY <1>t, <2>1, <2>4
    <3>2. at = "done" => next[1] = 0 BY <1>i, <2>1, <2>4 DEF BkStage
    <3>3. s \div BankDsl \in Nat BY BkServers
    <3>4. p \notin Bnk!Servers BY <2>4, BkKinds
    <3>5. Told(s)' <=> Told(s)
      <4>1. CASE at = "done"
        <5>1. after = "exit" BY <1>1, <2>4, <4>1 DEF BkWay
        <5>2. ~(next[1] > s \div BankDsl) BY <3>2, <3>3, <4>1
        <5> QED BY <2>1, <3>1, <4>1, <5>1, <5>2 DEF Told, Ending, Over
      <4>2. CASE at # "done"
        <5>1. \/ at = "begin" /\ after = "ops"
              \/ at = "told" /\ after = "report"
              \/ at = "end" /\ after = "stats"
              \/ at = "stats" /\ after = "term"
          BY <1>1, <2>4, <3>4, <4>2 DEF BkWay
        <5> QED BY <2>1, <3>1, <5>1 DEF Told, Ending, Over
      <4> QED BY <4>1, <4>2
    <3> QED BY <1>a, <2>1, <3>1, <3>5
  <2>5. CASE pc' = [pc EXCEPT ![p] = after] /\ p # 1
    <3>1. p \notin Bnk!Apps BY <1>one, <2>5
    <3>2. pc'[1] = pc[1] BY <1>t, <2>5
    <3>3. Told(s)' <=> Told(s) BY <1>c, <2>1, <3>2
    <3>4. \/ at = "begin" /\ after = "serve"
          \/ at \notin {"begin", "serve"} /\ after \notin {"begin", "serve"}
      BY <1>1, <2>5, <3>1 DEF BkWay
    <3>5. pc'[s] = pc[s] \/ (s = p /\ pc'[s] = after) BY <1>t, <2>5
    <3> QED BY <1>a, <1>b, <2>1, <3>3, <3>4, <3>5
  <2> QED BY <2>2, <2>3, <2>4, <2>5
<1>2. CASE p \in Bnk!Apps /\ Bnk!Choose(p)
  <2>1. p = 1 BY <1>one, <1>2
  <2>2. UNCHANGED <<slot, next>> /\ pc[1] = "ops" BY <1>2, <2>1 DEF Bnk!Choose, Bnk!channels
  <2>3. UNCHANGED pc \/ pc' = [pc EXCEPT ![1] = "done"] BY <1>2, <2>1 DEF Bnk!Choose
  <2>4. pc'[s] = pc[s] /\ pc'[1] \in {"ops", "done"} BY <1>t, <2>2, <2>3
  <2>5. Told(s)' <=> Told(s) BY <2>2, <2>4 DEF Told, Ending, Over
  <2> QED BY <1>a, <2>2, <2>4, <2>5
<1>3. CASE p \in Bnk!Apps /\ Bnk!Request(p)
  <2> DEFINE d == Bnk!get_dsl(Acc(p))
             m == [w0 |-> want[p][1], w1 |-> Acc(p) % Bnk!PerDsl, w2 |-> 1]
  <2>1. p = 1 BY <1>one, <1>3
  <2>2. /\ slot' = [slot EXCEPT ![<<1, d>>] = m] /\ pc[1] = "ops" /\ want[p] # None
        /\ UNCHANGED pc \/ pc' = [pc EXCEPT ![1] = "answer"]
    BY <1>3, <2>1 DEF Bnk!Request, Bnk!Ch!Send, Acc
  <2>3. m.w0 \in {"DEPOSIT", "WITHDRAW", "CHECK"} BY <1>i, <2>2, BkChoices
  <2>4. pc'[s] = pc[s] /\ pc'[1] \in {"ops", "answer"} BY <1>t, <2>2
  <2> HIDE DEF d, m
  <2>5. ~Told(s) /\ ~Told(s)' BY <2>2, <2>4 DEF Told, Ending, Over
  <2>6. slot'[<<1, s>>] \in {slot[<<1, s>>], m} BY <1>t, <2>2
  <2> QED BY <1>i, <2>3, <2>4, <2>5, <2>6 DEF Obeys
<1>4. CASE p \in Bnk!Apps /\ Bnk!Answer(p)
  <2>1. p = 1 BY <1>one, <1>4
  <2>2. /\ slot' = [slot EXCEPT ![<<Bnk!get_dsl(want[p][2]), 1>>] = None]
        /\ pc[1] = "answer" /\ pc' = [pc EXCEPT ![1] = "ops"]
    BY <1>4, <2>1 DEF Bnk!Answer, Bnk!Ch!Receive
  <2>3. pc'[s] = pc[s] /\ pc'[1] = "ops" /\ slot'[<<1, s>>] = slot[<<1, s>>] BY <1>t, <2>2
  <2>4. Told(s)' <=> Told(s) BY <2>2, <2>3 DEF Told, Ending, Over
  <2> QED BY <1>a, <2>3, <2>4
<1>5. CASE p \in Bnk!Apps /\ Bnk!SendExit(p)
  <2> DEFINE i == next[1]
             d == Bnk!dsl_seq(i)
             at == IF i + 1 < Bnk!num_dsl THEN "exit" ELSE "told"
  <2>1. p = 1 BY <1>one, <1>5
  <2>2. /\ slot' = [slot EXCEPT ![<<1, d>>] = Bnk!EXIT]
        /\ pc' = [pc EXCEPT ![1] = at] /\ pc[1] = "exit" /\ next' = [next EXCEPT ![1] = @ + 1]
    BY <1>5, <2>1 DEF Bnk!SendExit, Bnk!Ch!Send
  <2>3. /\ i \in Nat /\ i < Bnk!num_dsl /\ Bnk!num_dsl \in Nat /\ i \in 0 .. Bnk!num_dsl - 1
        /\ next'[1] = i + 1 /\ pc'[1] = at /\ pc'[s] = pc[s]
    <3>1. Bnk!num_dsl \in Nat BY BkServers
    <3>2. i < Bnk!num_dsl BY <1>i, <2>1, <2>2 DEF BkStage
    <3> QED BY <1>t, <2>2, <3>1, <3>2
  <2>4. /\ d \div BankDsl = i /\ s \div BankDsl \in 0 .. Bnk!num_dsl - 1
        /\ s = Bnk!dsl_seq(s \div BankDsl)
    BY <2>3, BkServers
  <2>5. Told(s)' <=> s \div BankDsl <= i
    <3>1. CASE i + 1 < Bnk!num_dsl
      <4>1. pc'[1] = "exit" BY <2>3, <3>1
      <4>2. i + 1 > s \div BankDsl <=> s \div BankDsl <= i BY <2>3, <2>4
      <4> QED BY <2>3, <4>1, <4>2 DEF Told, Ending, Over
    <3>2. CASE ~(i + 1 < Bnk!num_dsl)
      <4>1. pc'[1] = "told" BY <2>3, <3>2
      <4>2. s \div BankDsl <= i BY <2>3, <2>4, <3>2
      <4> QED BY <4>1, <4>2 DEF Told
    <3> QED BY <3>1, <3>2
  <2>6. Told(s) <=> s \div BankDsl < i
    <3>1. i > s \div BankDsl <=> s \div BankDsl < i BY <2>3, <2>4
    <3> QED BY <2>2, <3>1 DEF Told, Ending, Over
  <2> HIDE DEF i, d, at
  <2>7. CASE s = d
    <3>1. Told(s)' /\ ~Told(s) BY <2>3, <2>4, <2>5, <2>6, <2>7
    <3>2. slot'[<<1, s>>] = Bnk!EXIT BY <1>t, <2>2, <2>7
    <3>3. pc'[s] \in {"begin", "serve"} BY <1>i, <2>3, <3>1 DEF Obeys
    <3> QED BY <3>1, <3>2, <3>3, BkMessages DEF Obeys
  <2>8. CASE s # d
    <3>1. s \div BankDsl # i BY <2>4, <2>8 DEF d
    <3>2. Told(s)' <=> Told(s) BY <2>3, <2>4, <2>5, <2>6, <3>1
    <3>3. slot'[<<1, s>>] = slot[<<1, s>>] BY <1>t, <2>2, <2>8
    <3> QED BY <1>a, <2>3, <3>2, <3>3
  <2> QED BY <2>7, <2>8
<1>6. CASE p \in Bnk!Apps /\ Bnk!SendReport(p)
  <2>1. p = 1 BY <1>one, <1>6
  <2>2. /\ slot[<<1, 0>>] = None /\ slot' = [slot EXCEPT ![<<1, 0>>] = Bnk!REPORT]
        /\ pc[1] = "report" /\ pc' = [pc EXCEPT ![1] = "end"]
    BY <1>6, <2>1 DEF Bnk!SendReport, Bnk!Ch!Send
  <2>3. pc'[s] = pc[s] /\ pc'[1] = "end" BY <1>t, <2>2
  <2>4. Told(s) /\ Told(s)' BY <2>2, <2>3 DEF Told, Ending
  <2>5. CASE s = 0
    <3>1. pc[s] \notin {"begin", "serve"} BY <1>i, <2>2, <2>4, <2>5 DEF Obeys
    <3>2. slot'[<<1, s>>] = Bnk!REPORT BY <1>t, <2>2, <2>5
    <3> QED BY <2>3, <2>4, <3>1, <3>2, BkMessages DEF Obeys
  <2>6. CASE s # 0
    <3>1. slot'[<<1, s>>] = slot[<<1, s>>] BY <1>t, <2>2, <2>6
    <3> QED BY <1>a, <2>3, <2>4, <3>1
  <2> QED BY <2>5, <2>6
<1>7. CASE p \in Bnk!Servers /\ Bnk!Miss(p)
  BY <1>a, <1>c, <1>7 DEF Bnk!Miss, Bnk!channels
<1>8. CASE p \in Bnk!Servers /\ Bnk!Serve(p)
  <2> DEFINE m == slot[<<1, p>>]
  <2>1. Bnk!Sender(begin[p]) = 1
    <3>1. Bnk!Sender(begin[p]) \in Bnk!Apps BY <1>i, <1>8, BkSender
    <3> QED BY <1>one, <3>1
  <2>2. /\ pc[p] = "serve" /\ m # None /\ slot' = [slot EXCEPT ![<<1, p>>] = None]
        /\ pc' = IF m.w0 \in {"DEPOSIT", "WITHDRAW", "CHECK"} THEN pc
                 ELSE [pc EXCEPT ![p] = "end"]
        /\ UNCHANGED next
    BY <1>8, <2>1 DEF Bnk!Serve, Bnk!Ch!Receive
  <2>3. p # 1 BY <1>8, BkKinds
  <2>4. pc'[1] = pc[1] BY <1>t, <2>2, <2>3
  <2>5. Told(s)' <=> Told(s) BY <1>c, <2>2, <2>4
  <2>6. CASE s # p
    <3>1. slot'[<<1, s>>] = slot[<<1, s>>] /\ pc'[s] = pc[s] BY <1>t, <2>2, <2>6
    <3> QED BY <1>a, <2>5, <3>1
  <2>7. CASE s = p
    <3>1. slot'[<<1, s>>] = None BY <1>t, <2>2, <2>7
    <3>2. CASE Told(s)
      <4>1. m.w0 = "EXIT" BY <1>i, <2>2, <2>7, <3>2 DEF Obeys
      <4>2. pc'[s] = "end" BY <1>t, <2>2, <2>7, <4>1
      <4> QED BY <2>5, <3>1, <3>2, <4>2 DEF Obeys
    <3>3. CASE ~Told(s)
      <4>1. m.w0 \notin {"EXIT", "REPORT"} BY <1>i, <2>2, <2>7, <3>3 DEF Obeys
      <4>2. m \in Bnk!Message BY <1>t, <2>2, <2>7
      <4> HIDE DEF m
      <4>3. m.w0 \in {"DEPOSIT", "WITHDRAW", "CHECK"} BY <4>1, <4>2, BkMessages
      <4>4. pc'[s] = "serve" BY <2>2, <2>7, <4>3
      <4> QED BY <2>5, <3>1, <3>3, <4>4 DEF Obeys
    <3> QED BY <3>2, <3>3
  <2> QED BY <2>6, <2>7
<1>9. CASE p \in Bnk!Servers /\ Bnk!SendAnswer(p)
  <2>1. slot' = [slot EXCEPT ![<<p, answer[p][1]>>] = answer[p][2]] /\ UNCHANGED <<pc, next>>
    BY <1>9 DEF Bnk!SendAnswer, Bnk!Ch!Send
  <2>2. p # 1 BY <1>9, BkKinds
  <2>3. slot'[<<1, s>>] = slot[<<1, s>>] BY <1>t, <2>1, <2>2
  <2> QED BY <1>a, <1>c, <2>1, <2>3
<1>10. CASE Bnk!Collect(p)
  <2>1. /\ p = 0 /\ pc[0] = "collect"
        /\ \/ UNCHANGED slot
           \/ slot' = [slot EXCEPT ![<<Bnk!Sender(next[p]), p>>] = None]
        /\ UNCHANGED pc \/ pc' = [pc EXCEPT ![0] = "stats"]
        /\ UNCHANGED next \/ next' = [next EXCEPT ![0] = @ + 1]
    BY <1>i, <1>10 DEF Bnk!Collect, Bnk!Ch!Receive, Bnk!channels, BkStage
  <2>2. pc'[1] = pc[1] BY <1>t, <2>1
  <2>3. next'[1] = next[1] BY <1>t, <2>1
  <2>4. Told(s)' <=> Told(s) BY <1>c, <2>2, <2>3
  <2>5. CASE s # 0
    <3>1. slot'[<<1, s>>] = slot[<<1, s>>] BY <1>t, <2>1, <2>5
    <3>2. pc'[s] = pc[s] BY <1>t, <2>1, <2>5
    <3> QED BY <1>a, <2>4, <3>1, <3>2
  <2>6. CASE s = 0
    <3>1. pc'[s] \in {"collect", "stats"} BY <1>t, <2>1, <2>6
    <3>2. slot'[<<1, s>>] \in {slot[<<1, s>>], None} BY <1>t, <2>1, <2>6
    <3>3. Told(s) BY <1>i, <2>1, <2>6 DEF Obeys
    <3> QED BY <1>i, <2>1, <2>4, <2>6, <3>1, <3>2, <3>3 DEF Obeys
  <2> QED BY <2>5, <2>6
<1> QED BY <1>1, <1>2, <1>3, <1>4, <1>5, <1>6, <1>7, <1>8, <1>9, <1>10, BkMoves

-----------------------------------------------------------------------------
(* bank: every step keeps questions and answers *)

LEMMA BkPairFrame ==
  ASSUME NEW a, NEW s, BkPair(a, s),
         slot'[<<a, s>>] = slot[<<a, s>>], slot'[<<s, a>>] = slot[<<s, a>>],
         answer'[s] = answer[s], Asks(a, s)' <=> Asks(a, s),
         Asks(a, s) => want'[a] = want[a],
         Asks(a, s) /\ Bnk!NumApp = 1 => UNCHANGED <<made, taken>>
  PROVE  BkPair(a, s)'
<1>1. Owes(s, a)' <=> Owes(s, a) BY DEF Owes
<1>2. CASE Asks(a, s)
  <2>1. want'[a] = want[a] BY <1>2
  <2>2. ASSUME NEW m PROVE (Fits(m, a))' <=> Fits(m, a) BY <2>1 DEF Fits, Acc
  <2>3. ASSUME NEW m, Replies(m, a) PROVE (Replies(m, a))'
    <3>1. (Fits(m, a))' /\ Acc(a)' = Acc(a) BY <2>1, <2>2, <2>3 DEF Replies, Acc
    <3> QED BY <1>2, <2>3, <3>1 DEF Replies
  <2>4. /\ slot[<<a, s>>] # None /\ Fits(slot[<<a, s>>], a) => Fits(slot[<<a, s>>], a)'
        /\ Owes(s, a) /\ Replies(answer[s][2], a) => Replies(answer[s][2], a)'
        /\ Replies(slot[<<s, a>>], a) => Replies(slot[<<s, a>>], a)'
    <3>1. PICK x : x = slot[<<a, s>>] OBVIOUS
    <3>2. PICK y : y = answer[s][2] OBVIOUS
    <3>3. PICK z : z = slot[<<s, a>>] OBVIOUS
    <3>4. (Fits(x, a))' <=> Fits(x, a) BY <2>2
    <3>5. Replies(y, a) => (Replies(y, a))' BY <2>3
    <3>6. Replies(z, a) => (Replies(z, a))' BY <2>3
    <3>7. x = slot'[<<a, s>>] /\ y = answer'[s][2] /\ z = slot'[<<s, a>>] BY <3>1, <3>2, <3>3
    <3>8. Fits(slot[<<a, s>>], a)' <=> (Fits(x, a))' BY <3>7 DEF Fits
    <3>9. Replies(answer[s][2], a)' <=> (Replies(y, a))' BY <3>7 DEF Replies, Fits
    <3>10. Replies(slot[<<s, a>>], a)' <=> (Replies(z, a))' BY <3>7 DEF Replies, Fits
    <3> QED BY <3>1, <3>2, <3>3, <3>4, <3>5, <3>6, <3>8, <3>9, <3>10
  <2>5. Asks(a, s)' BY <1>2
  <2> QED BY <1>1, <1>2, <2>4, <2>5 DEF BkPair
<1>3. CASE ~Asks(a, s) BY <1>1, <1>3 DEF BkPair
<1> QED BY <1>2, <1>3

\* While the check of a single application is pending, nothing else is.
LEMMA BkSole ==
  ASSUME BkInv, Bnk!NumApp = 1, NEW q \in Bnk!Apps, NEW p \in Bnk!Servers,
         Asks(q, p), slot[<<q, p>>] # None, want[q][1] = "CHECK"
  PROVE  balance[<<p, slot[<<q, p>>].w1>>]
           = made[Bnk!Place(Acc(q))] - taken[Bnk!Place(Acc(q))]
<1> DEFINE acc == Acc(q)
           pl == <<p, acc % Bnk!PerDsl>>
<1>1. BkTyped /\ BkStage(q) /\ BkPair(q, p) BY BkKinds DEF BkInv
<1>2. /\ slot[<<q, p>>].w0 = "CHECK" /\ slot[<<q, p>>].w1 = acc % Bnk!PerDsl
      /\ ~Owes(p, q) /\ slot[<<p, q>>] = None
  BY <1>1 DEF BkPair, Fits
<1>3. want[q] # None /\ q \in Bnk!Procs BY <1>1, BkKinds DEF BkStage, Asks
<1>4. acc \in Bnk!Accounts /\ Bnk!get_dsl(acc) = p BY <1>1, <1>3, BkChoices DEF Asks
<1>5. Bnk!Apps = {q} BY BkApps
<1>6. pl[1] = p /\ Bnk!Place(acc) = pl /\ pl \in Bnk!Places BY <1>4, BkAccounts
<1>7. balance[<<p, slot[<<q, p>>].w1>>] = balance[pl] BY <1>2
<1> HIDE DEF acc, pl
<1>8. Bnk!Deposits(pl) = {} BY <1>2, <1>5, <1>6 DEF Bnk!Deposits
<1>9. Bnk!Grants(pl) = {} BY <1>2, <1>5, <1>6 DEF Bnk!Grants, Bnk!Yes, Owes
<1>10. made[pl] \in Nat /\ taken[pl] \in Nat /\ balance[pl] \in Nat BY <1>6, BkDomains
<1>11. made[pl] = balance[pl] + taken[pl]
                  + Cardinality(Bnk!Deposits(pl)) + Cardinality(Bnk!Grants(pl))
  BY <1>6, BkCounts DEF BkInv, Bnk!Conservation
<1>12. Cardinality(Bnk!Deposits(pl)) = 0 /\ Cardinality(Bnk!Grants(pl)) = 0
  BY <1>8, <1>9, FS_EmptySet
<1> QED BY <1>6, <1>7, <1>10, <1>11, <1>12 DEF acc

LEMMA BkPairStep ==
  ASSUME BkInv, NEW p \in Bnk!Procs, Bnk!Step(p), NEW a \in Bnk!Apps, NEW s \in Bnk!Servers
  PROVE  BkPair(a, s)'
<1>i. BkTyped /\ BkStage(p) /\ BkStage(a) /\ BkPair(a, s) BY BkKinds DEF BkInv
<1>t. /\ slot \in [Bnk!Ch!Chan -> Bnk!Message \cup {None}] /\ pc \in [Bnk!Procs -> BkAt]
      /\ want \in [Bnk!Procs -> {None} \cup ({"DEPOSIT", "WITHDRAW", "CHECK"} \X Bnk!Accounts)]
      /\ answer \in [Bnk!Procs -> {None} \cup (Bnk!Apps \X Bnk!Message)]
  BY BkDomains
<1>c. a # s /\ a \in Bnk!Procs /\ s \in Bnk!Procs
      /\ <<a, s>> \in Bnk!Ch!Chan /\ <<s, a>> \in Bnk!Ch!Chan
  BY BkChannels
<1>a. ASSUME slot'[<<a, s>>] = slot[<<a, s>>], slot'[<<s, a>>] = slot[<<s, a>>],
             answer'[s] = answer[s], Asks(a, s)' <=> Asks(a, s),
             Asks(a, s) => want'[a] = want[a],
             Asks(a, s) /\ Bnk!NumApp = 1 => UNCHANGED <<made, taken>>
      PROVE  BkPair(a, s)'
  BY <1>i, <1>a, BkPairFrame
<1>0. ASSUME NEW x \in BkAt, UNCHANGED <<slot, answer>>, pc[p] # "answer", x # "answer",
             UNCHANGED pc \/ pc' = [pc EXCEPT ![p] = x],
             UNCHANGED want \/ (pc[p] = "ops" /\ \E y : want' = [want EXCEPT ![p] = y]),
             UNCHANGED <<made, taken>>
      PROVE  BkPair(a, s)'
  <2>1. pc[a] = "answer" => a # p BY <1>0
  <2>2. pc[a] = "answer" => want'[a] = want[a] BY <1>t, <1>c, <1>0, <2>1
  <2>3. pc'[a] = "answer" <=> pc[a] = "answer" BY <1>t, <1>c, <1>0, <2>1
  <2>4. Asks(a, s)' <=> Asks(a, s) BY <2>2, <2>3 DEF Asks, Acc
  <2>5. Asks(a, s) => want'[a] = want[a] BY <2>2 DEF Asks
  <2> QED BY <1>a, <1>0, <2>4, <2>5
<1>1. ASSUME NEW b \in {0, 1, 3, 4}, NEW at \in BkAt, NEW after \in BkAt,
             BkWay(p, b, at, after), Bnk!Wait(b, p, at, after)
      PROVE  BkPair(a, s)'
  <2>1. pc[p] = at /\ UNCHANGED <<slot, want, answer, made, taken>> BY <1>1, BkWaitIs
  <2>2. UNCHANGED pc \/ pc' = [pc EXCEPT ![p] = after] BY <1>1, BkWaitIs
  <2>3. at # "answer" /\ after # "answer" BY <1>1 DEF BkWay
  <2> QED BY <1>0, <2>1, <2>2, <2>3
<1>2. CASE p \in Bnk!Apps /\ Bnk!Choose(p)
  <2>1. UNCHANGED <<slot, answer, made, taken>> /\ pc[p] = "ops"
    BY <1>2 DEF Bnk!Choose, Bnk!channels, Bnk!history
  <2>2. /\ UNCHANGED pc \/ pc' = [pc EXCEPT ![p] = "done"]
        /\ UNCHANGED want \/ \E y : want' = [want EXCEPT ![p] = y]
    BY <1>2 DEF Bnk!Choose
  <2>3. "done" \in BkAt BY DEF BkAt
  <2> QED BY <1>0, <2>1, <2>2, <2>3
\* With a single application only its own steps change made and taken.
<1>one. ASSUME p \in Bnk!Apps, a # p PROVE Bnk!NumApp # 1
  BY <1>one, BkApps
<1>3. CASE p \in Bnk!Apps /\ Bnk!Request(p)
  <2> DEFINE op == want[p][1]
             acc == Acc(p)
             d == Bnk!get_dsl(acc)
             m == [w0 |-> op, w1 |-> acc % Bnk!PerDsl, w2 |-> 1]
  <2>1. /\ want[p] # None /\ pc[p] = "ops"
        /\ UNCHANGED answer
        /\ slot[<<p, d>>] = None /\ slot' = [slot EXCEPT ![<<p, d>>] = m]
        /\ want' = IF op = "DEPOSIT" THEN [want EXCEPT ![p] = None] ELSE want
        /\ pc' = IF op = "DEPOSIT" THEN pc ELSE [pc EXCEPT ![p] = "answer"]
    BY <1>3 DEF Bnk!Request, Bnk!Ch!Send, Acc
  <2>2. /\ op \in {"DEPOSIT", "WITHDRAW", "CHECK"} /\ acc \in Bnk!Accounts /\ d \in Bnk!Servers
        /\ acc % Bnk!PerDsl \in 0 .. Bnk!PerDsl - 1
    BY <1>i, <2>1, BkChoices
  <2>3. m.w0 = op /\ m.w1 = acc % Bnk!PerDsl /\ m.w2 = 1 OBVIOUS
  <2>4. m \in Bnk!Message
    <3> HIDE DEF op, acc, d
    <3> QED BY <2>2, BkMessages
  <2>5. m # None
    <3> HIDE DEF m
    <3> QED BY <2>4, BkMessages
  <2>6. CASE a # p
    <3>1. slot'[<<a, s>>] = slot[<<a, s>>] /\ slot'[<<s, a>>] = slot[<<s, a>>]
      <4>1. s # p BY <1>3, BkKinds
      <4> HIDE DEF op, acc, d, m
      <4> QED BY <1>t, <1>c, <2>1, <2>6, <4>1
    <3>2. pc'[a] = pc[a] /\ want'[a] = want[a] BY <1>t, <1>c, <2>1, <2>6
    <3>3. Asks(a, s)' <=> Asks(a, s) BY <3>2 DEF Asks, Acc
    <3> QED BY <1>a, <1>one, <1>3, <2>1, <2>6, <3>1, <3>2, <3>3
  <2>7. CASE a = p
    <3>1. ~Asks(a, s) BY <2>1, <2>7 DEF Asks
    <3>2. slot'[<<s, a>>] = slot[<<s, a>>]
      <4> HIDE DEF op, acc, d, m
      <4> QED BY <1>t, <1>c, <2>1, <2>7
    <3>3. CASE op = "DEPOSIT"
      <4>1. ~Asks(a, s)' BY <2>1, <2>7, <3>3 DEF Asks
      <4>2. slot'[<<a, s>>] = slot[<<a, s>>] \/ slot'[<<a, s>>] = m
        <5> HIDE DEF op, acc, d, m
        <5> QED BY <1>t, <1>c, <2>1
      <4>3. Owes(s, a)' <=> Owes(s, a) BY <2>1 DEF Owes
      <4> HIDE DEF m
      <4>4. slot'[<<a, s>>] # None =>
               \/ /\ slot'[<<a, s>>].w0 = "DEPOSIT" /\ slot'[<<a, s>>].w2 = 1
                  /\ slot'[<<a, s>>].w1 \in 0 .. Bnk!PerDsl - 1
               \/ slot'[<<a, s>>].w0 \in {"EXIT", "REPORT"}
        <5>1. CASE slot'[<<a, s>>] = m BY <2>2, <2>3, <3>3, <5>1
        <5>2. CASE slot'[<<a, s>>] = slot[<<a, s>>] BY <1>i, <3>1, <5>2 DEF BkPair
        <5> QED BY <4>2, <5>1, <5>2
      <4> QED BY <1>i, <3>1, <3>2, <4>1, <4>3, <4>4 DEF BkPair
    <3>4. CASE op # "DEPOSIT"
      <4>1. pc'[a] = "answer" /\ want' = want BY <1>t, <1>c, <2>1, <2>7, <3>4
      <4>2. Asks(a, s)' <=> s = d BY <2>7, <4>1 DEF Asks, Acc
      <4>3. Owes(s, a)' <=> Owes(s, a) BY <2>1 DEF Owes
      <4>4. CASE s # d
        <5>1. slot'[<<a, s>>] = slot[<<a, s>>]
          <6> HIDE DEF op, acc, d, m
          <6> QED BY <1>t, <1>c, <2>1, <4>4
        <5> QED BY <1>i, <3>1, <3>2, <4>2, <4>3, <4>4, <5>1 DEF BkPair
      <4>5. CASE s = d
        <5>1. slot'[<<a, s>>] = m
          <6> HIDE DEF op, acc, d, m
          <6> QED BY <1>t, <1>c, <2>1, <2>7, <4>5
        <5>2. Fits(slot[<<a, s>>], a)' BY <2>3, <2>7, <4>1, <5>1 DEF Fits, Acc
        <5>3. ~Owes(s, a) /\ slot[<<s, a>>] = None BY <1>i, <3>1 DEF BkPair
        <5> HIDE DEF m
        <5> QED BY <2>3, <2>5, <3>2, <4>2, <4>3, <4>5, <5>1, <5>2, <5>3 DEF BkPair
      <4> QED BY <4>4, <4>5
    <3> QED BY <3>3, <3>4
  <2> QED BY <2>6, <2>7
<1>4. CASE p \in Bnk!Apps /\ Bnk!Answer(p)
  <2> DEFINE d == Bnk!get_dsl(Acc(p))
  <2>1. /\ pc[p] = "answer" /\ slot[<<d, p>>] # None
        /\ UNCHANGED <<answer, made>>
        /\ slot' = [slot EXCEPT ![<<d, p>>] = None]
        /\ want' = [want EXCEPT ![p] = None]
        /\ pc' = [pc EXCEPT ![p] = "ops"]
    BY <1>4 DEF Bnk!Answer, Bnk!Ch!Receive, Acc
  <2> HIDE DEF d
  <2>2. slot'[<<a, s>>] = slot[<<a, s>>]
    <3>1. a # d
      <4>1. want[p] # None BY <1>i, <2>1 DEF BkStage
      <4>2. d \in Bnk!Servers BY <1>i, <4>1, BkChoices DEF d
      <4> QED BY <4>2, BkKinds
    <3> QED BY <1>t, <1>c, <2>1, <3>1
  <2>3. CASE a # p
    <3>1. slot'[<<s, a>>] = slot[<<s, a>>] BY <1>t, <1>c, <2>1, <2>3
    <3>2. pc'[a] = pc[a] /\ want'[a] = want[a] BY <1>t, <1>c, <2>1, <2>3
    <3>3. Asks(a, s)' <=> Asks(a, s) BY <3>2 DEF Asks, Acc
    <3> QED BY <1>a, <1>one, <1>4, <2>1, <2>2, <2>3, <3>1, <3>2, <3>3
  <2>4. CASE a = p
    <3>1. pc'[a] = "ops" BY <1>t, <1>c, <2>1, <2>4
    <3>2. ~Asks(a, s)' BY <3>1 DEF Asks
    <3>3. Owes(s, a)' <=> Owes(s, a) BY <2>1 DEF Owes
    <3>4. CASE s = d
      <4>1. Asks(a, s) BY <2>1, <2>4, <3>4 DEF Asks, d
      <4>2. slot[<<a, s>>] = None /\ ~Owes(s, a) BY <1>i, <2>1, <2>4, <3>4, <4>1 DEF BkPair
      <4>3. slot'[<<s, a>>] = None BY <1>t, <1>c, <2>1, <2>4, <3>4
      <4> QED BY <2>2, <3>2, <3>3, <4>2, <4>3 DEF BkPair
    <3>5. CASE s # d
      <4>1. ~Asks(a, s) BY <2>4, <3>5 DEF Asks, d
      <4>2. slot'[<<s, a>>] = slot[<<s, a>>] BY <1>t, <1>c, <2>1, <3>5
      <4> QED BY <1>i, <2>2, <3>2, <3>3, <4>1, <4>2 DEF BkPair
    <3> QED BY <3>4, <3>5
  <2> QED BY <2>3, <2>4
\* What is sent at the end.
<1>5. ASSUME NEW d \in Bnk!Servers, NEW m, m # None, m.w0 \in {"EXIT", "REPORT"},
             p \in Bnk!Apps, pc[p] # "answer", slot' = [slot EXCEPT ![<<p, d>>] = m],
             NEW x, x # "answer", pc' = [pc EXCEPT ![p] = x],
             UNCHANGED <<want, answer, made, taken>>
      PROVE  BkPair(a, s)'
  <2>1. pc'[a] = "answer" <=> pc[a] = "answer" BY <1>t, <1>c, <1>5
  <2>2. Asks(a, s)' <=> Asks(a, s) BY <1>5, <2>1 DEF Asks, Acc
  <2>3. slot'[<<s, a>>] = slot[<<s, a>>]
    <3>1. s # p BY <1>5, BkKinds
    <3> QED BY <1>t, <1>c, <1>5, <3>1
  <2>4. CASE a = p /\ s = d
    <3>1. ~Asks(a, s) BY <1>5, <2>4 DEF Asks
    <3>2. slot'[<<a, s>>] = m BY <1>t, <1>c, <1>5, <2>4
    <3>3. Owes(s, a)' <=> Owes(s, a) BY <1>5 DEF Owes
    <3> QED BY <1>i, <1>5, <2>2, <2>3, <3>1, <3>2, <3>3 DEF BkPair
  <2>5. CASE ~(a = p /\ s = d)
    <3>1. slot'[<<a, s>>] = slot[<<a, s>>] BY <1>t, <1>c, <1>5, <2>5
    <3> QED BY <1>a, <1>5, <2>2, <2>3, <3>1
  <2> QED BY <2>4, <2>5
<1>6. CASE p \in Bnk!Apps /\ Bnk!SendExit(p)
  <2>1. /\ pc[p] = "exit" /\ UNCHANGED <<want, answer, made, taken>>
        /\ slot' = [slot EXCEPT ![<<p, Bnk!dsl_seq(next[p])>>] = Bnk!EXIT]
        /\ pc' = [pc EXCEPT ![p] = IF next[p] + 1 < Bnk!num_dsl THEN "exit" ELSE "told"]
    BY <1>6 DEF Bnk!SendExit, Bnk!Ch!Send, Bnk!history
  <2>2. Bnk!dsl_seq(next[p]) \in Bnk!Servers
    <3>1. next[p] \in 0 .. BankN BY BkDomains
    <3>2. next[p] \in Nat BY <3>1, BkFacts
    <3> QED BY <3>2, BkServers
  <2>3. Bnk!EXIT # None /\ Bnk!EXIT.w0 = "EXIT" BY BkMessages
  <2>4. (IF next[p] + 1 < Bnk!num_dsl THEN "exit" ELSE "told") # "answer" OBVIOUS
  <2> QED BY <1>5, <1>6, <2>1, <2>2, <2>3, <2>4
<1>7. CASE p \in Bnk!Apps /\ Bnk!SendReport(p)
  <2>1. /\ pc[p] = "report" /\ UNCHANGED <<want, answer, made, taken>>
        /\ slot' = [slot EXCEPT ![<<p, 0>>] = Bnk!REPORT]
        /\ pc' = [pc EXCEPT ![p] = "end"]
    BY <1>7 DEF Bnk!SendReport, Bnk!Ch!Send, Bnk!history
  <2>2. Bnk!REPORT # None /\ Bnk!REPORT.w0 = "REPORT" /\ 0 \in Bnk!Servers BY BkMessages, BkKinds
  <2> QED BY <1>5, <1>7, <2>1, <2>2
<1>8. CASE p \in Bnk!Servers /\ Bnk!Miss(p)
  <2>1. UNCHANGED <<slot, pc, want, answer, made, taken>>
    BY <1>8 DEF Bnk!Miss, Bnk!channels, Bnk!history
  <2> QED BY <1>a, <2>1 DEF Asks, Acc
<1>9. CASE p \in Bnk!Servers /\ Bnk!Serve(p)
  <2> DEFINE q == Bnk!Sender(begin[p])
             m == slot[<<q, p>>]
             r == Bnk!Reply(m, <<p, m.w1>>)
  <2>1. /\ answer[p] = None /\ m # None /\ UNCHANGED <<want, made, taken>>
        /\ slot' = [slot EXCEPT ![<<q, p>>] = None]
        /\ answer' = IF r = None THEN answer ELSE [answer EXCEPT ![p] = <<q, r>>]
        /\ pc[p] = "serve" /\ (UNCHANGED pc \/ pc' = [pc EXCEPT ![p] = "end"])
    BY <1>9 DEF Bnk!Serve, Bnk!Ch!Receive, Bnk!history
  <2>2. q \in Bnk!Apps BY <1>i, <1>9, BkSender
  <2>3. pc'[a] = pc[a]
    <3>1. a # p BY <1>9, BkKinds
    <3> QED BY <1>t, <1>c, <2>1, <3>1
  <2>4. Asks(a, s)' <=> Asks(a, s) BY <2>1, <2>3 DEF Asks, Acc
  <2>5. slot'[<<s, a>>] = slot[<<s, a>>]
    <3>1. p # a BY <1>9, BkKinds
    <3> HIDE DEF q
    <3> QED BY <1>t, <1>c, <2>1, <3>1
  <2>6. CASE s # p
    <3> HIDE DEF q, m, r
    <3>1. slot'[<<a, s>>] = slot[<<a, s>>] BY <1>t, <1>c, <2>1, <2>6
    <3>2. answer'[s] = answer[s] BY <1>t, <1>c, <2>1, <2>6
    <3> QED BY <1>a, <2>1, <2>4, <2>5, <3>1, <3>2
  <2>7. CASE s = p /\ a # q
    <3> HIDE DEF q, m, r
    <3>1. slot'[<<a, s>>] = slot[<<a, s>>] BY <1>t, <1>c, <2>1, <2>7
    <3>2. ~Owes(s, a) BY <2>1, <2>7 DEF Owes
    <3>3. answer'[s] = None \/ answer'[s] = <<q, r>> BY <1>t, <1>c, <2>1, <2>7
    <3>4. ~Owes(s, a)' BY <2>7, <3>3 DEF Owes
    <3>5. CASE Asks(a, s)
      <4>1. \/ slot[<<a, s>>] # None /\ Fits(slot[<<a, s>>], a) /\ slot[<<a, s>>].w2 = 1
               /\ slot[<<s, a>>] = None
            \/ slot[<<a, s>>] = None /\ slot[<<s, a>>] # None /\ Replies(slot[<<s, a>>], a)
        BY <1>i, <3>2, <3>5 DEF BkPair
      <4>2. Fits(slot[<<a, s>>], a)' <=> Fits(slot[<<a, s>>], a) BY <2>1, <3>1 DEF Fits, Acc
      <4>3. Replies(slot[<<s, a>>], a)' <=> Replies(slot[<<s, a>>], a)
        BY <2>1, <2>5 DEF Replies, Fits, Acc
      <4> QED BY <2>4, <2>5, <3>1, <3>4, <3>5, <4>1, <4>2, <4>3 DEF BkPair
    <3>6. CASE ~Asks(a, s)
      BY <1>i, <2>4, <2>5, <3>1, <3>4, <3>6 DEF BkPair
    <3> QED BY <3>5, <3>6
  <2>8. CASE s = p /\ a = q
    <3>1. /\ m \in Bnk!Message
          /\ m.w0 \in {"DEPOSIT", "WITHDRAW", "CHECK"} =>
               m.w1 \in 0 .. Bnk!PerDsl - 1 /\ m.w2 = 1
      <4>1. slot[<<a, s>>] # None BY <2>1, <2>8
      <4>2. /\ slot[<<a, s>>] \in Bnk!Message
            /\ slot[<<a, s>>].w0 \in {"DEPOSIT", "WITHDRAW", "CHECK"} =>
                 slot[<<a, s>>].w1 \in 0 .. Bnk!PerDsl - 1 /\ slot[<<a, s>>].w2 = 1
        BY <1>i, <4>1, BkTakes
      <4> QED BY <2>8, <4>2
    <3>2. m = slot[<<a, s>>] BY <2>8
    <3> HIDE DEF q, m
    <3>3. slot'[<<a, s>>] = None BY <1>t, <1>c, <2>1, <2>8
    <3>4. CASE Asks(a, s)
      <4>1. Fits(m, a) /\ m.w2 = 1 /\ ~Owes(s, a) /\ slot[<<s, a>>] = None
        BY <1>i, <2>1, <2>8, <3>2, <3>4, <2>5 DEF BkPair, q
      <4>2. want[a] # None BY <1>i, <3>4 DEF Asks, BkStage
      <4>3. m.w0 \in {"WITHDRAW", "CHECK"}
        <5>1. want[a][1] \in {"DEPOSIT", "WITHDRAW", "CHECK"} BY <1>c, <1>i, <4>2, BkChoices
        <5>2. want[a][1] # "DEPOSIT" BY <1>i, <3>4 DEF Asks, BkStage
        <5> QED BY <4>1, <5>1, <5>2 DEF Fits
      <4>4. balance[<<p, m.w1>>] \in Nat
        <5>1. <<p, m.w1>> \in Bnk!Places BY <1>9, <3>1, <4>3 DEF Bnk!Places
        <5> QED BY <5>1, BkDomains
      <4>5. /\ r # None /\ r.w0 = m.w0 /\ r.w1 = m.w1
            /\ m.w0 = "WITHDRAW" => r.w2 \in {0, 1}
            /\ m.w0 = "CHECK" => r.w2 = balance[<<p, m.w1>>]
        BY <3>1, <4>3, <4>4, BkReplyIs
      <4>6. m.w0 = "CHECK" /\ Bnk!NumApp = 1 =>
              r.w2 = made[Bnk!Place(Acc(a))] - taken[Bnk!Place(Acc(a))]
        <5> SUFFICES ASSUME m.w0 = "CHECK", Bnk!NumApp = 1
                     PROVE  r.w2 = made[Bnk!Place(Acc(a))] - taken[Bnk!Place(Acc(a))]
          OBVIOUS
        <5>1. want[a][1] = "CHECK" BY <4>1 DEF Fits
        <5>2. slot[<<a, s>>] # None BY <2>1, <3>2
        <5>3. balance[<<s, slot[<<a, s>>].w1>>]
                = made[Bnk!Place(Acc(a))] - taken[Bnk!Place(Acc(a))]
          BY <3>4, <5>1, <5>2, BkSole
        <5> QED BY <2>8, <3>2, <4>5, <5>3
      <4> HIDE DEF r
      <4>7. Replies(r, a)
        <5>1. Fits(r, a) BY <4>1, <4>5 DEF Fits
        <5> QED BY <4>5, <4>6, <5>1 DEF Replies
      <4>8. answer'[s] = <<q, r>> /\ q = a BY <1>t, <1>c, <2>1, <2>8, <4>5
      <4>9. Owes(s, a)'
        <5>1. <<q, r>> # None
          <6>1. r \in Bnk!Message BY <3>1, <4>3, <4>4, BkReplyIs DEF r
          <6>2. <<q, r>> \in Bnk!Apps \X Bnk!Message BY <2>2, <6>1
          <6> QED BY <6>2, BkFacts
        <5> QED BY <4>8, <5>1 DEF Owes
      <4>10. Replies(answer[s][2], a)'
        <5>1. answer'[s][2] = r BY <4>8
        <5> QED BY <2>1, <4>7, <5>1 DEF Replies, Fits, Acc
      <4> QED BY <2>4, <2>5, <3>3, <3>4, <4>1, <4>9, <4>10 DEF BkPair
    <3>5. CASE ~Asks(a, s)
      <4>1. m.w0 \in {"DEPOSIT", "EXIT", "REPORT"} BY <1>i, <2>1, <3>2, <3>5 DEF BkPair
      <4>2. r = None BY <1>c, <2>8, <3>1, <4>1, BkReplyIs
      <4>3. answer' = answer BY <2>1, <4>2
      <4>4. ~Owes(s, a)' BY <1>i, <3>5, <4>3 DEF BkPair, Owes
      <4> QED BY <1>i, <2>4, <2>5, <3>3, <3>5, <4>4 DEF BkPair
    <3> QED BY <3>4, <3>5
  <2> QED BY <2>6, <2>7, <2>8
<1>10. CASE p \in Bnk!Servers /\ Bnk!SendAnswer(p)
  <2> DEFINE q == answer[p][1]
             m == answer[p][2]
  <2>1. /\ answer[p] # None /\ slot[<<p, q>>] = None
        /\ slot' = [slot EXCEPT ![<<p, q>>] = m]
        /\ answer' = [answer EXCEPT ![p] = None]
        /\ UNCHANGED <<pc, want, made, taken>>
    BY <1>10 DEF Bnk!SendAnswer, Bnk!Ch!Send, Bnk!history
  <2>2. answer[p] \in Bnk!Apps \X Bnk!Message BY <1>t, <2>1
  <2>3. q \in Bnk!Apps /\ m \in Bnk!Message BY <2>2
  <2>4. m # None
    <3> HIDE DEF m
    <3> QED BY <2>3, BkMessages
  <2>5. Asks(a, s)' <=> Asks(a, s) BY <2>1 DEF Asks, Acc
  <2>6. slot'[<<a, s>>] = slot[<<a, s>>]
    <3>1. a # p BY <1>10, BkKinds
    <3> HIDE DEF q, m
    <3> QED BY <1>t, <1>c, <2>1, <3>1
  <2>7. CASE s # p
    <3>1. slot'[<<s, a>>] = slot[<<s, a>>]
      <4> HIDE DEF q, m
      <4> QED BY <1>t, <1>c, <2>1, <2>7
    <3>2. answer'[s] = answer[s] BY <1>t, <1>c, <2>1, <2>7
    <3> QED BY <1>a, <2>1, <2>5, <2>6, <3>1, <3>2
  <2>8. CASE s = p /\ a # q
    <3>1. slot'[<<s, a>>] = slot[<<s, a>>]
      <4> HIDE DEF q, m
      <4> QED BY <1>t, <1>c, <2>1, <2>8
    <3>2. ~Owes(s, a) BY <2>8 DEF Owes
    <3>3. answer'[s] = None BY <1>t, <1>c, <2>1, <2>8
    <3>4. ~Owes(s, a)' BY <3>3 DEF Owes
    <3> HIDE DEF q, m
    <3>5. CASE Asks(a, s)
      <4>1. \/ slot[<<a, s>>] # None /\ Fits(slot[<<a, s>>], a) /\ slot[<<a, s>>].w2 = 1
               /\ slot[<<s, a>>] = None
            \/ slot[<<a, s>>] = None /\ slot[<<s, a>>] # None /\ Replies(slot[<<s, a>>], a)
        BY <1>i, <3>2, <3>5 DEF BkPair
      <4>2. Fits(slot[<<a, s>>], a)' <=> Fits(slot[<<a, s>>], a) BY <2>1, <2>6 DEF Fits, Acc
      <4>3. Replies(slot[<<s, a>>], a)' <=> Replies(slot[<<s, a>>], a)
        BY <2>1, <3>1 DEF Replies, Fits, Acc
      <4> QED BY <2>5, <2>6, <3>1, <3>4, <3>5, <4>1, <4>2, <4>3 DEF BkPair
    <3>6. CASE ~Asks(a, s)
      BY <1>i, <2>5, <2>6, <3>1, <3>4, <3>6 DEF BkPair
    <3> QED BY <3>5, <3>6
  <2>9. CASE s = p /\ a = q
    <3>1. Owes(s, a) BY <2>1, <2>9 DEF Owes
    <3>2. Asks(a, s) BY <1>i, <3>1 DEF BkPair
    <3>3. slot[<<a, s>>] = None /\ Replies(m, a) BY <1>i, <2>9, <3>1, <3>2 DEF BkPair
    <3>4. slot'[<<s, a>>] = m
      <4>1. <<s, a>> = <<p, q>> BY <2>9
      <4> HIDE DEF q, m
      <4> QED BY <1>t, <1>c, <2>1, <4>1
    <3>5. answer'[s] = None BY <1>t, <1>c, <2>1, <2>9
    <3>6. ~Owes(s, a)' BY <3>5 DEF Owes
    <3> HIDE DEF q, m
    <3>7. Replies(slot[<<s, a>>], a)' BY <2>1, <3>3, <3>4 DEF Replies, Fits, Acc
    <3> QED BY <2>4, <2>5, <2>6, <3>2, <3>3, <3>4, <3>6, <3>7 DEF BkPair
  <2> QED BY <2>7, <2>8, <2>9
<1>11. CASE Bnk!Collect(p)
  <2> DEFINE q == Bnk!Sender(next[p])
  <2>1. /\ p = 0 /\ pc[0] = "collect" /\ UNCHANGED <<want, answer, made, taken>>
        /\ UNCHANGED slot \/ slot' = [slot EXCEPT ![<<q, 0>>] = None]
        /\ UNCHANGED pc \/ pc' = [pc EXCEPT ![0] = "stats"]
    BY <1>i, <1>11 DEF Bnk!Collect, Bnk!Ch!Receive, Bnk!channels, Bnk!history, BkStage
  <2> HIDE DEF q
  <2>2. pc[a] \in Ending BY <1>c, <2>1, BkLeft
  <2>3. a # 0 BY BkKinds
  <2>4. pc'[a] = pc[a] BY <1>t, <1>c, <2>1, <2>3
  <2>5. ~Asks(a, s) /\ ~Asks(a, s)' BY <2>2, <2>4 DEF Asks, Ending, Over
  <2>6. slot'[<<s, a>>] = slot[<<s, a>>] BY <1>t, <1>c, <2>1, <2>3
  <2>7. slot'[<<a, s>>] \in {slot[<<a, s>>], None} BY <1>t, <1>c, <2>1
  <2>8. Owes(s, a)' <=> Owes(s, a) BY <2>1 DEF Owes
  <2> QED BY <1>i, <2>5, <2>6, <2>7, <2>8 DEF BkPair
<1> QED BY <1>1, <1>2, <1>3, <1>4, <1>6, <1>7, <1>8, <1>9, <1>10, <1>11, BkMoves

-----------------------------------------------------------------------------
(* bank: every step keeps the money *)

Paid(m, pl) == m # None /\ m.w0 = "DEPOSIT" /\ m.w1 = pl[2]
Granted(a, pl) ==
  \/ Bnk!Yes(slot[<<pl[1], a>>], pl)
  \/ Owes(pl[1], a) /\ Bnk!Yes(answer[pl[1]][2], pl)

LEMMA BkSets ==
  ASSUME NEW pl
  PROVE  /\ Bnk!Deposits(pl) \subseteq Bnk!Apps /\ Bnk!Deposits(pl)' \subseteq Bnk!Apps
         /\ Bnk!Grants(pl) \subseteq Bnk!Apps /\ Bnk!Grants(pl)' \subseteq Bnk!Apps
         /\ \A a \in Bnk!Apps :
              /\ a \in Bnk!Deposits(pl) <=> Paid(slot[<<a, pl[1]>>], pl)
              /\ a \in Bnk!Deposits(pl)' <=> Paid(slot'[<<a, pl[1]>>], pl)
              /\ a \in Bnk!Grants(pl) <=> Granted(a, pl)
              /\ a \in Bnk!Grants(pl)' <=> Granted(a, pl)'
BY DEF Bnk!Deposits, Bnk!Grants, Paid, Granted, Owes

\* One more, one less.
LEMMA OneMore ==
  ASSUME NEW S, NEW T, NEW x, IsFiniteSet(S), x \notin S,
         \A y : y \in T <=> y \in S \/ y = x
  PROVE  IsFiniteSet(T) /\ Cardinality(T) = Cardinality(S) + 1
<1>1. T = S \cup {x} OBVIOUS
<1> QED BY <1>1, FS_AddElement

LEMMA MoneyStep ==
  ASSUME BkInv, NEW p \in Bnk!Procs, Bnk!Step(p), NEW pl \in Bnk!Places
  PROVE  made'[pl] = balance'[pl] + taken'[pl]
           + Cardinality(Bnk!Deposits(pl)') + Cardinality(Bnk!Grants(pl)')
<1> DEFINE s == pl[1]
           k == pl[2]
           D == Bnk!Deposits(pl)
           G == Bnk!Grants(pl)
           DD == Bnk!Deposits(pl)'
           GG == Bnk!Grants(pl)'
<1>i. BkTyped /\ BkStage(p) BY DEF BkInv
<1>t. /\ slot \in [Bnk!Ch!Chan -> Bnk!Message \cup {None}] /\ pc \in [Bnk!Procs -> BkAt]
      /\ want \in [Bnk!Procs -> {None} \cup ({"DEPOSIT", "WITHDRAW", "CHECK"} \X Bnk!Accounts)]
      /\ answer \in [Bnk!Procs -> {None} \cup (Bnk!Apps \X Bnk!Message)]
      /\ made \in [Bnk!Places -> Nat] /\ taken \in [Bnk!Places -> Nat]
      /\ balance \in [Bnk!Places -> Nat]
  BY BkDomains
<1>s. /\ s \in Bnk!Servers /\ s \in Bnk!Procs /\ k \in 0 .. Bnk!PerDsl - 1
      /\ pl = <<s, k>>
  BY BkKinds DEF Bnk!Places
<1>c. /\ \A a \in Bnk!Apps : <<a, s>> \in Bnk!Ch!Chan /\ <<s, a>> \in Bnk!Ch!Chan
      /\ \A a \in Bnk!Apps, d \in Bnk!Servers : a # d
  BY <1>s, BkChannels
<1>f. IsFiniteSet(D) /\ IsFiniteSet(DD) /\ IsFiniteSet(G) /\ IsFiniteSet(GG)
  BY BkSets, BkApps, FS_Subset
<1>n. /\ Cardinality(D) \in Nat /\ Cardinality(G) \in Nat
      /\ Cardinality(DD) \in Nat /\ Cardinality(GG) \in Nat
  BY <1>f, FS_CardinalityType
<1>m. /\ made[pl] \in Nat /\ taken[pl] \in Nat /\ balance[pl] \in Nat
      /\ made[pl] = balance[pl] + taken[pl] + Cardinality(D) + Cardinality(G)
  <2>1. made[pl] = balance[pl] + taken[pl] + Cardinality(D) + Cardinality(G)
    BY BkCounts DEF BkInv, Bnk!Conservation
  <2>2. made[pl] \in Nat /\ taken[pl] \in Nat BY <1>t
  <2>3. balance[pl] \in Nat BY <1>t
  <2> QED BY <2>1, <2>2, <2>3
\* What the sets have in them.
<1>d. /\ D \subseteq Bnk!Apps /\ DD \subseteq Bnk!Apps
      /\ \A a \in Bnk!Apps : /\ a \in D <=> Paid(slot[<<a, s>>], pl)
                             /\ a \in DD <=> Paid(slot'[<<a, s>>], pl)
  BY BkSets
<1>g. /\ G \subseteq Bnk!Apps /\ GG \subseteq Bnk!Apps
      /\ \A a \in Bnk!Apps : (a \in G <=> Granted(a, pl)) /\ (a \in GG <=> Granted(a, pl)')
  BY BkSets
<1>p. \A m : Paid(m, pl) <=> m # None /\ m.w0 = "DEPOSIT" /\ m.w1 = k BY DEF Paid
<1>y. \A m : Bnk!Yes(m, pl) <=> m # None /\ m.w0 = "WITHDRAW" /\ m.w1 = k /\ m.w2 = 1
  BY DEF Bnk!Yes
<1>h. \A a : Granted(a, pl) <=> \/ Bnk!Yes(slot[<<s, a>>], pl)
                                \/ Owes(s, a) /\ Bnk!Yes(answer[s][2], pl)
  BY DEF Granted
<1>hh. \A a : Granted(a, pl)' <=> \/ Bnk!Yes(slot'[<<s, a>>], pl)
                                  \/ Owes(s, a)' /\ Bnk!Yes(answer'[s][2], pl)
  BY DEF Granted
<1> HIDE DEF D, G, DD, GG
<1>d0. ASSUME \A a \in Bnk!Apps : Paid(slot'[<<a, s>>], pl) <=> Paid(slot[<<a, s>>], pl)
       PROVE  Cardinality(DD) = Cardinality(D)
  <2>1. DD = D BY <1>d, <1>d0
  <2> QED BY <2>1
<1>d1. ASSUME NEW x \in Bnk!Apps, ~Paid(slot[<<x, s>>], pl), Paid(slot'[<<x, s>>], pl),
              \A a \in Bnk!Apps : a # x =>
                (Paid(slot'[<<a, s>>], pl) <=> Paid(slot[<<a, s>>], pl))
       PROVE  Cardinality(DD) = Cardinality(D) + 1
  <2>1. x \notin D /\ \A y : y \in DD <=> y \in D \/ y = x BY <1>d, <1>d1
  <2> QED BY <1>f, <2>1, OneMore
<1>d2. ASSUME NEW x \in Bnk!Apps, Paid(slot[<<x, s>>], pl), ~Paid(slot'[<<x, s>>], pl),
              \A a \in Bnk!Apps : a # x =>
                (Paid(slot'[<<a, s>>], pl) <=> Paid(slot[<<a, s>>], pl))
       PROVE  Cardinality(D) = Cardinality(DD) + 1
  <2>1. x \notin DD /\ \A y : y \in D <=> y \in DD \/ y = x BY <1>d, <1>d2
  <2> QED BY <1>f, <2>1, OneMore
<1>g0. ASSUME \A a \in Bnk!Apps : Granted(a, pl)' <=> Granted(a, pl)
       PROVE  Cardinality(GG) = Cardinality(G)
  <2>1. GG = G BY <1>g, <1>g0
  <2> QED BY <2>1
<1>g1. ASSUME NEW x \in Bnk!Apps, ~Granted(x, pl), Granted(x, pl)',
              \A a \in Bnk!Apps : a # x => (Granted(a, pl)' <=> Granted(a, pl))
       PROVE  Cardinality(GG) = Cardinality(G) + 1
  <2>1. x \notin G /\ \A y : y \in GG <=> y \in G \/ y = x BY <1>g, <1>g1
  <2> QED BY <1>f, <2>1, OneMore
<1>g2. ASSUME NEW x \in Bnk!Apps, Granted(x, pl), ~Granted(x, pl)',
              \A a \in Bnk!Apps : a # x => (Granted(a, pl)' <=> Granted(a, pl))
       PROVE  Cardinality(G) = Cardinality(GG) + 1
  <2>1. x \notin GG /\ \A y : y \in G <=> y \in GG \/ y = x BY <1>g, <1>g2
  <2> QED BY <1>f, <2>1, OneMore
\* Unless the answers change, what is granted is what is on the channels from s.
<1>g3. ASSUME UNCHANGED answer, \A a \in Bnk!Apps : slot'[<<s, a>>] = slot[<<s, a>>]
       PROVE  Cardinality(GG) = Cardinality(G)
  <2>1. \A a : Owes(s, a)' <=> Owes(s, a) BY <1>g3 DEF Owes
  <2>2. \A a \in Bnk!Apps : Granted(a, pl)' <=> Granted(a, pl) BY <1>h, <1>hh, <1>g3, <2>1
  <2> QED BY <1>g0, <2>2
<1> HIDE DEF s, k
<1>a. ASSUME UNCHANGED <<slot, answer, made, taken, balance>>
      PROVE  made'[pl] = balance'[pl] + taken'[pl] + Cardinality(DD) + Cardinality(GG)
  BY <1>d0, <1>g3, <1>a, <1>m
<1> SUFFICES made'[pl] = balance'[pl] + taken'[pl] + Cardinality(DD) + Cardinality(GG)
  BY DEF DD, GG
<1>1. ASSUME NEW b \in {0, 1, 3, 4}, NEW at \in BkAt, NEW after \in BkAt,
             Bnk!Wait(b, p, at, after)
      PROVE  made'[pl] = balance'[pl] + taken'[pl] + Cardinality(DD) + Cardinality(GG)
  BY <1>a, <1>1, BkWaitIs
<1>2. CASE p \in Bnk!Apps /\ Bnk!Choose(p)
  BY <1>a, <1>2 DEF Bnk!Choose, Bnk!channels, Bnk!history
<1>3. CASE p \in Bnk!Apps /\ Bnk!Request(p)
  <2> DEFINE op == want[p][1]
             b == Acc(p)
             home == Bnk!Place(b)
             d == Bnk!get_dsl(b)
             m == [w0 |-> op, w1 |-> b % Bnk!PerDsl, w2 |-> 1]
  <2>1. /\ want[p] # None /\ UNCHANGED <<answer, balance, taken>>
        /\ slot[<<p, d>>] = None /\ slot' = [slot EXCEPT ![<<p, d>>] = m]
        /\ made' = IF op = "DEPOSIT" THEN [made EXCEPT ![home] = @ + 1] ELSE made
    BY <1>3 DEF Bnk!Request, Bnk!Ch!Send, Acc
  <2>2. /\ op \in {"DEPOSIT", "WITHDRAW", "CHECK"} /\ b \in Bnk!Accounts /\ d \in Bnk!Servers
        /\ b % Bnk!PerDsl \in 0 .. Bnk!PerDsl - 1
    BY <1>i, <2>1, BkChoices
  <2>3. m.w0 = op /\ m.w1 = b % Bnk!PerDsl OBVIOUS
  <2>4. m # None
    <3>1. m \in Bnk!Message
      <4> HIDE DEF op, b, d
      <4> QED BY <2>2, BkMessages
    <3> HIDE DEF m
    <3> QED BY <3>1, BkMessages
  <2>5. (d = s /\ b % Bnk!PerDsl = k <=> home = pl) /\ home \in Bnk!Places
    <3>1. home = <<d, b % Bnk!PerDsl>> /\ home \in Bnk!Places
      <4> HIDE DEF b
      <4> QED BY <2>2, BkAccounts
    <3> HIDE DEF b, d, home
    <3> QED BY <1>s, <3>1
  <2> HIDE DEF op, b, d, m, home
  <2>6. Cardinality(GG) = Cardinality(G)
    <3>1. \A a \in Bnk!Apps : slot'[<<s, a>>] = slot[<<s, a>>] BY <1>t, <1>c, <1>s, <1>3, <2>1
    <3> QED BY <1>g3, <2>1, <3>1
  <2>7. \A a \in Bnk!Apps : a # p => slot'[<<a, s>>] = slot[<<a, s>>] BY <1>t, <1>c, <2>1
  <2>8. slot'[<<p, s>>] = IF d = s THEN m ELSE slot[<<p, s>>] BY <1>t, <1>c, <1>3, <2>1
  <2>9. CASE op = "DEPOSIT" /\ home = pl
    <3>1. ~Paid(slot[<<p, s>>], pl) BY <1>p, <2>1, <2>5, <2>9
    <3>2. Paid(slot'[<<p, s>>], pl) BY <1>p, <2>3, <2>4, <2>5, <2>8, <2>9
    <3>3. Cardinality(DD) = Cardinality(D) + 1 BY <1>d1, <1>3, <2>7, <3>1, <3>2
    <3>4. made'[pl] = made[pl] + 1 BY <1>t, <2>1, <2>9
    <3> QED BY <1>m, <1>n, <2>1, <2>6, <3>3, <3>4
  <2>10. CASE ~(op = "DEPOSIT" /\ home = pl)
    <3>1. Paid(slot'[<<p, s>>], pl) <=> Paid(slot[<<p, s>>], pl)
      <4>1. CASE d = s
        <5>1. ~Paid(slot[<<p, s>>], pl) BY <1>p, <2>1, <4>1
        <5>2. ~Paid(m, pl) BY <1>p, <2>3, <2>5, <2>10, <4>1
        <5> QED BY <2>8, <4>1, <5>1, <5>2
      <4>2. CASE d # s BY <2>8, <4>2
      <4> QED BY <4>1, <4>2
    <3>2. \A a \in Bnk!Apps : Paid(slot'[<<a, s>>], pl) <=> Paid(slot[<<a, s>>], pl)
      BY <2>7, <3>1
    <3>3. Cardinality(DD) = Cardinality(D) BY <1>d0, <3>2
    <3>4. made'[pl] = made[pl] BY <1>t, <2>1, <2>10
    <3> QED BY <1>m, <2>1, <2>6, <3>3, <3>4
  <2> QED BY <2>9, <2>10
<1>4. CASE p \in Bnk!Apps /\ Bnk!Answer(p)
  <2> DEFINE op == want[p][1]
             b == Acc(p)
             home == Bnk!Place(b)
             d == Bnk!get_dsl(b)
             m == slot[<<d, p>>]
  <2>1. /\ pc[p] = "answer" /\ m # None /\ UNCHANGED <<answer, balance, made>>
        /\ slot' = [slot EXCEPT ![<<d, p>>] = None]
        /\ taken' = IF op = "WITHDRAW" THEN [taken EXCEPT ![home] = @ + m.w2] ELSE taken
    BY <1>4 DEF Bnk!Answer, Bnk!Ch!Receive, Acc
  <2>2. b \in Bnk!Accounts /\ d \in Bnk!Servers
    <3>1. want[p] # None BY <1>i, <2>1 DEF BkStage
    <3> QED BY <1>i, <3>1, BkChoices
  <2>3. BkPair(p, d) /\ Asks(p, d) BY <1>4, <2>1, <2>2 DEF BkInv, Asks
  <2>4. Replies(m, p) /\ ~Owes(d, p) BY <2>1, <2>3 DEF BkPair
  <2>5. /\ m.w0 = op /\ m.w1 = b % Bnk!PerDsl /\ (op = "WITHDRAW" => m.w2 \in {0, 1})
    BY <2>4 DEF Replies, Fits
  <2>6. (d = s /\ b % Bnk!PerDsl = k <=> home = pl) /\ home \in Bnk!Places
    <3>1. home = <<d, b % Bnk!PerDsl>> /\ home \in Bnk!Places
      <4> HIDE DEF b
      <4> QED BY <2>2, BkAccounts
    <3> HIDE DEF b, d, home
    <3> QED BY <1>s, <3>1
  <2>7. m = slot[<<d, p>>] OBVIOUS
  <2> HIDE DEF op, b, d, m, home
  <2>8. Cardinality(DD) = Cardinality(D)
    <3>1. \A a \in Bnk!Apps : slot'[<<a, s>>] = slot[<<a, s>>] BY <1>t, <1>c, <2>1, <2>2
    <3> QED BY <1>d0, <3>1
  <2>9. \A a : Owes(s, a)' <=> Owes(s, a) BY <2>1 DEF Owes
  <2>10. \A a \in Bnk!Apps : a # p => (Granted(a, pl)' <=> Granted(a, pl))
    <3>1. \A a \in Bnk!Apps : a # p => slot'[<<s, a>>] = slot[<<s, a>>] BY <1>t, <1>c, <2>1
    <3> QED BY <1>h, <1>hh, <2>1, <2>9, <3>1
  <2>11. slot'[<<s, p>>] = IF d = s THEN None ELSE slot[<<s, p>>] BY <1>t, <1>c, <1>4, <2>1
  <2>12. CASE op = "WITHDRAW" /\ home = pl /\ m.w2 = 1
    <3>1. d = s BY <2>6, <2>12
    <3>2. Granted(p, pl) BY <1>h, <1>y, <2>1, <2>5, <2>6, <2>7, <2>12, <3>1
    <3>3. ~Granted(p, pl)' BY <1>hh, <1>y, <2>4, <2>9, <2>11, <3>1
    <3>4. Cardinality(G) = Cardinality(GG) + 1 BY <1>g2, <1>4, <2>10, <3>2, <3>3
    <3>5. taken'[pl] = taken[pl] + 1 BY <1>t, <2>1, <2>12
    <3> QED BY <1>m, <1>n, <2>1, <2>8, <3>4, <3>5
  <2>13. CASE ~(op = "WITHDRAW" /\ home = pl /\ m.w2 = 1)
    <3>1. Granted(p, pl)' <=> Granted(p, pl)
      <4>1. CASE d = s
        <5>1. ~Bnk!Yes(slot[<<s, p>>], pl) BY <1>y, <2>5, <2>6, <2>7, <2>13, <4>1
        <5>2. ~Bnk!Yes(slot'[<<s, p>>], pl) BY <1>y, <2>11, <4>1
        <5> QED BY <1>h, <1>hh, <2>1, <2>9, <5>1, <5>2
      <4>2. CASE d # s BY <1>h, <1>hh, <2>1, <2>9, <2>11, <4>2
      <4> QED BY <4>1, <4>2
    <3>2. Cardinality(GG) = Cardinality(G) BY <1>g0, <2>10, <3>1
    <3>3. taken'[pl] = taken[pl]
      <4>1. CASE op = "WITHDRAW" /\ home = pl
        <5>1. m.w2 = 0 BY <2>5, <2>13, <4>1
        <5>2. taken'[pl] = taken[pl] + 0 BY <1>t, <2>1, <4>1, <5>1
        <5> QED BY <1>m, <5>2
      <4>2. CASE ~(op = "WITHDRAW" /\ home = pl) BY <1>t, <2>1, <4>2
      <4> QED BY <4>1, <4>2
    <3> QED BY <1>m, <2>1, <2>8, <3>2, <3>3
  <2> QED BY <2>12, <2>13
\* What is sent at the end is no money.
<1>5. ASSUME NEW d \in Bnk!Servers, NEW m, m.w0 # "DEPOSIT",
             p \in Bnk!Apps, slot[<<p, d>>] = None, slot' = [slot EXCEPT ![<<p, d>>] = m],
             UNCHANGED <<answer, balance, made, taken>>
      PROVE  made'[pl] = balance'[pl] + taken'[pl] + Cardinality(DD) + Cardinality(GG)
  <2>1. \A a \in Bnk!Apps : slot'[<<s, a>>] = slot[<<s, a>>] BY <1>t, <1>c, <1>s, <1>5
  <2>2. Cardinality(GG) = Cardinality(G) BY <1>g3, <1>5, <2>1
  <2>3. \A a \in Bnk!Apps : \/ slot'[<<a, s>>] = slot[<<a, s>>]
                            \/ slot[<<a, s>>] = None /\ slot'[<<a, s>>] = m
    BY <1>t, <1>c, <1>5
  <2>4. ~Paid(m, pl) /\ ~Paid(None, pl) BY <1>p, <1>5
  <2>5. \A a \in Bnk!Apps : Paid(slot'[<<a, s>>], pl) <=> Paid(slot[<<a, s>>], pl)
    BY <2>3, <2>4
  <2>6. Cardinality(DD) = Cardinality(D) BY <1>d0, <2>5
  <2> QED BY <1>5, <1>m, <2>2, <2>6
<1>6. CASE p \in Bnk!Apps /\ Bnk!SendExit(p)
  <2>1. /\ slot[<<p, Bnk!dsl_seq(next[p])>>] = None
        /\ slot' = [slot EXCEPT ![<<p, Bnk!dsl_seq(next[p])>>] = Bnk!EXIT]
        /\ UNCHANGED <<answer, balance, made, taken>>
    BY <1>6 DEF Bnk!SendExit, Bnk!Ch!Send, Bnk!history
  <2>2. Bnk!dsl_seq(next[p]) \in Bnk!Servers
    <3>1. next[p] \in 0 .. BankN BY BkDomains
    <3>2. next[p] \in Nat BY <3>1, BkFacts
    <3> QED BY <3>2, BkServers
  <2>3. Bnk!EXIT.w0 # "DEPOSIT" BY BkMessages
  <2> QED BY <1>5, <1>6, <2>1, <2>2, <2>3
<1>7. CASE p \in Bnk!Apps /\ Bnk!SendReport(p)
  <2>1. /\ slot[<<p, 0>>] = None /\ slot' = [slot EXCEPT ![<<p, 0>>] = Bnk!REPORT]
        /\ UNCHANGED <<answer, balance, made, taken>>
    BY <1>7 DEF Bnk!SendReport, Bnk!Ch!Send, Bnk!history
  <2>2. Bnk!REPORT.w0 # "DEPOSIT" /\ 0 \in Bnk!Servers BY BkMessages, BkKinds
  <2> QED BY <1>5, <1>7, <2>1, <2>2
<1>8. CASE p \in Bnk!Servers /\ Bnk!Miss(p)
  BY <1>a, <1>8 DEF Bnk!Miss, Bnk!channels, Bnk!history
<1>9. CASE p \in Bnk!Servers /\ Bnk!Serve(p)
  <2> DEFINE q == Bnk!Sender(begin[p])
             m == slot[<<q, p>>]
             at == <<p, m.w1>>
             r == Bnk!Reply(m, at)
  <2>1. /\ answer[p] = None /\ m # None /\ UNCHANGED <<made, taken>>
        /\ slot' = [slot EXCEPT ![<<q, p>>] = None]
        /\ Bnk!Apply(m, at)
        /\ answer' = IF r = None THEN answer ELSE [answer EXCEPT ![p] = <<q, r>>]
    BY <1>9 DEF Bnk!Serve, Bnk!Ch!Receive, Bnk!history
  <2>2. q \in Bnk!Apps BY <1>i, <1>9, BkSender
  <2>3. BkPair(q, p) /\ BkStage(q) BY <1>9, <2>2, BkKinds DEF BkInv
  <2>4. /\ m \in Bnk!Message
        /\ m.w0 \in {"DEPOSIT", "WITHDRAW", "CHECK"} =>
             m.w1 \in 0 .. Bnk!PerDsl - 1 /\ m.w2 = 1
    <3> HIDE DEF q
    <3> QED BY <1>i, <1>9, <2>1, <2>2, <2>3, BkTakes
  <2>5. m.w0 \in {"DEPOSIT", "WITHDRAW", "CHECK", "EXIT", "REPORT"}
    <3> HIDE DEF m
    <3> QED BY <2>4, BkMessages
  <2>6. m = slot[<<q, p>>] OBVIOUS
  <2> HIDE DEF q, m
  <2>7. \A a \in Bnk!Apps : slot'[<<s, a>>] = slot[<<s, a>>]
    BY <1>t, <1>c, <1>s, <2>1, <2>2
  <2>8. m.w0 \in {"DEPOSIT", "WITHDRAW", "CHECK"} => at \in Bnk!Places /\ balance[at] \in Nat
    <3>1. m.w0 \in {"DEPOSIT", "WITHDRAW", "CHECK"} => at \in Bnk!Places
      BY <1>9, <2>4 DEF Bnk!Places
    <3> HIDE DEF at
    <3> QED BY <1>t, <3>1
  <2>9. /\ m.w0 \in {"DEPOSIT", "EXIT", "REPORT"} => r = None
        /\ m.w0 \in {"WITHDRAW", "CHECK"} =>
             r \in Bnk!Message /\ r # None /\ r.w0 = m.w0 /\ r.w1 = m.w1
        /\ m.w0 = "WITHDRAW" => r.w2 = IF balance[at] >= m.w2 THEN 1 ELSE 0
    BY <1>9, <2>4, <2>8, BkReplyIs
  <2>10. \/ m.w0 = "DEPOSIT" /\ balance' = [balance EXCEPT ![at] = @ + m.w2]
         \/ /\ m.w0 = "WITHDRAW" /\ balance[at] >= m.w2
            /\ balance' = [balance EXCEPT ![at] = @ - m.w2]
         \/ /\ m.w0 # "DEPOSIT" /\ ~(m.w0 = "WITHDRAW" /\ balance[at] >= m.w2)
            /\ balance' = balance
    <3> HIDE DEF at
    <3> QED BY <2>1 DEF Bnk!Apply, Bnk!Grant
  <2> HIDE DEF r
  <2>11. at = pl <=> p = s /\ m.w1 = k BY <1>s
  <2> HIDE DEF at
  <2>12. CASE s # p
    <3>1. \A a \in Bnk!Apps : slot'[<<a, s>>] = slot[<<a, s>>] BY <1>t, <1>c, <2>1, <2>12
    <3>2. Cardinality(DD) = Cardinality(D) BY <1>d0, <3>1
    <3>3. answer'[s] = answer[s] BY <1>t, <1>s, <2>1, <2>12
    <3>4. \A a : Owes(s, a)' <=> Owes(s, a) BY <3>3 DEF Owes
    <3>5. \A a \in Bnk!Apps : Granted(a, pl)' <=> Granted(a, pl)
      BY <1>h, <1>hh, <2>7, <3>3, <3>4
    <3>6. Cardinality(GG) = Cardinality(G) BY <1>g0, <3>5
    <3>7. balance'[pl] = balance[pl] BY <1>t, <1>s, <2>10, <2>11, <2>12
    <3> QED BY <1>m, <2>1, <3>2, <3>6, <3>7
  <2>13. CASE s = p
    <3>1. slot'[<<q, s>>] = None /\ m = slot[<<q, s>>]
          /\ \A a \in Bnk!Apps : a # q => slot'[<<a, s>>] = slot[<<a, s>>]
      BY <1>t, <1>c, <2>1, <2>2, <2>6, <2>13
    <3>2. ~Paid(slot'[<<q, s>>], pl)
          /\ \A a \in Bnk!Apps : a # q =>
               (Paid(slot'[<<a, s>>], pl) <=> Paid(slot[<<a, s>>], pl))
      BY <1>p, <3>1
    <3>3. \A a : ~Owes(s, a) BY <2>1, <2>13 DEF Owes
    <3>4. CASE m.w0 = "DEPOSIT"
      <4>1. UNCHANGED answer BY <2>1, <2>9, <3>4
      <4>2. Cardinality(GG) = Cardinality(G) BY <1>g3, <2>7, <4>1
      <4>3. balance' = [balance EXCEPT ![at] = @ + 1] BY <2>4, <2>10, <3>4
      <4>4. CASE m.w1 = k
        <5>1. Paid(slot[<<q, s>>], pl) BY <1>p, <2>1, <3>1, <3>4, <4>4
        <5>2. Cardinality(D) = Cardinality(DD) + 1 BY <1>d2, <2>2, <3>2, <5>1
        <5>3. balance'[pl] = balance[pl] + 1 BY <1>t, <1>s, <2>11, <2>13, <4>3, <4>4
        <5> QED BY <1>m, <1>n, <2>1, <4>2, <5>2, <5>3
      <4>5. CASE m.w1 # k
        <5>1. ~Paid(slot[<<q, s>>], pl) BY <1>p, <3>1, <4>5
        <5>2. \A a \in Bnk!Apps : Paid(slot'[<<a, s>>], pl) <=> Paid(slot[<<a, s>>], pl)
          BY <3>2, <5>1
        <5>3. Cardinality(DD) = Cardinality(D) BY <1>d0, <5>2
        <5>4. balance'[pl] = balance[pl] BY <1>t, <1>s, <2>11, <4>3, <4>5
        <5> QED BY <1>m, <2>1, <4>2, <5>3, <5>4
      <4> QED BY <4>4, <4>5
    <3>5. CASE m.w0 # "DEPOSIT"
      <4>1. ~Paid(slot[<<q, s>>], pl) BY <1>p, <3>1, <3>5
      <4>2. \A a \in Bnk!Apps : Paid(slot'[<<a, s>>], pl) <=> Paid(slot[<<a, s>>], pl)
        BY <3>2, <4>1
      <4>3. Cardinality(DD) = Cardinality(D) BY <1>d0, <4>2
      <4>4. ASSUME NEW a \in Bnk!Apps, a # q PROVE Granted(a, pl)' <=> Granted(a, pl)
        <5>1. answer'[s] = None \/ answer'[s] = <<q, r>> BY <1>t, <1>s, <2>1, <2>13
        <5>2. ~Owes(s, a)' BY <4>4, <5>1 DEF Owes
        <5> QED BY <1>h, <1>hh, <2>7, <3>3, <5>2
      <4>5. CASE m.w0 = "WITHDRAW" /\ m.w1 = k /\ balance[at] >= m.w2
        <5>1. /\ r # None /\ r.w0 = "WITHDRAW" /\ r.w1 = k /\ r.w2 = 1 BY <2>9, <4>5
        <5>2. answer'[s] = <<q, r>> BY <1>t, <1>s, <2>1, <2>13, <5>1
        <5>3. answer'[s][1] = q /\ answer'[s][2] = r BY <5>2
        <5>4. answer'[s] # None
          <6>1. answer' \in [Bnk!Procs -> {None} \cup (Bnk!Apps \X Bnk!Message)]
            BY BkTypedStep DEF BkTyped
          <6>2. r \in Bnk!Message BY <2>9, <4>5
          <6>3. <<q, r>> \in Bnk!Apps \X Bnk!Message BY <2>2, <6>2
          <6> QED BY <5>2, <6>3, BkFacts
        <5>x. PICK x \in Bnk!Apps : x = q BY <2>2
        <5>5. Owes(s, x)' BY <5>x, <5>3, <5>4 DEF Owes
        <5>6. Granted(x, pl)' BY <1>hh, <1>y, <5>1, <5>3, <5>5
        <5>7. slot[<<s, q>>] = None
          <6>1. BkPair(q, s) BY <2>3, <2>13
          <6>2. Asks(q, s) BY <2>1, <3>1, <4>5, <6>1 DEF BkPair
          <6> QED BY <2>1, <3>1, <6>1, <6>2 DEF BkPair
        <5>8. ~Granted(x, pl) BY <1>h, <1>y, <3>3, <5>x, <5>7
        <5>9. Cardinality(GG) = Cardinality(G) + 1 BY <1>g1, <4>4, <5>x, <5>6, <5>8
        <5>10. balance' = [balance EXCEPT ![at] = @ - 1] /\ balance[at] >= 1
          BY <2>4, <2>10, <4>5
        <5>11. balance'[pl] = balance[pl] - 1 BY <1>t, <1>s, <2>11, <2>13, <4>5, <5>10
        <5> QED BY <1>m, <1>n, <2>1, <4>3, <5>9, <5>11
      <4>6. CASE ~(m.w0 = "WITHDRAW" /\ m.w1 = k /\ balance[at] >= m.w2)
        <5>1. r = None \/ ~Bnk!Yes(r, pl)
          <6>1. CASE m.w0 = "WITHDRAW"
            <7>1. m.w1 # k \/ ~(balance[at] >= m.w2) BY <4>6, <6>1
            <7>2. r.w1 # k \/ r.w2 = 0 BY <2>9, <6>1, <7>1
            <7> QED BY <1>y, <7>2
          <6>2. CASE m.w0 = "CHECK" BY <1>y, <2>9, <6>2
          <6>3. CASE m.w0 \in {"EXIT", "REPORT"} BY <2>9, <6>3
          <6> QED BY <2>5, <3>5, <6>1, <6>2, <6>3
        <5>x. PICK x \in Bnk!Apps : x = q BY <2>2
        <5>2. Granted(x, pl)' <=> Granted(x, pl)
          <6>1. ~(Owes(s, x)' /\ Bnk!Yes(answer'[s][2], pl))
            <7>1. CASE r = None
              <8>1. answer'[s] = answer[s] BY <2>1, <7>1
              <8> QED BY <3>3, <8>1 DEF Owes
            <7>2. CASE r # None
              <8>1. answer'[s] = <<q, r>> BY <1>t, <1>s, <2>1, <2>13, <7>2
              <8>2. answer'[s][2] = r BY <8>1
              <8> QED BY <5>1, <7>2, <8>2
            <7> QED BY <7>1, <7>2
          <6> QED BY <1>h, <1>hh, <2>7, <3>3, <6>1
        <5>3. Cardinality(GG) = Cardinality(G) BY <1>g0, <4>4, <5>x, <5>2
        <5>4. balance'[pl] = balance[pl]
          <6>1. CASE m.w0 = "WITHDRAW" /\ balance[at] >= m.w2
            <7>1. at # pl BY <2>11, <4>6, <6>1
            <7>2. balance' = [balance EXCEPT ![at] = @ - m.w2] BY <2>10, <6>1
            <7> QED BY <1>t, <1>s, <7>1, <7>2
          <6>2. CASE ~(m.w0 = "WITHDRAW" /\ balance[at] >= m.w2) BY <2>10, <3>5, <6>2
          <6> QED BY <6>1, <6>2
        <5> QED BY <1>m, <2>1, <4>3, <5>3, <5>4
      <4> QED BY <4>5, <4>6
    <3> QED BY <3>4, <3>5
  <2> QED BY <2>12, <2>13
<1>10. CASE p \in Bnk!Servers /\ Bnk!SendAnswer(p)
  <2> DEFINE q == answer[p][1]
             m == answer[p][2]
  <2>1. /\ answer[p] # None /\ slot[<<p, q>>] = None
        /\ slot' = [slot EXCEPT ![<<p, q>>] = m]
        /\ answer' = [answer EXCEPT ![p] = None]
        /\ UNCHANGED <<balance, made, taken>>
    BY <1>10 DEF Bnk!SendAnswer, Bnk!Ch!Send, Bnk!history
  <2>2. answer[p] \in Bnk!Apps \X Bnk!Message BY <1>t, <2>1
  <2>3. q \in Bnk!Apps BY <2>2
  <2>4. m = answer[p][2] /\ q = answer[p][1] OBVIOUS
  <2> HIDE DEF q, m
  <2>5. \A a \in Bnk!Apps : slot'[<<a, s>>] = slot[<<a, s>>] BY <1>t, <1>c, <1>10, <2>1
  <2>6. Cardinality(DD) = Cardinality(D) BY <1>d0, <2>5
  <2>7. ASSUME NEW a \in Bnk!Apps PROVE Granted(a, pl)' <=> Granted(a, pl)
    <3>1. CASE s # p
      <4>1. answer'[s] = answer[s] BY <1>t, <1>s, <2>1, <3>1
      <4>2. slot'[<<s, a>>] = slot[<<s, a>>] BY <1>t, <1>c, <2>1, <3>1
      <4>3. Owes(s, a)' <=> Owes(s, a) BY <4>1 DEF Owes
      <4> QED BY <1>h, <1>hh, <4>1, <4>2, <4>3
    <3>2. CASE s = p
      <4>1. answer'[s] = None BY <1>t, <1>s, <2>1, <3>2
      <4>2. ~Owes(s, a)' BY <4>1 DEF Owes
      <4>3. CASE a # q
        <5>1. slot'[<<s, a>>] = slot[<<s, a>>] BY <1>t, <1>c, <2>1, <4>3
        <5>2. ~Owes(s, a) BY <2>4, <3>2, <4>3 DEF Owes
        <5> QED BY <1>h, <1>hh, <4>2, <5>1, <5>2
      <4>4. CASE a = q
        <5>1. slot'[<<s, a>>] = m BY <1>t, <1>c, <2>1, <3>2, <4>4
        <5>2. Owes(s, a) /\ answer[s][2] = m BY <2>1, <2>4, <3>2, <4>4 DEF Owes
        <5>3. slot[<<s, a>>] = None BY <2>1, <3>2, <4>4
        <5> QED BY <1>h, <1>hh, <1>y, <4>2, <5>1, <5>2, <5>3
      <4> QED BY <4>3, <4>4
    <3> QED BY <3>1, <3>2
  <2>8. Cardinality(GG) = Cardinality(G) BY <1>g0, <2>7
  <2> QED BY <1>m, <2>1, <2>6, <2>8
<1>11. CASE Bnk!Collect(p)
  <2> DEFINE q == Bnk!Sender(next[p])
  <2>1. /\ p = 0 /\ pc[0] = "collect" /\ UNCHANGED <<answer, balance, made, taken>>
        /\ \/ UNCHANGED slot
           \/ /\ next[0] < Bnk!NumApp /\ slot[<<q, 0>>] # None
              /\ slot' = [slot EXCEPT ![<<q, 0>>] = None]
    BY <1>i, <1>11 DEF Bnk!Collect, Bnk!Ch!Receive, Bnk!channels, Bnk!history, BkStage
  <2>2. CASE UNCHANGED slot BY <1>a, <2>1, <2>2
  <2>3. CASE /\ next[0] < Bnk!NumApp /\ slot[<<q, 0>>] # None
             /\ slot' = [slot EXCEPT ![<<q, 0>>] = None]
    <3>1. q \in Bnk!Apps
      <4>1. next[0] \in 0 .. BankN /\ Bnk!NumApp \in Nat BY BkDomains, BkApps, BkFacts
      <4>2. next[0] \in 0 .. Bnk!NumApp - 1 BY <2>3, <4>1, BkFacts
      <4> QED BY <2>1, <4>2, BkApps
    <3>2. slot[<<q, 0>>].w0 = "REPORT"
      <4>1. Reported(q) /\ pc[q] \in Ending BY <2>1, <3>1, BkLeft, BkKinds DEF BkInv
      <4> QED BY <2>3, <4>1 DEF Reported
    <3> HIDE DEF q
    <3>3. \A a \in Bnk!Apps : slot'[<<s, a>>] = slot[<<s, a>>]
      BY <1>t, <1>c, <1>s, <2>3, <3>1
    <3>4. Cardinality(GG) = Cardinality(G) BY <1>g3, <2>1, <3>3
    <3>5. \A a \in Bnk!Apps : \/ slot'[<<a, s>>] = slot[<<a, s>>]
                              \/ slot[<<a, s>>].w0 = "REPORT" /\ slot'[<<a, s>>] = None
      BY <1>t, <1>c, <2>3, <3>2
    <3>6. \A a \in Bnk!Apps : Paid(slot'[<<a, s>>], pl) <=> Paid(slot[<<a, s>>], pl)
      BY <1>p, <3>5
    <3>7. Cardinality(DD) = Cardinality(D) BY <1>d0, <3>6
    <3> QED BY <1>m, <2>1, <3>4, <3>7
  <2> QED BY <2>1, <2>2, <2>3
<1> QED BY <1>1, <1>2, <1>3, <1>4, <1>6, <1>7, <1>8, <1>9, <1>10, <1>11, BkMoves

-----------------------------------------------------------------------------
(* bank: the results *)

\* A step of another program.
LEMMA BkStutters == BkInv /\ UNCHANGED bank => BkInv'
<1> SUFFICES ASSUME BkInv, UNCHANGED bank PROVE BkInv'
  OBVIOUS
<1>1. UNCHANGED <<slot, party, arrivals, departures, pc, ops, want, next, begin, balance, answer,
                  made, taken>>
  BY DEF bank
<1>2. BkTyped'
  BY <1>1 DEF BkInv, BkTyped, Bnk!TypeOK
<1>3. BkWaits' BY <1>1 DEF BkInv, BkWaits
<1>4. ASSUME NEW p \in Bnk!Procs PROVE BkStage(p)'
  BY <1>1 DEF BkInv, BkStage
<1>5. ASSUME NEW a \in Bnk!Apps, NEW s \in Bnk!Servers PROVE BkPair(a, s)'
  <2>1. BkPair(a, s) BY DEF BkInv
  <2>2. Asks(a, s)' <=> Asks(a, s) BY <1>1 DEF Asks, Acc
  <2> QED BY <1>1, <2>1, <2>2, BkPairFrame
<1>6. ASSUME NEW a \in Bnk!Apps PROVE Reported(a)'
  BY <1>1 DEF BkInv, Reported
<1>7. Bnk!Conservation'
  BY <1>1 DEF BkInv, Bnk!Conservation, Bnk!Deposits, Bnk!Grants
<1>8. ASSUME Bnk!NumApp = 1, NEW s \in Bnk!Servers PROVE Obeys(s)'
  BY <1>1, <1>8 DEF BkInv, Obeys, Told
<1> QED BY <1>2, <1>3, <1>4, <1>5, <1>6, <1>7, <1>8 DEF BkInv

LEMMA BkInvStep == BkInv /\ [ProgramsNext]_allvars => BkInv'
<1> SUFFICES ASSUME BkInv, [ProgramsNext]_allvars PROVE BkInv'
  OBVIOUS
<1>1. CASE UNCHANGED bank BY <1>1, BkStutters
<1>2. ASSUME NEW p \in Bnk!Procs, Bnk!Step(p) PROVE BkInv'
  <2>1. BkTyped' BY <1>2, BkTypedStep
  <2>2. BkWaits' BY <1>2, BkWaitsStep
  <2>3. \A r \in Bnk!Procs : BkStage(r)' BY <1>2, BkStageStep
  <2>4. \A a \in Bnk!Apps, s \in Bnk!Servers : BkPair(a, s)' BY <1>2, BkPairStep
  <2>5. \A a \in Bnk!Apps : Reported(a)' BY <1>2, ReportedStep
  <2>6. Bnk!Conservation'
    <3>1. \A pl \in Bnk!Places :
            made'[pl] = balance'[pl] + taken'[pl]
              + Cardinality(Bnk!Deposits(pl)') + Cardinality(Bnk!Grants(pl)')
      BY <1>2, MoneyStep
    <3> QED BY <3>1, BkCounts DEF Bnk!Conservation
  <2>7. ASSUME Bnk!NumApp = 1 PROVE \A s \in Bnk!Servers : Obeys(s)' BY <1>2, <2>7, ObeysStep
  <2> QED BY <2>1, <2>2, <2>3, <2>4, <2>5, <2>6, <2>7 DEF BkInv
<1>3. UNCHANGED bank \/ \E p \in Bnk!Procs : Bnk!Step(p)
  <2>1. CASE ScanNext \/ LocalNext BY <2>1 DEF ScanNext, LocalNext
  <2>2. ASSUME NEW p \in BT!Procs, Own(p)
        PROVE  UNCHANGED bank \/ (p \in Bnk!Procs /\ Bnk!Step(p))
    BY <2>2 DEF Own
  <2>3. CASE UNCHANGED allvars BY <2>3 DEF allvars
  <2> QED BY <2>1, <2>2, <2>3 DEF ProgramsNext
<1> QED BY <1>1, <1>2, <1>3

LEMMA BkAlways == ProgramsSpec => []BkInv
<1>1. ProgramsInit => BkInv BY BkInit DEF ProgramsInit
<1> QED BY <1>1, BkInvStep, PTL DEF ProgramsSpec

\* In bank money neither appears nor vanishes, with any number of servers,
\* applications and accounts, whether or not the servers share the accounts
\* evenly; when they do, no two accounts are one.  A single application, of
\* which a deposit is not answered, reads its own writes.
THEOREM BankCorrect ==
  ProgramsSpec => [](/\ Bnk!Conservation /\ Bnk!OwnPlaces
                     /\ Bnk!NumApp = 1 => BankKeepsMoney)
<1>1. BkInv => /\ Bnk!Conservation /\ Bnk!OwnPlaces
               /\ Bnk!NumApp = 1 => BankKeepsMoney
  <2> SUFFICES ASSUME BkInv, Bnk!NumApp = 1 PROVE Bnk!ReadsItsWrites
    BY BkApart DEF BkInv, BankKeepsMoney
  <2> SUFFICES ASSUME NEW p \in Bnk!Apps, pc[p] = "answer", want[p][1] = "CHECK",
                      slot[<<Bnk!get_dsl(want[p][2]), p>>] # None
               PROVE  slot[<<Bnk!get_dsl(want[p][2]), p>>].w2
                        = made[Bnk!Place(want[p][2])] - taken[Bnk!Place(want[p][2])]
    BY DEF Bnk!ReadsItsWrites
  <2> DEFINE s == Bnk!get_dsl(want[p][2])
  <2>1. BkTyped /\ BkStage(p) /\ p \in Bnk!Procs BY BkKinds DEF BkInv
  <2>2. s \in Bnk!Servers BY <2>1, BkChoices DEF BkStage, Acc
  <2>3. BkPair(p, s) BY <2>2 DEF BkInv
  <2>4. Asks(p, s) BY DEF Asks, Acc
  <2>5. Replies(slot[<<s, p>>], p) BY <2>3, <2>4 DEF BkPair
  <2> QED BY <2>5 DEF Replies, Fits, Acc
<1> QED BY <1>1, BkAlways, PTL

\* A server that has left its loop has left no message behind: in bank because
\* its single application tells it to leave last, in client_server because it
\* has counted the messages of all clients.
THEOREM NothingUnservedCorrect ==
  ProgramsSpec => [](Bnk!NumApp = 1 /\ NumMsgs > OneWay!num_dsl => NothingUnserved)
<1>1. BkInv /\ CSInv => (Bnk!NumApp = 1 /\ NumMsgs > OneWay!num_dsl => NothingUnserved)
  <2> SUFFICES ASSUME BkInv, CSInv, Bnk!NumApp = 1, NumMsgs > OneWay!num_dsl
               PROVE  NothingUnserved
    OBVIOUS
  <2>1. ASSUME NEW s \in Bnk!Servers, NEW p \in Bnk!Apps,
               pc[s] \in {"end", "collect", "stats", "term"}, slot[<<p, s>>] # None
        PROVE  slot[<<p, s>>].w0 = "REPORT"
    <3>1. p = 1 BY BkApps
    <3>2. Obeys(s) BY DEF BkInv
    <3> QED BY <2>1, <3>1, <3>2 DEF Obeys
  <2>2. ASSUME program = "client_server" PROVE OneWay!NothingUnserved
    <3>1. CSKind(OneWayDsl, FALSE) /\ OWInv(OneWayDsl) BY <2>2 DEF CSInv
    <3>2. CS(OneWayDsl, FALSE)!NothingUnserved BY <3>1, OneWayParameters, OWSafe DEF CSKind
    <3> QED BY <3>2, OneWayIs DEF OneWay!NothingUnserved, CS!NothingUnserved
  <2> QED BY <2>1, <2>2 DEF NothingUnserved, Bnk!NothingUnserved
<1> QED BY <1>1, BkAlways, CSAlways, PTL

-----------------------------------------------------------------------------
(* profiling: no time is counted twice *)

Clock(positions, w, costs, correction) == INSTANCE Profiling WITH
  Positions <- positions, W <- w, Costs <- costs, Correction <- correction

LEMMA Divided ==
  ASSUME NEW d \in Nat \ {0}, NEW a \in Int
  PROVE  /\ a \div d \in Int /\ a % d \in 0 .. d - 1
         /\ a = (a \div d) * d + (a % d) /\ (a \div d) * d \in Int
OBVIOUS

\* There is one remainder.
LEMMA Remainder ==
  ASSUME NEW d \in Nat \ {0}, NEW q \in Int, NEW r \in 0 .. d - 1, NEW a \in Int, a = q * d + r
  PROVE  a % d = r
<1> DEFINE b == a \div d
           s == a % d
           bd == b * d
           qd == q * d
           e == b - q
           ed == e * d
<1>1. b \in Int /\ s \in 0 .. d - 1 /\ a = bd + s /\ bd \in Int BY Divided
<1>2. qd \in Int OBVIOUS
<1>3. bd - qd = ed
  <2>1. \A x, y \in Int : x * d - y * d = (x - y) * d OBVIOUS
  <2> HIDE DEF b
  <2> QED BY <1>1, <2>1
<1>4. e \in Int BY <1>1
<1>5. (e >= 1 => ed >= d) /\ (e <= 0 - 1 => ed <= 0 - d)
  <2> HIDE DEF e
  <2> QED BY <1>4
<1> HIDE DEF b, s, bd, qd, ed, e
<1>6. ed = r - s BY <1>1, <1>2, <1>3 DEF qd
<1>7. e = 0 BY <1>1, <1>4, <1>5, <1>6
<1>8. b = q BY <1>1, <1>7 DEF e
<1>9. bd = qd BY <1>8 DEF bd, qd
<1>10. s = r BY <1>1, <1>2, <1>9 DEF qd
<1> QED BY <1>10 DEF s

LEMMA RemainderGoesOn ==
  ASSUME NEW d \in Nat \ {0}, NEW a \in Int, NEW b \in Int
  PROVE  ((a % d) + b) % d = (a + b) % d
<1> DEFINE q == a \div d
           r == a % d
           c == r + b
           t == c \div d
           u == c % d
<1>1. q \in Int /\ r \in 0 .. d - 1 /\ a = q * d + r /\ q * d \in Int BY Divided
<1>2. c \in Int BY <1>1
<1>3. t \in Int /\ u \in 0 .. d - 1 /\ c = t * d + u /\ t * d \in Int
  <2> HIDE DEF c
  <2> QED BY <1>2, Divided
<1> HIDE DEF q, r, t, u
<1>4. a + b = q * d + (t * d + u) BY <1>1, <1>3
<1>5. (q + t) * d = q * d + t * d BY <1>1, <1>3
<1>6. a + b = (q + t) * d + u BY <1>1, <1>3, <1>4, <1>5
<1>7. (a + b) % d = u
  <2>1. q + t \in Int /\ a + b \in Int BY <1>1, <1>3
  <2> QED BY <1>3, <1>6, <2>1, Remainder
<1> QED BY <1>7 DEF u, c, r

\* The time that was counted for position i, with the correction put back: it
\* is over, and over before what is now being measured began.
Counted(w, correction, i) == (sum[i] + stops[i] * correction) % 2^w

ClockInv(positions, w, costs, correction) ==
  /\ Clock(positions, w, costs, correction)!TypeOK
  /\ \A i \in positions :
       /\ entry[i] <= now /\ samples[i] <= now /\ stops[i] <= now
       /\ Counted(w, correction, i) <= now
       /\ i \in valid => Counted(w, correction, i) <= entry[i]

LEMMA ClockFacts ==
  ASSUME NEW positions, NEW w, NEW costs, NEW correction,
         Clock(positions, w, costs, correction)!Parameters
  PROVE  /\ costs \subseteq Nat \ {0} /\ correction \in Nat /\ MaxNow \in Nat
         /\ 2^w \in Nat \ {0} /\ MaxNow < 2^w
         /\ Clock(positions, w, costs, correction)!Word = 0 .. 2^w - 1
<1>1. /\ costs \subseteq Nat \ {0} /\ correction \in Nat /\ w \in Nat
      /\ MaxNow \in Clock(positions, w, costs, correction)!Word
  BY DEF Clock!Parameters
<1>2. Clock(positions, w, costs, correction)!Word = 0 .. 2^w - 1 BY DEF Clock!Word
<1>3. 2^w \in Int BY <1>1
<1> QED BY <1>1, <1>2, <1>3

\* Time b added to a sum modulo M, once q has been subtracted from it and put
\* back: the sum wraps, the time counted does not.
LEMMA SectionAdded ==
  ASSUME NEW M \in Nat \ {0}, NEW a \in Nat, NEW b \in Nat, NEW q \in Nat,
         (a % M) + b < M
  PROVE  (((a + b - q) % M) + q) % M = (a % M) + b
<1> DEFINE k == a + b - q
           r == a % M
<1>1. k \in Int /\ k + q = a + b OBVIOUS
<1>2. ((k % M) + q) % M = (k + q) % M
  <2>1. k \in Int /\ q \in Int OBVIOUS
  <2> HIDE DEF k
  <2> QED BY <2>1, RemainderGoesOn
<1>3. (r + b) % M = (a + b) % M
  <2>1. a \in Int /\ b \in Int OBVIOUS
  <2> QED BY <2>1, RemainderGoesOn
<1>4. (r + b) % M = r + b
  <2>1. r \in Nat OBVIOUS
  <2> DEFINE x == r + b
  <2>2. x \in Nat /\ x < M BY <2>1
  <2> HIDE DEF x
  <2>3. x % M = x BY <2>2
  <2> QED BY <2>3 DEF x
<1> HIDE DEF k, r
<1>5. ((k % M) + q) % M = r + b BY <1>1, <1>2, <1>3, <1>4
<1> QED BY <1>5 DEF k, r

LEMMA ClockInit ==
  ASSUME NEW positions, NEW w, NEW costs, NEW correction,
         Clock(positions, w, costs, correction)!Parameters,
         Clock(positions, w, costs, correction)!Init
  PROVE  ClockInv(positions, w, costs, correction)
<1>1. /\ now = 0 /\ valid = {}
      /\ entry = [i \in positions |-> 0] /\ sum = [i \in positions |-> 0]
      /\ samples = [i \in positions |-> 0] /\ stops = [i \in positions |-> 0]
  BY DEF Clock!Init, Clock!Zeros
<1>2. MaxNow \in Nat /\ 2^w \in Nat \ {0} /\ correction \in Nat
      /\ Clock(positions, w, costs, correction)!Word = 0 .. 2^w - 1
  BY ClockFacts
<1>3. Clock(positions, w, costs, correction)!TypeOK BY <1>1, <1>2 DEF Clock!TypeOK
<1>4. ASSUME NEW i \in positions PROVE Counted(w, correction, i) = 0
  <2>1. sum[i] + stops[i] * correction = 0 BY <1>1, <1>2
  <2>2. 0 % 2^w = 0 BY <1>2
  <2> QED BY <2>1, <2>2 DEF Counted
<1> QED BY <1>1, <1>3, <1>4 DEF ClockInv

LEMMA ClockStep ==
  ASSUME NEW positions, NEW w, NEW costs, NEW correction,
         Clock(positions, w, costs, correction)!Parameters,
         ClockInv(positions, w, costs, correction),
         Clock(positions, w, costs, correction)!Next
  PROVE  ClockInv(positions, w, costs, correction)'
<1> DEFINE M == 2^w
           c == correction
<1>f. /\ costs \subseteq Nat \ {0} /\ c \in Nat /\ MaxNow \in Nat
      /\ M \in Nat \ {0} /\ MaxNow < M
      /\ Clock(positions, w, costs, correction)!Word = 0 .. M - 1
  BY ClockFacts
<1>t. /\ now \in 0 .. MaxNow /\ entry \in [positions -> 0 .. MaxNow] /\ valid \subseteq positions
      /\ sum \in [positions -> 0 .. M - 1] /\ samples \in [positions -> 0 .. MaxNow]
      /\ stops \in [positions -> 0 .. MaxNow]
  BY <1>f DEF ClockInv, Clock!TypeOK
<1>i. ASSUME NEW i \in positions
      PROVE  /\ entry[i] <= now /\ samples[i] <= now /\ stops[i] <= now
             /\ Counted(w, correction, i) <= now
             /\ i \in valid => Counted(w, correction, i) <= entry[i]
             /\ Counted(w, correction, i) = (sum[i] + stops[i] * c) % M
             /\ entry[i] \in Nat /\ samples[i] \in Nat /\ stops[i] \in Nat /\ sum[i] \in Nat
             /\ now \in Nat /\ Counted(w, correction, i) \in Nat
  <2>1. /\ entry[i] <= now /\ samples[i] <= now /\ stops[i] <= now
        /\ Counted(w, correction, i) <= now
        /\ i \in valid => Counted(w, correction, i) <= entry[i]
    BY DEF ClockInv
  <2>2. Counted(w, correction, i) = (sum[i] + stops[i] * c) % M BY DEF Counted
  <2> HIDE DEF M, c
  <2>3. entry[i] \in Nat /\ samples[i] \in Nat /\ stops[i] \in Nat /\ sum[i] \in Nat /\ now \in Nat
    BY <1>f, <1>t
  <2>4. stops[i] * c \in Nat BY <1>f, <2>3
  <2>5. (sum[i] + stops[i] * c) % M \in Nat
    <3>1. sum[i] + stops[i] * c \in Nat BY <2>3, <2>4
    <3> QED BY <1>f, <3>1
  <2> QED BY <2>1, <2>2, <2>3, <2>5
<1>a. ASSUME /\ now' \in 0 .. MaxNow /\ entry' \in [positions -> 0 .. MaxNow]
             /\ valid' \subseteq positions /\ sum' \in [positions -> 0 .. M - 1]
             /\ samples' \in [positions -> 0 .. MaxNow] /\ stops' \in [positions -> 0 .. MaxNow],
             \A i \in positions :
               /\ entry'[i] <= now' /\ samples'[i] <= now' /\ stops'[i] <= now'
               /\ Counted(w, correction, i)' <= now'
               /\ i \in valid' => Counted(w, correction, i)' <= entry'[i]
      PROVE  ClockInv(positions, w, costs, correction)'
  BY <1>a, <1>f DEF ClockInv, Clock!TypeOK
<1>n. ASSUME NEW i, sum'[i] = sum[i], stops'[i] = stops[i]
      PROVE  Counted(w, correction, i)' = Counted(w, correction, i)
  BY <1>n DEF Counted
<1> HIDE DEF M, c
<1>r. ASSUME Clock(positions, w, costs, correction)!Read
      PROVE  now' \in Nat /\ now' >= now + 1 /\ now' <= MaxNow
  <2>1. PICK x \in costs : now + x <= MaxNow /\ now' = now + x BY <1>r DEF Clock!Read
  <2>2. x \in Nat /\ x >= 1 BY <1>f
  <2> QED BY <1>f, <1>t, <2>1, <2>2
<1>1. CASE Clock(positions, w, costs, correction)!Work
  <2>1. now < MaxNow /\ now' = now + 1 /\ UNCHANGED <<entry, valid, sum, samples, stops>>
    BY <1>1 DEF Clock!Work
  <2>2. now' \in 0 .. MaxNow /\ now' >= now BY <1>f, <1>t, <2>1
  <2>3. ASSUME NEW i \in positions
        PROVE  /\ entry'[i] <= now' /\ samples'[i] <= now' /\ stops'[i] <= now'
               /\ Counted(w, correction, i)' <= now'
               /\ i \in valid' => Counted(w, correction, i)' <= entry'[i]
    <3>1. Counted(w, correction, i)' = Counted(w, correction, i) BY <1>n, <2>1
    <3> QED BY <1>i, <2>1, <2>2, <3>1
  <2> QED BY <1>a, <1>t, <2>1, <2>2, <2>3
<1>2. ASSUME NEW j \in positions, Clock(positions, w, costs, correction)!EntryTime(j)
      PROVE  ClockInv(positions, w, costs, correction)'
  <2>1. /\ entry' = [entry EXCEPT ![j] = now'] /\ valid' = valid \cup {j}
        /\ UNCHANGED <<sum, samples, stops>>
    BY <1>2 DEF Clock!EntryTime
  <2>2. now' \in Nat /\ now' >= now + 1 /\ now' <= MaxNow BY <1>r, <1>2 DEF Clock!EntryTime
  <2>3. now' \in 0 .. MaxNow BY <1>f, <2>2
  <2>4. entry' \in [positions -> 0 .. MaxNow] BY <1>t, <2>1, <2>3
  <2>5. ASSUME NEW i \in positions
        PROVE  /\ entry'[i] <= now' /\ samples'[i] <= now' /\ stops'[i] <= now'
               /\ Counted(w, correction, i)' <= now'
               /\ i \in valid' => Counted(w, correction, i)' <= entry'[i]
    <3>1. Counted(w, correction, i)' = Counted(w, correction, i) BY <1>n, <2>1
    <3>2. entry'[i] = IF i = j THEN now' ELSE entry[i] BY <1>t, <2>1
    <3>3. i \in valid' => i = j \/ i \in valid BY <2>1
    <3> QED BY <1>i, <2>1, <2>2, <3>1, <3>2, <3>3
  <2> QED BY <1>a, <1>t, <2>1, <2>3, <2>4, <2>5
<1>3. ASSUME NEW j \in positions, Clock(positions, w, costs, correction)!ExitTime(j)
      PROVE  ClockInv(positions, w, costs, correction)'
  <2>1. UNCHANGED entry /\ valid' = valid \ {j} BY <1>3 DEF Clock!ExitTime
  <2>2. now' \in Nat /\ now' >= now + 1 /\ now' <= MaxNow BY <1>r, <1>3 DEF Clock!ExitTime
  <2>3. now' \in 0 .. MaxNow BY <1>f, <2>2
  <2>4. CASE j \notin valid
    <3>1. UNCHANGED <<sum, samples, stops>> BY <1>3, <2>4 DEF Clock!ExitTime
    <3>2. ASSUME NEW i \in positions
          PROVE  /\ entry'[i] <= now' /\ samples'[i] <= now' /\ stops'[i] <= now'
                 /\ Counted(w, correction, i)' <= now'
                 /\ i \in valid' => Counted(w, correction, i)' <= entry'[i]
      <4>1. Counted(w, correction, i)' = Counted(w, correction, i) BY <1>n, <3>1
      <4> QED BY <1>i, <2>1, <2>2, <3>1, <4>1
    <3>3. valid' \subseteq positions BY <1>t, <2>1
    <3> QED BY <1>a, <1>t, <2>1, <2>3, <3>1, <3>2, <3>3
  <2>5. CASE j \in valid
    <3> DEFINE k == sum[j] + now' - entry[j] - correction
    <3>1. /\ sum' = [sum EXCEPT ![j] = k % M]
          /\ samples' = [samples EXCEPT ![j] = @ + 1]
          /\ stops' = [stops EXCEPT ![j] = @ + 1]
      BY <1>3, <2>5 DEF Clock!ExitTime, Clock!Add, M
    <3>2. k \in Int BY <1>f, <1>i, <2>2 DEF c
    <3>3. k % M \in 0 .. M - 1
      <4> HIDE DEF k
      <4> QED BY <1>f, <3>2
    <3>4. sum' \in [positions -> 0 .. M - 1] BY <1>t, <3>1, <3>3
    <3>5. samples[j] + 1 \in 0 .. MaxNow /\ stops[j] + 1 \in 0 .. MaxNow BY <1>f, <1>i, <2>2
    <3>6. samples' \in [positions -> 0 .. MaxNow] /\ stops' \in [positions -> 0 .. MaxNow]
      BY <1>t, <3>1, <3>5
    <3>7. Counted(w, correction, j)' <= now'
      <4> DEFINE sc == stops[j] * c
      <4>1. sc \in Nat /\ (stops[j] + 1) * c = sc + c BY <1>f, <1>i
      <4>2. sum'[j] = k % M /\ stops'[j] = stops[j] + 1 BY <1>t, <3>1
      <4>3. Counted(w, correction, j)' = ((k % M) + (stops[j] + 1) * c) % M
        BY <4>2 DEF Counted, M, c
      <4>4. k = sum[j] + now' - entry[j] - c BY DEF c
      <4>5. Counted(w, correction, j) = (sum[j] + sc) % M /\ (sum[j] + sc) % M <= entry[j]
        BY <1>i, <2>5
      <4> HIDE DEF sc, k
      <4>6. now' < M /\ entry[j] <= now' /\ now' \in Nat BY <1>f, <1>i, <2>2
      <4>7. ((k % M) + (sc + c)) % M <= now'
        <5> DEFINE old == sum[j] + sc
                   time == now' - entry[j]
                   put == sc + c
                   r == old % M
        <5>0. entry[j] \in Nat /\ sum[j] \in Nat /\ sc \in Nat BY <1>i, <4>1
        <5>1. old \in Nat /\ time \in Nat /\ put \in Nat /\ k = old + time - put
          <6>1. c \in Nat /\ now' \in Nat BY <1>f, <4>6
          <6>2. time \in Nat BY <4>6, <5>0
          <6>3. old \in Nat /\ put \in Nat BY <5>0, <6>1
          <6>4. k = old + time - put BY <4>4, <5>0, <6>1
          <6> QED BY <6>2, <6>3, <6>4
        <5>2. r \in Nat /\ r <= entry[j] BY <1>i, <4>5
        <5> HIDE DEF r
        <5>3. r + time <= now' /\ r + time < M BY <1>f, <4>6, <5>0, <5>2
        <5> HIDE DEF old, time, put
        <5>4. (((old + time - put) % M) + put) % M = (old % M) + time
          BY <1>f, <5>1, <5>3, SectionAdded DEF r
        <5>5. ((k % M) + put) % M = r + time BY <5>1, <5>4 DEF r
        <5> QED BY <5>3, <5>5 DEF put
      <4> QED BY <4>1, <4>3, <4>7
    <3>8. ASSUME NEW i \in positions
          PROVE  /\ entry'[i] <= now' /\ samples'[i] <= now' /\ stops'[i] <= now'
                 /\ Counted(w, correction, i)' <= now'
                 /\ i \in valid' => Counted(w, correction, i)' <= entry'[i]
      <4>1. CASE i = j
        <5>1. samples'[j] = samples[j] + 1 /\ stops'[j] = stops[j] + 1 BY <1>t, <3>1
        <5> QED BY <1>i, <2>1, <2>2, <3>7, <4>1, <5>1
      <4>2. CASE i # j
        <5>1. sum'[i] = sum[i] /\ stops'[i] = stops[i] /\ samples'[i] = samples[i]
          BY <1>t, <3>1, <4>2
        <5>2. Counted(w, correction, i)' = Counted(w, correction, i) BY <1>n, <5>1
        <5> QED BY <1>i, <2>1, <2>2, <5>1, <5>2
      <4> QED BY <4>1, <4>2
    <3>9. valid' \subseteq positions BY <1>t, <2>1
    <3> QED BY <1>a, <1>t, <2>1, <2>3, <3>4, <3>6, <3>8, <3>9
  <2> QED BY <2>4, <2>5
<1>4. ASSUME NEW j \in positions, Clock(positions, w, costs, correction)!ExcludeEntry(j)
      PROVE  ClockInv(positions, w, costs, correction)'
  <2>1. samples' = [samples EXCEPT ![j] = 0] /\ UNCHANGED <<now, entry, valid, sum, stops>>
    BY <1>4 DEF Clock!ExcludeEntry
  <2>2. samples' \in [positions -> 0 .. MaxNow] BY <1>f, <1>t, <2>1
  <2>3. ASSUME NEW i \in positions
        PROVE  /\ entry'[i] <= now' /\ samples'[i] <= now' /\ stops'[i] <= now'
               /\ Counted(w, correction, i)' <= now'
               /\ i \in valid' => Counted(w, correction, i)' <= entry'[i]
    <3>1. Counted(w, correction, i)' = Counted(w, correction, i) BY <1>n, <2>1
    <3>2. samples'[i] = IF i = j THEN 0 ELSE samples[i] BY <1>t, <2>1
    <3> QED BY <1>i, <2>1, <3>1, <3>2
  <2> QED BY <1>a, <1>t, <2>1, <2>2, <2>3
<1> QED BY <1>1, <1>2, <1>3, <1>4 DEF Clock!Next

LEMMA ProfParameters == Clock({0, 1}, 4, {1, 2, 3}, 2)!Parameters
BY Instances DEF Prof!Parameters, Prof!Word, Clock!Parameters, Clock!Word

LEMMA ProfInvInit == ProgramsInit => ClockInv({0, 1}, 4, {1, 2, 3}, 2)
<1> SUFFICES ASSUME ProgramsInit PROVE ClockInv({0, 1}, 4, {1, 2, 3}, 2) OBVIOUS
<1>1. Clock({0, 1}, 4, {1, 2, 3}, 2)!Init
  BY DEF ProgramsInit, Prof!Init, Prof!Zeros, Clock!Init, Clock!Zeros
<1> QED BY <1>1, ProfParameters, ClockInit

LEMMA ProfSteps == Prof!Next => Clock({0, 1}, 4, {1, 2, 3}, 2)!Next
<1>1. Prof!Read => Clock({0, 1}, 4, {1, 2, 3}, 2)!Read BY DEF Prof!Read, Clock!Read
<1>2. \A i : Prof!Add(i) => Clock({0, 1}, 4, {1, 2, 3}, 2)!Add(i) BY DEF Prof!Add, Clock!Add
<1>3. \A i : Prof!EntryTime(i) => Clock({0, 1}, 4, {1, 2, 3}, 2)!EntryTime(i)
  BY <1>1 DEF Prof!EntryTime, Clock!EntryTime
<1>4. \A i : Prof!ExitTime(i) => Clock({0, 1}, 4, {1, 2, 3}, 2)!ExitTime(i)
  BY <1>1, <1>2 DEF Prof!ExitTime, Clock!ExitTime
<1>5. \A i : Prof!ExcludeEntry(i) => Clock({0, 1}, 4, {1, 2, 3}, 2)!ExcludeEntry(i)
  BY DEF Prof!ExcludeEntry, Clock!ExcludeEntry
<1>6. Prof!Work => Clock({0, 1}, 4, {1, 2, 3}, 2)!Work BY DEF Prof!Work, Clock!Work
<1> QED BY <1>3, <1>4, <1>5, <1>6 DEF Prof!Next, Clock!Next

LEMMA ProfInvStep ==
  ClockInv({0, 1}, 4, {1, 2, 3}, 2) /\ [ProgramsNext]_allvars
    => ClockInv({0, 1}, 4, {1, 2, 3}, 2)'
<1> SUFFICES ASSUME ClockInv({0, 1}, 4, {1, 2, 3}, 2), [ProgramsNext]_allvars
             PROVE  ClockInv({0, 1}, 4, {1, 2, 3}, 2)'
  OBVIOUS
<1>1. CASE UNCHANGED pf
  BY <1>1 DEF pf, ClockInv, Counted, Clock!TypeOK, Clock!Word
<1>2. CASE Prof!Next BY <1>2, ProfParameters, ProfSteps, ClockStep
<1>3. UNCHANGED pf \/ Prof!Next
  <2>1. CASE ScanNext BY <2>1 DEF ScanNext
  <2>2. CASE LocalNext BY <2>2 DEF LocalNext
  <2>3. ASSUME NEW p \in BT!Procs, Own(p) PROVE UNCHANGED pf BY <2>3 DEF Own
  <2>4. CASE UNCHANGED allvars BY <2>4 DEF allvars
  <2> QED BY <2>1, <2>2, <2>3, <2>4 DEF ProgramsNext
<1> QED BY <1>1, <1>2, <1>3

LEMMA ProfAlways == ProgramsSpec => []ClockInv({0, 1}, 4, {1, 2, 3}, 2)
BY ProfInvInit, ProfInvStep, PTL DEF ProgramsSpec

LEMMA ProfSafe == ClockInv({0, 1}, 4, {1, 2, 3}, 2) => Prof!TypeOK /\ Prof!NoTimeTwice
<1> SUFFICES ASSUME ClockInv({0, 1}, 4, {1, 2, 3}, 2) PROVE Prof!TypeOK /\ Prof!NoTimeTwice
  OBVIOUS
<1>1. Prof!TypeOK BY DEF ClockInv, Clock!TypeOK, Clock!Word, Prof!TypeOK, Prof!Word
<1>2. Prof!NoTimeTwice BY DEF ClockInv, Counted, Prof!NoTimeTwice
<1> QED BY <1>1, <1>2

-----------------------------------------------------------------------------
(* helpers: a core for every process, ten cores to a socket *)

LEMMA NiagaraApart ==
  ASSUME NEW p \in 0 .. 63
  PROVE  /\ Hlp!niagara(p) \in 0 .. 63
         /\ \A q \in 0 .. 63 : Hlp!niagara(q) = Hlp!niagara(p) => q = p
<1>1. ASSUME NEW x \in 0 .. 63
      PROVE  /\ x < 8 => Hlp!niagara(x) = 8 * x
             /\ x > 56 => Hlp!niagara(x) = x - 56
             /\ x \in 8 .. 56 => \E a, b \in 0 .. 6 : /\ x = 8 + 7 * b + a
                                                     /\ Hlp!niagara(x) = 9 + 8 * a + b
  <2>1. x < 8 => Hlp!niagara(x) = 8 * x BY DEF Hlp!niagara
  <2>2. x > 56 => Hlp!niagara(x) = x - 56 BY DEF Hlp!niagara
  <2>3. ASSUME x \in 8 .. 56
        PROVE  \E a, b \in 0 .. 6 : x = 8 + 7 * b + a /\ Hlp!niagara(x) = 9 + 8 * a + b
    <3> DEFINE a == (x - 8) % 7
               b == (x - 8) \div 7
    <3>1. a \in 0 .. 6 /\ b \in 0 .. 6 /\ x = 8 + 7 * b + a BY <2>3
    <3>2. Hlp!niagara(x) = 9 + 8 * a + b BY <2>3 DEF Hlp!niagara
    <3> QED BY <3>1, <3>2
  <2> QED BY <2>1, <2>2, <2>3
<1>2. Hlp!niagara(p) \in 0 .. 63 BY <1>1
<1>3. ASSUME NEW q \in 0 .. 63, Hlp!niagara(q) = Hlp!niagara(p) PROVE q = p
  <2>1. CASE p \in 8 .. 56 /\ q \in 8 .. 56
    <3>1. PICK a, b \in 0 .. 6 : p = 8 + 7 * b + a /\ Hlp!niagara(p) = 9 + 8 * a + b
      BY <1>1, <2>1
    <3>2. PICK e, f \in 0 .. 6 : q = 8 + 7 * f + e /\ Hlp!niagara(q) = 9 + 8 * e + f
      BY <1>1, <2>1
    <3> QED BY <1>3, <3>1, <3>2
  <2>2. CASE p \in 8 .. 56 /\ q \notin 8 .. 56
    <3>1. PICK a, b \in 0 .. 6 : p = 8 + 7 * b + a /\ Hlp!niagara(p) = 9 + 8 * a + b
      BY <1>1, <2>2
    <3> QED BY <1>1, <1>3, <2>2, <3>1
  <2>3. CASE p \notin 8 .. 56 /\ q \in 8 .. 56
    <3>1. PICK a, b \in 0 .. 6 : q = 8 + 7 * b + a /\ Hlp!niagara(q) = 9 + 8 * a + b
      BY <1>1, <2>3
    <3> QED BY <1>1, <1>3, <2>3, <3>1
  <2>4. CASE p \notin 8 .. 56 /\ q \notin 8 .. 56 BY <1>1, <1>3, <2>4
  <2> QED BY <2>1, <2>2, <2>3, <2>4
<1> QED BY <1>2, <1>3

LEMMA CoresApart ==
  ASSUME NEW platform \in Hlp!Platforms, NEW p \in Hlp!Ids(platform)
  PROVE  /\ Hlp!id_to_core(platform, p) \in Hlp!Ids(platform)
         /\ \A q \in Hlp!Ids(platform) :
              Hlp!id_to_core(platform, q) = Hlp!id_to_core(platform, p) => q = p
<1>1. CASE platform = "niagara"
  <2>1. /\ Hlp!Ids(platform) = 0 .. 63
        /\ \A x : Hlp!id_to_core(platform, x) = Hlp!niagara(x)
    BY <1>1 DEF Hlp!Ids, Hlp!id_to_core
  <2> QED BY <2>1, NiagaraApart
<1>2. CASE platform = "xeon"
  BY <1>2 DEF Hlp!Ids, Hlp!id_to_core, Hlp!xeon
<1>3. CASE platform \notin {"niagara", "xeon"}
  BY <1>3 DEF Hlp!id_to_core
<1> QED BY <1>1, <1>2, <1>3

LEMMA TensOnASocket ==
  ASSUME NEW p \in 0 .. 79
  PROVE  Hlp!id_to_node(Hlp!xeon(p)) = p \div 10
BY DEF Hlp!id_to_node, Hlp!xeon

\* A recursion up to L: g begins with a, and f gives g[n] from the one before.
Steps(L, S, a, f) == L \in Nat /\ a \in S /\ f \in [(1 .. L) \X S -> S]
Follows(g, L, S, a, f) == /\ g \in [0 .. L -> S] /\ g[0] = a
                          /\ \A n \in 1 .. L : g[n] = f[<<n, g[n - 1]>>]

\* What is defined by recursion is defined.
LEMMA Recursion ==
  ASSUME NEW L, NEW S, NEW a, NEW f, Steps(L, S, a, f)
  PROVE  \E g : Follows(g, L, S, a, f)
<1> USE DEF Steps, Follows
<1> DEFINE Is(g, m) == /\ g \in [0 .. m -> S] /\ g[0] = a
                       /\ \A n \in 1 .. m : g[n] = f[<<n, g[n - 1]>>]
           Bad == {m \in 0 .. L : ~ \E g : Is(g, m)}
<1>1. CASE Bad = {}
  <2>1. L \notin Bad BY <1>1
  <2>2. \E g : Is(g, L) BY <2>1
  <2> QED BY <2>2
<1>2. CASE Bad # {}
  <2>1. PICK m \in Bad : \A k \in Bad : m <= k
    <3>1. Bad \in SUBSET Nat OBVIOUS
    <3> HIDE DEF Bad
    <3> QED BY <1>2, <3>1, Least
  <2>2. m \in 0 .. L /\ ~ \E g : Is(g, m) BY <2>1
  <2>3. m # 0
    <3>1. Is([n \in 0 .. 0 |-> a], 0) OBVIOUS
    <3> QED BY <2>2, <3>1
  <2>4. m - 1 \in 0 .. L /\ m \in 1 .. L BY <2>2, <2>3
  <2>5. m - 1 \notin Bad BY <2>1, <2>4
  <2>6. PICK g : Is(g, m - 1) BY <2>4, <2>5
  <2> DEFINE h == [n \in 0 .. m |-> IF n = m THEN f[<<m, g[m - 1]>>] ELSE g[n]]
  <2>7. g[m - 1] \in S BY <2>4, <2>6
  <2>8. h \in [0 .. m -> S]
    <3>1. f[<<m, g[m - 1]>>] \in S BY <2>4, <2>7
    <3>2. ASSUME NEW n \in 0 .. m, n # m PROVE g[n] \in S
      <4>1. n \in 0 .. m - 1 BY <3>2, <2>4
      <4> QED BY <4>1, <2>6
    <3> QED BY <3>1, <3>2
  <2>9. h[0] = a BY <2>4, <2>6
  <2>10. ASSUME NEW n \in 1 .. m PROVE h[n] = f[<<n, h[n - 1]>>]
    <3>1. n - 1 \in 0 .. m /\ n - 1 # m BY <2>4
    <3>2. h[n - 1] = g[n - 1] BY <3>1
    <3>3. CASE n = m
      <4>1. h[m] = f[<<m, g[m - 1]>>] BY <2>4
      <4> QED BY <4>1, <3>2, <3>3
    <3>4. CASE n # m
      <4>1. n \in 1 .. m - 1 BY <3>4, <2>4
      <4>2. h[n] = g[n] BY <3>4
      <4> QED BY <4>1, <4>2, <3>2, <2>6
    <3> QED BY <3>3, <3>4
  <2>11. Is(h, m) BY <2>8, <2>9, <2>10
  <2> QED BY <2>2, <2>11
<1> QED BY <1>1, <1>2

\* Powers of two double, and grow.
LEMMA Powers ==
  ASSUME W \in Nat
  PROVE  /\ Hlp!pow2 \in [0 .. W -> Nat] /\ Hlp!pow2[0] = 1
         /\ \A n \in 1 .. W : Hlp!pow2[n] = 2 * Hlp!pow2[n - 1]
<1> DEFINE f == [x \in (1 .. W) \X Nat |-> 2 * x[2]]
<1>1. f \in [(1 .. W) \X Nat -> Nat] OBVIOUS
<1>2. PICK g : Follows(g, W, Nat, 1, f)
  <2>1. Steps(W, Nat, 1, f) BY <1>1 DEF Steps
  <2> HIDE DEF f
  <2> QED BY <2>1, Recursion
<1>3. ASSUME NEW n \in 1 .. W PROVE g[n] = 2 * g[n - 1]
  <2>1. n - 1 \in 0 .. W OBVIOUS
  <2>2. <<n, g[n - 1]>> \in (1 .. W) \X Nat BY <1>2, <2>1 DEF Follows
  <2> QED BY <1>2, <2>2 DEF Follows
<1>4. g = [n \in 0 .. W |-> IF n = 0 THEN 1 ELSE 2 * g[n - 1]]
  BY <1>2, <1>3 DEF Follows
<1>5. Hlp!pow2 = [n \in 0 .. W |-> IF n = 0 THEN 1 ELSE 2 * Hlp!pow2[n - 1]]
  BY <1>4 DEF Hlp!pow2
<1>6. 0 \in 0 .. W /\ \A n \in 1 .. W : n \in 0 .. W /\ n # 0 OBVIOUS
<1>7. Hlp!pow2[0] = 1 /\ \A n \in 1 .. W : Hlp!pow2[n] = 2 * Hlp!pow2[n - 1]
  BY <1>5, <1>6
<1>8. Hlp!pow2 \in [0 .. W -> Nat]
  <2> DEFINE Bad == {n \in 0 .. W : Hlp!pow2[n] \notin Nat}
  <2>1. CASE Bad # {}
    <3>1. PICK n \in Bad : \A k \in Bad : n <= k
      <4>1. Bad \in SUBSET Nat OBVIOUS
      <4> HIDE DEF Bad
      <4> QED BY <2>1, <4>1, Least
    <3>2. n \in 1 .. W /\ n - 1 \in 0 .. W BY <1>7
    <3>3. n - 1 \notin Bad BY <3>1, <3>2
    <3> QED BY <1>7, <3>2, <3>3
  <2>2. CASE Bad = {}
    <3>1. \A n \in 0 .. W : Hlp!pow2[n] \in Nat BY <2>2
    <3> QED BY <1>5, <3>1
  <2> QED BY <2>1, <2>2
<1> QED BY <1>7, <1>8

LEMMA PowersGrow ==
  ASSUME W \in Nat
  PROVE  /\ \A n \in 0 .. W : Hlp!pow2[n] > 0
         /\ \A m, n \in 0 .. W : m < n => 2 * Hlp!pow2[m] <= Hlp!pow2[n]
<1> DEFINE p == Hlp!pow2
<1>p. /\ p \in [0 .. W -> Nat] /\ p[0] = 1
      /\ \A n \in 1 .. W : p[n] = 2 * p[n - 1]
  BY Powers
<1> HIDE DEF p
<1>1. \A n \in 0 .. W : p[n] > 0
  <2> DEFINE Bad == {n \in 0 .. W : ~ p[n] > 0}
  <2>1. CASE Bad # {}
    <3>1. PICK n \in Bad : \A k \in Bad : n <= k
      <4>1. Bad \in SUBSET Nat OBVIOUS
      <4> HIDE DEF Bad
      <4> QED BY <2>1, <4>1, Least
    <3>2. n \in 1 .. W /\ n - 1 \in 0 .. W BY <1>p
    <3>3. n - 1 \notin Bad BY <3>1, <3>2
    <3>4. p[n - 1] > 0 /\ p[n - 1] \in Nat /\ p[n] = 2 * p[n - 1] BY <1>p, <3>2, <3>3
    <3> QED BY <3>1, <3>4
  <2>2. CASE Bad = {} BY <2>2
  <2> QED BY <2>1, <2>2
<1>2. ASSUME NEW m \in 0 .. W, NEW n \in 0 .. W, m < n PROVE 2 * p[m] <= p[n]
  <2> DEFINE Bad == {k \in m + 1 .. W : ~ 2 * p[m] <= p[k]}
  <2>1. CASE Bad # {}
    <3>1. PICK k \in Bad : \A j \in Bad : k <= j
      <4>1. Bad \in SUBSET Nat OBVIOUS
      <4> HIDE DEF Bad
      <4> QED BY <2>1, <4>1, Least
    <3>2. k \in 1 .. W /\ k - 1 \in m .. W /\ k - 1 \in 0 .. W OBVIOUS
    <3>3. p[k] = 2 * p[k - 1] /\ p[k - 1] \in Nat /\ p[m] \in Nat BY <1>p, <3>2
    <3>4. CASE k - 1 = m BY <3>1, <3>3, <3>4
    <3>5. CASE k - 1 # m
      <4>1. k - 1 \in m + 1 .. W BY <3>2, <3>5
      <4>2. k - 1 \notin Bad BY <3>1, <4>1
      <4>3. 2 * p[m] <= p[k - 1] BY <4>1, <4>2
      <4> QED BY <3>1, <3>3, <4>3
    <3> QED BY <3>4, <3>5
  <2>2. CASE Bad = {}
    <3>1. n \in m + 1 .. W BY <1>2
    <3> QED BY <2>2, <3>1
  <2> QED BY <2>1, <2>2
<1> QED BY <1>1, <1>2 DEF p

\* The lowest m bits make the number before the m-th power of two.
LEMMA LowBits ==
  ASSUME W \in Nat, NEW m \in 0 .. W
  PROVE  Hlp!Word(0 .. m - 1) = Hlp!pow2[m] - 1
<1> DEFINE p == Hlp!pow2
           bits == 0 .. m - 1
           total[n \in 0 .. W] ==
             IF n = 0 THEN 0 ELSE total[n - 1] + (IF n - 1 \in bits THEN p[n - 1] ELSE 0)
           f == [x \in (1 .. W) \X Nat |-> x[2] + (IF x[1] - 1 \in bits THEN p[x[1] - 1] ELSE 0)]
<1>p. /\ p \in [0 .. W -> Nat] /\ p[0] = 1
      /\ \A n \in 1 .. W : p[n] = 2 * p[n - 1]
  BY Powers
<1>w. Hlp!Word(0 .. m - 1) = total[W] BY DEF Hlp!Word
<1> HIDE DEF p, bits
<1>1. f \in [(1 .. W) \X Nat -> Nat] BY <1>p
<1>2. PICK g : Follows(g, W, Nat, 0, f)
  <2>1. Steps(W, Nat, 0, f) BY <1>1 DEF Steps
  <2> HIDE DEF f
  <2> QED BY <2>1, Recursion
<1>3. ASSUME NEW n \in 1 .. W
      PROVE  g[n] = g[n - 1] + (IF n - 1 \in bits THEN p[n - 1] ELSE 0)
  <2>1. n - 1 \in 0 .. W OBVIOUS
  <2>2. <<n, g[n - 1]>> \in (1 .. W) \X Nat BY <1>2, <2>1 DEF Follows
  <2> QED BY <1>2, <2>2 DEF Follows
<1>4. g = [n \in 0 .. W |->
             IF n = 0 THEN 0 ELSE g[n - 1] + (IF n - 1 \in bits THEN p[n - 1] ELSE 0)]
  BY <1>2, <1>3 DEF Follows
<1>5. total = [n \in 0 .. W |->
               IF n = 0 THEN 0 ELSE total[n - 1] + (IF n - 1 \in bits THEN p[n - 1] ELSE 0)]
  BY <1>4
<1> HIDE DEF total, f
<1>6. total[0] = 0 BY <1>5
<1>7. ASSUME NEW n \in 1 .. W
      PROVE  total[n] = total[n - 1] + (IF n - 1 \in bits THEN p[n - 1] ELSE 0)
  <2>1. n \in 0 .. W /\ n # 0 OBVIOUS
  <2> QED BY <1>5, <2>1
<1> DEFINE Right(n) == total[n] = IF n <= m THEN p[n] - 1 ELSE p[m] - 1
           Bad == {n \in 0 .. W : ~ Right(n)}
<1>8. CASE Bad # {}
  <2>1. PICK n \in Bad : \A k \in Bad : n <= k
    <3>1. Bad \in SUBSET Nat OBVIOUS
    <3> HIDE DEF Bad
    <3> QED BY <1>8, <3>1, Least
  <2>2. n # 0 BY <2>1, <1>6, <1>p
  <2>3. n \in 1 .. W /\ n - 1 \in 0 .. W BY <2>2
  <2>4. Right(n - 1)
    <3>1. n - 1 \notin Bad BY <2>1, <2>3
    <3> QED BY <2>3, <3>1
  <2>5. /\ total[n] = total[n - 1] + (IF n - 1 \in bits THEN p[n - 1] ELSE 0)
        /\ p[n] = 2 * p[n - 1] /\ p[n - 1] \in Nat /\ p[m] \in Nat
    BY <1>p, <1>7, <2>3
  <2>6. n - 1 \in bits <=> n <= m BY <2>3 DEF bits
  <2>7. CASE n <= m
    <3>1. total[n - 1] = p[n - 1] - 1 BY <2>3, <2>4, <2>7
    <3>2. total[n] = p[n] - 1 BY <3>1, <2>5, <2>6, <2>7
    <3> QED BY <2>1, <2>7, <3>2
  <2>8. CASE ~ n <= m
    <3>1. total[n - 1] = p[m] - 1
      <4>1. CASE n - 1 = m BY <2>4, <2>3, <4>1
      <4>2. CASE n - 1 # m
        <5>1. ~ n - 1 <= m BY <2>3, <2>8, <4>2
        <5> QED BY <2>4, <5>1
      <4> QED BY <4>1, <4>2
    <3>2. total[n] = p[m] - 1 BY <3>1, <2>5, <2>6, <2>8
    <3> QED BY <2>1, <2>8, <3>2
  <2> QED BY <2>7, <2>8
<1>9. CASE Bad = {}
  <2>1. Right(W) BY <1>9
  <2>2. W <= m => W = m OBVIOUS
  <2> QED BY <2>1, <2>2, <1>w DEF p
<1> QED BY <1>8, <1>9

\* A word has a length: the highest bit that is set is the one below it.
LEMMA Length ==
  ASSUME W \in Nat, NEW x \in Hlp!Words
  PROVE  \E m \in 0 .. W : /\ x < Hlp!pow2[m] /\ Hlp!Bits(x) \subseteq 0 .. m - 1
                           /\ m > 0 => Hlp!pow2[m - 1] <= x /\ m - 1 \in Hlp!Bits(x)
<1> DEFINE p == Hlp!pow2
           T == {k \in 0 .. W : x < p[k]}
<1>p. /\ p \in [0 .. W -> Nat] /\ p[0] = 1
      /\ \A n \in 1 .. W : p[n] = 2 * p[n - 1]
      /\ \A n \in 0 .. W : p[n] > 0
      /\ \A a, b \in 0 .. W : a < b => 2 * p[a] <= p[b]
  BY Powers, PowersGrow
<1>x. x \in 0 .. p[W] - 1 BY DEF Hlp!Words
<1>b. Hlp!Bits(x) = {i \in 0 .. W - 1 : (x \div p[i]) % 2 = 1} BY DEF Hlp!Bits
<1> HIDE DEF p
<1>1. PICK m \in T : \A k \in T : m <= k
  <2>1. T \in SUBSET Nat OBVIOUS
  <2>2. W \in T BY <1>x, <1>p
  <2> HIDE DEF T
  <2> QED BY <2>1, <2>2, Least
<1>2. m \in 0 .. W /\ x < p[m] OBVIOUS
<1>n. x \in Nat BY <1>x, <1>p
<1>3. ASSUME NEW i \in Hlp!Bits(x) PROVE i \in 0 .. m - 1
  <2>1. i \in 0 .. W - 1 /\ (x \div p[i]) % 2 = 1 BY <1>b
  <2> SUFFICES ASSUME ~ i < m PROVE FALSE BY <2>1, <1>2
  <2>2. i \in 0 .. W /\ m <= i BY <1>2, <2>1
  <2>3. x < p[i] /\ p[i] \in Nat
    <3>1. CASE i = m BY <3>1, <1>2, <1>p
    <3>2. CASE i # m
      <4>1. m < i BY <2>2, <3>2, <1>2
      <4>2. 2 * p[m] <= p[i] /\ p[m] \in Nat /\ p[i] \in Nat BY <1>p, <1>2, <2>2, <4>1
      <4> QED BY <4>2, <1>2, <1>n
    <3> QED BY <3>1, <3>2
  <2>4. x \div p[i] = 0 BY <2>3, <1>n
  <2> QED BY <2>1, <2>4
<1>4. ASSUME m > 0 PROVE p[m - 1] <= x /\ m - 1 \in Hlp!Bits(x)
  <2>1. m - 1 \in 0 .. W /\ m \in 1 .. W BY <1>2, <1>4
  <2>2. m - 1 \notin T BY <1>1, <2>1
  <2>3. p[m - 1] \in Nat /\ p[m - 1] > 0 /\ p[m - 1] <= x /\ x < 2 * p[m - 1]
    BY <1>p, <2>1, <2>2, <1>2, <1>n
  <2>4. x \div p[m - 1] = 1
    <3> DEFINE q == p[m - 1]
    <3>1. q \in Nat \ {0} /\ x \in Nat /\ q <= x /\ x < q + q BY <2>3, <1>n
    <3> HIDE DEF q
    <3>2. x \div q = 1 BY <3>1
    <3> QED BY <3>2 DEF q
  <2> QED BY <1>b, <2>1, <2>3, <2>4
<1> QED BY <1>2, <1>3, <1>4 DEF p

\* The shifts carry the highest bit over all below it.
LEMMA Smeared ==
  ASSUME Hlp!Parameters, NEW x \in Hlp!Words, NEW m \in 0 .. W,
         Hlp!Bits(x) \subseteq 0 .. m - 1, m > 0 => m - 1 \in Hlp!Bits(x)
  PROVE  Hlp!Smear(x) = Hlp!pow2[m] - 1
<1> DEFINE L == Len(Shifts)
           S == SUBSET (0 .. W - 1)
           Shifted(A, s) == A \cup ({i - s : i \in A} \cap Nat)
           f == [y \in (1 .. L) \X S |-> Shifted(y[2], Shifts[y[1]])]
           after[n \in 0 .. L] ==
             IF n = 0 THEN Hlp!Bits(x)
             ELSE after[n - 1] \cup ({i - Shifts[n] : i \in after[n - 1]} \cap Nat)
<1>l. /\ L \in Nat /\ W \in Nat \ {0} /\ \A n \in 1 .. L : Shifts[n] \in Nat
      /\ \A n \in 1 .. L : Shifts[n] = IF n = 1 THEN 1 ELSE 2 * Shifts[n - 1]
      /\ W = IF L = 0 THEN 1 ELSE 2 * Shifts[L]
  BY DEF Hlp!Parameters
<1>b. Hlp!Bits(x) \in S BY DEF Hlp!Bits
<1>s. Hlp!Smear(x) = Hlp!Word(after[L]) BY DEF Hlp!Smear
<1> HIDE DEF L
<1>1. f \in [(1 .. L) \X S -> S]
  <2>1. ASSUME NEW y \in (1 .. L) \X S PROVE Shifted(y[2], Shifts[y[1]]) \in S
    <3>1. y[2] \in S /\ Shifts[y[1]] \in Nat BY <1>l
    <3>2. ASSUME NEW i \in y[2], i - Shifts[y[1]] \in Nat PROVE i - Shifts[y[1]] \in 0 .. W - 1
      <4>1. i \in 0 .. W - 1 BY <3>1
      <4> QED BY <3>1, <3>2, <4>1, <1>l
    <3> QED BY <3>1, <3>2
  <2> QED BY <2>1
<1>2. PICK g : Follows(g, L, S, Hlp!Bits(x), f)
  <2>1. Steps(L, S, Hlp!Bits(x), f) BY <1>1, <1>b, <1>l DEF Steps
  <2> HIDE DEF f, S
  <2> QED BY <2>1, Recursion
<1>3. ASSUME NEW n \in 1 .. L PROVE g[n] = Shifted(g[n - 1], Shifts[n])
  <2>1. n - 1 \in 0 .. L BY <1>l
  <2>2. <<n, g[n - 1]>> \in (1 .. L) \X S BY <1>2, <2>1 DEF Follows
  <2>3. f[<<n, g[n - 1]>>] = Shifted(g[n - 1], Shifts[n]) BY <2>2
  <2> QED BY <1>2, <2>3 DEF Follows
<1>4. g = [n \in 0 .. L |-> IF n = 0 THEN Hlp!Bits(x) ELSE Shifted(g[n - 1], Shifts[n])]
  <2>1. \A n \in 0 .. L : n # 0 => n \in 1 .. L BY <1>l
  <2> HIDE DEF Shifted
  <2> QED BY <1>2, <1>3, <2>1 DEF Follows
<1>5. after = [n \in 0 .. L |->
                 IF n = 0 THEN Hlp!Bits(x) ELSE Shifted(after[n - 1], Shifts[n])]
  BY <1>4
<1> HIDE DEF after, f, Shifted
<1>6. after[0] = Hlp!Bits(x) BY <1>5, <1>l
<1>7. ASSUME NEW n \in 1 .. L PROVE after[n] = Shifted(after[n - 1], Shifts[n])
  <2>1. n \in 0 .. L /\ n # 0 BY <1>l
  <2> QED BY <1>5, <2>1
<1> DEFINE Reach(n) == IF n = 0 THEN 1 ELSE 2 * Shifts[n]
           Right(n) == /\ after[n] \subseteq 0 .. m - 1
                       /\ \A i \in 0 .. m - 1 : m - 1 - i < Reach(n) => i \in after[n]
           Bad == {n \in 0 .. L : ~ Right(n)}
<1>8. CASE Bad # {}
  <2>1. PICK n \in Bad : \A k \in Bad : n <= k
    <3>1. Bad \in SUBSET Nat OBVIOUS
    <3> HIDE DEF Bad
    <3> QED BY <1>8, <3>1, Least
  <2>2. n # 0
    <3>1. ASSUME NEW i \in 0 .. m - 1, m - 1 - i < 1 PROVE i \in Hlp!Bits(x)
      <4>1. i = m - 1 /\ m > 0 BY <3>1
      <4> QED BY <4>1
    <3>2. Right(0) BY <3>1, <1>6
    <3> QED BY <2>1, <3>2
  <2>3. n \in 1 .. L /\ n - 1 \in 0 .. L BY <2>2, <1>l
  <2>4. Right(n - 1)
    <3>1. n - 1 \notin Bad BY <2>1, <2>3, <1>l
    <3> QED BY <2>3, <3>1
  <2> DEFINE s == Shifts[n]
  <2>5. s \in Nat /\ s = Reach(n - 1)
    <3>1. CASE n = 1 BY <1>l, <2>3, <3>1
    <3>2. CASE n # 1
      <4>1. n - 1 # 0 BY <2>3, <3>2
      <4> QED BY <1>l, <2>3, <3>2, <4>1
    <3> QED BY <3>1, <3>2
  <2>6. after[n] = after[n - 1] \cup ({i - s : i \in after[n - 1]} \cap Nat)
    BY <1>7, <2>3 DEF Shifted
  <2>7. after[n] \subseteq 0 .. m - 1
    <3>1. ASSUME NEW i \in after[n - 1], i - s \in Nat PROVE i - s \in 0 .. m - 1
      <4>1. i \in 0 .. m - 1 BY <2>4
      <4> QED BY <4>1, <3>1, <2>5
    <3> HIDE DEF s
    <3> QED BY <2>4, <2>6, <3>1
  <2>8. ASSUME NEW i \in 0 .. m - 1, m - 1 - i < Reach(n) PROVE i \in after[n]
    <3>1. Reach(n) = 2 * s BY <2>2
    <3>2. CASE m - 1 - i < s BY <3>2, <2>4, <2>5, <2>6
    <3>3. CASE ~ (m - 1 - i < s)
      <4>1. i + s \in 0 .. m - 1 /\ m - 1 - (i + s) < s
        <5> HIDE DEF s, Reach
        <5> QED BY <3>1, <3>3, <2>5, <2>8
      <4>2. i + s \in after[n - 1] BY <4>1, <2>4, <2>5
      <4>3. (i + s) - s = i /\ i \in Nat
        <5> HIDE DEF s
        <5> QED BY <2>5
      <4> QED BY <4>2, <4>3, <2>6
    <3> QED BY <3>2, <3>3
  <2> QED BY <2>1, <2>3, <2>7, <2>8
<1>9. CASE Bad = {}
  <2>1. Right(L)
    <3>1. L \in 0 .. L BY <1>l
    <3> HIDE DEF Right
    <3> QED BY <3>1, <1>9
  <2>2. Reach(L) = W BY <1>l
  <2>3. after[L] = 0 .. m - 1
    <3>1. \A i \in 0 .. m - 1 : m - 1 - i < W BY <1>l
    <3> QED BY <2>1, <2>2, <3>1
  <2> QED BY <2>3, <1>s, <1>l, LowBits
<1> QED BY <1>8, <1>9

\* pow2roundup returns the smallest power of two that is not smaller.
LEMMA Rounded ==
  ASSUME Hlp!Parameters, NEW x \in Hlp!Words, x <= Hlp!pow2[W - 1]
  PROVE  Hlp!NextPower(x, Hlp!pow2roundup(x))
<1> DEFINE p == Hlp!pow2
           y == Hlp!pow2roundup(x)
<1>w. W \in Nat \ {0} BY DEF Hlp!Parameters
<1>p. /\ p \in [0 .. W -> Nat] /\ p[0] = 1
      /\ \A n \in 0 .. W : p[n] > 0
      /\ \A a, b \in 0 .. W : a < b => 2 * p[a] <= p[b]
  BY <1>w, Powers, PowersGrow
<1>x. x \in 0 .. p[W] - 1 /\ x <= p[W - 1] BY DEF Hlp!Words
<1>s. \E m \in 0 .. W - 1 : /\ y = p[m] /\ x <= y
                            /\ m > 0 => p[m - 1] < x
  <2>1. CASE x = 0
    <3>1. y = 1 BY <2>1 DEF Hlp!pow2roundup
    <3> QED BY <2>1, <3>1, <1>p, <1>w
  <2>2. CASE x # 0
    <3>1. x - 1 \in Hlp!Words /\ x \in Nat BY <2>2, <1>x, <1>p, <1>w DEF Hlp!Words
    <3>2. PICK m \in 0 .. W : /\ x - 1 < p[m] /\ Hlp!Bits(x - 1) \subseteq 0 .. m - 1
                              /\ m > 0 => p[m - 1] <= x - 1 /\ m - 1 \in Hlp!Bits(x - 1)
      BY <3>1, <1>w, Length
    <3>3. Hlp!Smear(x - 1) = p[m] - 1 BY <3>1, <3>2, Smeared
    <3>4. y = ((p[m] - 1) + 1) % p[W] BY <2>2, <3>3 DEF Hlp!pow2roundup
    <3> HIDE DEF p, y
    <3>5. p[m] \in Nat /\ p[W] \in Nat \ {0} /\ p[W - 1] \in Nat BY <1>p, <1>w, <3>2
    <3>6. m # W BY <3>1, <3>2, <3>5, <1>x, <1>w
    <3>7. m \in 0 .. W - 1 BY <3>6, <1>w
    <3>8. 2 * p[m] <= p[W] /\ p[m] > 0 BY <3>7, <1>p, <1>w
    <3>9. y = p[m]
      <4>1. (p[m] - 1) + 1 = p[m] /\ p[m] < p[W] BY <3>5, <3>8
      <4>2. \A a \in Nat, b \in Nat \ {0} : a < b => a % b = a OBVIOUS
      <4> QED BY <3>4, <3>5, <4>1, <4>2
    <3>10. x <= y BY <3>1, <3>2, <3>5, <3>9
    <3>11. m > 0 => p[m - 1] < x
      <4> SUFFICES ASSUME m > 0 PROVE p[m - 1] < x OBVIOUS
      <4>1. m - 1 \in 0 .. W BY <3>7, <1>w
      <4>2. p[m - 1] \in Nat /\ p[m - 1] <= x - 1 BY <4>1, <3>2, <1>p
      <4> QED BY <4>2, <3>1
    <3> QED BY <3>7, <3>9, <3>10, <3>11
  <2> QED BY <2>1, <2>2
<1> HIDE DEF y
<1>1. PICK m \in 0 .. W - 1 : /\ y = p[m] /\ x <= y
                              /\ m > 0 => p[m - 1] < x
  BY <1>s
<1>2. Hlp!PowersOfTwo = {p[k] : k \in 0 .. W - 1} BY DEF Hlp!PowersOfTwo
<1> HIDE DEF p
<1>n. m \in 0 .. W /\ p[m] \in Nat /\ x \in Nat BY <1>p, <1>x, <1>w
<1>3. ASSUME NEW k \in 0 .. W - 1, p[k] >= x PROVE p[m] <= p[k]
  <2>1. k \in 0 .. W /\ p[k] \in Nat BY <1>p, <1>w
  <2>2. CASE k = m BY <2>1, <2>2
  <2>3. CASE m < k
    <3>1. 2 * p[m] <= p[k] BY <1>p, <1>n, <2>1, <2>3
    <3> QED BY <3>1, <1>n, <2>1
  <2>4. CASE k < m
    <3>1. m - 1 \in 0 .. W /\ m > 0 BY <2>4, <1>n, <1>w
    <3>2. p[m - 1] \in Nat /\ p[m - 1] < x BY <3>1, <1>1, <1>p
    <3>3. k = m - 1 \/ k < m - 1 BY <2>1, <2>4, <1>n
    <3>4. p[k] <= p[m - 1]
      <4>1. CASE k = m - 1 BY <4>1, <3>2
      <4>2. CASE k < m - 1
        <5>1. 2 * p[k] <= p[m - 1] BY <4>2, <3>1, <2>1, <1>p
        <5> QED BY <5>1, <2>1, <3>2
      <4> QED BY <3>3, <4>1, <4>2
    <3> QED BY <3>2, <3>4, <1>3, <2>1, <1>n
  <2> QED BY <2>1, <2>2, <2>3, <2>4, <1>n
<1>4. ASSUME NEW z \in Hlp!PowersOfTwo, z >= x PROVE y <= z
  BY <1>2, <1>3, <1>1, <1>4
<1> QED BY <1>1, <1>2, <1>4, <1>n DEF Hlp!NextPower, y

\* It returns a word whatever it is called with.
LEMMA RoundedIsWord ==
  ASSUME Hlp!Parameters, NEW x \in Hlp!Words
  PROVE  Hlp!pow2roundup(x) \in Hlp!Words
<1> DEFINE p == Hlp!pow2
<1>w. W \in Nat \ {0} BY DEF Hlp!Parameters
<1>p. /\ p \in [0 .. W -> Nat] /\ p[0] = 1
      /\ \A n \in 0 .. W : p[n] > 0
      /\ \A a, b \in 0 .. W : a < b => 2 * p[a] <= p[b]
  BY <1>w, Powers, PowersGrow
<1>x. x \in 0 .. p[W] - 1 BY DEF Hlp!Words
<1>1. CASE x = 0
  <2>1. Hlp!pow2roundup(x) = 1 BY <1>1 DEF Hlp!pow2roundup
  <2>2. 2 * p[0] <= p[W] /\ p[W] \in Nat BY <1>p, <1>w
  <2>3. 1 \in 0 .. p[W] - 1 BY <2>2, <1>p
  <2> QED BY <2>1, <2>3 DEF Hlp!Words
<1>2. CASE x # 0
  <2>1. x - 1 \in Hlp!Words BY <1>2, <1>x, <1>p, <1>w DEF Hlp!Words
  <2>2. PICK m \in 0 .. W : /\ x - 1 < p[m] /\ Hlp!Bits(x - 1) \subseteq 0 .. m - 1
                            /\ m > 0 => p[m - 1] <= x - 1 /\ m - 1 \in Hlp!Bits(x - 1)
    BY <2>1, <1>w, Length
  <2>3. Hlp!Smear(x - 1) = p[m] - 1 BY <2>1, <2>2, Smeared
  <2>4. Hlp!pow2roundup(x) = ((p[m] - 1) + 1) % p[W] BY <1>2, <2>3 DEF Hlp!pow2roundup
  <2>5. p[m] \in Nat /\ p[W] \in Nat \ {0} BY <1>p, <1>w, <2>2
  <2> HIDE DEF p
  <2>6. ((p[m] - 1) + 1) % p[W] \in 0 .. p[W] - 1 BY <2>5
  <2> QED BY <2>4, <2>6 DEF Hlp!Words, p
<1> QED BY <1>1, <1>2

HelpersInv == Hlp!TypeOK /\ Hlp!RoundsUp /\ Hlp!OwnCore /\ Hlp!SocketsOfTen

LEMMA HelpersInvInit == ProgramsInit => HelpersInv
<1> SUFFICES ASSUME ProgramsInit PROVE HelpersInv OBVIOUS
<1>1. callee = <<"none">> /\ ret = 0 BY DEF ProgramsInit, Hlp!Init
<1>2. callee[1] = "none" BY <1>1
<1>3. Hlp!TypeOK BY <1>1 DEF Hlp!TypeOK, Hlp!Idle
<1> QED BY <1>2, <1>3 DEF HelpersInv, Hlp!RoundsUp, Hlp!OwnCore, Hlp!SocketsOfTen

LEMMA HelpersStep ==
  ASSUME Hlp!Next
  PROVE  HelpersInv'
<1>1. ASSUME NEW x \in Hlp!Words, Hlp!Pow2roundup(x) PROVE HelpersInv'
  <2>1. callee' = <<"pow2roundup", x>> /\ ret' = Hlp!pow2roundup(x)
    BY <1>1 DEF Hlp!Pow2roundup
  <2>2. callee'[1] = "pow2roundup" /\ callee'[2] = x BY <2>1
  <2>3. x <= Hlp!pow2[W - 1] => Hlp!NextPower(x, ret') BY <2>1, Instances, Rounded
  <2>4. Hlp!RoundsUp' BY <2>2, <2>3 DEF Hlp!RoundsUp, Hlp!NextPower, Hlp!PowersOfTwo
  <2>5. Hlp!TypeOK'
    <3>1. ret' \in Hlp!Words BY <2>1, Instances, RoundedIsWord
    <3>2. callee' \in {"pow2roundup"} \X Hlp!Words BY <2>1
    <3> QED BY <3>1, <3>2 DEF Hlp!TypeOK, Hlp!Words
  <2> QED BY <2>2, <2>4, <2>5 DEF HelpersInv, Hlp!OwnCore, Hlp!SocketsOfTen
<1>2. ASSUME NEW platform \in Hlp!Platforms, NEW p \in Hlp!Ids(platform),
             Hlp!SetCpu(platform, p)
      PROVE  HelpersInv'
  <2>1. callee' = <<"set_cpu", platform, p>> /\ ret' = Hlp!id_to_core(platform, p)
    BY <1>2 DEF Hlp!SetCpu
  <2>2. callee'[1] = "set_cpu" /\ callee'[2] = platform /\ callee'[3] = p BY <2>1
  <2>3. ret' \in Hlp!Ids(platform) BY <2>1, CoresApart
  <2>4. \A q \in Hlp!Ids(platform) \ {p} : Hlp!id_to_core(platform, q) # ret'
    BY <2>1, CoresApart
  <2>5. Hlp!TypeOK'
    <3>1. p \in 0 .. 255 BY <1>2 DEF Hlp!Ids, Hlp!Platforms
    <3>2. callee' \in {"set_cpu"} \X Hlp!Platforms \X (0 .. 255) BY <2>1, <3>1
    <3>3. callee'[3] \in Hlp!Ids(callee'[2]) /\ ret' \in Hlp!Ids(callee'[2]) BY <2>2, <2>3
    <3> QED BY <3>2, <3>3 DEF Hlp!TypeOK
  <2> QED BY <2>2, <2>3, <2>4, <2>5 DEF HelpersInv, Hlp!RoundsUp, Hlp!OwnCore, Hlp!SocketsOfTen
<1>3. ASSUME NEW p \in Hlp!XeonCores, NEW q \in Hlp!XeonCores, Hlp!SameSocket(p, q)
      PROVE  HelpersInv'
  <2>1. /\ callee' = <<"ssmp_cores_on_same_socket", p, q>>
        /\ ret' = IF Hlp!ssmp_cores_on_same_socket(p, q) THEN 1 ELSE 0
    BY <1>3 DEF Hlp!SameSocket
  <2>2. callee'[1] = "ssmp_cores_on_same_socket" /\ callee'[2] = p /\ callee'[3] = q BY <2>1
  <2>3. Hlp!ssmp_cores_on_same_socket(p, q) <=> p \div 10 = q \div 10
    BY TensOnASocket DEF Hlp!ssmp_cores_on_same_socket, Hlp!XeonCores
  <2>4. (ret' = 1) = (p \div 10 = q \div 10) BY <2>1, <2>3
  <2>5. Hlp!TypeOK'
    <3>1. /\ callee' \in {"ssmp_cores_on_same_socket"} \X Hlp!XeonCores \X Hlp!XeonCores
          /\ ret' \in {0, 1}
      BY <2>1
    <3> QED BY <3>1 DEF Hlp!TypeOK
  <2> QED BY <2>2, <2>4, <2>5 DEF HelpersInv, Hlp!RoundsUp, Hlp!OwnCore, Hlp!SocketsOfTen
<1>4. CASE Hlp!Return
  <2>1. callee' = <<"none">> /\ ret' = 0 BY <1>4 DEF Hlp!Return
  <2>2. callee'[1] = "none" BY <2>1
  <2>3. Hlp!TypeOK' BY <2>1 DEF Hlp!TypeOK, Hlp!Idle
  <2> QED BY <2>2, <2>3 DEF HelpersInv, Hlp!RoundsUp, Hlp!OwnCore, Hlp!SocketsOfTen
<1> QED BY <1>1, <1>2, <1>3, <1>4 DEF Hlp!Next

LEMMA HelpersInvStep == HelpersInv /\ [ProgramsNext]_allvars => HelpersInv'
<1> SUFFICES ASSUME HelpersInv, [ProgramsNext]_allvars PROVE HelpersInv' OBVIOUS
<1>1. CASE UNCHANGED hl
  <2>1. Hlp!TypeOK' BY <1>1 DEF hl, HelpersInv, Hlp!TypeOK, Hlp!Idle, Hlp!Words
  <2> QED
    BY <1>1, <2>1 DEF hl, HelpersInv, Hlp!RoundsUp, Hlp!OwnCore, Hlp!SocketsOfTen
<1>2. CASE Hlp!Next BY <1>2, HelpersStep
<1>3. UNCHANGED hl \/ Hlp!Next
  <2>1. CASE ScanNext BY <2>1 DEF ScanNext
  <2>2. CASE LocalNext BY <2>2 DEF LocalNext
  <2>3. ASSUME NEW p \in BT!Procs, Own(p) PROVE UNCHANGED hl BY <2>3 DEF Own
  <2>4. CASE UNCHANGED allvars BY <2>4 DEF allvars
  <2> QED BY <2>1, <2>2, <2>3, <2>4 DEF ProgramsNext
<1> QED BY <1>1, <1>2, <1>3

LEMMA HelpersAlways == ProgramsSpec => []HelpersInv
BY HelpersInvInit, HelpersInvStep, PTL DEF ProgramsSpec

\* On every platform a process has a core of its own, on the xeon ten share a
\* socket; pow2roundup returns the smallest power of two that is not smaller, of
\* words of any width; and the profiler counts no time twice.
THEOREM LocalCorrect == ProgramsSpec => []LocalResults
<1>1. HelpersInv /\ ClockInv({0, 1}, 4, {1, 2, 3}, 2) => LocalResults
  BY ProfSafe DEF HelpersInv, LocalResults
<1> QED BY <1>1, HelpersAlways, ProfAlways, PTL

-----------------------------------------------------------------------------
(* The types *)

\* Whatever program runs, the color buffers are those of a server of ColorScan.
LEMMA RunsAServer == ProgramsSpec => Spec
<1>1. ProgramsInit => Init BY DEF ProgramsInit
<1>2. [ProgramsNext]_allvars => [Next]_vars
  <2> SUFFICES ASSUME [ProgramsNext]_allvars PROVE [Next]_vars OBVIOUS
  <2>1. CASE ScanNext BY <2>1 DEF ScanNext
  <2>2. CASE LocalNext BY <2>2 DEF LocalNext
  <2>3. ASSUME NEW p \in BT!Procs, Own(p) PROVE UNCHANGED vars BY <2>3 DEF Own
  <2>4. CASE UNCHANGED allvars BY <2>4 DEF allvars
  <2> QED BY <2>1, <2>2, <2>3, <2>4 DEF ProgramsNext
<1> QED BY <1>1, <1>2, PTL DEF ProgramsSpec, Spec

\* The variables of every program stay in their types, for any number of
\* processes, servers, messages, operations and accounts.
THEOREM TypesCorrect == ProgramsSpec => []TypesOK
<1>1. /\ TypeOK /\ BkInv /\ BTInv /\ BTGot /\ HelpersInv
      /\ ClockInv({0, 1}, 4, {1, 2, 3}, 2) /\ CSInv
      => TypesOK
  <2> SUFFICES ASSUME TypeOK, BkInv, BTInv, BTGot, HelpersInv,
                      ClockInv({0, 1}, 4, {1, 2, 3}, 2), CSInv
               PROVE  TypesOK
    OBVIOUS
  <2>1. Bnk!TypeOK BY DEF BkInv, BkTyped
  <2>2. Prof!TypeOK /\ BT!TypeOK /\ Hlp!TypeOK BY ProfSafe, BTTypes DEF HelpersInv
  <2>3. CASE program = "client_server"
    <3>1. CS(OneWayDsl, FALSE)!TypeOK BY <2>3 DEF CSInv, CSKind, CSTyped
    <3>2. OneWay!TypeOK BY <3>1, OneWayIs DEF OneWay!TypeOK, CS!TypeOK
    <3> QED BY <2>1, <2>2, <2>3, <3>2 DEF TypesOK
  <2>4. CASE program # "client_server"
    <3>1. CS(RTDsl, TRUE)!TypeOK BY <2>4 DEF CSInv, CSKind, CSTyped
    <3>2. RT!TypeOK BY <3>1, RTIs DEF RT!TypeOK, CS!TypeOK
    <3> QED BY <2>1, <2>2, <2>4, <3>2 DEF TypesOK
  <2> QED BY <2>3, <2>4
<1>2. ProgramsSpec => []TypeOK BY RunsAServer, TypeCorrect, PTL
<1> QED
  BY <1>1, <1>2, BkAlways, BTAlways, BTGotAlways, HelpersAlways, CSAlways, ProfAlways, PTL
=============================================================================
