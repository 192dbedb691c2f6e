------------------------- MODULE SsmpBarrierProofs -------------------------
(***************************************************************************)
(* Theorems about SsmpBarrier, for any number of processes, barriers and   *)
(* participants.                                                           *)
(***************************************************************************)
EXTENDS SsmpBarrier, FiniteSetTheorems, TLAPS

-----------------------------------------------------------------------------
(* The invariant *)

At(p, b, S) == bar[p] = b /\ pc[p] \in S

\* The processes that hold a ticket of b.
Inside(b) == {p \in Procs : At(p, b, {"announce", "wait", "drop"})}

\* The process that is about to open b, and the one about to close it.
Opener(p, b) == At(p, b, {"announce"}) /\ mine[p] = NumPart(b)
Closer(p, b) == At(p, b, {"leave"}) /\ mine[p] = 0

\* A process is on a barrier exactly while it is in a wait, as a participant.
Where ==
  \A p \in Procs :
    /\ pc[p] = "out" => bar[p] = NULL
    /\ pc[p] # "out" => forked /\ bar[p] \in Barriers
    /\ \A b \in Barriers : bar[p] = b => p \in Party(b)

\* Nothing happens before the fork.
Setup == ~forked => /\ \A p \in Procs : pc[p] = "out"
                    /\ \A b \in Barriers, p \in Procs : departures[b][p] = 0

\* A ticket is held from its arrival to its departure, and counted.
Tickets(b) ==
  /\ \A p \in Procs : arrivals[b][p] = departures[b][p] + (IF p \in Inside(b) THEN 1 ELSE 0)
  /\ ticket[b] = Cardinality(Inside(b))

\* While b is closed its participants have left the same rounds; while it is
\* open they have entered the same rounds.
Rounds(b) ==
  /\ cleared[b] = 0 => \A p, q \in Party(b) : departures[b][p] = departures[b][q]
  /\ cleared[b] = 1 => \A p, q \in Party(b) : arrivals[b][p] = arrivals[b][q]

\* What the places in the wait say about the barrier.
Places(b) ==
  \A p \in Procs :
    /\ At(p, b, {"take"}) => cleared[b] = 0
    /\ At(p, b, {"drop"}) => cleared[b] = 1
    /\ Opener(p, b) => cleared[b] = 0 /\ Inside(b) = Party(b)
    /\ Closer(p, b) => cleared[b] = 1 /\ Inside(b) = {}

\* One process opens and one process closes; an open barrier is going to be
\* closed, and a closed one that everybody is inside is going to be opened.
Turns(b) ==
  /\ \A p, q \in Procs : Opener(p, b) /\ Opener(q, b) => p = q
  /\ \A p, q \in Procs : Closer(p, b) /\ Closer(q, b) => p = q
  /\ cleared[b] = 1 => Inside(b) # {} \/ \E p \in Procs : Closer(p, b)
  /\ cleared[b] = 0 /\ Inside(b) = Party(b) => Party(b) = {} \/ \E p \in Procs : Opener(p, b)

Round(b) == Tickets(b) /\ Rounds(b) /\ Places(b) /\ Turns(b)

IndInv == TypeOK /\ Where /\ Setup /\ \A b \in Barriers : Round(b)

-----------------------------------------------------------------------------
LEMMA ProcsFinite == IsFiniteSet(Procs)
BY FS_Interval, NAssumption DEF Procs

\* The participants and the processes inside are finite sets of processes.
LEMMA InsideFacts ==
  ASSUME NEW b
  PROVE  /\ Inside(b) \subseteq Procs /\ IsFiniteSet(Inside(b))
         /\ Cardinality(Inside(b)) \in Nat
         /\ Party(b) \subseteq Procs /\ IsFiniteSet(Party(b))
         /\ NumPart(b) \in Nat
<1>1. Inside(b) \subseteq Procs BY DEF Inside
<1>2. Party(b) \subseteq Procs BY DEF Party
<1>3. IsFiniteSet(Inside(b)) BY <1>1, ProcsFinite, FS_Subset
<1>4. IsFiniteSet(Party(b)) BY <1>2, ProcsFinite, FS_Subset
<1> QED BY <1>1, <1>2, <1>3, <1>4, FS_CardinalityType DEF NumPart

LEMMA InsideParty ==
  ASSUME Where, NEW b \in Barriers PROVE Inside(b) \subseteq Party(b)
BY DEF Where, Inside, At

LEMMA SameInside ==
  ASSUME NEW b, \A q \in Procs : q \in Inside(b)' <=> q \in Inside(b)
  PROVE  Inside(b)' = Inside(b)
BY DEF Inside

LEMMA TypeInit == Init => TypeOK
<1> SUFFICES ASSUME Init PROVE TypeOK
  OBVIOUS
<1>1. ColorApp \in SUBSET Nat BY DEF ColorApp, Procs
<1>2. /\ participants \in [Barriers -> SUBSET Nat]
      /\ color \in [Barriers -> {NULL} \cup SUBSET Nat]
      /\ asked \in [Barriers -> SUBSET Nat]
  BY <1>1, BitsAssumption DEF Init
<1>3. /\ arrivals \in [Barriers -> [Procs -> Nat]]
      /\ departures \in [Barriers -> [Procs -> Nat]]
  BY DEF Init
<1>4. /\ ticket \in [Barriers -> Int] /\ cleared \in [Barriers -> {0, 1}]
      /\ mine \in [Procs -> Int]
  BY DEF Init
<1>5. /\ pc \in [Procs -> {"out", "gate", "take", "announce", "wait", "drop", "leave"}]
      /\ bar \in [Procs -> {NULL} \cup Barriers]
      /\ forked \in BOOLEAN
  BY DEF Init
<1> QED BY <1>2, <1>3, <1>4, <1>5 DEF TypeOK

LEMMA TypeNext == TypeOK /\ Where /\ [Next]_vars => TypeOK'
<1> SUFFICES ASSUME TypeOK, Where, [Next]_vars PROVE TypeOK'
  OBVIOUS
<1> USE DEF TypeOK
<1>1. ASSUME NEW b \in Barriers, NEW bitmap \in Bitmaps, NEW col \in Colors,
             BarrierInit(b, bitmap, col)
      PROVE  TypeOK'
  <2>1. Bits \in SUBSET Nat /\ col \in {NULL} \cup SUBSET Nat
    BY BitsAssumption, ColorsAssumption
  <2>2. (IF col # NULL THEN col ELSE bitmap) \in SUBSET Nat
    BY <2>1, BitsAssumption, BitmapsAssumption
  <2>3. /\ participants' \in [Barriers -> SUBSET Nat]
        /\ color' \in [Barriers -> {NULL} \cup SUBSET Nat]
        /\ asked' \in [Barriers -> SUBSET Nat]
    BY <1>1, <2>1, <2>2 DEF BarrierInit
  <2> QED BY <1>1, <2>3 DEF BarrierInit
<1>2. CASE Fork BY <1>2 DEF Fork
<1>3. ASSUME NEW p \in Procs, NEW b \in Barriers, Call(p, b) PROVE TypeOK'
  BY <1>3 DEF Call
<1>4. ASSUME NEW p \in Procs, PassGate(p) PROVE TypeOK'
  BY <1>4 DEF PassGate
<1>5. ASSUME NEW p \in Procs, TakeTicket(p) PROVE TypeOK'
  <2>1. bar[p] \in Barriers BY <1>5 DEF TakeTicket, Where
  <2> QED BY <1>5, <2>1 DEF TakeTicket
<1>6. ASSUME NEW p \in Procs, Announce(p) PROVE TypeOK'
  BY <1>6 DEF Announce
<1>7. ASSUME NEW p \in Procs, PassWait(p) PROVE TypeOK'
  BY <1>7 DEF PassWait
<1>8. ASSUME NEW p \in Procs, DropTicket(p) PROVE TypeOK'
  <2>1. bar[p] \in Barriers BY <1>8 DEF DropTicket, Where
  <2> QED BY <1>8, <2>1 DEF DropTicket
<1>9. ASSUME NEW p \in Procs, Leave(p) PROVE TypeOK'
  <2>1. cleared' \in [Barriers -> {0, 1}] BY <1>9 DEF Leave
  <2>2. /\ pc' \in [Procs -> {"out", "gate", "take", "announce", "wait", "drop", "leave"}]
        /\ bar' \in [Procs -> {NULL} \cup Barriers]
        /\ mine' \in [Procs -> Int]
    BY <1>9 DEF Leave
  <2> QED BY <1>9, <2>1, <2>2 DEF Leave
<1>10. CASE UNCHANGED vars BY <1>10 DEF vars
<1> QED BY <1>1, <1>2, <1>3, <1>4, <1>5, <1>6, <1>7, <1>8, <1>9, <1>10 DEF Next, Wait

LEMMA IndInit == Init => IndInv
<1> SUFFICES ASSUME Init PROVE IndInv
  OBVIOUS
<1>1. TypeOK BY TypeInit
<1>2. Where /\ Setup BY NullAssumption DEF Init, Where, Setup
<1>3. ASSUME NEW b \in Barriers PROVE Round(b)
  <2>1. Inside(b) = {} BY DEF Init, Inside, At
  <2>2. Tickets(b) BY <2>1, FS_EmptySet DEF Init, Tickets
  <2>3. Party(b) \subseteq Procs BY DEF Party
  <2>4. Rounds(b) BY <2>3 DEF Init, Rounds
  <2>5. Places(b) /\ Turns(b) BY <2>1 DEF Init, Places, Turns, Opener, Closer, At
  <2> QED BY <2>2, <2>4, <2>5 DEF Round
<1> QED BY <1>1, <1>2, <1>3 DEF IndInv

\* Before the fork a barrier may be initialised again.
LEMMA SetupStep ==
  ASSUME IndInv, TypeOK',
         Fork \/ \E b \in Barriers, bitmap \in Bitmaps, col \in Colors : BarrierInit(b, bitmap, col)
  PROVE  IndInv'
<1> USE DEF IndInv, TypeOK
<1>1. ~forked /\ UNCHANGED <<pc, bar, mine, arrivals, departures>>
  BY DEF Fork, BarrierInit
<1>2. /\ \A p \in Procs : pc[p] = "out"
      /\ \A a \in Barriers, p \in Procs : departures[a][p] = 0
  BY <1>1 DEF Setup
<1>3. Where' /\ Setup' BY <1>1, <1>2, NullAssumption DEF IndInv, Where, Setup
<1>4. ASSUME NEW a \in Barriers PROVE Round(a)'
  <2>1. Inside(a) = {} /\ Inside(a)' = {} BY <1>1, <1>2 DEF Inside, At
  <2>2. ticket[a] = 0 /\ cleared[a] = 0
    <3>1. ticket[a] = 0 BY <2>1, FS_EmptySet DEF Round, Tickets
    <3>2. ~\E p \in Procs : Closer(p, a) BY <1>2 DEF Closer, At
    <3> QED BY <2>1, <3>1, <3>2 DEF Round, Turns
  <2>3. ticket'[a] = 0 /\ cleared'[a] = 0 BY <2>2 DEF Fork, BarrierInit
  <2>4. Tickets(a)' BY <1>1, <2>1, <2>3, FS_EmptySet DEF Round, Tickets
  <2>5. Party(a)' \subseteq Procs BY DEF Party
  <2>6. Rounds(a)' BY <1>1, <1>2, <2>3, <2>5 DEF Rounds
  <2>7. Places(a)' /\ Turns(a)' BY <1>1, <1>2, <2>1, <2>3 DEF Places, Turns, Opener, Closer, At
  <2> QED BY <2>4, <2>6, <2>7 DEF Round
<1> QED BY <1>3, <1>4

\* A step of p leaves the barriers p is not on alone.
LEMMA OtherBarrier ==
  ASSUME IndInv, NEW b \in Barriers, NEW p \in Procs,
         bar[p] # b, bar'[p] # b,
         \A q \in Procs \ {p} : bar'[q] = bar[q] /\ pc'[q] = pc[q] /\ mine'[q] = mine[q],
         Party(b)' = Party(b),
         ticket'[b] = ticket[b], cleared'[b] = cleared[b],
         arrivals'[b] = arrivals[b], departures'[b] = departures[b]
  PROVE  Round(b)'
<1>1. \A q \in Procs : \A S : At(q, b, S)' <=> At(q, b, S) BY DEF At
<1>2. Inside(b)' = Inside(b) BY <1>1 DEF Inside
<1>3. \A q \in Procs : (Opener(q, b)' <=> Opener(q, b)) /\ (Closer(q, b)' <=> Closer(q, b))
  BY DEF Opener, Closer, At, NumPart
<1>4. Tickets(b)' BY <1>2 DEF IndInv, Round, Tickets
<1>5. Rounds(b)' BY DEF IndInv, Round, Rounds
<1>6. Places(b)' BY <1>1, <1>2, <1>3 DEF IndInv, Round, Places
<1>7. Turns(b)' BY <1>2, <1>3 DEF IndInv, Round, Turns
<1> QED BY <1>4, <1>5, <1>6, <1>7 DEF Round

\* What every step of a process inside a wait has in common.
Step(p, b) ==
  /\ p \in Procs /\ b \in Barriers /\ p \in Party(b) /\ forked
  /\ \A q \in Procs \ {p} : bar'[q] = bar[q] /\ pc'[q] = pc[q] /\ mine'[q] = mine[q]
  /\ UNCHANGED <<forked, participants, color>>
  /\ \A a \in Barriers \ {b} :
       /\ bar[p] # a /\ bar'[p] # a
       /\ ticket'[a] = ticket[a] /\ cleared'[a] = cleared[a]
       /\ arrivals'[a] = arrivals[a] /\ departures'[a] = departures[a]

LEMMA PartyFixed ==
  ASSUME NEW a, UNCHANGED <<participants, color>>
  PROVE  Party(a)' = Party(a) /\ NumPart(a)' = NumPart(a)
BY DEF Party, NumPart

\* It is enough to look at the barrier of the step, and at the place of p.
LEMMA StepFrame ==
  ASSUME IndInv, TypeOK', NEW p, NEW b, Step(p, b),
         IF pc'[p] = "out" THEN bar'[p] = NULL ELSE bar'[p] = b,
         Round(b)'
  PROVE  IndInv'
<1>1. Where'
  <2> SUFFICES ASSUME NEW q \in Procs
               PROVE  /\ pc'[q] = "out" => bar'[q] = NULL
                      /\ pc'[q] # "out" => forked' /\ bar'[q] \in Barriers
                      /\ \A a \in Barriers : bar'[q] = a => q \in Party(a)'
    BY DEF Where
  <2>1. \A a : Party(a)' = Party(a) BY PartyFixed DEF Step
  <2>2. NULL \notin Barriers BY NullAssumption
  <2>3. CASE q = p BY <2>1, <2>2, <2>3 DEF Step
  <2>4. CASE q # p
    <3>1. bar'[q] = bar[q] /\ pc'[q] = pc[q] /\ forked' = forked BY <2>4 DEF Step
    <3> QED BY <2>1, <3>1 DEF IndInv, Where
  <2> QED BY <2>3, <2>4
<1>2. Setup' BY DEF Step, Setup
<1>3. ASSUME NEW a \in Barriers PROVE Round(a)'
  <2>1. CASE a = b BY <2>1
  <2>2. CASE a # b
    <3>1. Party(a)' = Party(a) BY PartyFixed DEF Step
    <3> QED BY <2>2, <3>1, OtherBarrier DEF Step
  <2> QED BY <2>1, <2>2
<1> QED BY <1>1, <1>2, <1>3 DEF IndInv

\* Entering, passing the gate and passing the wait change only p's place.
LEMMA PassStep ==
  ASSUME IndInv, TypeOK', NEW p, NEW b, Step(p, b), bar'[p] = b,
         UNCHANGED <<ticket, cleared, arrivals, departures>>,
         \/ ~At(p, b, {"take", "announce", "wait", "drop", "leave"}) /\ pc'[p] = "gate"
         \/ At(p, b, {"gate"}) /\ pc'[p] = "take" /\ cleared[b] = 0
         \/ At(p, b, {"wait"}) /\ pc'[p] = "drop" /\ cleared[b] = 1
  PROVE  IndInv'
<1> USE DEF Step
<1>0. Party(b)' = Party(b) /\ NumPart(b)' = NumPart(b) BY PartyFixed
<1>1. Round(b) BY DEF IndInv
<1>2. \A q \in Procs \ {p} : \A S : At(q, b, S)' <=> At(q, b, S) BY DEF At
<1>3. /\ ~At(p, b, {"announce", "leave"})' /\ ~At(p, b, {"announce", "leave"})
      /\ At(p, b, {"wait", "drop"})' <=> At(p, b, {"wait", "drop"})
  BY DEF At
<1>4. Inside(b)' = Inside(b) BY <1>2, <1>3 DEF Inside, At
<1>5. \A q \in Procs : (Opener(q, b)' <=> Opener(q, b)) /\ (Closer(q, b)' <=> Closer(q, b))
  BY <1>0, <1>3 DEF Opener, Closer, At
<1>6. Tickets(b)' BY <1>1, <1>4 DEF Round, Tickets
<1>7. Rounds(b)' BY <1>0, <1>1 DEF Round, Rounds
<1>8. Places(b)'
  <2> SUFFICES ASSUME NEW q \in Procs
               PROVE  /\ At(q, b, {"take"})' => cleared[b] = 0
                      /\ At(q, b, {"drop"})' => cleared[b] = 1
                      /\ Opener(q, b)' => cleared[b] = 0 /\ Inside(b)' = Party(b)'
                      /\ Closer(q, b)' => cleared[b] = 1 /\ Inside(b)' = {}
    BY DEF Places
  <2>1. /\ Opener(q, b)' => cleared[b] = 0 /\ Inside(b)' = Party(b)'
        /\ Closer(q, b)' => cleared[b] = 1 /\ Inside(b)' = {}
    BY <1>0, <1>1, <1>4, <1>5 DEF Round, Places
  <2>2. CASE q = p BY <2>1, <2>2 DEF At
  <2>3. CASE q # p BY <1>1, <1>2, <2>1, <2>3 DEF Round, Places
  <2> QED BY <2>2, <2>3
<1>9. Turns(b)' BY <1>0, <1>1, <1>4, <1>5 DEF Round, Turns
<1>10. Round(b)' BY <1>6, <1>7, <1>8, <1>9 DEF Round
<1> QED BY <1>10, StepFrame

\* A ticket is taken while the barrier is closed and not everybody is inside.
LEMMA TakeStep ==
  ASSUME IndInv, TypeOK', NEW p \in Procs, TakeTicket(p)
  PROVE  IndInv'
<1> USE DEF TypeOK
<1>0. PICK b : b = bar[p] OBVIOUS
<1>1. /\ b \in Barriers /\ p \in Party(b) /\ forked /\ pc[p] = "take"
  BY <1>0 DEF IndInv, Where, TakeTicket
<1>2. /\ ticket'[b] = ticket[b] + 1 /\ mine'[p] = ticket[b] + 1
      /\ arrivals' = [arrivals EXCEPT ![b][p] = @ + 1]
      /\ pc'[p] = "announce" /\ bar'[p] = b
      /\ UNCHANGED <<forked, participants, color, cleared, departures>>
  BY <1>0, <1>1 DEF IndInv, TakeTicket
<1>3. Step(p, b) BY <1>0, <1>1 DEF IndInv, Step, TakeTicket
<1>4. Round(b) /\ cleared[b] = 0
  BY <1>0, <1>1 DEF IndInv, Round, Places, At
<1>5. Party(b)' = Party(b) /\ NumPart(b)' = NumPart(b) BY <1>2, PartyFixed
<1>6. \A q \in Procs \ {p} : \A S : At(q, b, S)' <=> At(q, b, S) BY <1>3 DEF Step, At
<1>7. p \notin Inside(b) /\ Inside(b)' = Inside(b) \cup {p}
  <2>1. p \notin Inside(b) BY <1>1 DEF Inside, At
  <2>2. p \in Inside(b)' BY <1>2 DEF Inside, At
  <2>3. \A q \in Procs \ {p} : q \in Inside(b)' <=> q \in Inside(b) BY <1>6 DEF Inside
  <2>4. Inside(b) \subseteq Procs /\ Inside(b)' \subseteq Procs BY DEF Inside
  <2> QED BY <2>1, <2>2, <2>3, <2>4
<1>8. ticket'[b] = Cardinality(Inside(b)')
  <2>1. ticket[b] = Cardinality(Inside(b)) BY <1>4 DEF Round, Tickets
  <2>2. Cardinality(Inside(b) \cup {p}) = Cardinality(Inside(b)) + 1
    BY <1>7, InsideFacts, FS_AddElement
  <2> QED BY <1>2, <1>7, <2>1, <2>2
<1>9. Tickets(b)'
  <2> SUFFICES ASSUME NEW q \in Procs
               PROVE  arrivals'[b][q] = departures'[b][q] + (IF q \in Inside(b)' THEN 1 ELSE 0)
    BY <1>8 DEF Tickets
  <2>1. arrivals[b][q] = departures[b][q] + (IF q \in Inside(b) THEN 1 ELSE 0)
    BY <1>4 DEF Round, Tickets
  <2>2. arrivals'[b][q] = IF q = p THEN arrivals[b][q] + 1 ELSE arrivals[b][q]
    BY <1>1, <1>2 DEF IndInv
  <2> QED BY <1>1, <1>2, <1>7, <2>1, <2>2 DEF IndInv
<1>10. Rounds(b)' BY <1>2, <1>4, <1>5 DEF Round, Rounds
<1>11. \A q \in Procs : ~Opener(q, b) /\ ~Closer(q, b)
  BY <1>1, <1>4, <1>7 DEF Round, Places
<1>12. \A q \in Procs : (Opener(q, b)' => q = p) /\ ~Closer(q, b)'
  BY <1>0, <1>2, <1>3, <1>5, <1>6, <1>11 DEF Opener, Closer, At, Step
<1>13. mine'[p] = NumPart(b) => Inside(b)' = Party(b)
  <2> SUFFICES ASSUME mine'[p] = NumPart(b) PROVE Inside(b)' = Party(b)
    OBVIOUS
  <2>1. Inside(b)' \subseteq Party(b) BY <1>1, <1>7, InsideParty DEF IndInv
  <2>2. Cardinality(Inside(b)') = Cardinality(Party(b)) BY <1>2, <1>8 DEF NumPart
  <2> QED BY <2>1, <2>2, InsideFacts, FS_Subset
<1>14. Places(b)'
  <2> SUFFICES ASSUME NEW q \in Procs
               PROVE  /\ At(q, b, {"take"})' => cleared'[b] = 0
                      /\ At(q, b, {"drop"})' => cleared'[b] = 1
                      /\ Opener(q, b)' => cleared'[b] = 0 /\ Inside(b)' = Party(b)'
                      /\ Closer(q, b)' => cleared'[b] = 1 /\ Inside(b)' = {}
    BY DEF Places
  <2>1. ~Closer(q, b)' BY <1>12
  <2>2. Opener(q, b)' => cleared'[b] = 0 /\ Inside(b)' = Party(b)'
    BY <1>2, <1>4, <1>5, <1>12, <1>13 DEF Opener
  <2>3. (At(q, b, {"take"})' => cleared'[b] = 0) /\ (At(q, b, {"drop"})' => cleared'[b] = 1)
    <3>1. CASE q = p BY <1>2, <3>1 DEF At
    <3>2. CASE q # p BY <1>2, <1>4, <1>6, <3>2 DEF Round, Places
    <3> QED BY <3>1, <3>2
  <2> QED BY <2>1, <2>2, <2>3
<1>15. Turns(b)'
  <2>1. Inside(b)' = Party(b) => mine'[p] = NumPart(b) BY <1>2, <1>8 DEF NumPart
  <2>2. Inside(b)' = Party(b)' => Opener(p, b)' BY <1>2, <1>5, <2>1 DEF Opener, At
  <2> QED BY <1>2, <1>4, <1>12, <2>2 DEF Turns
<1>16. Round(b)' BY <1>9, <1>10, <1>14, <1>15 DEF Round
<1> QED BY <1>2, <1>3, <1>16, StepFrame
\* The last to take a ticket opens the barrier, with everybody inside.
LEMMA AnnounceStep ==
  ASSUME IndInv, TypeOK', NEW p \in Procs, Announce(p)
  PROVE  IndInv'
<1> USE DEF TypeOK
<1>0. PICK b : b = bar[p] OBVIOUS
<1>1. /\ b \in Barriers /\ p \in Party(b) /\ forked /\ pc[p] = "announce"
  BY <1>0 DEF IndInv, Where, Announce
<1>2. /\ cleared'[b] = (IF mine[p] = NumPart(b) THEN 1 ELSE cleared[b])
      /\ pc'[p] = "wait" /\ bar'[p] = b
      /\ UNCHANGED <<forked, participants, color, ticket, mine, arrivals, departures>>
  BY <1>0, <1>1 DEF IndInv, Announce
<1>3. Step(p, b) BY <1>0, <1>1 DEF IndInv, Step, Announce
<1>4. Round(b) BY <1>1 DEF IndInv
<1>5. Party(b)' = Party(b) /\ NumPart(b)' = NumPart(b) BY <1>2, PartyFixed
<1>6. \A q \in Procs \ {p} : \A S : At(q, b, S)' <=> At(q, b, S) BY <1>3 DEF Step, At
<1>7. Inside(b)' = Inside(b) /\ p \in Inside(b)
  <2>1. p \in Inside(b) BY <1>0, <1>1 DEF Inside, At
  <2>2. p \in Inside(b)' BY <1>2 DEF Inside, At
  <2>3. \A q \in Procs : q \in Inside(b)' <=> q \in Inside(b) BY <1>6, <2>1, <2>2 DEF Inside
  <2> QED BY <2>1, <2>3, SameInside
<1>8. Tickets(b)' BY <1>2, <1>4, <1>7 DEF Round, Tickets
<1>9. \A q \in Procs : Opener(q, b)' <=> Opener(q, b) /\ q # p
  BY <1>2, <1>3, <1>5, <1>6 DEF Opener, At, Step
<1>10. \A q \in Procs : ~Closer(q, b) /\ ~Closer(q, b)'
  <2>1. \A q \in Procs : ~Closer(q, b) BY <1>4, <1>7 DEF Round, Places
  <2> QED BY <1>2, <1>3, <1>6, <2>1 DEF Closer, At, Step
<1>11. CASE mine[p] = NumPart(b)
  <2>1. Opener(p, b) BY <1>0, <1>1, <1>11 DEF Opener, At
  <2>2. Inside(b) = Party(b) /\ cleared[b] = 0 BY <1>4, <2>1 DEF Round, Places
  <2>3. cleared'[b] = 1 BY <1>2, <1>11
  <2>4. \A q \in Procs : ~Opener(q, b)' BY <1>4, <1>9, <2>1 DEF Round, Turns
  <2>5. \A q, r \in Party(b) : arrivals[b][q] = arrivals[b][r]
    <3>1. \A q, r \in Party(b) : departures[b][q] = departures[b][r]
      BY <1>4, <2>2 DEF Round, Rounds
    <3>2. \A q \in Party(b) : arrivals[b][q] = departures[b][q] + 1
      BY <1>4, <2>2, InsideFacts DEF Round, Tickets
    <3> QED BY <3>1, <3>2
  <2>6. Rounds(b)' BY <1>2, <1>5, <2>3, <2>5 DEF Rounds
  <2>7. ASSUME NEW q \in Procs PROVE ~At(q, b, {"take"})'
    <3>1. CASE q = p BY <1>2, <3>1 DEF At
    <3>2. CASE q # p
      <4>1. q \in Inside(b) \/ q \notin Party(b) BY <2>2
      <4>2. ~At(q, b, {"take"}) BY <1>1, <4>1 DEF IndInv, Where, Inside, At
      <4> QED BY <1>6, <3>2, <4>2
    <3> QED BY <3>1, <3>2
  <2>8. Places(b)' BY <1>10, <2>3, <2>4, <2>7 DEF Places
  <2>9. Turns(b)' BY <1>1, <1>7, <1>10, <2>3, <2>4 DEF Turns
  <2>10. Round(b)' BY <1>8, <2>6, <2>8, <2>9 DEF Round
  <2> QED BY <1>2, <1>3, <2>10, StepFrame
<1>12. CASE mine[p] # NumPart(b)
  <2>1. cleared'[b] = cleared[b] BY <1>2, <1>12
  <2>2. Rounds(b)' BY <1>2, <1>4, <1>5, <2>1 DEF Round, Rounds
  <2>3. ASSUME NEW q \in Procs
        PROVE  /\ At(q, b, {"take"})' => cleared'[b] = 0
               /\ At(q, b, {"drop"})' => cleared'[b] = 1
    <3>1. CASE q = p BY <1>2, <3>1 DEF At
    <3>2. CASE q # p BY <1>4, <1>6, <2>1, <3>2 DEF Round, Places
    <3> QED BY <3>1, <3>2
  <2>4. \A q \in Procs : Opener(q, b)' => cleared'[b] = 0 /\ Inside(b)' = Party(b)'
    BY <1>4, <1>5, <1>7, <1>9, <2>1 DEF Round, Places
  <2>5. Places(b)' BY <1>10, <2>3, <2>4 DEF Places
  <2>6. Turns(b)'
    <3>1. ~Opener(p, b) BY <1>12 DEF Opener
    <3> QED BY <1>4, <1>5, <1>7, <1>9, <1>10, <2>1, <3>1 DEF Round, Turns
  <2>7. Round(b)' BY <1>8, <2>2, <2>5, <2>6 DEF Round
  <2> QED BY <1>2, <1>3, <2>7, StepFrame
<1> QED BY <1>11, <1>12

\* A ticket is given back while the barrier is open.
LEMMA DropStep ==
  ASSUME IndInv, TypeOK', NEW p \in Procs, DropTicket(p)
  PROVE  IndInv'
<1> USE DEF TypeOK
<1>0. PICK b : b = bar[p] OBVIOUS
<1>1. /\ b \in Barriers /\ p \in Party(b) /\ forked /\ pc[p] = "drop"
  BY <1>0 DEF IndInv, Where, DropTicket
<1>2. /\ ticket'[b] = ticket[b] - 1 /\ mine'[p] = ticket[b] - 1
      /\ departures' = [departures EXCEPT ![b][p] = @ + 1]
      /\ pc'[p] = "leave" /\ bar'[p] = b
      /\ UNCHANGED <<forked, participants, color, cleared, arrivals>>
  BY <1>0, <1>1 DEF IndInv, DropTicket
<1>3. Step(p, b) BY <1>0, <1>1 DEF IndInv, Step, DropTicket
<1>4. Round(b) /\ cleared[b] = 1
  BY <1>0, <1>1 DEF IndInv, Round, Places, At
<1>5. Party(b)' = Party(b) /\ NumPart(b)' = NumPart(b) BY <1>2, PartyFixed
<1>6. \A q \in Procs \ {p} : \A S : At(q, b, S)' <=> At(q, b, S) BY <1>3 DEF Step, At
<1>7. p \in Inside(b) /\ Inside(b)' = Inside(b) \ {p}
  <2>1. p \in Inside(b) BY <1>0, <1>1 DEF Inside, At
  <2>2. p \notin Inside(b)' BY <1>2 DEF Inside, At
  <2>3. \A q \in Procs \ {p} : q \in Inside(b)' <=> q \in Inside(b) BY <1>6 DEF Inside
  <2>4. Inside(b) \subseteq Procs /\ Inside(b)' \subseteq Procs BY DEF Inside
  <2> QED BY <2>1, <2>2, <2>3, <2>4
<1>8. ticket'[b] = Cardinality(Inside(b)')
  <2>1. ticket[b] = Cardinality(Inside(b)) BY <1>4 DEF Round, Tickets
  <2>2. Cardinality(Inside(b) \ {p}) = Cardinality(Inside(b)) - 1
    BY <1>7, InsideFacts, FS_RemoveElement
  <2> QED BY <1>2, <1>7, <2>1, <2>2
<1>9. Tickets(b)'
  <2> SUFFICES ASSUME NEW q \in Procs
               PROVE  arrivals'[b][q] = departures'[b][q] + (IF q \in Inside(b)' THEN 1 ELSE 0)
    BY <1>8 DEF Tickets
  <2>1. arrivals[b][q] = departures[b][q] + (IF q \in Inside(b) THEN 1 ELSE 0)
    BY <1>4 DEF Round, Tickets
  <2>2. departures'[b][q] = IF q = p THEN departures[b][q] + 1 ELSE departures[b][q]
    BY <1>1, <1>2 DEF IndInv
  <2> QED BY <1>1, <1>2, <1>7, <2>1, <2>2 DEF IndInv
<1>10. Rounds(b)' BY <1>2, <1>4, <1>5 DEF Round, Rounds
<1>11. \A q \in Procs : ~Opener(q, b) /\ ~Closer(q, b)
  BY <1>4, <1>7 DEF Round, Places
<1>12. \A q \in Procs : ~Opener(q, b)' /\ (Closer(q, b)' => q = p)
  BY <1>0, <1>2, <1>3, <1>5, <1>6, <1>11 DEF Opener, Closer, At, Step
<1>13. mine'[p] = 0 <=> Inside(b)' = {}
  <2>1. IsFiniteSet(Inside(b)') BY <1>7, InsideFacts, FS_RemoveElement
  <2>2. Cardinality(Inside(b)') = 0 <=> Inside(b)' = {} BY <2>1, FS_EmptySet
  <2> QED BY <1>2, <1>8, <2>2
<1>14. Places(b)'
  <2> SUFFICES ASSUME NEW q \in Procs
               PROVE  /\ At(q, b, {"take"})' => cleared'[b] = 0
                      /\ At(q, b, {"drop"})' => cleared'[b] = 1
                      /\ Opener(q, b)' => cleared'[b] = 0 /\ Inside(b)' = Party(b)'
                      /\ Closer(q, b)' => cleared'[b] = 1 /\ Inside(b)' = {}
    BY DEF Places
  <2>1. ~Opener(q, b)' BY <1>12
  <2>2. Closer(q, b)' => cleared'[b] = 1 /\ Inside(b)' = {}
    BY <1>2, <1>4, <1>12, <1>13 DEF Closer
  <2>3. (At(q, b, {"take"})' => cleared'[b] = 0) /\ (At(q, b, {"drop"})' => cleared'[b] = 1)
    <3>1. CASE q = p BY <1>2, <3>1 DEF At
    <3>2. CASE q # p BY <1>2, <1>4, <1>6, <3>2 DEF Round, Places
    <3> QED BY <3>1, <3>2
  <2> QED BY <2>1, <2>2, <2>3
<1>15. Turns(b)'
  <2>1. Inside(b)' = {} => Closer(p, b)' BY <1>2, <1>13 DEF Closer, At
  <2> QED BY <1>2, <1>4, <1>12, <2>1 DEF Turns
<1>16. Round(b)' BY <1>9, <1>10, <1>14, <1>15 DEF Round
<1> QED BY <1>2, <1>3, <1>16, StepFrame

\* The last to give a ticket back closes the barrier, with nobody inside.
LEMMA LeaveStep ==
  ASSUME IndInv, TypeOK', NEW p \in Procs, Leave(p)
  PROVE  IndInv'
<1> USE DEF TypeOK
<1>0. PICK b : b = bar[p] OBVIOUS
<1>1. /\ b \in Barriers /\ p \in Party(b) /\ forked /\ pc[p] = "leave"
  BY <1>0 DEF IndInv, Where, Leave
<1>2. /\ cleared'[b] = (IF mine[p] = 0 THEN 0 ELSE cleared[b])
      /\ pc'[p] = "out" /\ bar'[p] = NULL
      /\ UNCHANGED <<forked, participants, color, ticket, arrivals, departures>>
  BY <1>0, <1>1 DEF IndInv, Leave
<1>3. Step(p, b) BY <1>0, <1>1, NullAssumption DEF IndInv, Step, Leave
<1>4. Round(b) BY <1>1 DEF IndInv
<1>5. Party(b)' = Party(b) /\ NumPart(b)' = NumPart(b) BY <1>2, PartyFixed
<1>6. \A q \in Procs \ {p} : \A S : At(q, b, S)' <=> At(q, b, S) BY <1>3 DEF Step, At
<1>7. Inside(b)' = Inside(b)
  <2>1. p \notin Inside(b) BY <1>1 DEF Inside, At
  <2>2. p \notin Inside(b)' BY <1>2 DEF Inside, At
  <2>3. \A q \in Procs : q \in Inside(b)' <=> q \in Inside(b) BY <1>6, <2>1, <2>2 DEF Inside
  <2> QED BY <2>3, SameInside
<1>8. Tickets(b)' BY <1>2, <1>4, <1>7 DEF Round, Tickets
<1>9. ASSUME NEW q \in Procs
      PROVE  /\ Opener(q, b)' <=> Opener(q, b)
             /\ Closer(q, b)' <=> Closer(q, b) /\ q # p
  <2>1. CASE q = p BY <1>1, <1>2, <2>1 DEF Opener, Closer, At
  <2>2. CASE q # p BY <1>3, <1>5, <1>6, <2>2 DEF Opener, Closer, Step
  <2> QED BY <2>1, <2>2
<1>10. CASE mine[p] = 0
  <2>1. Closer(p, b) BY <1>0, <1>1, <1>10 DEF Closer, At
  <2>2. Inside(b) = {} /\ cleared[b] = 1 BY <1>4, <2>1 DEF Round, Places
  <2>3. cleared'[b] = 0 BY <1>2, <1>10
  <2>4. \A q \in Procs : ~Closer(q, b)' BY <1>4, <1>9, <2>1 DEF Round, Turns
  <2>5. \A q, r \in Party(b) : departures[b][q] = departures[b][r]
    <3>1. \A q, r \in Party(b) : arrivals[b][q] = arrivals[b][r]
      BY <1>4, <2>2 DEF Round, Rounds
    <3>2. ASSUME NEW q \in Party(b) PROVE arrivals[b][q] = departures[b][q]
      <4>1. q \in Procs /\ q \notin Inside(b) BY <2>2, InsideFacts
      <4>2. arrivals[b][q] = departures[b][q] + 0 BY <1>4, <4>1 DEF Round, Tickets
      <4>3. departures[b][q] \in Nat BY <1>1, <4>1 DEF IndInv
      <4> QED BY <4>2, <4>3
    <3> QED BY <3>1, <3>2
  <2>6. Rounds(b)' BY <1>2, <1>5, <2>3, <2>5 DEF Rounds
  <2>7. ASSUME NEW q \in Procs PROVE ~At(q, b, {"drop"})'
    <3>1. CASE q = p BY <1>2, <3>1 DEF At
    <3>2. CASE q # p
      <4>1. ~At(q, b, {"drop"}) BY <2>2 DEF Inside, At
      <4> QED BY <1>6, <3>2, <4>1
    <3> QED BY <3>1, <3>2
  <2>8. \A q \in Procs : ~Opener(q, b)' BY <1>4, <1>9, <2>2 DEF Round, Places
  <2>9. Places(b)' BY <2>3, <2>4, <2>7, <2>8 DEF Places
  <2>10. Turns(b)'
    <3>1. Inside(b)' # Party(b)' BY <1>1, <1>5, <1>7, <2>2
    <3> QED BY <2>3, <2>4, <2>8, <3>1 DEF Turns
  <2>11. Round(b)' BY <1>8, <2>6, <2>9, <2>10 DEF Round
  <2> QED BY <1>2, <1>3, <2>11, StepFrame
<1>11. CASE mine[p] # 0
  <2>1. cleared'[b] = cleared[b] BY <1>2, <1>11
  <2>2. Rounds(b)' BY <1>2, <1>4, <1>5, <2>1 DEF Round, Rounds
  <2>3. ASSUME NEW q \in Procs
        PROVE  /\ At(q, b, {"take"})' => cleared'[b] = 0
               /\ At(q, b, {"drop"})' => cleared'[b] = 1
    <3>1. CASE q = p BY <1>2, <3>1 DEF At
    <3>2. CASE q # p BY <1>4, <1>6, <2>1, <3>2 DEF Round, Places
    <3> QED BY <3>1, <3>2
  <2>4. \A q \in Procs : /\ Opener(q, b)' => cleared'[b] = 0 /\ Inside(b)' = Party(b)'
                         /\ Closer(q, b)' => cleared'[b] = 1 /\ Inside(b)' = {}
    BY <1>4, <1>5, <1>7, <1>9, <2>1 DEF Round, Places
  <2>5. Places(b)' BY <2>3, <2>4 DEF Places
  <2>6. ~Closer(p, b) BY <1>11 DEF Closer
  <2>7. Turns(b)' BY <1>4, <1>5, <1>7, <1>9, <2>1, <2>6 DEF Round, Turns
  <2>8. Round(b)' BY <1>8, <2>2, <2>5, <2>7 DEF Round
  <2> QED BY <1>2, <1>3, <2>8, StepFrame
<1> QED BY <1>10, <1>11
LEMMA IndNext == IndInv /\ [Next]_vars => IndInv'
<1> SUFFICES ASSUME IndInv, [Next]_vars PROVE IndInv'
  OBVIOUS
<1>0. TypeOK' BY TypeNext DEF IndInv
<1>1. CASE \/ Fork
           \/ \E b \in Barriers, bitmap \in Bitmaps, col \in Colors : BarrierInit(b, bitmap, col)
  BY <1>0, <1>1, SetupStep
<1>2. ASSUME NEW p \in Procs, NEW b \in Barriers, Call(p, b) PROVE IndInv'
  <2>1. bar[p] = NULL BY <1>2 DEF IndInv, Where, Call
  <2>2. bar'[p] = b /\ pc'[p] = "gate" BY <1>2 DEF IndInv, TypeOK, Call
  <2>3. Step(p, b) BY <1>2, <2>1, <2>2, NullAssumption DEF IndInv, TypeOK, Step, Call
  <2>4. ~At(p, b, {"take", "announce", "wait", "drop", "leave"}) BY <1>2 DEF At, Call
  <2>5. UNCHANGED <<ticket, cleared, arrivals, departures>> BY <1>2 DEF Call
  <2> QED BY <1>0, <2>2, <2>3, <2>4, <2>5, PassStep
<1>3. ASSUME NEW p \in Procs, PassGate(p) PROVE IndInv'
  <2>0. PICK b : b = bar[p] OBVIOUS
  <2>1. b \in Barriers /\ p \in Party(b) /\ forked BY <1>3, <2>0 DEF IndInv, Where, PassGate
  <2>2. bar'[p] = b /\ pc'[p] = "take" /\ At(p, b, {"gate"})
    BY <1>3, <2>0 DEF IndInv, TypeOK, PassGate, At
  <2>3. Step(p, b) BY <1>3, <2>0, <2>1 DEF IndInv, TypeOK, Step, PassGate
  <2>4. cleared[b] = 0 BY <1>3, <2>0, <2>1 DEF IndInv, TypeOK, PassGate
  <2>5. UNCHANGED <<ticket, cleared, arrivals, departures>> BY <1>3 DEF PassGate
  <2> QED BY <1>0, <2>2, <2>3, <2>4, <2>5, PassStep
<1>4. ASSUME NEW p \in Procs, TakeTicket(p) PROVE IndInv'
  BY <1>0, <1>4, TakeStep
<1>5. ASSUME NEW p \in Procs, Announce(p) PROVE IndInv'
  BY <1>0, <1>5, AnnounceStep
<1>6. ASSUME NEW p \in Procs, PassWait(p) PROVE IndInv'
  <2>0. PICK b : b = bar[p] OBVIOUS
  <2>1. b \in Barriers /\ p \in Party(b) /\ forked BY <1>6, <2>0 DEF IndInv, Where, PassWait
  <2>2. bar'[p] = b /\ pc'[p] = "drop" /\ At(p, b, {"wait"})
    BY <1>6, <2>0 DEF IndInv, TypeOK, PassWait, At
  <2>3. Step(p, b) BY <1>6, <2>0, <2>1 DEF IndInv, TypeOK, Step, PassWait
  <2>4. cleared[b] = 1 BY <1>6, <2>0, <2>1 DEF IndInv, TypeOK, PassWait
  <2>5. UNCHANGED <<ticket, cleared, arrivals, departures>> BY <1>6 DEF PassWait
  <2> QED BY <1>0, <2>2, <2>3, <2>4, <2>5, PassStep
<1>7. ASSUME NEW p \in Procs, DropTicket(p) PROVE IndInv'
  BY <1>0, <1>7, DropStep
<1>8. ASSUME NEW p \in Procs, Leave(p) PROVE IndInv'
  BY <1>0, <1>8, LeaveStep
<1>9. CASE UNCHANGED vars
  <2>1. \A b : Party(b)' = Party(b) /\ NumPart(b)' = NumPart(b)
    BY <1>9, PartyFixed DEF vars
  <2>2. \A p, b, S : At(p, b, S)' <=> At(p, b, S) BY <1>9 DEF vars, At
  <2>3. \A b : Inside(b)' = Inside(b) BY <2>2 DEF Inside
  <2>4. \A p, b : (Opener(p, b)' <=> Opener(p, b)) /\ (Closer(p, b)' <=> Closer(p, b))
    BY <1>9, <2>1, <2>2 DEF vars, Opener, Closer
  <2>5. Where' /\ Setup' BY <1>9, <2>1 DEF IndInv, vars, Where, Setup
  <2>6. ASSUME NEW b \in Barriers PROVE Round(b)'
    <3>1. Round(b) BY DEF IndInv
    <3>2. Tickets(b)' BY <1>9, <2>3, <3>1 DEF vars, Round, Tickets
    <3>3. Rounds(b)' BY <1>9, <2>1, <3>1 DEF vars, Round, Rounds
    <3>4. Places(b)' BY <1>9, <2>1, <2>2, <2>3, <2>4, <3>1 DEF vars, Round, Places
    <3>5. Turns(b)' BY <1>9, <2>1, <2>3, <2>4, <3>1 DEF vars, Round, Turns
    <3> QED BY <3>2, <3>3, <3>4, <3>5 DEF Round
  <2> QED BY <1>0, <2>5, <2>6 DEF IndInv
<1> QED
  BY <1>1, <1>2, <1>3, <1>4, <1>5, <1>6, <1>7, <1>8, <1>9 DEF Next, Wait

-----------------------------------------------------------------------------
(* The theorems *)

\* The inductive invariant of the barriers: how the tickets, the two counters
\* and the places of the processes in ssmp_barrier_wait hang together.
THEOREM Invariant == Spec => []IndInv
<1>1. Init => IndInv BY IndInit
<1>2. IndInv /\ [Next]_vars => IndInv' BY IndNext
<1> QED BY <1>1, <1>2, PTL DEF Spec

\* The variables of the barriers stay in their types.
THEOREM TypeCorrect == Spec => []TypeOK
<1>1. IndInv => TypeOK BY DEF IndInv
<1> QED BY <1>1, Invariant, PTL

\* What a process has left, every participant has entered.
LEMMA EarlyLemma == IndInv => NoneLeavesEarly
<1> SUFFICES ASSUME IndInv, NEW b \in Barriers, NEW p \in Party(b), NEW q \in Party(b)
             PROVE  departures[b][p] <= arrivals[b][q]
  BY DEF NoneLeavesEarly
<1>1. p \in Procs /\ q \in Procs BY InsideFacts
<1>2. Round(b) /\ cleared[b] \in {0, 1} BY DEF IndInv, TypeOK
<1>3. /\ departures[b][p] \in Nat /\ departures[b][q] \in Nat
      /\ arrivals[b][p] \in Nat /\ arrivals[b][q] \in Nat
  BY <1>1 DEF IndInv, TypeOK
<1>4. \A r \in {p, q} : departures[b][r] <= arrivals[b][r]
  BY <1>1, <1>2, <1>3 DEF Round, Tickets
<1>5. CASE cleared[b] = 0 BY <1>2, <1>3, <1>4, <1>5 DEF Round, Rounds
<1>6. CASE cleared[b] = 1 BY <1>2, <1>3, <1>4, <1>6 DEF Round, Rounds
<1> QED BY <1>2, <1>5, <1>6

\* ssmp_barrier_wait lets nobody out of a round before all participants are in.
THEOREM NobodyEarly == Spec => []NoneLeavesEarly
BY EarlyLemma, Invariant, PTL

\* What a process has entered, every participant has left but for one round.
LEMMA OverlapLemma == IndInv => NoOverlap
<1> SUFFICES ASSUME IndInv, NEW b \in Barriers, NEW p \in Party(b), NEW q \in Party(b)
             PROVE  arrivals[b][p] <= departures[b][q] + 1
  BY DEF NoOverlap
<1>1. p \in Procs /\ q \in Procs BY InsideFacts
<1>2. Round(b) /\ cleared[b] \in {0, 1} BY DEF IndInv, TypeOK
<1>3. /\ departures[b][p] \in Nat /\ departures[b][q] \in Nat
      /\ arrivals[b][p] \in Nat /\ arrivals[b][q] \in Nat
  BY <1>1 DEF IndInv, TypeOK
<1>4. \A r \in {p, q} : arrivals[b][r] <= departures[b][r] + 1
  BY <1>1, <1>2, <1>3 DEF Round, Tickets
<1>5. CASE cleared[b] = 0 BY <1>2, <1>3, <1>4, <1>5 DEF Round, Rounds
<1>6. CASE cleared[b] = 1 BY <1>2, <1>3, <1>4, <1>6 DEF Round, Rounds
<1> QED BY <1>2, <1>5, <1>6

\* The two counters of a barrier never serve two rounds at once.
THEOREM RoundsApart == Spec => []NoOverlap
BY OverlapLemma, Invariant, PTL

LEMMA ReuseLemma == IndInv => Reusable
<1> SUFFICES ASSUME IndInv, NEW b \in Barriers, \A p \in Procs : bar[p] # b
             PROVE  ticket[b] = 0 /\ cleared[b] = 0
  BY DEF Reusable
<1>1. Inside(b) = {} BY DEF Inside, At
<1>2. ~\E p \in Procs : Closer(p, b) BY DEF Closer, At
<1>3. Round(b) /\ cleared[b] \in {0, 1} BY DEF IndInv, TypeOK
<1>4. ticket[b] = 0 BY <1>1, <1>3, FS_EmptySet DEF Round, Tickets
<1>5. cleared[b] # 1 BY <1>1, <1>2, <1>3 DEF Round, Turns
<1> QED BY <1>3, <1>4, <1>5

\* A barrier that nobody is in is as ssmp_barrier_init left it.
THEOREM ReadyForReuse == Spec => []Reusable
BY ReuseLemma, Invariant, PTL

\* p is inside a wait, and neither the gate nor the wait keeps it.
CanGoOn(p) ==
  /\ pc[p] # "out"
  /\ pc[p] = "gate" => cleared[bar[p]] # 1
  /\ pc[p] = "wait" => cleared[bar[p]] # 0

\* Among the processes in a wait on b one can go on, or all of them wait for a
\* participant that is not there yet and is a round behind.
NobodyStuck ==
  \A b \in Barriers :
    (\E p \in Procs : bar[p] = b) =>
      \/ \E p \in Procs : bar[p] = b /\ CanGoOn(p)
      \/ \E p \in Party(b) :
           /\ bar[p] # b
           /\ \A q \in Procs : bar[q] = b => pc[q] = "wait" /\ arrivals[b][p] < arrivals[b][q]

LEMMA StuckLemma == IndInv => NobodyStuck
<1> SUFFICES ASSUME IndInv, NEW b \in Barriers, NEW r \in Procs, bar[r] = b,
                    ~\E p \in Procs : bar[p] = b /\ CanGoOn(p)
             PROVE  \E p \in Party(b) :
                      /\ bar[p] # b
                      /\ \A q \in Procs :
                           bar[q] = b => pc[q] = "wait" /\ arrivals[b][p] < arrivals[b][q]
  BY DEF NobodyStuck
<1>1. Round(b) /\ cleared[b] \in {0, 1} BY DEF IndInv, TypeOK
<1>2. ASSUME NEW q \in Procs, bar[q] = b
      PROVE  /\ q \in Party(b)
             /\ \/ pc[q] = "gate" /\ cleared[b] = 1
                \/ pc[q] = "wait" /\ cleared[b] = 0
  <2>1. q \in Party(b) /\ pc[q] # "out" BY <1>2, NullAssumption DEF IndInv, Where
  <2>2. ~CanGoOn(q) BY <1>2
  <2> QED BY <1>1, <1>2, <2>1, <2>2 DEF CanGoOn
\* An open barrier has somebody inside or about to close it: they can go on.
<1>3. cleared[b] = 0
  <2> SUFFICES ASSUME cleared[b] = 1 PROVE FALSE
    BY <1>1
  <2>1. \A q \in Procs : bar[q] = b => pc[q] = "gate" BY <1>2
  <2>2. Inside(b) = {} /\ ~\E q \in Procs : Closer(q, b) BY <2>1 DEF Inside, Closer, At
  <2> QED BY <1>1, <2>2 DEF Round, Turns
<1>4. \A q \in Procs : bar[q] = b => pc[q] = "wait" /\ q \in Inside(b)
  BY <1>2, <1>3 DEF Inside, At
<1>5. PICK p \in Party(b) : p \notin Inside(b)
  <2>1. ~\E q \in Procs : Opener(q, b) BY <1>4 DEF Opener, At
  <2>2. r \in Party(b) BY <1>2
  <2>3. Inside(b) # Party(b) BY <1>1, <1>3, <2>1, <2>2 DEF Round, Turns
  <2> QED BY <2>3, InsideParty DEF IndInv
<1>6. p \in Procs BY InsideFacts
<1>7. bar[p] # b BY <1>4, <1>5, <1>6
<1>8. ASSUME NEW q \in Procs, bar[q] = b PROVE arrivals[b][p] < arrivals[b][q]
  <2>1. q \in Party(b) BY <1>2, <1>8
  <2>2. departures[b][p] = departures[b][q] BY <1>1, <1>3, <2>1 DEF Round, Rounds
  <2>3. departures[b][p] \in Nat /\ departures[b][q] \in Nat BY <1>6 DEF IndInv, TypeOK
  <2>4. arrivals[b][q] = departures[b][q] + 1 BY <1>1, <1>4, <1>8 DEF Round, Tickets
  <2>5. arrivals[b][p] = departures[b][p] + 0 BY <1>1, <1>5, <1>6 DEF Round, Tickets
  <2> QED BY <2>2, <2>3, <2>4, <2>5
<1> QED BY <1>4, <1>7, <1>8

\* The barrier does not deadlock: of those who are in a wait one can always go
\* on, unless they wait for a participant that has not called yet.
THEOREM NoDeadlock == Spec => []NobodyStuck
BY StuckLemma, Invariant, PTL
-----------------------------------------------------------------------------
(* Refinement *)

LEMMA AbstractInit == Init => Abstract!Init
<1> SUFFICES ASSUME Init PROVE Abstract!Init
  OBVIOUS
<1>1. \A b \in Barriers : Party(b) \subseteq Procs BY DEF Party
<1>2. [b \in Barriers |-> Party(b)] \in [Barriers -> SUBSET Procs] BY <1>1
<1> QED BY <1>2 DEF Init, Abstract!Init

\* A step that takes no ticket and gives none back is a step of set-up or a
\* stutter.
LEMMA AbstractStutter ==
  ASSUME UNCHANGED <<participants, color, arrivals, departures>>
  PROVE  UNCHANGED Abstract!vars
<1>1. \A b : Party(b)' = Party(b) BY DEF Party
<1> QED BY <1>1 DEF Abstract!vars

LEMMA AbstractChoose ==
  ASSUME IndInv, NEW b \in Barriers, NEW bitmap \in Bitmaps, NEW col \in Colors,
         BarrierInit(b, bitmap, col)
  PROVE  Abstract!Next
<1>1. PICK S : S = Party(b)' OBVIOUS
<1>2. S \in SUBSET Procs BY <1>1 DEF Party
<1>3. ASSUME NEW a \in Barriers PROVE Party(a)' = IF a = b THEN S ELSE Party(a)
  <2>1. CASE a = b BY <1>1, <2>1
  <2>2. CASE a # b
    <3>1. color'[a] = color[a] /\ participants'[a] = participants[a]
      BY <2>2 DEF BarrierInit, IndInv, TypeOK
    <3> QED BY <2>2, <3>1 DEF Party
  <2> QED BY <2>1, <2>2
<1>4. [a \in Barriers |-> Party(a)]' = [[a \in Barriers |-> Party(a)] EXCEPT ![b] = S]
  BY <1>3
<1>5. ASSUME NEW a \in Barriers, NEW p \in Procs PROVE arrivals[a][p] = 0
  <2>1. \A q \in Procs : pc[q] = "out" BY DEF IndInv, Setup, BarrierInit
  <2>2. departures[a][p] = 0 BY DEF IndInv, Setup, BarrierInit
  <2>3. p \notin Inside(a) BY <2>1 DEF Inside, At
  <2> QED BY <2>2, <2>3 DEF IndInv, Round, Tickets
<1>6. UNCHANGED <<arrivals, departures>> BY DEF BarrierInit
<1>7. Abstract!Choose(b, S) BY <1>4, <1>5, <1>6 DEF Abstract!Choose
<1> QED BY <1>2, <1>7 DEF Abstract!Next

LEMMA AbstractArrive ==
  ASSUME IndInv, NEW p \in Procs, TakeTicket(p)
  PROVE  Abstract!Next
<1>0. PICK b : b = bar[p] OBVIOUS
<1>1. b \in Barriers /\ p \in Party(b) /\ pc[p] = "take"
  BY <1>0 DEF IndInv, Where, TakeTicket
<1>2. arrivals[b][p] = departures[b][p]
  <2>1. p \notin Inside(b) BY <1>1 DEF Inside, At
  <2>2. departures[b][p] \in Nat BY <1>1 DEF IndInv, TypeOK
  <2>3. arrivals[b][p] = departures[b][p] + 0 BY <1>1, <2>1 DEF IndInv, Round, Tickets
  <2> QED BY <2>2, <2>3
<1>3. arrivals' = [arrivals EXCEPT ![b][p] = @ + 1] BY <1>0 DEF TakeTicket
<1>4. UNCHANGED <<participants, color, departures>> BY DEF TakeTicket
<1>5. \A a : Party(a)' = Party(a) BY <1>4 DEF Party
<1>6. Abstract!Arrive(b, p) BY <1>1, <1>2, <1>3, <1>4, <1>5 DEF Abstract!Arrive
<1> QED BY <1>1, <1>6 DEF Abstract!Next

LEMMA AbstractDepart ==
  ASSUME IndInv, NEW p \in Procs, DropTicket(p)
  PROVE  Abstract!Next
<1>0. PICK b : b = bar[p] OBVIOUS
<1>1. b \in Barriers /\ p \in Party(b) /\ pc[p] = "drop"
  BY <1>0 DEF IndInv, Where, DropTicket
<1>2. Round(b) /\ cleared[b] = 1 BY <1>0, <1>1 DEF IndInv, Round, Places, At
<1>3. departures[b][p] < arrivals[b][p]
  <2>1. p \in Inside(b) BY <1>0, <1>1 DEF Inside, At
  <2>2. departures[b][p] \in Nat BY <1>1 DEF IndInv, TypeOK
  <2>3. arrivals[b][p] = departures[b][p] + 1 BY <1>2, <2>1 DEF Round, Tickets
  <2> QED BY <2>2, <2>3
<1>4. \A q \in Party(b) : departures[b][p] < arrivals[b][q]
  BY <1>1, <1>2, <1>3 DEF Round, Rounds
<1>5. departures' = [departures EXCEPT ![b][p] = @ + 1] BY <1>0 DEF DropTicket
<1>6. UNCHANGED <<participants, color, arrivals>> BY DEF DropTicket
<1>7. \A a : Party(a)' = Party(a) BY <1>6 DEF Party
<1>8. Abstract!Depart(b, p)
  BY <1>1, <1>3, <1>4, <1>5, <1>6, <1>7 DEF Abstract!Depart
<1> QED BY <1>1, <1>8 DEF Abstract!Next

\* The two counters of ssmp_barrier_wait implement the barrier: taking a ticket
\* is entering the round, giving it back is leaving it.
THEOREM Refinement == Spec => ImplementsBarrier
<1>1. Init => Abstract!Init BY AbstractInit
<1>2. ASSUME IndInv, [Next]_vars PROVE [Abstract!Next]_(Abstract!vars)
  <2>1. ASSUME NEW b \in Barriers, NEW bitmap \in Bitmaps, NEW col \in Colors,
               BarrierInit(b, bitmap, col)
        PROVE  Abstract!Next
    BY <1>2, <2>1, AbstractChoose
  <2>2. CASE Fork BY <2>2, AbstractStutter DEF Fork
  <2>3. ASSUME NEW p \in Procs, NEW b \in Barriers, Call(p, b)
        PROVE  UNCHANGED Abstract!vars
    BY <2>3, AbstractStutter DEF Call
  <2>4. ASSUME NEW p \in Procs, TakeTicket(p) PROVE Abstract!Next
    BY <1>2, <2>4, AbstractArrive
  <2>5. ASSUME NEW p \in Procs, DropTicket(p) PROVE Abstract!Next
    BY <1>2, <2>5, AbstractDepart
  <2>6. ASSUME NEW p \in Procs, PassGate(p) \/ Announce(p) \/ PassWait(p) \/ Leave(p)
        PROVE  UNCHANGED Abstract!vars
    BY <2>6, AbstractStutter DEF PassGate, Announce, PassWait, Leave
  <2>7. CASE UNCHANGED vars BY <2>7, AbstractStutter DEF vars
  <2> QED BY <1>2, <2>1, <2>2, <2>3, <2>4, <2>5, <2>6, <2>7 DEF Next, Wait
<1> QED BY <1>1, <1>2, Invariant, PTL DEF Spec, ImplementsBarrier, Abstract!Spec
=============================================================================
