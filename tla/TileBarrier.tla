---------------------------- MODULE TileBarrier ----------------------------
(***************************************************************************)
(* Barriers on the Tilera port.  They are those of the tmc library, which  *)
(* count: the first num_part calls wait for each other, whoever makes      *)
(* them.  ssmp_barrier_init counts the participants, but ssmp_barrier_wait *)
(* lets everybody in: that only participants call it is up to the program, *)
(* and MayWait assumes it.  tmc_sync_barrier_wait is modelled from how the *)
(* port uses it.                                                           *)
(***************************************************************************)
EXTENDS Integers, FiniteSets

CONSTANTS N,         \* num_procs
          Barriers,  \* barriers the program uses
          Colors,    \* sets of participants it may choose by a color function
          MaxRounds  \* bound: waits of a process on a barrier

Procs == 0 .. N - 1

Parameters == N \in Nat \ {0} /\ \A S \in Colors : S \subseteq Procs

VARIABLES
  forked,   \* the processes exist: the barriers are made before
  party,    \* party[b]: whom the color function picked, or everybody
  count,    \* count[b]: the number barrier b was made with
  waiting,  \* waiting[b]: processes inside tmc_sync_barrier_wait of b
  leaving,  \* leaving[b]: those of them that may leave
  arrivals, departures  \* history: waits entered and left

barrier == <<waiting, leaving, arrivals, departures>>
vars == <<forked, party, count, barrier>>

\* ssmp_init: every barrier is for all processes.
Init == /\ forked = FALSE
        /\ party = [b \in Barriers |-> Procs]
        /\ count = [b \in Barriers |-> N]
        /\ waiting = [b \in Barriers |-> {}]
        /\ leaving = [b \in Barriers |-> {}]
        /\ arrivals = [b \in Barriers |-> [p \in Procs |-> 0]]
        /\ departures = [b \in Barriers |-> [p \in Procs |-> 0]]

\* A count that leaves out process 0.
BarrierInit_FromOne(b, color) ==
  /\ ~forked
  /\ party' = [party EXCEPT ![b] = color]
  /\ count' = [count EXCEPT ![b] = Cardinality(color \ {0})]
  /\ UNCHANGED <<forked, barrier>>

\* A barrier that stays as ssmp_init has made it.
BarrierInit_Others(b, color) ==
  /\ ~forked
  /\ party' = [party EXCEPT ![b] = color]
  /\ count' = [count EXCEPT ![b] = N]
  /\ UNCHANGED <<forked, barrier>>

\* ssmp_barrier_init counts those of the color.
BarrierInit(b, color) ==
  /\ ~forked
  /\ party' = [party EXCEPT ![b] = color]
  /\ count' = [count EXCEPT ![b] = Cardinality(color)]
  /\ UNCHANGED <<forked, barrier>>

Fork == /\ ~forked
        /\ forked' = TRUE
        /\ UNCHANGED <<party, count, barrier>>

\* tmc_sync_barrier_wait: the call that completes the count frees all.  The
\* library asks nobody whether they participate.
Arrive(b, p) ==
  /\ forked
  /\ arrivals[b][p] < MaxRounds
  /\ \A a \in Barriers : arrivals[a][p] = departures[a][p]
  /\ arrivals' = [arrivals EXCEPT ![b][p] = @ + 1]
  /\ IF Cardinality(waiting[b]) + 1 = count[b]
     THEN /\ leaving' = [leaving EXCEPT ![b] = @ \cup waiting[b] \cup {p}]
          /\ waiting' = [waiting EXCEPT ![b] = {}]
     ELSE /\ waiting' = [waiting EXCEPT ![b] = @ \cup {p}]
          /\ UNCHANGED leaving
  /\ UNCHANGED <<forked, party, count, departures>>

Depart(b, p) ==
  /\ p \in leaving[b]
  /\ leaving' = [leaving EXCEPT ![b] = @ \ {p}]
  /\ departures' = [departures EXCEPT ![b][p] = @ + 1]
  /\ UNCHANGED <<forked, party, count, waiting, arrivals>>

\* Assumed of the program: who waits on a barrier is one of its participants.
\* The other ports let anybody else pass, here one more is counted in.
MayWait(b, p) == p \in party[b]

Next == \/ \E b \in Barriers, S \in Colors : BarrierInit(b, S)
        \/ Fork
        \/ \E b \in Barriers, p \in Procs : MayWait(b, p) /\ Arrive(b, p)
        \/ \E b \in Barriers, p \in Procs : Depart(b, p)

Spec == Init /\ [][Next]_vars

\* A call that may return does.
FairSpec == Spec /\ \A b \in Barriers, p \in Procs : WF_vars(Depart(b, p))

-----------------------------------------------------------------------------
(* Properties *)

TypeOK ==
  /\ forked \in BOOLEAN
  /\ party \in [Barriers -> SUBSET Procs]
  /\ count \in [Barriers -> 0 .. N]
  /\ waiting \in [Barriers -> SUBSET Procs]
  /\ leaving \in [Barriers -> SUBSET Procs]
  /\ \A b \in Barriers :
       /\ waiting[b] \cap leaving[b] = {}
       /\ waiting[b] \cup leaving[b] = {p \in Procs : departures[b][p] < arrivals[b][p]}
       /\ Cardinality(waiting[b]) < count[b] \/ waiting[b] = {}

Abstract == INSTANCE AbstractBarrier

\* When only participants wait, the barrier is that of the other ports.
ImplementsBarrier == Abstract!Spec

\* When all participants have entered a round, everybody leaves it.
RoundCompletes ==
  \A b \in Barriers, p \in Procs, r \in 1 .. MaxRounds :
    (arrivals[b][p] >= r /\ \A q \in party[b] : arrivals[b][q] >= r)
      ~> departures[b][p] >= r
=============================================================================
