---------------------------- MODULE SsmpBarrier ----------------------------
(***************************************************************************)
(* The barriers of ssmp (x86 and sparc): two counters in shared memory,    *)
(* ticket and cleared, that every wait goes through twice.  A wait first   *)
(* waits for the round before it to drain (the gate), takes a ticket, the  *)
(* last of the participants opens the barrier, all give their ticket back, *)
(* and the one that gives back the last ticket closes it.  A wait is split *)
(* at every access to shared memory.                                       *)
(***************************************************************************)
EXTENDS Integers, FiniteSets

CONSTANTS
  N,          \* number of processes: ssmp_num_ues_
  Barriers,   \* the barrier numbers in use, below SSMP_NUM_BARRIERS
  Bits,       \* the processes a participants bitmap has a bit for: 0 .. 63
  NULL,       \* no color function; no barrier
  Bitmaps,    \* bitmaps the program passes to ssmp_barrier_init
  Colors,     \* color functions it passes, as sets of the ids they map to 1
  MaxRounds   \* bound: waits of a process on one barrier

Procs == 0 .. N - 1

ASSUME NAssumption == N \in Nat \ {0}
ASSUME BitsAssumption == Bits \subseteq Nat
ASSUME BitmapsAssumption == \A S \in Bitmaps : S \subseteq Bits
ASSUME ColorsAssumption == \A S \in Colors : S = NULL \/ S \subseteq Nat
ASSUME NullAssumption == NULL \notin Barriers
ASSUME MaxRoundsAssumption == MaxRounds \in Nat

VARIABLES
  forked,       \* the program has forked its processes
  participants, \* participants[b]: the bits set in the barrier's bitmap
  color,        \* color[b]: the barrier's color function, or NULL
  asked,        \* asked[b]: who the caller of ssmp_barrier_init asked for
  ticket,       \* ticket[b], in shared memory
  cleared,      \* cleared[b], in shared memory
  pc,           \* pc[p]: where in ssmp_barrier_wait p is
  bar,          \* bar[p]: the barrier p waits on
  mine,         \* mine[p]: my_ticket of p
  arrivals,     \* arrivals[b][p]: tickets of b that p has taken
  departures    \* departures[b][p]: tickets of b that p has given back

vars == <<forked, participants, color, asked, ticket, cleared, pc, bar, mine,
          arrivals, departures>>

\* Who waits on b: the color function has priority over the bitmap.
Party(b) == IF color[b] # NULL THEN Procs \cap color[b] ELSE Procs \cap participants[b]

\* A count that takes every process for a participant.
NumPart_Everybody(b) == Cardinality(Procs)

\* A loop over the processes that misses the last one.
NumPart_MissLast(b) == Cardinality(Party(b) \ {N - 1})

\* num_part: a color function maps an id to 0 or 1, so the sum is a count.
NumPart(b) == Cardinality(Party(b))

-----------------------------------------------------------------------------
(* Set-up, before the fork *)

\* ssmp_color_app: the ids that are not a multiple of 3.
ColorApp == {p \in Procs : p % 3 # 0}

\* ssmp_init gives every barrier to everybody, but barrier 1 to the
\* application processes.
Init ==
  /\ forked = FALSE
  /\ participants = [b \in Barriers |-> Bits]
  /\ color = [b \in Barriers |-> IF b = 1 THEN ColorApp ELSE NULL]
  /\ asked = [b \in Barriers |-> IF b = 1 THEN ColorApp ELSE Bits]
  /\ ticket = [b \in Barriers |-> 0]
  /\ cleared = [b \in Barriers |-> 0]
  /\ pc = [p \in Procs |-> "out"]
  /\ bar = [p \in Procs |-> NULL]
  /\ mine = [p \in Procs |-> 0]
  /\ arrivals = [b \in Barriers |-> [p \in Procs |-> 0]]
  /\ departures = [b \in Barriers |-> [p \in Procs |-> 0]]

\* ssmp_barrier_init sets all the bits whatever bitmap it is given.
BarrierInit(b, bitmap, col) ==
  /\ ~forked
  /\ participants' = [participants EXCEPT ![b] = Bits]
  /\ color' = [color EXCEPT ![b] = col]
  /\ ticket' = [ticket EXCEPT ![b] = 0]
  /\ cleared' = [cleared EXCEPT ![b] = 0]
  /\ asked' = [asked EXCEPT ![b] = IF col # NULL THEN col ELSE bitmap]
  /\ UNCHANGED <<forked, pc, bar, mine, arrivals, departures>>

Fork == /\ ~forked
        /\ forked' = TRUE
        /\ UNCHANGED <<participants, color, asked, ticket, cleared, pc, bar, mine,
                       arrivals, departures>>

-----------------------------------------------------------------------------
(* ssmp_barrier_wait *)

\* The call, up to the end of the loop that counts the participants.  For a
\* process that is not one of them the call returns there, having done nothing.
Call(p, b) ==
  /\ forked
  /\ pc[p] = "out"
  /\ p \in Party(b)
  /\ arrivals[b][p] < MaxRounds
  /\ bar' = [bar EXCEPT ![p] = b]
  /\ pc' = [pc EXCEPT ![p] = "gate"]
  /\ UNCHANGED <<forked, participants, color, asked, ticket, cleared, mine,
                 arrivals, departures>>

\* A wait without the gate.
PassGate_Open(p) ==
  /\ pc[p] = "gate"
  /\ pc' = [pc EXCEPT ![p] = "take"]
  /\ UNCHANGED <<forked, participants, color, asked, ticket, cleared, bar, mine,
                 arrivals, departures>>

\* while (b->cleared == 1)
PassGate(p) ==
  /\ pc[p] = "gate"
  /\ cleared[bar[p]] # 1
  /\ pc' = [pc EXCEPT ![p] = "take"]
  /\ UNCHANGED <<forked, participants, color, asked, ticket, cleared, bar, mine,
                 arrivals, departures>>

\* __sync_add_and_fetch(&b->ticket, 1)
TakeTicket(p) ==
  LET b == bar[p] IN
  /\ pc[p] = "take"
  /\ ticket' = [ticket EXCEPT ![b] = @ + 1]
  /\ mine' = [mine EXCEPT ![p] = ticket[b] + 1]
  /\ arrivals' = [arrivals EXCEPT ![b][p] = @ + 1]
  /\ pc' = [pc EXCEPT ![p] = "announce"]
  /\ UNCHANGED <<forked, participants, color, asked, cleared, bar, departures>>

\* A barrier opened with the number of the ticket.
Announce_Ticket(p) ==
  LET b == bar[p] IN
  /\ pc[p] = "announce"
  /\ cleared' = [cleared EXCEPT ![b] = IF mine[p] = NumPart(b) THEN mine[p] ELSE @]
  /\ pc' = [pc EXCEPT ![p] = "wait"]
  /\ UNCHANGED <<forked, participants, color, asked, ticket, bar, mine,
                 arrivals, departures>>

\* The last of the participants opens the barrier.
Announce(p) ==
  LET b == bar[p] IN
  /\ pc[p] = "announce"
  /\ cleared' = [cleared EXCEPT ![b] = IF mine[p] = NumPart(b) THEN 1 ELSE @]
  /\ pc' = [pc EXCEPT ![p] = "wait"]
  /\ UNCHANGED <<forked, participants, color, asked, ticket, bar, mine,
                 arrivals, departures>>

\* A wait that falls through.
PassWait_Through(p) ==
  /\ pc[p] = "wait"
  /\ pc' = [pc EXCEPT ![p] = "drop"]
  /\ UNCHANGED <<forked, participants, color, asked, ticket, cleared, bar, mine,
                 arrivals, departures>>

\* while (b->cleared == 0)
PassWait(p) ==
  /\ pc[p] = "wait"
  /\ cleared[bar[p]] # 0
  /\ pc' = [pc EXCEPT ![p] = "drop"]
  /\ UNCHANGED <<forked, participants, color, asked, ticket, cleared, bar, mine,
                 arrivals, departures>>

\* __sync_sub_and_fetch(&b->ticket, 1)
DropTicket(p) ==
  LET b == bar[p] IN
  /\ pc[p] = "drop"
  /\ ticket' = [ticket EXCEPT ![b] = @ - 1]
  /\ mine' = [mine EXCEPT ![p] = ticket[b] - 1]
  /\ departures' = [departures EXCEPT ![b][p] = @ + 1]
  /\ pc' = [pc EXCEPT ![p] = "leave"]
  /\ UNCHANGED <<forked, participants, color, asked, cleared, bar, arrivals>>

\* The first to leave closes the barrier, and the last does not.
Leave_FirstCloses(p) ==
  LET b == bar[p] IN
  /\ pc[p] = "leave"
  /\ cleared' = [cleared EXCEPT ![b] = IF mine[p] = NumPart(b) - 1 THEN 0 ELSE @]
  /\ pc' = [pc EXCEPT ![p] = "out"]
  /\ bar' = [bar EXCEPT ![p] = NULL]
  /\ mine' = [mine EXCEPT ![p] = 0]
  /\ UNCHANGED <<forked, participants, color, asked, ticket, arrivals, departures>>

\* The last to leave closes the barrier.
Leave(p) ==
  LET b == bar[p] IN
  /\ pc[p] = "leave"
  /\ cleared' = [cleared EXCEPT ![b] = IF mine[p] = 0 THEN 0 ELSE @]
  /\ pc' = [pc EXCEPT ![p] = "out"]
  /\ bar' = [bar EXCEPT ![p] = NULL]
  /\ mine' = [mine EXCEPT ![p] = 0]
  /\ UNCHANGED <<forked, participants, color, asked, ticket, arrivals, departures>>

-----------------------------------------------------------------------------
Wait(p) == \/ PassGate(p) \/ TakeTicket(p) \/ Announce(p)
           \/ PassWait(p) \/ DropTicket(p) \/ Leave(p)

Next == \/ \E b \in Barriers, bitmap \in Bitmaps, col \in Colors : BarrierInit(b, bitmap, col)
        \/ Fork
        \/ \E p \in Procs : Wait(p) \/ \E b \in Barriers : Call(p, b)

Spec == Init /\ [][Next]_vars

\* A process inside a wait spins on a core of its own; nothing makes a
\* process call the barrier.
Fairness == \A p \in Procs : WF_vars(Wait(p))

FairSpec == Spec /\ Fairness

-----------------------------------------------------------------------------
(* Properties *)

\* The variables stay in their types.
TypeOK ==
  /\ forked \in BOOLEAN
  /\ participants \in [Barriers -> SUBSET Nat]
  /\ color \in [Barriers -> {NULL} \cup SUBSET Nat]
  /\ asked \in [Barriers -> SUBSET Nat]
  /\ ticket \in [Barriers -> Int]
  /\ cleared \in [Barriers -> {0, 1}]
  /\ pc \in [Procs -> {"out", "gate", "take", "announce", "wait", "drop", "leave"}]
  /\ bar \in [Procs -> {NULL} \cup Barriers]
  /\ mine \in [Procs -> Int]
  /\ arrivals \in [Barriers -> [Procs -> Nat]]
  /\ departures \in [Barriers -> [Procs -> Nat]]

\* Nobody leaves a round of a barrier before every participant is in it.
NoneLeavesEarly ==
  \A b \in Barriers : \A p, q \in Party(b) : departures[b][p] <= arrivals[b][q]

\* Nobody enters the next round of a barrier while a participant is still in
\* the one before: the two counters never serve two rounds at once.
NoOverlap ==
  \A b \in Barriers : \A p, q \in Party(b) : arrivals[b][p] <= departures[b][q] + 1

\* A barrier nobody is in is as ssmp_barrier_init left it, ready for reuse.
Reusable ==
  \A b \in Barriers :
    (\A p \in Procs : bar[p] # b) => ticket[b] = 0 /\ cleared[b] = 0

Abstract == INSTANCE AbstractBarrier WITH party <- [b \in Barriers |-> Party(b)]

\* The two counters implement the barrier.
ImplementsBarrier == Abstract!Spec

\* p has reached its k-th wait on b.
Reached(b, k, p) == \/ arrivals[b][p] >= k
                    \/ arrivals[b][p] = k - 1 /\ bar[p] = b /\ pc[p] \in {"gate", "take"}

\* When all participants have reached a wait, all get out of it.
RoundCompletes ==
  \A b \in Barriers, k \in 1 .. MaxRounds :
    (\A p \in Party(b) : Reached(b, k, p)) ~> (\A p \in Party(b) : departures[b][p] >= k)

\* "The participants of the barrier can be provided either as a bitmap ... or
\* as a color function" (ssmp.h): who was not asked for does not wait.
OnlyAskedWait == \A p \in Procs : pc[p] # "out" => p \in asked[bar[p]]
=============================================================================
