-------------------------- MODULE AbstractBarrier --------------------------
(***************************************************************************)
(* What a barrier of ssmp promises: a participant leaves its k-th wait     *)
(* only when every participant has entered its k-th wait ("wait on a       *)
(* barrier until all participants reach this call", ssmp.h).               *)
(* SsmpBarrier.tla is shown to implement this module.                      *)
(***************************************************************************)
EXTENDS Naturals

CONSTANTS Procs,    \* the processes
          Barriers  \* the barriers

VARIABLES party,      \* party[b]: the participants of barrier b
          arrivals,   \* arrivals[b][p]: waits on b that p has entered
          departures  \* departures[b][p]: waits on b that p has left

vars == <<party, arrivals, departures>>

Init == /\ party \in [Barriers -> SUBSET Procs]
        /\ arrivals = [b \in Barriers |-> [p \in Procs |-> 0]]
        /\ departures = [b \in Barriers |-> [p \in Procs |-> 0]]

\* Participants are chosen before anybody waits.
Choose(b, S) == /\ \A a \in Barriers, p \in Procs : arrivals[a][p] = 0
                /\ party' = [party EXCEPT ![b] = S]
                /\ UNCHANGED <<arrivals, departures>>

Arrive(b, p) == /\ p \in party[b]
                /\ arrivals[b][p] = departures[b][p]
                /\ arrivals' = [arrivals EXCEPT ![b][p] = @ + 1]
                /\ UNCHANGED <<party, departures>>

Depart(b, p) == /\ p \in party[b]
                /\ departures[b][p] < arrivals[b][p]
                /\ \A q \in party[b] : departures[b][p] < arrivals[b][q]
                /\ departures' = [departures EXCEPT ![b][p] = @ + 1]
                /\ UNCHANGED <<party, arrivals>>

Next == \E b \in Barriers : \/ \E S \in SUBSET Procs : Choose(b, S)
                            \/ \E p \in Procs : Arrive(b, p) \/ Depart(b, p)

Spec == Init /\ [][Next]_vars
=============================================================================
