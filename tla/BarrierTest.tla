---------------------------- MODULE BarrierTest ----------------------------
(***************************************************************************)
(* The benchmark barrier_test: in every repetition process 0 broadcasts    *)
(* the number of a barrier, which all then cross; at the end all cross     *)
(* barrier 10, which may also be crossed before.  Barrier 1 has the color  *)
(* function ssmp_color_app: for the others ssmp_barrier_wait(1) returns at *)
(* once, and they go on to the next repetition.                            *)
(* The messages are those of Channel.tla, the barriers those of            *)
(* AbstractBarrier.tla.                                                    *)
(***************************************************************************)
EXTENDS Integers

CONSTANTS N,        \* num_procs
          Barriers, \* the numbers that process 0 draws
          Reps,     \* num_reps
          None

Procs == 0 .. N - 1

Parameters ==
  /\ N \in Nat \ {0} /\ Reps \in Nat
  /\ {0, 10} \subseteq Barriers /\ Barriers \subseteq 0 .. 15 /\ None \notin Barriers

VARIABLES
  slot, got,                    \* the channels
  party, arrivals, departures,  \* the barriers
  pc,    \* pc[p]: where p is
  core,  \* loop variable of the ssmp_broadcast of process 0
  barr,  \* barr[p]: the barrier p crosses
  num    \* num[p]: repetitions p has done

channels == <<slot, got>>
barrier == <<party, arrivals, departures>>
vars == <<channels, barrier, pc, core, barr, num>>

Ch == INSTANCE Channel WITH MessagesOf <- [p \in Procs |-> Barriers]
Bar == INSTANCE AbstractBarrier

\* ssmp_color_app
color_app(id) == id % 3 # 0

Init == /\ Ch!Init
        /\ party = [b \in Barriers |-> IF b = 1 THEN {p \in Procs : color_app(p)} ELSE Procs]
        /\ arrivals = [b \in Barriers |-> [p \in Procs |-> 0]]
        /\ departures = [b \in Barriers |-> [p \in Procs |-> 0]]
        /\ pc = [p \in Procs |-> "begin"]
        /\ core = 0
        /\ barr = [p \in Procs |-> 0]
        /\ num = [p \in Procs |-> 0]

-----------------------------------------------------------------------------
\* ssmp_barrier_wait(b): it begins with Arrive, ends with Depart, and is over
\* at once for a process that does not participate.
WaitBegins(b, p) == Bar!Arrive(b, p) /\ UNCHANGED pc

WaitEnds(b, p, next) ==
  /\ \/ Bar!Depart(b, p)
     \/ p \notin party[b] /\ UNCHANGED barrier
  /\ pc' = [pc EXCEPT ![p] = next]

Begin(p) == /\ pc[p] = "begin"
            /\ WaitBegins(0, p) \/ WaitEnds(0, p, "loop")
            /\ UNCHANGED <<channels, core, barr, num>>

Draw == /\ pc[0] = "loop"
        /\ num[0] < Reps
        /\ \E b \in Barriers : barr' = [barr EXCEPT ![0] = b]
        /\ core' = 0
        /\ pc' = [pc EXCEPT ![0] = "broadcast"]
        /\ UNCHANGED <<channels, barrier, num>>

\* A broadcast that does not wait for the lines to be free.
Broadcast_NoSync ==
  /\ pc[0] = "broadcast"
  /\ slot' = IF core = 0 THEN slot ELSE [slot EXCEPT ![<<0, core>>] = barr[0]]
  /\ core' = core + 1
  /\ pc' = [pc EXCEPT ![0] = IF core + 1 < N THEN "broadcast" ELSE "cross"]
  /\ UNCHANGED <<got, barrier, barr, num>>

\* One round of the loop of ssmp_broadcast.
Broadcast == /\ pc[0] = "broadcast"
             /\ IF core = 0 THEN UNCHANGED channels ELSE Ch!Send(<<0, core>>, barr[0])
             /\ core' = core + 1
             /\ pc' = [pc EXCEPT ![0] = IF core + 1 < N THEN "broadcast" ELSE "cross"]
             /\ UNCHANGED <<barrier, barr, num>>

\* A receive that returns before the message is copied.
RecvFrom_Stale(p) ==
  /\ p # 0
  /\ pc[p] = "loop"
  /\ num[p] < Reps
  /\ Ch!Receive(<<0, p>>)
  /\ pc' = [pc EXCEPT ![p] = "cross"]
  /\ UNCHANGED <<barrier, core, barr, num>>

RecvFrom(p) == /\ p # 0
               /\ pc[p] = "loop"
               /\ num[p] < Reps
               /\ Ch!Receive(<<0, p>>)
               /\ barr' = [barr EXCEPT ![p] = slot[<<0, p>>]]
               /\ pc' = [pc EXCEPT ![p] = "cross"]
               /\ UNCHANGED <<barrier, core, num>>

Cross(p) == /\ pc[p] = "cross"
            /\ \/ WaitBegins(barr[p], p) /\ UNCHANGED num
               \/ WaitEnds(barr[p], p, "loop") /\ num' = [num EXCEPT ![p] = @ + 1]
            /\ UNCHANGED <<channels, core, barr>>

\* The last barrier, and ssmp_term.
Finish(p) == /\ pc[p] = "loop"
             /\ num[p] = Reps
             /\ WaitBegins(10, p) \/ WaitEnds(10, p, "term")
             /\ UNCHANGED <<channels, core, barr, num>>

Step(p) == \/ Begin(p) \/ RecvFrom(p) \/ Cross(p) \/ Finish(p)
           \/ p = 0 /\ (Draw \/ Broadcast)

Next == \E p \in Procs : Step(p)

Spec == Init /\ [][Next]_vars

\* Every process runs on a core of its own.
FairSpec == Spec /\ \A p \in Procs : WF_vars(Step(p))

-----------------------------------------------------------------------------
(* Properties *)

\* The variables stay in their types.
TypeOK ==
  /\ slot \in [Ch!Chan -> Barriers \cup {None}]
  /\ got \in [Procs -> [sender : Procs, msg : Barriers] \cup {None}]
  /\ party \in [Barriers -> SUBSET Procs]
  /\ arrivals \in [Barriers -> [Procs -> Nat]]
  /\ departures \in [Barriers -> [Procs -> Nat]]
  /\ pc \in [Procs -> {"begin", "loop", "broadcast", "cross", "term"}]
  /\ core \in 0 .. N
  /\ barr \in [Procs -> Barriers]
  /\ num \in [Procs -> 0 .. Reps]

Inside(p, b) == departures[b][p] < arrivals[b][p]

\* Those that wait on the same barrier do it in the same repetition, although
\* a barrier is used again and again, and at the end, and although some go
\* ahead of those that cross barrier 1.
InStep ==
  \A b \in Barriers : \A p, q \in party[b] :
    Inside(p, b) /\ Inside(q, b) /\ arrivals[b][p] = arrivals[b][q] => num[p] = num[q]

\* Everybody crosses in every repetition the barrier that was drawn for it.
SameBarrier ==
  \A p, q \in Procs :
    pc[p] = "cross" /\ pc[q] = "cross" /\ num[p] = num[q] => barr[p] = barr[q]

\* A line holds one message, so that process 0 is never more than two
\* repetitions ahead of anybody, even when nobody waits for anybody.
NotFarAhead == \A p \in Procs : num[0] <= num[p] + 2

\* The program ends.
Ended == \A p \in Procs : pc[p] = "term"
Terminates == <>Ended
=============================================================================
