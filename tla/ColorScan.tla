----------------------------- MODULE ColorScan -----------------------------
(***************************************************************************)
(* Color buffers, and in which order the receive calls of one process      *)
(* serve those that send to it.  ssmp_color_buf_init lists the senders a   *)
(* color function picks; ssmp_recv and ssmp_recv_color look at the flags   *)
(* from the first sender on in every call, ssmp_recv_color_start from      *)
(* where its last call has stopped, a position in the list that is static  *)
(* and so common to all color buffers of the process.                      *)
(*                                                                         *)
(* The messages are those of Channel.tla; here it matters only whether one *)
(* is pending.                                                             *)
(***************************************************************************)
EXTENDS Integers, Sequences

CONSTANTS
  N,        \* number of processes: ssmp_num_ues_
  Me,       \* the receiving process: ssmp_id_
  Buffers,  \* names of its color buffers
  Color,    \* Color[b]: the ids for which the color function of b gives 1
  CallSets  \* the choices of receive calls: sets of "recv", "color", "start"

Procs == 0 .. N - 1
Senders == Procs \ {Me}

ASSUME NAssumption == N \in Nat \ {0}
ASSUME MeAssumption == Me \in Procs
ASSUME ColorAssumption == Color \in [Buffers -> SUBSET Procs]
ASSUME CallSetsAssumption == CallSets \subseteq SUBSET {"recv", "color", "start"}

VARIABLES
  calls,    \* the receive calls the process makes
  ue,       \* ue[b]: loop variable of ssmp_color_buf_init, N when b is done
  from,     \* from[b]: the senders in color buffer b
  freed,    \* the color buffers are freed
  pending,  \* senders whose message waits
  start,    \* start_recv_from
  idx,      \* loop variable of ssmp_recv and ssmp_recv_color
  call,     \* the call Me is in, and with which buffer; or <<>>
  passed    \* passed[q][p]: times p was served in place of q since q has sent

vars == <<calls, ue, from, freed, pending, start, idx, call, passed>>

Init == /\ calls \in CallSets
        /\ ue = [b \in Buffers |-> 0]
        /\ from = [b \in Buffers |-> <<>>]
        /\ freed = FALSE
        /\ pending = {}
        /\ start = 0
        /\ idx = 0
        /\ call = <<>>
        /\ passed = [q \in Senders |-> [p \in Senders |-> 0]]

-----------------------------------------------------------------------------
\* A list that has the process itself in it.
List_Self(b) ==
  /\ ue[b] < N
  /\ from' = [from EXCEPT ![b] = IF ue[b] \in Color[b] THEN Append(@, ue[b]) ELSE @]
  /\ ue' = [ue EXCEPT ![b] = @ + 1]
  /\ UNCHANGED <<calls, freed, pending, start, idx, call, passed>>

\* One round of the loop of ssmp_color_buf_init that fills the lists.
List(b) ==
  /\ ue[b] < N
  /\ from' = [from EXCEPT ![b] = IF ue[b] \in Color[b] \ {Me} THEN Append(@, ue[b]) ELSE @]
  /\ ue' = [ue EXCEPT ![b] = @ + 1]
  /\ UNCHANGED <<calls, freed, pending, start, idx, call, passed>>

Ready == ~freed /\ call = <<>> /\ \A b \in Buffers : ue[b] = N

ColorBufFree == /\ Ready
                /\ freed' = TRUE
                /\ UNCHANGED <<calls, ue, from, pending, start, idx, call, passed>>

\* ssmp_send by q: its line was empty.
Send(q) == /\ q \notin pending
           /\ pending' = pending \cup {q}
           /\ passed' = [passed EXCEPT ![q] = [p \in Senders |-> 0]]
           /\ UNCHANGED <<calls, ue, from, freed, start, idx, call>>

-----------------------------------------------------------------------------
(* The receive calls *)

Enter(k, b) == /\ Ready
               /\ k \in calls
               /\ call' = <<k, b>>
               /\ idx' = 0
               /\ UNCHANGED <<calls, ue, from, freed, pending, start, passed>>

\* Those a call with buffer b can serve, and what serving p means for them.
Serve(p, others) ==
  /\ pending' = pending \ {p}
  /\ passed' = [q \in Senders |-> IF q \in (pending \cap others) \ {p}
                                  THEN [passed[q] EXCEPT ![p] = IF @ < 2 THEN @ + 1 ELSE @]
                                  ELSE passed[q]]
  /\ call' = <<>>

In(kind) == \E b \in Buffers : call = <<kind, b>>

\* ssmp_recv: the loop over all others.
RecvMiss == /\ In("recv")
            /\ idx = Me \/ idx \notin pending
            /\ idx' = IF idx + 1 = N THEN 0 ELSE idx + 1
            /\ UNCHANGED <<calls, ue, from, freed, pending, start, call, passed>>

RecvHit == /\ In("recv")
           /\ idx # Me /\ idx \in pending
           /\ Serve(idx, Senders)
           /\ UNCHANGED <<calls, ue, from, freed, start, idx>>

Current == from[call[2]]
Listed == {Current[i] : i \in 1 .. Len(Current)}

\* A loop that looks at each sender only once.
ColorMiss_Once == /\ In("color")
                  /\ idx < Len(Current)
                  /\ Current[idx + 1] \notin pending
                  /\ idx' = idx + 1
                  /\ UNCHANGED <<calls, ue, from, freed, pending, start, call, passed>>

\* ssmp_recv_color: the loop over the list, again and again.
ColorMiss == /\ In("color")
             /\ idx < Len(Current)
             /\ Current[idx + 1] \notin pending
             /\ idx' = IF idx + 1 = Len(Current) THEN 0 ELSE idx + 1
             /\ UNCHANGED <<calls, ue, from, freed, pending, start, call, passed>>

ColorHit == /\ In("color")
            /\ idx < Len(Current)
            /\ Current[idx + 1] \in pending
            /\ Serve(Current[idx + 1], Listed)
            /\ UNCHANGED <<calls, ue, from, freed, start, idx>>

\* ssmp_recv_color_start: start_recv_from is the loop variable itself.
StartMiss == /\ In("start")
             /\ start < Len(Current)
             /\ Current[start + 1] \notin pending
             /\ start' = start + 1
             /\ UNCHANGED <<calls, ue, from, freed, pending, idx, call, passed>>

\* A position that stays where it is at the end of the list.
StartWrap_Missing == /\ In("start")
                     /\ start >= Len(Current)
                     /\ UNCHANGED vars

StartWrap == /\ In("start")
             /\ start >= Len(Current)
             /\ start' = 0
             /\ UNCHANGED <<calls, ue, from, freed, pending, idx, call, passed>>

\* A call that does not move on from the sender it has served.
StartHit_Stays == /\ In("start")
                  /\ start < Len(Current)
                  /\ Current[start + 1] \in pending
                  /\ Serve(Current[start + 1], Listed)
                  /\ UNCHANGED <<calls, ue, from, freed, idx, start>>

StartHit == /\ In("start")
            /\ start < Len(Current)
            /\ Current[start + 1] \in pending
            /\ Serve(Current[start + 1], Listed)
            /\ start' = IF start + 1 = Len(Current) THEN 0 ELSE start + 1
            /\ UNCHANGED <<calls, ue, from, freed, idx>>

Receive == RecvMiss \/ RecvHit \/ ColorMiss \/ ColorHit
           \/ StartMiss \/ StartWrap \/ StartHit

EnterSome == \E k \in calls, b \in Buffers : Enter(k, b)

Next == \/ \E b \in Buffers : List(b)
        \/ ColorBufFree
        \/ EnterSome
        \/ Receive
        \/ \E q \in Senders : Send(q)

Spec == Init /\ [][Next]_vars

\* A server: it makes its color buffers, and calls again and again.
Fairness == /\ \A b \in Buffers : WF_vars(List(b))
            /\ WF_vars(Receive)
            /\ WF_vars(EnterSome)

FairSpec == Spec /\ Fairness

-----------------------------------------------------------------------------
(* Properties *)

\* The variables stay in their types.
TypeOK ==
  /\ calls \in CallSets
  /\ ue \in [Buffers -> 0 .. N]
  /\ from \in [Buffers -> Seq(Senders)]
  /\ \A b \in Buffers : Len(from[b]) <= ue[b]
  /\ freed \in BOOLEAN
  /\ pending \subseteq Senders
  /\ start \in 0 .. N
  /\ idx \in 0 .. N
  /\ call \in {<<>>} \cup (calls \X Buffers)
  /\ passed \in [Senders -> [Senders -> 0 .. 2]]

\* A color buffer lists, in ascending order, exactly the others that the
\* color function picks, among the ids looked at so far.
ListsColor ==
  \A b \in Buffers :
    /\ \A i, j \in 1 .. Len(from[b]) : i < j => from[b][i] < from[b][j]
    /\ {from[b][i] : i \in 1 .. Len(from[b])} = {p \in Color[b] \ {Me} : p < ue[b]}

\* With one color buffer recv_color_start is fair: nobody is served twice before one who waits.
Fair == calls = {"start"} => \A p \in Senders, q \in pending : passed[q][p] <= 1

\* Those that a color buffer is for are served in turn.
InTurn == ListsColor /\ Fair

\* With recv_color_start everybody who has sent is served.
EverybodyServed ==
  \A q \in Senders :
    calls = {"start"} /\ (\E b \in Buffers : q \in Color[b]) => (q \in pending ~> q \notin pending \/ freed)

\* With recv_color somebody who has sent is served, unless one with a smaller
\* id is served over and over.
OnlyLowerStarve ==
  \A q \in Senders :
    (\E b \in Buffers : q \in Color[b])
      => \/ []<>(q \notin pending \/ freed)
         \/ []<><<\E p \in Senders : p < q /\ p \in pending /\ p \notin pending'>>_vars
=============================================================================
