--------------------------- MODULE MemInitProofs ---------------------------
(***************************************************************************)
(* Theorems about MemInit, for any number of processes and whatever run    *)
(* came before, provided barrier 0 holds up everybody after a run that was *)
(* killed: then ues_initialized may be set from the start, and the barrier *)
(* alone makes start-up safe.                                              *)
(***************************************************************************)
EXTENDS MemInit, TLAPS

AllWait == "killed" \in Previous => Parties["killed"] \subseteq {Procs}

-----------------------------------------------------------------------------
(* The invariant *)

\* Where a process is before and after the barrier.
Stages ==
  \A p \in Procs :
    /\ pc[p] = "unborn" <=> ~forked
    /\ pc[p] = "unborn" => core[p] = p
    /\ pc[p] \notin {"enter", "leave"} => core[p] \in Procs
    /\ pc[p] = "report" => core[p] = 0
    /\ pc[p] = "leave" => p \in party[0]
    /\ big[p] = "NEW" => Up(p)

\* Who has arrived at the barrier has reset its lines, and who has left it has
\* seen all arrive.
Past(p) == PastReset(p) /\ pc[p] # "enter"

Barred ==
  \A p \in Procs :
    /\ arrivals[0][p] = IF p \in party[0] /\ Past(p) THEN 1 ELSE 0
    /\ departures[0][p] = IF p \in party[0] /\ Past(p) /\ pc[p] # "leave" THEN 1 ELSE 0
    /\ departures[0][p] = 1 => \A q \in party[0] : arrivals[0][q] = 1

\* Where the barrier does not hold up everybody the reports are of this run, as
\* they are whenever no killed run has left its own.
Held ==
  /\ before \in Previous
  /\ party[0] # Procs => before # "killed"

Reported ==
  before # "killed" =>
    /\ ~forked => main = None
    /\ \A p \in Procs : ready[p] => pc[p] \in {"await", "up", "gone", "crashed"}
    /\ \A p, q \in Procs : Up(p) \/ (pc[p] = "await" /\ q < core[p]) => ready[q]

\* The types of what the start-up of a process depends on.
Places == {"unborn", "open", "reopen", "truncate", "map", "reset", "enter",
           "leave", "report", "await", "up", "gone", "fault", "crashed"}

Typed ==
  /\ forked \in BOOLEAN
  /\ pc \in [Procs -> Places]
  /\ core \in [Procs -> Procs \cup {N}]
  /\ ready \in [Procs -> BOOLEAN]
  /\ big \in [Procs -> Flags]
  /\ party \in [{0} -> SUBSET Procs]
  /\ arrivals \in [{0} -> [Procs -> 0 .. 1]]
  /\ departures \in [{0} -> [Procs -> 0 .. 1]]

StartInv == Typed /\ Stages /\ Barred /\ Held /\ Reported

-----------------------------------------------------------------------------
(* The invariant holds *)

LEMMA Sizes ==
  ASSUME Parameters
  PROVE  /\ N \in Nat /\ N >= 2 /\ Procs = 0 .. N - 1 /\ 0 \in Procs /\ 1 \in Procs
         /\ N \notin Procs
BY DEF Parameters, Procs

LEMMA StartInit ==
  ASSUME Parameters, AllWait, Init
  PROVE  StartInv
<1>0. PICK l \in Left(before) : main = l.main
  BY DEF Init
<1>1. PICK everybody \in Parties[before] : party = [b \in {0} |-> everybody]
  BY DEF Init
<1>2. before \in Previous /\ before \in {"none", "killed", "exiting"}
  BY DEF Init, Parameters
<1>3. party \in [{0} -> SUBSET Procs] BY <1>1, <1>2 DEF Parameters
<1>4. Typed
  <2>1. arrivals \in [{0} -> [Procs -> 0 .. 1]] /\ departures \in [{0} -> [Procs -> 0 .. 1]]
    BY DEF Init
  <2>2. core \in [Procs -> Procs \cup {N}] /\ pc \in [Procs -> Places] BY DEF Init, Places
  <2>3. ready \in [Procs -> BOOLEAN] /\ big \in [Procs -> Flags] BY DEF Init, Flags
  <2> QED BY <1>3, <2>1, <2>2, <2>3 DEF Init, Typed
<1>5. Stages BY DEF Init, Stages
<1>6. \A p \in Procs : ~Past(p) BY DEF Init, Past, PastReset
<1>7. Barred BY <1>6 DEF Init, Barred
<1>8. Held BY <1>1, <1>2 DEF Held, AllWait
<1>9. before # "killed" => main = None BY <1>0, <1>2 DEF Left
<1>10. Reported BY <1>9 DEF Init, Reported, Up
<1> QED BY <1>4, <1>5, <1>7, <1>8, <1>10 DEF StartInv

\* What a step of p changes of pc, core and the barrier is about p.
LEMMA BarredStays ==
  ASSUME Barred, UNCHANGED barrier,
         \A p \in Procs : /\ p \in party[0] => (Past(p)' <=> Past(p))
                          /\ pc'[p] = "leave" <=> pc[p] = "leave"
  PROVE  Barred'
BY DEF Barred, barrier

LEMMA TypedStep ==
  ASSUME Parameters, StartInv, [Next]_vars
  PROVE  Typed'
<1>n. N \in Nat /\ N >= 2 /\ Procs = 0 .. N - 1 /\ 0 \in Procs /\ 1 \in Procs BY Sizes
<1>t. Typed /\ Stages /\ Barred BY DEF StartInv
<1>f. \A f \in {"EMPTY", "OLD", "NEW"} : f \in Flags BY DEF Flags
<1>s. ASSUME UNCHANGED <<forked, ready, barrier>>, big' \in [Procs -> Flags],
             pc' \in [Procs -> Places], core' \in [Procs -> Procs \cup {N}]
      PROVE  Typed'
  BY <1>s, <1>t DEF Typed, barrier
<1>1. CASE SsmpInit
  <2>1. (main # None) \in BOOLEAN OBVIOUS
  <2>2. ready' \in [Procs -> BOOLEAN] BY <1>1, <2>1 DEF SsmpInit
  <2>3. big' \in [Procs -> Flags] BY <1>1 DEF SsmpInit, Flags
  <2>4. pc' \in [Procs -> Places] /\ forked' = TRUE BY <1>1 DEF SsmpInit, Places
  <2> QED BY <1>1, <1>t, <2>2, <2>3, <2>4 DEF SsmpInit, Typed, barrier
<1>2. CASE OldTerminate BY <1>2, <1>s, <1>t DEF OldTerminate, Typed
<1>3. ASSUME NEW p \in Procs, OpenExcl(p) \/ Reopen(p) \/ Truncate(p) PROVE Typed'
  <2>1. pc' \in [Procs -> Places] BY <1>3, <1>t DEF OpenExcl, Reopen, Truncate, Typed, Places
  <2> QED BY <1>3, <1>s, <1>t, <2>1 DEF OpenExcl, Reopen, Truncate, Typed
<1>4. ASSUME NEW p \in Procs, Map(p) PROVE Typed'
  <2>1. core[p] \in Procs BY <1>4, <1>t DEF Map, Stages
  <2>2. NextPeer(p, core[p]) < N => NextPeer(p, core[p]) \in Procs
    BY <1>n, <2>1 DEF NextPeer
  <2>3. core' \in [Procs -> Procs \cup {N}] BY <1>4, <1>n, <1>t, <2>2 DEF Map, Typed
  <2>4. pc' \in [Procs -> Places] BY <1>4, <1>t DEF Map, Typed, Places
  <2> QED BY <1>4, <1>s, <1>t, <2>3, <2>4 DEF Map, Typed
<1>5. ASSUME NEW p \in Procs, ResetOne(p) PROVE Typed'
  <2>1. core[p] \in Procs BY <1>5, <1>t DEF ResetOne, Stages
  <2>2. core[p] + 1 \in Procs \cup {N} BY <1>n, <2>1
  <2>3. core' \in [Procs -> Procs \cup {N}] BY <1>5, <1>t, <2>2 DEF ResetOne, Typed
  <2>4. pc' \in [Procs -> Places] BY <1>5, <1>t DEF ResetOne, Typed, Places
  <2>5. big' \in [Procs -> Flags] BY <1>5, <1>t, <1>f DEF ResetOne, Typed
  <2> QED BY <1>5, <1>s, <2>3, <2>4, <2>5 DEF ResetOne
<1>6. ASSUME NEW p \in Procs, ResetFault(p) \/ SendFault(p) PROVE Typed'
  <2>1. pc' \in [Procs -> Places] BY <1>6, <1>t DEF ResetFault, SendFault, Fault, Typed, Places
  <2>2. big' \in [Procs -> Flags]
    BY <1>6, <1>t, <1>f DEF ResetFault, SendFault, Fault, Typed
  <2> QED BY <1>6, <1>s, <1>t, <2>1, <2>2 DEF ResetFault, SendFault, Fault, Typed
<1>7. ASSUME NEW p \in Procs, EnterBarrier(p) PROVE Typed'
  <2>1. pc' \in [Procs -> Places] /\ core' \in [Procs -> Procs \cup {N}]
    BY <1>7, <1>n, <1>t DEF EnterBarrier, ToPeers, Typed, Places
  <2>2. CASE p \in party[0]
    <3>1. pc[p] = "enter" /\ Bar!Arrive(0, p) BY <1>7, <2>2 DEF EnterBarrier
    <3>2. arrivals[0][p] = 0 BY <1>t, <3>1 DEF Barred, Past
    <3>3. arrivals' = [arrivals EXCEPT ![0][p] = arrivals[0][p] + 1] BY <3>1 DEF Bar!Arrive
    <3>4. arrivals' \in [{0} -> [Procs -> 0 .. 1]] BY <1>t, <3>2, <3>3 DEF Typed
    <3> QED BY <1>7, <1>t, <2>1, <3>1, <3>4 DEF EnterBarrier, Bar!Arrive, Typed
  <2>3. CASE p \notin party[0]
    BY <1>7, <1>s, <1>t, <2>1, <2>3 DEF EnterBarrier, Typed
  <2> QED BY <2>2, <2>3
<1>8. ASSUME NEW p \in Procs, LeaveBarrier(p) PROVE Typed'
  <2>1. pc' \in [Procs -> Places] /\ core' \in [Procs -> Procs \cup {N}]
    BY <1>8, <1>n, <1>t DEF LeaveBarrier, ToPeers, Typed, Places
  <2>2. pc[p] = "leave" /\ Bar!Depart(0, p) BY <1>8 DEF LeaveBarrier
  <2>3. departures[0][p] = 0 BY <1>t, <2>2 DEF Barred, Past
  <2>4. departures' = [departures EXCEPT ![0][p] = departures[0][p] + 1]
    BY <2>2 DEF Bar!Depart
  <2>5. departures' \in [{0} -> [Procs -> 0 .. 1]] BY <1>t, <2>3, <2>4 DEF Typed
  <2> QED BY <1>8, <1>t, <2>1, <2>2, <2>5 DEF LeaveBarrier, Bar!Depart, Typed
<1>9. ASSUME NEW p \in Procs, Report(p) PROVE Typed'
  BY <1>9, <1>t DEF Report, Typed, Places, barrier
<1>10. ASSUME NEW p \in Procs, Await(p) PROVE Typed'
  <2>1. core[p] \in Procs BY <1>10, <1>t DEF Await, Stages
  <2>2. core[p] + 1 < N => core[p] + 1 \in Procs BY <1>n, <2>1
  <2>3. core' \in [Procs -> Procs \cup {N}] BY <1>10, <1>n, <1>t, <2>2 DEF Await, Typed
  <2>4. pc' \in [Procs -> Places] BY <1>10, <1>t DEF Await, Typed, Places
  <2> QED BY <1>10, <1>s, <1>t, <2>3, <2>4 DEF Await, Typed
<1>11. ASSUME NEW p \in Procs, Send(p) \/ Receive(p) PROVE Typed'
  BY <1>11, <1>s, <1>t DEF Send, Receive, Typed
<1>12. ASSUME NEW p \in Procs, SendBig(p) \/ Terminate(p) PROVE Typed'
  BY <1>12, <1>f, <1>s, <1>t DEF SendBig, Terminate, Typed, Places
<1>13. CASE UNCHANGED vars BY <1>13, <1>s, <1>t DEF vars, Typed
<1> QED BY <1>1, <1>2, <1>3, <1>4, <1>5, <1>6, <1>7, <1>8, <1>9, <1>10, <1>11, <1>12,
           <1>13 DEF Next, Library, Program

LEMMA StagesStep ==
  ASSUME Parameters, StartInv, [Next]_vars
  PROVE  Stages'
<1>n. N \in Nat /\ N >= 2 /\ Procs = 0 .. N - 1 /\ 0 \in Procs /\ 1 \in Procs BY Sizes
<1>t. Typed /\ Stages BY DEF StartInv
<1>p. party' = party
  BY DEF vars, barrier, Next, Library, Program, SsmpInit, OldTerminate, OpenExcl, Reopen,
         Truncate, Map, ResetOne, ResetFault, SendFault, Fault, EnterBarrier, LeaveBarrier,
         Bar!Arrive, Bar!Depart, Report, Await, Send, SendBig, Receive, Terminate
<1>1. CASE SsmpInit BY <1>1, <1>t, <1>n, <1>p DEF SsmpInit, Stages, Typed, Up
<1>2. CASE OldTerminate BY <1>2, <1>t DEF OldTerminate, Stages, Up, barrier
<1>3. ASSUME NEW p \in Procs, OpenExcl(p) \/ Reopen(p) \/ Truncate(p) PROVE Stages'
  BY <1>3, <1>t, <1>p DEF OpenExcl, Reopen, Truncate, Stages, Typed, Up
<1>4. ASSUME NEW p \in Procs, Map(p) PROVE Stages'
  <2>1. core[p] \in Procs BY <1>4, <1>t DEF Map, Stages
  <2>2. NextPeer(p, core[p]) < N => NextPeer(p, core[p]) \in Procs
    BY <1>n, <2>1 DEF NextPeer
  <2> QED BY <1>4, <1>t, <1>p, <1>n, <2>2 DEF Map, Stages, Typed, Up
<1>5. ASSUME NEW p \in Procs, ResetOne(p) PROVE Stages'
  <2>1. core[p] \in Procs BY <1>5, <1>t DEF ResetOne, Stages
  <2>2. core[p] + 1 < N => core[p] + 1 \in Procs BY <1>n, <2>1
  <2> QED BY <1>5, <1>t, <1>p, <2>2 DEF ResetOne, Stages, Typed, Up
<1>6. ASSUME NEW p \in Procs, ResetFault(p) \/ SendFault(p) PROVE Stages'
  <2>1. big' = big \/ (core[p] \in Procs /\ big' = [big EXCEPT ![core[p]] = "EMPTY"])
    BY <1>6, <1>t DEF ResetFault, SendFault, Stages
  <2>2. \A q \in Procs : big'[q] = "NEW" => big[q] = "NEW" BY <1>t, <2>1 DEF Typed
  <2> QED BY <1>6, <1>t, <1>p, <2>2 DEF ResetFault, SendFault, Fault, Stages, Typed, Up
<1>7. ASSUME NEW p \in Procs, EnterBarrier(p) PROVE Stages'
  BY <1>7, <1>t, <1>p, <1>n DEF EnterBarrier, ToPeers, Stages, Typed, Up
<1>8. ASSUME NEW p \in Procs, LeaveBarrier(p) PROVE Stages'
  BY <1>8, <1>t, <1>p, <1>n DEF LeaveBarrier, ToPeers, Stages, Typed, Up
<1>9. ASSUME NEW p \in Procs, Report(p) PROVE Stages'
  BY <1>9, <1>t, <1>p DEF Report, Stages, Typed, Up
<1>10. ASSUME NEW p \in Procs, Await(p) PROVE Stages'
  <2>1. core[p] \in Procs BY <1>10, <1>t DEF Await, Stages
  <2>2. core[p] + 1 < N => core[p] + 1 \in Procs BY <1>n, <2>1
  <2> QED BY <1>10, <1>t, <1>p, <1>n, <2>2 DEF Await, Stages, Typed, Up
<1>11. ASSUME NEW p \in Procs, Send(p) \/ Receive(p) PROVE Stages'
  BY <1>11, <1>t, <1>p DEF Send, Receive, Stages, Up
<1>12. ASSUME NEW p \in Procs, SendBig(p) \/ Terminate(p) PROVE Stages'
  BY <1>12, <1>t, <1>p DEF SendBig, Terminate, Stages, Typed, Up
<1>13. CASE UNCHANGED vars BY <1>13, <1>t, <1>p DEF vars, Stages, Up
<1> QED BY <1>1, <1>2, <1>3, <1>4, <1>5, <1>6, <1>7, <1>8, <1>9, <1>10, <1>11, <1>12,
           <1>13 DEF Next, Library, Program

LEMMA BarredStep ==
  ASSUME Parameters, StartInv, [Next]_vars
  PROVE  Barred'
<1>n. N \in Nat /\ N >= 2 /\ Procs = 0 .. N - 1 /\ 0 \in Procs /\ 1 \in Procs BY Sizes
<1>t. Typed /\ Stages /\ Barred BY DEF StartInv
<1>1. CASE SsmpInit
  BY <1>1, <1>t, BarredStays DEF SsmpInit, Stages, Typed, Past, PastReset
<1>2. CASE OldTerminate
  BY <1>2, <1>t, BarredStays DEF OldTerminate, Past, PastReset
<1>3. ASSUME NEW p \in Procs, OpenExcl(p) \/ Reopen(p) \/ Truncate(p) PROVE Barred'
  <2>1. UNCHANGED barrier /\ UNCHANGED core BY <1>3 DEF OpenExcl, Reopen, Truncate
  <2>2. /\ pc[p] \in {"open", "reopen", "truncate"}
        /\ \E s \in {"reopen", "truncate", "map"} : pc' = [pc EXCEPT ![p] = s]
    BY <1>3 DEF OpenExcl, Reopen, Truncate
  <2> QED BY <1>t, <2>1, <2>2, BarredStays DEF Typed, Past, PastReset
<1>4. ASSUME NEW p \in Procs, Map(p) PROVE Barred'
  <2>1. core[p] \in Procs BY <1>4, <1>t DEF Map, Stages
  <2>2. NextPeer(p, core[p]) # p BY <1>n, <2>1 DEF NextPeer
  <2> QED BY <1>4, <1>t, <2>2, BarredStays DEF Map, Typed, Past, PastReset
<1>5. ASSUME NEW p \in Procs, ResetOne(p) PROVE Barred'
  BY <1>5, <1>t, BarredStays DEF ResetOne, Typed, Past, PastReset
<1>6. ASSUME NEW p \in Procs, ResetFault(p) \/ SendFault(p) PROVE Barred'
  BY <1>6, <1>t, BarredStays DEF ResetFault, SendFault, Fault, Typed, Past, PastReset
<1>7. ASSUME NEW p \in Procs, EnterBarrier(p) PROVE Barred'
  <2>1. CASE p \in party[0]
    <3>1. /\ pc[p] = "enter" /\ pc' = [pc EXCEPT ![p] = "leave"] /\ core' = core
          /\ party' = party /\ departures' = departures
          /\ arrivals' = [arrivals EXCEPT ![0][p] = @ + 1]
      BY <1>7, <2>1 DEF EnterBarrier, Bar!Arrive
    <3>2. ~Past(p) /\ Past(p)' BY <1>t, <3>1 DEF Typed, Past, PastReset
    <3>3. \A q \in Procs \ {p} : (Past(q)' <=> Past(q)) /\ pc'[q] = pc[q]
      BY <1>t, <3>1 DEF Typed, Past, PastReset
    <3>4. arrivals[0][p] = 0 /\ departures[0][p] = 0 BY <1>t, <3>2 DEF Barred
    <3>5. arrivals'[0][p] = 1 /\ \A q \in Procs \ {p} : arrivals'[0][q] = arrivals[0][q]
      BY <1>t, <3>1, <3>4 DEF Typed
    <3>6. pc'[p] = "leave" BY <1>t, <3>1 DEF Typed
    <3> QED BY <1>t, <2>1, <3>1, <3>2, <3>3, <3>4, <3>5, <3>6 DEF Barred
  <2>2. CASE p \notin party[0]
    BY <1>7, <1>t, <2>2, BarredStays DEF EnterBarrier, ToPeers, Typed, Past, PastReset
  <2> QED BY <2>1, <2>2
<1>8. ASSUME NEW p \in Procs, LeaveBarrier(p) PROVE Barred'
  <2>1. /\ pc[p] = "leave" /\ pc' = [pc EXCEPT ![p] = "open"]
        /\ core' = [core EXCEPT ![p] = IF p = 0 THEN 1 ELSE 0]
        /\ party' = party /\ arrivals' = arrivals
        /\ departures' = [departures EXCEPT ![0][p] = @ + 1]
        /\ p \in party[0] /\ departures[0][p] < arrivals[0][p]
        /\ \A q \in party[0] : departures[0][p] < arrivals[0][q]
    BY <1>8 DEF LeaveBarrier, ToPeers, Bar!Depart
  <2>2. pc'[p] = "open" /\ core'[p] # p BY <1>t, <2>1 DEF Typed
  <2>3. Past(p) /\ Past(p)' BY <2>1, <2>2 DEF Past, PastReset
  <2>4. \A q \in Procs \ {p} : (Past(q)' <=> Past(q)) /\ pc'[q] = pc[q]
    BY <1>t, <2>1 DEF Typed, Past, PastReset
  <2>5. departures[0][p] = 0 BY <1>t, <2>1 DEF Barred
  <2>6. departures'[0][p] = 1 /\ \A q \in Procs \ {p} : departures'[0][q] = departures[0][q]
    BY <1>t, <2>1, <2>5 DEF Typed
  <2>7. \A q \in party[0] : arrivals[0][q] = 1
    <3> SUFFICES ASSUME NEW q \in party[0] PROVE arrivals[0][q] = 1
      OBVIOUS
    <3>1. q \in Procs BY <1>t DEF Typed
    <3>2. arrivals[0][q] \in 0 .. 1 BY <1>t, <3>1 DEF Typed
    <3> QED BY <2>1, <2>5, <3>2
  <2> QED BY <1>t, <2>1, <2>2, <2>3, <2>4, <2>6, <2>7 DEF Barred
<1>9. ASSUME NEW p \in Procs, Report(p) \/ Await(p) PROVE Barred'
  <2>1. UNCHANGED barrier BY <1>9 DEF Report, Await
  <2>2. /\ pc[p] \in {"report", "await"}
        /\ \E s \in {"await", "up"} : pc' = [pc EXCEPT ![p] = s]
        /\ \A q \in Procs \ {p} : core'[q] = core[q]
    BY <1>9, <1>t DEF Report, Await, Typed
  <2> QED BY <1>t, <2>1, <2>2, BarredStays DEF Typed, Past, PastReset
<1>10. ASSUME NEW p \in Procs, Send(p) \/ SendBig(p) \/ Receive(p) PROVE Barred'
  BY <1>10, <1>t, BarredStays DEF Send, SendBig, Receive, Past, PastReset
<1>11. ASSUME NEW p \in Procs, Terminate(p) PROVE Barred'
  BY <1>11, <1>t, BarredStays DEF Terminate, Typed, Past, PastReset
<1>12. CASE UNCHANGED vars BY <1>12, <1>t, BarredStays DEF vars, Past, PastReset
<1> QED BY <1>1, <1>2, <1>3, <1>4, <1>5, <1>6, <1>7, <1>8, <1>9, <1>10, <1>11, <1>12
        DEF Next, Library, Program

LEMMA HeldStep ==
  ASSUME Held, [Next]_vars
  PROVE  Held'
<1>1. party' = party /\ before' = before
  BY DEF vars, barrier, files, past, Next, Library, Program, SsmpInit, OldTerminate, OpenExcl,
         Reopen, Truncate, Map, ResetOne, ResetFault, SendFault, Fault, EnterBarrier,
         LeaveBarrier, Bar!Arrive, Bar!Depart, Report, Await, Send, SendBig, Receive, Terminate
<1> QED BY <1>1 DEF Held

\* A step that neither reports nor ends a wait.
LEMMA ReportedStays ==
  ASSUME Typed, Stages, Reported, NEW p \in Procs, UNCHANGED <<before, ready, forked>>,
         forked,
         \A q \in Procs \ {p} : pc'[q] = pc[q] /\ core'[q] = core[q],
         \/ /\ pc[p] \notin {"await", "up", "gone", "crashed"}
            /\ pc'[p] \notin {"await", "up", "gone", "crashed"}
         \/ Up(p) /\ Up(p)'
  PROVE  Reported'
<1>1. CASE before = "killed" BY <1>1 DEF Reported
<1>2. CASE before # "killed"
  <2>1. \A q \in Procs : ready[q] => pc'[q] \in {"await", "up", "gone", "crashed"}
    BY <1>2 DEF Reported, Up
  <2>2. \A q, r \in Procs : Up(q)' \/ (pc'[q] = "await" /\ r < core'[q]) => ready[r]
    <3> SUFFICES ASSUME NEW q \in Procs, NEW r \in Procs,
                        Up(q)' \/ (pc'[q] = "await" /\ r < core'[q])
                 PROVE  ready[r]
      OBVIOUS
    <3>1. CASE q = p BY <1>2, <3>1 DEF Reported, Up
    <3>2. CASE q # p BY <1>2, <3>2 DEF Reported, Up
    <3> QED BY <3>1, <3>2
  <2> QED BY <2>1, <2>2 DEF Reported
<1> QED BY <1>1, <1>2

LEMMA ReportedStep ==
  ASSUME Parameters, StartInv, [Next]_vars
  PROVE  Reported'
<1>n. N \in Nat /\ N >= 2 /\ Procs = 0 .. N - 1 /\ 0 \in Procs /\ 1 \in Procs BY Sizes
<1>t. Typed /\ Stages /\ Reported BY DEF StartInv
<1>f. ASSUME NEW p \in Procs, pc[p] # "unborn" PROVE forked
  BY <1>f, <1>t DEF Typed, Stages
<1>1. CASE SsmpInit
  <2>1. CASE before = "killed" BY <1>1, <2>1 DEF SsmpInit, Reported, past
  <2>2. CASE before # "killed"
    <3>1. main = None /\ ~forked BY <1>1, <1>t, <2>2 DEF SsmpInit, Reported
    <3>2. ready' = [p \in Procs |-> FALSE] BY <1>1, <3>1 DEF SsmpInit
    <3>3. pc' = [p \in Procs |-> "open"] /\ forked' BY <1>1 DEF SsmpInit
    <3> QED BY <3>2, <3>3 DEF Reported, Up
  <2> QED BY <2>1, <2>2
<1>2. CASE OldTerminate BY <1>2, <1>t DEF OldTerminate, Reported, Up
<1>3. ASSUME NEW p \in Procs,
             \/ OpenExcl(p) \/ Reopen(p) \/ Truncate(p) \/ ResetFault(p) \/ SendFault(p)
             \/ LeaveBarrier(p)
      PROVE  Reported'
  <2>1. forked BY <1>3, <1>f DEF OpenExcl, Reopen, Truncate, ResetFault, SendFault, LeaveBarrier
  <2>2. UNCHANGED <<before, ready, forked>>
    BY <1>3 DEF OpenExcl, Reopen, Truncate, ResetFault, SendFault, Fault, LeaveBarrier,
                files, past
  <2>3. \A q \in Procs \ {p} : pc'[q] = pc[q] /\ core'[q] = core[q]
    BY <1>3, <1>t DEF OpenExcl, Reopen, Truncate, ResetFault, SendFault, Fault, LeaveBarrier,
                ToPeers, Typed
  <2>4. \/ /\ pc[p] \notin {"await", "up", "gone", "crashed"}
           /\ pc'[p] \notin {"await", "up", "gone", "crashed"}
        \/ Up(p) /\ Up(p)'
    BY <1>3, <1>t DEF OpenExcl, Reopen, Truncate, ResetFault, SendFault, Fault, LeaveBarrier,
                ToPeers, Typed, Up
  <2> QED BY <1>t, <2>1, <2>2, <2>3, <2>4, ReportedStays
<1>4. ASSUME NEW p \in Procs, Map(p) \/ ResetOne(p) \/ EnterBarrier(p) PROVE Reported'
  <2>1. forked BY <1>4, <1>f DEF Map, ResetOne, EnterBarrier
  <2>2. UNCHANGED <<before, ready, forked>>
    BY <1>4 DEF Map, ResetOne, EnterBarrier, files, past
  <2>3. /\ \A q \in Procs \ {p} : pc'[q] = pc[q] /\ core'[q] = core[q]
        /\ pc[p] \notin {"await", "up", "gone", "crashed"}
        /\ pc'[p] \notin {"await", "up", "gone", "crashed"}
    BY <1>4, <1>t DEF Map, ResetOne, EnterBarrier, ToPeers, Typed
  <2> QED BY <1>t, <2>1, <2>2, <2>3, ReportedStays
<1>5. ASSUME NEW p \in Procs, Report(p) PROVE Reported'
  <2>1. CASE before = "killed" BY <1>5, <2>1 DEF Report, Reported, files, past
  <2>2. CASE before # "killed"
    <3>1. /\ core[p] = 0 /\ core' = core /\ before' = before /\ forked' = forked
          /\ pc[p] = "report" /\ pc' = [pc EXCEPT ![p] = "await"]
          /\ ready' = [ready EXCEPT ![p] = TRUE]
      BY <1>5, <1>t DEF Report, Stages, files, past
    <3>2. forked BY <3>1, <1>f
    <3>3. \A q \in Procs : ready'[q] => pc'[q] \in {"await", "up", "gone", "crashed"}
      BY <1>t, <2>2, <3>1 DEF Typed, Reported
    <3>4. \A q, r \in Procs : Up(q)' \/ (pc'[q] = "await" /\ r < core'[q]) => ready'[r]
      <4> SUFFICES ASSUME NEW q \in Procs, NEW r \in Procs,
                          Up(q)' \/ (pc'[q] = "await" /\ r < core'[q])
                   PROVE  ready'[r]
        OBVIOUS
      <4>1. q # p BY <1>n, <1>t, <3>1 DEF Typed, Up
      <4>2. pc'[q] = pc[q] BY <1>t, <3>1, <4>1 DEF Typed
      <4>3. ready[r] BY <1>t, <2>2, <3>1, <4>2 DEF Reported, Up
      <4> QED BY <1>t, <3>1, <4>3 DEF Typed
    <3> QED BY <3>1, <3>2, <3>3, <3>4 DEF Reported
  <2> QED BY <2>1, <2>2
<1>6. ASSUME NEW p \in Procs, Await(p) PROVE Reported'
  <2>1. CASE before = "killed" BY <1>6, <2>1 DEF Await, Reported, files, past
  <2>2. CASE before # "killed"
    <3>1. /\ pc[p] = "await" /\ ready[core[p]] /\ core[p] \in Procs
          /\ ready' = ready /\ before' = before /\ forked' = forked
          /\ core' = [core EXCEPT ![p] = IF core[p] + 1 < N THEN core[p] + 1 ELSE 0]
          /\ pc' = [pc EXCEPT ![p] = IF core[p] + 1 < N THEN "await" ELSE "up"]
      BY <1>6, <1>t DEF Await, Stages, files, past
    <3>2. forked BY <3>1, <1>f
    <3>3. \A q \in Procs : ready[q] => pc'[q] \in {"await", "up", "gone", "crashed"}
      BY <1>t, <2>2, <3>1 DEF Typed, Reported
    <3>4. \A q, r \in Procs : Up(q)' \/ (pc'[q] = "await" /\ r < core'[q]) => ready[r]
      <4> SUFFICES ASSUME NEW q \in Procs, NEW r \in Procs,
                          Up(q)' \/ (pc'[q] = "await" /\ r < core'[q])
                   PROVE  ready[r]
        OBVIOUS
      <4>1. CASE q # p
        <5>1. pc'[q] = pc[q] /\ core'[q] = core[q] BY <1>t, <3>1, <4>1 DEF Typed
        <5> QED BY <1>t, <2>2, <5>1 DEF Reported, Up
      <4>2. CASE q = p
        <5>1. \A c \in Procs : c < core[p] => ready[c] BY <1>t, <2>2, <3>1 DEF Reported
        <5>2. CASE core[p] + 1 < N
          <6>1. core'[p] = core[p] + 1 /\ pc'[p] = "await" BY <1>t, <3>1, <5>2 DEF Typed
          <6>2. r < core[p] + 1 BY <4>2, <6>1 DEF Up
          <6>3. r = core[p] \/ r < core[p] BY <1>n, <3>1, <6>2
          <6> QED BY <3>1, <5>1, <6>3
        <5>3. CASE ~(core[p] + 1 < N)
          <6>1. r = core[p] \/ r < core[p] BY <1>n, <3>1, <5>3
          <6> QED BY <3>1, <5>1, <6>1
        <5> QED BY <5>2, <5>3
      <4> QED BY <4>1, <4>2
    <3> QED BY <3>1, <3>2, <3>3, <3>4 DEF Reported
  <2> QED BY <2>1, <2>2
<1>7. ASSUME NEW p \in Procs, Program(p) PROVE Reported'
  <2>1. pc[p] = "up" BY <1>7 DEF Program, Send, SendFault, SendBig, Receive, Terminate
  <2>2. UNCHANGED <<before, ready, forked>> /\ UNCHANGED core
    BY <1>7 DEF Program, Send, SendFault, Fault, SendBig, Receive, Terminate, files, past
  <2>3. /\ \A q \in Procs \ {p} : pc'[q] = pc[q]
        /\ pc'[p] \in {"up", "crashed", "gone"}
    BY <1>7, <1>t, <2>1
       DEF Program, Send, SendFault, Fault, SendBig, Receive, Terminate, Typed
  <2> QED BY <1>f, <1>t, <2>1, <2>2, <2>3, ReportedStays DEF Up
<1>8. CASE UNCHANGED vars BY <1>8, <1>t DEF vars, Reported, Up, files, past
<1> QED BY <1>1, <1>2, <1>3, <1>4, <1>5, <1>6, <1>7, <1>8 DEF Next, Library

LEMMA Invariant ==
  ASSUME Parameters, AllWait
  PROVE  Spec => []StartInv
<1>1. Init => StartInv BY StartInit
<1>2. StartInv /\ [Next]_vars => StartInv'
  BY TypedStep, StagesStep, BarredStep, HeldStep, ReportedStep DEF StartInv
<1> QED BY <1>1, <1>2, PTL DEF Spec

-----------------------------------------------------------------------------
(* What follows from it *)

\* Who is through ssmp_mem_init, or has seen the last report.
Through(p) ==
  Up(p) \/ (pc[p] = "await" /\ ready[core[p]] /\ ~(core[p] + 1 < N))

\* Nobody is through ssmp_mem_init before everybody's lines are reset.
LEMMA UpAfterResets ==
  ASSUME Parameters, StartInv, NEW p \in Procs, Through(p), NEW q \in Procs
  PROVE  PastReset(q)
<1>t. Typed /\ Stages /\ Barred /\ Held /\ Reported BY DEF StartInv
<1>1. CASE party[0] = Procs
  <2>1. Past(p) /\ pc[p] # "leave" BY DEF Through, Up, Past, PastReset
  <2>2. departures[0][p] = 1 BY <1>1, <1>t, <2>1 DEF Barred
  <2>3. arrivals[0][q] = 1 BY <1>1, <1>t, <2>2 DEF Barred
  <2>4. Past(q) BY <1>1, <1>t, <2>3 DEF Barred
  <2> QED BY <2>4 DEF Past
<1>2. CASE party[0] # Procs
  <2>0. before # "killed" BY <1>2, <1>t DEF Held
  <2>1. ready[q]
    <3>1. CASE Up(p) BY <1>t, <2>0, <3>1 DEF Reported
    <3>2. CASE pc[p] = "await" /\ ready[core[p]] /\ ~(core[p] + 1 < N)
      <4>1. core[p] \in Procs BY <1>t, <3>2 DEF Stages
      <4>2. q = core[p] \/ q < core[p] BY <3>2, <4>1, Sizes
      <4> QED BY <1>t, <2>0, <3>2, <4>2 DEF Reported
    <3> QED BY <3>1, <3>2 DEF Through
  <2> QED BY <1>t, <2>0, <2>1 DEF Reported, PastReset
<1> QED BY <1>1, <1>2

LEMMA StepRefines ==
  ASSUME Parameters, StartInv, [Next]_vars
  PROVE  [Abstract!Next]_(Abstract!vars)
<1>n. N \in Nat /\ N >= 2 /\ Procs = 0 .. N - 1 /\ 0 \in Procs /\ 1 \in Procs BY Sizes
<1>t. Typed /\ Stages BY DEF StartInv
<1>u. ASSUME \A p \in Procs : (PastReset(p)' <=> PastReset(p)) /\ (Up(p)' <=> Up(p))
      PROVE  UNCHANGED Abstract!vars
  BY <1>u DEF Abstract!vars
<1>1. CASE SsmpInit
  BY <1>1, <1>t, <1>u DEF SsmpInit, Stages, Typed, PastReset, Up
<1>2. CASE OldTerminate BY <1>2, <1>u DEF OldTerminate, PastReset, Up
<1>3. ASSUME NEW p \in Procs, OpenExcl(p) \/ Reopen(p) \/ Truncate(p)
      PROVE  UNCHANGED Abstract!vars
  <2>1. /\ UNCHANGED core
        /\ pc[p] \in {"open", "reopen", "truncate"}
        /\ \E s \in {"reopen", "truncate", "map"} : pc' = [pc EXCEPT ![p] = s]
    BY <1>3 DEF OpenExcl, Reopen, Truncate
  <2> QED BY <1>t, <1>u, <2>1 DEF Typed, PastReset, Up
<1>4. ASSUME NEW p \in Procs, Map(p) PROVE UNCHANGED Abstract!vars
  <2>1. core[p] \in Procs BY <1>4, <1>t DEF Map, Stages
  <2>2. NextPeer(p, core[p]) # p BY <1>n, <2>1 DEF NextPeer
  <2> QED BY <1>4, <1>t, <1>u, <2>2 DEF Map, Typed, PastReset, Up
<1>5. ASSUME NEW p \in Procs, ResetOne(p) PROVE [Abstract!Next]_(Abstract!vars)
  <2>0. /\ pc[p] = "reset"
        /\ pc' = [pc EXCEPT ![p] = IF core[p] + 1 < N THEN "reset" ELSE "enter"]
        /\ core' = [core EXCEPT ![p] = core[p] + 1]
    BY <1>5 DEF ResetOne
  <2>1. CASE core[p] + 1 < N
    <3>1. pc' = pc BY <1>t, <2>0, <2>1 DEF Typed
    <3> QED BY <1>t, <1>u, <2>0, <3>1 DEF Typed, PastReset, Up
  <2>2. CASE ~(core[p] + 1 < N)
    <3>1. pc' = [pc EXCEPT ![p] = "enter"] BY <2>0, <2>2
    <3>2. Abstract!Reset(p)
      BY <1>t, <2>0, <3>1 DEF Typed, Abstract!Reset, PastReset, Up
    <3> QED BY <3>2 DEF Abstract!Next
  <2> QED BY <2>1, <2>2
<1>6. ASSUME NEW p \in Procs, ResetFault(p) \/ SendFault(p) PROVE UNCHANGED Abstract!vars
  BY <1>6, <1>t, <1>u DEF ResetFault, SendFault, Fault, Typed, PastReset, Up
<1>7. ASSUME NEW p \in Procs, EnterBarrier(p) \/ LeaveBarrier(p)
      PROVE  UNCHANGED Abstract!vars
  <2>1. /\ pc[p] \in {"enter", "leave"}
        /\ \E s \in {"leave", "open"} : pc' = [pc EXCEPT ![p] = s]
        /\ \A q \in Procs \ {p} : core'[q] = core[q]
    BY <1>7, <1>t DEF EnterBarrier, LeaveBarrier, ToPeers, Typed
  <2>2. pc'[p] = "leave" \/ core'[p] # p
    BY <1>7, <1>t DEF EnterBarrier, LeaveBarrier, ToPeers, Typed
  <2> QED BY <1>t, <1>u, <2>1, <2>2 DEF Typed, PastReset, Up
<1>8. ASSUME NEW p \in Procs, Report(p) PROVE UNCHANGED Abstract!vars
  BY <1>8, <1>t, <1>u DEF Report, Typed, PastReset, Up
<1>9. ASSUME NEW p \in Procs, Await(p) PROVE [Abstract!Next]_(Abstract!vars)
  <2>0. /\ pc[p] = "await"
        /\ pc' = [pc EXCEPT ![p] = IF core[p] + 1 < N THEN "await" ELSE "up"]
        /\ \A q \in Procs \ {p} : core'[q] = core[q]
    BY <1>9, <1>t DEF Await, Typed
  <2>1. CASE core[p] + 1 < N
    <3>1. pc' = pc BY <1>t, <2>0, <2>1 DEF Typed
    <3> QED BY <1>t, <1>u, <2>0, <3>1 DEF Typed, PastReset, Up
  <2>2. CASE ~(core[p] + 1 < N)
    <3>1. pc' = [pc EXCEPT ![p] = "up"] BY <2>0, <2>2
    <3>2. Up(p)' /\ ~Up(p) BY <1>t, <2>0, <3>1 DEF Typed, Up
    <3>3. Through(p) BY <1>9, <2>2 DEF Await, Through
    <3>4. \A q \in Procs : PastReset(q) BY <3>3, UpAfterResets
    <3>5. Abstract!Return(p)
      <4>1. \A q \in Procs : PastReset(q)' BY <1>t, <2>0, <3>1, <3>4 DEF Typed, PastReset
      <4>2. \A q \in Procs \ {p} : Up(q)' <=> Up(q) BY <1>t, <3>1 DEF Typed, Up
      <4> QED BY <3>2, <3>4, <4>1, <4>2 DEF Abstract!Return
    <3> QED BY <3>5 DEF Abstract!Next
  <2> QED BY <2>1, <2>2
<1>10. ASSUME NEW p \in Procs, Send(p) \/ SendBig(p) \/ Receive(p)
       PROVE  UNCHANGED Abstract!vars
  BY <1>10, <1>u DEF Send, SendBig, Receive, PastReset, Up
<1>11. ASSUME NEW p \in Procs, Terminate(p) PROVE UNCHANGED Abstract!vars
  BY <1>11, <1>t, <1>u DEF Terminate, Typed, PastReset, Up
<1>12. CASE UNCHANGED vars BY <1>12, <1>u DEF vars, PastReset, Up
<1> QED BY <1>1, <1>2, <1>3, <1>4, <1>5, <1>6, <1>7, <1>8, <1>9, <1>10, <1>11, <1>12
        DEF Next, Library, Program

\* Whatever run came before, and although ues_initialized may be set from the
\* start, ssmp_mem_init returns to nobody before everybody has reset the lines
\* it receives in: start-up on x86 implements AbstractStartup.
THEOREM StartupCorrect ==
  ASSUME Parameters, AllWait
  PROVE  Spec => ImplementsStartup
<1>1. Init => Abstract!Init BY DEF Init, Abstract!Init, PastReset, Up
<1>2. StartInv /\ [Next]_vars => [Abstract!Next]_(Abstract!vars)
  BY StepRefines
<1> QED BY <1>1, <1>2, Invariant, PTL DEF Spec, ImplementsStartup, Abstract!Spec

\* Every process resets the chunk buffers of all, but none does when one of
\* them may hold a chunk of this run.
THEOREM ChunkSafe ==
  ASSUME Parameters, AllWait
  PROVE  Spec => ChunkStays
<1>1. ASSUME StartInv, [Next]_vars, NEW p \in Procs, big[p] = "NEW"
      PROVE  big'[p] = "NEW"
  <2>t. Typed /\ Stages BY <1>1 DEF StartInv
  <2>1. Up(p) BY <1>1, <2>t DEF Stages
  <2>2. \A q \in Procs : PastReset(q) BY <1>1, <2>1, UpAfterResets DEF Through
  <2>3. ~SsmpInit BY <2>1, <2>t DEF SsmpInit, Stages, Typed, Up
  <2>4. \A q \in Procs : ~ResetOne(q) /\ ~ResetFault(q)
    BY <2>2 DEF ResetOne, ResetFault, PastReset
  <2>5. ASSUME NEW q \in Procs, SendBig(q) PROVE big'[p] = "NEW"
    BY <1>1, <2>5, <2>t DEF SendBig, Typed
  <2>6. \/ \E q \in Procs : SendBig(q)
        \/ UNCHANGED big
    BY <1>1, <2>3, <2>4
       DEF vars, Next, Library, Program, OldTerminate, OpenExcl, Reopen, Truncate, Map,
           SendFault, Fault, EnterBarrier, LeaveBarrier, Report, Await, Send, Receive,
           Terminate
  <2> QED BY <1>1, <2>5, <2>6
<1>2. StartInv /\ [Next]_vars => [\A p \in Procs : big[p] = "NEW" => big'[p] = "NEW"]_big
  BY <1>1
<1> QED BY <1>2, Invariant, PTL DEF Spec, ChunkStays

-----------------------------------------------------------------------------
(* The types of all the rest: of files, and of what the program does *)

\* A process that sizes or maps a segment has opened it, and one that has
\* mapped its own keeps it.
HasOwn(p) == PastReset(p) \/ pc[p] = "reset"

Opened ==
  \A p \in Procs : /\ pc[p] \in {"truncate", "map"} => fd[p] \in Segs
                   /\ HasOwn(p) => seg[p][p] \in Segs

Rest ==
  /\ main \in {None} \cup (0 .. N) /\ chunks \in 0 .. N
  /\ name \in [Procs -> Segs \cup {None}]
  /\ sized \subseteq Segs
  /\ line \in [Segs -> [Lines -> Flags]]
  /\ before \in Previous /\ short \in BOOLEAN /\ lag \subseteq Procs /\ late \in BOOLEAN
  /\ fd \in [Procs -> Segs \cup {None}]
  /\ seg \in [Procs -> [Procs -> Segs \cup {None}]]
  /\ sent \in [Procs -> SUBSET Procs]
  /\ got \in [Procs -> SUBSET (Procs \X Flags)]
  /\ Opened

LEMMA NewSeg ==
  ASSUME NEW p \in Procs, NEW c \in Procs
  PROVE  <<"new", p, c>> \in Segs
BY DEF Segs, NewSegs

\* A store into a line, wherever it goes, leaves flags.
LEMMA StoreLine ==
  ASSUME line \in [Segs -> [Lines -> Flags]], NEW g, NEW k, NEW f \in Flags
  PROVE  [line EXCEPT ![g][k] = f] \in [Segs -> [Lines -> Flags]]
<1>1. CASE g \in Segs
  <2>1. line[g] \in [Lines -> Flags] BY <1>1
  <2>2. [line[g] EXCEPT ![k] = f] \in [Lines -> Flags] BY <2>1
  <2> QED BY <2>2
<1>2. CASE g \notin Segs BY <1>2
<1> QED BY <1>1, <1>2

LEMMA OpenedStays ==
  ASSUME Opened, UNCHANGED <<fd, seg>>,
         \A p \in Procs : /\ pc'[p] \in {"truncate", "map"} => pc[p] \in {"truncate", "map"}
                          /\ HasOwn(p)' => HasOwn(p)
  PROVE  Opened'
BY DEF Opened

\* The line a process looks at is one of its segment.
LEMMA LineType ==
  ASSUME Parameters, NEW p \in Procs, NEW q \in Procs, p # q
  PROVE  RecvLine(p, q) \in Lines
BY Sizes DEF RecvLine, Lines

\* What the run before can have left.
LEMMA LeftType ==
  ASSUME NEW run \in {"none", "killed", "exiting"}, NEW l \in Left(run)
  PROVE  /\ l.main \in {None} \cup (0 .. N) /\ l.names \subseteq Procs
         /\ l.whole \subseteq l.names /\ l.lag \subseteq Procs
         /\ run = "killed" => l.lag = {}
         /\ run # "killed" => Fits(l)
<1>1. CASE run = "none" BY <1>1 DEF Left, Fits
<1>2. CASE run = "killed" BY <1>2 DEF Left
<1>3. CASE run = "exiting" BY <1>3 DEF Left, Fits
<1> QED BY <1>1, <1>2, <1>3

LEMMA RestInit ==
  ASSUME Parameters, Init
  PROVE  Rest
<1>n. N \in Nat /\ 0 \in 0 .. N BY Sizes
<1>1. PICK l \in Left(before) :
        /\ main = l.main
        /\ name = [p \in Procs |-> IF p \in l.names THEN <<"old", p>> ELSE None]
        /\ sized = {"old"} \X l.whole
        /\ lag = l.lag
        /\ short = ~Fits(l)
  BY DEF Init
<1>2. before \in Previous /\ before \in {"none", "killed", "exiting"} BY DEF Init, Parameters
<1>3. /\ l.main \in {None} \cup (0 .. N) /\ l.names \subseteq Procs
      /\ l.whole \subseteq l.names /\ l.lag \subseteq Procs
  BY <1>2, LeftType
<1>4. \A p \in Procs : <<"old", p>> \in Segs BY DEF Segs, OldSegs
<1>5. name \in [Procs -> Segs \cup {None}] BY <1>1, <1>3, <1>4
<1>6. line \in [Segs -> [Lines -> Flags]] BY DEF Init, Flags
<1>7. sized \subseteq Segs BY <1>1, <1>3 DEF Segs, OldSegs
<1>8. seg \in [Procs -> [Procs -> Segs \cup {None}]] BY DEF Init
<1>9. main \in {None} \cup (0 .. N) /\ short \in BOOLEAN BY <1>1, <1>3
<1>10. fd \in [Procs -> Segs \cup {None}] /\ sent \in [Procs -> SUBSET Procs]
       /\ got \in [Procs -> SUBSET (Procs \X Flags)]
  BY DEF Init
<1>11. lag \subseteq Procs /\ late \in BOOLEAN /\ chunks \in 0 .. N
  BY <1>n, <1>1, <1>3 DEF Init
<1>12. Opened BY DEF Init, Opened, HasOwn, PastReset
<1> QED BY <1>2, <1>5, <1>6, <1>7, <1>8, <1>9, <1>10, <1>11, <1>12 DEF Rest

LEMMA RestStep ==
  ASSUME Parameters, StartInv, Rest, [Next]_vars
  PROVE  Rest'
<1>t. Typed /\ Stages BY DEF StartInv
<1>e. /\ "EMPTY" \in Flags /\ "NEW" \in Flags
  BY DEF Flags
<1>o. Opened BY DEF Rest
<1>1. CASE SsmpInit
  <2>0. Opened' BY <1>1, <1>o, <1>t, OpenedStays DEF SsmpInit, HasOwn, PastReset, Stages, Typed
  <2>1. chunks' \in 0 .. N /\ main' = chunks' BY <1>1, Sizes DEF SsmpInit, Rest
  <2> QED BY <1>1, <2>0, <2>1 DEF SsmpInit, Rest, past
<1>2. CASE OldTerminate
  <2>1. PICK p \in lag : name' = [name EXCEPT ![p] = None] /\ lag' = lag \ {p}
    BY <1>2 DEF OldTerminate
  <2>2. name' \in [Procs -> Segs \cup {None}] BY <2>1 DEF Rest
  <2>3. late' \in BOOLEAN /\ lag' \subseteq Procs BY <1>2, <1>t, <2>1 DEF OldTerminate, Rest, Typed
  <2>4. Opened' BY <1>2, <1>o, OpenedStays DEF OldTerminate, HasOwn, PastReset
  <2> QED BY <1>2, <2>2, <2>3, <2>4 DEF OldTerminate, Rest
<1>3. ASSUME NEW p \in Procs, OpenExcl(p) PROVE Rest'
  <2>1. core[p] \in Procs BY <1>3, <1>t DEF OpenExcl, Stages
  <2>2. PICK g : g = <<"new", p, core[p]>> OBVIOUS
  <2>3. g \in Segs BY <2>1, <2>2, NewSeg
  <2>4. CASE name[core[p]] = None
    <3>1. /\ fd' = [fd EXCEPT ![p] = g] /\ name' = [name EXCEPT ![core[p]] = g]
          /\ pc' = [pc EXCEPT ![p] = "truncate"]
      BY <1>3, <2>2, <2>4 DEF OpenExcl
    <3>2. fd' \in [Procs -> Segs \cup {None}] /\ name' \in [Procs -> Segs \cup {None}]
      BY <2>3, <3>1 DEF Rest
    <3>3. Opened'
      BY <1>3, <1>o, <1>t, <2>3, <3>1 DEF OpenExcl, Rest, Typed, Opened, HasOwn, PastReset
    <3> QED BY <1>3, <3>2, <3>3 DEF OpenExcl, Rest, past
  <2>5. CASE name[core[p]] # None
    <3>1. fd' = fd /\ name' = name /\ pc' = [pc EXCEPT ![p] = "reopen"]
      BY <1>3, <2>5 DEF OpenExcl
    <3>2. Opened'
      BY <1>3, <1>o, <1>t, <3>1, OpenedStays DEF OpenExcl, Typed, HasOwn, PastReset
    <3> QED BY <1>3, <3>1, <3>2 DEF OpenExcl, Rest, past
  <2> QED BY <2>4, <2>5
<1>4. ASSUME NEW p \in Procs, Reopen(p) PROVE Rest'
  <2>1. core[p] \in Procs BY <1>4, <1>t DEF Reopen, Stages
  <2>2. PICK g : g = IF name[core[p]] = None THEN <<"new", p, core[p]>> ELSE name[core[p]]
    OBVIOUS
  <2>3. g \in Segs BY <2>1, <2>2, NewSeg DEF Rest
  <2>4. /\ fd' = [fd EXCEPT ![p] = g] /\ name' = [name EXCEPT ![core[p]] = g]
        /\ pc' = [pc EXCEPT ![p] = "map"]
    BY <1>4, <2>2 DEF Reopen
  <2>5. fd' \in [Procs -> Segs \cup {None}] /\ name' \in [Procs -> Segs \cup {None}]
    BY <2>3, <2>4 DEF Rest
  <2>6. Opened'
    <3>1. fd \in [Procs -> Segs \cup {None}] BY DEF Rest
    <3>2. seg' = seg /\ core' = core /\ pc[p] = "reopen" BY <1>4 DEF Reopen
    <3>3. \A q \in Procs : pc'[q] \in {"truncate", "map"} => fd'[q] \in Segs
      BY <1>o, <1>t, <2>3, <2>4, <3>1 DEF Typed, Opened
    <3>4. \A q \in Procs : HasOwn(q)' => HasOwn(q)
      BY <1>t, <2>4, <3>2 DEF Typed, HasOwn, PastReset
    <3> QED BY <1>o, <3>2, <3>3, <3>4 DEF Opened
  <2> QED BY <1>4, <2>5, <2>6 DEF Reopen, Rest, past
<1>5. ASSUME NEW p \in Procs, Truncate(p) PROVE Rest'
  <2>1. fd[p] \in Segs BY <1>5, <1>o DEF Truncate, Opened
  <2>2. sized' \subseteq Segs BY <1>5, <2>1 DEF Truncate, Rest
  <2>3. Opened' BY <1>5, <1>o, <1>t, OpenedStays DEF Truncate, Typed, HasOwn, PastReset
  <2> QED BY <1>5, <2>2, <2>3 DEF Truncate, Rest, past
<1>6. ASSUME NEW p \in Procs, Map(p) PROVE Rest'
  <2>1. core[p] \in Procs BY <1>6, <1>t DEF Map, Stages
  <2>2. seg' \in [Procs -> [Procs -> Segs \cup {None}]]
    <3>1. fd[p] \in Segs \cup {None} BY DEF Rest
    <3> QED BY <1>6, <2>1, <3>1 DEF Map, Rest
  <2>3. Opened'
    <3>1. fd[p] \in Segs BY <1>6, <1>o DEF Map, Opened
    <3>2. \A q \in Procs : pc'[q] \in {"truncate", "map"} => pc[q] \in {"truncate", "map"}
      BY <1>6, <1>t DEF Map, Typed
    <3>3. ASSUME NEW q \in Procs, HasOwn(q)' PROVE seg'[q][q] \in Segs
      <4>1. CASE q # p
        <5>1. HasOwn(q) BY <1>6, <1>t, <3>3, <4>1 DEF Map, Typed, HasOwn, PastReset
        <5>2. seg'[q] = seg[q] BY <1>6, <4>1 DEF Map, Rest
        <5> QED BY <1>o, <5>1, <5>2 DEF Opened
      <4>2. CASE q = p /\ core[p] = p
        <5>1. seg' = [seg EXCEPT ![p][p] = fd[p]] BY <1>6, <4>2 DEF Map
        <5> QED BY <3>1, <4>2, <5>1 DEF Rest
      <4>3. CASE q = p /\ core[p] # p
        <5>1. HasOwn(p) BY <1>6, <4>3 DEF Map, HasOwn, PastReset
        <5>2. seg'[p][p] = seg[p][p] BY <1>6, <4>3 DEF Map, Rest
        <5> QED BY <1>o, <4>3, <5>1, <5>2 DEF Opened
      <4> QED BY <4>1, <4>2, <4>3
    <3> QED BY <1>6, <1>o, <3>2, <3>3 DEF Map, Opened
  <2> QED BY <1>6, <2>2, <2>3 DEF Map, Rest, past, files
<1>7. ASSUME NEW p \in Procs, ResetOne(p) PROVE Rest'
  <2>1. line' \in [Segs -> [Lines -> Flags]]
    BY <1>7, <1>e, StoreLine DEF ResetOne, Rest
  <2>2. Opened' BY <1>7, <1>o, <1>t, OpenedStays DEF ResetOne, Typed, HasOwn, PastReset
  <2> QED BY <1>7, <2>1, <2>2 DEF ResetOne, Rest, past, files
<1>8. ASSUME NEW p \in Procs,
             \/ ResetFault(p) \/ SendFault(p) \/ EnterBarrier(p) \/ LeaveBarrier(p)
             \/ Report(p) \/ Await(p)
      PROVE  Rest'
  <2>1. UNCHANGED <<files, chunks, line, fd, seg, sent, got>>
    BY <1>8 DEF ResetFault, SendFault, Fault, EnterBarrier, LeaveBarrier, Report, Await
  <2>2. \A q \in Procs : /\ pc'[q] \in {"truncate", "map"} => pc[q] \in {"truncate", "map"}
                         /\ HasOwn(q)' => HasOwn(q)
    BY <1>8, <1>t DEF ResetFault, SendFault, Fault, EnterBarrier, LeaveBarrier, ToPeers,
                      Report, Await, Typed, HasOwn, PastReset
  <2>3. Opened' BY <1>o, <2>1, <2>2, OpenedStays
  <2> QED BY <2>1, <2>3 DEF Rest, past, files
<1>9. ASSUME NEW p \in Procs, Send(p) PROVE Rest'
  <2>1. PICK q \in Procs :
          /\ line' = [line EXCEPT ![seg[p][q]][SendLine(p, q)] = "NEW"]
          /\ sent' = [sent EXCEPT ![p] = @ \cup {q}]
    BY <1>9 DEF Send
  <2>2. line' \in [Segs -> [Lines -> Flags]] BY <1>e, <2>1, StoreLine DEF Rest
  <2>3. sent' \in [Procs -> SUBSET Procs] BY <2>1 DEF Rest
  <2>4. Opened' BY <1>9, <1>o, OpenedStays DEF Send, HasOwn, PastReset
  <2> QED BY <1>9, <2>2, <2>3, <2>4 DEF Send, Rest, past, files
<1>10. ASSUME NEW p \in Procs, Receive(p) PROVE Rest'
  <2>1. PICK q \in Procs :
          /\ <<q, p>> \in Uses
          /\ line[seg[p][p]][RecvLine(p, q)] # "EMPTY"
          /\ got' = [got EXCEPT ![p] = @ \cup {<<q, line[seg[p][p]][RecvLine(p, q)]>>}]
          /\ line' = [line EXCEPT ![seg[p][p]][RecvLine(p, q)] = "EMPTY"]
    BY <1>10 DEF Receive
  <2>2. line' \in [Segs -> [Lines -> Flags]] BY <1>e, <2>1, StoreLine DEF Rest
  <2>3. seg[p][p] \in Segs BY <1>10, <1>o DEF Receive, Opened, HasOwn, PastReset
  <2>4. p # q BY <2>1 DEF Parameters
  <2>5. line[seg[p][p]][RecvLine(p, q)] \in Flags BY <2>3, <2>4, LineType DEF Rest
  <2>6. got' \in [Procs -> SUBSET (Procs \X Flags)]
    BY <2>1, <2>5 DEF Rest
  <2>7. Opened' BY <1>10, <1>o, OpenedStays DEF Receive, HasOwn, PastReset
  <2> QED BY <1>10, <2>2, <2>6, <2>7 DEF Receive, Rest, past, files
<1>11. ASSUME NEW p \in Procs, SendBig(p) PROVE Rest'
  <2>1. Opened' BY <1>11, <1>o, OpenedStays DEF SendBig, HasOwn, PastReset
  <2> QED BY <1>11, <2>1 DEF SendBig, Rest, past, files
<1>12. ASSUME NEW p \in Procs, Terminate(p) PROVE Rest'
  <2>1. main' \in {None} \cup (0 .. N) /\ name' \in [Procs -> Segs \cup {None}]
    BY <1>12 DEF Terminate, Rest
  <2>2. Opened' BY <1>12, <1>o, <1>t, OpenedStays DEF Terminate, Typed, HasOwn, PastReset
  <2> QED BY <1>12, <2>1, <2>2 DEF Terminate, Rest, past
<1>13. CASE UNCHANGED vars
  <2>1. Opened' BY <1>13, <1>o, OpenedStays DEF vars, HasOwn, PastReset
  <2> QED BY <1>13, <2>1 DEF vars, Rest, past, files
<1> QED BY <1>1, <1>2, <1>3, <1>4, <1>5, <1>6, <1>7, <1>8, <1>9, <1>10, <1>11, <1>12,
           <1>13 DEF Next, Library, Program

\* The variables of start-up on x86 stay in their types.
THEOREM TypeCorrect ==
  ASSUME Parameters, AllWait
  PROVE  Spec => []TypeOK
<1>1. Init => Rest BY RestInit
<1>2. StartInv /\ Rest /\ [Next]_vars => Rest' BY RestStep
<1>3. StartInv /\ Rest => TypeOK BY DEF StartInv, Typed, Places, Rest, TypeOK
<1> QED BY <1>1, <1>2, <1>3, Invariant, PTL DEF Spec
-----------------------------------------------------------------------------
(* Messages arrive: the invariant *)

\* If all that was left fits, there are chunk buffers for everybody; and process
\* 0 takes the name of main memory away.
MainSeg ==
  /\ ~short /\ ~forked => main \in {None, N}
  /\ ~short /\ forked => chunks = N
  /\ pc[0] = "gone" => main = None

\* The segments that may have the name /ssmp_core<q>.
SegsOf(q) == {<<"old", q>>} \cup {<<"new", r, q>> : r \in Procs}

\* What is opened and mapped for a process had its name.
Addressed ==
  /\ \A q \in Procs : name[q] \in SegsOf(q) \cup {None}
  /\ \A p \in Procs : pc[p] \in {"truncate", "map"} => fd[p] \in SegsOf(core[p])
  /\ \A p, q \in Procs : seg[p][q] \in SegsOf(q) \cup {None}

\* A line marked new was written by its sender, in whatever segment; in the
\* lines that a process has reset there is nothing old.
Written ==
  \A p, q \in Procs : p # q =>
    \A g \in SegsOf(q) \cap Segs : line[g][RecvLine(q, p)] = "NEW" => q \in sent[p]

Clean ==
  \A p, q \in Procs :
    p # q /\ (PastReset(q) \/ (pc[q] = "reset" /\ p < core[q])) =>
      line[seg[q][q]][RecvLine(q, p)] # "OLD"

\* Messages are sent over channels by processes that are up, and who has
\* terminated has received all that are for it.
Traffic ==
  /\ \A p \in Procs : sent[p] # {} => Up(p)
  /\ \A p, q \in Procs : q \in sent[p] => <<p, q>> \in Uses
  /\ \A p, q \in Procs : pc[q] = "gone" /\ <<p, q>> \in Uses => <<p, "NEW">> \in got[q]

\* A process works on its own segment alone until it has reset it, and as long
\* as it runs its segment keeps the name.
Own(q) ==
  /\ pc[q] \notin {"fault", "crashed"}
  /\ pc[q] \in {"unborn", "open"} /\ core[q] = q => name[q] = None \/ name[q] \in sized
  /\ pc[q] = "reopen" /\ core[q] = q => name[q] \in sized
  /\ pc[q] = "truncate" /\ core[q] = q => name[q] = fd[q]
  /\ pc[q] = "map" /\ core[q] = q => name[q] = fd[q] /\ fd[q] \in sized
  /\ HasOwn(q) => seg[q][q] \in sized /\ (pc[q] # "gone" => name[q] = seg[q][q])

InLoop(p) == pc[p] \in {"open", "reopen", "truncate", "map"} /\ core[p] # p

\* p has mapped the lines of q.
Mapped(p, q) == \/ pc[p] \in {"report", "await", "up", "gone"}
                \/ InLoop(p) /\ q < core[p]

\* The segment that p opens and maps for q is that of q.
Peer(p, q) ==
  /\ InLoop(p) /\ core[p] = q => /\ pc[p] # "truncate"
                                 /\ pc[p] = "map" => fd[p] = seg[q][q]
  /\ Mapped(p, q) => seg[p][q] = seg[q][q]

Shared ==
  Undisturbed /\ ~short =>
    /\ \A q \in Procs : Own(q)
    /\ \A p, q \in Procs : p # q /\ pc[q] # "gone" => Peer(p, q)

\* Unless reports are left over nobody terminates before all have opened.
Unlinked == before # "killed" => \A q \in Procs : pc[q] = "gone" => name[q] = None

Lossless == ~short => NothingLost

\* A segment of q that lacks its pages stops q at the first line it resets.
Stopped(q) ==
  /\ name[q] = <<"old", q>> /\ <<"old", q>> \notin sized
  /\ \/ pc[q] \in {"unborn", "open", "reopen"} /\ core[q] = q
     \/ pc[q] = "map" /\ core[q] = q /\ fd[q] = <<"old", q>>
     \/ /\ pc[q] = "reset" /\ seg[q][q] = <<"old", q>>
        /\ core[q] = 0 \/ (q = 0 /\ core[q] = 1)
     \/ pc[q] = "fault"

\* A main segment that lacks chunk buffers stops everybody.
AllStopped ==
  IF forked THEN chunks < N /\ \A q \in Procs : ~PastReset(q) ELSE main \in 0 .. N - 1

\* When something that was left is too short, it stops somebody for good.
Short ==
  /\ short => before = "killed" /\ (AllStopped \/ \E q \in Procs : Stopped(q))
  /\ before = "killed" => lag = {}
  /\ \A p \in Procs : pc[p] = "truncate" => fd[p] \in NewSegs

DeliveryInv ==
  /\ MainSeg /\ Addressed /\ Written /\ Clean /\ NoGhost /\ Traffic
  /\ Shared /\ Lossless /\ Short /\ Unlinked

-----------------------------------------------------------------------------
(* Messages arrive: lines and segments *)

LEMMA SegsApart ==
  ASSUME NEW q \in Procs, NEW r \in Procs, q # r
  PROVE  SegsOf(q) \cap SegsOf(r) = {}
<1>1. \A a, b \in Procs : <<"old", q>> # <<"new", a, r>> /\ <<"new", a, q>> # <<"old", r>>
  OBVIOUS
<1>2. \A a, b \in Procs : <<"new", a, q>> # <<"new", b, r>> OBVIOUS
<1>3. <<"old", q>> # <<"old", r>> OBVIOUS
<1> QED BY <1>1, <1>2, <1>3 DEF SegsOf

LEMMA LinesApart ==
  ASSUME Parameters, NEW p \in Procs, NEW q \in Procs, p # q
  PROVE  /\ SendLine(p, q) = RecvLine(q, p)
         /\ \A r \in Procs : r # q /\ RecvLine(q, r) = RecvLine(q, p) => r = p
BY Sizes DEF SendLine, RecvLine

\* A store in a line changes that line alone.
LEMMA Store ==
  ASSUME line \in [Segs -> [Lines -> Flags]], NEW g, NEW k, NEW f,
         line' = [line EXCEPT ![g][k] = f], NEW h \in Segs, NEW j \in Lines
  PROVE  line'[h][j] = IF h = g /\ j = k THEN f ELSE line[h][j]
<1>1. CASE g = h
  <2>1. line[h] \in [Lines -> Flags] OBVIOUS
  <2>2. line'[h] = [line[h] EXCEPT ![k] = f] BY <1>1
  <2> QED BY <1>1, <2>1, <2>2
<1>2. CASE g # h BY <1>2
<1> QED BY <1>1, <1>2

\* Where the barrier holds up all, who has left it knows that all are past
\* their reset.
LEMMA Beyond ==
  ASSUME StartInv, party[0] = Procs, NEW p \in Procs, Past(p), pc[p] # "leave", NEW q \in Procs
  PROVE  PastReset(q)
<1>t. Typed /\ Barred BY DEF StartInv
<1>1. departures[0][p] = 1 BY <1>t DEF Barred
<1>2. arrivals[0][q] = 1 BY <1>t, <1>1 DEF Barred
<1> QED BY <1>t, <1>2 DEF Barred, Past

\* Who is in the loop over the others, or has mapped one of them, has left the
\* barrier.
LEMMA LoopBeyond ==
  ASSUME NEW p \in Procs, NEW q \in Procs, InLoop(p) \/ Mapped(p, q) \/ Up(p)
  PROVE  Past(p) /\ pc[p] # "leave"
BY DEF InLoop, Mapped, Up, Past, PastReset

\* What the run before was does not change.
LEMMA PastStays ==
  ASSUME [Next]_vars
  PROVE  before' = before /\ short' = short
BY DEF vars, files, past, Next, Library, Program, SsmpInit, OldTerminate, OpenExcl,
       Reopen, Truncate, Map, ResetOne, ResetFault, SendFault, Fault, EnterBarrier,
       LeaveBarrier, Report, Await, Send, SendBig, Receive, Terminate

LEMMA MainSegStep ==
  ASSUME Parameters, StartInv, MainSeg, [Next]_vars
  PROVE  MainSeg'
<1>n. N \in Nat /\ 0 \in Procs BY Sizes
<1>t. Typed /\ Stages BY DEF StartInv
<1>k. short' = short BY PastStays
<1>1. CASE SsmpInit
  <2>1. main' = chunks' /\ forked' /\ pc'[0] = "open" BY <1>1, <1>n DEF SsmpInit
  <2>2. ~short => chunks' = N BY <1>1 DEF SsmpInit, MainSeg
  <2> QED BY <1>k, <2>1, <2>2 DEF MainSeg
<1>2. ASSUME NEW p \in Procs, Terminate(p) PROVE MainSeg'
  <2>1. forked BY <1>2, <1>t DEF Terminate, Stages
  <2>2. main' = IF p = 0 THEN None ELSE main BY <1>2 DEF Terminate
  <2> QED BY <1>2, <1>k, <1>t, <1>n, <2>1, <2>2 DEF Terminate, MainSeg, Typed
<1>3. CASE \/ OldTerminate \/ UNCHANGED vars
           \/ \E p \in Procs : Library(p) \/ Send(p) \/ SendFault(p) \/ SendBig(p) \/ Receive(p)
  <2>1. UNCHANGED <<forked, main, chunks>>
    BY <1>3 DEF vars, files, past, OldTerminate, Library, OpenExcl, Reopen, Truncate, Map,
           ResetOne, ResetFault, Fault, EnterBarrier, LeaveBarrier, Report, Await, Send,
           SendFault, SendBig, Receive
  <2>2. pc'[0] = "gone" => pc[0] = "gone"
    <3>1. ASSUME NEW p \in Procs, Library(p) \/ SendFault(p)
          PROVE  pc'[0] = "gone" => pc[0] = "gone"
      BY <1>n, <1>t, <3>1
         DEF Library, OpenExcl, Reopen, Truncate, Map, ResetOne, ResetFault, Fault,
             EnterBarrier, LeaveBarrier, ToPeers, Report, Await, SendFault, Typed
    <3>2. ASSUME NEW p \in Procs, Send(p) \/ SendBig(p) \/ Receive(p) PROVE pc' = pc
      BY <3>2 DEF Send, SendBig, Receive
    <3> QED BY <1>3, <3>1, <3>2 DEF vars, OldTerminate
  <2> QED BY <1>k, <2>1, <2>2 DEF MainSeg
<1> QED BY <1>1, <1>2, <1>3 DEF Next, Program

LEMMA AddressedStep ==
  ASSUME Parameters, StartInv, Rest, Addressed, [Next]_vars
  PROVE  Addressed'
<1>t. Typed /\ Stages BY DEF StartInv
<1>r. /\ name \in [Procs -> Segs \cup {None}] /\ fd \in [Procs -> Segs \cup {None}]
      /\ seg \in [Procs -> [Procs -> Segs \cup {None}]]
  BY DEF Rest
<1>g. \A p, c \in Procs : <<"new", p, c>> \in SegsOf(c) BY DEF SegsOf
<1>s. ASSUME UNCHANGED <<fd, seg>>, \A q \in Procs : name'[q] \in {name[q], None},
             \A p \in Procs : pc'[p] \in {"truncate", "map"} =>
                                pc[p] \in {"truncate", "map"} /\ core'[p] = core[p]
      PROVE  Addressed'
  BY <1>s DEF Addressed, SegsOf
<1>1. CASE SsmpInit BY <1>1, <1>s DEF SsmpInit
<1>2. CASE OldTerminate
  <2>1. PICK p \in lag : name' = [name EXCEPT ![p] = None] BY <1>2 DEF OldTerminate
  <2>2. \A q \in Procs : name'[q] \in {name[q], None} BY <1>r, <2>1
  <2> QED BY <1>2, <1>s, <2>2 DEF OldTerminate
<1>3. ASSUME NEW p \in Procs, OpenExcl(p) \/ Reopen(p) PROVE Addressed'
  <2>1. core[p] \in Procs BY <1>3, <1>t DEF OpenExcl, Reopen, Stages
  <2>2. PICK c \in Procs : c = core[p] BY <2>1
  <2>3. <<"new", p, c>> \in SegsOf(c) BY <1>g
  <2>4. /\ UNCHANGED <<seg, core>>
        /\ \/ UNCHANGED <<fd, name>> /\ pc' = [pc EXCEPT ![p] = "reopen"]
           \/ \E g \in SegsOf(c), s \in {"truncate", "map"} :
                /\ fd' = [fd EXCEPT ![p] = g] /\ name' = [name EXCEPT ![c] = g]
                /\ pc' = [pc EXCEPT ![p] = s]
    BY <1>3, <2>2, <2>3 DEF OpenExcl, Reopen, Addressed
  <2>5. CASE UNCHANGED <<fd, name>> /\ pc' = [pc EXCEPT ![p] = "reopen"]
    BY <1>s, <1>t, <2>4, <2>5 DEF Typed
  <2>6. ASSUME NEW g \in SegsOf(c), NEW s \in {"truncate", "map"},
               fd' = [fd EXCEPT ![p] = g], name' = [name EXCEPT ![c] = g],
               pc' = [pc EXCEPT ![p] = s]
        PROVE  Addressed'
    <3>1. \A q \in Procs : name'[q] \in SegsOf(q)' \cup {None}
      BY <1>r, <2>6 DEF Addressed, SegsOf
    <3>2. \A q \in Procs : pc'[q] \in {"truncate", "map"} => fd'[q] \in SegsOf(core'[q])
      BY <1>r, <1>t, <2>2, <2>4, <2>6 DEF Addressed, Typed
    <3> QED BY <2>4, <3>1, <3>2 DEF Addressed, SegsOf
  <2> QED BY <2>4, <2>5, <2>6
<1>4. ASSUME NEW p \in Procs, Truncate(p) PROVE Addressed'
  BY <1>4, <1>s, <1>t DEF Truncate, Typed
<1>5. ASSUME NEW p \in Procs, Map(p) PROVE Addressed'
  <2>1. core[p] \in Procs /\ fd[p] \in SegsOf(core[p])
    BY <1>5, <1>t DEF Map, Stages, Addressed
  <2>2. seg' = [seg EXCEPT ![p][core[p]] = fd[p]] /\ UNCHANGED <<fd, name>>
    BY <1>5 DEF Map, files
  <2>3. \A r, q \in Procs : seg'[r][q] = IF r = p /\ q = core[p] THEN fd[p] ELSE seg[r][q]
    BY <1>r, <2>1, <2>2
  <2>4. \A q \in Procs : pc'[q] \in {"truncate", "map"} =>
                           pc[q] \in {"truncate", "map"} /\ core'[q] = core[q]
    BY <1>5, <1>t DEF Map, Typed
  <2> QED BY <2>1, <2>2, <2>3, <2>4 DEF Addressed, SegsOf
<1>6. ASSUME NEW p \in Procs,
             \/ ResetOne(p) \/ ResetFault(p) \/ EnterBarrier(p) \/ LeaveBarrier(p)
             \/ Report(p) \/ Await(p) \/ Send(p) \/ SendFault(p) \/ SendBig(p) \/ Receive(p)
      PROVE  Addressed'
  <2>1. UNCHANGED <<fd, seg, name>>
    BY <1>6 DEF ResetOne, ResetFault, Fault, EnterBarrier, LeaveBarrier, Report, Await, Send,
                SendFault, SendBig, Receive, files
  <2>2. \A q \in Procs : pc'[q] \in {"truncate", "map"} =>
                           pc[q] \in {"truncate", "map"} /\ core'[q] = core[q]
    BY <1>6, <1>t DEF ResetOne, ResetFault, Fault, EnterBarrier, LeaveBarrier, ToPeers, Report,
                Await, Send, SendFault, SendBig, Receive, Typed
  <2> QED BY <1>s, <2>1, <2>2
<1>7. ASSUME NEW p \in Procs, Terminate(p) PROVE Addressed'
  <2>1. \A q \in Procs : name'[q] \in {name[q], None} BY <1>7, <1>r DEF Terminate
  <2> QED BY <1>7, <1>s, <1>t, <2>1 DEF Terminate, Typed
<1>8. CASE UNCHANGED vars BY <1>8, <1>s DEF vars, files
<1> QED BY <1>1, <1>2, <1>3, <1>4, <1>5, <1>6, <1>7, <1>8 DEF Next, Library, Program

\* A step stores in one line at most, and marks new only what it sends.
LineStep(p, q, f) ==
  /\ f \in {"EMPTY", "NEW"}
  /\ \E g : line' = [line EXCEPT ![g][RecvLine(q, p)] = f] /\ g \in SegsOf(q)
  /\ f = "NEW" => q \in sent'[p]

LEMMA LineSteps ==
  ASSUME Parameters, StartInv, Rest, Addressed, [Next]_vars
  PROVE  /\ \A p \in Procs : sent[p] \subseteq sent'[p]
         /\ \/ UNCHANGED line
            \/ \E p, q \in Procs : \E f \in Flags : p # q /\ LineStep(p, q, f)
<1>t. Typed /\ Stages BY DEF StartInv
<1>r. /\ line \in [Segs -> [Lines -> Flags]] /\ sent \in [Procs -> SUBSET Procs] /\ Opened
      /\ \A p, q \in Procs : seg[p][q] \in Segs => seg[p][q] \in SegsOf(q)
  BY DEF Rest, Addressed, Parameters
<1>f. "EMPTY" \in Flags /\ "NEW" \in Flags BY DEF Flags
<1>1. ASSUME NEW p \in Procs, ResetOne(p), UNCHANGED sent
      PROVE  \/ UNCHANGED line
             \/ \E r, q \in Procs : \E f \in Flags : r # q /\ LineStep(r, q, f)
  <2>1. core[p] \in Procs /\ seg[p][p] \in SegsOf(p)
    BY <1>1, <1>t, <1>r DEF ResetOne, Stages, Opened, HasOwn
  <2>2. CASE core[p] # p
    <3>1. line' = [line EXCEPT ![seg[p][p]][RecvLine(p, core[p])] = "EMPTY"]
      BY <1>1, <2>2 DEF ResetOne
    <3>2. LineStep(core[p], p, "EMPTY") BY <2>1, <3>1 DEF LineStep
    <3> QED BY <1>f, <2>1, <2>2, <3>2
  <2>3. CASE core[p] = p BY <1>1, <2>3 DEF ResetOne
  <2> QED BY <2>2, <2>3
<1>2. ASSUME NEW p \in Procs, Send(p)
      PROVE  /\ \A r \in Procs : sent[r] \subseteq sent'[r]
             /\ \E r, q \in Procs : \E f \in Flags : r # q /\ LineStep(r, q, f)
  <2>1. PICK q \in Procs :
          /\ <<p, q>> \in Uses /\ seg[p][q] \in sized
          /\ line' = [line EXCEPT ![seg[p][q]][SendLine(p, q)] = "NEW"]
          /\ sent' = [sent EXCEPT ![p] = @ \cup {q}]
    BY <1>2 DEF Send
  <2>2. p # q BY <2>1 DEF Parameters
  <2>3. seg[p][q] \in SegsOf(q) BY <1>r, <2>1 DEF Rest
  <2>4. SendLine(p, q) = RecvLine(q, p) BY <2>2, LinesApart
  <2>5. q \in sent'[p] /\ \A r \in Procs : sent[r] \subseteq sent'[r] BY <1>r, <2>1
  <2>6. LineStep(p, q, "NEW") BY <2>1, <2>3, <2>4, <2>5 DEF LineStep
  <2> QED BY <1>f, <2>2, <2>5, <2>6
<1>3. ASSUME NEW p \in Procs, Receive(p)
      PROVE  UNCHANGED sent /\ \E r, q \in Procs : \E f \in Flags : r # q /\ LineStep(r, q, f)
  <2>1. PICK q \in Procs :
          /\ <<q, p>> \in Uses
          /\ line' = [line EXCEPT ![seg[p][p]][RecvLine(p, q)] = "EMPTY"]
    BY <1>3 DEF Receive
  <2>2. p # q BY <2>1 DEF Parameters
  <2>3. seg[p][p] \in SegsOf(p)
    BY <1>3, <1>r DEF Receive, Opened, HasOwn, PastReset
  <2>4. LineStep(q, p, "EMPTY") BY <2>1, <2>3 DEF LineStep
  <2> QED BY <1>3, <1>f, <2>2, <2>4 DEF Receive
<1>4. CASE ~ \E p \in Procs : ResetOne(p) \/ Send(p) \/ Receive(p)
  <2>1. UNCHANGED <<line, sent>>
    BY <1>4 DEF vars, Next, Library, Program, SsmpInit, OldTerminate, OpenExcl, Reopen,
           Truncate, Map, ResetFault, Fault, EnterBarrier, LeaveBarrier, Report, Await,
           SendFault, SendBig, Terminate
  <2> QED BY <2>1
<1>5. ASSUME NEW p \in Procs, ResetOne(p) PROVE UNCHANGED sent BY <1>5 DEF ResetOne
<1> QED BY <1>1, <1>2, <1>3, <1>4, <1>5

\* What such a step leaves in the line by which q receives from p.
LEMMA LineAfter ==
  ASSUME Parameters, Rest, NEW r \in Procs, NEW s \in Procs, r # s, NEW f, LineStep(r, s, f),
         NEW p \in Procs, NEW q \in Procs, p # q, NEW g \in SegsOf(q) \cap Segs
  PROVE  \/ line'[g][RecvLine(q, p)] = line[g][RecvLine(q, p)]
         \/ q = s /\ p = r /\ line'[g][RecvLine(q, p)] = f
<1>1. PICK h : line' = [line EXCEPT ![h][RecvLine(s, r)] = f] /\ h \in SegsOf(s)
  BY DEF LineStep
<1>2. RecvLine(q, p) \in Lines BY LineType
<1>3. line'[g][RecvLine(q, p)] = IF g = h /\ RecvLine(q, p) = RecvLine(s, r) THEN f
                                 ELSE line[g][RecvLine(q, p)]
  BY <1>1, <1>2, Store DEF Rest
<1>4. g = h => q = s BY <1>1, SegsApart
<1>5. g = h /\ RecvLine(q, p) = RecvLine(s, r) => q = s /\ p = r BY <1>4, LinesApart
<1> QED BY <1>3, <1>5

LEMMA WrittenStep ==
  ASSUME Parameters, StartInv, Rest, Addressed, Written, [Next]_vars
  PROVE  Written'
<1> SUFFICES ASSUME NEW p \in Procs, NEW q \in Procs, p # q, NEW g \in SegsOf(q) \cap Segs,
                    line'[g][RecvLine(q, p)] = "NEW"
             PROVE  q \in sent'[p]
  BY DEF Written, SegsOf
<1>1. sent[p] \subseteq sent'[p] BY LineSteps
<1>2. CASE line'[g][RecvLine(q, p)] = line[g][RecvLine(q, p)]
  BY <1>1, <1>2 DEF Written
<1>3. CASE line'[g][RecvLine(q, p)] # line[g][RecvLine(q, p)]
  <2>1. PICK r, s \in Procs, f \in Flags : r # s /\ LineStep(r, s, f) BY <1>3, LineSteps
  <2>2. q = s /\ p = r /\ f = "NEW" BY <1>3, <2>1, LineAfter
  <2> QED BY <2>1, <2>2 DEF LineStep
<1> QED BY <1>2, <1>3

\* p's line at q is one that q has reset.
Swept(q, p) == PastReset(q) \/ (pc[q] = "reset" /\ p < core[q])

LEMMA CleanStep ==
  ASSUME Parameters, StartInv, Rest, Addressed, Clean, [Next]_vars
  PROVE  Clean'
<1>n. N \in Nat /\ N >= 2 /\ Procs = 0 .. N - 1 BY Sizes
<1>t. Typed /\ Stages /\ Opened BY DEF StartInv, Rest
<1> SUFFICES ASSUME NEW p \in Procs, NEW q \in Procs, p # q, Swept(q, p)'
             PROVE  line'[seg'[q][q]][RecvLine(q, p)] # "OLD"
  BY DEF Clean, Swept
<1>l. RecvLine(q, p) \in Lines BY LineType
<1>a. ASSUME seg'[q][q] = seg[q][q], Swept(q, p)
      PROVE  line'[seg'[q][q]][RecvLine(q, p)] # "OLD"
  <2>1. seg[q][q] \in SegsOf(q) \cap Segs
    BY <1>a, <1>t DEF Swept, Opened, HasOwn, Addressed, Parameters
  <2>2. line[seg[q][q]][RecvLine(q, p)] # "OLD" BY <1>a DEF Clean, Swept
  <2>3. CASE line'[seg[q][q]][RecvLine(q, p)] = line[seg[q][q]][RecvLine(q, p)]
    BY <1>a, <2>2, <2>3
  <2>4. CASE line'[seg[q][q]][RecvLine(q, p)] # line[seg[q][q]][RecvLine(q, p)]
    <3>1. PICK r, s \in Procs, f \in Flags : r # s /\ LineStep(r, s, f) BY <2>4, LineSteps
    <3>2. line'[seg[q][q]][RecvLine(q, p)] = f BY <2>1, <2>4, <3>1, LineAfter
    <3> QED BY <1>a, <3>1, <3>2 DEF LineStep
  <2> QED BY <2>3, <2>4
<1>1. ASSUME NEW r \in Procs, ResetOne(r)
      PROVE  line'[seg'[q][q]][RecvLine(q, p)] # "OLD"
  <2>1. /\ seg' = seg /\ core[r] \in Procs /\ pc[r] = "reset"
        /\ core' = [core EXCEPT ![r] = core[r] + 1]
        /\ pc' = [pc EXCEPT ![r] = IF core[r] + 1 < N THEN "reset" ELSE "enter"]
    BY <1>1, <1>t DEF ResetOne, Stages
  <2>2. CASE r # q BY <1>a, <1>t, <2>1, <2>2 DEF Swept, PastReset, Typed
  <2>3. CASE r = q /\ p # core[q]
    <3>1. p < core[q] BY <1>n, <1>t, <2>1, <2>3 DEF Swept, PastReset, Typed
    <3> QED BY <1>a, <2>1, <2>3, <3>1 DEF Swept
  <2>4. CASE r = q /\ p = core[q]
    <3>1. line' = [line EXCEPT ![seg[q][q]][RecvLine(q, p)] = "EMPTY"]
      BY <1>1, <2>4 DEF ResetOne
    <3>2. seg[q][q] \in Segs BY <1>t, <2>1, <2>4 DEF Opened, HasOwn
    <3>3. line'[seg[q][q]][RecvLine(q, p)] = "EMPTY" BY <1>l, <3>1, <3>2, Store DEF Rest
    <3> QED BY <2>1, <3>3
  <2> QED BY <2>2, <2>3, <2>4
<1>2. ASSUME NEW r \in Procs, Map(r)
      PROVE  line'[seg'[q][q]][RecvLine(q, p)] # "OLD"
  <2>1. core[r] \in Procs BY <1>2, <1>t DEF Map, Stages
  <2>2. CASE r # q
    <3>1. seg'[q] = seg[q] BY <1>2, <2>2 DEF Map, Rest
    <3>2. Swept(q, p) BY <1>2, <1>t, <2>2 DEF Map, Typed, Swept, PastReset
    <3> QED BY <1>a, <3>1, <3>2
  <2>3. CASE r = q /\ core[q] = q
    <3>1. pc' = [pc EXCEPT ![q] = "reset"] /\ core' = [core EXCEPT ![q] = 0]
      BY <1>2, <2>3 DEF Map
    <3> QED BY <1>n, <1>t, <3>1 DEF Typed, Swept, PastReset
  <2>4. CASE r = q /\ core[q] # q
    <3>1. PastReset(q) BY <1>2, <2>4 DEF Map, PastReset
    <3>2. seg'[q][q] = seg[q][q] BY <1>2, <2>1, <2>4 DEF Map, Rest
    <3> QED BY <1>a, <3>1, <3>2 DEF Swept
  <2> QED BY <2>2, <2>3, <2>4
<1>3. CASE SsmpInit
  BY <1>3, <1>t DEF SsmpInit, Stages, Typed, Swept, PastReset
<1>4. ASSUME NEW r \in Procs,
             \/ OpenExcl(r) \/ Reopen(r) \/ Truncate(r) \/ ResetFault(r) \/ EnterBarrier(r)
             \/ LeaveBarrier(r) \/ Report(r) \/ Await(r) \/ Program(r)
      PROVE  line'[seg'[q][q]][RecvLine(q, p)] # "OLD"
  <2>1. UNCHANGED seg
    BY <1>4 DEF OpenExcl, Reopen, Truncate, ResetFault, Fault, EnterBarrier, LeaveBarrier,
                Report, Await, Program, Send, SendFault, SendBig, Receive, Terminate
  <2>2. CASE r = q
    <3>1. Swept(q, p)
      BY <1>4, <1>t, <2>2
         DEF OpenExcl, Reopen, Truncate, ResetFault, Fault, EnterBarrier, LeaveBarrier,
             ToPeers, Report, Await, Program, Send, SendFault, SendBig, Receive, Terminate,
             Typed, Swept, PastReset
    <3> QED BY <1>a, <2>1, <3>1
  <2>3. CASE r # q
    <3>1. pc'[q] = pc[q] /\ core'[q] = core[q]
      BY <1>4, <1>t, <2>3
         DEF OpenExcl, Reopen, Truncate, ResetFault, Fault, EnterBarrier, LeaveBarrier,
             ToPeers, Report, Await, Program, Send, SendFault, SendBig, Receive, Terminate,
             Typed
    <3> QED BY <1>a, <2>1, <3>1 DEF Swept, PastReset
  <2> QED BY <2>2, <2>3
<1>5. CASE OldTerminate \/ UNCHANGED vars
  BY <1>5, <1>a DEF OldTerminate, vars, Swept, PastReset
<1> QED BY <1>1, <1>2, <1>3, <1>4, <1>5 DEF Next, Library

\* Nothing is received that has not been sent in this run, whoever shares
\* whatever segment.
LEMMA TrafficStep ==
  ASSUME Parameters, StartInv, Rest, Addressed, Written, Clean, NoGhost, Traffic, [Next]_vars
  PROVE  NoGhost' /\ Traffic'
<1>t. Typed /\ Stages BY DEF StartInv
<1>r. /\ sent \in [Procs -> SUBSET Procs] /\ got \in [Procs -> SUBSET (Procs \X Flags)]
      /\ line \in [Segs -> [Lines -> Flags]]
      /\ \A p, q \in Procs : seg[p][q] \in Segs => seg[p][q] \in SegsOf(q)
  BY DEF Rest, Addressed, Parameters
<1>s. ASSUME UNCHANGED <<sent, got>>,
             \A p \in Procs : /\ Up(p) => Up(p)'
                              /\ pc'[p] = "gone" => pc[p] = "gone"
      PROVE  NoGhost' /\ Traffic'
  BY <1>s DEF NoGhost, Traffic
<1>1. ASSUME NEW p \in Procs, Send(p) PROVE NoGhost' /\ Traffic'
  <2>1. PICK q \in Procs : /\ <<p, q>> \in Uses
                           /\ sent' = [sent EXCEPT ![p] = @ \cup {q}]
    BY <1>1 DEF Send
  <2>2. UNCHANGED <<pc, got>> /\ pc[p] = "up" BY <1>1 DEF Send
  <2>3. \A r \in Procs : sent'[r] = IF r = p THEN sent[r] \cup {q} ELSE sent[r] BY <1>r, <2>1
  <2>4. NoGhost'
    <3> SUFFICES ASSUME NEW x \in Procs, NEW m \in got[x] PROVE m[2] = "NEW" /\ x \in sent'[m[1]]
      BY <2>2 DEF NoGhost
    <3>1. m[1] \in Procs BY <1>r
    <3>2. m[2] = "NEW" /\ x \in sent[m[1]] BY DEF NoGhost
    <3> QED BY <2>3, <3>1, <3>2
  <2>5. Traffic' BY <2>1, <2>2, <2>3 DEF Traffic, Up
  <2> QED BY <2>4, <2>5
<1>2. ASSUME NEW p \in Procs, Receive(p) PROVE NoGhost' /\ Traffic'
  <2>1. PICK q \in Procs :
          /\ <<q, p>> \in Uses
          /\ line[seg[p][p]][RecvLine(p, q)] # "EMPTY"
          /\ got' = [got EXCEPT ![p] = @ \cup {<<q, line[seg[p][p]][RecvLine(p, q)]>>}]
    BY <1>2 DEF Receive
  <2>2. UNCHANGED <<pc, sent>> /\ pc[p] = "up" BY <1>2 DEF Receive
  <2>3. p # q BY <2>1 DEF Parameters
  <2>4. seg[p][p] \in SegsOf(p) \cap Segs BY <1>r, <2>2 DEF Rest, Opened, HasOwn, PastReset
  <2>5. line[seg[p][p]][RecvLine(p, q)] \in Flags BY <1>r, <2>3, <2>4, LineType
  <2>6. line[seg[p][p]][RecvLine(p, q)] # "OLD" BY <2>2, <2>3 DEF Clean, PastReset
  <2>7. line[seg[p][p]][RecvLine(p, q)] = "NEW" BY <2>1, <2>5, <2>6 DEF Flags
  <2>8. p \in sent[q] BY <2>3, <2>4, <2>7 DEF Written
  <2>9. \A r \in Procs : got'[r] = IF r = p THEN got[r] \cup {<<q, "NEW">>} ELSE got[r]
    BY <1>r, <2>1, <2>7
  <2>10. NoGhost'
    <3> SUFFICES ASSUME NEW x \in Procs, NEW m \in got'[x] PROVE m[2] = "NEW" /\ x \in sent[m[1]]
      BY <2>2 DEF NoGhost
    <3>1. CASE m \in got[x] BY <3>1 DEF NoGhost
    <3>2. CASE x = p /\ m = <<q, "NEW">>
      <4>1. m[1] = q /\ m[2] = "NEW" BY <3>2
      <4> QED BY <2>8, <3>2, <4>1
    <3> QED BY <2>9, <3>1, <3>2
  <2>11. Traffic' BY <2>2, <2>9 DEF Traffic, Up
  <2> QED BY <2>10, <2>11
<1>3. ASSUME NEW p \in Procs, Terminate(p) PROVE NoGhost' /\ Traffic'
  <2>1. UNCHANGED <<sent, got>> /\ pc' = [pc EXCEPT ![p] = "gone"] /\ pc[p] = "up"
    BY <1>3 DEF Terminate
  <2>2. \A q \in Procs : <<q, p>> \in Uses => <<q, "NEW">> \in got[p] BY <1>3 DEF Terminate
  <2> QED BY <1>t, <2>1, <2>2 DEF NoGhost, Traffic, Up, Typed
<1>4. ASSUME NEW p \in Procs, Library(p) \/ SendFault(p) \/ SendBig(p) PROVE NoGhost' /\ Traffic'
  <2>1. UNCHANGED <<sent, got>>
    BY <1>4 DEF Library, OpenExcl, Reopen, Truncate, Map, ResetOne, ResetFault, Fault,
                EnterBarrier, LeaveBarrier, Report, Await, SendFault, SendBig
  <2>2. \A q \in Procs : (Up(q) => Up(q)') /\ (pc'[q] = "gone" => pc[q] = "gone")
    BY <1>4, <1>t DEF Library, OpenExcl, Reopen, Truncate, Map, ResetOne, ResetFault, Fault,
                EnterBarrier, LeaveBarrier, ToPeers, Report, Await, SendFault, SendBig, Typed, Up
  <2> QED BY <1>s, <2>1, <2>2
<1>5. CASE SsmpInit BY <1>5, <1>s, <1>t DEF SsmpInit, Stages, Typed, Up
<1>6. CASE OldTerminate \/ UNCHANGED vars BY <1>6, <1>s DEF OldTerminate, vars, Up
<1> QED BY <1>1, <1>2, <1>3, <1>4, <1>5, <1>6 DEF Next, Program

-----------------------------------------------------------------------------
(* Messages arrive: who maps what, when the barrier holds up all and nobody   *)
(* else removes names                                                         *)

LEMMA UndisturbedBefore ==
  ASSUME Rest, [Next]_vars, Undisturbed'
  PROVE  Undisturbed /\ party' = party /\ before' = before /\ (OldTerminate => ~forked)
<1>1. late \in BOOLEAN BY DEF Rest
<1>2. party' = party /\ before' = before
  BY DEF vars, barrier, files, past, Next, Library, Program, SsmpInit, OldTerminate, OpenExcl,
         Reopen, Truncate, Map, ResetOne, ResetFault, SendFault, Fault, EnterBarrier,
         LeaveBarrier, Bar!Arrive, Bar!Depart, Report, Await, Send, SendBig, Receive, Terminate
<1>3. CASE OldTerminate BY <1>1, <1>2, <1>3 DEF OldTerminate, Undisturbed
<1>4. CASE ~OldTerminate
  <2>1. late' = late
    BY <1>4 DEF vars, files, past, Next, Library, Program, SsmpInit, OpenExcl,
         Reopen, Truncate, Map, ResetOne, ResetFault, SendFault, Fault, EnterBarrier,
         LeaveBarrier, Report, Await, Send, SendBig, Receive, Terminate
  <2> QED BY <1>2, <1>4, <2>1 DEF Undisturbed
<1> QED BY <1>3, <1>4

\* Nobody faults: there is room in every segment.
LEMMA NoneFaults ==
  ASSUME Parameters, StartInv, Rest, MainSeg, NoGhost, Traffic, Shared, Undisturbed, ~short,
         NEW p \in Procs
  PROVE  ~ResetFault(p) /\ ~SendFault(p)
<1>n. N \in Nat /\ Procs = 0 .. N - 1 BY Sizes
<1>t. Typed /\ Stages BY DEF StartInv
<1>s. /\ \A q \in Procs : Own(q)
      /\ \A r, q \in Procs : r # q /\ pc[q] # "gone" => Peer(r, q)
  BY DEF Shared
<1>1. ASSUME ResetFault(p) PROVE FALSE
  <2>1. pc[p] = "reset" /\ core[p] \in Procs BY <1>1, <1>t DEF ResetFault, Stages
  <2>2. forked BY <1>t, <2>1 DEF Stages
  <2>3. chunks = N BY <2>2 DEF MainSeg
  <2>4. seg[p][p] \in sized BY <1>s, <2>1 DEF Own, HasOwn
  <2> QED BY <1>1, <1>n, <2>1, <2>3, <2>4 DEF ResetFault
<1>2. ASSUME SendFault(p) PROVE FALSE
  <2>1. PICK q \in Procs \ sent[p] : <<p, q>> \in Uses /\ seg[p][q] \notin sized
    BY <1>2 DEF SendFault
  <2>2. pc[p] = "up" BY <1>2 DEF SendFault
  <2>3. p # q BY <2>1 DEF Parameters
  <2>4. pc[q] # "gone"
    <3>1. SUFFICES ASSUME <<p, "NEW">> \in got[q] PROVE q \in sent[p]
      BY <2>1 DEF Traffic
    <3>2. PICK m \in got[q] : m = <<p, "NEW">> BY <3>1
    <3>3. q \in sent[m[1]] BY <2>1 DEF NoGhost
    <3> QED BY <3>2, <3>3
  <2>5. PastReset(q)
    BY <2>2, Beyond, LoopBeyond DEF Up, Undisturbed
  <2>6. seg[p][q] = seg[q][q] BY <1>s, <2>1, <2>2, <2>3, <2>4 DEF Peer, Mapped
  <2>7. seg[q][q] \in sized BY <1>s, <2>1, <2>5 DEF Own, HasOwn
  <2> QED BY <2>1, <2>6, <2>7
<1> QED BY <1>1, <1>2

LEMMA SharedStep ==
  ASSUME Parameters, StartInv, Rest, MainSeg, Addressed, NoGhost, Traffic, Shared, [Next]_vars
  PROVE  Shared'
<1> SUFFICES ASSUME Undisturbed', ~short'
             PROVE  /\ \A q \in Procs : Own(q)'
                    /\ \A p, q \in Procs : p # q /\ pc'[q] # "gone" => Peer(p, q)'
  BY DEF Shared
<1>n. N \in Nat /\ N >= 2 /\ Procs = 0 .. N - 1 BY Sizes
<1>u. /\ Undisturbed /\ party' = party /\ (OldTerminate => ~forked)
      /\ ~short
  BY UndisturbedBefore, PastStays
<1>t. Typed /\ Stages /\ Opened BY DEF StartInv, Rest
<1>r. /\ name \in [Procs -> Segs \cup {None}] /\ fd \in [Procs -> Segs \cup {None}]
      /\ seg \in [Procs -> [Procs -> Segs \cup {None}]] /\ sized \subseteq Segs
      /\ None \notin Segs
  BY DEF Rest, Parameters
<1>o. \A q \in Procs : Own(q) BY <1>u DEF Shared
<1>p. \A p, q \in Procs : p # q /\ pc[q] # "gone" => Peer(p, q) BY <1>u DEF Shared
<1>b. \A p, q, r \in Procs : InLoop(p) \/ Mapped(p, q) \/ Up(p) => PastReset(r)
  BY <1>u, Beyond, LoopBeyond DEF Undisturbed
<1>g. \A p, c \in Procs : <<"new", p, c>> \in Segs BY NewSeg
\* Steps that leave files and maps alone.
<1>s. ASSUME UNCHANGED <<name, sized, fd, seg>>,
             \A q \in Procs :
               /\ pc'[q] \notin {"fault", "crashed", "unborn"}
               /\ HasOwn(q)' => HasOwn(q)
               /\ pc'[q] = "open" /\ pc[q] = "open" => core'[q] = core[q]
               /\ pc'[q] = "open" /\ pc[q] # "open" => core'[q] # q
               /\ pc'[q] \in {"reopen", "truncate", "map"} => pc'[q] = pc[q] /\ core'[q] = core[q]
               /\ pc[q] = "gone" => pc'[q] = "gone"
               /\ \A r \in Procs : q # r /\ Mapped(q, r)' => Mapped(q, r)
      PROVE  /\ \A q \in Procs : Own(q)'
             /\ \A p, q \in Procs : p # q /\ pc'[q] # "gone" => Peer(p, q)'
  <2>1. ASSUME NEW q \in Procs PROVE Own(q)' BY <1>o, <1>s DEF Own
  <2>2. ASSUME NEW p \in Procs, NEW q \in Procs, p # q, pc'[q] # "gone" PROVE Peer(p, q)'
    <3>1. Peer(p, q) /\ (Mapped(p, q)' => Mapped(p, q)) BY <1>p, <1>s, <2>2
    <3> QED BY <1>s, <3>1 DEF Peer, InLoop
  <2> QED BY <2>1, <2>2
\* Steps of a process that is at work on its own segment: nobody looks at it.
<1>w. ASSUME NEW p \in Procs, ~PastReset(p), ~PastReset(p)', pc'[p] # "gone", Own(p)',
             \A q \in Procs \ {p} : /\ pc'[q] = pc[q] /\ core'[q] = core[q] /\ fd'[q] = fd[q]
                                    /\ name'[q] = name[q] /\ seg'[q] = seg[q],
             sized \subseteq sized'
      PROVE  /\ \A q \in Procs : Own(q)'
             /\ \A r, q \in Procs : r # q /\ pc'[q] # "gone" => Peer(r, q)'
  <2>1. ASSUME NEW q \in Procs, q # p PROVE Own(q)'
    <3>1. Own(q) BY <1>o
    <3> QED BY <1>w, <2>1, <3>1 DEF Own, HasOwn, PastReset
  <2>2. ASSUME NEW r \in Procs, NEW q \in Procs PROVE ~InLoop(r)' /\ ~Mapped(r, q)'
    <3>1. CASE r = p BY <1>w, <3>1 DEF InLoop, Mapped, PastReset
    <3>2. CASE r # p
      <4>1. ~InLoop(r) /\ ~Mapped(r, q) BY <1>b, <1>w
      <4> QED BY <1>w, <3>2, <4>1 DEF InLoop, Mapped
    <3> QED BY <3>1, <3>2
  <2> QED BY <1>w, <2>1, <2>2 DEF Peer
<1>1. CASE SsmpInit
  <2>1. \A q \in Procs : pc[q] = "unborn" /\ core[q] = q /\ pc'[q] = "open" /\ core'[q] = q
    BY <1>1, <1>t DEF SsmpInit, Stages
  <2>2. ASSUME NEW q \in Procs PROVE Own(q)'
    BY <1>1, <1>o, <2>1 DEF SsmpInit, Own, HasOwn, PastReset
  <2>3. \A p, q \in Procs : ~InLoop(p)' /\ ~Mapped(p, q)' BY <2>1 DEF InLoop, Mapped
  <2> QED BY <2>2, <2>3 DEF Peer
<1>2. CASE OldTerminate
  <2>1. PICK p \in lag : name' = [name EXCEPT ![p] = None] BY <1>2 DEF OldTerminate
  <2>2. UNCHANGED <<pc, core, fd, seg, sized>> BY <1>2 DEF OldTerminate
  <2>3. \A q \in Procs : pc[q] = "unborn" BY <1>2, <1>t, <1>u DEF Stages
  <2>4. \A q \in Procs : name'[q] \in {name[q], None} BY <1>r, <2>1
  <2>5. ASSUME NEW q \in Procs PROVE Own(q)'
    BY <1>o, <2>2, <2>3, <2>4 DEF Own, HasOwn, PastReset
  <2>6. \A r, q \in Procs : ~InLoop(r)' /\ ~Mapped(r, q)' BY <2>2, <2>3 DEF InLoop, Mapped
  <2> QED BY <2>5, <2>6 DEF Peer
<1>3. ASSUME NEW p \in Procs, OpenExcl(p) \/ Reopen(p), core[p] = p
      PROVE  /\ \A q \in Procs : Own(q)'
             /\ \A r, q \in Procs : r # q /\ pc'[q] # "gone" => Peer(r, q)'
  <2>1. UNCHANGED <<core, seg, sized>> BY <1>3 DEF OpenExcl, Reopen
  <2>2. ~PastReset(p) /\ Own(p) BY <1>3, <1>o DEF OpenExcl, Reopen, PastReset
  <2>3. /\ pc'[p] \in {"reopen", "truncate", "map"}
        /\ \A q \in Procs \ {p} : pc'[q] = pc[q] /\ fd'[q] = fd[q] /\ name'[q] = name[q]
    BY <1>3, <1>r, <1>t DEF OpenExcl, Reopen, Typed
  <2>4. Own(p)'
    <3>1. CASE OpenExcl(p) /\ name[p] = None
      <4>1. fd'[p] = <<"new", p, p>> /\ name'[p] = <<"new", p, p>> /\ pc'[p] = "truncate"
        BY <1>3, <1>r, <1>t, <3>1 DEF OpenExcl, Typed
      <4> QED BY <1>3, <2>1, <4>1 DEF Own, HasOwn, PastReset
    <3>2. CASE OpenExcl(p) /\ name[p] # None
      <4>1. name'[p] = name[p] /\ pc'[p] = "reopen" BY <1>3, <1>t, <3>2 DEF OpenExcl, Typed
      <4>2. name[p] \in sized BY <1>3, <2>2, <3>2 DEF OpenExcl, Own
      <4> QED BY <1>3, <2>1, <4>1, <4>2 DEF Own, HasOwn, PastReset
    <3>3. CASE Reopen(p)
      <4>1. name[p] \in sized BY <1>3, <2>2, <3>3 DEF Reopen, Own
      <4>2. fd'[p] = name[p] /\ name'[p] = name[p] /\ pc'[p] = "map"
        BY <1>3, <1>r, <1>t, <3>3, <4>1 DEF Reopen, Typed
      <4> QED BY <1>3, <2>1, <4>1, <4>2 DEF Own, HasOwn, PastReset
    <3> QED BY <1>3, <3>1, <3>2, <3>3
  <2>5. ~PastReset(p)' BY <1>3, <2>1, <2>3 DEF PastReset
  <2> QED BY <1>w, <2>1, <2>2, <2>3, <2>4, <2>5
<1>4. ASSUME NEW p \in Procs, OpenExcl(p) \/ Reopen(p), core[p] # p
      PROVE  /\ \A q \in Procs : Own(q)'
             /\ \A r, q \in Procs : r # q /\ pc'[q] # "gone" => Peer(r, q)'
  <2>1. PICK c \in Procs : c = core[p] /\ c # p
    BY <1>4, <1>t DEF OpenExcl, Reopen, Stages
  <2>2. UNCHANGED <<core, seg, sized>> BY <1>4 DEF OpenExcl, Reopen
  <2>3. InLoop(p) BY <1>4 DEF OpenExcl, Reopen, InLoop
  <2>4. \A q \in Procs : PastReset(q) BY <1>b, <2>3
  <2>5. \A q \in Procs : HasOwn(q) /\ Own(q) /\ seg[q][q] \in sized BY <1>o, <2>4 DEF HasOwn, Own
  <2>6. pc[c] # "gone" => name[c] = seg[c][c] /\ name[c] # None
    BY <1>r, <2>5 DEF Own
  <2>7. /\ pc'[p] \in {"reopen", "truncate", "map"}
        /\ \A q \in Procs \ {p} : pc'[q] = pc[q] /\ fd'[q] = fd[q]
        /\ \A q \in Procs \ {c} : name'[q] = name[q]
    BY <1>4, <1>r, <1>t, <2>1 DEF OpenExcl, Reopen, Typed
  <2>8. pc[c] # "gone" =>
          /\ name'[c] = name[c] /\ pc'[p] \in {"reopen", "map"}
          /\ pc'[p] = "map" => fd'[p] = seg[c][c]
    BY <1>4, <1>r, <1>t, <2>1, <2>6 DEF OpenExcl, Reopen, Typed
  <2>9. pc[p] # "gone" BY <2>3 DEF InLoop
  <2>10. \A q \in Procs : HasOwn(q)' BY <1>4, <2>2, <2>4, <2>7 DEF HasOwn, PastReset
  <2>11. ASSUME NEW q \in Procs PROVE Own(q)'
    <3>1. pc'[q] # "gone" => pc[q] # "gone" BY <2>7, <2>9
    <3>2. pc'[q] # "gone" => name'[q] = seg'[q][q]
      BY <2>2, <2>5, <2>6, <2>7, <2>8, <3>1 DEF Own
    <3>3. pc'[q] \notin {"fault", "crashed", "unborn"}
      BY <2>4, <2>5, <2>7 DEF Own, PastReset
    <3>4. pc'[q] \in {"open", "reopen", "truncate", "map"} => core'[q] # q
      BY <1>4, <2>2, <2>4, <2>7 DEF PastReset
    <3> QED BY <2>2, <2>5, <3>2, <3>3, <3>4 DEF Own
  <2>12. ASSUME NEW r \in Procs, NEW q \in Procs, r # q, pc'[q] # "gone" PROVE Peer(r, q)'
    <3>1. pc[q] # "gone" BY <2>7, <2>9, <2>12
    <3>2. Peer(r, q) BY <1>p, <2>12, <3>1
    <3>3. CASE r # p
      BY <2>2, <2>7, <3>2, <3>3 DEF Peer, InLoop, Mapped
    <3>4. CASE r = p
      <4>1. Mapped(p, q)' => Mapped(p, q)
        BY <2>2, <2>3, <2>7 DEF Mapped, InLoop
      <4>2. core'[p] = q => q = c BY <2>1, <2>2
      <4> QED BY <2>2, <2>7, <2>8, <3>1, <3>2, <3>4, <4>1, <4>2 DEF Peer
    <3> QED BY <3>3, <3>4
  <2> QED BY <2>11, <2>12
<1>5. ASSUME NEW p \in Procs, Truncate(p)
      PROVE  /\ \A q \in Procs : Own(q)'
             /\ \A r, q \in Procs : r # q /\ pc'[q] # "gone" => Peer(r, q)'
  <2>1. /\ pc[p] = "truncate" /\ pc' = [pc EXCEPT ![p] = "map"]
        /\ sized' = sized \cup {fd[p]} /\ UNCHANGED <<core, fd, seg, name>>
    BY <1>5 DEF Truncate
  <2>2. CASE core[p] = p
    <3>1. ~PastReset(p) /\ ~PastReset(p)' BY <1>t, <2>1, <2>2 DEF PastReset, Typed
    <3>2. Own(p)' BY <1>o, <1>t, <2>1, <2>2 DEF Own, HasOwn, PastReset, Typed
    <3>3. pc'[p] = "map" /\ \A q \in Procs \ {p} : pc'[q] = pc[q] BY <1>t, <2>1 DEF Typed
    <3> QED BY <1>w, <2>1, <3>1, <3>2, <3>3
  <2>3. CASE core[p] # p
    <3>1. \A q \in Procs : pc'[q] = IF q = p THEN "map" ELSE pc[q] BY <1>t, <2>1 DEF Typed
    <3>2. InLoop(p) /\ core[p] \in Procs BY <1>t, <2>1, <2>3 DEF InLoop, Stages
    <3>3. pc[core[p]] = "gone" BY <1>p, <2>1, <2>3, <3>2 DEF Peer
    <3>4. ASSUME NEW q \in Procs PROVE Own(q)'
      <4>1. Own(q) /\ (HasOwn(q)' => HasOwn(q))
        BY <1>o, <2>1, <2>3, <3>1 DEF HasOwn, PastReset
      <4> QED BY <2>1, <2>3, <3>1, <4>1 DEF Own
    <3>5. ASSUME NEW r \in Procs, NEW q \in Procs, r # q, pc'[q] # "gone" PROVE Peer(r, q)'
      <4>1. pc[q] # "gone" BY <2>1, <3>1, <3>5
      <4>2. Peer(r, q) BY <1>p, <3>5, <4>1
      <4>3. Mapped(r, q)' => Mapped(r, q) BY <2>1, <3>1, <3>2 DEF Mapped, InLoop
      <4>4. CASE r = p
        <5>1. core[p] # q BY <3>3, <4>1
        <5> QED BY <2>1, <4>2, <4>3, <4>4, <5>1 DEF Peer
      <4>5. CASE r # p BY <2>1, <3>1, <4>2, <4>3, <4>5 DEF Peer, InLoop
      <4> QED BY <4>4, <4>5
    <3> QED BY <3>4, <3>5
  <2> QED BY <2>2, <2>3
<1>6. ASSUME NEW p \in Procs, Map(p), core[p] = p
      PROVE  /\ \A q \in Procs : Own(q)'
             /\ \A r, q \in Procs : r # q /\ pc'[q] # "gone" => Peer(r, q)'
  <2>1. /\ pc[p] = "map" /\ pc' = [pc EXCEPT ![p] = "reset"]
        /\ core' = [core EXCEPT ![p] = 0] /\ seg' = [seg EXCEPT ![p][p] = fd[p]]
        /\ UNCHANGED <<fd, name, sized>>
    BY <1>6 DEF Map, files
  <2>2. /\ pc'[p] = "reset" /\ seg'[p][p] = fd[p]
        /\ \A q \in Procs \ {p} : pc'[q] = pc[q] /\ core'[q] = core[q] /\ seg'[q] = seg[q]
    BY <1>r, <1>t, <2>1 DEF Typed
  <2>3. ~PastReset(p) /\ ~PastReset(p)' BY <1>6, <2>1, <2>2 DEF PastReset
  <2>4. name[p] = fd[p] /\ fd[p] \in sized BY <1>6, <1>o, <2>1 DEF Own
  <2>5. Own(p)' BY <2>1, <2>2, <2>4 DEF Own
  <2> QED BY <1>w, <2>1, <2>2, <2>3, <2>5
<1>7. ASSUME NEW p \in Procs, Map(p), core[p] # p
      PROVE  /\ \A q \in Procs : Own(q)'
             /\ \A r, q \in Procs : r # q /\ pc'[q] # "gone" => Peer(r, q)'
  <2>1. PICK c \in Procs : c = core[p] /\ c # p BY <1>7, <1>t DEF Map, Stages
  <2>2. /\ pc[p] = "map" /\ UNCHANGED <<fd, name, sized>>
        /\ pc' = [pc EXCEPT ![p] = IF NextPeer(p, c) < N THEN "open" ELSE "report"]
        /\ core' = [core EXCEPT ![p] = IF NextPeer(p, c) < N THEN NextPeer(p, c) ELSE 0]
        /\ seg' = [seg EXCEPT ![p][c] = fd[p]]
    BY <1>7, <2>1 DEF Map, files
  <2>3. InLoop(p) BY <2>1, <2>2 DEF InLoop
  <2>4. \A q \in Procs : PastReset(q) BY <1>b, <2>3
  <2>5. /\ pc'[p] = IF NextPeer(p, c) < N THEN "open" ELSE "report"
        /\ core'[p] = IF NextPeer(p, c) < N THEN NextPeer(p, c) ELSE 0
        /\ \A q \in Procs \ {p} : pc'[q] = pc[q] /\ core'[q] = core[q] /\ seg'[q] = seg[q]
    BY <1>t, <2>2 DEF Typed
  <2>6. \A q \in Procs : seg'[p][q] = IF q = c THEN fd[p] ELSE seg[p][q] BY <1>r, <2>2
  <2>7. NextPeer(p, c) # p /\ \A q \in Procs : q # p /\ q < NextPeer(p, c) => q <= c
    BY <1>n, <2>1 DEF NextPeer
  <2>8. ASSUME NEW q \in Procs PROVE Own(q)'
    <3>1. Own(q) /\ HasOwn(q) BY <1>o, <2>4 DEF HasOwn
    <3>2. seg'[q][q] = seg[q][q] BY <2>1, <2>5, <2>6
    <3>3. CASE q = p BY <2>2, <2>5, <2>7, <3>1, <3>2, <3>3 DEF Own
    <3>4. CASE q # p BY <2>2, <2>5, <3>1, <3>2, <3>4 DEF Own
    <3> QED BY <3>3, <3>4
  <2>9. ASSUME NEW r \in Procs, NEW q \in Procs, r # q, pc'[q] # "gone" PROVE Peer(r, q)'
    <3>1. pc[q] # "gone" BY <2>2, <2>5, <2>9
    <3>2. Peer(r, q) /\ seg'[q][q] = seg[q][q] BY <1>p, <2>1, <2>5, <2>6, <2>9, <3>1
    <3>3. CASE r # p BY <2>2, <2>5, <3>2, <3>3 DEF Peer, InLoop, Mapped
    <3>4. CASE r = p
      <4>1. pc'[p] \in {"open", "report"} BY <2>5
      <4>2. CASE q = c
        <5>1. fd[p] = seg[q][q] BY <2>1, <2>2, <2>3, <3>2, <3>4, <4>2 DEF Peer
        <5> QED BY <2>6, <3>2, <3>4, <4>1, <4>2, <5>1 DEF Peer
      <4>3. CASE q # c
        <5>1. Mapped(p, q)' => q < c
          <6>1. NextPeer(p, c) < N => core'[p] = NextPeer(p, c) /\ pc'[p] = "open" BY <2>5
          <6>2. Mapped(p, q)' => q < NextPeer(p, c)
            BY <1>n, <2>5, <6>1 DEF Mapped, InLoop, NextPeer
          <6> QED BY <1>n, <2>1, <2>7, <2>9, <3>4, <4>3, <6>2
        <5>2. q < c => Mapped(p, q) BY <2>1, <2>3 DEF Mapped
        <5> QED BY <2>6, <3>2, <3>4, <4>1, <4>3, <5>1, <5>2 DEF Peer
      <4> QED BY <4>2, <4>3
    <3> QED BY <3>3, <3>4
  <2> QED BY <2>8, <2>9
<1>8. ASSUME NEW p \in Procs,
             ResetOne(p) \/ EnterBarrier(p) \/ LeaveBarrier(p) \/ Report(p) \/ Await(p)
      PROVE  /\ \A q \in Procs : Own(q)'
             /\ \A r, q \in Procs : r # q /\ pc'[q] # "gone" => Peer(r, q)'
  <2>1. UNCHANGED <<name, sized, fd, seg>>
    BY <1>8 DEF ResetOne, EnterBarrier, LeaveBarrier, Report, Await, files
  <2>2. \A q \in Procs \ {p} : pc'[q] = pc[q] /\ core'[q] = core[q]
    BY <1>8, <1>t DEF ResetOne, EnterBarrier, LeaveBarrier, ToPeers, Report, Await, Typed
  <2>3. /\ pc[p] \in {"reset", "enter", "leave", "report", "await"}
        /\ pc'[p] \in {"reset", "enter", "leave", "open", "await", "up"}
        /\ pc'[p] = "open" => core'[p] = IF p = 0 THEN 1 ELSE 0
        /\ pc'[p] \in {"await", "up"} => pc[p] \in {"report", "await"}
    BY <1>8, <1>t DEF ResetOne, EnterBarrier, LeaveBarrier, ToPeers, Report, Await, Typed
  <2>4. \A q \in Procs : pc[q] \notin {"fault", "crashed"} /\ pc'[q] # "unborn"
    <3>1. forked BY <1>t, <2>3 DEF Stages
    <3> QED BY <1>o, <1>t, <2>2, <2>3, <3>1 DEF Own, Stages
  <2>5. \A r \in Procs : p # r /\ Mapped(p, r)' => Mapped(p, r)
    BY <1>n, <2>3 DEF Mapped, InLoop
  <2>6. HasOwn(p)' => HasOwn(p) BY <2>3 DEF HasOwn, PastReset
  <2>7. ASSUME NEW q \in Procs, q # p
        PROVE  (HasOwn(q)' <=> HasOwn(q)) /\ \A r \in Procs : Mapped(q, r)' <=> Mapped(q, r)
    BY <2>2, <2>7 DEF HasOwn, PastReset, Mapped, InLoop
  <2>8. \A q \in Procs :
               /\ pc'[q] \notin {"fault", "crashed", "unborn"}
               /\ pc'[q] = "open" /\ pc[q] = "open" => core'[q] = core[q]
               /\ pc'[q] = "open" /\ pc[q] # "open" => core'[q] # q
               /\ pc'[q] \in {"reopen", "truncate", "map"} => pc'[q] = pc[q] /\ core'[q] = core[q]
               /\ pc[q] = "gone" => pc'[q] = "gone"
    BY <1>n, <2>2, <2>3, <2>4
  <2> QED BY <1>s, <2>1, <2>5, <2>6, <2>7, <2>8
<1>9. ASSUME NEW p \in Procs, Send(p) \/ SendBig(p) \/ Receive(p)
      PROVE  /\ \A q \in Procs : Own(q)'
             /\ \A r, q \in Procs : r # q /\ pc'[q] # "gone" => Peer(r, q)'
  <2>1. UNCHANGED <<name, sized, pc, core, fd, seg>> BY <1>9 DEF Send, SendBig, Receive, files
  <2> QED BY <1>o, <1>p, <2>1 DEF Own, HasOwn, PastReset, Peer, InLoop, Mapped
<1>10. ASSUME NEW p \in Procs, Terminate(p)
       PROVE  /\ \A q \in Procs : Own(q)'
              /\ \A r, q \in Procs : r # q /\ pc'[q] # "gone" => Peer(r, q)'
  <2>1. /\ pc[p] = "up" /\ pc' = [pc EXCEPT ![p] = "gone"] /\ UNCHANGED <<core, fd, seg, sized>>
        /\ name' = [name EXCEPT ![p] = None]
    BY <1>10 DEF Terminate
  <2>2. /\ pc'[p] = "gone"
        /\ \A q \in Procs \ {p} : pc'[q] = pc[q] /\ name'[q] = name[q]
    BY <1>r, <1>t, <2>1 DEF Typed
  <2>3. ASSUME NEW q \in Procs PROVE Own(q)'
    <3>1. Own(q) BY <1>o
    <3>2. CASE q = p BY <2>1, <2>2, <3>1, <3>2 DEF Own, HasOwn, PastReset
    <3>3. CASE q # p BY <2>1, <2>2, <3>1, <3>3 DEF Own, HasOwn, PastReset
    <3> QED BY <3>2, <3>3
  <2>4. ASSUME NEW r \in Procs, NEW q \in Procs, r # q, pc'[q] # "gone" PROVE Peer(r, q)'
    <3>1. Peer(r, q) /\ q # p BY <1>p, <2>2, <2>4
    <3>2. Mapped(r, q)' => Mapped(r, q) BY <2>1, <2>2 DEF Mapped, InLoop
    <3>3. InLoop(r)' => InLoop(r) /\ pc'[r] = pc[r] BY <2>1, <2>2 DEF InLoop
    <3> QED BY <2>1, <3>1, <3>2, <3>3 DEF Peer
  <2> QED BY <2>3, <2>4
<1>11. ASSUME NEW p \in Procs PROVE ~ResetFault(p) /\ ~SendFault(p) BY <1>u, NoneFaults
<1>12. CASE UNCHANGED vars
  <2>1. UNCHANGED <<name, sized, pc, core, fd, seg>> BY <1>12 DEF vars, files
  <2> QED BY <1>o, <1>p, <2>1 DEF Own, HasOwn, PastReset, Peer, InLoop, Mapped
<1> QED BY <1>1, <1>2, <1>3, <1>4, <1>5, <1>6, <1>7, <1>8, <1>9, <1>10, <1>11, <1>12
        DEF Next, Library, Program

LEMMA LostStep ==
  ASSUME Parameters, StartInv, Rest, Addressed, NoGhost, Traffic, Shared, Lossless, [Next]_vars
  PROVE  Lossless'
<1> SUFFICES ASSUME ~short', Undisturbed', NEW p \in Procs, NEW q \in Procs, q \in sent'[p]
             PROVE  \/ <<p, "NEW">> \in got'[q]
                    \/ line'[seg'[q][q]][RecvLine(q, p)] = "NEW"
  BY DEF Lossless, NothingLost
<1>t. Typed /\ Stages /\ Opened BY DEF StartInv, Rest
<1>u. Undisturbed /\ ~short /\ NothingLost BY UndisturbedBefore, PastStays DEF Lossless
<1>r. /\ seg \in [Procs -> [Procs -> Segs \cup {None}]]
      /\ sent \in [Procs -> SUBSET Procs] /\ got \in [Procs -> SUBSET (Procs \X Flags)]
      /\ line \in [Segs -> [Lines -> Flags]]
      /\ \A r, s \in Procs : seg[r][s] \in Segs => seg[r][s] \in SegsOf(s)
  BY DEF Rest, Addressed, Parameters
<1>b. \A r, s \in Procs : Up(r) => PastReset(s)
  BY <1>u, Beyond, LoopBeyond DEF Undisturbed
\* What was sent before is under way or received.
<1>o. ASSUME q \in sent[p]
      PROVE  /\ \A r \in Procs : PastReset(r)
             /\ p # q /\ seg[q][q] \in SegsOf(q) \cap Segs
             /\ \/ <<p, "NEW">> \in got[q]
                \/ line[seg[q][q]][RecvLine(q, p)] = "NEW"
  <2>1. Up(p) /\ <<p, q>> \in Uses BY <1>o DEF Traffic
  <2>2. \A r \in Procs : PastReset(r) BY <1>b, <2>1
  <2>3. seg[q][q] \in Segs BY <1>t, <2>2 DEF Opened, HasOwn
  <2> QED BY <1>o, <1>r, <1>u, <2>1, <2>2, <2>3 DEF NothingLost, Parameters
<1>1. ASSUME NEW r \in Procs, Send(r)
      PROVE  \/ <<p, "NEW">> \in got'[q]
             \/ line'[seg'[q][q]][RecvLine(q, p)] = "NEW"
  <2>1. PICK s \in Procs \ sent[r] :
          /\ <<r, s>> \in Uses
          /\ line' = [line EXCEPT ![seg[r][s]][SendLine(r, s)] = "NEW"]
          /\ sent' = [sent EXCEPT ![r] = @ \cup {s}]
    BY <1>1 DEF Send
  <2>2. UNCHANGED <<seg, got>> /\ pc[r] = "up" BY <1>1 DEF Send
  <2>3. r # s BY <2>1 DEF Parameters
  <2>4. CASE q \in sent[p]
    <3>1. RecvLine(q, p) \in Lines BY <1>o, <2>4, LineType
    <3>2. line'[seg[q][q]][RecvLine(q, p)] \in {line[seg[q][q]][RecvLine(q, p)], "NEW"}
      BY <1>o, <1>r, <2>1, <2>4, <3>1, Store
    <3> QED BY <1>o, <2>2, <2>4, <3>2
  <2>5. CASE q \notin sent[p]
    <3>1. r = p /\ s = q BY <1>r, <2>1, <2>5
    <3>2. pc[q] # "gone"
      <4>1. SUFFICES ASSUME <<p, "NEW">> \in got[q] PROVE q \in sent[p]
        BY <2>1, <2>5, <3>1 DEF Traffic
      <4>2. PICK m \in got[q] : m = <<p, "NEW">> BY <4>1
      <4>3. q \in sent[m[1]] BY DEF NoGhost
      <4> QED BY <4>2, <4>3
    <3>3. seg[p][q] = seg[q][q] BY <1>u, <2>2, <2>3, <3>1, <3>2 DEF Shared, Peer, Mapped
    <3>4. seg[q][q] \in Segs BY <1>b, <1>t, <2>2 DEF Up, Opened, HasOwn
    <3>5. RecvLine(q, p) \in Lines /\ SendLine(p, q) = RecvLine(q, p)
      BY <2>3, <3>1, LineType, LinesApart
    <3>6. line' = [line EXCEPT ![seg[q][q]][RecvLine(q, p)] = "NEW"] BY <2>1, <3>1, <3>3, <3>5
    <3>7. line'[seg[q][q]][RecvLine(q, p)] = "NEW" BY <1>r, <3>4, <3>5, <3>6, Store
    <3> QED BY <2>2, <3>7
  <2> QED BY <2>4, <2>5
<1>2. ASSUME NEW r \in Procs, Receive(r)
      PROVE  \/ <<p, "NEW">> \in got'[q]
             \/ line'[seg'[q][q]][RecvLine(q, p)] = "NEW"
  <2>1. PICK s \in Procs :
          /\ <<s, r>> \in Uses
          /\ got' = [got EXCEPT ![r] = @ \cup {<<s, line[seg[r][r]][RecvLine(r, s)]>>}]
          /\ line' = [line EXCEPT ![seg[r][r]][RecvLine(r, s)] = "EMPTY"]
    BY <1>2 DEF Receive
  <2>2. UNCHANGED <<seg, sent>> /\ pc[r] = "up" BY <1>2 DEF Receive
  <2>3. r # s /\ q \in sent[p] BY <2>1, <2>2 DEF Parameters
  <2>4. got[q] \subseteq got'[q] BY <1>r, <2>1
  <2>5. CASE line'[seg[q][q]][RecvLine(q, p)] = line[seg[q][q]][RecvLine(q, p)]
    BY <1>o, <2>2, <2>3, <2>4, <2>5
  <2>6. CASE /\ line[seg[q][q]][RecvLine(q, p)] = "NEW"
             /\ line'[seg[q][q]][RecvLine(q, p)] # line[seg[q][q]][RecvLine(q, p)]
    <3>1. RecvLine(q, p) \in Lines /\ seg[q][q] \in SegsOf(q) \cap Segs BY <1>o, <2>3, LineType
    <3>2. seg[q][q] = seg[r][r] /\ RecvLine(q, p) = RecvLine(r, s)
      BY <1>r, <2>1, <2>6, <3>1, Store
    <3>3. r = q BY <1>r, <3>1, <3>2, SegsApart
    <3>4. s = p BY <1>o, <2>3, <3>2, <3>3, LinesApart
    <3>5. got' = [got EXCEPT ![q] = @ \cup {<<p, "NEW">>}] BY <2>1, <2>6, <3>3, <3>4
    <3> QED BY <1>r, <3>5
  <2> QED BY <1>o, <2>3, <2>4, <2>5, <2>6
<1>3. CASE ~ \E r \in Procs : Send(r) \/ Receive(r)
  <2>1. UNCHANGED <<sent, got>>
    BY <1>3 DEF vars, Next, Library, Program, SsmpInit, OldTerminate, OpenExcl, Reopen,
           Truncate, Map, ResetOne, ResetFault, Fault, EnterBarrier, LeaveBarrier, Report,
           Await, SendFault, SendBig, Terminate
  <2>2. \A r \in Procs : PastReset(r) BY <1>o, <2>1
  <2>3. \A r \in Procs : ~ResetOne(r) BY <2>2 DEF ResetOne, PastReset
  <2>4. UNCHANGED line
    BY <1>3, <2>3 DEF vars, Next, Library, Program, SsmpInit, OldTerminate, OpenExcl, Reopen,
           Truncate, Map, ResetFault, Fault, EnterBarrier, LeaveBarrier, Report,
           Await, SendFault, SendBig, Terminate
  <2>5. seg'[q][q] = seg[q][q]
    <3>1. ASSUME NEW r \in Procs, Map(r) PROVE seg'[q][q] = seg[q][q]
      <4>1. core[r] # r /\ core[r] \in Procs BY <1>t, <2>2, <3>1 DEF Map, PastReset, Stages
      <4>2. seg' = [seg EXCEPT ![r][core[r]] = fd[r]] BY <3>1 DEF Map
      <4> QED BY <1>r, <4>1, <4>2
    <3>2. CASE ~ \E r \in Procs : Map(r)
      BY <1>3, <3>2 DEF vars, Next, Library, Program, SsmpInit, OldTerminate, OpenExcl, Reopen,
           Truncate, ResetOne, ResetFault, Fault, EnterBarrier, LeaveBarrier, Report,
           Await, SendFault, SendBig, Terminate
    <3> QED BY <3>1, <3>2
  <2> QED BY <1>o, <2>1, <2>4, <2>5
<1> QED BY <1>1, <1>2, <1>3

\* A step of a process that is not p leaves p stopped.
LEMMA StoppedStays ==
  ASSUME NEW q \in Procs, Stopped(q), sized' \subseteq sized \cup NewSegs,
         name'[q] = name[q], pc'[q] = pc[q], core'[q] = core[q], fd'[q] = fd[q],
         seg'[q] = seg[q]
  PROVE  Stopped(q)'
<1>1. <<"old", q>> \notin NewSegs BY DEF NewSegs
<1> QED BY <1>1 DEF Stopped

\* A stopped process never gets past its reset.
LEMMA StoppedStep ==
  ASSUME Parameters, StartInv, Rest, Short, [Next]_vars, short, NEW q \in Procs, Stopped(q)
  PROVE  Stopped(q)'
<1>n. N \in Nat /\ N >= 2 /\ Procs = 0 .. N - 1 BY Sizes
<1>t. Typed /\ Stages BY DEF StartInv
<1>r. /\ name \in [Procs -> Segs \cup {None}] /\ fd \in [Procs -> Segs \cup {None}]
      /\ seg \in [Procs -> [Procs -> Segs \cup {None}]] /\ None \notin Segs
  BY DEF Rest, Parameters
<1>q. /\ name[q] = <<"old", q>> /\ name[q] # None
      /\ pc[q] \in {"unborn", "open", "reopen", "map", "reset", "fault"}
  BY <1>r DEF Stopped, Segs, OldSegs
<1>d. <<"old", q>> \notin NewSegs BY DEF NewSegs
<1>1. CASE SsmpInit
  <2>1. pc[q] = "unborn" /\ core[q] = q BY <1>1, <1>t DEF SsmpInit, Stages
  <2> QED BY <1>1, <2>1 DEF SsmpInit, Stopped
<1>2. CASE OldTerminate BY <1>2 DEF OldTerminate, Short
<1>3. ASSUME NEW p \in Procs, OpenExcl(p) PROVE Stopped(q)'
  <2>1. core[p] \in Procs BY <1>3, <1>t DEF OpenExcl, Stages
  <2>2. name'[q] = name[q] BY <1>3, <1>q, <1>r, <2>1 DEF OpenExcl
  <2>3. CASE p # q BY <1>3, <1>r, <1>t, <2>2, <2>3, StoppedStays DEF OpenExcl, Typed
  <2>4. CASE p = q
    <3>1. core[q] = q BY <1>3, <2>4 DEF OpenExcl, Stopped
    <3>2. pc'[q] = "reopen" BY <1>3, <1>q, <1>t, <2>4, <3>1 DEF OpenExcl, Typed
    <3> QED BY <1>3, <1>q, <2>2, <3>1, <3>2 DEF OpenExcl, Stopped
  <2> QED BY <2>3, <2>4
<1>4. ASSUME NEW p \in Procs, Reopen(p) PROVE Stopped(q)'
  <2>1. core[p] \in Procs BY <1>4, <1>t DEF Reopen, Stages
  <2>2. name'[q] = name[q] BY <1>4, <1>q, <1>r, <2>1 DEF Reopen
  <2>3. CASE p # q BY <1>4, <1>r, <1>t, <2>2, <2>3, StoppedStays DEF Reopen, Typed
  <2>4. CASE p = q
    <3>1. core[q] = q BY <1>4, <2>4 DEF Reopen, Stopped
    <3>2. pc'[q] = "map" /\ fd'[q] = <<"old", q>>
      BY <1>4, <1>q, <1>r, <1>t, <2>4, <3>1 DEF Reopen, Typed
    <3> QED BY <1>4, <1>q, <2>2, <3>1, <3>2 DEF Reopen, Stopped
  <2> QED BY <2>3, <2>4
<1>5. ASSUME NEW p \in Procs, Truncate(p) PROVE Stopped(q)'
  <2>1. p # q BY <1>5, <1>q DEF Truncate
  <2>2. fd[p] \in NewSegs BY <1>5 DEF Truncate, Short
  <2> QED BY <1>5, <1>t, <2>1, <2>2, StoppedStays DEF Truncate, Typed
<1>6. ASSUME NEW p \in Procs, Map(p) PROVE Stopped(q)'
  <2>1. core[p] \in Procs BY <1>6, <1>t DEF Map, Stages
  <2>2. CASE p # q BY <1>6, <1>r, <1>t, <2>2, StoppedStays DEF Map, Typed, files
  <2>3. CASE p = q
    <3>1. core[q] = q /\ fd[q] = <<"old", q>> BY <1>6, <2>3 DEF Map, Stopped
    <3>2. /\ pc'[q] = "reset" /\ core'[q] = 0 /\ seg'[q][q] = <<"old", q>>
          /\ UNCHANGED <<name, sized>>
      BY <1>6, <1>r, <1>t, <2>3, <3>1 DEF Map, Typed, files
    <3> QED BY <1>q, <3>2 DEF Stopped
  <2> QED BY <2>2, <2>3
<1>7. ASSUME NEW p \in Procs, ResetOne(p) PROVE Stopped(q)'
  <2>1. CASE p # q BY <1>7, <1>t, <2>1, StoppedStays DEF ResetOne, Typed, files
  <2>2. CASE p = q
    <3>1. /\ pc[q] = "reset" /\ seg[q][q] = <<"old", q>> /\ <<"old", q>> \notin sized
          /\ core[q] = 0 \/ (q = 0 /\ core[q] = 1)
      BY <1>7, <2>2 DEF ResetOne, Stopped
    <3>2. core[q] = q BY <1>7, <2>2, <3>1 DEF ResetOne
    <3>3. q = 0 /\ core[q] = 0 BY <3>1, <3>2
    <3>4. core'[q] = 1 /\ pc'[q] = "reset" BY <1>7, <1>n, <1>t, <2>2, <3>3 DEF ResetOne, Typed
    <3> QED BY <1>7, <1>q, <3>1, <3>3, <3>4 DEF ResetOne, Stopped, files
  <2> QED BY <2>1, <2>2
<1>8. ASSUME NEW p \in Procs, ResetFault(p) \/ SendFault(p) PROVE Stopped(q)'
  <2>1. CASE p # q
    BY <1>8, <1>t, <2>1, StoppedStays DEF ResetFault, SendFault, Fault, Typed, files
  <2>2. CASE p = q
    <3>1. pc'[q] = "fault" BY <1>8, <1>q, <1>t, <2>2 DEF ResetFault, SendFault, Fault, Typed
    <3>2. UNCHANGED <<name, sized>> BY <1>8 DEF ResetFault, SendFault, Fault, files
    <3> QED BY <3>1, <3>2 DEF Stopped
  <2> QED BY <2>1, <2>2
<1>9. ASSUME NEW p \in Procs,
             \/ EnterBarrier(p) \/ LeaveBarrier(p) \/ Report(p) \/ Await(p) \/ Send(p)
             \/ SendBig(p) \/ Receive(p)
      PROVE  Stopped(q)'
  <2>1. p # q
    BY <1>9, <1>q DEF EnterBarrier, LeaveBarrier, Report, Await, Send, SendBig, Receive
  <2>2. UNCHANGED <<name, sized, fd, seg>>
    BY <1>9 DEF EnterBarrier, LeaveBarrier, Report, Await, Send, SendBig, Receive, files
  <2>3. pc'[q] = pc[q] /\ core'[q] = core[q]
    BY <1>9, <1>t, <2>1 DEF EnterBarrier, LeaveBarrier, ToPeers, Report, Await, Send, SendBig,
                            Receive, Typed
  <2> QED BY <2>2, <2>3, StoppedStays
<1>10. ASSUME NEW p \in Procs, Terminate(p) PROVE Stopped(q)'
  <2>1. p # q BY <1>10, <1>q DEF Terminate
  <2>2. name'[q] = name[q] BY <1>10, <1>r, <2>1 DEF Terminate
  <2> QED BY <1>10, <1>t, <2>1, <2>2, StoppedStays DEF Terminate, Typed
<1>11. CASE UNCHANGED vars BY <1>11, StoppedStays DEF vars, files
<1> QED BY <1>1, <1>2, <1>3, <1>4, <1>5, <1>6, <1>7, <1>8, <1>9, <1>10, <1>11
        DEF Next, Library, Program

\* Without all chunk buffers nobody gets past the reset.
LEMMA AllStoppedStep ==
  ASSUME Parameters, StartInv, Rest, [Next]_vars, AllStopped
  PROVE  AllStopped'
<1>n. N \in Nat /\ N >= 2 /\ Procs = 0 .. N - 1 BY Sizes
<1>t. Typed /\ Stages BY DEF StartInv
<1>1. CASE SsmpInit
  <2>1. main \in 0 .. N - 1 BY <1>1 DEF SsmpInit, AllStopped
  <2>2. main # None BY <2>1, <1>n DEF Parameters
  <2>3. chunks' < N /\ forked' BY <1>1, <1>n, <2>1, <2>2 DEF SsmpInit
  <2>4. \A q \in Procs : ~PastReset(q)'
    BY <1>1, <1>t DEF SsmpInit, Stages, PastReset
  <2> QED BY <2>3, <2>4 DEF AllStopped
<1>2. CASE OldTerminate BY <1>2 DEF OldTerminate, AllStopped, PastReset
<1>3. ASSUME NEW p \in Procs, Library(p) \/ Program(p) PROVE AllStopped'
  <2>1. forked
    BY <1>3, <1>t DEF Stages, Library, Program, OpenExcl, Reopen, Truncate, Map, ResetOne,
      ResetFault, EnterBarrier, LeaveBarrier, Report, Await, Send, SendFault, SendBig,
      Receive, Terminate
  <2>2. chunks < N /\ \A q \in Procs : ~PastReset(q) BY <2>1 DEF AllStopped
  <2>3. \/ OpenExcl(p) \/ Reopen(p) \/ Truncate(p) \/ Map(p) \/ ResetOne(p) \/ ResetFault(p)
    BY <1>3, <2>2
       DEF Library, Program, EnterBarrier, LeaveBarrier, Report, Await, Send, SendFault,
           SendBig, Receive, Terminate, PastReset
  <2>4. UNCHANGED <<forked, chunks>>
    BY <2>3 DEF OpenExcl, Reopen, Truncate, Map, ResetOne, ResetFault, Fault
  <2>5. ASSUME NEW q \in Procs, q # p PROVE ~PastReset(q)'
    <3>1. pc'[q] = pc[q] /\ core'[q] = core[q]
      BY <1>t, <2>3, <2>5 DEF OpenExcl, Reopen, Truncate, Map, ResetOne, ResetFault, Fault, Typed
    <3> QED BY <2>2, <3>1 DEF PastReset
  <2>6. ~PastReset(p)'
    <3>1. CASE OpenExcl(p) \/ Reopen(p) \/ Truncate(p)
      <4>1. core[p] = p BY <2>2, <3>1 DEF OpenExcl, Reopen, Truncate, PastReset
      <4>2. core'[p] = p /\ pc'[p] \in {"reopen", "truncate", "map"}
        BY <1>t, <3>1, <4>1 DEF OpenExcl, Reopen, Truncate, Typed
      <4> QED BY <4>2 DEF PastReset
    <3>2. CASE Map(p)
      <4>1. core[p] = p BY <2>2, <3>2 DEF Map, PastReset
      <4>2. pc'[p] = "reset" BY <1>t, <3>2, <4>1 DEF Map, Typed
      <4> QED BY <4>2 DEF PastReset
    <3>3. CASE ResetOne(p)
      <4>1. core[p] \in Procs /\ core[p] < chunks BY <1>t, <3>3 DEF ResetOne, Stages
      <4>2. core[p] + 1 < N BY <1>n, <2>2, <4>1 DEF Rest
      <4>3. pc'[p] = "reset" BY <1>t, <3>3, <4>2 DEF ResetOne, Typed
      <4> QED BY <4>3 DEF PastReset
    <3>4. CASE ResetFault(p)
      <4>1. pc'[p] = "fault" BY <1>t, <3>4 DEF ResetFault, Fault, Typed
      <4> QED BY <4>1 DEF PastReset
    <3> QED BY <2>3, <3>1, <3>2, <3>3, <3>4
  <2> QED BY <2>1, <2>2, <2>4, <2>5, <2>6 DEF AllStopped
<1>4. CASE UNCHANGED vars BY <1>4 DEF vars, files, AllStopped, PastReset
<1> QED BY <1>1, <1>2, <1>3, <1>4 DEF Next

LEMMA ShortStep ==
  ASSUME Parameters, StartInv, Rest, Short, [Next]_vars
  PROVE  Short'
<1>t. Typed /\ Stages BY DEF StartInv
<1>r. fd \in [Procs -> Segs \cup {None}] BY DEF Rest
<1>k. before' = before /\ short' = short BY PastStays
<1>1. short => AllStopped' \/ \E q \in Procs : Stopped(q)'
  BY AllStoppedStep, StoppedStep DEF Short
<1>2. before = "killed" => lag' = {}
  <2>1. ASSUME before = "killed" PROVE ~OldTerminate BY <2>1 DEF Short, OldTerminate
  <2>2. lag' = lag \/ OldTerminate
    BY DEF vars, files, past, Next, Library, Program, SsmpInit, OpenExcl, Reopen, Truncate,
           Map, ResetOne, ResetFault, SendFault, Fault, EnterBarrier, LeaveBarrier, Report,
           Await, Send, SendBig, Receive, Terminate
  <2> QED BY <2>1, <2>2 DEF Short
<1>3. ASSUME NEW p \in Procs, pc'[p] = "truncate" PROVE fd'[p] \in NewSegs
  <2>1. ASSUME NEW q \in Procs, OpenExcl(q) PROVE fd'[p] \in NewSegs
    <3>1. core[q] \in Procs BY <2>1, <1>t DEF OpenExcl, Stages
    <3>2. <<"new", q, core[q]>> \in NewSegs BY <3>1 DEF NewSegs
    <3>3. CASE p = q BY <1>3, <1>r, <1>t, <2>1, <3>2, <3>3 DEF OpenExcl, Typed
    <3>4. CASE p # q BY <1>3, <1>r, <1>t, <2>1, <3>4 DEF OpenExcl, Typed, Short
    <3> QED BY <3>3, <3>4
  <2>2. ASSUME NEW q \in Procs, Reopen(q) PROVE fd'[p] \in NewSegs
    BY <1>3, <1>r, <1>t, <2>2 DEF Reopen, Typed, Short
  <2>3. ASSUME UNCHANGED fd, pc'[p] = "truncate" => pc[p] = "truncate" PROVE fd'[p] \in NewSegs
    BY <1>3, <2>3 DEF Short
  <2>4. ASSUME NEW q \in Procs,
               \/ Truncate(q) \/ Map(q) \/ ResetOne(q) \/ ResetFault(q) \/ EnterBarrier(q)
               \/ LeaveBarrier(q) \/ Report(q) \/ Await(q) \/ Program(q)
        PROVE  UNCHANGED fd /\ (pc'[p] = "truncate" => pc[p] = "truncate")
    BY <1>t, <2>4 DEF Truncate, Map, ResetOne, ResetFault, Fault, EnterBarrier, LeaveBarrier,
      ToPeers, Report, Await, Program, Send, SendFault, SendBig, Receive, Terminate, Typed
  <2>5. CASE SsmpInit BY <1>3, <2>5 DEF SsmpInit
  <2>6. CASE OldTerminate BY <1>3, <2>3, <2>6 DEF OldTerminate
  <2>7. CASE UNCHANGED vars BY <1>3, <2>3, <2>7 DEF vars
  <2> QED BY <2>1, <2>2, <2>3, <2>4, <2>5, <2>6, <2>7 DEF Next, Library
<1> QED BY <1>k, <1>1, <1>2, <1>3 DEF Short

\* The barrier keeps everybody behind the one who is stopped.
LEMMA NoneUp ==
  ASSUME Parameters, StartInv, Short, Undisturbed, short, NEW p \in Procs
  PROVE  ~Up(p)
<1>t. Typed /\ Stages BY DEF StartInv
<1>1. SUFFICES ASSUME Up(p) PROVE FALSE
  OBVIOUS
<1>2. \A q \in Procs : PastReset(q) BY <1>1, UpAfterResets DEF Through
<1>3. forked BY <1>1, <1>t DEF Stages, Up
<1>4. ASSUME NEW q \in Procs, Stopped(q) PROVE ~PastReset(q) BY <1>4 DEF Stopped, PastReset
<1> QED BY <1>2, <1>3, <1>4 DEF Short, AllStopped

LEMMA UnlinkedStep ==
  ASSUME Parameters, StartInv, Rest, Unlinked, [Next]_vars
  PROVE  Unlinked'
<1>t. Typed /\ Stages /\ Reported BY DEF StartInv
<1>r. name \in [Procs -> Segs \cup {None}] BY DEF Rest
<1>k. before' = before
  BY DEF vars, files, past, Next, Library, Program, SsmpInit, OldTerminate, OpenExcl,
         Reopen, Truncate, Map, ResetOne, ResetFault, SendFault, Fault, EnterBarrier,
         LeaveBarrier, Report, Await, Send, SendBig, Receive, Terminate
<1> SUFFICES ASSUME before # "killed", NEW q \in Procs, pc'[q] = "gone"
             PROVE  name'[q] = None
  BY <1>k DEF Unlinked
<1>1. ASSUME NEW p \in Procs, Terminate(p) PROVE name'[q] = None
  <2>1. name' = [name EXCEPT ![p] = None] /\ pc' = [pc EXCEPT ![p] = "gone"]
    BY <1>1 DEF Terminate
  <2>2. CASE q = p BY <1>r, <2>1, <2>2
  <2>3. CASE q # p BY <1>r, <1>t, <2>1, <2>3 DEF Unlinked, Typed
  <2> QED BY <2>2, <2>3
<1>2. CASE OldTerminate
  <2>1. PICK p \in lag : name' = [name EXCEPT ![p] = None] BY <1>2 DEF OldTerminate
  <2>2. pc[q] = "gone" BY <1>2 DEF OldTerminate
  <2> QED BY <1>r, <2>1, <2>2 DEF Unlinked
<1>3. CASE SsmpInit BY <1>3 DEF SsmpInit
<1>4. ASSUME NEW p \in Procs, OpenExcl(p) \/ Reopen(p) PROVE FALSE
  <2>1. pc[q] = "gone"
    BY <1>4, <1>t DEF OpenExcl, Reopen, Typed
  <2>2. ready[p] BY <1>t, <2>1 DEF Reported, Up
  <2> QED BY <1>4, <1>t, <2>2 DEF OpenExcl, Reopen, Reported
<1>5. ASSUME NEW p \in Procs,
             \/ Truncate(p) \/ Map(p) \/ ResetOne(p) \/ ResetFault(p) \/ EnterBarrier(p)
             \/ LeaveBarrier(p) \/ Report(p) \/ Await(p) \/ Send(p) \/ SendFault(p)
             \/ SendBig(p) \/ Receive(p)
      PROVE  name'[q] = None
  <2>1. name' = name
    BY <1>5 DEF Truncate, Map, ResetOne, ResetFault, Fault, EnterBarrier, LeaveBarrier, Report,
                Await, Send, SendFault, SendBig, Receive, files
  <2>2. pc[q] = "gone"
    BY <1>5, <1>t DEF Truncate, Map, ResetOne, ResetFault, Fault, EnterBarrier, LeaveBarrier,
                ToPeers, Report, Await, Send, SendFault, SendBig, Receive, Typed
  <2> QED BY <2>1, <2>2 DEF Unlinked
<1>6. CASE UNCHANGED vars BY <1>6 DEF vars, files, Unlinked
<1> QED BY <1>1, <1>2, <1>3, <1>4, <1>5, <1>6 DEF Next, Library, Program

LEMMA DeliveryInit ==
  ASSUME Parameters, AllWait, Init
  PROVE  DeliveryInv
<1>n. N \in Nat /\ Procs = 0 .. N - 1 BY Sizes
<1>0. StartInv /\ Rest BY StartInit, RestInit
<1>1. PICK l \in Left(before) :
        /\ main = l.main
        /\ name = [p \in Procs |-> IF p \in l.names THEN <<"old", p>> ELSE None]
        /\ sized = {"old"} \X l.whole
        /\ lag = l.lag
        /\ short = ~Fits(l)
  BY DEF Init
<1>2. before \in {"none", "killed", "exiting"} BY DEF Init, Parameters
<1>3. /\ l.main \in {None} \cup (0 .. N) /\ l.names \subseteq Procs /\ l.whole \subseteq l.names
      /\ before = "killed" => l.lag = {}
      /\ before # "killed" => Fits(l)
  BY <1>2, LeftType
<1>4. \A p \in Procs : pc[p] = "unborn" /\ core[p] = p /\ fd[p] = None BY DEF Init
<1>5. \A p, q \in Procs : seg[p][q] = None BY DEF Init
<1>6. MainSeg BY <1>1, <1>4, Sizes DEF Init, MainSeg, Fits
<1>7. Addressed BY <1>1, <1>4, <1>5 DEF Addressed, SegsOf
<1>8. Written
  <2> SUFFICES ASSUME NEW p \in Procs, NEW q \in Procs, p # q, NEW g \in SegsOf(q) \cap Segs
               PROVE  line[g][RecvLine(q, p)] # "NEW"
    BY DEF Written
  <2>1. RecvLine(q, p) \in Lines BY LineType
  <2> QED BY <2>1 DEF Init
<1>9. Clean /\ Traffic /\ NoGhost /\ Lossless /\ Unlinked
  BY <1>4 DEF Init, Clean, PastReset, Traffic, NoGhost, Lossless, NothingLost, Unlinked
<1>10. Shared
  <2> SUFFICES ASSUME ~short
               PROVE  /\ \A q \in Procs : Own(q)
                      /\ \A p, q \in Procs : p # q /\ pc[q] # "gone" => Peer(p, q)
    BY DEF Shared
  <2>1. \A p \in Procs : name[p] = None \/ name[p] \in sized
    BY <1>1 DEF Fits
  <2>2. \A p \in Procs : Own(p) BY <1>4, <2>1 DEF Own, HasOwn, PastReset
  <2>3. \A p, q \in Procs : ~InLoop(p) /\ ~Mapped(p, q) BY <1>4 DEF InLoop, Mapped
  <2> QED BY <2>2, <2>3 DEF Peer
<1>11. Short
  <2>1. short => before = "killed" BY <1>1, <1>3
  <2>2. before = "killed" => lag = {} BY <1>1, <1>3
  <2>3. ASSUME short PROVE AllStopped \/ \E q \in Procs : Stopped(q)
    <3>1. CASE l.main \notin {None, N}
      <4>1. main \in 0 .. N - 1 BY <1>1, <1>3, <1>n, <3>1
      <4>2. ~forked BY DEF Init
      <4> QED BY <4>1, <4>2 DEF AllStopped
    <3>2. CASE l.whole # l.names
      <4>1. PICK q \in Procs : q \in l.names /\ q \notin l.whole BY <1>3, <3>2
      <4>2. name[q] = <<"old", q>> /\ <<"old", q>> \notin sized BY <1>1, <4>1
      <4> QED BY <1>4, <4>2 DEF Stopped
    <3> QED BY <1>1, <2>3, <3>1, <3>2 DEF Fits
  <2>4. \A p \in Procs : pc[p] # "truncate" BY <1>4
  <2> QED BY <2>1, <2>2, <2>3, <2>4 DEF Short
<1> QED BY <1>6, <1>7, <1>8, <1>9, <1>10, <1>11 DEF DeliveryInv

LEMMA Delivery ==
  ASSUME Parameters, AllWait
  PROVE  Spec => [](StartInv /\ DeliveryInv)
<1>1. Init => Rest /\ DeliveryInv BY RestInit, DeliveryInit
<1>2. StartInv /\ Rest /\ DeliveryInv /\ [Next]_vars => Rest' /\ DeliveryInv'
  BY RestStep, MainSegStep, AddressedStep, WrittenStep, CleanStep, TrafficStep, SharedStep,
     LostStep, ShortStep, UnlinkedStep
     DEF DeliveryInv
<1> QED BY <1>1, <1>2, Invariant, PTL DEF Spec

Delivered == NothingLost /\ NoGhost /\ PeersShare /\ NoFault /\ ShortStops /\ NothingLeft

\* Whatever the run before has left, if nobody else removes names and barrier 0
\* holds up all: what a process sends after start-up is in the line its receiver
\* looks at until it is received, nothing else is received, two processes that
\* run mean the same memory, and no name is left when all have terminated.  A
\* process touches a page that is not there only when a segment was left that
\* is too short, because the run before was killed between shm_open and
\* ftruncate or had fewer processes, and then nobody gets through start-up.
THEOREM DeliveredCorrect ==
  ASSUME Parameters, AllWait
  PROVE  Spec => []Delivered
<1>1. ASSUME StartInv, DeliveryInv, Parameters
      PROVE  Delivered
  <2>0. ASSUME Undisturbed, short, NEW p \in Procs PROVE ~Up(p)
    BY <1>1, <2>0, NoneUp DEF DeliveryInv
  <2>1. NothingLost
    <3>1. CASE ~short BY <1>1, <3>1 DEF DeliveryInv, Lossless
    <3>2. CASE short
      <4>1. Undisturbed => \A p \in Procs : sent[p] = {}
        BY <1>1, <2>0, <3>2 DEF DeliveryInv, Traffic
      <4> QED BY <4>1 DEF NothingLost
    <3> QED BY <3>1, <3>2
  <2>2. PeersShare
    <3>1. CASE ~short BY <1>1, <3>1 DEF DeliveryInv, Shared, PeersShare, Peer, Mapped
    <3>2. CASE short BY <2>0, <3>2 DEF PeersShare, Up
    <3> QED BY <3>1, <3>2
  <2>3. NoFault BY <1>1 DEF DeliveryInv, Shared, NoFault, Own
  <2>4. ShortStops BY <2>0 DEF ShortStops
  <2>5. NothingLeft BY <1>1, Sizes DEF DeliveryInv, NothingLeft, MainSeg, Unlinked
  <2>6. NoGhost BY <1>1 DEF DeliveryInv
  <2> QED BY <2>1, <2>2, <2>3, <2>4, <2>5, <2>6 DEF Delivered
<1>2. StartInv /\ DeliveryInv => Delivered
  BY <1>1
<1> QED BY <1>2, Delivery, PTL

=============================================================================
