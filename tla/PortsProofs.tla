---------------------------- MODULE PortsProofs ----------------------------
(***************************************************************************)
(* Theorems about SparcInit, for any number of processes and, where they   *)
(* do not assume otherwise, of killed runs; and, with those of MemInit and *)
(* Tile, about the ports of MCPorts.                                       *)
(***************************************************************************)
EXTENDS MCPorts, TLAPS

-----------------------------------------------------------------------------
(* SPARC: start-up of SparcInit *)

-----------------------------------------------------------------------------
(* The invariant, however many runs were killed *)

\* What a process has not begun is as it was at the fork.
Begins ==
  \A p \in Procs :
    /\ pc[p] \in {"unborn", "chunk", "report"} => core[p] = 0
    /\ sent[p] # {} => Up(p)
    /\ chunk[p] = "NEW" => Up(p)

\* A line that holds a message of this run was written by its sender.
Written == \A p, q \in Procs : line[RecvLine(p, q)] = "NEW" => p \in sent[q]

\* The lines a process has reset hold nothing of an earlier run.
Cleared ==
  \A p, q \in Procs :
    PastReset(p) \/ (pc[p] = "reset" /\ q < core[p]) => line[RecvLine(p, q)] # "OLD"

RunInv == TypeOK /\ Begins /\ Written /\ Cleared /\ NoGhost

(* What is invariant on top of that when no run was killed *)

\* A report is of this run.
Reports == \A p \in Procs : ready[p] => pc[p] \in {"await", "up", "gone"}

\* A process that waits has seen the reports of those before its loop variable.
Seen ==
  \A p, q \in Procs : Up(p) \/ (pc[p] = "await" /\ q < core[p]) => ready[q]

FreshInv == RunInv /\ (kills = 0 => Reports /\ Seen) /\ NothingLost

-----------------------------------------------------------------------------
(* The lines *)

\* The line a process sends to another in is the one the other looks at.
LEMMA SameLine == \A p, q \in Procs : SendLine(p, q) = RecvLine(q, p)
BY DEF SendLine, RecvLine

\* No two pairs of processes have the same line.
LEMMA OwnLine ==
  ASSUME NEW p \in Procs, NEW q \in Procs, NEW r \in Procs, NEW s \in Procs,
         RecvLine(p, q) = RecvLine(r, s)
  PROVE  p = r /\ q = s
<1>1. /\ N \in Nat /\ p \in 0 .. N - 1 /\ q \in 0 .. N - 1
      /\ r \in 0 .. N - 1 /\ s \in 0 .. N - 1
      /\ p * N + q = r * N + s
  BY NAssumption DEF Procs, RecvLine
<1>2. ASSUME NEW i \in 0 .. N - 1, NEW j \in 0 .. N - 1, i < j PROVE i * N + N <= j * N
  <2>0. j - i - 1 \in Nat BY <1>2
  <2>1. PICK k \in Nat : j = i + 1 + k BY <1>2, <2>0
  <2>2. j * N = i * N + N + k * N BY <2>1, <1>1
  <2>3. k * N >= 0 BY <2>1, <1>1
  <2> QED BY <2>2, <2>3, <1>1
<1>3. ~(p < r) BY <1>1, <1>2
<1>4. ~(r < p) BY <1>1, <1>2
<1> QED BY <1>1, <1>3, <1>4

LEMMA LineType == \A p, q \in Procs : RecvLine(p, q) \in Lines
<1> SUFFICES ASSUME NEW p \in Procs, NEW q \in Procs PROVE RecvLine(p, q) \in Lines
  OBVIOUS
<1>1. N \in Nat /\ p \in 0 .. N - 1 /\ q \in 0 .. N - 1 BY NAssumption DEF Procs
<1>2. N - p - 1 \in Nat BY <1>1
<1>3. PICK k \in Nat : k = N - p - 1 BY <1>2
<1>4. N = p + 1 + k BY <1>1, <1>3
<1>5. N * N = p * N + N + k * N BY <1>1, <1>4
<1>6. k * N >= 0 /\ p * N >= 0 BY <1>1, <1>3
<1> QED BY <1>1, <1>5, <1>6 DEF RecvLine, Lines

-----------------------------------------------------------------------------
(* However many runs were killed *)

LEMMA RunInvInit == Init => RunInv
<1> SUFFICES ASSUME Init PROVE RunInv
  OBVIOUS
<1>0. 0 \in Procs /\ 0 \in 0 .. MaxKills
  BY NAssumption, MaxKillsAssumption DEF Procs
<1>1. TypeOK BY <1>0 DEF Init, Unborn, TypeOK, Flags
<1>2. Begins BY DEF Init, Unborn, Begins
<1>3. Written BY LineType DEF Init, Written
<1>4. Cleared BY LineType DEF Init, Cleared
<1>5. NoGhost BY DEF Init, Unborn, NoGhost
<1> QED BY <1>1, <1>2, <1>3, <1>4, <1>5 DEF RunInv

LEMMA TypeStep == TypeOK /\ [Next]_vars => TypeOK'
<1> SUFFICES ASSUME TypeOK, [Next]_vars PROVE TypeOK'
  OBVIOUS
<1>n. 0 \in Procs BY NAssumption DEF Procs
<1>m. \A c \in Procs : c + 1 < N => c + 1 \in Procs BY NAssumption DEF Procs
<1>k. \A k \in 0 .. MaxKills : k < MaxKills => k + 1 \in 0 .. MaxKills
  BY MaxKillsAssumption
<1> USE LineType DEF TypeOK, Flags
<1>1. CASE SsmpInit
  <2>1. CASE named BY <1>1, <2>1 DEF SsmpInit
  <2>2. CASE ~named
    <3>1. /\ ready' = [q \in Procs |-> FALSE]
          /\ chunk' = [q \in Procs |-> "EMPTY"]
          /\ line' = [k \in Lines |-> "EMPTY"]
      BY <1>1, <2>2, Zenon DEF SsmpInit
    <3> QED BY <1>1, <3>1 DEF SsmpInit
  <2> QED BY <2>1, <2>2
<1>2. CASE Kill
  <2>1. \A f \in Flags : Old(f) \in Flags BY DEF Old
  <2>2. chunk' \in [Procs -> Flags] /\ line' \in [Lines -> Flags]
    BY <1>2, <2>1 DEF Kill
  <2>3. kills' \in 0 .. MaxKills BY <1>2, <1>k DEF Kill
  <2> QED BY <1>2, <1>n, <2>2, <2>3 DEF Kill
<1>3. ASSUME NEW p \in Procs, ResetOne(p) PROVE TypeOK'
  <2>1. core[p] \in Procs /\ (core[p] + 1 < N => core[p] + 1 \in Procs) BY <1>m
  <2>2. core' \in [Procs -> Procs] BY <1>3, <2>1, <1>n DEF ResetOne
  <2>3. line' \in [Lines -> Flags] BY <1>3 DEF ResetOne
  <2> QED BY <1>3, <2>2, <2>3 DEF ResetOne
<1>4. ASSUME NEW p \in Procs, ResetChunk(p) PROVE TypeOK'
  BY <1>4 DEF ResetChunk
<1>5. ASSUME NEW p \in Procs, Report(p) PROVE TypeOK'
  BY <1>5 DEF Report
<1>6. ASSUME NEW p \in Procs, Await(p) PROVE TypeOK'
  <2>1. core[p] \in Procs /\ (core[p] + 1 < N => core[p] + 1 \in Procs) BY <1>m
  <2>2. core' \in [Procs -> Procs] BY <1>6, <2>1, <1>n DEF Await
  <2> QED BY <1>6, <2>2 DEF Await, memory
<1>7. ASSUME NEW p \in Procs, Send(p) PROVE TypeOK'
  <2>1. PICK q \in Procs : line' = [line EXCEPT ![SendLine(p, q)] = "NEW"]
                          /\ sent' = [sent EXCEPT ![p] = @ \cup {q}]
    BY <1>7 DEF Send
  <2>2. sent' \in [Procs -> SUBSET Procs] /\ line' \in [Lines -> Flags] BY <2>1
  <2> QED BY <1>7, <2>2 DEF Send
<1>8. ASSUME NEW p \in Procs, SendBig(p) PROVE TypeOK'
  BY <1>8 DEF SendBig
<1>9. ASSUME NEW p \in Procs, Receive(p) PROVE TypeOK'
  BY <1>9 DEF Receive
<1>10. ASSUME NEW p \in Procs, Terminate(p) PROVE TypeOK'
  BY <1>10 DEF Terminate
<1>11. CASE UNCHANGED vars BY <1>11 DEF vars
<1> QED BY <1>1, <1>2, <1>3, <1>4, <1>5, <1>6, <1>7, <1>8, <1>9, <1>10, <1>11
        DEF Next, Library, Program

LEMMA RunInvStep == RunInv /\ [Next]_vars => RunInv'
<1> SUFFICES ASSUME RunInv, [Next]_vars PROVE RunInv'
  OBVIOUS
<1>0. TypeOK' BY TypeStep DEF RunInv
<1> SUFFICES Begins' /\ Written' /\ Cleared' /\ NoGhost'
  BY <1>0 DEF RunInv
<1>n. N \in Nat /\ Procs = 0 .. N - 1 /\ 0 \in Procs BY NAssumption DEF Procs
<1>t. TypeOK BY DEF RunInv
<1>1. CASE SsmpInit
  <2>1. Begins' BY <1>1, <1>t DEF SsmpInit, RunInv, Begins, Up, TypeOK
  <2>2. Written' BY <1>1, LineType DEF SsmpInit, RunInv, Written
  <2>3. \A p \in Procs : pc'[p] = "reset" /\ core'[p] = 0
    BY <1>1 DEF SsmpInit, RunInv, Begins
  <2>4. Cleared' BY <2>3, <1>n DEF Cleared, PastReset
  <2>5. NoGhost' BY <1>1 DEF SsmpInit, RunInv, NoGhost
  <2> QED BY <2>1, <2>2, <2>4, <2>5
<1>2. CASE Kill
  <2>1. Begins' BY <1>2, <1>t DEF Kill, Begins, Up, Old, TypeOK
  <2>2. Written' BY <1>2, LineType DEF Kill, Written, Old
  <2>3. Cleared' BY <1>2 DEF Kill, Cleared, PastReset
  <2>4. NoGhost' BY <1>2 DEF Kill, NoGhost
  <2> QED BY <2>1, <2>2, <2>3, <2>4
<1>3. ASSUME NEW p \in Procs, ResetOne(p) PROVE Begins' /\ Written' /\ Cleared' /\ NoGhost'
  <2>t. pc \in [Procs -> {"unborn", "reset", "chunk", "report", "await", "up", "gone"}]
        /\ core \in [Procs -> Procs] /\ line \in [Lines -> Flags]
    BY <1>t DEF TypeOK
  <2>0. /\ pc[p] = "reset"
        /\ line' = [line EXCEPT ![RecvLine(p, core[p])] = "EMPTY"]
        /\ core' = [core EXCEPT ![p] = IF @ + 1 < N THEN @ + 1 ELSE 0]
        /\ pc' = [pc EXCEPT ![p] = IF core[p] + 1 < N THEN "reset" ELSE "chunk"]
        /\ UNCHANGED <<chunk, sent, got>>
    BY <1>3 DEF ResetOne
  <2>1. Begins' BY <2>0, <2>t DEF RunInv, Begins, Up
  <2>2. \A k \in Lines : line'[k] \in {line[k], "EMPTY"} BY <2>0, <2>t
  <2>3. Written' BY <2>0, <2>2, LineType DEF RunInv, Written
  <2>4. ASSUME NEW r \in Procs, NEW q \in Procs,
               PastReset(r)' \/ (pc'[r] = "reset" /\ q < core'[r])
        PROVE  line'[RecvLine(r, q)] # "OLD"
    <3>1. CASE r # p
      <4>1. pc'[r] = pc[r] /\ core'[r] = core[r] BY <3>1, <2>0, <2>t
      <4>2. line[RecvLine(r, q)] # "OLD" BY <4>1, <2>4 DEF PastReset, RunInv, Cleared
      <4> QED BY <4>2, <2>2, LineType
    <3>2. CASE r = p /\ q < core[p]
      <4>1. line[RecvLine(r, q)] # "OLD" BY <3>2, <2>0 DEF RunInv, Cleared
      <4> QED BY <4>1, <2>2, LineType
    <3>3. CASE r = p /\ q = core[p] BY <3>3, <2>0, <2>t, LineType
    <3>4. CASE r = p /\ q > core[p]
      <4>1. pc'[p] = "reset" => core'[p] = core[p] + 1 \/ core'[p] = 0
        BY <2>0, <2>t, <1>n
      <4>2. core[p] + 1 < N BY <3>4, <1>n, <2>t
      <4>3. pc'[p] = "reset" /\ core'[p] = core[p] + 1 BY <4>2, <2>0, <2>t
      <4>4. q < core[p] + 1 BY <4>3, <3>4, <2>4 DEF PastReset
      <4> QED BY <4>4, <3>4, <1>n, <2>t
    <3> QED BY <3>1, <3>2, <3>3, <3>4, <1>n, <2>t
  <2>5. Cleared' BY <2>4 DEF Cleared, PastReset, RecvLine
  <2>6. NoGhost' BY <2>0 DEF RunInv, NoGhost
  <2> QED BY <2>1, <2>3, <2>5, <2>6
<1>4. ASSUME NEW p \in Procs, ResetChunk(p) PROVE Begins' /\ Written' /\ Cleared' /\ NoGhost'
  <2>1. Begins' BY <1>4, <1>t DEF ResetChunk, RunInv, Begins, Up, TypeOK
  <2>2. Written' BY <1>4 DEF ResetChunk, RunInv, Written
  <2>3. Cleared' BY <1>4, <1>t DEF ResetChunk, RunInv, Cleared, PastReset, TypeOK
  <2>4. NoGhost' BY <1>4 DEF ResetChunk, RunInv, NoGhost
  <2> QED BY <2>1, <2>2, <2>3, <2>4
<1>5. ASSUME NEW p \in Procs, Report(p) PROVE Begins' /\ Written' /\ Cleared' /\ NoGhost'
  <2>1. Begins' BY <1>5, <1>t DEF Report, RunInv, Begins, Up, TypeOK
  <2>2. Written' BY <1>5 DEF Report, RunInv, Written
  <2>3. Cleared' BY <1>5, <1>t DEF Report, RunInv, Cleared, PastReset, TypeOK
  <2>4. NoGhost' BY <1>5 DEF Report, RunInv, NoGhost
  <2> QED BY <2>1, <2>2, <2>3, <2>4
<1>6. ASSUME NEW p \in Procs, Await(p) PROVE Begins' /\ Written' /\ Cleared' /\ NoGhost'
  <2>1. Begins' BY <1>6, <1>t DEF Await, memory, RunInv, Begins, Up, TypeOK
  <2>2. Written' BY <1>6 DEF Await, memory, RunInv, Written
  <2>3. Cleared' BY <1>6, <1>t DEF Await, memory, RunInv, Cleared, PastReset, TypeOK
  <2>4. NoGhost' BY <1>6 DEF Await, memory, RunInv, NoGhost
  <2> QED BY <2>1, <2>2, <2>3, <2>4
<1>7. ASSUME NEW p \in Procs, Send(p) PROVE Begins' /\ Written' /\ Cleared' /\ NoGhost'
  <2>t. sent \in [Procs -> SUBSET Procs] /\ line \in [Lines -> Flags] BY <1>t DEF TypeOK
  <2>0. PICK q \in Procs \ (sent[p] \cup {p}) :
           /\ line[SendLine(p, q)] = "EMPTY"
           /\ line' = [line EXCEPT ![RecvLine(q, p)] = "NEW"]
           /\ sent' = [sent EXCEPT ![p] = @ \cup {q}]
    BY <1>7, SameLine DEF Send
  <2>u. pc[p] = "up" /\ UNCHANGED <<chunk, pc, core, got>> BY <1>7 DEF Send
  <2>s. \A r \in Procs : sent[r] \subseteq sent'[r] BY <2>0, <2>t
  <2>1. Begins' BY <2>0, <2>u, <2>t DEF RunInv, Begins, Up
  <2>2. ASSUME NEW r \in Procs, NEW s \in Procs, line'[RecvLine(r, s)] = "NEW"
        PROVE  r \in sent'[s]
    <3>1. CASE RecvLine(r, s) = RecvLine(q, p)
      <4>1. r = q /\ s = p BY <3>1, OwnLine
      <4> QED BY <4>1, <2>0, <2>t
    <3>2. CASE RecvLine(r, s) # RecvLine(q, p)
      <4>1. line[RecvLine(r, s)] = "NEW" BY <3>2, <2>2, <2>0, <2>t, LineType
      <4> QED BY <4>1, <2>s DEF RunInv, Written
    <3> QED BY <3>1, <3>2
  <2>3. Written' BY <2>2 DEF Written, RecvLine
  <2>4. \A k \in Lines : line'[k] \in {line[k], "NEW"} BY <2>0, <2>t
  <2>5. Cleared' BY <2>4, <2>u, LineType DEF RunInv, Cleared, PastReset
  <2>6. NoGhost' BY <2>s, <2>u, <1>t DEF RunInv, NoGhost, TypeOK
  <2> QED BY <2>1, <2>3, <2>5, <2>6
<1>8. ASSUME NEW p \in Procs, SendBig(p) PROVE Begins' /\ Written' /\ Cleared' /\ NoGhost'
  <2>1. Begins' BY <1>8, <1>t DEF SendBig, RunInv, Begins, Up, TypeOK
  <2>2. Written' BY <1>8 DEF SendBig, RunInv, Written
  <2>3. Cleared' BY <1>8 DEF SendBig, RunInv, Cleared, PastReset
  <2>4. NoGhost' BY <1>8 DEF SendBig, RunInv, NoGhost
  <2> QED BY <2>1, <2>2, <2>3, <2>4
<1>9. ASSUME NEW p \in Procs, Receive(p) PROVE Begins' /\ Written' /\ Cleared' /\ NoGhost'
  <2>t. got \in [Procs -> SUBSET (Procs \X Flags)] /\ line \in [Lines -> Flags]
    BY <1>t DEF TypeOK
  <2>0. PICK q \in Procs \ {p} :
           /\ line[RecvLine(p, q)] # "EMPTY"
           /\ got' = [got EXCEPT ![p] = @ \cup {<<q, line[RecvLine(p, q)]>>}]
           /\ line' = [line EXCEPT ![RecvLine(p, q)] = "EMPTY"]
    BY <1>9 DEF Receive
  <2>u. pc[p] = "up" /\ UNCHANGED <<chunk, pc, core, sent>> BY <1>9 DEF Receive
  <2>1. Begins' BY <2>u DEF RunInv, Begins, Up
  <2>2. \A k \in Lines : line'[k] \in {line[k], "EMPTY"} BY <2>0, <2>t
  <2>3. Written' BY <2>u, <2>2, LineType DEF RunInv, Written
  <2>4. Cleared' BY <2>u, <2>2, LineType DEF RunInv, Cleared, PastReset
  <2>5. line[RecvLine(p, q)] = "NEW"
    <3>1. line[RecvLine(p, q)] # "OLD" BY <2>u DEF RunInv, Cleared, PastReset
    <3> QED BY <3>1, <2>0, <2>t, LineType DEF Flags
  <2>6. p \in sent[q] BY <2>5 DEF RunInv, Written
  <2>7. \A r \in Procs : \A m \in got'[r] : m \in got[r] \/ (r = p /\ m = <<q, "NEW">>)
    BY <2>0, <2>5, <2>t
  <2>8. NoGhost' BY <2>6, <2>7, <2>u DEF RunInv, NoGhost
  <2> QED BY <2>1, <2>3, <2>4, <2>8
<1>10. ASSUME NEW p \in Procs, Terminate(p) PROVE Begins' /\ Written' /\ Cleared' /\ NoGhost'
  <2>1. Begins' BY <1>10, <1>t DEF Terminate, RunInv, Begins, Up, TypeOK
  <2>2. Written' BY <1>10 DEF Terminate, RunInv, Written
  <2>3. Cleared' BY <1>10, <1>t DEF Terminate, RunInv, Cleared, PastReset, TypeOK
  <2>4. NoGhost' BY <1>10 DEF Terminate, RunInv, NoGhost
  <2> QED BY <2>1, <2>2, <2>3, <2>4
<1>11. CASE UNCHANGED vars
  BY <1>11 DEF vars, RunInv, Begins, Up, Written, Cleared, PastReset, NoGhost
<1> QED BY <1>1, <1>2, <1>3, <1>4, <1>5, <1>6, <1>7, <1>8, <1>9, <1>10, <1>11
        DEF Next, Library, Program

LEMMA RunInvariant == Spec => []RunInv
BY RunInvInit, RunInvStep, PTL DEF Spec

\* The variables stay in their types, whatever the number of killed runs.
THEOREM TypeCorrect == Spec => []TypeOK
<1>1. RunInv => TypeOK BY DEF RunInv
<1> QED BY <1>1, RunInvariant, PTL

\* Nobody receives what a killed run has left behind, or from one that has not
\* sent, however many runs were killed.
THEOREM GhostFree == Spec => []NoGhost
<1>1. RunInv => NoGhost BY DEF RunInv
<1> QED BY <1>1, RunInvariant, PTL

\* A chunk that was sent is not reset by those that are still starting.
THEOREM ChunkSafe == Spec => ChunkStays
<1>1. RunInv /\ [Next]_vars
        => [\A p \in Procs : chunk[p] = "NEW" => chunk'[p] \in {"NEW", "OLD"}]_chunk
  <2> SUFFICES ASSUME RunInv, [Next]_vars, NEW q \in Procs, chunk[q] = "NEW"
               PROVE  chunk'[q] \in {"NEW", "OLD"}
    OBVIOUS
  <2>1. Up(q) /\ chunk \in [Procs -> Flags] BY DEF RunInv, Begins, TypeOK
  <2>2. CASE SsmpInit BY <2>2, <2>1 DEF SsmpInit, Up
  <2>3. CASE Kill BY <2>3, <2>1 DEF Kill, Old
  <2>4. ASSUME NEW p \in Procs, Library(p) PROVE chunk'[q] = chunk[q]
    <3>1. CASE ResetChunk(p) BY <3>1, <2>1 DEF ResetChunk, Up
    <3>2. CASE ResetOne(p) \/ Report(p) \/ Await(p)
      BY <3>2 DEF ResetOne, Report, Await, memory
    <3> QED BY <2>4, <3>1, <3>2 DEF Library
  <2>5. ASSUME NEW p \in Procs, Program(p) PROVE chunk'[q] = "NEW"
    BY <2>5, <2>1 DEF Program, Send, SendBig, Receive, Terminate
  <2>6. CASE UNCHANGED vars BY <2>6 DEF vars
  <2> QED BY <2>2, <2>3, <2>4, <2>5, <2>6 DEF Next
<1> QED BY <1>1, RunInvariant, PTL DEF Spec, ChunkStays

-----------------------------------------------------------------------------
(* In the first run *)

LEMMA FreshInit == Init => FreshInv
<1> SUFFICES ASSUME Init PROVE FreshInv
  OBVIOUS
<1>1. RunInv BY RunInvInit
<1>2. Reports BY DEF Init, Reports
<1>3. Seen BY DEF Init, Unborn, Seen, Up
<1>4. NothingLost BY DEF Init, Unborn, NothingLost
<1> QED BY <1>1, <1>2, <1>3, <1>4 DEF FreshInv

\* A process that resets its lines has not reported, so that nobody has
\* returned from ssmp_mem_init and nothing was sent.
LEMMA NobodyUp ==
  ASSUME RunInv, Reports, Seen, NEW p \in Procs, ~(pc[p] \in {"await", "up", "gone"})
  PROVE  \A q \in Procs : ~Up(q) /\ sent[q] = {}
<1>1. ~ready[p] BY DEF Reports
<1>2. \A q \in Procs : ~Up(q) BY <1>1 DEF Seen
<1> QED BY <1>2 DEF RunInv, Begins

LEMMA ReportsStep ==
  ASSUME RunInv, Reports, [Next]_vars, kills' = 0
  PROVE  Reports'
<1>t. ready \in [Procs -> BOOLEAN] /\ kills \in Nat
      /\ pc \in [Procs -> {"unborn", "reset", "chunk", "report", "await", "up", "gone"}]
  BY MaxKillsAssumption DEF RunInv, TypeOK
<1>1. CASE SsmpInit
  <2>1. \A p \in Procs : ~ready[p] BY <1>1 DEF SsmpInit, Reports
  <2>2. \A p \in Procs : ~ready'[p] BY <1>1, <2>1 DEF SsmpInit
  <2> QED BY <2>2 DEF Reports
<1>2. CASE Kill BY <1>2, <1>t DEF Kill
<1>3. ASSUME NEW p \in Procs, Library(p) PROVE Reports'
  <2>1. CASE ResetOne(p) BY <2>1, <1>t DEF ResetOne, Reports
  <2>2. CASE ResetChunk(p) BY <2>2, <1>t DEF ResetChunk, Reports
  <2>3. CASE Report(p)
    <3>1. ASSUME NEW q \in Procs, ready'[q] PROVE pc'[q] \in {"await", "up", "gone"}
      <4>1. CASE q = p BY <4>1, <2>3, <1>t DEF Report
      <4>2. CASE q # p
        <5>1. ready[q] BY <4>2, <3>1, <2>3, <1>t DEF Report
        <5> QED BY <5>1, <4>2, <2>3, <1>t DEF Report, Reports
      <4> QED BY <4>1, <4>2
    <3> QED BY <3>1 DEF Reports
  <2>4. CASE Await(p) BY <2>4, <1>t DEF Await, memory, Reports
  <2> QED BY <1>3, <2>1, <2>2, <2>3, <2>4 DEF Library
<1>4. ASSUME NEW p \in Procs, Program(p) PROVE Reports'
  BY <1>4, <1>t DEF Program, Send, SendBig, Receive, Terminate, Reports
<1>5. CASE UNCHANGED vars BY <1>5 DEF vars, Reports
<1> QED BY <1>1, <1>2, <1>3, <1>4, <1>5 DEF Next

LEMMA SeenStep ==
  ASSUME RunInv, Seen, [Next]_vars, kills' = 0
  PROVE  Seen'
<1>n. N \in Nat /\ Procs = 0 .. N - 1 /\ 0 \in Procs BY NAssumption DEF Procs
<1>t. /\ ready \in [Procs -> BOOLEAN] /\ kills \in Nat /\ core \in [Procs -> Procs]
      /\ pc \in [Procs -> {"unborn", "reset", "chunk", "report", "await", "up", "gone"}]
  BY MaxKillsAssumption DEF RunInv, TypeOK
<1>1. CASE SsmpInit BY <1>1 DEF SsmpInit, Seen, Up
<1>2. CASE Kill BY <1>2, <1>t DEF Kill
<1>3. ASSUME NEW p \in Procs, Library(p) PROVE Seen'
  <2>1. CASE ResetOne(p)
    <3>1. \A r \in Procs : Up(r)' \/ pc'[r] = "await" => r # p
      BY <2>1, <1>t DEF ResetOne, Up
    <3> QED BY <2>1, <3>1, <1>t DEF ResetOne, Seen, Up
  <2>2. CASE ResetChunk(p) BY <2>2, <1>t DEF ResetChunk, Seen, Up
  <2>3. CASE Report(p)
    <3>1. core[p] = 0 BY <2>3 DEF Report, RunInv, Begins
    <3>2. \A q \in Procs : ready[q] => ready'[q] BY <2>3, <1>t DEF Report
    <3>3. ASSUME NEW r \in Procs, NEW q \in Procs,
                 Up(r)' \/ (pc'[r] = "await" /\ q < core'[r])
          PROVE  ready'[q]
      <4>1. CASE r = p BY <4>1, <3>1, <3>3, <2>3, <1>t, <1>n DEF Report, Up
      <4>2. CASE r # p
        <5>1. pc'[r] = pc[r] /\ core'[r] = core[r] BY <4>2, <2>3, <1>t DEF Report
        <5> QED BY <5>1, <3>2, <3>3 DEF Seen, Up
      <4> QED BY <4>1, <4>2
    <3> QED BY <3>3 DEF Seen, Up
  <2>4. CASE Await(p)
    <3>0. /\ pc[p] = "await" /\ ready[core[p]] /\ ready' = ready
          /\ core' = [core EXCEPT ![p] = IF @ + 1 < N THEN @ + 1 ELSE 0]
          /\ pc' = [pc EXCEPT ![p] = IF core[p] + 1 < N THEN "await" ELSE "up"]
      BY <2>4 DEF Await, memory
    <3>1. \A q \in Procs : q < core[p] + 1 => ready[q]
      BY <3>0, <1>t, <1>n DEF Seen
    <3>2. ASSUME NEW r \in Procs, NEW q \in Procs,
                 Up(r)' \/ (pc'[r] = "await" /\ q < core'[r])
          PROVE  ready[q]
      <4>1. CASE r # p
        <5>1. pc'[r] = pc[r] /\ core'[r] = core[r] BY <4>1, <3>0, <1>t
        <5> QED BY <5>1, <3>2 DEF Seen, Up
      <4>2. CASE r = p /\ core[p] + 1 < N
        <5>1. pc'[p] = "await" /\ core'[p] = core[p] + 1 BY <4>2, <3>0, <1>t
        <5> QED BY <5>1, <4>2, <3>1, <3>2 DEF Up
      <4>3. CASE r = p /\ ~(core[p] + 1 < N)
        <5>1. q < core[p] + 1 BY <4>3, <1>t, <1>n
        <5> QED BY <5>1, <3>1
      <4> QED BY <4>1, <4>2, <4>3
    <3> QED BY <3>0, <3>2 DEF Seen, Up
  <2> QED BY <1>3, <2>1, <2>2, <2>3, <2>4 DEF Library
<1>4. ASSUME NEW p \in Procs, Program(p) PROVE Seen'
  <2>1. /\ ready' = ready /\ core' = core
        /\ \A r \in Procs : (Up(r)' => Up(r)) /\ (pc'[r] = "await" => pc[r] = "await")
    BY <1>4, <1>t DEF Program, Send, SendBig, Receive, Terminate, Up
  <2> QED BY <2>1 DEF Seen
<1>5. CASE UNCHANGED vars BY <1>5 DEF vars, Seen, Up
<1> QED BY <1>1, <1>2, <1>3, <1>4, <1>5 DEF Next

LEMMA LossStep ==
  ASSUME RunInv, Reports, Seen, NothingLost, [Next]_vars, kills' = 0, kills = 0
  PROVE  NothingLost'
<1>t. /\ sent \in [Procs -> SUBSET Procs] /\ got \in [Procs -> SUBSET (Procs \X Flags)]
      /\ line \in [Lines -> Flags]
  BY DEF RunInv, TypeOK
<1>0. \A p, q \in Procs :
        q \in sent[p] => <<p, "NEW">> \in got[q] \/ line[RecvLine(q, p)] = "NEW"
  BY DEF NothingLost
<1> SUFFICES ASSUME NEW a \in Procs, NEW b \in Procs, b \in sent'[a]
             PROVE  <<a, "NEW">> \in got'[b] \/ line'[RecvLine(b, a)] = "NEW"
  BY DEF NothingLost, RecvLine
<1>1. CASE SsmpInit
  <2>1. sent[a] = {} BY <1>1 DEF SsmpInit, RunInv, Begins, Up
  <2> QED BY <1>1, <2>1 DEF SsmpInit
<1>2. CASE Kill BY <1>2 DEF Kill
<1>3. ASSUME NEW p \in Procs, Library(p)
      PROVE  <<a, "NEW">> \in got'[b] \/ line'[RecvLine(b, a)] = "NEW"
  <2>1. CASE ResetOne(p)
    <3>1. ~(pc[p] \in {"await", "up", "gone"}) BY <2>1 DEF ResetOne
    <3>2. sent[a] = {} BY <3>1, NobodyUp
    <3> QED BY <3>2, <2>1 DEF ResetOne
  <2>2. CASE ResetChunk(p) \/ Report(p) \/ Await(p)
    <3>1. sent' = sent /\ got' = got /\ line' = line
      BY <2>2 DEF ResetChunk, Report, Await, memory
    <3> QED BY <3>1, <1>0
  <2> QED BY <1>3, <2>1, <2>2 DEF Library
<1>4. ASSUME NEW p \in Procs, Send(p)
      PROVE  <<a, "NEW">> \in got'[b] \/ line'[RecvLine(b, a)] = "NEW"
  <2>0. PICK q \in Procs \ (sent[p] \cup {p}) :
           /\ line' = [line EXCEPT ![RecvLine(q, p)] = "NEW"]
           /\ sent' = [sent EXCEPT ![p] = @ \cup {q}]
    BY <1>4, SameLine DEF Send
  <2>1. got' = got BY <1>4 DEF Send
  <2>2. CASE a = p /\ b = q BY <2>2, <2>0, <1>t, LineType
  <2>3. CASE ~(a = p /\ b = q)
    <3>1. b \in sent[a] BY <2>3, <2>0, <1>t
    <3>2. line'[RecvLine(b, a)] \in {line[RecvLine(b, a)], "NEW"} BY <2>0, <1>t, LineType
    <3> QED BY <3>1, <3>2, <2>1, <1>0
  <2> QED BY <2>2, <2>3
<1>5. ASSUME NEW p \in Procs, Receive(p)
      PROVE  <<a, "NEW">> \in got'[b] \/ line'[RecvLine(b, a)] = "NEW"
  <2>0. PICK q \in Procs \ {p} :
           /\ got' = [got EXCEPT ![p] = @ \cup {<<q, line[RecvLine(p, q)]>>}]
           /\ line' = [line EXCEPT ![RecvLine(p, q)] = "EMPTY"]
    BY <1>5 DEF Receive
  <2>1. sent' = sent BY <1>5 DEF Receive
  <2>2. CASE <<a, "NEW">> \in got[b] BY <2>2, <2>0, <1>t
  <2>3. CASE line[RecvLine(b, a)] = "NEW"
    <3>1. CASE a = q /\ b = p BY <3>1, <2>3, <2>0, <1>t
    <3>2. CASE ~(a = q /\ b = p)
      <4>1. RecvLine(b, a) # RecvLine(p, q) BY <3>2, OwnLine
      <4> QED BY <4>1, <2>3, <2>0, <1>t, LineType
    <3> QED BY <3>1, <3>2
  <2> QED BY <2>1, <2>2, <2>3, <1>0
<1>6. ASSUME NEW p \in Procs, SendBig(p) \/ Terminate(p)
      PROVE  <<a, "NEW">> \in got'[b] \/ line'[RecvLine(b, a)] = "NEW"
  BY <1>6, <1>0 DEF SendBig, Terminate
<1>7. CASE UNCHANGED vars BY <1>7, <1>0 DEF vars
<1> QED BY <1>1, <1>2, <1>3, <1>4, <1>5, <1>6, <1>7 DEF Next, Program

\* The number of killed runs only grows.
LEMMA KillsGrow == TypeOK /\ [Next]_vars /\ kills' = 0 => kills = 0
<1> SUFFICES ASSUME TypeOK, [Next]_vars, kills' = 0 PROVE kills = 0
  OBVIOUS
<1>1. kills \in Nat BY MaxKillsAssumption DEF TypeOK
<1>2. CASE Kill BY <1>1, <1>2 DEF Kill
<1>3. CASE UNCHANGED kills BY <1>3
<1>4. ASSUME NEW p \in Procs, Library(p) \/ Program(p) PROVE UNCHANGED kills
  BY <1>4 DEF Library, Program, ResetOne, ResetChunk, Report, Await, Send, SendBig,
              Receive, Terminate
<1> QED BY <1>2, <1>3, <1>4 DEF Next, SsmpInit, vars

LEMMA FreshStep == FreshInv /\ [Next]_vars => FreshInv'
<1> SUFFICES ASSUME FreshInv, [Next]_vars PROVE FreshInv'
  OBVIOUS
<1>1. RunInv' BY RunInvStep DEF FreshInv
<1>2. CASE kills' # 0 BY <1>1, <1>2 DEF FreshInv, NothingLost
<1>3. CASE kills' = 0
  <2>1. kills = 0 BY <1>3, KillsGrow DEF FreshInv, RunInv
  <2>2. RunInv /\ Reports /\ Seen /\ NothingLost BY <2>1 DEF FreshInv
  <2> QED BY <1>1, <1>3, <2>1, <2>2, ReportsStep, SeenStep, LossStep DEF FreshInv
<1> QED BY <1>2, <1>3

LEMMA FreshInvariant == Spec => []FreshInv
BY FreshInit, FreshStep, PTL DEF Spec

\* In a run that is the first one no message is lost, and in every run what is
\* received was sent in that run.
THEOREM DeliveredCorrect == Spec => []Delivered
<1>1. FreshInv => Delivered BY DEF FreshInv, RunInv, Delivered
<1> QED BY <1>1, FreshInvariant, PTL

-----------------------------------------------------------------------------
(* ssmp_mem_init implements AbstractStartup *)

LEMMA StepRefines ==
  ASSUME FreshInv, [Next]_vars, kills' = 0
  PROVE  [Abstract!Next]_(Abstract!vars)
<1>0. kills = 0 BY KillsGrow DEF FreshInv, RunInv
<1>r. RunInv /\ Reports /\ Seen BY <1>0 DEF FreshInv
<1>s. Reports' /\ Seen' BY <1>r, ReportsStep, SeenStep
<1>t. /\ core \in [Procs -> Procs]
      /\ pc \in [Procs -> {"unborn", "reset", "chunk", "report", "await", "up", "gone"}]
  BY <1>r DEF RunInv, TypeOK
<1>u. ASSUME \A p \in Procs : (PastReset(p)' <=> PastReset(p)) /\ (Up(p)' <=> Up(p))
      PROVE  UNCHANGED Abstract!vars
  BY <1>u DEF Abstract!vars
<1>1. CASE SsmpInit
  BY <1>1, <1>u DEF SsmpInit, PastReset, Up
<1>2. CASE Kill BY <1>2, <1>0 DEF Kill
<1>3. ASSUME NEW p \in Procs, ResetOne(p) PROVE [Abstract!Next]_(Abstract!vars)
  <2>0. pc[p] = "reset" /\ pc' = [pc EXCEPT ![p] = IF core[p] + 1 < N THEN "reset" ELSE "chunk"]
    BY <1>3 DEF ResetOne
  <2>1. CASE core[p] + 1 < N
    <3>1. pc' = pc BY <2>0, <2>1, <1>t
    <3> QED BY <3>1, <1>u DEF PastReset, Up
  <2>2. CASE ~(core[p] + 1 < N)
    <3>1. pc' = [pc EXCEPT ![p] = "chunk"] BY <2>0, <2>2
    <3>2. Abstract!Reset(p) BY <2>0, <3>1, <1>t DEF Abstract!Reset, PastReset, Up
    <3> QED BY <3>2 DEF Abstract!Next
  <2> QED BY <2>1, <2>2
<1>4. ASSUME NEW p \in Procs, ResetChunk(p) \/ Report(p) PROVE UNCHANGED Abstract!vars
  BY <1>4, <1>t, <1>u DEF ResetChunk, Report, PastReset, Up
<1>5. ASSUME NEW p \in Procs, Await(p) PROVE [Abstract!Next]_(Abstract!vars)
  <2>0. pc[p] = "await" /\ pc' = [pc EXCEPT ![p] = IF core[p] + 1 < N THEN "await" ELSE "up"]
        /\ ready' = ready
    BY <1>5 DEF Await, memory
  <2>1. CASE core[p] + 1 < N
    <3>1. pc' = pc BY <2>0, <2>1, <1>t
    <3> QED BY <3>1, <1>u DEF PastReset, Up
  <2>2. CASE ~(core[p] + 1 < N)
    <3>1. pc' = [pc EXCEPT ![p] = "up"] BY <2>0, <2>2
    <3>2. Up(p)' BY <3>1, <1>t DEF Up
    <3>3. \A q \in Procs : ready[q] BY <3>2, <2>0, <1>s DEF Seen
    <3>4. \A q \in Procs : PastReset(q) BY <3>3, <1>r DEF Reports, PastReset
    <3>5. Abstract!Return(p) BY <2>0, <3>1, <3>4, <1>t DEF Abstract!Return, PastReset, Up
    <3> QED BY <3>5 DEF Abstract!Next
  <2> QED BY <2>1, <2>2
<1>6. ASSUME NEW p \in Procs, Program(p) PROVE UNCHANGED Abstract!vars
  BY <1>6, <1>t, <1>u DEF Program, Send, SendBig, Receive, Terminate, PastReset, Up
<1>7. CASE UNCHANGED vars BY <1>7, <1>u DEF vars, PastReset, Up
<1> QED BY <1>1, <1>2, <1>3, <1>4, <1>5, <1>6, <1>7 DEF Next, Library

\* In the first run ssmp_mem_init returns to nobody before everybody has reset
\* the lines it receives in: start-up on SPARC implements AbstractStartup.
THEOREM StartupCorrect == Spec => ImplementsStartup
<1>1. Init => Abstract!Init BY DEF Init, Unborn, Abstract!Init, PastReset, Up
<1>2. FreshInv /\ [Next]_vars => [kills' = 0 => [Abstract!Next]_(Abstract!vars)]_vars
  BY StepRefines
<1> QED BY <1>1, <1>2, FreshInvariant, PTL DEF Spec, ImplementsStartup

-----------------------------------------------------------------------------
(* SPARC, in MCPorts *)

\* Whatever port runs, the variables of the SPARC are those of SparcInit.
LEMMA RunsSparc == PortsSpec => Spec
<1>1. PortsInit => Init BY DEF PortsInit
<1>2. [PortsNext]_allvars => [Next]_vars
  BY DEF PortsNext, SparcNext, X86Next, UDNNext, TMCNext, allvars
<1> QED BY <1>1, <1>2, PTL DEF PortsSpec, Spec

-----------------------------------------------------------------------------
(* x86: what MemInitProofs shows, for the processes and the runs before of   *)
(* MCPorts                                                                   *)

X == INSTANCE MemInitProofs WITH
  N <- X86N, Previous <- Before, Parties <- Parties, Uses <- ToLast,
  ready <- x86ready, line <- x86line, pc <- x86pc, core <- x86core,
  sent <- x86sent, got <- x86got

LEMMA XParameters == X!Parameters /\ X!AllWait
<1>1. X!Parameters
  BY X86Parameters DEF X!Parameters, X86!Parameters, X!Procs, X86!Procs, X!Segs, X86!Segs,
                       X!OldSegs, X86!OldSegs, X!NewSegs, X86!NewSegs
<1>2. X!AllWait BY DEF X!AllWait, Parties, X!Procs
<1> QED BY <1>1, <1>2

LEMMA XIs ==
  /\ X!Procs = X86!Procs /\ X!Lines = X86!Lines
  /\ X!OldSegs = X86!OldSegs /\ X!Segs = X86!Segs /\ X!Flags = X86!Flags
  /\ X!vars = X86!vars /\ X!barrier = X86!barrier /\ X!files = X86!files /\ X!past = X86!past
  /\ \A p, q : X!RecvLine(p, q) = X86!RecvLine(p, q) /\ X!SendLine(p, q) = X86!SendLine(p, q)
  /\ \A p, q : X!NextPeer(p, q) = X86!NextPeer(p, q)
BY DEF X!Procs, X86!Procs, X!Lines, X86!Lines, X!OldSegs,
       X86!OldSegs, X!NewSegs, X86!NewSegs, X!Segs, X86!Segs, X!Flags, X86!Flags, X!vars,
       X86!vars, X!barrier, X86!barrier, X!files, X86!files, X!past, X86!past, X!RecvLine,
       X86!RecvLine, X!SendLine, X86!SendLine, X!NextPeer, X86!NextPeer

LEMMA XStarts == X86!Init => X!Init
<1>1. \A run : X!Left(run) = X86!Left(run) BY XIs DEF X!Left, X86!Left
<1>2. \A l : X!Fits(l) <=> X86!Fits(l) BY DEF X!Fits, X86!Fits
<1> QED BY <1>1, <1>2, XIs DEF X!Init, X86!Init

LEMMA XSteps == X86!Next => X!Next
<1> USE DEF X!files, X86!files, X!past, X86!past, X!barrier, X86!barrier
<1>1. X86!SsmpInit => X!SsmpInit BY XIs DEF X!SsmpInit, X86!SsmpInit
<1>2. X86!OldTerminate => X!OldTerminate BY XIs DEF X!OldTerminate, X86!OldTerminate
<1>3. ASSUME NEW p, X86!Library(p) PROVE X!Library(p)
  <2>1. X86!OpenExcl(p) => X!OpenExcl(p)
    BY XIs DEF X!OpenExcl, X86!OpenExcl
  <2>2. X86!Reopen(p) => X!Reopen(p)
    BY XIs DEF X!Reopen, X86!Reopen
  <2>3. X86!Truncate(p) => X!Truncate(p)
    BY XIs DEF X!Truncate, X86!Truncate
  <2>4. X86!Map(p) => X!Map(p)
    BY XIs DEF X!Map, X86!Map
  <2>5. X86!ResetOne(p) => X!ResetOne(p)
    BY XIs DEF X!ResetOne, X86!ResetOne
  <2>6. X86!ResetFault(p) => X!ResetFault(p)
    BY XIs DEF X!ResetFault, X86!ResetFault, X!Fault, X86!Fault
  <2>7. X86!EnterBarrier(p) => X!EnterBarrier(p)
    BY XIs DEF X!EnterBarrier, X86!EnterBarrier, X!Bar!Arrive, X86!Bar!Arrive, X!ToPeers,
               X86!ToPeers
  <2>8. X86!LeaveBarrier(p) => X!LeaveBarrier(p)
    BY XIs DEF X!LeaveBarrier, X86!LeaveBarrier, X!Bar!Depart, X86!Bar!Depart, X!ToPeers,
               X86!ToPeers
  <2>9. X86!Report(p) => X!Report(p)
    BY XIs DEF X!Report, X86!Report
  <2>10. X86!Await(p) => X!Await(p)
    BY XIs DEF X!Await, X86!Await
  <2> QED BY <1>3, <2>1, <2>2, <2>3, <2>4, <2>5, <2>6, <2>7, <2>8, <2>9, <2>10
          DEF X!Library, X86!Library
<1>4. ASSUME NEW p, X86!Program(p) PROVE X!Program(p)
  <2>1. X86!Send(p) => X!Send(p)
    BY XIs DEF X!Send, X86!Send
  <2>2. X86!SendFault(p) => X!SendFault(p)
    BY XIs DEF X!SendFault, X86!SendFault, X!Fault, X86!Fault
  <2>3. X86!SendBig(p) => X!SendBig(p)
    BY XIs DEF X!SendBig, X86!SendBig
  <2>4. X86!Receive(p) => X!Receive(p)
    BY XIs DEF X!Receive, X86!Receive
  <2>5. X86!Terminate(p) => X!Terminate(p)
    BY XIs DEF X!Terminate, X86!Terminate
  <2> QED BY <1>4, <2>1, <2>2, <2>3, <2>4, <2>5 DEF X!Program, X86!Program
<1> QED BY <1>1, <1>2, <1>3, <1>4, XIs DEF X!Next, X86!Next

\* Whatever port runs, the variables of the x86 are those of MemInit.
LEMMA RunsX86 == PortsSpec => X!Spec
<1>1. PortsInit => X!Init BY XStarts DEF PortsInit
<1>2. [PortsNext]_allvars => [X!Next]_(X!vars)
  <2> SUFFICES ASSUME [PortsNext]_allvars PROVE [X!Next]_(X!vars) OBVIOUS
  <2>1. UNCHANGED x86 => UNCHANGED X!vars
    BY DEF x86, X!vars, X!barrier, X!files, X!past
  <2>2. CASE X86Next BY <2>2, XSteps DEF X86Next
  <2>3. CASE SparcNext \/ UDNNext \/ TMCNext BY <2>1, <2>3 DEF SparcNext, UDNNext, TMCNext
  <2>4. CASE UNCHANGED allvars BY <2>1, <2>4 DEF allvars
  <2> QED BY <2>2, <2>3, <2>4 DEF PortsNext
<1> QED BY <1>1, <1>2, PTL DEF PortsSpec, X!Spec

\* x86, for any number of processes.  If barrier 0 holds up all and the run
\* before has unlinked its names before this one forks: nothing is lost, two
\* running processes mean the same memory, no page that is not there is touched
\* unless that run left a segment that is too short, and then nobody gets
\* through ssmp_mem_init; no name is left but after a killed run.  And in every
\* case nothing is received but what was sent.
THEOREM X86DeliveredCorrect == PortsSpec => []X86Delivered
<1>1. ASSUME X!Delivered PROVE X86Delivered
  <2>0. X!Undisturbed <=> X86!Undisturbed BY XIs DEF X!Undisturbed, X86!Undisturbed
  <2>1. X86!NothingLost BY <1>1, <2>0, XIs DEF X!Delivered, X!NothingLost, X86!NothingLost
  <2>2. X86!NoGhost BY <1>1, XIs DEF X!Delivered, X!NoGhost, X86!NoGhost
  <2>3. X86!PeersShare BY <1>1, <2>0, XIs DEF X!Delivered, X!PeersShare, X86!PeersShare
  <2>4. X86!NoFault BY <1>1, <2>0, XIs DEF X!Delivered, X!NoFault, X86!NoFault
  <2>5. X86!ShortStops
    BY <1>1, <2>0, XIs DEF X!Delivered, X!ShortStops, X86!ShortStops, X!Up, X86!Up
  <2>6. X86!NothingLeft BY <1>1, <2>0, XIs DEF X!Delivered, X!NothingLeft, X86!NothingLeft
  <2> QED BY <2>1, <2>2, <2>3, <2>4, <2>5, <2>6 DEF X86Delivered
<1>2. X!Delivered => X86Delivered BY <1>1
<1>3. X!Spec => []X!Delivered BY XParameters, X!DeliveredCorrect
<1> QED BY <1>2, <1>3, RunsX86, PTL

\* x86 and SPARC: a chunk that was sent is not reset by those still starting.
THEOREM ChunksStayCorrect == PortsSpec => ChunksStay
<1>1. X!Spec => X!ChunkStays BY XParameters, X!ChunkSafe
<1>2. [\A p \in X!Procs : big[p] = "NEW" => big'[p] = "NEW"]_big
        => [\A p \in X86!Procs : big[p] = "NEW" => big'[p] = "NEW"]_big
  BY XIs
<1>3. X!ChunkStays => X86!ChunkStays BY <1>2, PTL DEF X!ChunkStays, X86!ChunkStays
<1> QED BY <1>1, <1>3, RunsX86, RunsSparc, ChunkSafe, PTL DEF ChunksStay

\* x86: ssmp_mem_init returns to nobody before everybody's lines are reset.
THEOREM X86StartupCorrect == PortsSpec => X86ImplementsStartup
<1>1. X!Spec => X!ImplementsStartup BY XParameters, X!StartupCorrect
<1>2. \A p : (X!Up(p) <=> X86!Up(p)) /\ (X!PastReset(p) <=> X86!PastReset(p))
  BY DEF X!Up, X86!Up, X!PastReset, X86!PastReset
<1>3. \A p : (X!Up(p) <=> X86!Up(p))' /\ (X!PastReset(p) <=> X86!PastReset(p))'
  BY DEF X!Up, X86!Up, X!PastReset, X86!PastReset
<1>4. /\ {p \in X!Procs : X!Up(p)} = {p \in X86!Procs : X86!Up(p)}
      /\ {p \in X!Procs : X!PastReset(p)} = {p \in X86!Procs : X86!PastReset(p)}
  BY <1>2, XIs
<1>5. /\ {p \in X!Procs : X!Up(p)}' = {p \in X86!Procs : X86!Up(p)}'
      /\ {p \in X!Procs : X!PastReset(p)}' = {p \in X86!Procs : X86!PastReset(p)}'
  BY <1>3, XIs DEF X!Procs, X86!Procs
<1>6. X!Abstract!Init => X86!Abstract!Init BY <1>4 DEF X!Abstract!Init, X86!Abstract!Init
<1>7. [X!Abstract!Next]_(X!Abstract!vars) => [X86!Abstract!Next]_(X86!Abstract!vars)
  BY <1>4, <1>5, XIs DEF X!Abstract!Next, X86!Abstract!Next, X!Abstract!vars, X86!Abstract!vars,
       X!Abstract!Reset, X86!Abstract!Reset, X!Abstract!Return, X86!Abstract!Return
<1>8. X!ImplementsStartup => X86!ImplementsStartup
  BY <1>6, <1>7, PTL DEF X!ImplementsStartup, X86!ImplementsStartup, X!Abstract!Spec,
                         X86!Abstract!Spec
<1> QED BY <1>1, <1>8, RunsX86, PTL DEF X86ImplementsStartup

-----------------------------------------------------------------------------
(* Tilera, messages: what TileProofs shows, for servers 0 and 1 *)

U == INSTANCE TileProofs WITH
  N <- UdnN, Servers <- {0, 1}, Ahead <- 1,
  Barriers <- {0, 1}, Colors <- {{0, 2}, {1, 2}},
  forked <- made, party <- tparty, arrivals <- entered, departures <- left

LEMMA UIs ==
  /\ U!UDN!Procs = UDN!Procs /\ U!UDN!Clients = UDN!Clients /\ U!UDN!vars = UDN!vars
  /\ U!UDN!Parameters
BY UDNParameters
   DEF U!UDN!Procs, UDN!Procs, U!UDN!Clients, UDN!Clients, U!UDN!vars, UDN!vars,
       U!UDN!Parameters, UDN!Parameters

LEMMA USteps == UDN!Next => U!UDN!Next
<1>1. ASSUME NEW p, UDN!Step(p) PROVE U!UDN!Step(p)
  <2>1. UDN!MemInit(p) => U!UDN!MemInit(p) BY DEF UDN!MemInit, U!UDN!MemInit
  <2>2. UDN!RecvFrom(p) => U!UDN!RecvFrom(p)
    BY UIs DEF UDN!RecvFrom, U!UDN!RecvFrom, UDN!UdnReceive, U!UDN!UdnReceive
  <2>3. UDN!Serve(p) => U!UDN!Serve(p)
    BY UIs DEF UDN!Serve, U!UDN!Serve, UDN!UdnReceive, U!UDN!UdnReceive
  <2>4. UDN!Reply(p) => U!UDN!Reply(p)
    BY UIs DEF UDN!Reply, U!UDN!Reply, UDN!UdnSend, U!UDN!UdnSend
  <2> QED BY <1>1, <2>1, <2>2, <2>3, <2>4 DEF UDN!Step, U!UDN!Step
<1>2. ASSUME NEW p, NEW s, UDN!Ask(p, s) PROVE U!UDN!Ask(p, s)
  BY <1>2, UIs DEF UDN!Ask, U!UDN!Ask, UDN!UdnSend, U!UDN!UdnSend
<1> QED BY <1>1, <1>2, UIs DEF UDN!Next, U!UDN!Next

\* Whatever port runs, the queues of the Tilera are those of Tile.
LEMMA RunsUDN == PortsSpec => U!UDN!Spec
<1>1. PortsInit => U!UDN!Init BY UIs DEF PortsInit, UDN!Init, U!UDN!Init
<1>2. [PortsNext]_allvars => [U!UDN!Next]_(U!UDN!vars)
  <2> SUFFICES ASSUME [PortsNext]_allvars PROVE [U!UDN!Next]_(U!UDN!vars) OBVIOUS
  <2>1. UNCHANGED udn => UNCHANGED U!UDN!vars BY DEF udn, U!UDN!vars
  <2>2. CASE UDNNext BY <2>2, USteps DEF UDNNext
  <2>3. CASE SparcNext \/ X86Next \/ TMCNext BY <2>1, <2>3 DEF SparcNext, X86Next, TMCNext
  <2>4. CASE UNCHANGED allvars BY <2>1, <2>4 DEF allvars
  <2> QED BY <2>2, <2>3, <2>4 DEF PortsNext
<1> QED BY <1>1, <1>2, PTL DEF PortsSpec, U!UDN!Spec

LEMMA UDNAlways == PortsSpec => [](UDN!TypeOK /\ UDN!FromAsked /\ UDN!AnswersHaveRoom)
<1>1. U!UDN!Spec => [](U!UDN!TypeOK /\ U!UDN!FromAsked /\ U!UDN!AnswersHaveRoom)
  BY UIs, U!UDNCorrect
<1>2. U!UDN!TypeOK /\ U!UDN!FromAsked /\ U!UDN!AnswersHaveRoom
        => UDN!TypeOK /\ UDN!FromAsked /\ UDN!AnswersHaveRoom
  BY UIs DEF U!UDN!TypeOK, UDN!TypeOK, U!UDN!FromAsked, UDN!FromAsked,
             U!UDN!AnswersHaveRoom, UDN!AnswersHaveRoom
<1> QED BY <1>1, <1>2, RunsUDN, PTL

\* Tilera, for two servers, any number of clients that each wait for an answer
\* before they ask again, and any room in a queue: recv_from returns a message
\* of the process it names, and a server's answer never waits for room at the
\* client.
THEOREM UDNDeliveredCorrect == PortsSpec => []UDNDelivered
<1>1. UDN!TypeOK /\ UDN!FromAsked /\ UDN!AnswersHaveRoom => UDNDelivered BY DEF UDNDelivered
<1> QED BY <1>1, UDNAlways, PTL

-----------------------------------------------------------------------------
(* Tilera, barriers: what TileProofs shows, for the two of MCPorts *)

B == INSTANCE TileProofs WITH
  N <- X86N, Servers <- {0, 1}, Ahead <- 1,
  Barriers <- {0, 1}, Colors <- {{0, 2}, {1, 2}},
  forked <- made, party <- tparty, arrivals <- entered, departures <- left

LEMMA BIs ==
  /\ B!Procs = TMC!Procs /\ B!vars = TMC!vars /\ B!barrier = TMC!barrier /\ B!Parameters
  /\ \A S : B!Cardinality(S) = TMC!Cardinality(S)
BY TMCParameters
   DEF B!Procs, TMC!Procs, B!vars, TMC!vars, B!barrier, TMC!barrier, B!Parameters,
       TMC!Parameters, B!Cardinality, TMC!Cardinality

LEMMA BSteps == TMC!Next => B!Next
<1> USE DEF TMC!barrier, B!barrier
<1>1. ASSUME NEW b, NEW S, TMC!BarrierInit(b, S) PROVE B!BarrierInit(b, S)
  BY <1>1, BIs DEF TMC!BarrierInit, B!BarrierInit
<1>2. TMC!Fork => B!Fork BY BIs DEF TMC!Fork, B!Fork
<1>3. ASSUME NEW b, NEW p, TMC!Arrive(b, p) PROVE B!Arrive(b, p)
  BY <1>3, BIs DEF TMC!Arrive, B!Arrive
<1>4. ASSUME NEW b, NEW p, TMC!Depart(b, p) PROVE B!Depart(b, p)
  BY <1>4 DEF TMC!Depart, B!Depart
<1>5. \A b, p : TMC!MayWait(b, p) => B!MayWait(b, p) BY DEF TMC!MayWait, B!MayWait
<1> QED BY <1>1, <1>2, <1>3, <1>4, <1>5, BIs DEF TMC!Next, B!Next

\* Whatever port runs, the barriers of the Tilera are those of TileBarrier.
LEMMA RunsTMC == PortsSpec => B!Spec
<1>1. PortsInit => B!Init BY BIs DEF PortsInit, TMC!Init, B!Init
<1>2. [PortsNext]_allvars => [B!Next]_(B!vars)
  <2> SUFFICES ASSUME [PortsNext]_allvars PROVE [B!Next]_(B!vars) OBVIOUS
  <2>1. UNCHANGED tmc => UNCHANGED B!vars BY DEF tmc, B!vars, B!barrier
  <2>2. CASE TMCNext BY <2>2, BSteps DEF TMCNext
  <2>3. CASE SparcNext \/ X86Next \/ UDNNext BY <2>1, <2>3 DEF SparcNext, X86Next, UDNNext
  <2>4. CASE UNCHANGED allvars BY <2>1, <2>4 DEF allvars
  <2> QED BY <2>2, <2>3, <2>4 DEF PortsNext
<1> QED BY <1>1, <1>2, PTL DEF PortsSpec, B!Spec

\* Tilera, for any number of processes and however often they wait: when only
\* participants do, a barrier that counts calls is that of the other ports.
THEOREM TMCBarrierCorrect == PortsSpec => TMCImplementsBarrier
<1>1. B!Spec => B!ImplementsBarrier BY BIs, B!Refinement
<1>2. B!Abstract!Init => TMC!Abstract!Init BY BIs DEF B!Abstract!Init, TMC!Abstract!Init
<1>3. [B!Abstract!Next]_(B!Abstract!vars) => [TMC!Abstract!Next]_(TMC!Abstract!vars)
  BY BIs DEF B!Abstract!Next, TMC!Abstract!Next, B!Abstract!vars, TMC!Abstract!vars,
             B!Abstract!Choose, TMC!Abstract!Choose, B!Abstract!Arrive, TMC!Abstract!Arrive,
             B!Abstract!Depart, TMC!Abstract!Depart
<1>4. B!ImplementsBarrier => TMC!ImplementsBarrier
  BY <1>2, <1>3, PTL DEF B!ImplementsBarrier, TMC!ImplementsBarrier, B!Abstract!Spec,
                         TMC!Abstract!Spec
<1> QED BY <1>1, <1>4, RunsTMC, PTL DEF TMCImplementsBarrier

-----------------------------------------------------------------------------
(* The types *)

\* The variables of every port stay in their types, for any number of processes.
THEOREM TypesCorrect == PortsSpec => []TypesOK
<1>1. X!Spec => []X!TypeOK BY XParameters, X!TypeCorrect
<1>2. X!TypeOK => X86!TypeOK BY XIs DEF X!TypeOK, X86!TypeOK
<1>3. B!Spec => []B!TypeOK BY BIs, B!TypeCorrect
<1>4. B!TypeOK => TMC!TypeOK BY BIs DEF B!TypeOK, TMC!TypeOK
<1>5. TypeOK /\ X86!TypeOK /\ (UDN!TypeOK /\ UDN!FromAsked /\ UDN!AnswersHaveRoom) /\ TMC!TypeOK
        => TypesOK
  BY DEF TypesOK
<1> QED BY <1>1, <1>2, <1>3, <1>4, <1>5, RunsX86, RunsTMC, RunsSparc, TypeCorrect, UDNAlways, PTL
=============================================================================
