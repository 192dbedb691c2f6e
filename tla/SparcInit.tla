----------------------------- MODULE SparcInit -----------------------------
(***************************************************************************)
(* Start-up and termination of ssmp on SPARC.  All shared memory is one    *)
(* segment, opened before the fork: a table of lines, one row per          *)
(* receiver, the chunk buffers and ues_initialized.  A process resets its  *)
(* row and its chunk buffer, reports itself and waits for the reports;     *)
(* there is no barrier in between, as there is on x86 (MemInit.tla).       *)
(* A run that is killed leaves the segment as it is.                       *)
(***************************************************************************)
EXTENDS Integers

CONSTANTS N,        \* number of processes: num_ues
          MaxKills  \* bound: how many runs are killed

Procs == 0 .. N - 1
Lines == 0 .. N * N - 1
Flags == {"EMPTY", "OLD", "NEW"}   \* OLD: of a killed run, NEW: of this run

ASSUME NAssumption == N \in Nat \ {0}
ASSUME MaxKillsAssumption == MaxKills \in Nat

VARIABLES
  named,   \* the segment exists under its name
  ready,   \* ready[p]: ues_initialized[p]
  chunk,   \* chunk[p]: the flag of chunk buffer p
  line,    \* line[k]: the flag of line k of ssmp_mem
  pc,      \* pc[p]: where p is
  core,    \* core[p]: its loop variable
  sent,    \* sent[p]: to whom p has sent in this run
  got,     \* got[p]: what p has received in this run: sender and flag
  kills    \* runs that were killed

memory == <<named, ready, chunk, line>>
vars == <<named, ready, chunk, line, pc, core, sent, got, kills>>

\* ssmp_recv_buf[core] and ssmp_send_buf[core] of process id
RecvLine(id, c) == id * N + c

\* The row of the sender instead of that of the receiver.
SendLine_OwnRow(id, c) == id * N + c

SendLine(id, c) == c * N + id

-----------------------------------------------------------------------------
Unborn == /\ pc = [p \in Procs |-> "unborn"]
          /\ core = [p \in Procs |-> 0]
          /\ sent = [p \in Procs |-> {}]
          /\ got = [p \in Procs |-> {}]

Init == /\ named = FALSE
        /\ ready = [p \in Procs |-> FALSE]
        /\ chunk = [p \in Procs |-> "EMPTY"]
        /\ line = [k \in Lines |-> "EMPTY"]
        /\ kills = 0
        /\ Unborn

\* ssmp_init and the fork: an existing segment is taken as it is, a new one
\* reads as zeros.
SsmpInit == /\ \A p \in Procs : pc[p] = "unborn"
            /\ named' = TRUE
            /\ IF named
               THEN UNCHANGED <<ready, chunk, line>>
               ELSE /\ ready' = [p \in Procs |-> FALSE]
                    /\ chunk' = [p \in Procs |-> "EMPTY"]
                    /\ line' = [k \in Lines |-> "EMPTY"]
            /\ pc' = [p \in Procs |-> "reset"]
            /\ UNCHANGED <<core, sent, got, kills>>

\* A reset that skips the line of the process itself and those after it.
ResetOne_Below(p) ==
  /\ pc[p] = "reset"
  /\ line' = IF core[p] < p THEN [line EXCEPT ![RecvLine(p, core[p])] = "EMPTY"] ELSE line
  /\ core' = [core EXCEPT ![p] = IF @ + 1 < N THEN @ + 1 ELSE 0]
  /\ pc' = [pc EXCEPT ![p] = IF core[p] + 1 < N THEN "reset" ELSE "chunk"]
  /\ UNCHANGED <<named, ready, chunk, sent, got, kills>>

\* One round of the loop over the own row.
ResetOne(p) ==
  /\ pc[p] = "reset"
  /\ line' = [line EXCEPT ![RecvLine(p, core[p])] = "EMPTY"]
  /\ core' = [core EXCEPT ![p] = IF @ + 1 < N THEN @ + 1 ELSE 0]
  /\ pc' = [pc EXCEPT ![p] = IF core[p] + 1 < N THEN "reset" ELSE "chunk"]
  /\ UNCHANGED <<named, ready, chunk, sent, got, kills>>

\* A reset of the chunk buffers of all, as on x86.
ResetChunk_All(p) ==
  /\ pc[p] = "chunk"
  /\ chunk' = [q \in Procs |-> "EMPTY"]
  /\ pc' = [pc EXCEPT ![p] = "report"]
  /\ UNCHANGED <<named, ready, line, core, sent, got, kills>>

ResetChunk(p) ==
  /\ pc[p] = "chunk"
  /\ chunk' = [chunk EXCEPT ![p] = "EMPTY"]
  /\ pc' = [pc EXCEPT ![p] = "report"]
  /\ UNCHANGED <<named, ready, line, core, sent, got, kills>>

\* ues_initialized[id] = 1
Report(p) ==
  /\ pc[p] = "report"
  /\ ready' = [ready EXCEPT ![p] = TRUE]
  /\ pc' = [pc EXCEPT ![p] = "await"]
  /\ UNCHANGED <<named, chunk, line, core, sent, got, kills>>

\* A wait that passes over the last process.
Await_MissLast(p) ==
  /\ pc[p] = "await"
  /\ ready[core[p]]
  /\ core' = [core EXCEPT ![p] = IF @ + 2 < N THEN @ + 1 ELSE 0]
  /\ pc' = [pc EXCEPT ![p] = IF core[p] + 2 < N THEN "await" ELSE "up"]
  /\ UNCHANGED <<memory, sent, got, kills>>

\* A wait that ends with the report of the process after the last.
Await_PastLast(p) ==
  /\ pc[p] = "await"
  /\ core[p] < N /\ ready[core[p]]
  /\ core' = [core EXCEPT ![p] = @ + 1]
  /\ pc' = [pc EXCEPT ![p] = IF core[p] < N THEN "await" ELSE "up"]
  /\ UNCHANGED <<memory, sent, got, kills>>

\* while (!ues_initialized[ue]), for one process after the other.
Await(p) ==
  /\ pc[p] = "await"
  /\ ready[core[p]]
  /\ core' = [core EXCEPT ![p] = IF @ + 1 < N THEN @ + 1 ELSE 0]
  /\ pc' = [pc EXCEPT ![p] = IF core[p] + 1 < N THEN "await" ELSE "up"]
  /\ UNCHANGED <<memory, sent, got, kills>>

-----------------------------------------------------------------------------
(* The program, as far as it shows what start-up has set up *)

\* A process sends once to each of the others.
Send(p) ==
  /\ pc[p] = "up"
  /\ \E q \in Procs \ (sent[p] \cup {p}) :
       /\ line[SendLine(p, q)] = "EMPTY"
       /\ line' = [line EXCEPT ![SendLine(p, q)] = "NEW"]
       /\ sent' = [sent EXCEPT ![p] = @ \cup {q}]
  /\ UNCHANGED <<named, ready, chunk, pc, core, got, kills>>

SendBig(p) ==
  /\ pc[p] = "up"
  /\ chunk[p] = "EMPTY"
  /\ chunk' = [chunk EXCEPT ![p] = "NEW"]
  /\ UNCHANGED <<named, ready, line, pc, core, sent, got, kills>>

Receive(p) ==
  /\ pc[p] = "up"
  /\ \E q \in Procs \ {p} :
       /\ line[RecvLine(p, q)] # "EMPTY"
       /\ got' = [got EXCEPT ![p] = @ \cup {<<q, line[RecvLine(p, q)]>>}]
       /\ line' = [line EXCEPT ![RecvLine(p, q)] = "EMPTY"]
  /\ UNCHANGED <<named, ready, chunk, pc, core, sent, kills>>

\* ssmp_term, when the program is done.  The name goes with process 0, the
\* memory with the last process.
Terminate(p) ==
  /\ pc[p] = "up"
  /\ \A q \in Procs \ {p} : q \in sent[p] /\ p \in sent[q] /\ <<q, "NEW">> \in got[p]
  /\ named' = IF p = 0 THEN FALSE ELSE named
  /\ pc' = [pc EXCEPT ![p] = "gone"]
  /\ UNCHANGED <<ready, chunk, line, core, sent, got, kills>>

\* The run is killed before process 0 has terminated, and another begins.
Old(flag) == IF flag = "NEW" THEN "OLD" ELSE flag

Kill ==
  /\ kills < MaxKills
  /\ named /\ pc[0] # "gone"
  /\ kills' = kills + 1
  /\ chunk' = [p \in Procs |-> Old(chunk[p])]
  /\ line' = [k \in Lines |-> Old(line[k])]
  /\ pc' = [p \in Procs |-> "unborn"]
  /\ core' = [p \in Procs |-> 0]
  /\ sent' = [p \in Procs |-> {}]
  /\ got' = [p \in Procs |-> {}]
  /\ UNCHANGED <<named, ready>>

-----------------------------------------------------------------------------
Library(p) == ResetOne(p) \/ ResetChunk(p) \/ Report(p) \/ Await(p)

Program(p) == Send(p) \/ SendBig(p) \/ Receive(p) \/ Terminate(p)

Next == SsmpInit \/ Kill \/ \E p \in Procs : Library(p) \/ Program(p)

Spec == Init /\ [][Next]_vars

\* A process that is in ssmp_mem_init runs on a core of its own.
Fairness == \A p \in Procs : WF_vars(Library(p))

FairSpec == Spec /\ Fairness

-----------------------------------------------------------------------------
(* Properties *)

PastReset(p) == pc[p] \in {"chunk", "report", "await", "up", "gone"}
Up(p) == pc[p] \in {"up", "gone"}

\* The variables stay in their types.
TypeOK ==
  /\ named \in BOOLEAN
  /\ ready \in [Procs -> BOOLEAN]
  /\ chunk \in [Procs -> Flags]
  /\ line \in [Lines -> Flags]
  /\ pc \in [Procs -> {"unborn", "reset", "chunk", "report", "await", "up", "gone"}]
  /\ core \in [Procs -> Procs]
  /\ sent \in [Procs -> SUBSET Procs]
  /\ got \in [Procs -> SUBSET (Procs \X Flags)]
  /\ kills \in 0 .. MaxKills

\* In the first run what was sent is in the line its receiver looks at until it
\* receives it: no reset wipes it out, and no other sender has the same line.
NothingLost ==
  kills = 0 => \A p, q \in Procs :
    q \in sent[p] => <<p, "NEW">> \in got[q] \/ line[RecvLine(q, p)] = "NEW"

\* Nobody receives what an earlier run has left, or from one that has not sent.
NoGhost == \A p \in Procs : \A m \in got[p] : m[2] = "NEW" /\ p \in sent[m[1]]

\* What is received is what was sent, and nothing else.
Delivered == NothingLost /\ NoGhost

\* A chunk that was sent stays in its buffer while others are starting.
ChunkStays == [][\A p \in Procs : chunk[p] = "NEW" => chunk'[p] \in {"NEW", "OLD"}]_chunk

Abstract == INSTANCE AbstractStartup WITH
              reset <- {p \in Procs : PastReset(p)},
              up <- {p \in Procs : Up(p)}

\* In the first run ssmp_mem_init returns to nobody before everybody's lines
\* are reset.
ImplementsStartup == Abstract!Init /\ [][kills' = 0 => [Abstract!Next]_(Abstract!vars)]_vars

\* Everybody gets through ssmp_mem_init, unless the run is killed.
EveryoneUp ==
  \A k \in 0 .. MaxKills :
    kills = k /\ (\A p \in Procs : pc[p] = "reset")
      ~> kills > k \/ \A p \in Procs : Up(p)
=============================================================================
