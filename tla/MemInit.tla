------------------------------ MODULE MemInit ------------------------------
(***************************************************************************)
(* Start-up and termination of ssmp on x86.  The parent opens the shared   *)
(* segment SSMP_MEM_NAME (chunk buffers, ues_initialized, barriers) and    *)
(* forks; every process opens a segment /ssmp_core<id> of its own for the  *)
(* lines it receives in and resets them, waits on barrier 0, opens the     *)
(* segments of the others, reports itself in ues_initialized and waits for *)
(* the reports.  ssmp_term unlinks the names.                              *)
(*                                                                         *)
(* Names outlive processes.  A run that was killed leaves them behind, and *)
(* the shell starts a next run when process 0 has ended, although others   *)
(* may be still in front of their ssmp_term.  A segment is created by one  *)
(* call, shm_open, and gets its pages by another, ftruncate: a run killed  *)
(* between the two leaves a name without pages, which the next run reopens *)
(* and does not truncate.                                                  *)
(***************************************************************************)
EXTENDS Integers, FiniteSets

CONSTANTS
  N,         \* number of processes of this run: num_ues
  Previous,  \* what the run before may be: "none", "killed", "exiting"
  Parties,   \* for each of them what the participants of barrier 0 may be:
             \* everybody, or those below 64, as it starts with 64 bits set
  Uses,      \* pairs <<sender, receiver>> the program uses
  None       \* no segment

Procs == 0 .. N - 1

\* Identities of segments: a process creates at most one per name.
OldSegs == {"old"} \X Procs
NewSegs == {"new"} \X Procs \X Procs
Segs == OldSegs \cup NewSegs

Parameters ==
  /\ N \in Nat \ {0, 1}
  /\ Previous \subseteq {"none", "killed", "exiting"}
  /\ Parties \in [Previous -> SUBSET SUBSET Procs]
  /\ Uses \subseteq {c \in Procs \X Procs : c[1] # c[2]}
  /\ None \notin Segs /\ None \notin Nat

Lines == 0 .. N - 2
Flags == {"EMPTY", "OLD", "NEW"}   \* OLD: left over, NEW: sent in this run

VARIABLES
  forked,   \* ssmp_init has returned and the processes exist
  main,     \* how many chunk buffers the segment named SSMP_MEM_NAME has room
            \* for, N: all of this run, 0: it has no pages, None: no name
  chunks,   \* the same of the segment this run has mapped
  ready,    \* ready[p]: ues_initialized[p]
  big,      \* big[p]: the flag of chunk buffer p
  name,     \* name[p]: the segment that /ssmp_core<p> names, or None
  sized,    \* segments with pages for the lines of this run
  line,     \* line[g][k]: the flag of line k of segment g
  before,   \* what the run before was
  short,    \* it left a segment without the pages this run needs
  lag,      \* processes of the run before that have yet to unlink their name
  late,     \* history: one of them did after this run had forked
  pc,       \* pc[p]: where in ssmp_mem_init p is
  core,     \* core[p]: its loop variable
  fd,       \* fd[p]: the segment it opened last
  seg,      \* seg[p][q]: where its pointers into the lines of q point
  party, arrivals, departures,   \* barrier 0
  sent,     \* sent[p]: to whom p has sent
  got       \* got[p]: the flags p found set by each sender

past == <<before, short, lag, late>>
files == <<main, name, sized, past>>
barrier == <<party, arrivals, departures>>
vars == <<forked, files, chunks, ready, big, line, pc, core, fd, seg, barrier, sent, got>>

\* Barrier 0 is what SsmpBarrier is proved to implement.
Bar == INSTANCE AbstractBarrier WITH Barriers <- {0}

-----------------------------------------------------------------------------
(* The two views of the lines of a segment *)

\* recv_buf[core] of process id, an index into the segment of id.
RecvLine(id, c) == IF c > id THEN c - 1 ELSE c

\* A layout that gives two senders the same line.
SendLine_Clash(id, c) == IF id = 0 THEN 0 ELSE id - 1

\* send_buf[core] of process id, an index into the segment of core.
SendLine(id, c) == IF c < id THEN id - 1 ELSE id

-----------------------------------------------------------------------------
\* What the run before has left: nothing; any of its names, when it was
\* killed, some of them without their pages, and a main segment with room for
\* no chunk buffer, for fewer than N when it had fewer processes, or for N; or
\* the names of children that are still in front of ssmp_term.
Left(run) ==
  CASE run = "none" -> {[main |-> None, names |-> {}, whole |-> {}, lag |-> {}]}
    [] run = "killed" -> {l \in [main : {None} \cup (0 .. N), names : SUBSET Procs,
                                  whole : SUBSET Procs, lag : {{}}] : l.whole \subseteq l.names}
    [] run = "exiting" -> {[main |-> None, names |-> S, whole |-> S, lag |-> S] :
                             S \in SUBSET (Procs \ {0})}

\* What is left is of the size that this run needs.
Fits(l) == l.whole = l.names /\ l.main \in {None, N}

\* The flags and the reports in what is left are taken as set: one that is not
\* set can only hold a process up.
Init ==
  /\ forked = FALSE
  /\ before \in Previous
  /\ \E l \in Left(before) :
       /\ main = l.main
       /\ name = [p \in Procs |-> IF p \in l.names THEN <<"old", p>> ELSE None]
       /\ sized = {"old"} \X l.whole
       /\ lag = l.lag
       /\ short = ~Fits(l)
  /\ \E everybody \in Parties[before] : party = [b \in {0} |-> everybody]
  /\ late = FALSE
  /\ chunks = 0
  /\ ready = [p \in Procs |-> FALSE]
  /\ big = [p \in Procs |-> "EMPTY"]
  /\ line = [g \in Segs |-> [k \in Lines |-> IF g \in OldSegs THEN "OLD" ELSE "EMPTY"]]
  /\ pc = [p \in Procs |-> "unborn"]
  /\ core = [p \in Procs |-> p]
  /\ fd = [p \in Procs |-> None]
  /\ seg = [p \in Procs |-> [q \in Procs |-> None]]
  /\ arrivals = [b \in {0} |-> [p \in Procs |-> 0]]
  /\ departures = [b \in {0} |-> [p \in Procs |-> 0]]
  /\ sent = [p \in Procs |-> {}]
  /\ got = [p \in Procs |-> {}]

\* ssmp_init: a segment that exists is taken as it is, ues_initialized and
\* all; a new one is truncated to its size and reads as zeros.  The barriers
\* are reset: in a segment without pages this kills the parent (SIGBUS), before
\* the program forks.
SsmpInit ==
  /\ ~forked
  /\ main # 0
  /\ forked' = TRUE
  /\ LET old == main # None IN
     /\ chunks' = IF old THEN main ELSE N
     /\ main' = chunks'
     /\ ready' = [p \in Procs |-> old]
     /\ big' = [p \in Procs |-> IF old THEN "OLD" ELSE "EMPTY"]
  /\ pc' = [p \in Procs |-> "open"]
  /\ UNCHANGED <<name, sized, line, past, core, fd, seg, barrier, sent, got>>

-----------------------------------------------------------------------------
(* ssmp_mem_init.  core[p] is p itself while p works on its own segment. *)

\* A new segment in place of the one that has the name.
OpenExcl_Replaces(p) ==
  /\ pc[p] = "open"
  /\ fd' = [fd EXCEPT ![p] = <<"new", p, core[p]>>]
  /\ name' = [name EXCEPT ![core[p]] = <<"new", p, core[p]>>]
  /\ pc' = [pc EXCEPT ![p] = "truncate"]
  /\ UNCHANGED <<forked, main, chunks, ready, big, sized, line, past, core, seg,
                 barrier, sent, got>>

\* shm_open(O_CREAT | O_EXCL): creates the segment, or finds that there is one.
OpenExcl(p) ==
  /\ pc[p] = "open"
  /\ IF name[core[p]] = None
     THEN /\ fd' = [fd EXCEPT ![p] = <<"new", p, core[p]>>]
          /\ name' = [name EXCEPT ![core[p]] = <<"new", p, core[p]>>]
          /\ pc' = [pc EXCEPT ![p] = "truncate"]
     ELSE /\ pc' = [pc EXCEPT ![p] = "reopen"]
          /\ UNCHANGED <<fd, name>>
  /\ UNCHANGED <<forked, main, chunks, ready, big, sized, line, past, core, seg,
                 barrier, sent, got>>

\* The second shm_open may create the segment as well, when the name has gone
\* in between, but nobody truncates that one.
Reopen(p) ==
  /\ pc[p] = "reopen"
  /\ LET g == IF name[core[p]] = None THEN <<"new", p, core[p]>> ELSE name[core[p]] IN
     /\ fd' = [fd EXCEPT ![p] = g]
     /\ name' = [name EXCEPT ![core[p]] = g]
  /\ pc' = [pc EXCEPT ![p] = "map"]
  /\ UNCHANGED <<forked, main, chunks, ready, big, sized, line, past, core, seg,
                 barrier, sent, got>>

\* A file that is never given its size.
Truncate_Forgotten(p) ==
  /\ pc[p] = "truncate"
  /\ pc' = [pc EXCEPT ![p] = "map"]
  /\ UNCHANGED <<forked, main, chunks, ready, big, name, sized, line, past, core,
                 fd, seg, barrier, sent, got>>

Truncate(p) ==
  /\ pc[p] = "truncate"
  /\ sized' = sized \cup {fd[p]}
  /\ pc' = [pc EXCEPT ![p] = "map"]
  /\ UNCHANGED <<forked, main, chunks, ready, big, name, line, past, core, fd, seg,
                 barrier, sent, got>>

\* The first process after c in the loop over the others.
NextPeer(p, c) == IF c + 1 = p THEN c + 2 ELSE c + 1

\* mmap.  The own segment is reset next; after one of the others comes the
\* next one, and the report after the last.
Map(p) ==
  /\ pc[p] = "map"
  /\ seg' = [seg EXCEPT ![p][core[p]] = fd[p]]
  /\ IF core[p] = p
     THEN /\ pc' = [pc EXCEPT ![p] = "reset"]
          /\ core' = [core EXCEPT ![p] = 0]
     ELSE /\ pc' = [pc EXCEPT ![p] = IF NextPeer(p, core[p]) < N THEN "open" ELSE "report"]
          /\ core' = [core EXCEPT ![p] = IF NextPeer(p, @) < N THEN NextPeer(p, @) ELSE 0]
  /\ UNCHANGED <<forked, files, chunks, ready, big, line, fd, barrier, sent, got>>

\* A store beyond the end of a segment kills the process (SIGBUS).
Fault(p) ==
  /\ pc' = [pc EXCEPT ![p] = IF @ = "up" THEN "crashed" ELSE "fault"]
  /\ UNCHANGED <<forked, files, chunks, ready, line, core, fd, seg, barrier, sent, got>>

\* A reset that forgets the flags of the lines.
ResetOne_ChunksOnly(p) ==
  LET c == core[p] IN
  /\ pc[p] = "reset"
  /\ c < chunks
  /\ big' = [big EXCEPT ![c] = "EMPTY"]
  /\ core' = [core EXCEPT ![p] = c + 1]
  /\ pc' = [pc EXCEPT ![p] = IF c + 1 < N THEN "reset" ELSE "enter"]
  /\ UNCHANGED <<forked, files, chunks, ready, line, fd, seg, barrier, sent, got>>

\* One round of the loop that resets the flags of all chunk buffers and of
\* the lines of the own segment.  An old main segment may have no chunk
\* buffer c; a segment that was never truncated has no line.
ResetOne(p) ==
  LET c == core[p] IN
  /\ pc[p] = "reset"
  /\ c < chunks
  /\ c # p => seg[p][p] \in sized
  /\ big' = [big EXCEPT ![c] = "EMPTY"]
  /\ line' = IF c = p THEN line ELSE [line EXCEPT ![seg[p][p]][RecvLine(p, c)] = "EMPTY"]
  /\ core' = [core EXCEPT ![p] = c + 1]
  /\ pc' = [pc EXCEPT ![p] = IF c + 1 < N THEN "reset" ELSE "enter"]
  /\ UNCHANGED <<forked, files, chunks, ready, fd, seg, barrier, sent, got>>

\* The flag of the chunk buffer is stored before that of the line.
ResetFault(p) ==
  LET c == core[p] IN
  /\ pc[p] = "reset"
  /\ \/ c >= chunks /\ UNCHANGED big
     \/ c < chunks /\ c # p /\ seg[p][p] \notin sized /\ big' = [big EXCEPT ![c] = "EMPTY"]
  /\ Fault(p)

\* Where the loop over the other processes begins.
ToPeers(p) ==
  /\ core' = [core EXCEPT ![p] = IF p = 0 THEN 1 ELSE 0]
  /\ pc' = [pc EXCEPT ![p] = "open"]

\* A start-up without the barrier.
EnterBarrier_Skipped(p) ==
  /\ pc[p] = "enter"
  /\ ToPeers(p)
  /\ UNCHANGED <<forked, files, chunks, ready, big, line, fd, seg, barrier, sent, got>>

\* ssmp_barrier_wait(0).  One that is not a participant passes at once.
EnterBarrier(p) ==
  /\ pc[p] = "enter"
  /\ IF p \in party[0]
     THEN /\ Bar!Arrive(0, p)
          /\ pc' = [pc EXCEPT ![p] = "leave"]
          /\ UNCHANGED core
     ELSE ToPeers(p) /\ UNCHANGED barrier
  /\ UNCHANGED <<forked, files, chunks, ready, big, line, fd, seg, sent, got>>

LeaveBarrier(p) ==
  /\ pc[p] = "leave"
  /\ Bar!Depart(0, p)
  /\ ToPeers(p)
  /\ UNCHANGED <<forked, files, chunks, ready, big, line, fd, seg, sent, got>>

\* A process that does not report itself.
Report_Missing(p) ==
  /\ pc[p] = "report"
  /\ pc' = [pc EXCEPT ![p] = "await"]
  /\ UNCHANGED <<forked, files, chunks, ready, big, line, core, fd, seg, barrier,
                 sent, got>>

\* ues_initialized[id] = 1
Report(p) ==
  /\ pc[p] = "report"
  /\ ready' = [ready EXCEPT ![p] = TRUE]
  /\ pc' = [pc EXCEPT ![p] = "await"]
  /\ UNCHANGED <<forked, files, chunks, big, line, core, fd, seg, barrier, sent, got>>

\* while (!ues_initialized[ue]), for one process after the other.
Await(p) ==
  /\ pc[p] = "await"
  /\ ready[core[p]]
  /\ core' = [core EXCEPT ![p] = IF @ + 1 < N THEN @ + 1 ELSE 0]
  /\ pc' = [pc EXCEPT ![p] = IF core[p] + 1 < N THEN "await" ELSE "up"]
  /\ UNCHANGED <<forked, files, chunks, ready, big, line, fd, seg, barrier, sent, got>>

-----------------------------------------------------------------------------
(* The program, as far as it shows what start-up has set up *)

\* A process sends once over each channel it uses, by a line or a chunk.
Send(p) ==
  /\ pc[p] = "up"
  /\ \E q \in Procs \ sent[p] :
       /\ <<p, q>> \in Uses
       /\ seg[p][q] \in sized
       /\ line[seg[p][q]][SendLine(p, q)] = "EMPTY"
       /\ line' = [line EXCEPT ![seg[p][q]][SendLine(p, q)] = "NEW"]
       /\ sent' = [sent EXCEPT ![p] = @ \cup {q}]
  /\ UNCHANGED <<forked, files, chunks, ready, big, pc, core, fd, seg, barrier, got>>

SendFault(p) ==
  /\ pc[p] = "up"
  /\ \E q \in Procs \ sent[p] : <<p, q>> \in Uses /\ seg[p][q] \notin sized
  /\ Fault(p)
  /\ UNCHANGED big

SendBig(p) ==
  /\ pc[p] = "up"
  /\ big[p] = "EMPTY"
  /\ big' = [big EXCEPT ![p] = "NEW"]
  /\ UNCHANGED <<forked, files, chunks, ready, line, pc, core, fd, seg, barrier,
                 sent, got>>

Receive(p) ==
  /\ pc[p] = "up"
  /\ \E q \in Procs :
       /\ <<q, p>> \in Uses
       /\ line[seg[p][p]][RecvLine(p, q)] # "EMPTY"
       /\ got' = [got EXCEPT ![p] = @ \cup {<<q, line[seg[p][p]][RecvLine(p, q)]>>}]
       /\ line' = [line EXCEPT ![seg[p][p]][RecvLine(p, q)] = "EMPTY"]
  /\ UNCHANGED <<forked, files, chunks, ready, big, pc, core, fd, seg, barrier, sent>>

\* A termination that leaves the own segment to process 0.
Terminate_MainOnly(p) ==
  /\ pc[p] = "up"
  /\ main' = IF p = 0 THEN None ELSE main
  /\ pc' = [pc EXCEPT ![p] = "gone"]
  /\ UNCHANGED <<forked, chunks, ready, big, name, sized, line, past, core, fd, seg,
                 barrier, sent, got>>

\* ssmp_term, when the program has no more use for its channels.
Terminate(p) ==
  /\ pc[p] = "up"
  /\ \A q \in Procs : /\ <<p, q>> \in Uses => q \in sent[p]
                      /\ <<q, p>> \in Uses => <<q, "NEW">> \in got[p]
  /\ main' = IF p = 0 THEN None ELSE main
  /\ name' = [name EXCEPT ![p] = None]
  /\ pc' = [pc EXCEPT ![p] = "gone"]
  /\ UNCHANGED <<forked, chunks, ready, big, sized, line, past, core, fd, seg,
                 barrier, sent, got>>

\* ssmp_term of a child of the run before.
OldTerminate ==
  /\ \E p \in lag : /\ name' = [name EXCEPT ![p] = None]
                    /\ lag' = lag \ {p}
  /\ late' = (late \/ forked)
  /\ UNCHANGED <<forked, before, short, main, chunks, ready, big, sized, line, pc, core, fd, seg,
                 barrier, sent, got>>

-----------------------------------------------------------------------------
Library(p) == \/ OpenExcl(p) \/ Reopen(p) \/ Truncate(p) \/ Map(p)
              \/ ResetOne(p) \/ ResetFault(p) \/ EnterBarrier(p) \/ LeaveBarrier(p)
              \/ Report(p) \/ Await(p)

Program(p) == Send(p) \/ SendFault(p) \/ SendBig(p) \/ Receive(p) \/ Terminate(p)

Next == SsmpInit \/ OldTerminate \/ \E p \in Procs : Library(p) \/ Program(p)

Spec == Init /\ [][Next]_vars

\* A process that is in ssmp_mem_init runs on a core of its own.
Fairness == \A p \in Procs : WF_vars(Library(p))

FairSpec == Spec /\ Fairness

-----------------------------------------------------------------------------
(* Properties *)

Up(p) == pc[p] \in {"up", "gone", "crashed"}
PastReset(p) == pc[p] \in {"enter", "leave", "report", "await", "up", "gone",
                          "crashed"}
                \/ (pc[p] \in {"open", "reopen", "truncate", "map"} /\ core[p] # p)

\* The variables stay in their types.
TypeOK ==
  /\ forked \in BOOLEAN
  /\ main \in {None} \cup (0 .. N) /\ chunks \in 0 .. N
  /\ ready \in [Procs -> BOOLEAN]
  /\ big \in [Procs -> Flags]
  /\ name \in [Procs -> Segs \cup {None}]
  /\ sized \subseteq Segs
  /\ line \in [Segs -> [Lines -> Flags]]
  /\ before \in Previous /\ short \in BOOLEAN /\ lag \subseteq Procs /\ late \in BOOLEAN
  /\ pc \in [Procs -> {"unborn", "open", "reopen", "truncate", "map", "reset", "enter",
                       "leave", "report", "await", "up", "gone", "fault", "crashed"}]
  /\ core \in [Procs -> Procs \cup {N}]
  /\ fd \in [Procs -> Segs \cup {None}]
  /\ seg \in [Procs -> [Procs -> Segs \cup {None}]]
  /\ party \in [{0} -> SUBSET Procs]
  /\ arrivals \in [{0} -> [Procs -> 0 .. 1]]
  /\ departures \in [{0} -> [Procs -> 0 .. 1]]
  /\ sent \in [Procs -> SUBSET Procs]
  /\ got \in [Procs -> SUBSET (Procs \X Flags)]

\* Nobody else removes names, and barrier 0 holds up all.
Undisturbed == ~late /\ party[0] = Procs

\* No process touches a page its segment does not have, if what the run before
\* left has the size that this one needs.
NoFault == Undisturbed /\ ~short => \A p \in Procs : pc[p] \notin {"fault", "crashed"}

\* If it has not, because that run was killed between shm_open and ftruncate
\* or had fewer processes, nobody gets through ssmp_mem_init: the process that
\* needs the page dies of it, and the barrier keeps the others.  So nobody works
\* on with memory that is partly missing, and no further run succeeds either
\* until the names are removed by hand.
ShortStops == Undisturbed /\ short => \A p \in Procs : ~Up(p)

\* Two running processes mean the same memory by their channels.
PeersShare ==
  Undisturbed => \A p, q \in Procs : pc[p] = "up" /\ pc[q] = "up" => seg[p][q] = seg[q][q]

\* What was sent is in the line its receiver looks at, until it receives it:
\* no reset wipes it out, and no other sender has the same line.
NothingLost ==
  Undisturbed => \A p, q \in Procs :
    q \in sent[p] => \/ <<p, "NEW">> \in got[q]
                     \/ line[seg[q][q]][RecvLine(q, p)] = "NEW"

\* Nobody receives what an earlier run has left in a line, or from one that
\* has not sent.
NoGhost == \A p \in Procs : \A m \in got[p] : m[2] = "NEW" /\ p \in sent[m[1]]

\* A chunk that was sent stays in its buffer whoever is still starting.
ChunkStays == [][\A p \in Procs : big[p] = "NEW" => big'[p] = "NEW"]_big

\* When all have terminated no name is left.  After a killed run a process may
\* be gone before a slow one opens its segment, and so creates its name again.
NothingLeft == Undisturbed /\ before # "killed" /\ (\A p \in Procs : pc[p] = "gone") =>
                 main = None /\ \A p \in Procs : name[p] = None

Abstract == INSTANCE AbstractStartup WITH
              reset <- {p \in Procs : PastReset(p)},
              up <- {p \in Procs : Up(p)}

\* ssmp_mem_init returns to nobody before everybody's lines are reset.
ImplementsStartup == Abstract!Spec

\* Everybody gets through ssmp_mem_init.
EveryoneUp == forked ~> ~Undisturbed \/ \A p \in Procs : Up(p)
=============================================================================
