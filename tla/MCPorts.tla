------------------------------ MODULE MCPorts ------------------------------
(* Start-up on x86 and on SPARC, and the Tilera port, for TLC: which of them *)
(* runs is chosen in the initial state, and the variables of the others stay *)
(* as they begin.                                                            *)
EXTENDS SparcInit

CONSTANTS Archs,     \* what is chosen from
          X86N,      \* number of processes on x86, and at the barriers of the Tilera
          Before,    \* x86: what the run before may be
          UdnN,      \* Tilera: number of processes, of which 0 and 1 are servers
          Cap,       \* Tilera: messages that a queue holds
          MaxRounds, \* Tilera: waits of a process on a barrier
          None

VARIABLES
  arch,
  forked, main, chunks, x86ready, big, name, sized, x86line, before, short, lag, late,
  x86pc, x86core, fd, seg, party, arrivals, departures, x86sent, x86got,
  active, queue, msg, reply, owed, last,
  made, tparty, count, waiting, leaving, entered, left

x86 == <<forked, main, chunks, x86ready, big, name, sized, x86line, before, short, lag, late,
         x86pc, x86core, fd, seg, party, arrivals, departures, x86sent, x86got>>
udn == <<active, queue, msg, reply, owed, last>>
tmc == <<made, tparty, count, waiting, leaving, entered, left>>

\* One receiver of lines of two senders, who answers the first.  A barrier for
\* all, or for all but the last, as if it had a number above 63.
Parties == [run \in Before |-> IF run = "exiting" THEN {0 .. X86N - 1, 0 .. X86N - 2}
                            ELSE {0 .. X86N - 1}]
ToLast == {<<0, 2>>, <<1, 2>>, <<2, 0>>}

X86 == INSTANCE MemInit WITH
  N <- X86N, Previous <- Before, Parties <- Parties, Uses <- ToLast,
  ready <- x86ready, line <- x86line, pc <- x86pc, core <- x86core,
  sent <- x86sent, got <- x86got

UDN == INSTANCE Tile WITH N <- UdnN, Servers <- {0, 1}, Ahead <- 1

\* Two barriers for everybody or by color.
TMC == INSTANCE TileBarrier WITH
  N <- X86N, Barriers <- {0, 1}, Colors <- {{0, 2}, {1, 2}},
  forked <- made, party <- tparty, arrivals <- entered, departures <- left

ASSUME X86Parameters == X86!Parameters
ASSUME UDNParameters == UDN!Parameters
ASSUME TMCParameters == TMC!Parameters

allvars == <<arch, vars, x86, udn, tmc>>

\* What a run before has left matters on x86 only.
PortsInit == /\ arch \in Archs
             /\ Init /\ X86!Init /\ UDN!Init /\ TMC!Init
             /\ arch # "x86" => main = None /\ \A p \in X86!Procs : name[p] = None

SparcNext == arch = "sparc" /\ Next /\ UNCHANGED <<arch, x86, udn, tmc>>
X86Next == arch = "x86" /\ X86!Next /\ UNCHANGED <<arch, vars, udn, tmc>>
UDNNext == arch = "tilera" /\ UDN!Next /\ UNCHANGED <<arch, vars, x86, tmc>>
TMCNext == arch = "tilera barriers" /\ TMC!Next /\ UNCHANGED <<arch, vars, x86, udn>>

PortsNext == SparcNext \/ X86Next \/ UDNNext \/ TMCNext

PortsSpec == PortsInit /\ [][PortsNext]_allvars

\* Every process runs on a core of its own.
Own(p) ==
  \/ arch = "sparc" /\ p \in Procs /\ Library(p) /\ UNCHANGED <<arch, x86, udn, tmc>>
  \/ arch = "x86" /\ p \in X86!Procs /\ X86!Library(p) /\ UNCHANGED <<arch, vars, udn, tmc>>
  \/ arch = "tilera" /\ UDN!Step(p) /\ UNCHANGED <<arch, vars, x86, tmc>>
  \/ /\ arch = "tilera barriers"
     /\ \E b \in {0, 1} : TMC!Depart(b, p)
     /\ UNCHANGED <<arch, vars, x86, udn>>

FairPortsSpec == PortsSpec /\ \A p \in UDN!Procs : WF_allvars(Own(p))

-----------------------------------------------------------------------------
\* The variables of every port stay in their types.
TypesOK == TypeOK /\ X86!TypeOK /\ UDN!TypeOK /\ TMC!TypeOK

\* x86: nothing that is sent is lost and nothing else received; two running
\* processes mean the same memory by their channels.  A page that is not there
\* is touched only when the run before left a segment that is too short, and
\* then nobody gets through ssmp_mem_init.  When all have terminated no name is
\* left.
X86Delivered == /\ X86!NothingLost /\ X86!NoGhost /\ X86!PeersShare
                /\ X86!NoFault /\ X86!ShortStops /\ X86!NothingLeft

\* x86 and SPARC: a chunk that was sent stays in its buffer whoever is still
\* starting, although on x86 everybody resets the chunk buffers of all.
ChunksStay == ChunkStays /\ X86!ChunkStays

\* x86: ssmp_mem_init returns to nobody before everybody's lines are reset.
X86ImplementsStartup == X86!ImplementsStartup

\* Tilera: recv_from returns a message of the process it names, and a server's
\* answer never waits for room at the client.
UDNDelivered == UDN!FromAsked /\ UDN!AnswersHaveRoom

\* Tilera: when only participants wait, the barrier is that of the other ports.
TMCImplementsBarrier == TMC!ImplementsBarrier

\* Everybody gets through ssmp_mem_init, on x86 and on SPARC; on the Tilera
\* every client that has asked is answered, and the rounds of barriers complete.
AllGetOn == EveryoneUp /\ X86!EveryoneUp /\ UDN!Answered /\ TMC!RoundCompletes

AllArchs == {"x86", "sparc", "tilera", "tilera barriers"}
Dirty == {"killed", "exiting"}
Clean == {"none"}
=============================================================================
