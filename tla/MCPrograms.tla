---------------------------- MODULE MCPrograms ----------------------------
(* The benchmarks, and what a program does with the library inside one        *)
(* process, for TLC: which of them runs is chosen in the initial state, and   *)
(* the variables of the others stay as they begin.                            *)
EXTENDS ColorScan

CONSTANTS NumOps,   \* bank: operations of an application
          NumMsgs,  \* client_server: messages of a client
          Reps,     \* barrier_test: repetitions
          Drawn,    \* barrier_test: barriers it draws from
          BankN, BankDsl, BankAccounts,  \* bank: N, DslPerCore and NbAccounts of Bank.tla
          RTDsl, OneWayDsl,          \* client_server: DslPerCore of ClientServer.tla
          W, Shifts,  \* bits of a word of the helpers, and its shifts
          MaxNow,   \* profiling: ticks of a run
          None

VARIABLES
  program,
  slot, got, party, arrivals, departures, pc, ops, want, next, begin, balance, answer,
  made, taken,
  csslot, csgot, csparty, csarrivals, csdepartures, cspc, num_msgs1, to, to_idx, num_zeros,
  csstart, csanswer, co,
  btslot, btgot, btparty, btarrivals, btdepartures, btpc, core, barr, num,
  ret, callee,
  now, entry, valid, sum, samples, stops

bank == <<slot, got, party, arrivals, departures, pc, ops, want, next, begin, balance,
          answer, made, taken>>
cs == <<csslot, csgot, csparty, csarrivals, csdepartures, cspc, num_msgs1, to, to_idx,
        num_zeros, csstart, csanswer, co>>
bt == <<btslot, btgot, btparty, btarrivals, btdepartures, btpc, core, barr, num>>
hl == <<callee, ret>>
pf == <<now, entry, valid, sum, samples, stops>>

\* With all operations; the run has two servers and one application.
Bnk == INSTANCE Bank WITH
  N <- BankN, DslPerCore <- BankDsl, NbAccounts <- BankAccounts,
  Ops <- {"DEPOSIT", "WITHDRAW", "CHECK"},
  start <- begin

\* In the run, round trip: two servers, two clients; one way: servers 0 and 3,
\* clients 1 and 2.
RT == INSTANCE ClientServer WITH
  DslPerCore <- RTDsl, Roundtrip <- TRUE, NoSync <- TRUE,
  slot <- csslot, got <- csgot, party <- csparty, arrivals <- csarrivals,
  departures <- csdepartures, pc <- cspc, start <- csstart, answer <- csanswer
OneWay == INSTANCE ClientServer WITH
  DslPerCore <- OneWayDsl, Roundtrip <- FALSE, NoSync <- FALSE,
  slot <- csslot, got <- csgot, party <- csparty, arrivals <- csarrivals,
  departures <- csdepartures, pc <- cspc, start <- csstart, answer <- csanswer

\* In the run, barriers 0 and 10, and 1 for two of four processes.
BT == INSTANCE BarrierTest WITH
  Barriers <- Drawn,
  slot <- btslot, got <- btgot, party <- btparty, arrivals <- btarrivals,
  departures <- btdepartures, pc <- btpc

\* In the run, words of eight bits.
Hlp == INSTANCE Helpers WITH call <- callee

\* Two positions, and a clock that costs more or less than the correction.
Prof == INSTANCE Profiling WITH
  Positions <- {0, 1}, W <- 4, Costs <- {1, 2, 3}, Correction <- 2

ASSUME Instances ==
  /\ Bnk!Parameters /\ RT!Parameters /\ OneWay!Parameters /\ BT!Parameters
  /\ Hlp!Parameters /\ Prof!Parameters

allvars == <<program, vars, bank, cs, bt, hl, pf>>

Programs == {"server", "bank", "client_server_rt", "client_server",
             "barrier_test", "helpers", "profiling"}

ProgramsInit ==
  /\ program \in Programs
  /\ Init /\ Bnk!Init /\ BT!Init /\ Hlp!Init /\ Prof!Init
  /\ IF program = "client_server" THEN OneWay!Init ELSE RT!Init

ScanNext == program = "server" /\ Next /\ UNCHANGED <<program, bank, cs, bt, hl, pf>>

LocalNext == /\ \/ program = "helpers" /\ Hlp!Next /\ UNCHANGED pf
                \/ program = "profiling" /\ Prof!Next /\ UNCHANGED hl
             /\ UNCHANGED <<program, vars, bank, cs, bt>>

\* A step of process p of a benchmark.
Own(p) ==
  /\ \/ program = "bank" /\ p \in Bnk!Procs /\ Bnk!Step(p) /\ UNCHANGED <<cs, bt>>
     \/ program = "client_server_rt" /\ p \in RT!Procs /\ RT!Step(p) /\ UNCHANGED <<bank, bt>>
     \/ program = "client_server" /\ p \in RT!Procs /\ OneWay!Step(p) /\ UNCHANGED <<bank, bt>>
     \/ program = "barrier_test" /\ BT!Step(p) /\ UNCHANGED <<bank, cs>>
  /\ UNCHANGED <<program, vars, hl, pf>>

ProgramsNext == ScanNext \/ LocalNext \/ \E p \in BT!Procs : Own(p)

\* Every process of a benchmark runs on a core of its own; a server makes its
\* color buffers, and calls again and again.
ServerFairness ==
  /\ \A b \in Buffers : WF_vars(program = "server" /\ List(b))
  /\ WF_vars(program = "server" /\ Receive)
  /\ WF_vars(program = "server" /\ EnterSome)

ProgramsSpec ==
  /\ ProgramsInit /\ [][ProgramsNext]_allvars
  /\ ServerFairness /\ \A p \in BT!Procs : WF_allvars(Own(p))

-----------------------------------------------------------------------------
\* The variables of the programs stay in their types.
TypesOK == /\ TypeOK /\ Bnk!TypeOK /\ BT!TypeOK /\ Hlp!TypeOK /\ Prof!TypeOK
           /\ IF program = "client_server" THEN OneWay!TypeOK ELSE RT!TypeOK

\* bank: money neither appears nor vanishes, accounts that are shared evenly have
\* places of their own, and a single application sees its own deposits and
\* withdrawals.
BankKeepsMoney == Bnk!Conservation /\ Bnk!OwnPlaces /\ Bnk!ReadsItsWrites

\* bank and client_server: a server that has left its loop has left no message
\* behind.
NothingUnserved == /\ Bnk!NothingUnserved
                   /\ program = "client_server" => OneWay!NothingUnserved

\* client_server: a client gets back the number it has sent, and even
\* ssmp_send_no_sync never overwrites a message.
RoundTrip == program = "client_server_rt" => RT!PingPong /\ RT!NoOverwrite

\* barrier_test: those on the same barrier are in the same repetition, and cross
\* the barrier drawn for it; process 0 is never more than two repetitions ahead.
BarriersInStep == BT!InStep /\ BT!SameBarrier /\ BT!NotFarAhead

\* Every benchmark ends.
BenchmarksEnd == <>(/\ program = "bank" => Bnk!Ended
                    /\ program = "client_server_rt" => RT!Ended
                    /\ program = "client_server" => OneWay!Ended
                    /\ program = "barrier_test" => BT!Ended)

\* The server receives from everybody: with ssmp_recv_color_start from all who
\* have sent, with the other calls from all but those that smaller ids starve.
ServerReceives == EverybodyServed /\ OnlyLowerStarve

\* pow2roundup returns the smallest power of two that is not smaller; no two
\* processes are set to the same core; on the xeon ten share a socket.  The
\* profiler counts no time twice, although its sums wrap.
LocalResults == /\ Hlp!RoundsUp /\ Hlp!OwnCore /\ Hlp!SocketsOfTen
                /\ Prof!NoTimeTwice

\* All of the others; Me has the color as well and is left out.
One == {"a"}
OneColor == [b \in One |-> Procs]
StartOrFirst == {{"start"}, {"recv", "color"}}
EightBits == <<1, 2, 4>>
=============================================================================
