# Verification of ssmp

TLA+ models of libssmp, the message-passing library on shared memory whose
sources are under `src/`, model-checked with TLC and proved about with TLAPS.

## 1. Inventory

ssmp runs a fixed number of *processes* (not threads), forked by one program
after `ssmp_init`, each on a core of its own.  They share POSIX shared memory
and spin on it; the library never blocks in the kernel, has no timeouts and
handles no failures at run time.  The Tilera port replaces the shared memory by
the hardware's message queues.

| component | state | operations | interacts with |
|---|---|---|---|
| **cache-line messages** (`src/src/ssmp_send.c`, `ssmp_recv.c`, `ssmp_broadcast.c`, `src/src/platform/*`) | one 64-byte buffer per ordered pair of processes, its flag `state` (`EMPTY`, `MESSG`, `LOCKD`); the static `start_recv_from` of a process | `ssmp_send`, `_is_free`, `_no_sync`, `ssmp_broadcast`, `ssmp_recv_from`, `ssmp_recv`, `ssmp_recv_color`, `ssmp_recv_color_start` | the peer, through the buffer |
| **big messages** (same files) | one chunk buffer of 8192 bytes per process, its last byte the flag | `ssmp_send_big`, `ssmp_recv_from_big` | the peer, through the buffer; the program announces the length by a cache-line message |
| **barriers** (`src/src/arch/x86`, `src/src/arch/sparc`) | 16 records: participants bitmap, color function, `ticket`, `cleared` | `ssmp_barrier_init`, `ssmp_barrier_wait` | all participants |
| **start-up and termination** (same files) | the shared segments and their names, `ues_initialized` | `ssmp_init`, `ssmp_mem_init`, `ssmp_term` | barrier 0; the buffers above; what an earlier run left behind |
| **color buffers** | a private list of the senders a color function picks | `ssmp_color_buf_init`, `_free` | the color receives |
| **tile port** (`src/src/arch/tile`, `src/src/platform/tilera`) | one UDN queue per process, counting barriers of the tmc library | the same calls | the library, which is not here |
| **helpers** (`src/src/ssmp.c`, tables of the headers) | none | `pow2roundup`, `set_cpu`, `id_to_core`, `ssmp_cores_on_same_socket`, `wait_cycles`, ... | the platform files; programs |
| **profiling** (`src/include/measurements.h`) | per position an entry time, a sum, a count | `PF_START`, `PF_STOP`, `PF_EXCLUDE`, ... | the cycle counter |
| **benchmarks** | the protocols of `bank`, `client_server`, `one2one`, `one2one_big`, `barrier_test`, `cs` | | everything above |

What makes this code hard is interleaving at the grain of single loads and
stores.  There is no lock in most builds (`USE_ATOMIC` is 0): who may touch a
buffer follows from a flag byte that is published by the same `memcpy` as the
payload; barriers are reused round after round on two words; a big message's
flag lies inside the data it guards; shared memory has a name that outlives the
run that made it.  What makes each component correct:

* *messages*: sender and receiver never copy one line at once; what is received
  is what was sent, once, by the sender it names; a free buffer stays free for
  its sender; a receive finds a message wherever it is.
* *big messages*: the same for chunks, and the two ends agree on their number.
* *barriers*: nobody leaves a round before all are in it; rounds never overlap;
  every round completes; the barrier is reusable.
* *start-up*: nobody sends into a buffer that is not yet reset, also when an
  earlier run left its memory behind; two processes mean the same memory by the
  channel between them; everybody gets through.
* *color buffers*: they list whom the color function picks, and those that send
  are served in turn.
* *tile port*: the shared queue of a process does not mix up its senders, and
  finite queues do not make everybody wait.
* *benchmarks*: they end, leave no message behind, and their data are right.

`PROJECT.json` lists the hazards line by line with the properties that cover
each.

## 2. The modules

| module | what it is |
|---|---|
| `Channel` | abstract: channels that hold one message each |
| `Mailbox`, `MailboxProofs` | the cache-line messages; implements `Channel` |
| `SsmpBig`, `SsmpBigProofs` | the big messages; implements `Channel` for chunks |
| `AbstractBarrier` | abstract: a barrier with rounds |
| `SsmpBarrier`, `SsmpBarrierProofs` | the barriers; implements `AbstractBarrier` |
| `AbstractStartup` | abstract: all buffers are reset before anybody gets on |
| `MemInit`, `MemInitProofs` | start-up and termination on x86; uses `AbstractBarrier`, implements `AbstractStartup` |
| `SparcInit` | the same on SPARC, where there is no barrier |
| `ColorScan`, `ColorScanProofs` | color buffers, and the order in which receives serve senders |
| `Tile` | messages on the Tilera port |
| `TileBarrier`, `TileProofs` | its barriers; implements `AbstractBarrier` |
| `Bank`, `ClientServer`, `BarrierTest` | the benchmarks, on `Channel` and `AbstractBarrier` |
| `Helpers`, `Profiling` | what computes, and the profiler |
| `MCPorts`, `PortsProofs` | the ports side by side; theorems about `SparcInit`, and those of `MemInitProofs` and `TileProofs` for what `MCPorts` runs |
| `MCPrograms`, `ProgramsProofs` | the programs, helpers, profiler and color scans side by side; theorems about them |
| other `MC*`, `*.cfg` | instances for TLC |

The layers fit together by the abstract modules.  `Mailbox` and `SsmpBig` are
proved to implement `Channel`, `SsmpBarrier` to implement `AbstractBarrier`;
start-up and the benchmarks are written on top of these, so that they need not
repeat the single loads and stores.

**Mailbox.**  A channel `<<from, to>>` is `ssmp_send_buf[to]` of `from` and
`ssmp_recv_buf[from]` of `to`.  A call is entered by an action of its own
(`Send`, `Broadcast`, `IsFree`, `SendNoSync`, `ReceiveFrom`, `Receive`,
`ReceiveColor`, `ReceiveColorStart`) and proceeds in steps of one access to
shared memory: `SendClaim` (the spin on `EMPTY` ends), `StoreWord` and
`StoreFlag` (the `memcpy` out; the flag is one of the cells of the line),
`ScanMiss` and `ScanHit` (the receive loop looks at one flag), `LoadWord` and
`ReceiveDone` (the `memcpy` in and the store of `EMPTY`).  `Platform` selects
plain flag accesses, the compare-and-swaps of `USE_ATOMIC`, or xeon's mixture,
in which the kind of access depends on the sockets of the two ends.  Words carry
the name and count of their message, so that torn or stale words show.
`IsFree` models the answer 1; the answer 0 changes no state.  `SendNoSync` stores
without a look at the flag, as the code does.  That the buffer is free is the obligation
its comment in `ssmp.h` puts on the caller; `Next` has it as `MayNotSync`: the program has
asked `is_free` since it last sent to that process.  That nobody overwrites a message is then
`KnownFree` and `Intact`, not a guard.  The other way of knowing, that an answer has come back,
is that of `client_server.c:258`, the one user in the repository; `ClientServer` checks it.  The constant `FlagLast` says whether
the copy out stores the flag after the payload (see the first finding).

**SsmpBig.**  One chunk buffer per sender.  The bytes of a chunk but for the
last are the cells `Body`; the last byte is the flag, and a full chunk covers
it.  `ClaimChunk` ends the wait for the buffer, `StoreBody` and `StoreLast` are
the `memcpy`, in any order, `PublishChunk` sets the flag; `SeeChunk`,
`LoadBody`, `LoadLast` and `FreeChunk` are the receiving side.  The receiver
learns the length as in `one2one_big.c`, by a message sent before the call;
that message is a one-place `header` per channel, which is what `Mailbox`
implements.

**SsmpBarrier.**  `BarrierInit` and `Fork` are set-up: all programs initialise
their barriers before they fork.  A wait is `Call` (everything up to the end of
the loop that counts the participants, which reads only what set-up wrote),
`PassGate`, `TakeTicket`, `Announce`, `PassWait`, `DropTicket`, `Leave`.  Color
functions are the sets of ids they map to 1.  `arrivals` and `departures` are
history variables that count tickets taken and given back; `asked` remembers
what the caller of `ssmp_barrier_init` wanted.

**MemInit.**  Names and segments are different things: `name[p]` is the segment
that `/ssmp_core<p>` names, `seg[p][q]` the one that `p`'s pointers into the lines
of `q` go to, `sized` the segments that got their pages.  `OpenExcl`, `Reopen`,
`Truncate`, `Map` are the calls of `ssmp_mem_init` for its own segment and then for
each of the others, `ResetOne` and `ResetFault` a round of the reset loop,
`EnterBarrier` and `LeaveBarrier` the wait on barrier 0, `Report` and `Await` the
hand-shake by `ues_initialized`; `Terminate` is `ssmp_term`.  A touch of memory
that a segment does not have is `Fault` (SIGBUS).  The run before (`before`) may have
been killed, and then left any of its names behind with old flags and all
reports set, or may have children that are still on their way to `ssmp_term`
(`OldTerminate`), because the shell waits for process 0 only.  A killed run may have been
stopped between `shm_open` and `ftruncate`, or have had fewer processes: of the names it
left, any may have no pages (`sized`), and the main segment may have room for no chunk
buffer, for some or for all (`main`).  `short` says that something this run needs is missing
from what was left.  Sizes are whole pages in the machine and lines here: a segment counts as
sized when all lines of this run are in it, and a process dies at the first line of one that
is not, which in the machine may be a later line.  `Send`, `SendBig` and
`Receive` are the least that shows whether start-up was right.

**SparcInit.**  One segment for everybody, opened before the fork, and no
barrier: `ResetOne`, `ResetChunk`, `Report`, `Await`.  `Kill` ends a run between
any two steps; the next one finds the segment as it is.

**ColorScan.**  `List` is a round of the loop of `ssmp_color_buf_init`.  A receive
call is entered with `Enter` and looks at one sender per step (`RecvMiss`, `RecvHit`,
`ColorMiss`, `ColorHit`, `StartMiss`, `StartWrap`, `StartHit`).  Messages matter only
in that they wait.  `passed[q][p]` counts how often `p` was served while `q` waited.

**Tile, TileBarrier.**  A message is its sender: that is all that `ssmp_recv_from`,
which takes the head of the one queue, could get wrong.  The program around the
calls is the client and server of the benchmarks.  `tmc_sync_barrier_wait` counts
calls, whoever calls (`Arrive`); that only participants do is an assumption about the programs,
which `Next` has as `MayWait`.

**Bank, ClientServer, BarrierTest.**  One action per send, receive or wait; a wait is
`Arrive` and `Depart` of `AbstractBarrier`.  `Bank` has the choice of operation and
account (`Choose`), the request and answer, the server's loop (`Miss`, `Serve`,
`SendAnswer`), the EXIT messages and the collection of the throughputs;
`ClientServer` the counting down, the server's count of small numbers and the
rounds in which process 0 collects; `BarrierTest` the broadcast of a barrier's
number and its crossing.

**Helpers, Profiling.**  A call and its result are a state of `Helpers`, which keeps words of
`W` bits (a power of two; 32 in the code, 8 in the run) and shifts them by the `Shifts` 1, 2,
4, ... `W / 2`.  `Profiling`
keeps all numbers in words of `W` bits and lets a reading of the clock cost a
varying number of ticks.

**MCPorts, MCPrograms.**  Each instantiates several modules that do not interact and
chooses one of them in the initial state; the variables of the others stay as
they begin.  So every component has a passing run of its own part, and a
property of the composed module is the conjunction of the same property of the
parts.  The sizes of the parts (`X86N`, `BankN`, `BankDsl`, `RTDsl`, `OneWayDsl`, ...) are
constants, so that the theorems about the composed modules hold for all of them.

### Memory model

The steps interleave sequentially consistently.  On x86 and on SPARC (TSO) a
process's stores become visible in program order and loads are not reordered
with loads, and every hand-over in this code is "write data, then write flag" or
"read flag, then read data, then write flag", which TSO keeps.  The one place
where a load after a store would matter is the barrier, between `cleared = 1`
and the wait or between giving back a ticket and the next gate; there the code
has locked instructions and fences.  What TSO does *not* give is an order of the
stores inside one `memcpy`; that is `FlagLast`.

## 3. The runs

| run | expects | instance |
|---|---|---|
| `mailbox_pair` | pass | 2 processes, all calls, plain flags, 2 payload words, 4 messages each; safety, refinement and liveness |
| `mailbox_xeon` | pass | 3 processes on 2 sockets, xeon's mixed accesses, roles: 0 broadcasts and serves 1 by color, 1 sends and receives from 0 or 2, 2 receives from anyone or by color; color buffers `{0, 1}` and `{1}`, 2 messages each; safety, refinement, and that a scan ends |
| `mailbox_memcpy` | violation | `FlagLast = FALSE`: torn message |
| `big` | pass | 2 processes both ways, messages of up to 2 full chunks and a rest, 3 chunks each, last bytes zero |
| `big_race` | violation | a full chunk with a last byte other than zero |
| `big_lastbyte` | violation | a full chunk of zeros |
| `big_shared` | violation | one sender with two receivers |
| `barrier` | pass | 3 processes, barriers 0 and 1, any of them for everybody, for `{0, 2}` or for `ssmp_color_app`, 2 waits of a process on each |
| `barrier_bitmap` | violation | a barrier made with a bitmap |
| `ports` | pass | one of: x86, 3 processes, after none, one that was killed anywhere (between `shm_open` and `ftruncate` too, or with fewer processes) or one still ending; SPARC, 2 processes, two kills; Tilera, 3 clients and 2 servers, queues of 2 messages; Tilera barriers, 3 processes, 2 barriers, 2 waits on each; safety and refinement |
| `ports_fair` | pass | the same with nothing left behind, 3 processes on SPARC, queues of one message; liveness, and the SPARC refinement for three |
| `programs` | pass | one of: a server with a color buffer of 3 clients; bank with 2 servers, 1 application, 3 operations; client_server with round trip and `NO_SYNC_SRV` (2 servers, 2 clients, 3 messages) and one way (servers 0 and 3); barrier_test with 4 processes, barriers 0, 1, 10, 3 repetitions; the helpers on all words of 8 bits and all tables; the profiler with words of 4 bits |

*What the properties of `ports` and `programs` say.*  `X86Delivered`: nothing sent is
lost, nothing of an earlier run is received, two running processes share the
memory of their channel, a page that is not there is touched only where the run before left too
little (`NoFault`) and then nobody gets through start-up (`ShortStops`), and no name is left at the
end.  `Delivered` says the first two of SPARC.  `ChunksStay`: no reset
wipes out a chunk.  `X86ImplementsStartup`, `ImplementsStartup`,
`TMCImplementsBarrier`: the refinements.  `UDNDelivered`: `recv_from` gets the message
of the process it names, and an answer never waits for room.  `AllGetOn`: everybody gets
through `ssmp_mem_init`, every Tilera client is answered, Tilera rounds complete.
`InTurn`: color buffers list the right senders, and `recv_color_start` serves nobody
twice before one who waits.  `ServerReceives`: with it everybody is served; with the
other calls only smaller ids can starve a sender.  `BankKeepsMoney`: what was paid in is in
the place of its account, in a message or was taken out, accounts shared evenly have places of
their own, and a single application's check shows all it did before.  `NothingUnserved`: a server that has left its loop has left no
message.  `RoundTrip`: a client gets its number back, and `ssmp_send_no_sync` finds an
empty line.  `BarriersInStep`: who is on one barrier is in one repetition.
`LocalResults`: `pow2roundup`, the tables of cores, and that the profiler counts no time
twice although its sums wrap.  `BenchmarksEnd`: they do.

*Bounds.*  `MaxSends`, `MaxChunks`, `MaxRounds`, `MaxKills`, `Cap`, `NumOps`, `NumMsgs`,
`Reps` and `MaxNow` bound numbers of calls, rounds, kills, queue places and ticks,
nothing else.  Three messages let one be in the buffer, one be composed and one
be left over from before, and `mailbox_pair` has a fourth for `send_no_sync`, which comes after
others; two words are the least that can tear; two senders
(3 processes, `mailbox_xeon`) are the least with a scan order, and three in one color buffer the
least in which one can be passed by two.  In `mailbox_xeon` process 2 has color buffers of two
lengths, so that a start left by the longer is beyond the end of the shorter, and in the shorter
process 1 is at position 0, so that the code asks for the socket of process 0 instead: process 2
does a compare-and-swap although 1 is on its socket, and process 0 a plain read although 1 is
on the other.  Two rounds are the least that can
overlap, and three participants let one be late while two race; two kills are the
least after which a left-over run was itself one after a left-over run; with as many
messages as servers plus one a client comes back to a server.  The proofs remove these bounds
for safety.

*Deadlock* is not checked: programs may stop calling, counts are bounded, runs
end, and a receive nobody sends to waits forever by design.  `BenchmarksEnd` and
`AllGetOn` say where nobody may be stuck.

*Fairness.*  Weak fairness of each process's steps inside the library: processes
are pinned to cores of their own and spin, so an enabled step is taken.  In `Mailbox`,
`SsmpBig` and `SsmpBarrier` nothing is assumed of programs: `ScanServed`,
`Rendezvous`, `ReceiveReturns` and `RoundCompletes` are of the form
"if the calls that are needed have been made, they return".  In the benchmarks the
program is part of the model, and weak fairness is of every process's next step.
The server of `ColorScan` is assumed to call again and again; its clients need not send.

### What the failing runs show

1. `mailbox_memcpy`: the order of the stores of the 64-byte copy is the
   compiler's or the C library's choice.  Optimised x86 builds inline the copy
   in ascending order, with the flag in the last 16 bytes: there `FlagLast` holds
   and everything else is proved under it; niagara stores the flag separately.
   The `DEBUG` build calls the library's `memcpy`, and an SSE2 version for 33 to
   64 bytes stores the last 16 bytes before bytes 32 to 47.  A receiver can then
   return a message whose `f[0..3]` are old.
2. `barrier_bitmap`: `ssmp_barrier_init` ignores its bitmap.
3. `big_race`, `big_lastbyte`: a full chunk is copied over its flag.
4. `big_shared`: `ssmp_send_big` ignores to whom it sends.

### Observations

Behaviour met while modelling, outside the instances above or not contradicting
any text of the repository; the properties are stated around it.

* *Segments without their pages.*  A segment is created by `shm_open` (`src/src/arch/x86/ssmp_arch.c`
  lines 72, 143, 208) and gets its size by `ftruncate` (91, 161, 226), and one that exists is taken without
  a look at its size ("this time it is ok if it already exists", line 81).  It is not when the run
  before was killed between the two calls or had fewer processes: the next run dies (SIGBUS) at its
  first touch of what is missing, in `ssmp_init` (`SsmpInit` cannot be taken) or in the reset loop
  (`ResetFault`).  The barrier keeps the other processes, so nobody gets through
  start-up (`ShortStops`) and nobody removes the names: every later run ends in the same way until that is
  done by hand.
* *A late `ssmp_term`.*  A child of the run before unlinks the name
  `/ssmp_core<id>` whoever made the segment (line 268).  If the next run has already
  created its own under that name, a peer that opens it later gets another segment,
  without pages.  The delivery properties of x86 are therefore stated for runs that
  are not so disturbed (`Undisturbed`); what is received is still of this run,
  and `X86ImplementsStartup` holds all the same.
* *More than 64 processes.*  Barrier 0 starts with 64 bits, and those above pass it.
  The reports in `ues_initialized` make up for it, as `X86ImplementsStartup` shows with a
  barrier that does not hold up the last process, but only when they are of this
  run; and one that is not held up may open the segment of a peer before the peer
  has given it its size.
* *Names left behind.*  After a killed run a process may be done before a slow one
  opens its segment, which creates the name again; `NothingLeft` excludes it.
* *SPARC after a kill.*  The reports of a killed run let a process begin to send
  while a peer is still resetting: its message may be lost (`SparcInit`: `NothingLost`
  and the refinement are claimed of runs that follow no killed one).  What is
  received is of this run even then.
* *Two color buffers.*  `start_recv_from` is one variable for all color buffers of a
  process: with two buffers the order of service of `recv_color_start` is not fair.
  An empty color buffer makes the color receives spin without end.
* *bank.*  With two or more applications a throughput report of the second may be
  taken by server 0 in place of the EXIT message, whose sender then waits forever;
  and the deposit of one application may be behind the EXIT of the first on another
  channel and stay unserved.
* *client_server* with no more messages than servers: a server that is never sent a
  small number does not leave its loop, or counts one twice; the default is
  five million messages.
* *Tilera.*  `ssmp_send_is_free` always says yes, a receive from one takes the
  message of another when a client has asked two servers, a barrier counts calls of
  strangers, and color buffers are null pointers.
* *Numbers.*  `pow2roundup` of more than 2^31 is 0.  `PF_EXCLUDE` forgets the samples of a
  position but not its ticks.

## 4. The proofs

All theorems are for any number of processes and the other constants.

`MailboxProofs`: `TypeCorrect`; and under the assumption `FlagLast` that
`OwnerExclusion`, `KnownFree` and `Intact` hold always and that `Mailbox`
implements `Channel`.  The inductive invariant says of every channel what its
flag allows: while the sender is between its claim and its flag store the flag is
not `MESSG` and the cells copied so far are those of the message; while the flag
is `MESSG` the buffer holds one whole message of its sender; while the receiver
copies, what it has copied agrees with the buffer.  `OwnerExclusion` alone is not
inductive: nothing in it says that a claimed buffer is not `MESSG`.

`SsmpBigProofs`, under `Single` (a sender has one receiver) and `ZeroLast` (the last
byte of a full chunk is zero), which are the two cases of findings 3 and 4:
`TypeCorrect`, `NeverBothCopy`, `ReceivedIntact`, `EndsAgree` (`Agreement`: what the receiver has
still to take is what the sender has still to put in and what is in the buffer, in every state) and that `SsmpBig` implements
`Channel`.  The invariant relates the two ends of a channel: what the sender has left to
send and what the receiver has left to take differ by the chunk that the flag says is in
the buffer (`Balance`).  The exclusion is not inductive without the balance: a flag that is set says nothing
of whose chunk it is for.

`SsmpBarrierProofs` (for any number of barriers, participants, rounds):
`TypeCorrect`, `NobodyEarly`, `RoundsApart`, `ReadyForReuse`, and that
`SsmpBarrier` implements `AbstractBarrier`.  The inductive invariant ties the
counters to the places of the processes: `ticket` is the number of processes
*inside* (between their ticket and giving it back); while the barrier is closed
all participants have left equally many rounds, while it is open all have entered
equally many; the process that holds the ticket equal to the number of
participants has everybody inside with it, and it is the only one of its kind;
so has the one that gave back the last ticket nobody inside, and an open barrier
always has somebody inside or on the way to close it.  The properties alone are
not inductive: they do not say why nobody can be at the ticket when the barrier
opens.  `NoDeadlock` is what liveness rests on without fairness: of the processes in a wait
one can go on, or all of them wait for a participant that has not called yet and is a
round behind.  For it the invariant (`Turns`) must also say that a closed barrier
everybody is inside of is about to be opened by someone.

`MemInitProofs`, under `Parameters` and `AllWait` (after a run that was killed, barrier 0
holds up everybody; otherwise some may pass it): `StartupCorrect`, that x86 start-up
implements `AbstractStartup`; `ChunkSafe`; `TypeCorrect`.  There are two arguments, one for
each case.  Where the barrier holds up all, `Barred` says that who has arrived has reset its
lines and who has left has seen all arrive.  Where it does not, `Reported` says that the
reports are of this run, that who has reported has reset its lines, and that who waits for
report `core` has seen the ones before it.  Neither is enough alone: reports may be left
over, and a barrier may be too narrow.

`MemInitProofs!DeliveredCorrect`: that messages arrive on x86 (`NothingLost`, `NoGhost`,
`PeersShare`, `NoFault`, `NothingLeft`) in runs that the run before does not disturb by a late
`ssmp_term` (`Undisturbed`), and that nobody gets through start-up when what that run left is too short
(`ShortStops`).  Nothing is assumed of the sizes of what is left; the assumptions are `Parameters`
and `AllWait`.  Its invariant `DeliveryInv` follows the segments: which process made the
segment that a name stands for and which of them have their size (`MainSeg`, `Addressed`),
that a process past its resets has in its lines nothing but what was written in this run
(`Written`, `Clean`, `Traffic`), that both ends of a channel point into the same segment
(`Shared`), and that a process past `ssmp_term` has taken its name away (`Unlinked`).  None
of the six properties is inductive: two processes share the memory of a channel because,
whichever of them came first, the name was not taken away in between.

`PortsProofs`, about SPARC: `TypeCorrect`, `GhostFree`, `ChunkSafe` however many runs are
killed; `DeliveredCorrect` and `StartupCorrect`, whose claims about the first run rest on
the reports alone.  `RunInv` holds in every run: the lines a process has reset hold nothing
old, and a line marked new was written by its sender.  `FreshInv` adds for the first run
that reports are fresh and seen in order.  It rests on `OwnLine`: no two pairs of processes
have the same index into the table of lines.

`PortsProofs`, about `MCPorts`: whatever port the initial state selects, `PortsSpec` implies
the specification of each (`RunsSparc`, `RunsX86`, `RunsUDN`, `RunsTMC`), because the steps of
the others leave its variables alone.  So what `MemInitProofs` and `TileProofs` show carries
over to the properties that the runs check: `X86DeliveredCorrect`, `ChunksStayCorrect`,
`X86StartupCorrect`, `UDNDeliveredCorrect`, `TMCBarrierCorrect`, `TypesCorrect`, for any
`X86N`, `Before`, `UdnN`, `Cap` and any number of kills and rounds.  What `MCPorts` itself
fixes stays fixed: the Tilera part has two servers, clients that wait for an answer
before they ask again (`Ahead = 1`) and two barriers.  `TileProofs!UDNCorrect` is for any set of
servers, and the theorems about `TileBarrier` for any barriers.

`ColorScanProofs`: `TypeCorrect`, `ListsTheColor`, and for a process with one color buffer
`ServedInTurn`.  `Fair` is not inductive; `Turns` says of two senders in the list which of them
the position will reach first, and that one who was passed once is reached before the
one who was served.

`TileProofs`, under `Parameters`: `TypeCorrect`, and that `TileBarrier` implements
`AbstractBarrier`.  The invariant says for every barrier that there is a number `k` of complete
rounds: who may leave is in round `k`, who waits has entered round `k + 1`, all others are
between them.  It needs that the call that completes the count has all other participants
waiting, a fact about finite sets (`AllWait`).  Of the messages, `UDNCorrect`: with clients
that receive an answer before they ask again (`Ahead = 1`, as the benchmarks do), a receive
from one server takes the answer of that server, although it takes the head of a queue that
all share, and an answer never waits for room.  `OnePlace` is why: a client's question or
its answer is in one place only, so nothing else is in its queue.

`ProgramsProofs` is about `MCPrograms`, for any number of processes, servers, messages,
operations, accounts and repetitions:

* `InStepCorrect` (`BarriersInStep` of `barrier_test`).  The invariant speaks of the
  draws of process 0 as a history: everybody knows of the same ones, what process 0 has sent
  and a process has not received is in its line, and a process has left a barrier exactly as
  often as it was drawn before its present repetition (`Crossed`).  With this the rounds
  of a barrier are those of the repetitions, in order.
* `BarrierTestGetsOn`: before the end of `barrier_test` some process can always take a step
  (`GoesOn`).  Of those who have done the fewest repetitions somebody does: process 0 draws
  without waiting, its line to somebody as far as itself is free, and who keeps them at the
  barrier they are at must be one of them, outside of it, because others have crossed it
  oftener (`CountGrows`).  It needs nothing but the invariant of `InStepCorrect`.
* `RoundTripCorrect` (`RoundTrip` of `client_server`): of a client and a server there is one
  message or none; it is the question or its answer, in one line, in the hands of the
  server, or the client has not asked.  So `ssmp_send_no_sync` finds an empty line.
* `BankCorrect` (`BankKeepsMoney`).  `BkInv` has the stages of servers and applications, the
  question or answer of each pair in one place (`BkPair`), barrier 0 before the end, the
  reports, the sum of the money, and, for a single application, that a server obeys in the
  order in which it was asked.  The ledger (`made`, `taken`) is kept by places, not by
  accounts, so `Conservation` holds however the servers share the accounts: when they do not
  share them evenly the last accounts fall onto places of server 0 (the hazard at
  `bank.c:184`) and their money is in one sum with that of the accounts they meet there.
  When they do, every account has its own place (`OwnPlaces`).  That a check
  shows all that was done before is proved of a single application.
* `NothingUnservedCorrect` (`NothingUnserved`), with one application of `bank` and more messages
  than servers in `client_server`: a server's count of small numbers is that of the
  clients that are done with it, whoever they are, and barrier 0 keeps the collection of
  the results behind the last of them.  Both hypotheses are needed (see Observations).
* `LocalCorrect` (`LocalResults`): on every platform no core is given to two processes and,
  on the xeon, ten processes share a socket; `pow2roundup` rounds up; the profiler counts no
  time twice.
  - *Rounding.*  A word `x` has a length `m`, the least with `x < 2^m` (`Length`).  After a shift by
    `s` the highest `2 s` bits of it are set, so after the last one all `m` are (`Smeared`);
    the lowest `m` bits together are `2^m - 1` (`LowBits`), and adding one gives the power of
    two (`Rounded`), which is the smallest because the powers grow (`PowersGrow`).  These are
    inductions over the bits and the shifts.  The library's induction theorems take
    an operator as a parameter, so each is written as the absence of a least counterexample
    (`Least`: a finite set of numbers has one of rank 0), and what the recursive functions
    compute follows from `Recursion`.
  - *Profiling.*  The sums wrap modulo `2^w`, so the invariant (`ClockInv`) says it of the sums as
    numbers: what is counted, with the correction put back, was over before the section now
    timed began.  It is shown for any positions, word, costs and correction, and used for
    those of `MCPrograms`.
* `TypesCorrect` (`TypesOK`), which the arguments above need of every part: color scans, bank,
  both kinds of client_server, barrier_test, helpers and profiler.

The assumptions are those the modules name (`NAssumption`, `Parameters`, ...), which TLC
evaluates on the runs.

*Only model-checked*:

* all liveness properties (`ScanServed`, `Rendezvous`, `ReceiveReturns`, `RoundCompletes`, `AllGetOn`,
  `ServerReceives`, `BenchmarksEnd`): fairness and `ENABLED` are out of TLAPS's reach.  Of
  `RoundCompletes`, and of `BenchmarksEnd` for `barrier_test`, the safety half is proved: that
  nobody is stuck (`NoDeadlock`, `BarrierTestGetsOn`).

Beyond the hypotheses stated above nothing is claimed: with several color buffers senders are
not served in turn, with several applications of `bank` a deposit may come after a check or
after EXIT, and a server of `client_server` with no more messages than servers may leave one
(see Observations).

## 5. Not modelled

* Scripts and the Makefile, but for what the build means for `memcpy`.
* Printing, parsing of options, the readings of the clock and the waiting loops.  `wtime`,
  `getticks` and the like have no state.
* The errors of `shm_open`, `ftruncate` and `mmap`, after which the process exits.
* `one2one`, `one2one_big` and `cs` as modules of their own: their pairs are those of
  `mailbox_pair` and of the runs of `SsmpBig`, without anything around them.
* The memory of programs: that `bank.c` uses at line 532 a message it freed at line 322 is outside of
  any module.
* The data of programs beyond what the properties tell apart, and time: throughputs are
  messages without content.

## 6. Plan

Done: all components of the inventory, the refinements, and the proofs above, which cover
every safety property of the passing runs.  What remains worth doing:

1. An instance of `bank` with two applications for the observations above, and one whose
   accounts are not shared evenly (three servers and four accounts need five processes): the
   theorem `BankCorrect` covers both, no run does.
2. That `bank` and `client_server` never stand still, as it is proved of `barrier_test`: their
   servers spin, so it must say that a server in its loop has a message to find, and the
   invariants must also relate what process 0 has collected to what was reported.
3. Shorter proofs in `ProgramsProofs`, where the two instances of `client_server` and the generic
   one are related definition by definition.
