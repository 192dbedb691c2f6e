-------------------------------- MODULE Tile --------------------------------
(***************************************************************************)
(* Messages on the Tilera port.  There is one hardware queue (UDN) per     *)
(* process, whoever sends to it: every receive call takes the message at   *)
(* its head, and the sender writes its name into the message.  The queues  *)
(* are the hardware's and the tmc library's, modelled from how the port    *)
(* uses them.                                                              *)
(*                                                                         *)
(* The program around the calls is that of the benchmarks with servers: a  *)
(* client asks, and receives from the server it has asked.  A client may   *)
(* ask several servers before it receives (Ahead).                         *)
(***************************************************************************)
EXTENDS Integers, Sequences

CONSTANTS N,        \* number of processes
          Servers,  \* the others are clients
          Ahead,    \* servers that a client asks before it receives
          Cap       \* messages that a queue holds

Procs == 0 .. N - 1
Clients == Procs \ Servers

Parameters ==
  /\ N \in Nat \ {0} /\ Servers \subseteq Procs
  /\ Ahead \in Nat \ {0} /\ Cap \in Nat \ {0}

VARIABLES
  active,  \* processes whose ssmp_mem_init has returned
  queue,   \* queue[p]: the messages for p; of a message matters its sender
  msg,     \* msg[p]: the sender in the message buffer of p
  reply,   \* servers that have yet to answer the message in their buffer
  owed,    \* owed[p]: the servers client p has to receive from, in order
  last     \* last[p]: whom client p has asked recv_from for, and who had sent

vars == <<active, queue, msg, reply, owed, last>>

Init == /\ active = {}
        /\ queue = [p \in Procs |-> <<>>]
        /\ msg = [p \in Procs |-> 0]
        /\ reply = {}
        /\ owed = [p \in Procs |-> <<>>]
        /\ last = [p \in Procs |-> <<0, 0>>]

\* ssmp_mem_init: activates the network for the process.
MemInit(p) == /\ p \notin active
              /\ active' = active \cup {p}
              /\ UNCHANGED <<queue, msg, reply, owed, last>>

\* A send into a queue that is full.
UdnSend_NoWait(p, to) ==
  /\ msg' = [msg EXCEPT ![p] = p]
  /\ queue' = [queue EXCEPT ![to] = Append(@, p)]

\* A send that leaves the name in the message as it is.
UdnSend_KeepsSender(p, to) ==
  /\ Len(queue[to]) < Cap
  /\ queue' = [queue EXCEPT ![to] = Append(@, msg[p])]
  /\ UNCHANGED msg

\* ssmp_send and ssmp_send_no_sync are the same; both wait for room.
UdnSend(p, to) ==
  /\ Len(queue[to]) < Cap
  /\ msg' = [msg EXCEPT ![p] = p]
  /\ queue' = [queue EXCEPT ![to] = Append(@, p)]

\* A receive that leaves the message in the queue.
UdnReceive_Peeks(p) ==
  /\ queue[p] # <<>>
  /\ msg' = [msg EXCEPT ![p] = Head(queue[p])]
  /\ UNCHANGED queue

\* ssmp_recv, ssmp_recv_from, ssmp_recv_color and ssmp_recv_color_start are
\* the same.
UdnReceive(p) ==
  /\ queue[p] # <<>>
  /\ msg' = [msg EXCEPT ![p] = Head(queue[p])]
  /\ queue' = [queue EXCEPT ![p] = Tail(@)]

\* A client asks, and receives what it has asked for.
Ask(p, s) ==
  /\ p \in active \cap Clients
  /\ Len(owed[p]) < Ahead
  /\ UdnSend(p, s)
  /\ owed' = [owed EXCEPT ![p] = Append(@, s)]
  /\ UNCHANGED <<active, reply, last>>

RecvFrom(p) ==
  /\ p \in active \cap Clients
  /\ owed[p] # <<>>
  /\ UdnReceive(p)
  /\ last' = [last EXCEPT ![p] = <<Head(owed[p]), Head(queue[p])>>]
  /\ owed' = [owed EXCEPT ![p] = Tail(@)]
  /\ UNCHANGED <<active, reply>>

\* A server receives, and answers by the buffer it has received into.
Serve(s) ==
  /\ s \in (active \cap Servers) \ reply
  /\ UdnReceive(s)
  /\ reply' = reply \cup {s}
  /\ UNCHANGED <<active, owed, last>>

\* A server that may answer twice.
Reply_Twice(s) ==
  /\ s \in reply
  /\ UdnSend(s, msg[s])
  /\ \E S \in {reply, reply \ {s}} : reply' = S
  /\ UNCHANGED <<active, owed, last>>

Reply(s) ==
  /\ s \in reply
  /\ UdnSend(s, msg[s])
  /\ reply' = reply \ {s}
  /\ UNCHANGED <<active, owed, last>>

Step(p) == MemInit(p) \/ RecvFrom(p) \/ Serve(p) \/ Reply(p)

Next == \E p \in Procs : \/ Step(p)
                         \/ \E s \in Servers : Ask(p, s)

Spec == Init /\ [][Next]_vars

\* Every process runs on a core of its own, and servers serve forever.
FairSpec == Spec /\ \A p \in Procs : WF_vars(Step(p))

-----------------------------------------------------------------------------
(* Properties *)

TypeOK ==
  /\ active \subseteq Procs
  /\ queue \in [Procs -> Seq(Procs)]
  /\ \A p \in Procs : Len(queue[p]) <= Cap
  /\ msg \in [Procs -> Procs]
  /\ reply \subseteq Servers
  /\ owed \in [Procs -> Seq(Servers)]
  /\ last \in [Procs -> Procs \X Procs]

\* recv_from returns a message of the process it names.
FromAsked == \A p \in Clients : last[p][1] = last[p][2]

\* A server's answer never waits for room at the client, so that clients that
\* wait for room at the server cannot wait forever.
AnswersHaveRoom == \A s \in reply : msg[s] \in Clients /\ Len(queue[msg[s]]) < Cap

\* Every client that has asked is answered.
Answered == \A p \in Clients : owed[p] # <<>> ~> owed[p] = <<>>
=============================================================================
