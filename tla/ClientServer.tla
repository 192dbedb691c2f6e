---------------------------- MODULE ClientServer ----------------------------
(***************************************************************************)
(* The benchmark client_server: clients send numbered messages, counting   *)
(* down, to the servers in turn; a server leaves its loop when it has      *)
(* received as many messages with small numbers as there are clients.      *)
(* With ROUNDTRIP it sends every message back, by ssmp_send_no_sync when   *)
(* the build has NO_SYNC_SRV.  Then process 0 collects the throughputs.    *)
(* The messages are those of Channel.tla, the barrier is that of           *)
(* AbstractBarrier.tla.                                                    *)
(***************************************************************************)
EXTENDS Integers, FiniteSets

CONSTANTS N,           \* num_procs
          DslPerCore,  \* dsl_per_core: every so many processes one is a server
          NumMsgs,     \* num_msgs
          Roundtrip,   \* defined(ROUNDTRIP)
          NoSync,      \* defined(NO_SYNC_SRV)
          None

Procs == 0 .. N - 1
color_dsl(id) == id % DslPerCore = 0
Servers == {p \in Procs : color_dsl(p)}
Clients == Procs \ Servers
num_dsl == Cardinality(Servers)
num_app == Cardinality(Clients)
dsl_seq(i) == i * DslPerCore

\* w0; a throughput is a double, whose first word stands for a large number.
REPORT == NumMsgs + num_dsl
Message == (0 .. NumMsgs - 1) \cup {REPORT}
\* lim_zeros
Small(m) == m < num_dsl

Parameters ==
  /\ N \in Nat \ {0, 1} /\ DslPerCore \in Nat \ {0, 1} /\ NumMsgs \in Nat
  /\ Roundtrip \in BOOLEAN /\ NoSync \in BOOLEAN
  /\ None \notin Message \cup (Clients \X Message)

VARIABLES
  slot, got,                    \* the channels
  party, arrivals, departures,  \* barrier 0
  pc,         \* pc[p]: where p is
  num_msgs1,  \* num_msgs1[p]: messages client p has still to send
  to, to_idx, \* to[p], to_idx[p]: the server it sends to, and after that
  num_zeros,  \* num_zeros[p]: clients that server p still waits for
  start,      \* start[p]: start_recv_from of server p
  answer,     \* answer[p]: what server p has yet to send back, to whom; or None
  co          \* co[p]: loop variable at the end

channels == <<slot, got>>
barrier == <<party, arrivals, departures>>
vars == <<channels, barrier, pc, num_msgs1, to, to_idx, num_zeros, start, answer, co>>

Ch == INSTANCE Channel WITH MessagesOf <- [p \in Procs |-> Message]
Bar == INSTANCE AbstractBarrier WITH Barriers <- {0}

Init ==
  /\ Ch!Init
  /\ party = [b \in {0} |-> Procs]
  /\ arrivals = [b \in {0} |-> [p \in Procs |-> 0]]
  /\ departures = [b \in {0} |-> [p \in Procs |-> 0]]
  /\ pc = [p \in Procs |-> "begin"]
  /\ num_msgs1 = [p \in Procs |-> NumMsgs]
  /\ to = [p \in Procs |-> 0]
  /\ to_idx = [p \in Procs |-> 0]
  /\ num_zeros = [p \in Procs |-> num_app]
  /\ start = [p \in Procs |-> 0]
  /\ answer = [p \in Procs |-> None]
  /\ co = [p \in Procs |-> 0]

\* ssmp_barrier_wait(0), from one place of the program to the next.
Wait(p, at, next) ==
  /\ pc[p] = at
  /\ \/ Bar!Arrive(0, p) /\ UNCHANGED pc
     \/ Bar!Depart(0, p) /\ pc' = [pc EXCEPT ![p] = next]
  /\ UNCHANGED <<channels, num_msgs1, to, to_idx, num_zeros, start, answer, co>>

-----------------------------------------------------------------------------
(* A client *)

\* An index that is one too large when it starts again.
Advance_Late(p) == /\ to' = [to EXCEPT ![p] = dsl_seq(to_idx[p])]
                   /\ to_idx' = [to_idx EXCEPT ![p] = IF @ = num_dsl THEN 0 ELSE @ + 1]

\* The server of the next message.
Advance(p) == /\ to' = [to EXCEPT ![p] = dsl_seq(to_idx[p])]
              /\ to_idx' = [to_idx EXCEPT ![p] = IF @ + 1 = num_dsl THEN 0 ELSE @ + 1]

\* A client that sends the next message before the answer has come.
Request_Ahead(p) ==
  /\ pc[p] = "loop"
  /\ num_msgs1[p] > 0
  /\ Ch!Send(<<p, to[p]>>, num_msgs1[p] - 1)
  /\ num_msgs1' = [num_msgs1 EXCEPT ![p] = @ - 1]
  /\ Advance(p)
  /\ UNCHANGED <<barrier, pc, num_zeros, start, answer, co>>

Request(p) ==
  /\ pc[p] = "loop"
  /\ num_msgs1[p] > 0
  /\ Ch!Send(<<p, to[p]>>, num_msgs1[p] - 1)
  /\ num_msgs1' = [num_msgs1 EXCEPT ![p] = @ - 1]
  /\ IF Roundtrip
     THEN pc' = [pc EXCEPT ![p] = "answer"] /\ UNCHANGED <<to, to_idx>>
     ELSE Advance(p) /\ UNCHANGED pc
  /\ UNCHANGED <<barrier, num_zeros, start, answer, co>>

Answer(p) ==
  /\ pc[p] = "answer"
  /\ Ch!Receive(<<to[p], p>>)
  /\ Advance(p)
  /\ pc' = [pc EXCEPT ![p] = "loop"]
  /\ UNCHANGED <<barrier, num_msgs1, num_zeros, start, answer, co>>

AllSent(p) ==
  /\ pc[p] = "loop"
  /\ num_msgs1[p] = 0
  /\ pc' = [pc EXCEPT ![p] = "report"]
  /\ UNCHANGED <<channels, barrier, num_msgs1, to, to_idx, num_zeros, start, answer, co>>

Client(p) == Wait(p, "begin", "main") \/ Wait(p, "main", "loop")
             \/ Request(p) \/ Answer(p) \/ AllSent(p)

-----------------------------------------------------------------------------
(* A server.  Its color buffer lists the clients in ascending order. *)

Sender(i) == CHOOSE c \in Clients : Cardinality({q \in Clients : q < c}) = i
After(i) == IF i + 1 = num_app THEN 0 ELSE i + 1

\* ssmp_recv_color_start finds nothing at its position.
Miss(p) ==
  /\ pc[p] = "loop"
  /\ answer[p] = None
  /\ slot[<<Sender(start[p]), p>>] = None
  /\ start' = [start EXCEPT ![p] = After(@)]
  /\ UNCHANGED <<channels, barrier, pc, num_msgs1, to, to_idx, num_zeros, answer, co>>

\* A server that leaves at the first small number of the last client.
Counted_EverySmall(p, m) == IF m <= num_dsl THEN num_zeros[p] - 1 ELSE num_zeros[p]

\* num_zeros after message m.
Counted(p, m) == IF Small(m) THEN num_zeros[p] - 1 ELSE num_zeros[p]

\* An answer to the client at the position after the sender's.
Serve_AnswersNext(p) ==
  /\ pc[p] = "loop"
  /\ answer[p] = None
  /\ LET c == Sender(start[p])
         m == slot[<<c, p>>]
     IN /\ Ch!Receive(<<c, p>>)
        /\ num_zeros' = [num_zeros EXCEPT ![p] = Counted(p, m)]
        /\ answer' = [answer EXCEPT ![p] = <<Sender(After(start[p])), m>>]
        /\ UNCHANGED pc
  /\ start' = [start EXCEPT ![p] = After(@)]
  /\ UNCHANGED <<barrier, num_msgs1, to, to_idx, co>>

\* It finds a message.  It leaves the loop when nobody is left to wait for.
Serve(p) ==
  /\ pc[p] = "loop"
  /\ answer[p] = None
  /\ LET c == Sender(start[p])
         m == slot[<<c, p>>]
     IN /\ Ch!Receive(<<c, p>>)
        /\ num_zeros' = [num_zeros EXCEPT ![p] = Counted(p, m)]
        /\ answer' = IF Roundtrip THEN [answer EXCEPT ![p] = <<c, m>>] ELSE answer
        /\ pc' = IF ~Roundtrip /\ num_zeros'[p] = 0 THEN [pc EXCEPT ![p] = "report"] ELSE pc
  /\ start' = [start EXCEPT ![p] = After(@)]
  /\ UNCHANGED <<barrier, num_msgs1, to, to_idx, co>>

\* ssmp_send, or ssmp_send_no_sync, which does not look whether the channel
\* is free.
SendBack(p) ==
  /\ answer[p] # None
  /\ NoSync \/ slot[<<p, answer[p][1]>>] = None
  /\ slot' = [slot EXCEPT ![<<p, answer[p][1]>>] = answer[p][2]]
  /\ answer' = [answer EXCEPT ![p] = None]
  /\ pc' = IF num_zeros[p] = 0 THEN [pc EXCEPT ![p] = "report"] ELSE pc
  /\ UNCHANGED <<got, barrier, num_msgs1, to, to_idx, num_zeros, start, co>>

Server(p) == Wait(p, "begin", "main") \/ Wait(p, "main", "loop")
             \/ Miss(p) \/ Serve(p) \/ SendBack(p)

-----------------------------------------------------------------------------
(* The end: one process after the other, with a barrier after each *)

SendReport(p) ==
  /\ pc[p] = "report"
  /\ co[p] = p /\ ~color_dsl(p)
  /\ Ch!Send(<<p, 0>>, REPORT)
  /\ pc' = [pc EXCEPT ![p] = "next"]
  /\ UNCHANGED <<barrier, num_msgs1, to, to_idx, num_zeros, start, answer, co>>

Collect(p) ==
  /\ pc[p] = "report"
  /\ p = 0 /\ co[p] \in Clients
  /\ Ch!Receive(<<co[p], p>>)
  /\ pc' = [pc EXCEPT ![p] = "next"]
  /\ UNCHANGED <<barrier, num_msgs1, to, to_idx, num_zeros, start, answer, co>>

Skip(p) ==
  /\ pc[p] = "report"
  /\ co[p] # p \/ color_dsl(p)
  /\ p # 0 \/ co[p] \notin Clients
  /\ pc' = [pc EXCEPT ![p] = IF co[p] < N THEN "next" ELSE "last"]
  /\ UNCHANGED <<channels, barrier, num_msgs1, to, to_idx, num_zeros, start, answer, co>>

\* The wait that ends a round of the loop.
NextCo(p) ==
  /\ pc[p] = "next"
  /\ \/ Bar!Arrive(0, p) /\ UNCHANGED <<pc, co>>
     \/ /\ Bar!Depart(0, p)
        /\ pc' = [pc EXCEPT ![p] = "report"]
        /\ co' = [co EXCEPT ![p] = @ + 1]
  /\ UNCHANGED <<channels, num_msgs1, to, to_idx, num_zeros, start, answer>>

End(p) == SendReport(p) \/ Collect(p) \/ Skip(p) \/ NextCo(p) \/ Wait(p, "last", "term")

Step(p) == (p \in Clients /\ Client(p)) \/ (p \in Servers /\ Server(p)) \/ End(p)

Next == \E p \in Procs : Step(p)

Spec == Init /\ [][Next]_vars

\* Every process runs on a core of its own.
FairSpec == Spec /\ \A p \in Procs : WF_vars(Step(p))

-----------------------------------------------------------------------------
(* Properties *)

TypeOK ==
  /\ slot \in [Ch!Chan -> Message \cup {None}]
  /\ pc \in [Procs -> {"begin", "main", "loop", "answer", "report", "next", "last", "term"}]
  /\ num_msgs1 \in [Procs -> 0 .. NumMsgs]
  /\ to \in [Procs -> Servers]
  /\ to_idx \in [Procs -> 0 .. num_dsl - 1]
  /\ num_zeros \in [Procs -> 0 .. num_app]
  /\ \A p \in Servers : start[p] \in 0 .. num_app - 1
  /\ answer \in [Procs -> {None} \cup (Clients \X Message)]
  /\ co \in [Procs -> 0 .. N]

\* A server that has left its loop has left no client's message behind, so
\* that what process 0 collects are throughputs.
NothingUnserved ==
  \A s \in Servers, c \in Clients :
    pc[s] \in {"report", "next", "last", "term"} => slot[<<c, s>>] \in {None, REPORT}

\* The assertion of the client: it gets back the number it has sent.
PingPong ==
  \A c \in Clients :
    pc[c] = "answer" /\ slot[<<to[c], c>>] # None => slot[<<to[c], c>>] = num_msgs1[c]

\* ssmp_send_no_sync never overwrites a message: the channel back is empty as
\* soon as the server has the question.
NoOverwrite ==
  \A s \in Servers : answer[s] # None => slot[<<s, answer[s][1]>>] = None

\* The program ends.
Ended == \A p \in Procs : pc[p] = "term"
Terminates == <>Ended
=============================================================================
