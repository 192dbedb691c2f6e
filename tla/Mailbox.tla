------------------------------ MODULE Mailbox ------------------------------
(***************************************************************************)
(* The cache-line messages of ssmp: one shared buffer per ordered pair of  *)
(* processes, a flag in the buffer that says whose turn it is, and the     *)
(* send, is_free, send_no_sync, broadcast, recv_from, recv, recv_color and *)
(* recv_color_start calls, for the generic, opteron, niagara and xeon      *)
(* platform files.  A call is split at every access to shared memory: the  *)
(* read (or compare-and-swap) of the flag, each word copied in or out of   *)
(* the buffer, and each store of the flag.                                 *)
(*                                                                         *)
(* A channel <<from, to>> is ssmp_send_buf[to] of process from, which is   *)
(* the same memory as ssmp_recv_buf[from] of process to.                   *)
(***************************************************************************)
EXTENDS Integers, FiniteSets

CONSTANTS
  N,         \* number of processes: ssmp_num_ues_
  Words,     \* the words of a cache line that carry the payload
  None,      \* a word nobody wrote, a receive that has not returned
  Calls,     \* Calls[p]: the library functions the program of p calls
  Colors,    \* the color sets receivers made color buffers for
  Platform,  \* "plain", "atomic" (USE_ATOMIC == 1) or "xeon"
  Node,      \* Node[p]: the socket process p runs on (xeon's id_to_node)
  FlagLast,  \* the copy into the buffer stores the flag after the payload
  MaxSends   \* bound: messages a process composes

Procs == 0 .. N - 1
Chan == {c \in Procs \X Procs : c[1] # c[2]}

LibraryCalls == {"send", "broadcast", "is_free", "send_no_sync",
              "recv_from", "recv", "recv_color", "recv_color_start"}

ASSUME NAssumption == N \in Nat \ {0, 1}
ASSUME WordsAssumption == IsFiniteSet(Words) /\ Words # {} /\ "flag" \notin Words
ASSUME CallsAssumption == Calls \in [Procs -> SUBSET LibraryCalls]
ASSUME ColorsAssumption == \A S \in Colors : S \subseteq Procs
ASSUME PlatformAssumption == Platform \in {"plain", "atomic", "xeon"}
ASSUME FlagLastAssumption == FlagLast \in BOOLEAN
ASSUME MaxSendsAssumption == MaxSends \in Nat

\* SSMP_BUF_EMPTY, SSMP_BUF_MESSG and SSMP_BUF_LOCKD
EMPTY == "EMPTY"
MESSG == "MESSG"
LOCKD == "LOCKD"
Flags == {EMPTY, MESSG, LOCKD}

Others(p) == Procs \ {p}
Cells == Words \cup {"flag"}

(***************************************************************************)
(* Every word of a message carries the name of its author and the author's *)
(* count of messages, so that a word of another message shows.             *)
(***************************************************************************)
Value == Procs \X (1 .. MaxSends)
Content == [Words -> Value \cup {None}]
ASSUME NoneAssumption == None \notin [Words -> Value]
Message(p, k) == [w \in Words |-> <<p, k>>]
MessagesOf == [p \in Procs |-> {Message(p, k) : k \in 1 .. MaxSends}]
Blank == [w \in Words |-> None]

VARIABLES
  state,   \* state[c]: the flag of channel c's buffer (ssmp_msg_t.state)
  buf,     \* buf[c]: the payload of channel c's buffer
  pc,      \* pc[p]: what the call p is in does next
  peer,    \* peer[p]: the other end of the channel p copies to or from
  todo,    \* todo[p]: destinations p's send or broadcast has left to serve
  msg,     \* msg[p]: the payload of the caller's ssmp_msg_t
  copied,  \* copied[p]: the cells p's memcpy has copied
  call,    \* call[p]: the receive function p is in
  from,    \* from[p]: the senders that receive looks at
  idx,     \* idx[p]: the position in from[p] it looks at next
  start,   \* start[p]: the static start_recv_from of p
  known,   \* known[p]: destinations is_free told p are free, not used since
  seq,     \* seq[p]: messages p has composed
  got      \* got[p]: the last message a receive of p returned

vars == <<state, buf, pc, peer, todo, msg, copied, call, from, idx, start,
          known, seq, got>>

-----------------------------------------------------------------------------
(***************************************************************************)
(* Which flag accesses are compare-and-swaps.  With USE_ATOMIC all are; on *)
(* xeon those to a process on another socket, except in ssmp_recv; and the *)
(* color receives of xeon ask for the socket of the position in the color  *)
(* buffer, not of the process at that position.                            *)
(***************************************************************************)
SameSocket(p, q) == Node[p] = Node[q]

SendLocks(p, to) == \/ Platform = "atomic"
                    \/ Platform = "xeon" /\ ~SameSocket(p, to)

RecvLocks(p, q) ==
  \/ Platform = "atomic"
  \/ /\ Platform = "xeon"
     /\ \/ call[p] = "recv_from" /\ ~SameSocket(p, q)
        \/ call[p] \in {"recv_color", "recv_color_start"} /\ ~SameSocket(p, idx[p])

\* The position of q in the ascending order of S: its index in the receive
\* loop, and in the arrays of a color buffer.
Position(q, S) == Cardinality({r \in S : r < q})

-----------------------------------------------------------------------------
Init ==
  /\ state = [c \in Chan |-> EMPTY]
  /\ buf = [c \in Chan |-> Blank]
  /\ pc = [p \in Procs |-> "idle"]
  /\ peer = [p \in Procs |-> p]
  /\ todo = [p \in Procs |-> {}]
  /\ msg = [p \in Procs |-> Blank]
  /\ copied = [p \in Procs |-> {}]
  /\ call = [p \in Procs |-> "none"]
  /\ from = [p \in Procs |-> {}]
  /\ idx = [p \in Procs |-> 0]
  /\ start = [p \in Procs |-> 0]
  /\ known = [p \in Procs |-> {}]
  /\ seq = [p \in Procs |-> 0]
  /\ got = [p \in Procs |-> None]

-----------------------------------------------------------------------------
(* Sending *)

\* The caller fills its message before it calls a send function.
Compose(p) ==
  /\ pc[p] = "idle"
  /\ seq[p] < MaxSends
  /\ seq' = [seq EXCEPT ![p] = @ + 1]
  /\ msg' = [msg EXCEPT ![p] = Message(p, seq[p] + 1)]

CallSend(p, S) ==
  /\ Compose(p)
  /\ todo' = [todo EXCEPT ![p] = S]
  /\ pc' = [pc EXCEPT ![p] = "claim"]
  /\ UNCHANGED <<state, buf, peer, copied, call, from, idx, start, known, got>>

Send(p) == "send" \in Calls[p] /\ \E to \in Others(p) : CallSend(p, {to})

\* A loop over the destinations that runs one past the last.
Broadcast_PastTheEnd(p) == "broadcast" \in Calls[p] /\ CallSend(p, Others(p) \cup {N})

Broadcast(p) == "broadcast" \in Calls[p] /\ CallSend(p, Others(p))

\* A send that waits only for a receiver in the middle of its copy.
Claimable_NotLocked(c) == state[c] # LOCKD

Claimable(c) == state[c] = EMPTY

\* The spin of ssmp_send ends: the buffer of the next destination is free.
\* A compare-and-swap leaves LOCKD behind.
SendClaim(p) ==
  /\ pc[p] = "claim"
  /\ \E to \in todo[p] :
       /\ \A r \in todo[p] : to <= r
       /\ Claimable(<<p, to>>)
       /\ state' = [state EXCEPT ![<<p, to>>] = IF SendLocks(p, to) THEN LOCKD ELSE @]
       /\ peer' = [peer EXCEPT ![p] = to]
       /\ todo' = [todo EXCEPT ![p] = @ \ {to}]
       /\ known' = [known EXCEPT ![p] = @ \ {to}]
  /\ pc' = [pc EXCEPT ![p] = "copy"]
  /\ copied' = [copied EXCEPT ![p] = {}]
  /\ UNCHANGED <<buf, msg, call, from, idx, start, seq, got>>

\* An is_free that looks at the buffer to receive from that process.
IsFree_WrongBuffer(p) ==
  /\ "is_free" \in Calls[p]
  /\ pc[p] = "idle"
  /\ \E to \in Others(p) : state[<<to, p>>] = EMPTY /\ known' = [known EXCEPT ![p] = @ \cup {to}]
  /\ UNCHANGED <<state, buf, pc, peer, todo, msg, copied, call, from, idx, start,
                 seq, got>>

\* ssmp_send_is_free that answers 1; an answer of 0 changes nothing.
IsFree(p) ==
  /\ "is_free" \in Calls[p]
  /\ pc[p] = "idle"
  /\ \E to \in Others(p) :
       /\ state[<<p, to>>] = EMPTY
       /\ known' = [known EXCEPT ![p] = @ \cup {to}]
  /\ UNCHANGED <<state, buf, pc, peer, todo, msg, copied, call, from, idx, start,
                 seq, got>>

\* ssmp_send_no_sync goes to the copy without a look at the flag.
SendNoSync(p, to) ==
  /\ "send_no_sync" \in Calls[p]
  /\ Compose(p)
  /\ peer' = [peer EXCEPT ![p] = to]
  /\ known' = [known EXCEPT ![p] = @ \ {to}]
  /\ pc' = [pc EXCEPT ![p] = "copy"]
  /\ copied' = [copied EXCEPT ![p] = {}]
  /\ UNCHANGED <<state, buf, todo, call, from, idx, start, got>>

\* The copy has stored cell x; after the last one the call returns, or the
\* broadcast goes on to the next destination.
Stored(p, x) ==
  LET done == copied[p] \cup {x}
      next == IF done # Cells THEN "copy" ELSE IF todo[p] = {} THEN "idle" ELSE "claim"
  IN /\ copied' = [copied EXCEPT ![p] = IF done = Cells THEN {} ELSE done]
     /\ pc' = [pc EXCEPT ![p] = next]
     /\ peer' = [peer EXCEPT ![p] = IF next = "copy" THEN @ ELSE p]
     /\ msg' = [msg EXCEPT ![p] = IF next = "idle" THEN Blank ELSE @]
     /\ UNCHANGED <<todo, call, from, idx, start, known, seq, got>>

StoreWord(p) ==
  /\ pc[p] = "copy"
  /\ \E w \in Words \ copied[p] :
       /\ buf' = [buf EXCEPT ![<<p, peer[p]>>][w] = msg[p][w]]
       /\ Stored(p, w)
  /\ UNCHANGED state

\* A flag stored before the payload is complete.
StoreFlag_TooEarly(p) ==
  /\ pc[p] = "copy"
  /\ "flag" \notin copied[p]
  /\ state' = [state EXCEPT ![<<p, peer[p]>>] = MESSG]
  /\ Stored(p, "flag")
  /\ UNCHANGED buf

\* MESSG becomes visible.  The optimised builds copy in ascending order and
\* the flag is in the last bytes of the line; memcpy of the C library makes no
\* such promise.  niagara stores the flag in a statement of its own.
StoreFlag(p) ==
  /\ pc[p] = "copy"
  /\ "flag" \notin copied[p]
  /\ FlagLast => Words \subseteq copied[p]
  /\ state' = [state EXCEPT ![<<p, peer[p]>>] = MESSG]
  /\ Stored(p, "flag")
  /\ UNCHANGED buf

-----------------------------------------------------------------------------
(* Receiving *)

\* A receive function starts to look at the flags of the senders in S, at
\* position i.
CallReceive(p, f, S, i) ==
  /\ f \in Calls[p]
  /\ pc[p] = "idle"
  /\ call' = [call EXCEPT ![p] = f]
  /\ from' = [from EXCEPT ![p] = S]
  /\ idx' = [idx EXCEPT ![p] = i]
  /\ pc' = [pc EXCEPT ![p] = "scan"]
  /\ UNCHANGED <<state, buf, peer, todo, msg, copied, start, known, seq, got>>

ReceiveFrom(p) == \E q \in Others(p) : CallReceive(p, "recv_from", {q}, 0)

Receive(p) == CallReceive(p, "recv", Others(p), 0)

ReceiveColor(p) == \E S \in Colors : CallReceive(p, "recv_color", S \ {p}, 0)

\* A start that stays beyond the end of a shorter color buffer.
ReceiveColorStart_KeepsStart(p) ==
  \E S \in Colors : CallReceive(p, "recv_color_start", S \ {p}, start[p])

\* A start left behind by a larger color buffer wraps to 0.
ReceiveColorStart(p) ==
  \E S \in Colors :
    CallReceive(p, "recv_color_start", S \ {p},
                IF start[p] < Cardinality(S \ {p}) THEN start[p] ELSE 0)

\* A loop whose first sender is number 1.
Looks_FromOne(p, q) == q \in from[p] /\ Position(q, from[p]) + 1 = idx[p]

\* The sender the loop looks at.
Looks(p, q) == q \in from[p] /\ Position(q, from[p]) = idx[p]

\* A loop that never starts over.
NextIdx_NoWrap(p) == idx[p] + 1

NextIdx(p) == IF idx[p] + 1 < Cardinality(from[p]) THEN idx[p] + 1 ELSE 0

ScanMiss(p) ==
  /\ pc[p] = "scan"
  /\ \E q \in from[p] : Looks(p, q) /\ state[<<q, p>>] # MESSG
  /\ idx' = [idx EXCEPT ![p] = NextIdx(p)]
  /\ UNCHANGED <<state, buf, pc, peer, todo, msg, copied, call, from, start,
                 known, seq, got>>

ScanHit(p) ==
  /\ pc[p] = "scan"
  /\ \E q \in from[p] :
       /\ Looks(p, q)
       /\ state[<<q, p>>] = MESSG
       /\ state' = [state EXCEPT ![<<q, p>>] = IF RecvLocks(p, q) THEN LOCKD ELSE @]
       /\ peer' = [peer EXCEPT ![p] = q]
  /\ pc' = [pc EXCEPT ![p] = "take"]
  /\ copied' = [copied EXCEPT ![p] = {}]
  /\ UNCHANGED <<buf, todo, msg, call, from, idx, start, known, seq, got>>

LoadWord(p) ==
  /\ pc[p] = "take"
  /\ \E w \in Words \ copied[p] :
       /\ msg' = [msg EXCEPT ![p][w] = buf[<<peer[p], p>>][w]]
       /\ copied' = [copied EXCEPT ![p] = @ \cup {w}]
  /\ UNCHANGED <<state, buf, pc, peer, todo, call, from, idx, start, known, seq, got>>

\* The buffer is given back and the receive returns with the sender's name:
\* recv stores it in msg->sender, to recv_from the caller said it.  The locals
\* of the call go out of scope.
ReceiveDone(p) ==
  /\ pc[p] = "take"
  /\ Words \subseteq copied[p]
  /\ state' = [state EXCEPT ![<<peer[p], p>>] = EMPTY]
  /\ got' = [got EXCEPT ![p] = [sender |-> peer[p], msg |-> msg[p]]]
  /\ start' = [start EXCEPT ![p] = IF call[p] = "recv_color_start" THEN NextIdx(p) ELSE @]
  /\ pc' = [pc EXCEPT ![p] = "idle"]
  /\ peer' = [peer EXCEPT ![p] = p]
  /\ msg' = [msg EXCEPT ![p] = Blank]
  /\ copied' = [copied EXCEPT ![p] = {}]
  /\ call' = [call EXCEPT ![p] = "none"]
  /\ from' = [from EXCEPT ![p] = {}]
  /\ idx' = [idx EXCEPT ![p] = 0]
  /\ UNCHANGED <<buf, todo, known, seq>>

-----------------------------------------------------------------------------
\* Assumed of the program, as ssmp_send_no_sync leaves it to the caller
\* ("without checking whether the buffer ... is free"): it has asked is_free
\* since it last sent to that process, however long ago.  A program that knows
\* it from the request it answers, as client_server.c does, is in ClientServer.
MayNotSync(p, to) == to \in known[p]

\* Calls the program decides to make.
Caller(p) == \/ Send(p) \/ Broadcast(p) \/ IsFree(p)
             \/ \E to \in Others(p) : MayNotSync(p, to) /\ SendNoSync(p, to)
             \/ ReceiveFrom(p) \/ Receive(p) \/ ReceiveColor(p) \/ ReceiveColorStart(p)

\* Steps of the library inside a call.
Library(p) == \/ SendClaim(p) \/ StoreWord(p) \/ StoreFlag(p)
              \/ ScanMiss(p) \/ ScanHit(p) \/ LoadWord(p) \/ ReceiveDone(p)

Next == \E p \in Procs : Caller(p) \/ Library(p)

Spec == Init /\ [][Next]_vars

\* Every process runs on a core of its own and spins, so a library call that
\* can take a step takes one.  Nothing makes a program call the library.
Fairness == \A p \in Procs : WF_vars(Library(p))

FairSpec == Spec /\ Fairness

-----------------------------------------------------------------------------
(* Properties *)

Sending(c) == pc[c[1]] = "copy" /\ peer[c[1]] = c[2] /\ "flag" \notin copied[c[1]]
Receiving(c) == pc[c[2]] = "take" /\ peer[c[2]] = c[1]

\* The variables stay in their types.
TypeOK ==
  /\ state \in [Chan -> Flags]
  /\ buf \in [Chan -> Content]
  /\ pc \in [Procs -> {"idle", "claim", "copy", "scan", "take"}]
  /\ peer \in [Procs -> Procs]
  /\ todo \in [Procs -> SUBSET Procs]
  /\ msg \in [Procs -> Content]
  /\ copied \in [Procs -> SUBSET Cells]
  /\ call \in [Procs -> {"none", "recv_from", "recv", "recv_color", "recv_color_start"}]
  /\ from \in [Procs -> SUBSET Procs]
  /\ idx \in [Procs -> Nat]
  /\ start \in [Procs -> Nat]
  /\ known \in [Procs -> SUBSET Procs]
  /\ seq \in [Procs -> 0 .. MaxSends]
  /\ got \in [Procs -> [sender : Procs, msg : Content] \cup {None}]

\* The sender's and the receiver's copy of the same cache line never overlap,
\* whether the flag is claimed by a compare-and-swap or only read.
OwnerExclusion == \A c \in Chan : ~(Sending(c) /\ Receiving(c))

\* A buffer that is_free reported free is still free when its sender gets to
\* use it: nobody else can fill it in between.
KnownFree == \A p \in Procs : \A to \in known[p] :
               state[<<p, to>>] = EMPTY /\ ~Sending(<<p, to>>)

\* What a receive returns is a message its named sender composed, whole.
Intact == \A p \in Procs : got[p] # None =>
            got[p].msg \in MessagesOf[got[p].sender] /\ got[p].sender # p

\* The abstract channel: a message is pending from the store of its flag until
\* its receiver gives the buffer back.
Pending(c) == state[c] = MESSG \/ Receiving(c)
Abstract == INSTANCE Channel WITH
              slot <- [c \in Chan |-> IF Pending(c) THEN buf[c] ELSE None]

\* The protocol on the flag implements the one-message channel: no message is
\* lost, overwritten, duplicated, torn, or handed to anyone but its receiver.
ImplementsChannel == Abstract!Spec

\* A receive that has a message among the senders it looks at returns one.
ScanServed ==
  \A p \in Procs :
    (pc[p] = "scan" /\ \E q \in from[p] : state[<<q, p>>] = MESSG) ~> (pc[p] = "idle")

\* A sender and a receiver that wait on the same channel do not wait forever:
\* the send gets its buffer and the receive its message.
Rendezvous ==
  \A p, q \in Procs :
    (p # q /\ pc[p] = "claim" /\ todo[p] = {q} /\ pc[q] = "scan" /\ from[q] = {p})
      ~> (pc[q] = "idle")
=============================================================================
