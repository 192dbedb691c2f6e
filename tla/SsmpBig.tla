------------------------------ MODULE SsmpBig ------------------------------
(***************************************************************************)
(* The big messages of ssmp, ssmp_send_big and ssmp_recv_from_big.  Every  *)
(* process owns one chunk buffer of SSMP_CHUNK_SIZE bytes in shared memory *)
(* whose last byte is its flag.  A message goes through its sender's       *)
(* buffer in full chunks and a shorter last one; a full chunk covers the   *)
(* flag as well.  A call is split at every access to shared memory.        *)
(*                                                                         *)
(* The receiver must know the length.  It learns it as in one2one_big.c,   *)
(* from a message sent with ssmp_send before the call of ssmp_send_big.    *)
(***************************************************************************)
EXTENDS Integers, FiniteSets

CONSTANTS
  N,        \* number of processes: ssmp_num_ues_
  Body,     \* the bytes of a chunk but for its last one, some cells
  None,     \* no message, a byte nobody wrote
  Bytes,    \* the values of the bytes the program sends last in a full chunk
  Pairs,    \* the <<sender, receiver>> pairs of the program's big messages
  Lengths,  \* the lengths of its messages, as [full, rest]
  MaxChunks \* bound: chunks a process sends

Procs == 0 .. N - 1
Chan == {c \in Procs \X Procs : c[1] # c[2]}

ASSUME NAssumption == N \in Nat \ {0, 1}
ASSUME BodyAssumption == IsFiniteSet(Body) /\ Body # {} /\ "last" \notin Body
ASSUME BytesAssumption == Bytes \subseteq 0 .. 255 /\ Bytes # {}
ASSUME PairsAssumption == Pairs \subseteq Chan
ASSUME LengthsAssumption == Lengths \subseteq [full : Nat, rest : BOOLEAN]
ASSUME MaxChunksAssumption == MaxChunks \in Nat

(***************************************************************************)
(* Every cell of a chunk carries the name of its sender, of its addressee  *)
(* and the sender's count of chunks.                                       *)
(***************************************************************************)
Value == Procs \X Procs \X (1 .. MaxChunks)
Content == [Body -> Value \cup {None}]
ASSUME NoneAssumption == None \notin Value /\ None \notin [Body -> Value] /\ None \notin 0 .. 255
ASSUME NoneLength == None \notin Lengths
Chunk(s, r, k) == [x \in Body |-> <<s, r, k>>]
ChunksOf == [s \in Procs |-> {Chunk(s, r, k) : r \in Procs, k \in 1 .. MaxChunks}]
Blank == [x \in Body |-> None]

VARIABLES
  flag,   \* flag[s]: the last byte of s's chunk buffer (ssmp_chunk_t.state)
  data,   \* data[s]: the other bytes of s's chunk buffer
  header, \* header[c]: the length announced on channel c, or None
  pc,     \* pc[p]: what the call p is in does next
  peer,   \* peer[p]: the argument to or from of that call
  todo,   \* todo[p]: the part of the length that p has left
  copied, \* copied[p]: the cells p's memcpy has copied
  msg,    \* msg[p]: the chunk in p's private buffer, but for the last byte
  byte,   \* byte[p]: the last byte of that chunk, None in the shorter chunk
  addr,   \* addr[s]: to whom the last chunk in s's buffer was sent
  seq,    \* seq[s]: chunks s has sent
  got,    \* got[p]: the last chunk that p received
  tail    \* tail[p]: the last byte of that chunk

vars == <<flag, data, header, pc, peer, todo, copied, msg, byte, addr, seq, got, tail>>

Full(p) == todo[p].full > 0

\* The cells of a chunk that memcpy copies.
Cells(p) == IF Full(p) THEN Body \cup {"last"} ELSE Body

\* A loop over the full chunks that goes on below zero.
Rest_BelowZero(len) == [len EXCEPT !.full = @ - 1]

\* The length without the chunk just dealt with.
Rest(len) == IF len.full > 0 THEN [len EXCEPT !.full = @ - 1] ELSE [len EXCEPT !.rest = FALSE]

Done(len) == len.full = 0 /\ ~len.rest

NoLength == [full |-> 0, rest |-> FALSE]

ChunksIn(len) == len.full + (IF len.rest THEN 1 ELSE 0)

Init ==
  /\ flag = [s \in Procs |-> 0]
  /\ data = [s \in Procs |-> Blank]
  /\ header = [c \in Chan |-> None]
  /\ pc = [p \in Procs |-> "idle"]
  /\ peer = [p \in Procs |-> p]
  /\ todo = [p \in Procs |-> NoLength]
  /\ copied = [p \in Procs |-> {}]
  /\ msg = [p \in Procs |-> Blank]
  /\ byte = [p \in Procs |-> None]
  /\ addr = [s \in Procs |-> s]
  /\ seq = [s \in Procs |-> 0]
  /\ got = [p \in Procs |-> None]
  /\ tail = [p \in Procs |-> None]

-----------------------------------------------------------------------------
(* Sending *)

\* A process announces the length and calls ssmp_send_big; a length of 0
\* returns at once.
SendBig(p) ==
  /\ pc[p] = "idle"
  /\ \E r \in Procs, len \in Lengths :
       /\ <<p, r>> \in Pairs
       /\ ~Done(len)
       /\ seq[p] + ChunksIn(len) <= MaxChunks
       /\ header[<<p, r>>] = None
       /\ header' = [header EXCEPT ![<<p, r>>] = len]
       /\ todo' = [todo EXCEPT ![p] = len]
       /\ peer' = [peer EXCEPT ![p] = r]
  /\ pc' = [pc EXCEPT ![p] = "claim"]
  /\ UNCHANGED <<flag, data, copied, msg, byte, addr, seq, got, tail>>

\* A send that waits for the buffer of its addressee.
ClaimChunk_WrongBuffer(p) ==
  /\ pc[p] = "claim"
  /\ flag[peer[p]] = 0
  /\ seq' = [seq EXCEPT ![p] = @ + 1]
  /\ msg' = [msg EXCEPT ![p] = Chunk(p, peer[p], seq[p] + 1)]
  /\ \E b \in Bytes : byte' = [byte EXCEPT ![p] = IF Full(p) THEN b ELSE None]
  /\ pc' = [pc EXCEPT ![p] = "copy"]
  /\ UNCHANGED <<flag, data, header, peer, todo, copied, addr, got, tail>>

\* while (ssmp_chunk_buf[ssmp_id_]->state)
ClaimChunk(p) ==
  /\ pc[p] = "claim"
  /\ flag[p] = 0
  /\ seq' = [seq EXCEPT ![p] = @ + 1]
  /\ msg' = [msg EXCEPT ![p] = Chunk(p, peer[p], seq[p] + 1)]
  /\ \E b \in Bytes : byte' = [byte EXCEPT ![p] = IF Full(p) THEN b ELSE None]
  /\ pc' = [pc EXCEPT ![p] = "copy"]
  /\ UNCHANGED <<flag, data, header, peer, todo, copied, addr, got, tail>>

\* memcpy into the chunk buffer stores one of its cells, in no order it
\* promises.  The last byte of a full chunk is stored over the flag.
StoreBody(p) ==
  /\ pc[p] = "copy"
  /\ \E x \in Body \ copied[p] :
       /\ data' = [data EXCEPT ![p][x] = msg[p][x]]
       /\ copied' = [copied EXCEPT ![p] = @ \cup {x}]
  /\ UNCHANGED <<flag, header, pc, peer, todo, msg, byte, addr, seq, got, tail>>

StoreLast(p) ==
  /\ pc[p] = "copy"
  /\ "last" \in Cells(p) \ copied[p]
  /\ flag' = [flag EXCEPT ![p] = byte[p]]
  /\ copied' = [copied EXCEPT ![p] = @ \cup {"last"}]
  /\ UNCHANGED <<data, header, pc, peer, todo, msg, byte, addr, seq, got, tail>>

\* The call goes on to the next chunk or returns.
NextChunk(p, again) ==
  LET len == Rest(todo[p]) IN
  /\ todo' = [todo EXCEPT ![p] = len]
  /\ pc' = [pc EXCEPT ![p] = IF Done(len) THEN "idle" ELSE again]
  /\ peer' = [peer EXCEPT ![p] = IF Done(len) THEN p ELSE @]
  /\ copied' = [copied EXCEPT ![p] = {}]
  /\ msg' = [msg EXCEPT ![p] = Blank]
  /\ byte' = [byte EXCEPT ![p] = None]

\* A flag set before the chunk is in the buffer.
PublishChunk_TooEarly(p) ==
  /\ pc[p] = "copy"
  /\ flag' = [flag EXCEPT ![p] = 1]
  /\ addr' = [addr EXCEPT ![p] = peer[p]]
  /\ NextChunk(p, "claim")
  /\ UNCHANGED <<data, header, seq, got, tail>>

\* ssmp_chunk_buf[ssmp_id_]->state = 1
PublishChunk(p) ==
  /\ pc[p] = "copy"
  /\ copied[p] = Cells(p)
  /\ flag' = [flag EXCEPT ![p] = 1]
  /\ addr' = [addr EXCEPT ![p] = peer[p]]
  /\ NextChunk(p, "claim")
  /\ UNCHANGED <<data, header, seq, got, tail>>

-----------------------------------------------------------------------------
(* Receiving *)

\* A receive that counts a chunk less than the message has.
RecvBig_OneTooFew(p) ==
  /\ pc[p] = "idle"
  /\ \E s \in Procs :
       /\ <<s, p>> \in Pairs
       /\ header[<<s, p>>] # None
       /\ LET len == Rest(header[<<s, p>>]) IN
            /\ todo' = [todo EXCEPT ![p] = len]
            /\ peer' = [peer EXCEPT ![p] = IF Done(len) THEN @ ELSE s]
            /\ pc' = [pc EXCEPT ![p] = IF Done(len) THEN @ ELSE "await"]
       /\ header' = [header EXCEPT ![<<s, p>>] = None]
  /\ UNCHANGED <<flag, data, copied, msg, byte, addr, seq, got, tail>>

\* A process reads an announced length and calls ssmp_recv_from_big.
RecvBig(p) ==
  /\ pc[p] = "idle"
  /\ \E s \in Procs :
       /\ <<s, p>> \in Pairs
       /\ header[<<s, p>>] # None
       /\ todo' = [todo EXCEPT ![p] = header[<<s, p>>]]
       /\ header' = [header EXCEPT ![<<s, p>>] = None]
       /\ peer' = [peer EXCEPT ![p] = s]
  /\ pc' = [pc EXCEPT ![p] = "await"]
  /\ UNCHANGED <<flag, data, copied, msg, byte, addr, seq, got, tail>>

\* A receive that does not wait.
SeeChunk_NoWait(p) ==
  /\ pc[p] = "await"
  /\ pc' = [pc EXCEPT ![p] = "take"]
  /\ UNCHANGED <<flag, data, header, peer, todo, copied, msg, byte, addr, seq, got, tail>>

\* while (!ssmp_chunk_buf[from]->state)
SeeChunk(p) ==
  /\ pc[p] = "await"
  /\ flag[peer[p]] # 0
  /\ pc' = [pc EXCEPT ![p] = "take"]
  /\ UNCHANGED <<flag, data, header, peer, todo, copied, msg, byte, addr, seq, got, tail>>

LoadBody(p) ==
  /\ pc[p] = "take"
  /\ \E x \in Body \ copied[p] :
       /\ msg' = [msg EXCEPT ![p][x] = data[peer[p]][x]]
       /\ copied' = [copied EXCEPT ![p] = @ \cup {x}]
  /\ UNCHANGED <<flag, data, header, pc, peer, todo, byte, addr, seq, got, tail>>

\* The last byte of a full chunk is read from the flag.
LoadLast(p) ==
  /\ pc[p] = "take"
  /\ "last" \in Cells(p) \ copied[p]
  /\ byte' = [byte EXCEPT ![p] = flag[peer[p]]]
  /\ copied' = [copied EXCEPT ![p] = @ \cup {"last"}]
  /\ UNCHANGED <<flag, data, header, pc, peer, todo, msg, addr, seq, got, tail>>

\* A receive that forgets to give the buffer back.
FreeChunk_Kept(p) ==
  /\ pc[p] = "take"
  /\ copied[p] = Cells(p)
  /\ got' = [got EXCEPT ![p] = [sender |-> peer[p], msg |-> msg[p]]]
  /\ tail' = [tail EXCEPT ![p] = byte[p]]
  /\ NextChunk(p, "await")
  /\ UNCHANGED <<flag, data, header, addr, seq>>

\* ssmp_chunk_buf[from]->state = 0
FreeChunk(p) ==
  /\ pc[p] = "take"
  /\ copied[p] = Cells(p)
  /\ flag' = [flag EXCEPT ![peer[p]] = 0]
  /\ got' = [got EXCEPT ![p] = [sender |-> peer[p], msg |-> msg[p]]]
  /\ tail' = [tail EXCEPT ![p] = byte[p]]
  /\ NextChunk(p, "await")
  /\ UNCHANGED <<data, header, addr, seq>>

-----------------------------------------------------------------------------
Caller(p) == SendBig(p) \/ RecvBig(p)

Library(p) == \/ ClaimChunk(p) \/ StoreBody(p) \/ StoreLast(p) \/ PublishChunk(p)
              \/ SeeChunk(p) \/ LoadBody(p) \/ LoadLast(p) \/ FreeChunk(p)

Next == \E p \in Procs : Caller(p) \/ Library(p)

Spec == Init /\ [][Next]_vars

\* As in Mailbox: a process spins on a core of its own inside the library.
Fairness == \A p \in Procs : WF_vars(Library(p))

FairSpec == Spec /\ Fairness

-----------------------------------------------------------------------------
(* Properties *)

Receiving(c) == pc[c[2]] = "take" /\ peer[c[2]] = c[1]

\* The variables stay in their types.
TypeOK ==
  /\ flag \in [Procs -> 0 .. 255]
  /\ data \in [Procs -> Content]
  /\ header \in [Chan -> Lengths \cup {None}]
  /\ pc \in [Procs -> {"idle", "claim", "copy", "await", "take"}]
  /\ peer \in [Procs -> Procs]
  /\ todo \in [Procs -> [full : Nat, rest : BOOLEAN]]
  /\ copied \in [Procs -> SUBSET (Body \cup {"last"})]
  /\ msg \in [Procs -> Content]
  /\ byte \in [Procs -> 0 .. 255 \cup {None}]
  /\ addr \in [Procs -> Procs]
  /\ seq \in [Procs -> 0 .. MaxChunks]
  /\ got \in [Procs -> [sender : Procs, msg : Content] \cup {None}]
  /\ tail \in [Procs -> 0 .. 255 \cup {None}]

\* A sender never copies into a chunk buffer that a receiver copies from.
ChunkExclusion == \A c \in Chan : ~(pc[c[1]] = "copy" /\ Receiving(c))

\* What a receive returns is a chunk its sender sent, in one piece.
ChunkIntact == \A p \in Procs : got[p] # None => got[p].msg \in ChunksOf[got[p].sender]

\* What of the messages from s to r the sender has still to put in its buffer,
\* what is in the buffer, and what the receiver has still to take out, its
\* announced message included.
ToSend(s, r) == IF pc[s] \in {"claim", "copy"} /\ peer[s] = r THEN ChunksIn(todo[s]) ELSE 0
InBuffer(s, r) == IF addr[s] = r /\ flag[s] # 0 THEN 1 ELSE 0
ToReceive(s, r) ==
  (IF header[<<s, r>>] # None THEN ChunksIn(header[<<s, r>>]) ELSE 0)
  + (IF pc[r] \in {"await", "take"} /\ peer[r] = s THEN ChunksIn(todo[r]) ELSE 0)

\* The two ends count the same chunks: at every moment the receiver is still to
\* take what its sender is still to send and the chunk in the buffer, no more
\* and no less.  So a receive that has returned took every chunk of its
\* message, and one that has not waits for a chunk that comes, although the
\* sender runs ahead by a chunk and by the announcement of its next message.
Agreement ==
  \A s, r \in Procs :
    s # r => ToReceive(s, r) = ToSend(s, r) + InBuffer(s, r)

\* "sent to %d" (the debug output of ssmp_send_big): what a process receives
\* was sent to it.
Addressed ==
  \A p \in Procs : got[p] # None => \A x \in Body : got[p].msg[x][2] = p

\* "send a message of size length" (ssmp.h): the last byte of a full chunk
\* arrives as it was sent.
LastByteArrives == \A p \in Procs : tail[p] # None => tail[p] \in Bytes

\* A chunk is pending from the store of the flag until its receiver gives the
\* buffer back.
Pending(c) == addr[c[1]] = c[2] /\ flag[c[1]] # 0
Abstract == INSTANCE Channel WITH
              MessagesOf <- ChunksOf,
              slot <- [c \in Chan |-> IF Pending(c) THEN data[c[1]] ELSE None]

\* The chunk buffers implement a channel that holds one chunk: no chunk is
\* lost, torn, duplicated, or received by anyone but its addressee.
ImplementsChannel == Abstract!Spec

\* A receive of a big message returns.
ReceiveReturns == \A p \in Procs : (pc[p] = "await") ~> (pc[p] = "idle")
=============================================================================
