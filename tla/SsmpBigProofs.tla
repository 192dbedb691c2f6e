--------------------------- MODULE SsmpBigProofs ---------------------------
(***************************************************************************)
(* Theorems about SsmpBig, for any number of processes, lengths and        *)
(* chunks.  They hold where the runs big_race and big_shared do not apply: *)
(* when every sender has one receiver, and when full chunks, if there are  *)
(* any, end with a byte that is zero.                                      *)
(***************************************************************************)
EXTENDS SsmpBig, TLAPS

Single == \A s, q, r \in Procs : <<s, q>> \in Pairs /\ <<s, r>> \in Pairs => q = r

ZeroLast == \A len \in Lengths : len.full > 0 => Bytes = {0}

-----------------------------------------------------------------------------
(* The invariant *)

Sending(p) == pc[p] \in {"claim", "copy"}

\* r is in a receive from s.
Engaged(s, r) == pc[r] \in {"await", "take"} /\ peer[r] = s

\* What s has still to send of its message.
Left(s) == IF Sending(s) THEN todo[s] ELSE NoLength

\* A call knows a pair of the program, and is not done.
Peers ==
  \A p \in Procs :
    /\ Sending(p) => <<p, peer[p]>> \in Pairs
    /\ pc[p] \in {"await", "take"} => <<peer[p], p>> \in Pairs
    /\ pc[p] # "idle" => ~Done(todo[p])
    /\ todo[p].full > 0 => Bytes = {0}

\* What is announced is a message.
Headers ==
  \A s, r \in Procs :
    s # r /\ header[<<s, r>>] # None => <<s, r>> \in Pairs /\ ~Done(header[<<s, r>>])

\* The flag says who may copy.
Gate ==
  \A p \in Procs :
    /\ pc[p] = "copy" => flag[p] = 0 /\ (Full(p) => byte[p] = 0)
    /\ pc[p] = "take" => flag[peer[p]] # 0
    /\ flag[p] # 0 => <<p, addr[p]>> \in Pairs

\* What was copied is as it was where it came from.
Whole ==
  \A p \in Procs :
    /\ flag[p] # 0 => data[p] \in ChunksOf[p]
    /\ pc[p] = "copy" => /\ msg[p] \in ChunksOf[p]
                         /\ \A x \in copied[p] \cap Body : data[p][x] = msg[p][x]
    /\ pc[p] = "take" => \A x \in copied[p] \cap Body : msg[p][x] = data[peer[p]][x]
    /\ pc[p] \notin {"copy", "take"} => copied[p] = {}

\* A process sends no more chunks than it may.
Count ==
  \A p \in Procs :
    /\ pc[p] = "claim" => seq[p] + ChunksIn(todo[p]) <= MaxChunks
    /\ pc[p] = "copy" => seq[p] + ChunksIn(todo[p]) <= MaxChunks + 1

\* What the sender has left and what the receiver has left differ by the chunk
\* in the buffer.  A sender may have announced its next message while the last
\* chunk of the one before is still received.
Balanced(s, r) ==
  /\ Engaged(s, r) /\ header[<<s, r>>] # None =>
       /\ pc[s] = "claim" /\ todo[s] = header[<<s, r>>]
       /\ flag[s] # 0 /\ Rest(todo[r]) = NoLength
  /\ Engaged(s, r) /\ header[<<s, r>>] = None =>
       Left(s) = IF flag[s] = 0 THEN todo[r] ELSE Rest(todo[r])
  /\ ~Engaged(s, r) /\ header[<<s, r>>] # None =>
       Left(s) = IF flag[s] = 0 THEN header[<<s, r>>] ELSE Rest(header[<<s, r>>])
  /\ ~Engaged(s, r) /\ header[<<s, r>>] = None =>
       Left(s) = NoLength /\ flag[s] = 0

Balance == \A s, r \in Procs : <<s, r>> \in Pairs => Balanced(s, r)

BigInv == TypeOK /\ Peers /\ Headers /\ Gate /\ Whole /\ Count /\ Balance /\ ChunkIntact

-----------------------------------------------------------------------------
(* Lengths *)

Lens == [full : Nat, rest : BOOLEAN]

LEMMA NothingLeft == NoLength \in Lens /\ Done(NoLength) /\ ChunksIn(NoLength) = 0
BY DEF NoLength, Lens, Done, ChunksIn

LEMMA DoneIs ==
  ASSUME NEW len \in Lens
  PROVE  Done(len) <=> len = NoLength
BY DEF Lens, Done, NoLength

\* A chunk less.
LEMMA RestIs ==
  ASSUME NEW len \in Lens, ~Done(len)
  PROVE  /\ Rest(len) \in Lens
         /\ Rest(len).full > 0 => len.full > 0
         /\ ChunksIn(len) \in Nat /\ ChunksIn(len) >= 1
         /\ ChunksIn(Rest(len)) = ChunksIn(len) - 1
<1>1. CASE len.full > 0
  <2>1. Rest(len) = [full |-> len.full - 1, rest |-> len.rest]
    BY <1>1 DEF Rest, Lens
  <2> QED BY <2>1, <1>1 DEF Lens, ChunksIn
<1>2. CASE len.full = 0
  <2>0. len.rest = TRUE BY <1>2 DEF Lens, Done
  <2>1. Rest(len) = [full |-> 0, rest |-> FALSE]
    <3>1. len = [full |-> 0, rest |-> TRUE] BY <1>2, <2>0 DEF Lens
    <3>2. Rest(len) = [len EXCEPT !.rest = FALSE] BY <1>2 DEF Rest
    <3> QED BY <3>1, <3>2
  <2> QED BY <2>0, <2>1, <1>2 DEF Lens, ChunksIn
<1> QED BY <1>1, <1>2 DEF Lens

\* The last chunk leaves nothing.
LEMMA LastRest ==
  ASSUME NEW len \in Lens, ~Done(len), Rest(len) = NoLength
  PROVE  ChunksIn(len) = 1
<1>1. ChunksIn(len) \in Nat /\ 0 = ChunksIn(len) - 1 BY RestIs, NothingLeft
<1> QED BY <1>1

-----------------------------------------------------------------------------
(* The initial state, and the types *)

LEMMA LengthsAre == Lengths \subseteq Lens /\ None \notin Lengths
BY LengthsAssumption, NoneLength DEF Lens

LEMMA BlankType == Blank \in Content
BY DEF Blank, Content

LEMMA ChunkType ==
  ASSUME NEW s \in Procs, NEW r \in Procs, NEW k \in 1 .. MaxChunks
  PROVE  Chunk(s, r, k) \in Content /\ Chunk(s, r, k) \in ChunksOf[s]
BY DEF Chunk, Content, Value, ChunksOf

LEMMA BigInit == Init => BigInv
<1> SUFFICES ASSUME Init PROVE BigInv
  OBVIOUS
<1>0. MaxChunks \in Nat BY MaxChunksAssumption
<1>1. TypeOK
  <2>1. todo \in [Procs -> [full : Nat, rest : BOOLEAN]] BY DEF Init, NoLength
  <2>2. data \in [Procs -> Content] /\ msg \in [Procs -> Content]
    BY BlankType DEF Init
  <2>3. seq \in [Procs -> 0 .. MaxChunks] BY <1>0 DEF Init
  <2> QED BY <2>1, <2>2, <2>3 DEF Init, TypeOK
<1>2. Peers BY DEF Init, Peers, Sending, NoLength
<1>3. Headers BY DEF Init, Headers, Chan
<1>4. Gate BY DEF Init, Gate
<1>5. Whole BY DEF Init, Whole
<1>6. Count BY DEF Init, Count
<1>7. Balance
  <2> SUFFICES ASSUME NEW s \in Procs, NEW r \in Procs, <<s, r>> \in Pairs
               PROVE  /\ ~Engaged(s, r) /\ header[<<s, r>>] = None
                      /\ Left(s) = NoLength /\ flag[s] = 0
    BY DEF Balance, Balanced
  <2> QED BY PairsAssumption DEF Init, Engaged, Left, Sending
<1>8. ChunkIntact BY DEF Init, ChunkIntact
<1> QED BY <1>1, <1>2, <1>3, <1>4, <1>5, <1>6, <1>7, <1>8 DEF BigInv

LEMMA TypeStep ==
  ASSUME BigInv, [Next]_vars
  PROVE  TypeOK'
<1>0. MaxChunks \in Nat BY MaxChunksAssumption
<1>t. /\ flag \in [Procs -> 0 .. 255] /\ data \in [Procs -> Content]
      /\ header \in [Chan -> Lengths \cup {None}]
      /\ pc \in [Procs -> {"idle", "claim", "copy", "await", "take"}]
      /\ peer \in [Procs -> Procs] /\ todo \in [Procs -> Lens]
      /\ copied \in [Procs -> SUBSET (Body \cup {"last"})]
      /\ msg \in [Procs -> Content] /\ byte \in [Procs -> 0 .. 255 \cup {None}]
      /\ addr \in [Procs -> Procs] /\ seq \in [Procs -> 0 .. MaxChunks]
      /\ got \in [Procs -> [sender : Procs, msg : Content] \cup {None}]
      /\ tail \in [Procs -> 0 .. 255 \cup {None}]
  BY DEF BigInv, TypeOK, Lens
<1>n. ASSUME NEW p \in Procs, NEW again \in {"claim", "await"}, pc[p] # "idle",
             NextChunk(p, again)
      PROVE  /\ todo' \in [Procs -> Lens]
             /\ pc' \in [Procs -> {"idle", "claim", "copy", "await", "take"}]
             /\ peer' \in [Procs -> Procs]
             /\ copied' \in [Procs -> SUBSET (Body \cup {"last"})]
             /\ msg' \in [Procs -> Content]
             /\ byte' \in [Procs -> 0 .. 255 \cup {None}]
  <2>1. Rest(todo[p]) \in Lens BY <1>n, <1>t, RestIs DEF BigInv, Peers
  <2> QED BY <1>n, <1>t, <2>1, BlankType DEF NextChunk
<1>1. ASSUME NEW p \in Procs, SendBig(p) PROVE TypeOK'
  <2>1. PICK r \in Procs, len \in Lengths :
           /\ header' = [header EXCEPT ![<<p, r>>] = len]
           /\ todo' = [todo EXCEPT ![p] = len]
           /\ peer' = [peer EXCEPT ![p] = r]
    BY <1>1 DEF SendBig
  <2>2. header' \in [Chan -> Lengths \cup {None}] /\ todo' \in [Procs -> Lens]
        /\ peer' \in [Procs -> Procs]
    BY <2>1, <1>t, LengthsAre
  <2> QED BY <1>1, <1>t, <2>2 DEF SendBig, TypeOK, Lens
<1>2. ASSUME NEW p \in Procs, RecvBig(p) PROVE TypeOK'
  <2>1. PICK s \in Procs :
           /\ <<s, p>> \in Pairs
           /\ header[<<s, p>>] # None
           /\ todo' = [todo EXCEPT ![p] = header[<<s, p>>]]
           /\ header' = [header EXCEPT ![<<s, p>>] = None]
           /\ peer' = [peer EXCEPT ![p] = s]
    BY <1>2 DEF RecvBig
  <2>0. <<s, p>> \in Chan BY <2>1, PairsAssumption
  <2>2. header[<<s, p>>] \in Lens BY <2>0, <2>1, <1>t, LengthsAre
  <2>3. header' \in [Chan -> Lengths \cup {None}] /\ todo' \in [Procs -> Lens]
        /\ peer' \in [Procs -> Procs]
    BY <2>1, <2>2, <1>t
  <2> QED BY <1>2, <1>t, <2>3 DEF RecvBig, TypeOK, Lens
<1>3. ASSUME NEW p \in Procs, ClaimChunk(p) PROVE TypeOK'
  <2>1. seq[p] + 1 \in 1 .. MaxChunks
    <3>1. todo[p] \in Lens /\ ~Done(todo[p]) /\ seq[p] + ChunksIn(todo[p]) <= MaxChunks
      BY <1>3, <1>t DEF ClaimChunk, BigInv, Peers, Count
    <3>2. ChunksIn(todo[p]) \in Nat /\ ChunksIn(todo[p]) >= 1 BY <3>1, RestIs
    <3> QED BY <3>1, <3>2, <1>t, <1>0
  <2>2. Chunk(p, peer[p], seq[p] + 1) \in Content BY <2>1, <1>t, ChunkType
  <2>3. msg' \in [Procs -> Content] BY <1>3, <2>2, <1>t DEF ClaimChunk
  <2>4. seq' \in [Procs -> 0 .. MaxChunks] BY <1>3, <2>1, <1>t, <1>0 DEF ClaimChunk
  <2>5. byte' \in [Procs -> 0 .. 255 \cup {None}]
    BY <1>3, <1>t, BytesAssumption DEF ClaimChunk
  <2>6. pc' \in [Procs -> {"idle", "claim", "copy", "await", "take"}]
    BY <1>3, <1>t DEF ClaimChunk
  <2> QED BY <1>3, <1>t, <2>3, <2>4, <2>5, <2>6 DEF ClaimChunk, TypeOK, Lens
<1>4. ASSUME NEW p \in Procs, StoreBody(p) PROVE TypeOK'
  <2>1. PICK x \in Body \ copied[p] : /\ data' = [data EXCEPT ![p][x] = msg[p][x]]
                                      /\ copied' = [copied EXCEPT ![p] = @ \cup {x}]
    BY <1>4 DEF StoreBody
  <2>2. data[p] \in Content /\ msg[p][x] \in Value \cup {None} BY <1>t DEF Content
  <2>3. [data[p] EXCEPT ![x] = msg[p][x]] \in Content BY <2>2 DEF Content
  <2>4. data' \in [Procs -> Content] BY <2>1, <2>3, <1>t
  <2>5. copied' \in [Procs -> SUBSET (Body \cup {"last"})] BY <2>1, <1>t
  <2> QED BY <1>4, <1>t, <2>4, <2>5 DEF StoreBody, TypeOK, Lens
<1>5. ASSUME NEW p \in Procs, StoreLast(p) PROVE TypeOK'
  <2>1. Full(p) BY <1>5, BodyAssumption DEF StoreLast, Cells
  <2>2. byte[p] = 0 BY <1>5, <2>1 DEF StoreLast, BigInv, Gate
  <2>3. flag' \in [Procs -> 0 .. 255] BY <1>5, <2>2, <1>t DEF StoreLast
  <2>4. copied' \in [Procs -> SUBSET (Body \cup {"last"})] BY <1>5, <1>t DEF StoreLast
  <2> QED BY <1>5, <1>t, <2>3, <2>4 DEF StoreLast, TypeOK, Lens
<1>6. ASSUME NEW p \in Procs, PublishChunk(p) PROVE TypeOK'
  <2>1. pc[p] # "idle" /\ NextChunk(p, "claim") BY <1>6 DEF PublishChunk
  <2>2. flag' \in [Procs -> 0 .. 255] /\ addr' \in [Procs -> Procs]
    BY <1>6, <1>t DEF PublishChunk
  <2> QED BY <1>6, <1>t, <1>n, <2>1, <2>2 DEF PublishChunk, TypeOK, Lens
<1>7. ASSUME NEW p \in Procs, SeeChunk(p) PROVE TypeOK'
  BY <1>7, <1>t DEF SeeChunk, TypeOK, Lens
<1>8. ASSUME NEW p \in Procs, LoadBody(p) PROVE TypeOK'
  <2>1. PICK x \in Body \ copied[p] :
           /\ msg' = [msg EXCEPT ![p][x] = data[peer[p]][x]]
           /\ copied' = [copied EXCEPT ![p] = @ \cup {x}]
    BY <1>8 DEF LoadBody
  <2>2. msg[p] \in Content /\ data[peer[p]][x] \in Value \cup {None} BY <1>t DEF Content
  <2>3. [msg[p] EXCEPT ![x] = data[peer[p]][x]] \in Content BY <2>2 DEF Content
  <2>4. msg' \in [Procs -> Content] BY <2>1, <2>3, <1>t
  <2>5. copied' \in [Procs -> SUBSET (Body \cup {"last"})] BY <2>1, <1>t
  <2> QED BY <1>8, <1>t, <2>4, <2>5 DEF LoadBody, TypeOK, Lens
<1>9. ASSUME NEW p \in Procs, LoadLast(p) PROVE TypeOK'
  <2>1. byte' \in [Procs -> 0 .. 255 \cup {None}] BY <1>9, <1>t DEF LoadLast
  <2>2. copied' \in [Procs -> SUBSET (Body \cup {"last"})] BY <1>9, <1>t DEF LoadLast
  <2> QED BY <1>9, <1>t, <2>1, <2>2 DEF LoadLast, TypeOK, Lens
<1>10. ASSUME NEW p \in Procs, FreeChunk(p) PROVE TypeOK'
  <2>1. pc[p] # "idle" /\ NextChunk(p, "await") BY <1>10 DEF FreeChunk
  <2>2. flag' \in [Procs -> 0 .. 255] BY <1>10, <1>t DEF FreeChunk
  <2>3. got' \in [Procs -> [sender : Procs, msg : Content] \cup {None}]
    BY <1>10, <1>t DEF FreeChunk
  <2>4. tail' \in [Procs -> 0 .. 255 \cup {None}] BY <1>10, <1>t DEF FreeChunk
  <2> QED BY <1>10, <1>t, <1>n, <2>1, <2>2, <2>3, <2>4 DEF FreeChunk, TypeOK, Lens
<1>11. CASE UNCHANGED vars BY <1>11, <1>t DEF vars, TypeOK, Lens
<1> QED BY <1>1, <1>2, <1>3, <1>4, <1>5, <1>6, <1>7, <1>8, <1>9, <1>10, <1>11
        DEF Next, Caller, Library

-----------------------------------------------------------------------------
(* Who copies, and what *)

\* The types, for the lemmas below.
LEMMA Types ==
  ASSUME TypeOK
  PROVE  /\ flag \in [Procs -> 0 .. 255] /\ data \in [Procs -> Content]
         /\ header \in [Chan -> Lengths \cup {None}]
         /\ pc \in [Procs -> {"idle", "claim", "copy", "await", "take"}]
         /\ peer \in [Procs -> Procs] /\ todo \in [Procs -> Lens]
         /\ copied \in [Procs -> SUBSET (Body \cup {"last"})]
         /\ msg \in [Procs -> Content] /\ byte \in [Procs -> 0 .. 255 \cup {None}]
         /\ addr \in [Procs -> Procs] /\ seq \in [Procs -> 0 .. MaxChunks]
         /\ got \in [Procs -> [sender : Procs, msg : Content] \cup {None}]
BY DEF TypeOK, Lens

\* The end of a chunk: the call goes on or returns.
LEMMA NextChunkIs ==
  ASSUME TypeOK, Peers, NEW p \in Procs, NEW again \in {"claim", "await"},
         pc[p] # "idle", NextChunk(p, again)
  PROVE  /\ todo[p] \in Lens /\ ~Done(todo[p])
         /\ Rest(todo[p]) \in Lens /\ todo'[p] = Rest(todo[p])
         /\ copied'[p] = {}
         /\ \/ /\ Rest(todo[p]) = NoLength /\ pc'[p] = "idle" /\ peer'[p] = p
            \/ /\ ~Done(todo'[p]) /\ pc'[p] = again /\ peer'[p] = peer[p]
         /\ \A q \in Procs : q # p =>
              /\ todo'[q] = todo[q] /\ pc'[q] = pc[q] /\ peer'[q] = peer[q]
              /\ copied'[q] = copied[q] /\ msg'[q] = msg[q] /\ byte'[q] = byte[q]
<1>1. todo[p] \in Lens /\ ~Done(todo[p]) BY Types DEF Peers
<1>2. Rest(todo[p]) \in Lens BY <1>1, RestIs
<1>3. todo'[p] = Rest(todo[p]) BY Types DEF NextChunk
<1>4. CASE Done(Rest(todo[p]))
  <2>1. Rest(todo[p]) = NoLength BY <1>2, <1>4, DoneIs
  <2>2. pc'[p] = "idle" /\ peer'[p] = p BY <1>4, Types DEF NextChunk
  <2> QED BY <1>1, <1>2, <1>3, <2>1, <2>2, Types DEF NextChunk
<1>5. CASE ~Done(Rest(todo[p]))
  <2>1. pc'[p] = again /\ peer'[p] = peer[p] BY <1>5, Types DEF NextChunk
  <2> QED BY <1>1, <1>2, <1>3, <1>5, <2>1, Types DEF NextChunk
<1> QED BY <1>4, <1>5

\* The steps of a call that leave alone which call it is, and what is left of it.
LEMMA Within ==
  ASSUME NEW p \in Procs, TypeOK,
         \/ ClaimChunk(p) \/ StoreBody(p) \/ StoreLast(p)
         \/ SeeChunk(p) \/ LoadBody(p) \/ LoadLast(p)
  PROVE  /\ UNCHANGED <<header, peer, todo, addr, got>>
         /\ \A q \in Procs : /\ pc'[q] \in {"claim", "copy"} <=> pc[q] \in {"claim", "copy"}
                             /\ pc'[q] \in {"await", "take"} <=> pc[q] \in {"await", "take"}
                             /\ pc'[q] = "idle" <=> pc[q] = "idle"
                             /\ q # p => pc'[q] = pc[q]
<1>1. UNCHANGED <<header, peer, todo, addr, got>>
  BY DEF ClaimChunk, StoreBody, StoreLast, SeeChunk, LoadBody, LoadLast
<1>2. CASE StoreBody(p) \/ StoreLast(p) \/ LoadBody(p) \/ LoadLast(p)
  <2>1. pc' = pc BY <1>2 DEF StoreBody, StoreLast, LoadBody, LoadLast
  <2> QED BY <1>1, <2>1
<1>3. CASE ClaimChunk(p)
  <2>1. pc[p] = "claim" /\ pc' = [pc EXCEPT ![p] = "copy"] BY <1>3 DEF ClaimChunk
  <2>2. pc'[p] = "copy" /\ \A q \in Procs : q # p => pc'[q] = pc[q] BY <2>1, Types
  <2> QED BY <1>1, <2>1, <2>2
<1>4. CASE SeeChunk(p)
  <2>1. pc[p] = "await" /\ pc' = [pc EXCEPT ![p] = "take"] BY <1>4 DEF SeeChunk
  <2>2. pc'[p] = "take" /\ \A q \in Procs : q # p => pc'[q] = pc[q] BY <2>1, Types
  <2> QED BY <1>1, <2>1, <2>2
<1> QED BY <1>2, <1>3, <1>4

LEMMA PeersStep ==
  ASSUME BigInv, [Next]_vars, ZeroLast
  PROVE  Peers'
<1>t. TypeOK /\ Peers /\ Headers BY DEF BigInv
<1>1. ASSUME NEW p \in Procs, SendBig(p) PROVE Peers'
  <2>1. PICK r \in Procs, len \in Lengths :
           /\ <<p, r>> \in Pairs /\ ~Done(len)
           /\ todo' = [todo EXCEPT ![p] = len]
           /\ peer' = [peer EXCEPT ![p] = r]
    BY <1>1 DEF SendBig
  <2>2. pc' = [pc EXCEPT ![p] = "claim"] BY <1>1 DEF SendBig
  <2>3. len.full > 0 => Bytes = {0} BY DEF ZeroLast
  <2>4. /\ todo'[p] = len /\ peer'[p] = r /\ pc'[p] = "claim"
        /\ \A q \in Procs : q # p => todo'[q] = todo[q] /\ peer'[q] = peer[q] /\ pc'[q] = pc[q]
    BY <2>1, <2>2, <1>t, Types
  <2> QED BY <2>1, <2>3, <2>4, <1>t DEF Peers, Sending
<1>2. ASSUME NEW p \in Procs, RecvBig(p) PROVE Peers'
  <2>1. PICK s \in Procs :
           /\ <<s, p>> \in Pairs
           /\ header[<<s, p>>] # None
           /\ todo' = [todo EXCEPT ![p] = header[<<s, p>>]]
           /\ peer' = [peer EXCEPT ![p] = s]
    BY <1>2 DEF RecvBig
  <2>2. pc' = [pc EXCEPT ![p] = "await"] BY <1>2 DEF RecvBig
  <2>3. <<s, p>> \in Chan /\ s # p BY <2>1, PairsAssumption DEF Chan
  <2>4. header[<<s, p>>] \in Lengths /\ ~Done(header[<<s, p>>])
    BY <2>1, <2>3, <1>t, Types DEF Headers
  <2>5. header[<<s, p>>].full > 0 => Bytes = {0} BY <2>4 DEF ZeroLast
  <2>6. /\ todo'[p] = header[<<s, p>>] /\ peer'[p] = s /\ pc'[p] = "await"
        /\ \A q \in Procs : q # p => todo'[q] = todo[q] /\ peer'[q] = peer[q] /\ pc'[q] = pc[q]
    BY <2>1, <2>2, <1>t, Types
  <2> QED BY <2>1, <2>4, <2>5, <2>6, <1>t DEF Peers, Sending
<1>3. ASSUME NEW p \in Procs,
             \/ ClaimChunk(p) \/ StoreBody(p) \/ StoreLast(p)
             \/ SeeChunk(p) \/ LoadBody(p) \/ LoadLast(p)
      PROVE  Peers'
  <2>1. peer' = peer /\ todo' = todo BY <1>3, <1>t, Within
  <2>2. \A q \in Procs : /\ pc'[q] \in {"claim", "copy"} <=> pc[q] \in {"claim", "copy"}
                         /\ pc'[q] \in {"await", "take"} <=> pc[q] \in {"await", "take"}
                         /\ pc'[q] = "idle" <=> pc[q] = "idle"
    BY <1>3, <1>t, Within
  <2> QED BY <2>1, <2>2, <1>t DEF Peers, Sending
<1>4. ASSUME NEW p \in Procs,
             NEW again \in {"claim", "await"},
             NextChunk(p, again),
             (again = "claim") <=> (pc[p] = "copy"),
             (again = "await") <=> (pc[p] = "take")
      PROVE  Peers'
  <2>1. Rest(todo[p]).full > 0 => Bytes = {0}
    BY <1>4, <1>t, NextChunkIs, RestIs DEF Peers
  <2>2. \A q \in Procs : q # p =>
          todo'[q] = todo[q] /\ pc'[q] = pc[q] /\ peer'[q] = peer[q]
    BY <1>4, <1>t, NextChunkIs
  <2>3. /\ todo'[p] = Rest(todo[p])
        /\ \/ pc'[p] = "idle" /\ peer'[p] = p
           \/ ~Done(todo'[p]) /\ pc'[p] = again /\ peer'[p] = peer[p]
    BY <1>4, <1>t, NextChunkIs
  <2> QED BY <2>1, <2>2, <2>3, <1>4, <1>t DEF Peers, Sending
<1>5. CASE UNCHANGED vars BY <1>5, <1>t DEF vars, Peers, Sending
<1>6. ASSUME NEW p \in Procs, PublishChunk(p) PROVE Peers'
  <2>1. pc[p] = "copy" /\ NextChunk(p, "claim") BY <1>6 DEF PublishChunk
  <2> QED BY <2>1, <1>4
<1>7. ASSUME NEW p \in Procs, FreeChunk(p) PROVE Peers'
  <2>1. pc[p] = "take" /\ NextChunk(p, "await") BY <1>7 DEF FreeChunk
  <2> QED BY <2>1, <1>4
<1> QED BY <1>1, <1>2, <1>3, <1>5, <1>6, <1>7 DEF Next, Caller, Library

LEMMA HeadersStep ==
  ASSUME BigInv, [Next]_vars
  PROVE  Headers'
<1>t. TypeOK /\ Headers BY DEF BigInv
<1>c. \A s, r \in Procs : s # r => <<s, r>> \in Chan BY DEF Chan
<1>1. ASSUME NEW p \in Procs, SendBig(p) PROVE Headers'
  <2>1. PICK r \in Procs, len \in Lengths :
           /\ <<p, r>> \in Pairs /\ ~Done(len)
           /\ header' = [header EXCEPT ![<<p, r>>] = len]
    BY <1>1 DEF SendBig
  <2> QED BY <2>1, <1>t, <1>c, Types DEF Headers
<1>2. ASSUME NEW p \in Procs, RecvBig(p) PROVE Headers'
  <2>1. PICK s \in Procs : header' = [header EXCEPT ![<<s, p>>] = None]
    BY <1>2 DEF RecvBig
  <2> QED BY <2>1, <1>t, <1>c, Types DEF Headers
<1>3. ASSUME NEW p \in Procs, Library(p) PROVE UNCHANGED header
  BY <1>3 DEF Library, ClaimChunk, StoreBody, StoreLast, PublishChunk,
              SeeChunk, LoadBody, LoadLast, FreeChunk
<1>4. CASE UNCHANGED header BY <1>4, <1>t DEF Headers
<1> QED BY <1>1, <1>2, <1>3, <1>4 DEF Next, Caller, vars

\* The last byte of a full chunk is zero, so that its copy leaves the flag alone.
LEMMA StoreLastIs ==
  ASSUME TypeOK, Gate, NEW p \in Procs, StoreLast(p)
  PROVE  UNCHANGED <<flag, data, header, pc, peer, todo, msg, byte, addr, seq, got, tail>>
<1>1. Full(p) BY BodyAssumption DEF StoreLast, Cells
<1>2. flag[p] = 0 /\ byte[p] = 0 BY <1>1 DEF StoreLast, Gate
<1>3. flag' = flag BY <1>2, Types DEF StoreLast
<1> QED BY <1>3 DEF StoreLast

LEMMA GateStep ==
  ASSUME BigInv, [Next]_vars, Single
  PROVE  Gate'
<1>t. TypeOK /\ Peers /\ Gate BY DEF BigInv
<1>1. ASSUME NEW p \in Procs, Caller(p) PROVE Gate'
  <2>1. /\ UNCHANGED <<flag, byte, addr>>
        /\ pc'[p] \in {"claim", "await"}
        /\ \A q \in Procs : q # p =>
             pc'[q] = pc[q] /\ peer'[q] = peer[q] /\ todo'[q] = todo[q]
    BY <1>1, <1>t, Types DEF Caller, SendBig, RecvBig
  <2> QED BY <2>1, <1>t DEF Gate, Full
<1>2. ASSUME NEW p \in Procs, ClaimChunk(p) PROVE Gate'
  <2>1. PICK b \in Bytes : byte' = [byte EXCEPT ![p] = IF Full(p) THEN b ELSE None]
    BY <1>2 DEF ClaimChunk
  <2>2. Full(p) => byte'[p] = 0 BY <2>1, <1>t, Types DEF Peers, Full
  <2>3. /\ UNCHANGED <<flag, addr, peer, todo>>
        /\ pc'[p] = "copy" /\ flag[p] = 0
        /\ \A q \in Procs : q # p => pc'[q] = pc[q] /\ byte'[q] = byte[q]
    BY <1>2, <2>1, <1>t, Types DEF ClaimChunk
  <2> QED BY <2>2, <2>3, <1>t DEF Gate, Full
<1>3. ASSUME NEW p \in Procs, StoreBody(p) \/ StoreLast(p) PROVE Gate'
  <2>1. UNCHANGED <<flag, pc, peer, todo, byte, addr>>
    BY <1>3, <1>t, StoreLastIs DEF StoreBody
  <2> QED BY <2>1, <1>t DEF Gate, Full
<1>4. ASSUME NEW p \in Procs, PublishChunk(p) PROVE Gate'
  <2>1. pc[p] = "copy" /\ NextChunk(p, "claim") BY <1>4 DEF PublishChunk
  <2>2. <<p, peer[p]>> \in Pairs BY <2>1, <1>t DEF Peers, Sending
  <2>3. /\ flag'[p] = 1 /\ addr'[p] = peer[p]
        /\ \A q \in Procs : q # p => flag'[q] = flag[q] /\ addr'[q] = addr[q]
    BY <1>4, <1>t, Types DEF PublishChunk
  <2>4. pc'[p] \in {"idle", "claim"} BY <2>1, <1>t, NextChunkIs
  <2>5. \A q \in Procs : q # p =>
          pc'[q] = pc[q] /\ peer'[q] = peer[q] /\ todo'[q] = todo[q] /\ byte'[q] = byte[q]
    BY <2>1, <1>t, NextChunkIs
  <2>6. ASSUME NEW q \in Procs, pc'[q] = "take" PROVE flag'[peer'[q]] # 0
    <3>1. q # p /\ pc[q] = "take" /\ peer'[q] = peer[q] BY <2>6, <2>4, <2>5
    <3>2. peer[q] \in Procs /\ flag[peer[q]] # 0 BY <3>1, <1>t, Types DEF Gate
    <3> QED BY <3>1, <3>2, <2>3
  <2>7. ASSUME NEW q \in Procs, pc'[q] = "copy"
        PROVE  flag'[q] = 0 /\ (Full(q)' => byte'[q] = 0)
    <3>1. q # p /\ pc[q] = "copy" BY <2>7, <2>4, <2>5
    <3> QED BY <3>1, <2>3, <2>5, <1>t DEF Gate, Full
  <2>8. ASSUME NEW q \in Procs, flag'[q] # 0 PROVE <<q, addr'[q]>> \in Pairs
    BY <2>8, <2>2, <2>3, <1>t DEF Gate
  <2> QED BY <2>6, <2>7, <2>8 DEF Gate
<1>5. ASSUME NEW p \in Procs, SeeChunk(p) PROVE Gate'
  <2>1. /\ UNCHANGED <<flag, peer, todo, byte, addr>>
        /\ pc'[p] = "take" /\ flag[peer[p]] # 0
        /\ \A q \in Procs : q # p => pc'[q] = pc[q]
    BY <1>5, <1>t, Types DEF SeeChunk
  <2> QED BY <2>1, <1>t DEF Gate, Full
<1>6. ASSUME NEW p \in Procs, LoadBody(p) \/ LoadLast(p) PROVE Gate'
  <2>1. /\ UNCHANGED <<flag, pc, peer, todo, addr>> /\ pc[p] = "take"
        /\ \A q \in Procs : q # p => byte'[q] = byte[q]
    BY <1>6, <1>t, Types DEF LoadBody, LoadLast
  <2> QED BY <2>1, <1>t DEF Gate, Full
<1>7. ASSUME NEW p \in Procs, FreeChunk(p) PROVE Gate'
  <2>1. pc[p] = "take" /\ NextChunk(p, "await") BY <1>7 DEF FreeChunk
  <2>2. peer[p] \in Procs /\ <<peer[p], p>> \in Pairs BY <2>1, <1>t, Types DEF Peers
  <2>3. /\ addr' = addr /\ flag'[peer[p]] = 0
        /\ \A q \in Procs : q # peer[p] => flag'[q] = flag[q]
    BY <1>7, <1>t, Types DEF FreeChunk
  <2>4. pc'[p] \in {"idle", "await"} BY <2>1, <1>t, NextChunkIs
  <2>5. \A q \in Procs : q # p =>
          pc'[q] = pc[q] /\ peer'[q] = peer[q] /\ todo'[q] = todo[q] /\ byte'[q] = byte[q]
    BY <2>1, <1>t, NextChunkIs
  <2>6. ASSUME NEW q \in Procs, pc'[q] = "take" PROVE flag'[peer'[q]] # 0
    <3>1. q # p /\ pc[q] = "take" /\ peer'[q] = peer[q] BY <2>6, <2>4, <2>5
    <3>2. peer[q] \in Procs /\ flag[peer[q]] # 0 /\ <<peer[q], q>> \in Pairs
      BY <3>1, <1>t, Types DEF Gate, Peers
    <3>3. peer[q] # peer[p] BY <3>1, <3>2, <2>2 DEF Single
    <3> QED BY <3>1, <3>2, <3>3, <2>3
  <2>7. ASSUME NEW q \in Procs, pc'[q] = "copy"
        PROVE  flag'[q] = 0 /\ (Full(q)' => byte'[q] = 0)
    <3>1. q # p /\ pc[q] = "copy" BY <2>7, <2>4, <2>5
    <3> QED BY <3>1, <2>3, <2>5, <1>t DEF Gate, Full
  <2>8. ASSUME NEW q \in Procs, flag'[q] # 0 PROVE <<q, addr'[q]>> \in Pairs
    BY <2>8, <2>3, <1>t DEF Gate
  <2> QED BY <2>6, <2>7, <2>8 DEF Gate
<1>8. CASE UNCHANGED vars BY <1>8, <1>t DEF vars, Gate, Full
<1> QED BY <1>1, <1>2, <1>3, <1>4, <1>5, <1>6, <1>7, <1>8 DEF Next, Library

\* A process that waits for its chunk buffer may send one more chunk.
LEMMA Room ==
  ASSUME TypeOK, Peers, Count, NEW p \in Procs, pc[p] = "claim"
  PROVE  seq[p] + 1 \in 1 .. MaxChunks
<1>0. MaxChunks \in Nat BY MaxChunksAssumption
<1>1. todo[p] \in Lens /\ ~Done(todo[p]) /\ seq[p] + ChunksIn(todo[p]) <= MaxChunks
      /\ seq[p] \in 0 .. MaxChunks
  BY Types DEF Peers, Count
<1>2. ChunksIn(todo[p]) \in Nat /\ ChunksIn(todo[p]) >= 1 BY <1>1, RestIs
<1> QED BY <1>0, <1>1, <1>2

LEMMA CountStep ==
  ASSUME BigInv, [Next]_vars
  PROVE  Count'
<1>0. MaxChunks \in Nat BY MaxChunksAssumption
<1>t. TypeOK /\ Peers /\ Count BY DEF BigInv
<1>1. ASSUME NEW p \in Procs, SendBig(p) PROVE Count'
  <2>1. PICK len \in Lengths : /\ seq[p] + ChunksIn(len) <= MaxChunks
                               /\ todo' = [todo EXCEPT ![p] = len]
    BY <1>1 DEF SendBig
  <2>2. /\ UNCHANGED seq /\ pc'[p] = "claim" /\ todo'[p] = len
        /\ \A q \in Procs : q # p => pc'[q] = pc[q] /\ todo'[q] = todo[q]
    BY <1>1, <2>1, <1>t, Types DEF SendBig
  <2> QED BY <2>1, <2>2, <1>t DEF Count
<1>2. ASSUME NEW p \in Procs, RecvBig(p) PROVE Count'
  <2>1. /\ UNCHANGED seq /\ pc'[p] = "await"
        /\ \A q \in Procs : q # p => pc'[q] = pc[q] /\ todo'[q] = todo[q]
    BY <1>2, <1>t, Types DEF RecvBig
  <2> QED BY <2>1, <1>t DEF Count
<1>3. ASSUME NEW p \in Procs, ClaimChunk(p) PROVE Count'
  <2>1. /\ UNCHANGED todo /\ pc[p] = "claim" /\ pc'[p] = "copy" /\ seq'[p] = seq[p] + 1
        /\ \A q \in Procs : q # p => pc'[q] = pc[q] /\ seq'[q] = seq[q]
    BY <1>3, <1>t, Types DEF ClaimChunk
  <2>2. todo[p] \in Lens /\ ~Done(todo[p]) /\ seq[p] \in 0 .. MaxChunks
    BY <2>1, <1>t, Types DEF Peers
  <2>3. ChunksIn(todo[p]) \in Nat BY <2>2, RestIs
  <2>4. seq'[p] + ChunksIn(todo'[p]) <= MaxChunks + 1
    BY <2>1, <2>2, <2>3, <1>t, <1>0 DEF Count
  <2> QED BY <2>1, <2>4, <1>t DEF Count
<1>4. ASSUME NEW p \in Procs, PublishChunk(p) PROVE Count'
  <2>1. pc[p] = "copy" /\ NextChunk(p, "claim") /\ seq' = seq BY <1>4 DEF PublishChunk
  <2>2. pc'[p] # "copy" /\ todo'[p] = Rest(todo[p]) BY <2>1, <1>t, NextChunkIs
  <2>3. \A q \in Procs : q # p => pc'[q] = pc[q] /\ todo'[q] = todo[q]
    BY <2>1, <1>t, NextChunkIs
  <2>4. todo[p] \in Lens /\ ~Done(todo[p]) /\ seq[p] \in 0 .. MaxChunks
    BY <2>1, <1>t, Types DEF Peers
  <2>5. ChunksIn(todo[p]) \in Nat /\ ChunksIn(Rest(todo[p])) = ChunksIn(todo[p]) - 1
    BY <2>4, RestIs
  <2>6. seq'[p] + ChunksIn(todo'[p]) <= MaxChunks
    BY <2>1, <2>2, <2>4, <2>5, <1>t, <1>0 DEF Count
  <2> QED BY <2>2, <2>3, <2>6, <2>1, <1>t DEF Count
<1>5. ASSUME NEW p \in Procs, FreeChunk(p) PROVE Count'
  <2>1. pc[p] = "take" /\ NextChunk(p, "await") /\ seq' = seq BY <1>5 DEF FreeChunk
  <2>2. pc'[p] \in {"idle", "await"} BY <2>1, <1>t, NextChunkIs
  <2>3. \A q \in Procs : q # p => pc'[q] = pc[q] /\ todo'[q] = todo[q]
    BY <2>1, <1>t, NextChunkIs
  <2> QED BY <2>1, <2>2, <2>3, <1>t DEF Count
<1>6. ASSUME NEW p \in Procs, SeeChunk(p) PROVE Count'
  BY <1>6, <1>t, Types DEF SeeChunk, Count
<1>7. ASSUME NEW p \in Procs, StoreBody(p) \/ StoreLast(p) \/ LoadBody(p) \/ LoadLast(p)
      PROVE  UNCHANGED <<pc, todo, seq>>
  BY <1>7 DEF StoreBody, StoreLast, LoadBody, LoadLast
<1>8. CASE UNCHANGED <<pc, todo, seq>> BY <1>8, <1>t DEF Count
<1> QED BY <1>1, <1>2, <1>3, <1>4, <1>5, <1>6, <1>7, <1>8 DEF Next, Caller, Library, vars

\* A call that has copied a whole chunk.
LEMMA CopiedBody ==
  ASSUME NEW p \in Procs, copied[p] = Cells(p)
  PROVE  copied[p] \cap Body = Body
BY DEF Cells

LEMMA SameCells ==
  ASSUME NEW f \in Content, NEW g \in Content, \A x \in Body : f[x] = g[x]
  PROVE  f = g
BY DEF Content

LEMMA WholeStep ==
  ASSUME BigInv, [Next]_vars, Single
  PROVE  Whole'
<1>t. TypeOK /\ Peers /\ Gate /\ Count BY DEF BigInv
<1>w. \A q \in Procs :
        /\ flag[q] # 0 => data[q] \in ChunksOf[q]
        /\ pc[q] = "copy" => msg[q] \in ChunksOf[q]
        /\ pc[q] = "copy" => \A x \in copied[q] \cap Body : data[q][x] = msg[q][x]
        /\ pc[q] = "take" => \A x \in copied[q] \cap Body : msg[q][x] = data[peer[q]][x]
        /\ pc[q] \notin {"copy", "take"} => copied[q] = {}
  BY DEF BigInv, Whole
<1>1. ASSUME NEW p \in Procs, Caller(p) PROVE Whole'
  <2>1. /\ UNCHANGED <<flag, data, msg, copied>>
        /\ pc[p] = "idle" /\ pc'[p] \in {"claim", "await"}
        /\ \A q \in Procs : q # p => pc'[q] = pc[q] /\ peer'[q] = peer[q]
    BY <1>1, <1>t, Types DEF Caller, SendBig, RecvBig
  <2> QED BY <2>1, <1>w DEF Whole
<1>2. ASSUME NEW p \in Procs, ClaimChunk(p) PROVE Whole'
  <2>1. /\ UNCHANGED <<flag, data, peer, copied>> /\ pc[p] = "claim" /\ pc'[p] = "copy"
        /\ msg'[p] = Chunk(p, peer[p], seq[p] + 1)
        /\ \A q \in Procs : q # p => pc'[q] = pc[q] /\ msg'[q] = msg[q]
    BY <1>2, <1>t, Types DEF ClaimChunk
  <2>2. msg'[p] \in ChunksOf[p] BY <2>1, <1>t, Room, ChunkType, Types
  <2>3. copied'[p] = {} BY <2>1, <1>w
  <2> QED BY <2>1, <2>2, <2>3, <1>w DEF Whole
<1>3. ASSUME NEW p \in Procs, StoreBody(p) PROVE Whole'
  <2>1. PICK x \in Body \ copied[p] : /\ data' = [data EXCEPT ![p][x] = msg[p][x]]
                                      /\ copied' = [copied EXCEPT ![p] = @ \cup {x}]
    BY <1>3 DEF StoreBody
  <2>2. UNCHANGED <<flag, pc, peer, msg>> /\ pc[p] = "copy" BY <1>3 DEF StoreBody
  <2>3. flag[p] = 0 BY <2>2, <1>t DEF Gate
  <2>4. /\ copied'[p] = copied[p] \cup {x}
        /\ \A q \in Procs : q # p => data'[q] = data[q] /\ copied'[q] = copied[q]
    BY <2>1, <1>t, Types
  <2>5. \A y \in Body : data'[p][y] = IF y = x THEN msg[p][x] ELSE data[p][y]
    BY <2>1, <1>t, Types DEF Content
  <2>6. \A y \in copied'[p] \cap Body : data'[p][y] = msg[p][y]
    BY <2>2, <2>4, <2>5, <1>w
  <2>7. ASSUME NEW q \in Procs, pc[q] = "take"
        PROVE  q # p /\ peer[q] \in Procs /\ peer[q] # p
    BY <2>7, <2>2, <2>3, <1>t, Types DEF Gate
  <2> QED BY <2>2, <2>3, <2>4, <2>6, <2>7, <1>w DEF Whole
<1>4. ASSUME NEW p \in Procs, StoreLast(p) PROVE Whole'
  <2>1. UNCHANGED <<flag, data, pc, peer, msg>> BY <1>4, <1>t, StoreLastIs
  <2>2. /\ pc[p] = "copy" /\ copied'[p] \cap Body = copied[p] \cap Body
        /\ \A q \in Procs : q # p => copied'[q] = copied[q]
    BY <1>4, <1>t, BodyAssumption, Types DEF StoreLast
  <2> QED BY <2>1, <2>2, <1>w DEF Whole
<1>5. ASSUME NEW p \in Procs, PublishChunk(p) PROVE Whole'
  <2>1. /\ pc[p] = "copy" /\ NextChunk(p, "claim") /\ data' = data
        /\ copied[p] \cap Body = Body
    BY <1>5, CopiedBody DEF PublishChunk
  <2>2. flag[p] = 0 /\ \A q \in Procs : q # p => flag'[q] = flag[q]
    BY <1>5, <2>1, <1>t, Types DEF PublishChunk, Gate
  <2>3. pc'[p] \in {"idle", "claim"} /\ copied'[p] = {} BY <2>1, <1>t, NextChunkIs
  <2>4. \A q \in Procs : q # p =>
          /\ pc'[q] = pc[q] /\ peer'[q] = peer[q]
          /\ copied'[q] = copied[q] /\ msg'[q] = msg[q]
    BY <2>1, <1>t, NextChunkIs
  <2>5. data[p] = msg[p] BY <2>1, <1>w, <1>t, SameCells, Types
  <2>6. data[p] \in ChunksOf[p] BY <2>1, <2>5, <1>w
  <2> QED BY <2>1, <2>2, <2>3, <2>4, <2>6, <1>w DEF Whole
<1>6. ASSUME NEW p \in Procs, SeeChunk(p) PROVE Whole'
  <2>1. /\ UNCHANGED <<flag, data, peer, copied, msg>> /\ pc[p] = "await" /\ pc'[p] = "take"
        /\ \A q \in Procs : q # p => pc'[q] = pc[q]
    BY <1>6, <1>t, Types DEF SeeChunk
  <2>2. copied'[p] = {} BY <2>1, <1>w
  <2> QED BY <2>1, <2>2, <1>w DEF Whole
<1>7. ASSUME NEW p \in Procs, LoadBody(p) PROVE Whole'
  <2>1. PICK x \in Body \ copied[p] :
           /\ msg' = [msg EXCEPT ![p][x] = data[peer[p]][x]]
           /\ copied' = [copied EXCEPT ![p] = @ \cup {x}]
    BY <1>7 DEF LoadBody
  <2>2. UNCHANGED <<flag, data, pc, peer>> /\ pc[p] = "take" BY <1>7 DEF LoadBody
  <2>3. /\ copied'[p] = copied[p] \cup {x}
        /\ \A q \in Procs : q # p => msg'[q] = msg[q] /\ copied'[q] = copied[q]
    BY <2>1, <1>t, Types
  <2>4. \A y \in Body : msg'[p][y] = IF y = x THEN data[peer[p]][x] ELSE msg[p][y]
    BY <2>1, <1>t, Types DEF Content
  <2>5. \A y \in copied'[p] \cap Body : msg'[p][y] = data[peer[p]][y]
    BY <2>2, <2>3, <2>4, <1>w
  <2> QED BY <2>2, <2>3, <2>5, <1>w DEF Whole
<1>8. ASSUME NEW p \in Procs, LoadLast(p) PROVE Whole'
  <2>1. UNCHANGED <<flag, data, pc, peer, msg>> BY <1>8 DEF LoadLast
  <2>2. /\ pc[p] = "take" /\ copied'[p] \cap Body = copied[p] \cap Body
        /\ \A q \in Procs : q # p => copied'[q] = copied[q]
    BY <1>8, <1>t, BodyAssumption, Types DEF LoadLast
  <2> QED BY <2>1, <2>2, <1>w DEF Whole
<1>9. ASSUME NEW p \in Procs, FreeChunk(p) PROVE Whole'
  <2>1. pc[p] = "take" /\ NextChunk(p, "await") /\ data' = data BY <1>9 DEF FreeChunk
  <2>2. \A q \in Procs : flag'[q] # 0 => flag[q] # 0 BY <1>9, <1>t, Types DEF FreeChunk
  <2>3. pc'[p] \in {"idle", "await"} /\ copied'[p] = {} BY <2>1, <1>t, NextChunkIs
  <2>4. \A q \in Procs : q # p =>
          /\ pc'[q] = pc[q] /\ peer'[q] = peer[q]
          /\ copied'[q] = copied[q] /\ msg'[q] = msg[q]
    BY <2>1, <1>t, NextChunkIs
  <2> QED BY <2>1, <2>2, <2>3, <2>4, <1>w DEF Whole
<1>10. CASE UNCHANGED vars BY <1>10, <1>w DEF vars, Whole
<1> QED BY <1>1, <1>2, <1>3, <1>4, <1>5, <1>6, <1>7, <1>8, <1>9, <1>10
        DEF Next, Library

LEMMA IntactStep ==
  ASSUME BigInv, [Next]_vars
  PROVE  ChunkIntact'
<1>t. TypeOK /\ Peers /\ Gate /\ Whole /\ ChunkIntact BY DEF BigInv
<1>1. ASSUME NEW p \in Procs, FreeChunk(p) PROVE ChunkIntact'
  <2>1. /\ pc[p] = "take" /\ copied[p] \cap Body = Body
        /\ got' = [got EXCEPT ![p] = [sender |-> peer[p], msg |-> msg[p]]]
    BY <1>1, CopiedBody DEF FreeChunk
  <2>2. peer[p] \in Procs /\ data[peer[p]] \in Content /\ msg[p] \in Content
    BY <1>t, Types
  <2>3. msg[p] = data[peer[p]] BY <2>1, <2>2, <1>t, SameCells DEF Whole
  <2>4. data[peer[p]] \in ChunksOf[peer[p]] BY <2>1, <2>2, <1>t DEF Gate, Whole
  <2>5. got'[p] = [sender |-> peer[p], msg |-> msg[p]]
        /\ \A q \in Procs : q # p => got'[q] = got[q]
    BY <2>1, <1>t, Types
  <2> QED BY <2>3, <2>4, <2>5, <1>t DEF ChunkIntact
<1>2. ASSUME NEW p \in Procs, Caller(p) PROVE UNCHANGED got
  BY <1>2 DEF Caller, SendBig, RecvBig
<1>3. ASSUME NEW p \in Procs, Library(p), ~FreeChunk(p) PROVE UNCHANGED got
  BY <1>3 DEF Library, ClaimChunk, StoreBody, StoreLast, PublishChunk,
              SeeChunk, LoadBody, LoadLast
<1>4. CASE UNCHANGED got BY <1>4, <1>t DEF ChunkIntact
<1> QED BY <1>1, <1>2, <1>3, <1>4 DEF Next, vars

LEMMA PairIs ==
  ASSUME NEW s \in Procs, NEW r \in Procs, <<s, r>> \in Pairs
  PROVE  <<s, r>> \in Chan /\ s # r
BY PairsAssumption DEF Chan

\* A step that is nothing to the pair s, r.
LEMMA Apart ==
  ASSUME NEW s \in Procs, NEW r \in Procs, Balanced(s, r),
         header'[<<s, r>>] = header[<<s, r>>], flag'[s] = flag[s],
         Sending(s) => pc'[s] = pc[s] /\ todo'[s] = todo[s],
         ~Sending(s) => pc'[s] \notin {"claim", "copy"},
         Engaged(s, r) => pc'[r] \in {"await", "take"} /\ peer'[r] = s /\ todo'[r] = todo[r],
         ~Engaged(s, r) => ~(pc'[r] \in {"await", "take"} /\ peer'[r] = s)
  PROVE  Balanced(s, r)'
<1>1. Engaged(s, r)' <=> Engaged(s, r) BY DEF Engaged
<1>2. Left(s)' = Left(s) BY DEF Left, Sending
<1>3. pc[s] = "claim" => pc'[s] = "claim" /\ todo'[s] = todo[s] BY DEF Sending
<1> QED BY <1>1, <1>2, <1>3 DEF Balanced

LEMMA BalanceStep ==
  ASSUME BigInv, [Next]_vars, Single
  PROVE  Balance'
<1>t. TypeOK /\ Peers /\ Headers /\ Gate /\ Balance BY DEF BigInv
<1> SUFFICES ASSUME NEW s \in Procs, NEW r \in Procs, <<s, r>> \in Pairs
             PROVE  Balanced(s, r)'
  BY DEF Balance
<1>b. Balanced(s, r) BY <1>t DEF Balance
<1>c. <<s, r>> \in Chan /\ s # r BY PairIs
<1>1. ASSUME NEW p \in Procs, SendBig(p) PROVE Balanced(s, r)'
  <2>1. PICK q \in Procs, len \in Lengths :
           /\ <<p, q>> \in Pairs /\ ~Done(len) /\ header[<<p, q>>] = None
           /\ header' = [header EXCEPT ![<<p, q>>] = len]
           /\ todo' = [todo EXCEPT ![p] = len]
           /\ peer' = [peer EXCEPT ![p] = q]
    BY <1>1 DEF SendBig
  <2>2. /\ pc[p] = "idle" /\ pc'[p] = "claim" /\ flag' = flag /\ todo'[p] = len
        /\ \A o \in Procs : o # p => pc'[o] = pc[o] /\ todo'[o] = todo[o] /\ peer'[o] = peer[o]
    BY <1>1, <2>1, <1>t, Types DEF SendBig
  <2>3. CASE p = s
    <3>1. q = r BY <2>1, <2>3 DEF Single
    <3>2. header[<<s, r>>] = None /\ header'[<<s, r>>] = len /\ len # None
      BY <2>1, <2>3, <3>1, <1>c, <1>t, Types, LengthsAre
    <3>3. pc'[r] = pc[r] /\ todo'[r] = todo[r] /\ peer'[r] = peer[r] BY <2>2, <2>3, <1>c
    <3>4. Engaged(s, r)' <=> Engaged(s, r) BY <3>3 DEF Engaged
    <3>5. Left(s) = NoLength /\ Left(s)' = len BY <2>2, <2>3 DEF Left, Sending
    <3>6. CASE Engaged(s, r)
      <4>1. ~Done(todo[r]) /\ todo[r] \in Lens BY <3>6, <1>t, Types DEF Engaged, Peers
      <4>2. todo[r] # NoLength BY <4>1, NothingLeft
      <4>3. flag[s] # 0 /\ Rest(todo[r]) = NoLength
        BY <3>2, <3>5, <3>6, <4>2, <1>b DEF Balanced
      <4> QED BY <4>3, <3>2, <3>3, <3>4, <3>6, <2>2, <2>3 DEF Balanced
    <3>7. CASE ~Engaged(s, r)
      <4>1. flag[s] = 0 BY <3>2, <3>7, <1>b DEF Balanced
      <4> QED BY <4>1, <3>2, <3>4, <3>5, <3>7, <2>2 DEF Balanced
    <3> QED BY <3>6, <3>7
  <2>4. CASE p # s
    <3>1. header'[<<s, r>>] = header[<<s, r>>]
      <4>1. <<p, q>> # <<s, r>> BY <2>4
      <4> QED BY <4>1, <2>1, <1>c, <1>t, Types
    <3> QED BY <3>1, <2>2, <2>4, <1>b, Apart DEF Sending, Engaged
  <2> QED BY <2>3, <2>4
<1>2. ASSUME NEW p \in Procs, RecvBig(p) PROVE Balanced(s, r)'
  <2>1. PICK q \in Procs :
           /\ <<q, p>> \in Pairs /\ header[<<q, p>>] # None
           /\ todo' = [todo EXCEPT ![p] = header[<<q, p>>]]
           /\ header' = [header EXCEPT ![<<q, p>>] = None]
           /\ peer' = [peer EXCEPT ![p] = q]
    BY <1>2 DEF RecvBig
  <2>2. /\ pc[p] = "idle" /\ pc'[p] = "await" /\ flag' = flag
        /\ todo'[p] = header[<<q, p>>] /\ peer'[p] = q
        /\ \A o \in Procs : o # p => pc'[o] = pc[o] /\ todo'[o] = todo[o] /\ peer'[o] = peer[o]
    BY <1>2, <2>1, <1>t, Types DEF RecvBig
  <2>3. CASE p = r /\ q = s
    <3>1. header'[<<s, r>>] = None BY <2>1, <2>3, <1>c, <1>t, Types
    <3>2. ~Engaged(s, r) /\ Engaged(s, r)' BY <2>2, <2>3 DEF Engaged
    <3>3. Left(s)' = Left(s) BY <2>2, <2>3, <1>c DEF Left, Sending
    <3>4. Left(s) = IF flag[s] = 0 THEN todo'[r] ELSE Rest(todo'[r])
      BY <3>2, <2>1, <2>2, <2>3, <1>b DEF Balanced
    <3> QED BY <3>1, <3>2, <3>3, <3>4, <2>2 DEF Balanced
  <2>4. CASE ~(p = r /\ q = s)
    <3>1. header'[<<s, r>>] = header[<<s, r>>]
      <4>1. <<q, p>> # <<s, r>> BY <2>4
      <4> QED BY <4>1, <2>1, <1>c, <1>t, Types
    <3>2. /\ flag'[s] = flag[s]
          /\ Sending(s) => pc'[s] = pc[s] /\ todo'[s] = todo[s]
          /\ ~Sending(s) => pc'[s] \notin {"claim", "copy"}
      BY <2>2 DEF Sending
    <3>3. /\ Engaged(s, r) => pc'[r] \in {"await", "take"} /\ peer'[r] = s /\ todo'[r] = todo[r]
          /\ ~Engaged(s, r) => ~(pc'[r] \in {"await", "take"} /\ peer'[r] = s)
      BY <2>2, <2>4 DEF Engaged
    <3> QED BY <3>1, <3>2, <3>3, <1>b, Apart
  <2> QED BY <2>3, <2>4
<1>3. ASSUME NEW p \in Procs, ClaimChunk(p) PROVE Balanced(s, r)'
  <2>1. /\ UNCHANGED <<flag, header, peer, todo>>
        /\ pc[p] = "claim" /\ flag[p] = 0 /\ pc'[p] = "copy"
        /\ \A o \in Procs : o # p => pc'[o] = pc[o]
    BY <1>3, <1>t, Types DEF ClaimChunk
  <2>2. Engaged(s, r)' <=> Engaged(s, r) BY <2>1 DEF Engaged
  <2>3. Left(s)' = Left(s) BY <2>1 DEF Left, Sending
  <2>4. p = s => ~(Engaged(s, r) /\ header[<<s, r>>] # None) BY <2>1, <1>b DEF Balanced
  <2>5. p # s => pc'[s] = pc[s] BY <2>1
  <2> QED BY <2>1, <2>2, <2>3, <2>4, <2>5, <1>b DEF Balanced
<1>4. ASSUME NEW p \in Procs, StoreBody(p) \/ StoreLast(p) \/ LoadBody(p) \/ LoadLast(p)
      PROVE  Balanced(s, r)'
  <2>1. UNCHANGED <<flag, header, pc, peer, todo>>
    BY <1>4, <1>t, StoreLastIs DEF StoreBody, LoadBody, LoadLast
  <2> QED BY <2>1, <1>b DEF Balanced, Engaged, Left, Sending
<1>5. ASSUME NEW p \in Procs, PublishChunk(p) PROVE Balanced(s, r)'
  <2>1. pc[p] = "copy" /\ NextChunk(p, "claim") /\ header' = header
    BY <1>5 DEF PublishChunk
  <2>2. \A o \in Procs : o # p => pc'[o] = pc[o] /\ todo'[o] = todo[o] /\ peer'[o] = peer[o]
    BY <2>1, <1>t, NextChunkIs
  <2>3. /\ todo'[p] = Rest(todo[p]) /\ todo[p] \in Lens /\ ~Done(todo[p])
        /\ \/ pc'[p] = "idle" /\ Rest(todo[p]) = NoLength
           \/ pc'[p] = "claim"
    BY <2>1, <1>t, NextChunkIs
  <2>4. flag[p] = 0 /\ flag'[p] = 1 /\ \A o \in Procs : o # p => flag'[o] = flag[o]
    BY <1>5, <2>1, <1>t, Types DEF PublishChunk, Gate
  <2>5. CASE p = s
    <3>1. Engaged(s, r)' <=> Engaged(s, r) BY <2>2, <2>5, <1>c DEF Engaged
    <3>2. Left(s) = todo[s] /\ Left(s)' = Rest(todo[s])
      BY <2>1, <2>3, <2>5 DEF Left, Sending
    <3>3. todo[s] # NoLength BY <2>3, <2>5, NothingLeft
    <3>4. todo'[r] = todo[r] BY <2>2, <2>5, <1>c
    <3>5. CASE Engaged(s, r)
      <4>1. header[<<s, r>>] = None /\ Left(s) = todo[r]
        BY <3>5, <2>4, <2>5, <1>b DEF Balanced
      <4>2. Left(s)' = Rest(todo'[r]) BY <4>1, <3>2, <3>4
      <4>3. flag'[s] # 0 /\ header'[<<s, r>>] = None BY <4>1, <2>1, <2>4, <2>5
      <4> QED BY <4>2, <4>3, <3>1, <3>5 DEF Balanced
    <3>6. CASE ~Engaged(s, r)
      <4>1. header[<<s, r>>] # None /\ Left(s) = header[<<s, r>>]
        BY <3>2, <3>3, <3>6, <2>4, <2>5, <1>b DEF Balanced
      <4>2. Left(s)' = Rest(header'[<<s, r>>]) BY <4>1, <3>2, <2>1
      <4>3. flag'[s] # 0 /\ header'[<<s, r>>] # None BY <4>1, <2>1, <2>4, <2>5
      <4> QED BY <4>2, <4>3, <3>1, <3>6 DEF Balanced
    <3> QED BY <3>5, <3>6
  <2>6. CASE p # s
    BY <2>1, <2>2, <2>3, <2>4, <2>6, <1>b, Apart DEF Sending, Engaged
  <2> QED BY <2>5, <2>6
<1>6. ASSUME NEW p \in Procs, SeeChunk(p) PROVE Balanced(s, r)'
  <2>1. /\ UNCHANGED <<flag, header, peer, todo>>
        /\ pc[p] = "await" /\ pc'[p] = "take"
        /\ \A o \in Procs : o # p => pc'[o] = pc[o]
    BY <1>6, <1>t, Types DEF SeeChunk
  <2> QED BY <2>1, <1>b, Apart DEF Sending, Engaged
<1>7. ASSUME NEW p \in Procs, FreeChunk(p) PROVE Balanced(s, r)'
  <2>1. pc[p] = "take" /\ NextChunk(p, "await") /\ header' = header
    BY <1>7 DEF FreeChunk
  <2>2. \A o \in Procs : o # p => pc'[o] = pc[o] /\ todo'[o] = todo[o] /\ peer'[o] = peer[o]
    BY <2>1, <1>t, NextChunkIs
  <2>3. /\ todo'[p] = Rest(todo[p]) /\ todo[p] \in Lens /\ ~Done(todo[p])
        /\ \/ pc'[p] = "idle" /\ peer'[p] = p /\ Rest(todo[p]) = NoLength
           \/ pc'[p] = "await" /\ peer'[p] = peer[p] /\ ~Done(todo'[p])
    BY <2>1, <1>t, NextChunkIs
  <2>4. peer[p] \in Procs /\ <<peer[p], p>> \in Pairs /\ peer[p] # p /\ flag[peer[p]] # 0
    BY <2>1, <1>t, Types, PairIs DEF Peers, Gate
  <2>5. flag'[peer[p]] = 0 /\ \A o \in Procs : o # peer[p] => flag'[o] = flag[o]
    BY <1>7, <2>4, <1>t, Types DEF FreeChunk
  <2>6. CASE p = r /\ peer[p] = s
    <3>1. Engaged(s, r) BY <2>1, <2>6 DEF Engaged
    <3>2. pc'[s] = pc[s] /\ todo'[s] = todo[s] BY <2>2, <2>6, <1>c
    <3>3. Left(s)' = Left(s) BY <3>2 DEF Left, Sending
    <3>4. CASE header[<<s, r>>] # None
      <4>1. pc[s] = "claim" /\ todo[s] = header[<<s, r>>] /\ Rest(todo[r]) = NoLength
        BY <3>1, <3>4, <1>b DEF Balanced
      <4>2. Left(s) = header[<<s, r>>] BY <4>1 DEF Left, Sending
      <4>3. pc'[r] = "idle" BY <4>1, <2>3, <2>6, NothingLeft
      <4>4. ~Engaged(s, r)' BY <4>3 DEF Engaged
      <4> QED BY <4>2, <4>4, <3>3, <3>4, <2>1, <2>5, <2>6 DEF Balanced
    <3>5. CASE header[<<s, r>>] = None
      <4>1. Left(s) = Rest(todo[r]) BY <3>1, <3>5, <2>4, <2>6, <1>b DEF Balanced
      <4>2. CASE pc'[r] = "idle"
        <5>1. ~Engaged(s, r)' /\ Left(s) = NoLength BY <4>1, <4>2, <2>3, <2>6 DEF Engaged
        <5> QED BY <5>1, <3>3, <3>5, <2>1, <2>5, <2>6 DEF Balanced
      <4>3. CASE pc'[r] = "await"
        <5>1. Engaged(s, r)' BY <4>3, <2>3, <2>6 DEF Engaged
        <5> QED BY <5>1, <4>1, <3>3, <3>5, <2>1, <2>3, <2>5, <2>6 DEF Balanced
      <4> QED BY <4>2, <4>3, <2>3, <2>6
    <3> QED BY <3>4, <3>5
  <2>7. CASE ~(p = r /\ peer[p] = s)
    <3>1. peer[p] # s BY <2>4, <2>7 DEF Single
    <3>2. flag'[s] = flag[s] BY <3>1, <2>5
    <3>3. /\ Sending(s) => pc'[s] = pc[s] /\ todo'[s] = todo[s]
          /\ ~Sending(s) => pc'[s] \notin {"claim", "copy"}
      BY <2>1, <2>2, <2>3 DEF Sending
    <3>4. /\ Engaged(s, r) => pc'[r] \in {"await", "take"} /\ peer'[r] = s /\ todo'[r] = todo[r]
          /\ ~Engaged(s, r) => ~(pc'[r] \in {"await", "take"} /\ peer'[r] = s)
      BY <2>2, <2>3, <3>1, <1>c DEF Engaged
    <3> QED BY <3>2, <3>3, <3>4, <2>1, <1>b, Apart
  <2> QED BY <2>6, <2>7
<1>8. CASE UNCHANGED vars BY <1>8, <1>b DEF vars, Balanced, Engaged, Left, Sending
<1> QED BY <1>1, <1>2, <1>3, <1>4, <1>5, <1>6, <1>7, <1>8 DEF Next, Caller, Library

-----------------------------------------------------------------------------
(* What follows *)

LEMMA BigStep == BigInv /\ [Next]_vars /\ Single /\ ZeroLast => BigInv'
BY TypeStep, PeersStep, HeadersStep, GateStep, WholeStep, CountStep, BalanceStep, IntactStep
   DEF BigInv

LEMMA BigInvariant ==
  ASSUME Single, ZeroLast
  PROVE  Spec => []BigInv
<1>1. BigInv /\ [Next]_vars => BigInv' BY BigStep
<1> QED BY <1>1, BigInit, PTL DEF Spec

\* The variables stay in their types.
THEOREM TypeCorrect ==
  ASSUME Single, ZeroLast
  PROVE  Spec => []TypeOK
<1>1. BigInv => TypeOK BY DEF BigInv
<1> QED BY <1>1, BigInvariant, PTL

\* A sender never copies into a chunk buffer that its receiver copies from.
THEOREM NeverBothCopy ==
  ASSUME Single, ZeroLast
  PROVE  Spec => []ChunkExclusion
<1>1. BigInv => ChunkExclusion
  <2> SUFFICES ASSUME BigInv, NEW c \in Chan, pc[c[1]] = "copy", Receiving(c) PROVE FALSE
    BY DEF ChunkExclusion
  <2>1. c[1] \in Procs /\ c[2] \in Procs BY DEF Chan
  <2> QED BY <2>1 DEF BigInv, Gate, Receiving
<1> QED BY <1>1, BigInvariant, PTL

\* What a receive returns is a chunk its sender sent, in one piece.
THEOREM ReceivedIntact ==
  ASSUME Single, ZeroLast
  PROVE  Spec => []ChunkIntact
<1>1. BigInv => ChunkIntact BY DEF BigInv
<1> QED BY <1>1, BigInvariant, PTL

\* The balance in numbers of chunks, for a pair of the program.
LEMMA PairAgrees ==
  ASSUME BigInv, Single, NEW s \in Procs, NEW r \in Procs, <<s, r>> \in Pairs
  PROVE  ToReceive(s, r) = ToSend(s, r) + InBuffer(s, r)
<1>0. TypeOK /\ Peers /\ Headers /\ Gate /\ Balanced(s, r) BY DEF BigInv, Balance
<1>1. s # r /\ <<s, r>> \in Chan BY PairIs
<1>2. /\ todo[s] \in Lens /\ todo[r] \in Lens
      /\ peer[s] \in Procs /\ addr[s] \in Procs
  BY <1>0, Types
<1>3. Engaged(s, r) => ~Done(todo[r]) BY <1>0 DEF Engaged, Peers
<1>4. header[<<s, r>>] # None => header[<<s, r>>] \in Lens /\ ~Done(header[<<s, r>>])
  BY <1>0, <1>1, LengthsAre DEF TypeOK, Headers
<1>5. ToSend(s, r) = ChunksIn(Left(s))
  <2>1. CASE Sending(s)
    <3>1. <<s, peer[s]>> \in Pairs BY <1>0, <2>1 DEF Peers
    <3>2. peer[s] = r BY <3>1, <1>2 DEF Single
    <3> QED BY <3>2, <2>1 DEF ToSend, Left, Sending
  <2>2. CASE ~Sending(s) BY <2>2, NothingLeft DEF ToSend, Left, Sending
  <2> QED BY <2>1, <2>2
<1>6. InBuffer(s, r) = IF flag[s] # 0 THEN 1 ELSE 0
  <2>1. flag[s] # 0 => <<s, addr[s]>> \in Pairs BY <1>0 DEF Gate
  <2>2. flag[s] # 0 => addr[s] = r BY <2>1, <1>2 DEF Single
  <2> QED BY <2>2 DEF InBuffer
<1>7. CASE Engaged(s, r) /\ header[<<s, r>>] # None
  <2>1. /\ Left(s) = header[<<s, r>>] /\ flag[s] # 0 /\ ChunksIn(todo[r]) = 1
        /\ ChunksIn(header[<<s, r>>]) \in Nat
    BY <1>7, <1>0, <1>2, <1>3, <1>4, LastRest, RestIs DEF Balanced, Left, Sending
  <2>2. ToReceive(s, r) = ChunksIn(header[<<s, r>>]) + ChunksIn(todo[r])
    BY <1>7 DEF ToReceive, Engaged
  <2> QED BY <2>1, <2>2, <1>5, <1>6
<1>8. CASE Engaged(s, r) /\ header[<<s, r>>] = None
  <2>1. Left(s) = IF flag[s] = 0 THEN todo[r] ELSE Rest(todo[r])
    BY <1>8, <1>0 DEF Balanced
  <2>2. /\ ChunksIn(todo[r]) \in Nat
        /\ ChunksIn(Rest(todo[r])) = ChunksIn(todo[r]) - 1
    BY <1>8, <1>2, <1>3, RestIs
  <2>3. ToReceive(s, r) = 0 + ChunksIn(todo[r]) BY <1>8 DEF ToReceive, Engaged
  <2> QED BY <2>1, <2>2, <2>3, <1>5, <1>6
<1>9. CASE ~Engaged(s, r) /\ header[<<s, r>>] # None
  <2>1. Left(s) = IF flag[s] = 0 THEN header[<<s, r>>] ELSE Rest(header[<<s, r>>])
    BY <1>9, <1>0 DEF Balanced
  <2>2. /\ ChunksIn(header[<<s, r>>]) \in Nat
        /\ ChunksIn(Rest(header[<<s, r>>])) = ChunksIn(header[<<s, r>>]) - 1
    BY <1>9, <1>4, RestIs
  <2>3. ToReceive(s, r) = ChunksIn(header[<<s, r>>]) + 0 BY <1>9 DEF ToReceive, Engaged
  <2> QED BY <2>1, <2>2, <2>3, <1>5, <1>6
<1>10. CASE ~Engaged(s, r) /\ header[<<s, r>>] = None
  <2>1. Left(s) = NoLength /\ flag[s] = 0 BY <1>10, <1>0 DEF Balanced
  <2>2. ToReceive(s, r) = 0 BY <1>10 DEF ToReceive, Engaged
  <2> QED BY <2>1, <2>2, <1>5, <1>6, NothingLeft
<1> QED BY <1>7, <1>8, <1>9, <1>10

\* The receiver of a channel is always still to take exactly the chunks that
\* its sender is still to send and the one in the buffer: neither end of a
\* message returns a chunk early, nor waits for one too many.
THEOREM EndsAgree ==
  ASSUME Single, ZeroLast
  PROVE  Spec => []Agreement
<1>1. BigInv => Agreement
  <2> SUFFICES ASSUME BigInv, NEW s \in Procs, NEW r \in Procs, s # r
               PROVE  ToReceive(s, r) = ToSend(s, r) + InBuffer(s, r)
    BY DEF Agreement
  <2>1. CASE <<s, r>> \in Pairs BY <2>1, PairAgrees
  <2>2. CASE <<s, r>> \notin Pairs
    <3>1. Peers /\ Headers /\ Gate BY DEF BigInv
    <3>2. ToSend(s, r) = 0 BY <2>2, <3>1 DEF ToSend, Peers, Sending
    <3>3. InBuffer(s, r) = 0 BY <2>2, <3>1 DEF InBuffer, Gate
    <3>4. header[<<s, r>>] = None BY <2>2, <3>1 DEF Headers
    <3>5. ~(pc[r] \in {"await", "take"} /\ peer[r] = s) BY <2>2, <3>1 DEF Peers
    <3>6. ToReceive(s, r) = 0 + 0 BY <3>4, <3>5 DEF ToReceive
    <3> QED BY <3>2, <3>3, <3>6
  <2> QED BY <2>1, <2>2
<1> QED BY <1>1, BigInvariant, PTL

-----------------------------------------------------------------------------
(* The chunk buffers implement Channel *)

LEMMA ChanIs == Abstract!Chan = Chan
BY DEF Abstract!Chan, Chan

LEMMA InitRefines == Init => Abstract!Init
<1> SUFFICES ASSUME Init PROVE Abstract!Init
  OBVIOUS
<1>1. \A c \in Chan : ~Pending(c) BY DEF Init, Pending, Chan
<1> QED BY <1>1, ChanIs DEF Init, Abstract!Init

LEMMA StepRefines ==
  ASSUME BigInv, [Next]_vars, Single
  PROVE  [Abstract!Next]_(Abstract!vars)
<1> DEFINE slot == [c \in Chan |-> IF Pending(c) THEN data[c[1]] ELSE None]
<1>t. TypeOK /\ Peers /\ Gate /\ Whole BY DEF BigInv
<1>c. \A c \in Chan : c[1] \in Procs /\ c[2] \in Procs /\ c = <<c[1], c[2]>> BY DEF Chan
<1>s. ASSUME \A c \in Chan : /\ Pending(c)' <=> Pending(c)
                             /\ Pending(c) => data'[c[1]] = data[c[1]]
      PROVE  slot' = slot
  BY <1>s
<1>u. ASSUME slot' = slot, got' = got PROVE UNCHANGED Abstract!vars
  BY <1>u DEF Abstract!vars
<1>1. ASSUME NEW p \in Procs, PublishChunk(p) PROVE Abstract!Next
  <2>1. pc[p] = "copy" /\ got' = got /\ data' = data /\ copied[p] \cap Body = Body
    BY <1>1, CopiedBody DEF PublishChunk
  <2>2. <<p, peer[p]>> \in Pairs /\ peer[p] \in Procs /\ flag[p] = 0
    BY <2>1, <1>t, Types DEF Peers, Sending, Gate
  <2>3. <<p, peer[p]>> \in Chan BY <2>2, PairIs
  <2>4. data[p] = msg[p] /\ msg[p] \in ChunksOf[p]
    BY <2>1, <1>t, SameCells, Types DEF Whole
  <2>5. /\ flag'[p] = 1 /\ addr'[p] = peer[p]
        /\ \A q \in Procs : q # p => flag'[q] = flag[q] /\ addr'[q] = addr[q]
    BY <1>1, <1>t, Types DEF PublishChunk
  <2> DEFINE d == <<p, peer[p]>>
  <2>6. slot[d] = None BY <2>2, <2>3 DEF Pending
  <2>7. ASSUME NEW c \in Chan
        PROVE  slot'[c] = IF c = d THEN msg[p] ELSE slot[c]
    <3>1. CASE c = d BY <3>1, <2>1, <2>4, <2>5 DEF Pending
    <3>2. CASE c[1] = p /\ c # d
      <4>1. ~Pending(c) /\ ~Pending(c)' BY <3>2, <2>2, <2>5, <1>c DEF Pending
      <4> QED BY <4>1, <3>2
    <3>3. CASE c[1] # p
      <4>1. Pending(c)' <=> Pending(c) BY <3>3, <2>5, <1>c DEF Pending
      <4> QED BY <4>1, <3>3, <2>1
    <3> QED BY <3>1, <3>2, <3>3
  <2>8. slot' = [slot EXCEPT ![d] = msg[p]] BY <2>7
  <2>9. d \in Abstract!Chan /\ msg[p] \in ChunksOf[d[1]] BY <2>3, <2>4, ChanIs
  <2> HIDE DEF slot, d
  <2> QED BY <2>1, <2>6, <2>8, <2>9 DEF Abstract!Next, Abstract!Send, slot
<1>2. ASSUME NEW p \in Procs, FreeChunk(p) PROVE Abstract!Next
  <2>1. /\ pc[p] = "take" /\ data' = data /\ addr' = addr /\ copied[p] \cap Body = Body
        /\ got' = [got EXCEPT ![p] = [sender |-> peer[p], msg |-> msg[p]]]
    BY <1>2, CopiedBody DEF FreeChunk
  <2>2. <<peer[p], p>> \in Pairs /\ peer[p] \in Procs /\ flag[peer[p]] # 0
    BY <2>1, <1>t, Types DEF Peers, Gate
  <2>3. <<peer[p], p>> \in Chan BY <2>2, PairIs
  <2>4. addr[peer[p]] = p BY <2>2, <1>t, Types DEF Gate, Single
  <2>5. flag'[peer[p]] = 0 /\ \A q \in Procs : q # peer[p] => flag'[q] = flag[q]
    BY <1>2, <2>2, <1>t, Types DEF FreeChunk
  <2>6. msg[p] = data[peer[p]] BY <2>1, <2>2, <1>t, SameCells, Types DEF Whole
  <2>7. data[peer[p]] # None
    <3>1. data[peer[p]] \in ChunksOf[peer[p]] BY <2>2, <1>t DEF Whole
    <3>2. PICK r \in Procs, k \in 1 .. MaxChunks : data[peer[p]] = Chunk(peer[p], r, k)
      BY <3>1, <2>2 DEF ChunksOf
    <3>3. data[peer[p]] \in [Body -> Value] BY <3>2, <2>2 DEF Chunk, Value
    <3> QED BY <3>3, NoneAssumption
  <2> DEFINE d == <<peer[p], p>>
  <2>8. slot[d] = data[peer[p]] BY <2>2, <2>3, <2>4 DEF Pending
  <2>9. ASSUME NEW c \in Chan
        PROVE  slot'[c] = IF c = d THEN None ELSE slot[c]
    <3>1. CASE c[1] = peer[p]
      <4>1. ~Pending(c)' BY <3>1, <2>5 DEF Pending
      <4>2. c # d => ~Pending(c) BY <3>1, <2>4, <1>c DEF Pending
      <4> QED BY <4>1, <4>2, <3>1
    <3>2. CASE c[1] # peer[p]
      <4>1. Pending(c)' <=> Pending(c) BY <3>2, <2>1, <2>5, <1>c DEF Pending
      <4>2. c # d BY <3>2
      <4> QED BY <4>1, <4>2, <2>1
    <3> QED BY <3>1, <3>2
  <2>10. slot' = [slot EXCEPT ![d] = None] BY <2>9
  <2>11. got' = [got EXCEPT ![d[2]] = [sender |-> d[1], msg |-> slot[d]]]
    BY <2>1, <2>6, <2>8
  <2>12. slot[d] # None BY <2>7, <2>8
  <2>13. d \in Abstract!Chan BY <2>3, ChanIs
  <2> HIDE DEF slot, d
  <2> QED BY <2>10, <2>11, <2>12, <2>13 DEF Abstract!Next, Abstract!Receive, slot
<1>3. ASSUME NEW p \in Procs, StoreBody(p) PROVE UNCHANGED Abstract!vars
  <2>1. UNCHANGED <<flag, addr, got>> /\ pc[p] = "copy" BY <1>3 DEF StoreBody
  <2>2. \A q \in Procs : q # p => data'[q] = data[q] BY <1>3, <1>t, Types DEF StoreBody
  <2>3. \A c \in Chan : Pending(c) => c[1] # p BY <2>1, <1>t DEF Gate, Pending
  <2> QED BY <2>1, <2>2, <2>3, <1>s, <1>u, <1>c DEF Pending
<1>4. ASSUME NEW p \in Procs,
             \/ Caller(p) \/ ClaimChunk(p) \/ StoreLast(p)
             \/ SeeChunk(p) \/ LoadBody(p) \/ LoadLast(p)
      PROVE  UNCHANGED Abstract!vars
  <2>1. UNCHANGED <<flag, data, addr, got>>
    BY <1>4, <1>t, StoreLastIs DEF Caller, SendBig, RecvBig, ClaimChunk, SeeChunk, LoadBody, LoadLast
  <2> QED BY <2>1, <1>s, <1>u DEF Pending
<1>5. CASE UNCHANGED vars BY <1>5, <1>s, <1>u DEF vars, Pending
<1> QED BY <1>1, <1>2, <1>3, <1>4, <1>5 DEF Next, Library

\* The chunk buffers implement the channel: no chunk is lost, torn, duplicated,
\* or received by anyone but its addressee.
THEOREM Refinement ==
  ASSUME Single, ZeroLast
  PROVE  Spec => ImplementsChannel
<1>1. BigInv /\ [Next]_vars => [Abstract!Next]_(Abstract!vars) BY StepRefines
<1> QED BY <1>1, InitRefines, BigInvariant, PTL
        DEF Spec, ImplementsChannel, Abstract!Spec
=============================================================================
