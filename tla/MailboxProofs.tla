--------------------------- MODULE MailboxProofs ---------------------------
(***************************************************************************)
(* Theorems about Mailbox, for any number of processes, any payload, any   *)
(* platform and any placement on sockets.                                  *)
(***************************************************************************)
EXTENDS Mailbox, TLAPS

-----------------------------------------------------------------------------
(* Types *)

\* A composed message is a content, and a word stored into a content keeps it
\* one.
LEMMA ContentFacts ==
  /\ Blank \in Content
  /\ \A p \in Procs : MessagesOf[p] \subseteq Content
  /\ \A p \in Procs, k \in 1 .. MaxSends :
       Message(p, k) \in Content /\ Message(p, k) \in MessagesOf[p]
BY DEF Blank, Content, MessagesOf, Message, Value

LEMMA StoreType ==
  ASSUME buf \in [Chan -> Content], NEW c, NEW w \in Words, NEW v \in Value \cup {None},
         buf' = [buf EXCEPT ![c][w] = v]
  PROVE  buf' \in [Chan -> Content]
BY DEF Content

\* A channel is a pair of different processes.
LEMMA ChanFacts ==
  /\ \A p, q \in Procs : p # q => <<p, q>> \in Chan
  /\ \A c \in Chan : /\ c = <<c[1], c[2]>>
                     /\ c[1] \in Procs /\ c[2] \in Procs /\ c[1] # c[2]
BY DEF Chan

\* There is no buffer from a process to itself, and no call looks for one.
NoSelf ==
  \A p \in Procs : /\ p \notin todo[p]
                   /\ p \notin from[p]
                   /\ pc[p] \in {"copy", "take"} => peer[p] # p

Typed == TypeOK /\ NoSelf

LEMMA TypeInit == Init => TypeOK
BY ContentFacts, NAssumption, MaxSendsAssumption
   DEF Init, TypeOK, Flags, EMPTY, Procs, Chan, Cells

LEMMA ComposeType ==
  ASSUME TypeOK, NEW p \in Procs, Compose(p)
  PROVE  /\ msg' \in [Procs -> Content]
         /\ seq' \in [Procs -> 0 .. MaxSends]
         /\ msg'[p] \in MessagesOf[p]
<1>1. seq[p] + 1 \in 1 .. MaxSends
  BY MaxSendsAssumption DEF TypeOK, Compose
<1>2. Message(p, seq[p] + 1) \in Content /\ Message(p, seq[p] + 1) \in MessagesOf[p]
  BY <1>1, ContentFacts
<1> QED BY <1>1, <1>2, MaxSendsAssumption DEF TypeOK, Compose

LEMMA TypeNext == Typed /\ [Next]_vars => TypeOK'
<1> SUFFICES ASSUME Typed, [Next]_vars PROVE TypeOK'
  OBVIOUS
<1> USE DEF TypeOK, Typed
<1>1. ASSUME NEW p \in Procs, Send(p) PROVE TypeOK'
  <2>1. PICK to \in Others(p) : CallSend(p, {to}) BY <1>1 DEF Send
  <2> QED BY <2>1, ComposeType DEF CallSend, Others
<1>2. ASSUME NEW p \in Procs, Broadcast(p) PROVE TypeOK'
  BY <1>2, ComposeType DEF Broadcast, CallSend, Others
<1>3. ASSUME NEW p \in Procs, SendClaim(p) PROVE TypeOK'
  <2>1. PICK to \in todo[p] :
          /\ state' = [state EXCEPT ![<<p, to>>] = IF SendLocks(p, to) THEN LOCKD ELSE @]
          /\ peer' = [peer EXCEPT ![p] = to]
          /\ todo' = [todo EXCEPT ![p] = @ \ {to}]
          /\ known' = [known EXCEPT ![p] = @ \ {to}]
    BY <1>3 DEF SendClaim, Claimable
  <2>2. state' \in [Chan -> Flags] BY <2>1 DEF Flags
  <2>3. peer' \in [Procs -> Procs] /\ todo' \in [Procs -> SUBSET Procs]
        /\ known' \in [Procs -> SUBSET Procs]
    BY <2>1
  <2> QED BY <1>3, <2>2, <2>3 DEF SendClaim, Claimable
<1>4. ASSUME NEW p \in Procs, IsFree(p) PROVE TypeOK'
  BY <1>4 DEF IsFree, Others
<1>5. ASSUME NEW p \in Procs, NEW to \in Others(p), SendNoSync(p, to)
      PROVE  TypeOK'
  BY <1>5, ComposeType DEF SendNoSync, Others
<1>6. ASSUME NEW p \in Procs, StoreWord(p) PROVE TypeOK'
  <2>1. PICK w \in Words \ copied[p] :
          /\ buf' = [buf EXCEPT ![<<p, peer[p]>>][w] = msg[p][w]]
          /\ Stored(p, w)
    BY <1>6 DEF StoreWord
  <2>2. buf' \in [Chan -> Content]
    <3>1. msg[p][w] \in Value \cup {None} BY DEF Content
    <3> QED BY <2>1, <3>1, StoreType
  <2>3. state' = state BY <1>6 DEF StoreWord
  <2>4. w \in Cells BY DEF Cells
  <2> QED BY <2>1, <2>2, <2>3, <2>4, ContentFacts DEF Stored
<1>7. ASSUME NEW p \in Procs, StoreFlag(p) PROVE TypeOK'
  BY <1>7, ContentFacts DEF StoreFlag, Stored, Cells, Flags
<1>8. ASSUME NEW p \in Procs, ReceiveFrom(p) PROVE TypeOK'
  BY <1>8 DEF ReceiveFrom, CallReceive, Others
<1>9. ASSUME NEW p \in Procs, Receive(p) PROVE TypeOK'
  BY <1>9 DEF Receive, CallReceive, Others
<1>10. ASSUME NEW p \in Procs, ReceiveColor(p) PROVE TypeOK'
  BY <1>10, ColorsAssumption DEF ReceiveColor, CallReceive
<1>11. ASSUME NEW p \in Procs, ReceiveColorStart(p) PROVE TypeOK'
  BY <1>11, ColorsAssumption DEF ReceiveColorStart, CallReceive
<1>12. ASSUME NEW p \in Procs, ScanMiss(p) PROVE TypeOK'
  BY <1>12 DEF ScanMiss, NextIdx
<1>13. ASSUME NEW p \in Procs, ScanHit(p) PROVE TypeOK'
  <2>1. PICK q \in from[p] :
          /\ state' = [state EXCEPT ![<<q, p>>] = IF RecvLocks(p, q) THEN LOCKD ELSE @]
          /\ peer' = [peer EXCEPT ![p] = q]
    BY <1>13 DEF ScanHit
  <2>2. state' \in [Chan -> Flags] BY <2>1 DEF Flags
  <2>3. peer' \in [Procs -> Procs] BY <2>1
  <2> QED BY <1>13, <2>2, <2>3 DEF ScanHit
<1>14. ASSUME NEW p \in Procs, LoadWord(p) PROVE TypeOK'
  <2>1. PICK w \in Words \ copied[p] :
          /\ msg' = [msg EXCEPT ![p][w] = buf[<<peer[p], p>>][w]]
          /\ copied' = [copied EXCEPT ![p] = @ \cup {w}]
    BY <1>14 DEF LoadWord
  <2>2. <<peer[p], p>> \in Chan BY <1>14, ChanFacts DEF LoadWord, NoSelf
  <2>3. msg' \in [Procs -> Content] BY <2>1, <2>2 DEF Content
  <2>4. copied' \in [Procs -> SUBSET Cells] BY <2>1 DEF Cells
  <2> QED BY <1>14, <2>3, <2>4 DEF LoadWord
<1>15. ASSUME NEW p \in Procs, ReceiveDone(p) PROVE TypeOK'
  <2>1. /\ state' \in [Chan -> Flags]
        /\ got' \in [Procs -> [sender : Procs, msg : Content] \cup {None}]
    BY <1>15 DEF ReceiveDone, Flags
  <2>2. start' \in [Procs -> Nat] /\ idx' \in [Procs -> Nat]
    BY <1>15 DEF ReceiveDone, NextIdx
  <2>3. /\ pc' \in [Procs -> {"idle", "claim", "copy", "scan", "take"}]
        /\ peer' \in [Procs -> Procs]
        /\ msg' \in [Procs -> Content]
    BY <1>15, ContentFacts DEF ReceiveDone
  <2>4. /\ copied' \in [Procs -> SUBSET Cells]
        /\ call' \in [Procs -> {"none", "recv_from", "recv", "recv_color", "recv_color_start"}]
        /\ from' \in [Procs -> SUBSET Procs]
    BY <1>15 DEF ReceiveDone
  <2> QED BY <1>15, <2>1, <2>2, <2>3, <2>4 DEF ReceiveDone
<1>16. CASE UNCHANGED vars
  BY <1>16 DEF vars
<1> QED BY <1>1, <1>2, <1>3, <1>4, <1>5, <1>6, <1>7, <1>8, <1>9, <1>10, <1>11,
           <1>12, <1>13, <1>14, <1>15, <1>16 DEF Next, Caller, Library

LEMMA NoSelfNext == Typed /\ [Next]_vars => NoSelf'
<1> SUFFICES ASSUME Typed, [Next]_vars PROVE NoSelf'
  OBVIOUS
<1> USE DEF TypeOK, Typed, NoSelf
<1>1. ASSUME NEW p \in Procs, Send(p) \/ Broadcast(p) PROVE NoSelf'
  BY <1>1 DEF Send, Broadcast, CallSend, Others
<1>2. ASSUME NEW p \in Procs, SendClaim(p) PROVE NoSelf'
  BY <1>2 DEF SendClaim, Claimable
<1>3. ASSUME NEW p \in Procs, IsFree(p) PROVE NoSelf'
  BY <1>3 DEF IsFree
<1>4. ASSUME NEW p \in Procs, NEW to \in Others(p), SendNoSync(p, to)
      PROVE  NoSelf'
  BY <1>4 DEF SendNoSync, Others
<1>5. ASSUME NEW p \in Procs, StoreWord(p) \/ StoreFlag(p) PROVE NoSelf'
  <2>1. PICK x : Stored(p, x) BY <1>5 DEF StoreWord, StoreFlag
  <2> QED BY <2>1, <1>5 DEF Stored, StoreWord, StoreFlag
<1>6. ASSUME NEW p \in Procs, NEW f, NEW S \in SUBSET Procs, NEW i \in Nat,
             CallReceive(p, f, S, i), p \notin S
      PROVE  NoSelf'
  BY <1>6 DEF CallReceive
<1>7. ASSUME NEW p \in Procs,
             ReceiveFrom(p) \/ Receive(p) \/ ReceiveColor(p) \/ ReceiveColorStart(p)
      PROVE  NoSelf'
  BY <1>6, <1>7, ColorsAssumption
     DEF ReceiveFrom, Receive, ReceiveColor, ReceiveColorStart, Others
<1>8. ASSUME NEW p \in Procs, ScanMiss(p) \/ LoadWord(p) PROVE NoSelf'
  BY <1>8 DEF ScanMiss, LoadWord
<1>9. ASSUME NEW p \in Procs, ScanHit(p) PROVE NoSelf'
  BY <1>9 DEF ScanHit
<1>10. ASSUME NEW p \in Procs, ReceiveDone(p) PROVE NoSelf'
  BY <1>10 DEF ReceiveDone
<1>11. CASE UNCHANGED vars
  BY <1>11 DEF vars
<1> QED BY <1>1, <1>2, <1>3, <1>4, <1>5, <1>7, <1>8, <1>9, <1>10, <1>11
        DEF Next, Caller, Library

LEMMA TypedInit == Init => Typed
BY TypeInit DEF Init, Typed, NoSelf

THEOREM TypedCorrect == Spec => []Typed
<1>1. Typed /\ [Next]_vars => Typed' BY TypeNext, NoSelfNext DEF Typed
<1> QED BY TypedInit, <1>1, PTL DEF Spec

\* The variables of a running system stay in their types.
THEOREM TypeCorrect == Spec => []TypeOK
<1>1. Typed => TypeOK BY DEF Typed
<1> QED BY TypedCorrect, <1>1, PTL

-----------------------------------------------------------------------------
(* The invariant of the flag protocol, when the flag is stored last *)

\* While p copies into the buffer, the flag is p's: EMPTY, or LOCKD by p.
\* The cells copied so far hold p's message.
SenderOwns ==
  \A p \in Procs : pc[p] = "copy" =>
    /\ state[<<p, peer[p]>>] \in {EMPTY, LOCKD}
    /\ "flag" \notin copied[p]
    /\ \A w \in copied[p] : buf[<<p, peer[p]>>][w] = msg[p][w]

\* What p sends is a message p composed.
Composed == \A p \in Procs : pc[p] \in {"claim", "copy"} => msg[p] \in MessagesOf[p]

\* While p copies out of the buffer, the flag is p's: MESSG, or LOCKD by p.
ReceiverOwns ==
  \A p \in Procs : pc[p] = "take" =>
    /\ state[<<peer[p], p>>] \in {MESSG, LOCKD}
    /\ \A w \in copied[p] \cap Words : msg[p][w] = buf[<<peer[p], p>>][w]

\* A pending message is whole.
Whole == \A c \in Chan : Pending(c) => buf[c] \in MessagesOf[c[1]]

IndInv == /\ Typed
          /\ SenderOwns
          /\ Composed
          /\ ReceiverOwns
          /\ OwnerExclusion
          /\ KnownFree
          /\ Whole
          /\ Intact

LEMMA IndInit == Init => IndInv
BY TypedInit, ChanFacts
   DEF Init, IndInv, SenderOwns, Composed, ReceiverOwns, OwnerExclusion, KnownFree,
       Whole, Intact, Pending, Sending, Receiving, EMPTY, MESSG

\* Calls that begin, and scans that find nothing, touch no buffer and no claim.
LEMMA QuietStep ==
  ASSUME IndInv, Typed', NEW p \in Procs,
         pc[p] \notin {"copy", "take"},
         \E x : pc' = [pc EXCEPT ![p] = x] /\ x \notin {"copy", "take"},
         pc'[p] = "claim" => msg'[p] \in MessagesOf[p],
         \A r \in Procs \ {p} : msg'[r] = msg[r],
         UNCHANGED <<state, buf, peer, copied, known, got>>
  PROVE  IndInv'
<1> USE DEF IndInv, Typed, TypeOK
<1>1. \A r \in Procs : pc'[r] \in {"copy", "take"} => pc[r] = pc'[r] /\ r # p
  OBVIOUS
<1>2. SenderOwns' BY <1>1 DEF SenderOwns
<1>3. Composed'
  <2> SUFFICES ASSUME NEW r \in Procs, pc'[r] \in {"claim", "copy"}
               PROVE  msg'[r] \in MessagesOf[r]
    BY DEF Composed, MessagesOf, Message
  <2>1. CASE r = p BY <2>1
  <2>2. CASE r # p BY <2>2 DEF Composed
  <2> QED BY <2>1, <2>2
<1>4. ReceiverOwns' BY <1>1 DEF ReceiverOwns
<1>5. \A c \in Chan : (Sending(c)' => Sending(c)) /\ (Receiving(c)' <=> Receiving(c))
  <2> SUFFICES ASSUME NEW c \in Chan
               PROVE  (Sending(c)' => Sending(c)) /\ (Receiving(c)' <=> Receiving(c))
    OBVIOUS
  <2>1. c[1] \in Procs /\ c[2] \in Procs BY ChanFacts
  <2> QED BY <1>1, <2>1 DEF Sending, Receiving
<1>6. OwnerExclusion' BY <1>5 DEF OwnerExclusion
<1>7. KnownFree'
  <2> SUFFICES ASSUME NEW r \in Procs, NEW to \in known[r]
               PROVE  state'[<<r, to>>] = EMPTY /\ ~Sending(<<r, to>>)'
    BY DEF KnownFree, EMPTY
  <2>1. state[<<r, to>>] = EMPTY /\ ~Sending(<<r, to>>) BY DEF KnownFree
  <2> QED BY <1>1, <2>1 DEF Sending
<1>8. Whole' BY <1>5 DEF Whole, Pending, MESSG, MessagesOf, Message
<1>9. Intact' BY DEF Intact, MessagesOf, Message
<1> QED BY <1>2, <1>3, <1>4, <1>6, <1>7, <1>8, <1>9
\* is_free that answers 1: the caller is idle, so nobody fills the buffer.
LEMMA IsFreeStep ==
  ASSUME IndInv, Typed', NEW p \in Procs, IsFree(p)
  PROVE  IndInv'
<1> USE DEF IndInv, Typed, TypeOK, IsFree
<1>1. /\ SenderOwns' /\ Composed' /\ ReceiverOwns'
  BY DEF SenderOwns, Composed, ReceiverOwns, EMPTY, LOCKD, MESSG, MessagesOf, Message
<1>2. OwnerExclusion' /\ Whole' /\ Intact'
  BY DEF OwnerExclusion, Whole, Intact, Pending, Sending, Receiving, MessagesOf, Message, MESSG
<1>3. KnownFree'
  <2> SUFFICES ASSUME NEW r \in Procs, NEW to \in known'[r]
               PROVE  state'[<<r, to>>] = EMPTY /\ ~Sending(<<r, to>>)'
    BY DEF KnownFree, EMPTY
  <2>1. CASE to \in known[r]
    <3>1. state[<<r, to>>] = EMPTY /\ ~Sending(<<r, to>>) BY <2>1 DEF KnownFree
    <3> QED BY <3>1 DEF Sending
  <2>2. CASE to \notin known[r]
    <3>1. r = p /\ state[<<r, to>>] = EMPTY BY <2>2
    <3>2. pc'[r] = "idle" BY <3>1
    <3> QED BY <3>1, <3>2 DEF Sending
  <2> QED BY <2>1, <2>2
<1> QED BY <1>1, <1>2, <1>3

\* A sender gets to its copy: it found the buffer EMPTY, or LOCKD it.
LEMMA BeginCopyStep ==
  ASSUME IndInv, Typed', NEW p \in Procs, NEW to \in Procs \ {p},
         pc[p] \in {"idle", "claim"},
         state[<<p, to>>] = EMPTY,
         \E x \in {EMPTY, LOCKD} : state' = [state EXCEPT ![<<p, to>>] = x],
         pc' = [pc EXCEPT ![p] = "copy"],
         peer' = [peer EXCEPT ![p] = to],
         copied' = [copied EXCEPT ![p] = {}],
         known' = [known EXCEPT ![p] = @ \ {to}],
         msg'[p] \in MessagesOf[p],
         \A r \in Procs \ {p} : msg'[r] = msg[r],
         UNCHANGED <<buf, got>>
  PROVE  IndInv'
<1> DEFINE d == <<p, to>>
<1> USE DEF IndInv, Typed, TypeOK
<1>1. d \in Chan BY ChanFacts
<1>2. state'[d] \in {EMPTY, LOCKD} /\ \A c \in Chan \ {d} : state'[c] = state[c]
  BY <1>1
<1>3. \A r \in Procs \ {p} :
        pc'[r] = pc[r] /\ peer'[r] = peer[r] /\ copied'[r] = copied[r] /\ known'[r] = known[r]
  OBVIOUS
<1>4. pc'[p] = "copy" /\ peer'[p] = to /\ copied'[p] = {} /\ known'[p] = known[p] \ {to}
  OBVIOUS
<1>5. \A r \in Procs : pc[r] = "take" => <<peer[r], r>> \in Chan \ {d}
  BY ChanFacts DEF ReceiverOwns, EMPTY, MESSG, LOCKD, NoSelf
<1>6. SenderOwns'
  <2> SUFFICES ASSUME NEW r \in Procs, pc'[r] = "copy"
               PROVE  /\ state'[<<r, peer'[r]>>] \in {EMPTY, LOCKD}
                      /\ "flag" \notin copied'[r]
                      /\ \A w \in copied'[r] : buf'[<<r, peer'[r]>>][w] = msg'[r][w]
    BY DEF SenderOwns, EMPTY, LOCKD
  <2>1. CASE r = p BY <2>1, <1>2, <1>4
  <2>2. CASE r # p
    <3>1. pc[r] = "copy" /\ <<r, peer[r]>> \in Chan \ {d} BY <1>3, <2>2, ChanFacts DEF NoSelf
    <3>2. /\ state[<<r, peer[r]>>] \in {EMPTY, LOCKD}
          /\ "flag" \notin copied[r]
          /\ \A w \in copied[r] : buf[<<r, peer[r]>>][w] = msg[r][w]
      BY <3>1 DEF SenderOwns
    <3>3. state'[<<r, peer[r]>>] = state[<<r, peer[r]>>] BY <1>2, <3>1
    <3>4. msg'[r] = msg[r] BY <2>2
    <3> HIDE DEF IndInv, Typed, TypeOK
    <3> QED BY <1>3, <2>2, <3>2, <3>3, <3>4
  <2> QED BY <2>1, <2>2
<1>7. Composed' BY <1>3 DEF Composed, MessagesOf, Message
<1>8. ReceiverOwns'
  <2> SUFFICES ASSUME NEW r \in Procs, pc'[r] = "take"
               PROVE  /\ state'[<<peer'[r], r>>] \in {MESSG, LOCKD}
                      /\ \A w \in copied'[r] \cap Words : msg'[r][w] = buf'[<<peer'[r], r>>][w]
    BY DEF ReceiverOwns, MESSG, LOCKD
  <2>1. r # p /\ pc[r] = "take" BY <1>3, <1>4
  <2> QED BY <2>1, <1>2, <1>3, <1>5 DEF ReceiverOwns
<1>9. \A c \in Chan : /\ Sending(c)' => Sending(c) \/ c = d
                      /\ Receiving(c)' => Receiving(c)
  <2> SUFFICES ASSUME NEW c \in Chan
               PROVE  /\ Sending(c)' => Sending(c) \/ c = d
                      /\ Receiving(c)' => Receiving(c)
    OBVIOUS
  <2>1. c[1] \in Procs /\ c[2] \in Procs /\ c = <<c[1], c[2]>> BY ChanFacts
  <2> QED BY <1>3, <1>4, <2>1 DEF Sending, Receiving
<1>10. ~Receiving(d)
  BY <1>5 DEF Receiving
<1>11. OwnerExclusion'
  <2> SUFFICES ASSUME NEW c \in Chan, Receiving(c)' PROVE ~Sending(c)'
    BY DEF OwnerExclusion
  <2>1. Receiving(c) BY <1>9
  <2>2. ~Sending(c) BY <2>1 DEF OwnerExclusion
  <2>3. c # d BY <1>10, <2>1
  <2> QED BY <1>9, <2>2, <2>3
<1>12. KnownFree'
  <2> SUFFICES ASSUME NEW r \in Procs, NEW q \in known'[r]
               PROVE  state'[<<r, q>>] = EMPTY /\ ~Sending(<<r, q>>)'
    BY DEF KnownFree, EMPTY
  <2>1. q \in known[r] /\ <<r, q>> # d BY <1>3, <1>4
  <2>2. state[<<r, q>>] = EMPTY /\ ~Sending(<<r, q>>) BY <2>1 DEF KnownFree
  <2>3. state'[<<r, q>>] = state[<<r, q>>] BY <2>1
  <2> QED BY <1>3, <1>4, <2>1, <2>2, <2>3 DEF Sending
<1>13. Whole'
  <2> SUFFICES ASSUME NEW c \in Chan, Pending(c)' PROVE buf[c] \in MessagesOf[c[1]]
    BY DEF Whole, MessagesOf, Message
  <2>1. Pending(c) BY <1>2, <1>9, <1>10 DEF Pending, MESSG, EMPTY, LOCKD
  <2> QED BY <2>1 DEF Whole
<1>14. Intact' BY DEF Intact, MessagesOf, Message
<1> QED BY <1>6, <1>7, <1>8, <1>11, <1>12, <1>13, <1>14
\* A word is stored: the buffer is the sender's and nothing in it is pending.
LEMMA StoreWordStep ==
  ASSUME FlagLast, IndInv, Typed', NEW p \in Procs, StoreWord(p)
  PROVE  IndInv'
<1> DEFINE d == <<p, peer[p]>>
<1> USE DEF IndInv, Typed, TypeOK
<1>1. PICK w \in Words \ copied[p] : /\ buf' = [buf EXCEPT ![d][w] = msg[p][w]]
                                     /\ Stored(p, w)
  BY DEF StoreWord
<1>2. pc[p] = "copy" /\ d \in Chan /\ "flag" \notin copied[p]
  BY ChanFacts DEF StoreWord, SenderOwns, NoSelf
<1>3. Sending(d) /\ ~Receiving(d) /\ state[d] \in {EMPTY, LOCKD}
  BY <1>2 DEF Sending, OwnerExclusion, SenderOwns
<1>4. (copied[p] \cup {w}) # Cells
  BY <1>2, WordsAssumption DEF Cells
<1>5. /\ copied' = [copied EXCEPT ![p] = @ \cup {w}]
      /\ pc' = pc /\ peer' = peer /\ msg' = msg
      /\ UNCHANGED <<state, known, got>>
  <2>1. /\ copied' = [copied EXCEPT ![p] = @ \cup {w}]
        /\ pc' = [pc EXCEPT ![p] = "copy"]
        /\ peer' = [peer EXCEPT ![p] = @]
        /\ msg' = [msg EXCEPT ![p] = @]
        /\ UNCHANGED <<known, got>>
    BY <1>1, <1>4 DEF Stored
  <2>2. pc' = pc BY <1>2, <2>1
  <2>3. peer' = peer /\ msg' = msg BY <2>1
  <2> QED BY <2>1, <2>2, <2>3 DEF StoreWord
<1>6. /\ \A c \in Chan \ {d} : buf'[c] = buf[c]
      /\ buf'[d][w] = msg[p][w]
      /\ \A x \in Words \ {w} : buf'[d][x] = buf[d][x]
  BY <1>1, <1>2 DEF Content
<1>7. SenderOwns'
  <2> SUFFICES ASSUME NEW r \in Procs, pc[r] = "copy"
               PROVE  /\ state[<<r, peer[r]>>] \in {EMPTY, LOCKD}
                      /\ "flag" \notin copied'[r]
                      /\ \A x \in copied'[r] : buf'[<<r, peer[r]>>][x] = msg[r][x]
    BY <1>5 DEF SenderOwns, EMPTY, LOCKD
  <2>1. /\ state[<<r, peer[r]>>] \in {EMPTY, LOCKD}
        /\ "flag" \notin copied[r]
        /\ \A x \in copied[r] : buf[<<r, peer[r]>>][x] = msg[r][x]
    BY DEF SenderOwns
  <2>2. CASE r = p
    <3>1. copied'[r] = copied[p] \cup {w} /\ w # "flag" BY <1>5, <2>2, WordsAssumption
    <3>2. copied[p] \subseteq Words \ {w} BY <1>2 DEF Cells
    <3> QED BY <1>6, <2>1, <2>2, <3>1, <3>2
  <2>3. CASE r # p
    <3>1. copied'[r] = copied[r] /\ <<r, peer[r]>> \in Chan \ {d}
      BY <1>5, <2>3, ChanFacts DEF NoSelf
    <3> QED BY <1>6, <2>1, <3>1
  <2> QED BY <2>2, <2>3
<1>8. Composed' BY <1>5 DEF Composed, MessagesOf, Message
<1>9. ReceiverOwns'
  <2> SUFFICES ASSUME NEW r \in Procs, pc[r] = "take"
               PROVE  /\ state[<<peer[r], r>>] \in {MESSG, LOCKD}
                      /\ \A x \in copied'[r] \cap Words : msg[r][x] = buf'[<<peer[r], r>>][x]
    BY <1>5 DEF ReceiverOwns, MESSG, LOCKD
  <2>1. r # p BY <1>2
  <2>2. Receiving(<<peer[r], r>>) /\ <<peer[r], r>> \in Chan
    BY ChanFacts DEF Receiving, NoSelf
  <2>3. <<peer[r], r>> \in Chan \ {d} BY <1>3, <2>2
  <2>4. copied'[r] = copied[r] /\ buf'[<<peer[r], r>>] = buf[<<peer[r], r>>]
    BY <1>5, <1>6, <2>1, <2>3
  <2> QED BY <2>4 DEF ReceiverOwns
<1>10. \A c \in Chan : (Sending(c)' => Sending(c)) /\ (Receiving(c)' <=> Receiving(c))
  BY <1>2, <1>5 DEF Sending, Receiving
<1>11. OwnerExclusion' BY <1>10 DEF OwnerExclusion
<1>12. KnownFree'
  <2> SUFFICES ASSUME NEW r \in Procs, NEW q \in known[r]
               PROVE  state[<<r, q>>] = EMPTY /\ ~Sending(<<r, q>>)'
    BY <1>5 DEF KnownFree, EMPTY
  <2>1. state[<<r, q>>] = EMPTY /\ ~Sending(<<r, q>>) BY DEF KnownFree
  <2> QED BY <1>2, <1>5, <2>1 DEF Sending
<1>13. Whole'
  <2> SUFFICES ASSUME NEW c \in Chan, Pending(c)' PROVE buf'[c] \in MessagesOf[c[1]]
    BY DEF Whole, MessagesOf, Message
  <2>1. Pending(c) BY <1>5, <1>10 DEF Pending, MESSG
  <2>2. c # d BY <1>3, <2>1 DEF Pending, MESSG, EMPTY, LOCKD
  <2> QED BY <1>6, <2>1, <2>2 DEF Whole
<1>14. Intact' BY <1>5 DEF Intact, MessagesOf, Message
<1> QED BY <1>7, <1>8, <1>9, <1>11, <1>12, <1>13, <1>14

\* The flag is stored: the whole message is in the buffer and becomes pending.
LEMMA StoreFlagStep ==
  ASSUME FlagLast, IndInv, Typed', NEW p \in Procs, StoreFlag(p)
  PROVE  IndInv'
<1> DEFINE d == <<p, peer[p]>>
<1> USE DEF IndInv, Typed, TypeOK
<1>1. pc[p] = "copy" /\ d \in Chan /\ "flag" \notin copied[p]
  BY ChanFacts DEF StoreFlag, NoSelf
<1>2. Sending(d) /\ ~Receiving(d)
  BY <1>1 DEF Sending, OwnerExclusion
<1>3. copied[p] \cup {"flag"} = Cells
  BY DEF StoreFlag, Cells
<1>4. /\ state' = [state EXCEPT ![d] = MESSG]
      /\ \E x \in {"idle", "claim"} : pc' = [pc EXCEPT ![p] = x]
      /\ peer' = [peer EXCEPT ![p] = p]
      /\ copied' = [copied EXCEPT ![p] = {}]
      /\ UNCHANGED <<buf, known, got>>
  BY <1>3 DEF StoreFlag, Stored
<1>5. /\ pc'[p] \in {"idle", "claim"}
      /\ pc'[p] = "claim" => msg'[p] = msg[p]
      /\ \A r \in Procs \ {p} : /\ pc'[r] = pc[r] /\ peer'[r] = peer[r]
                                /\ copied'[r] = copied[r] /\ msg'[r] = msg[r]
      /\ state'[d] = MESSG
      /\ \A c \in Chan \ {d} : state'[c] = state[c]
  BY <1>1, <1>3, <1>4 DEF StoreFlag, Stored
<1>6. buf[d] \in MessagesOf[p]
  <2>1. \A w \in Words : buf[d][w] = msg[p][w]
    BY <1>1 DEF StoreFlag, SenderOwns
  <2>2. buf[d] \in Content /\ msg[p] \in Content BY <1>1
  <2>3. buf[d] = msg[p]
    <3> HIDE DEF IndInv, Typed, TypeOK, d
    <3> QED BY <2>1, <2>2 DEF Content
  <2> QED BY <1>1, <2>3 DEF Composed
<1>7. SenderOwns'
  <2> SUFFICES ASSUME NEW r \in Procs, pc'[r] = "copy"
               PROVE  /\ state'[<<r, peer'[r]>>] \in {EMPTY, LOCKD}
                      /\ "flag" \notin copied'[r]
                      /\ \A x \in copied'[r] : buf'[<<r, peer'[r]>>][x] = msg'[r][x]
    BY DEF SenderOwns, EMPTY, LOCKD
  <2>1. r # p /\ pc[r] = "copy" BY <1>5
  <2>2. <<r, peer[r]>> \in Chan \ {d} BY <2>1, ChanFacts DEF NoSelf
  <2>3. /\ state[<<r, peer[r]>>] \in {EMPTY, LOCKD}
        /\ "flag" \notin copied[r]
        /\ \A x \in copied[r] : buf[<<r, peer[r]>>][x] = msg[r][x]
    BY <2>1 DEF SenderOwns
  <2>4. state'[<<r, peer[r]>>] = state[<<r, peer[r]>>] BY <1>5, <2>2
  <2> HIDE DEF IndInv, Typed, TypeOK
  <2> QED BY <1>4, <1>5, <2>1, <2>3, <2>4
<1>8. Composed'
  <2> SUFFICES ASSUME NEW r \in Procs, pc'[r] \in {"claim", "copy"}
               PROVE  msg'[r] \in MessagesOf[r]
    BY DEF Composed, MessagesOf, Message
  <2>1. pc[r] \in {"claim", "copy"} /\ msg'[r] = msg[r] BY <1>1, <1>5
  <2> QED BY <2>1 DEF Composed
<1>9. ReceiverOwns'
  <2> SUFFICES ASSUME NEW r \in Procs, pc'[r] = "take"
               PROVE  /\ state'[<<peer'[r], r>>] \in {MESSG, LOCKD}
                      /\ \A x \in copied'[r] \cap Words : msg'[r][x] = buf'[<<peer'[r], r>>][x]
    BY DEF ReceiverOwns, MESSG, LOCKD
  <2>1. r # p /\ pc[r] = "take" BY <1>5
  <2>2. Receiving(<<peer[r], r>>) /\ <<peer[r], r>> \in Chan
    BY <2>1, ChanFacts DEF Receiving, NoSelf
  <2>3. state'[<<peer[r], r>>] = state[<<peer[r], r>>] BY <1>2, <1>5, <2>2
  <2>4. /\ state[<<peer[r], r>>] \in {MESSG, LOCKD}
        /\ \A x \in copied[r] \cap Words : msg[r][x] = buf[<<peer[r], r>>][x]
    BY <2>1 DEF ReceiverOwns
  <2> HIDE DEF IndInv, Typed, TypeOK
  <2> QED BY <1>4, <1>5, <2>1, <2>3, <2>4
<1>10. \A c \in Chan : /\ Sending(c)' => Sending(c) /\ c # d
                       /\ Receiving(c)' => Receiving(c)
  <2> SUFFICES ASSUME NEW c \in Chan
               PROVE  /\ Sending(c)' => Sending(c) /\ c # d
                      /\ Receiving(c)' => Receiving(c)
    OBVIOUS
  <2>1. c[1] \in Procs /\ c[2] \in Procs /\ c = <<c[1], c[2]>> BY ChanFacts
  <2> QED BY <1>5, <2>1 DEF Sending, Receiving
<1>11. OwnerExclusion' BY <1>10 DEF OwnerExclusion
<1>12. KnownFree'
  <2> SUFFICES ASSUME NEW r \in Procs, NEW q \in known[r]
               PROVE  state'[<<r, q>>] = EMPTY /\ ~Sending(<<r, q>>)'
    BY <1>4 DEF KnownFree, EMPTY
  <2>1. state[<<r, q>>] = EMPTY /\ ~Sending(<<r, q>>) BY DEF KnownFree
  <2>2. <<r, q>> # d BY <1>2, <2>1
  <2>3. state'[<<r, q>>] = EMPTY BY <1>4, <2>1, <2>2
  <2>4. ~Sending(<<r, q>>)' BY <1>5, <2>1 DEF Sending
  <2> QED BY <2>3, <2>4
<1>13. Whole'
  <2> SUFFICES ASSUME NEW c \in Chan, Pending(c)' PROVE buf'[c] \in MessagesOf[c[1]]
    BY DEF Whole, MessagesOf, Message
  <2>1. CASE c = d BY <1>4, <1>6, <2>1
  <2>2. CASE c # d
    <3>1. Pending(c) BY <1>5, <1>10, <2>2 DEF Pending, MESSG
    <3> QED BY <1>4, <3>1 DEF Whole
  <2> QED BY <2>1, <2>2
<1>14. Intact' BY <1>4 DEF Intact, MessagesOf, Message
<1> QED BY <1>7, <1>8, <1>9, <1>11, <1>12, <1>13, <1>14
\* A receive finds a message: from then on the buffer is the receiver's.
LEMMA ScanHitStep ==
  ASSUME IndInv, Typed', NEW p \in Procs, ScanHit(p)
  PROVE  IndInv'
<1> USE DEF IndInv, Typed, TypeOK
<1>1. PICK q \in from[p] :
        /\ state[<<q, p>>] = MESSG
        /\ state' = [state EXCEPT ![<<q, p>>] = IF RecvLocks(p, q) THEN LOCKD ELSE @]
        /\ peer' = [peer EXCEPT ![p] = q]
  BY DEF ScanHit
<1> DEFINE d == <<q, p>>
<1>2. q \in Procs /\ q # p /\ d \in Chan BY ChanFacts DEF NoSelf
<1>3. /\ pc[p] = "scan" /\ pc'[p] = "take" /\ peer'[p] = q /\ copied'[p] = {}
      /\ \A r \in Procs \ {p} : pc'[r] = pc[r] /\ peer'[r] = peer[r] /\ copied'[r] = copied[r]
      /\ UNCHANGED <<buf, msg, known, got>>
  BY <1>1 DEF ScanHit
<1>4. state'[d] \in {MESSG, LOCKD} /\ \A c \in Chan \ {d} : state'[c] = state[c]
  BY <1>1, <1>2
<1>5. ~Sending(d)
  <2>1. ~(pc[q] = "copy" /\ peer[q] = p)
    BY <1>1, <1>2 DEF SenderOwns, EMPTY, MESSG, LOCKD
  <2> QED BY <2>1 DEF Sending
<1>6. buf[d] \in MessagesOf[q] BY <1>1, <1>2 DEF Whole, Pending
<1>7. SenderOwns'
  <2> SUFFICES ASSUME NEW r \in Procs, pc'[r] = "copy"
               PROVE  /\ state'[<<r, peer'[r]>>] \in {EMPTY, LOCKD}
                      /\ "flag" \notin copied'[r]
                      /\ \A x \in copied'[r] : buf'[<<r, peer'[r]>>][x] = msg'[r][x]
    BY DEF SenderOwns, EMPTY, LOCKD
  <2>1. r # p /\ pc[r] = "copy" BY <1>3
  <2>2. <<r, peer[r]>> \in Chan BY <2>1, ChanFacts DEF NoSelf
  <2>3. /\ state[<<r, peer[r]>>] \in {EMPTY, LOCKD}
        /\ "flag" \notin copied[r]
        /\ \A x \in copied[r] : buf[<<r, peer[r]>>][x] = msg[r][x]
    BY <2>1 DEF SenderOwns
  <2>4. <<r, peer[r]>> # d BY <1>1, <2>3 DEF EMPTY, MESSG, LOCKD
  <2>5. state'[<<r, peer[r]>>] = state[<<r, peer[r]>>] BY <1>4, <2>2, <2>4
  <2> HIDE DEF IndInv, Typed, TypeOK
  <2> QED BY <1>3, <2>1, <2>3, <2>5
<1>8. Composed' BY <1>3 DEF Composed, MessagesOf, Message
<1>9. ReceiverOwns'
  <2> SUFFICES ASSUME NEW r \in Procs, pc'[r] = "take"
               PROVE  /\ state'[<<peer'[r], r>>] \in {MESSG, LOCKD}
                      /\ \A x \in copied'[r] \cap Words : msg'[r][x] = buf'[<<peer'[r], r>>][x]
    BY DEF ReceiverOwns, MESSG, LOCKD
  <2>1. CASE r = p BY <1>3, <1>4, <2>1
  <2>2. CASE r # p
    <3>1. pc[r] = "take" /\ <<peer[r], r>> \in Chan \ {d}
      BY <1>3, <2>2, ChanFacts DEF NoSelf
    <3>2. state'[<<peer[r], r>>] = state[<<peer[r], r>>] BY <1>4, <3>1
    <3>3. /\ state[<<peer[r], r>>] \in {MESSG, LOCKD}
          /\ \A x \in copied[r] \cap Words : msg[r][x] = buf[<<peer[r], r>>][x]
      BY <3>1 DEF ReceiverOwns
    <3> HIDE DEF IndInv, Typed, TypeOK
    <3> QED BY <1>3, <2>2, <3>2, <3>3
  <2> QED BY <2>1, <2>2
<1>10. \A c \in Chan : /\ Sending(c)' => Sending(c)
                       /\ Receiving(c)' => Receiving(c) \/ c = d
  <2> SUFFICES ASSUME NEW c \in Chan
               PROVE  /\ Sending(c)' => Sending(c)
                      /\ Receiving(c)' => Receiving(c) \/ c = d
    OBVIOUS
  <2>1. c[1] \in Procs /\ c[2] \in Procs /\ c = <<c[1], c[2]>> BY ChanFacts
  <2> QED BY <1>3, <2>1 DEF Sending, Receiving
<1>11. OwnerExclusion'
  <2> SUFFICES ASSUME NEW c \in Chan, Sending(c)', Receiving(c)' PROVE FALSE
    BY DEF OwnerExclusion
  <2>1. Sending(c) /\ c # d BY <1>5, <1>10
  <2> QED BY <1>10, <2>1 DEF OwnerExclusion
<1>12. KnownFree'
  <2> SUFFICES ASSUME NEW r \in Procs, NEW to \in known[r]
               PROVE  state'[<<r, to>>] = EMPTY /\ ~Sending(<<r, to>>)'
    BY <1>3 DEF KnownFree, EMPTY
  <2>1. state[<<r, to>>] = EMPTY /\ ~Sending(<<r, to>>) BY DEF KnownFree
  <2>2. <<r, to>> # d BY <1>1, <2>1 DEF EMPTY, MESSG
  <2>3. state'[<<r, to>>] = EMPTY BY <1>1, <2>1, <2>2
  <2>4. ~Sending(<<r, to>>)' BY <1>3, <2>1 DEF Sending
  <2> QED BY <2>3, <2>4
<1>13. Whole'
  <2> SUFFICES ASSUME NEW c \in Chan, Pending(c)' PROVE buf[c] \in MessagesOf[c[1]]
    BY <1>3 DEF Whole, MessagesOf, Message
  <2>1. CASE c = d BY <1>6, <2>1
  <2>2. CASE c # d
    <3>1. Pending(c) BY <1>4, <1>10, <2>2 DEF Pending, MESSG
    <3> QED BY <3>1 DEF Whole
  <2> QED BY <2>1, <2>2
<1>14. Intact' BY <1>3 DEF Intact, MessagesOf, Message
<1> QED BY <1>7, <1>8, <1>9, <1>11, <1>12, <1>13, <1>14

\* A word is loaded from a buffer that does not change meanwhile.
LEMMA LoadWordStep ==
  ASSUME IndInv, Typed', NEW p \in Procs, LoadWord(p)
  PROVE  IndInv'
<1> DEFINE d == <<peer[p], p>>
<1> USE DEF IndInv, Typed, TypeOK
<1>1. PICK w \in Words \ copied[p] :
        /\ msg' = [msg EXCEPT ![p][w] = buf[d][w]]
        /\ copied' = [copied EXCEPT ![p] = @ \cup {w}]
  BY DEF LoadWord
<1>2. /\ pc[p] = "take"
      /\ UNCHANGED <<state, buf, pc, peer, known, got>>
  BY DEF LoadWord
<1>3. /\ \A r \in Procs \ {p} : msg'[r] = msg[r] /\ copied'[r] = copied[r]
      /\ copied'[p] = copied[p] \cup {w}
      /\ msg'[p][w] = buf[d][w]
      /\ \A x \in Words \ {w} : msg'[p][x] = msg[p][x]
  BY <1>1 DEF Content
<1>4. SenderOwns' BY <1>2, <1>3 DEF SenderOwns, EMPTY, LOCKD
<1>5. Composed' BY <1>2, <1>3 DEF Composed, MessagesOf, Message
<1>6. ReceiverOwns'
  <2> SUFFICES ASSUME NEW r \in Procs, pc[r] = "take"
               PROVE  /\ state[<<peer[r], r>>] \in {MESSG, LOCKD}
                      /\ \A x \in copied'[r] \cap Words : msg'[r][x] = buf[<<peer[r], r>>][x]
    BY <1>2 DEF ReceiverOwns, MESSG, LOCKD
  <2>1. /\ state[<<peer[r], r>>] \in {MESSG, LOCKD}
        /\ \A x \in copied[r] \cap Words : msg[r][x] = buf[<<peer[r], r>>][x]
    BY DEF ReceiverOwns
  <2> HIDE DEF IndInv, Typed, TypeOK
  <2> QED BY <1>3, <2>1
<1>7. \A c \in Chan : (Sending(c)' <=> Sending(c)) /\ (Receiving(c)' <=> Receiving(c))
  <2> SUFFICES ASSUME NEW c \in Chan
               PROVE  (Sending(c)' <=> Sending(c)) /\ (Receiving(c)' <=> Receiving(c))
    OBVIOUS
  <2>1. c[1] \in Procs /\ c[2] \in Procs BY ChanFacts
  <2> QED BY <1>2, <1>3, <2>1 DEF Sending, Receiving
<1>8. OwnerExclusion' BY <1>7 DEF OwnerExclusion
<1>9. KnownFree'
  <2> SUFFICES ASSUME NEW r \in Procs, NEW to \in known[r]
               PROVE  state[<<r, to>>] = EMPTY /\ ~Sending(<<r, to>>)'
    BY <1>2 DEF KnownFree, EMPTY
  <2>1. state[<<r, to>>] = EMPTY /\ ~Sending(<<r, to>>) BY DEF KnownFree
  <2>2. ~Sending(<<r, to>>)' BY <1>2, <1>3, <2>1 DEF Sending
  <2> QED BY <2>1, <2>2
<1>10. Whole' BY <1>2, <1>7 DEF Whole, Pending, MESSG, MessagesOf, Message
<1>11. Intact' BY <1>2 DEF Intact, MessagesOf, Message
<1> QED BY <1>4, <1>5, <1>6, <1>8, <1>9, <1>10, <1>11

\* The buffer is given back and the message in the caller's hands is whole.
LEMMA ReceiveDoneStep ==
  ASSUME IndInv, Typed', NEW p \in Procs, ReceiveDone(p)
  PROVE  IndInv'
<1> DEFINE d == <<peer[p], p>>
<1> USE DEF IndInv, Typed, TypeOK
<1>1. /\ pc[p] = "take" /\ Words \subseteq copied[p] /\ d \in Chan
      /\ peer[p] \in Procs /\ peer[p] # p
  BY ChanFacts DEF ReceiveDone, NoSelf
<1>2. /\ state'[d] = EMPTY /\ \A c \in Chan \ {d} : state'[c] = state[c]
      /\ pc'[p] = "idle"
      /\ \A r \in Procs \ {p} : /\ pc'[r] = pc[r] /\ peer'[r] = peer[r]
                                /\ copied'[r] = copied[r] /\ msg'[r] = msg[r]
                                /\ got'[r] = got[r]
      /\ got'[p] = [sender |-> peer[p], msg |-> msg[p]]
      /\ UNCHANGED <<buf, known>>
  BY <1>1 DEF ReceiveDone
<1>3. Receiving(d) /\ ~Sending(d) BY <1>1 DEF Receiving, OwnerExclusion
<1>4. msg[p] \in MessagesOf[peer[p]]
  <2>1. \A w \in Words : msg[p][w] = buf[d][w] BY <1>1 DEF ReceiverOwns
  <2>2. buf[d] \in Content /\ msg[p] \in Content BY <1>1
  <2>3. msg[p] = buf[d]
    <3> HIDE DEF IndInv, Typed, TypeOK, d
    <3> QED BY <2>1, <2>2 DEF Content
  <2> QED BY <1>1, <1>3, <2>3 DEF Whole, Pending
<1>5. SenderOwns'
  <2> SUFFICES ASSUME NEW r \in Procs, pc'[r] = "copy"
               PROVE  /\ state'[<<r, peer'[r]>>] \in {EMPTY, LOCKD}
                      /\ "flag" \notin copied'[r]
                      /\ \A x \in copied'[r] : buf'[<<r, peer'[r]>>][x] = msg'[r][x]
    BY DEF SenderOwns, EMPTY, LOCKD
  <2>1. r # p /\ pc[r] = "copy" BY <1>2
  <2>2. <<r, peer[r]>> \in Chan BY <2>1, ChanFacts DEF NoSelf
  <2>3. /\ state[<<r, peer[r]>>] \in {EMPTY, LOCKD}
        /\ "flag" \notin copied[r]
        /\ \A x \in copied[r] : buf[<<r, peer[r]>>][x] = msg[r][x]
    BY <2>1 DEF SenderOwns
  <2>4. Sending(<<r, peer[r]>>) BY <2>1, <2>3 DEF Sending
  <2>5. state'[<<r, peer[r]>>] = state[<<r, peer[r]>>] BY <1>2, <1>3, <2>2, <2>4
  <2> HIDE DEF IndInv, Typed, TypeOK
  <2> QED BY <1>2, <2>1, <2>3, <2>5
<1>6. Composed'
  <2> SUFFICES ASSUME NEW r \in Procs, pc'[r] \in {"claim", "copy"}
               PROVE  msg'[r] \in MessagesOf[r]
    BY DEF Composed, MessagesOf, Message
  <2>1. pc[r] \in {"claim", "copy"} /\ msg'[r] = msg[r] BY <1>2
  <2> QED BY <2>1 DEF Composed
<1>7. ReceiverOwns'
  <2> SUFFICES ASSUME NEW r \in Procs, pc'[r] = "take"
               PROVE  /\ state'[<<peer'[r], r>>] \in {MESSG, LOCKD}
                      /\ \A x \in copied'[r] \cap Words : msg'[r][x] = buf'[<<peer'[r], r>>][x]
    BY DEF ReceiverOwns, MESSG, LOCKD
  <2>1. r # p /\ pc[r] = "take" BY <1>2
  <2>2. <<peer[r], r>> \in Chan \ {d} BY <2>1, ChanFacts DEF NoSelf
  <2>3. state'[<<peer[r], r>>] = state[<<peer[r], r>>] BY <1>2, <2>2
  <2>4. /\ state[<<peer[r], r>>] \in {MESSG, LOCKD}
        /\ \A x \in copied[r] \cap Words : msg[r][x] = buf[<<peer[r], r>>][x]
    BY <2>1 DEF ReceiverOwns
  <2> HIDE DEF IndInv, Typed, TypeOK
  <2> QED BY <1>2, <2>1, <2>3, <2>4
<1>8. \A c \in Chan : /\ Sending(c)' => Sending(c)
                      /\ Receiving(c)' => Receiving(c) /\ c # d
  <2> SUFFICES ASSUME NEW c \in Chan
               PROVE  /\ Sending(c)' => Sending(c)
                      /\ Receiving(c)' => Receiving(c) /\ c # d
    OBVIOUS
  <2>1. c[1] \in Procs /\ c[2] \in Procs /\ c = <<c[1], c[2]>> BY ChanFacts
  <2> QED BY <1>2, <2>1 DEF Sending, Receiving
<1>9. OwnerExclusion' BY <1>8 DEF OwnerExclusion
<1>10. KnownFree'
  <2> SUFFICES ASSUME NEW r \in Procs, NEW to \in known[r]
               PROVE  state'[<<r, to>>] = EMPTY /\ ~Sending(<<r, to>>)'
    BY <1>2 DEF KnownFree, EMPTY
  <2>1. state[<<r, to>>] = EMPTY /\ ~Sending(<<r, to>>) BY DEF KnownFree
  <2>2. state'[<<r, to>>] = EMPTY BY <2>1 DEF ReceiveDone
  <2>3. ~Sending(<<r, to>>)' BY <1>2, <2>1 DEF Sending
  <2> QED BY <2>2, <2>3
<1>11. Whole'
  <2> SUFFICES ASSUME NEW c \in Chan, Pending(c)' PROVE buf[c] \in MessagesOf[c[1]]
    BY <1>2 DEF Whole, MessagesOf, Message
  <2>1. Pending(c) BY <1>2, <1>8 DEF Pending, EMPTY, MESSG
  <2> QED BY <2>1 DEF Whole
<1>12. Intact'
  <2> SUFFICES ASSUME NEW r \in Procs, got'[r] # None
               PROVE  got'[r].msg \in MessagesOf[got'[r].sender] /\ got'[r].sender # r
    BY DEF Intact, MessagesOf, Message
  <2>1. CASE r = p BY <1>1, <1>2, <1>4, <2>1
  <2>2. CASE r # p BY <1>2, <2>2 DEF Intact
  <2> QED BY <2>1, <2>2
<1> QED BY <1>5, <1>6, <1>7, <1>9, <1>10, <1>11, <1>12
LEMMA IndNext == ASSUME FlagLast, IndInv, [Next]_vars PROVE IndInv'
<1>1. Typed' BY TypeNext, NoSelfNext DEF Typed, IndInv
<1> USE DEF IndInv, Typed, TypeOK
<1>2. ASSUME NEW p \in Procs, Send(p) \/ Broadcast(p) PROVE IndInv'
  <2>1. PICK S : CallSend(p, S) BY <1>2 DEF Send, Broadcast
  <2>2. Compose(p) /\ msg'[p] \in MessagesOf[p]
    BY <2>1, ComposeType DEF CallSend
  <2>3. /\ pc[p] = "idle" /\ pc' = [pc EXCEPT ![p] = "claim"]
        /\ \A r \in Procs \ {p} : msg'[r] = msg[r]
        /\ UNCHANGED <<state, buf, peer, copied, known, got>>
    BY <2>1 DEF CallSend, Compose
  <2>4. \E x : pc' = [pc EXCEPT ![p] = x] /\ x \notin {"copy", "take"}
    <3> WITNESS "claim"
    <3> QED BY <2>3
  <2> HIDE DEF IndInv, Typed, TypeOK
  <2> QED BY <1>1, <2>2, <2>3, <2>4, QuietStep
<1>3. ASSUME NEW p \in Procs, SendClaim(p) PROVE IndInv'
  <2>1. PICK to \in todo[p] :
          /\ state[<<p, to>>] = EMPTY
          /\ state' = [state EXCEPT ![<<p, to>>] = IF SendLocks(p, to) THEN LOCKD ELSE @]
          /\ peer' = [peer EXCEPT ![p] = to]
          /\ known' = [known EXCEPT ![p] = @ \ {to}]
    BY <1>3 DEF SendClaim, Claimable
  <2>2. to \in Procs \ {p} BY DEF NoSelf
  <2>3. \E x \in {EMPTY, LOCKD} : state' = [state EXCEPT ![<<p, to>>] = x]
    BY <2>1
  <2>4. /\ pc[p] = "claim" /\ pc' = [pc EXCEPT ![p] = "copy"]
        /\ copied' = [copied EXCEPT ![p] = {}]
        /\ UNCHANGED <<buf, msg, got>>
    BY <1>3 DEF SendClaim, Claimable
  <2>5. msg'[p] \in MessagesOf[p] BY <2>4 DEF Composed
  <2> QED BY <1>1, <2>1, <2>2, <2>3, <2>4, <2>5, BeginCopyStep
<1>4. ASSUME NEW p \in Procs, NEW to \in Others(p), MayNotSync(p, to), SendNoSync(p, to)
      PROVE  IndInv'
  <2>1. /\ state[<<p, to>>] = EMPTY
        /\ peer' = [peer EXCEPT ![p] = to]
        /\ known' = [known EXCEPT ![p] = @ \ {to}]
    BY <1>4 DEF SendNoSync, MayNotSync, IndInv, KnownFree
  <2>2. to \in Procs \ {p} /\ <<p, to>> \in Chan BY ChanFacts DEF Others
  <2>3. /\ pc[p] = "idle" /\ pc' = [pc EXCEPT ![p] = "copy"]
        /\ copied' = [copied EXCEPT ![p] = {}]
        /\ \A r \in Procs \ {p} : msg'[r] = msg[r]
        /\ UNCHANGED <<state, buf, got>>
    BY <1>4 DEF SendNoSync, Compose
  <2>4. state' = [state EXCEPT ![<<p, to>>] = EMPTY] BY <2>1, <2>2, <2>3
  <2>5. msg'[p] \in MessagesOf[p] BY <1>4, ComposeType DEF SendNoSync
  <2> QED BY <1>1, <2>1, <2>2, <2>3, <2>4, <2>5, BeginCopyStep
<1>5. ASSUME NEW p \in Procs,
             ReceiveFrom(p) \/ Receive(p) \/ ReceiveColor(p) \/ ReceiveColorStart(p)
      PROVE  IndInv'
  <2>1. PICK f, S, i : CallReceive(p, f, S, i)
    BY <1>5 DEF ReceiveFrom, Receive, ReceiveColor, ReceiveColorStart
  <2> QED BY <1>1, <2>1, QuietStep DEF CallReceive
<1>6. ASSUME NEW p \in Procs, ScanMiss(p) PROVE IndInv'
  <2>1. pc[p] = "scan" /\ pc' = [pc EXCEPT ![p] = "scan"]
        /\ UNCHANGED <<state, buf, peer, copied, msg, known, got>>
    BY <1>6 DEF ScanMiss
  <2> QED BY <1>1, <2>1, QuietStep
<1>7. CASE UNCHANGED vars
  <2>1. SenderOwns' /\ ReceiverOwns'
    BY <1>7 DEF vars, SenderOwns, ReceiverOwns, EMPTY, MESSG, LOCKD
  <2>2. Composed' /\ Intact'
    BY <1>7 DEF vars, Composed, Intact, MessagesOf, Message
  <2>3. OwnerExclusion' /\ KnownFree'
    BY <1>7 DEF vars, OwnerExclusion, KnownFree, Sending, Receiving, EMPTY
  <2>4. Whole'
    BY <1>7 DEF vars, Whole, Pending, Receiving, MESSG, MessagesOf, Message
  <2> QED BY <1>1, <2>1, <2>2, <2>3, <2>4
<1> HIDE DEF IndInv, Typed, TypeOK
<1> QED
  BY <1>1, <1>2, <1>3, <1>4, <1>5, <1>6, <1>7, IsFreeStep, StoreWordStep, StoreFlagStep,
     ScanHitStep, LoadWordStep, ReceiveDoneStep
     DEF Next, Caller, Library

\* The flag protocol's invariant: while the flag is stored last, the flag tells
\* whose turn the buffer is.
THEOREM Invariant == ASSUME FlagLast PROVE Spec => []IndInv
BY IndInit, IndNext, PTL DEF Spec

\* Sender and receiver never copy the same cache line at the same time.
THEOREM NeverBothCopy == ASSUME FlagLast PROVE Spec => []OwnerExclusion
<1>1. IndInv => OwnerExclusion BY DEF IndInv
<1> QED BY Invariant, <1>1, PTL

\* Once is_free has answered 1 the buffer stays free until its sender uses it,
\* so that send_no_sync may follow.
THEOREM FreeStaysFree == ASSUME FlagLast PROVE Spec => []KnownFree
<1>1. IndInv => KnownFree BY DEF IndInv
<1> QED BY Invariant, <1>1, PTL

\* Every message a receive returns is whole and from the sender it names.
THEOREM ReceivedIntact == ASSUME FlagLast PROVE Spec => []Intact
<1>1. IndInv => Intact BY DEF IndInv
<1> QED BY Invariant, <1>1, PTL
-----------------------------------------------------------------------------
(* The flag protocol implements the one-message channel *)

slotBar == [c \in Chan |-> IF Pending(c) THEN buf[c] ELSE None]

LEMMA AbstractInit == Init => Abstract!Init
BY DEF Init, Abstract!Init, Chan, Abstract!Chan, Pending, Receiving, EMPTY, MESSG

LEMMA MessagesNotNone == \A p \in Procs : \A m \in MessagesOf[p] : m # None
BY NoneAssumption DEF MessagesOf, Message, Value

\* A step that leaves alone what is pending leaves the channel alone.
LEMMA Stutter ==
  ASSUME got' = got,
         \A c \in Chan : (Pending(c)' <=> Pending(c)) /\ (Pending(c) => buf'[c] = buf[c])
  PROVE  slotBar' = slotBar /\ got' = got
BY DEF slotBar

\* A begun call, an is_free, a claim, a scan and a word copied change nothing
\* that is pending.
LEMMA QuietRefines ==
  ASSUME IndInv, NEW p \in Procs,
         pc[p] # "take", pc'[p] # "take",
         \A r \in Procs \ {p} : pc'[r] = pc[r] /\ peer'[r] = peer[r],
         UNCHANGED <<state, buf, got>>
  PROVE  slotBar' = slotBar /\ got' = got
<1>1. \A c \in Chan : Receiving(c)' <=> Receiving(c)
  <2> SUFFICES ASSUME NEW c \in Chan PROVE Receiving(c)' <=> Receiving(c)
    OBVIOUS
  <2>1. c[2] \in Procs BY ChanFacts
  <2> QED BY <2>1 DEF Receiving
<1>2. \A c \in Chan : Pending(c)' <=> Pending(c) BY <1>1 DEF Pending, MESSG
<1> QED BY <1>2, Stutter

LEMMA ClaimRefines ==
  ASSUME IndInv, NEW p \in Procs, SendClaim(p)
  PROVE  slotBar' = slotBar /\ got' = got
<1> USE DEF IndInv, Typed, TypeOK
<1>1. PICK to \in todo[p] :
        /\ state[<<p, to>>] = EMPTY
        /\ state' = [state EXCEPT ![<<p, to>>] = IF SendLocks(p, to) THEN LOCKD ELSE @]
        /\ peer' = [peer EXCEPT ![p] = to]
  BY DEF SendClaim, Claimable
<1>2. /\ pc[p] = "claim" /\ pc' = [pc EXCEPT ![p] = "copy"]
      /\ buf' = buf /\ got' = got
  BY DEF SendClaim, Claimable
<1>3. \A c \in Chan : Receiving(c)' <=> Receiving(c)
  <2> SUFFICES ASSUME NEW c \in Chan PROVE Receiving(c)' <=> Receiving(c)
    OBVIOUS
  <2>1. c[2] \in Procs BY ChanFacts
  <2> QED BY <1>1, <1>2, <2>1 DEF Receiving
<1>4. \A c \in Chan : state'[c] = MESSG <=> state[c] = MESSG
  BY <1>1 DEF EMPTY, MESSG, LOCKD
<1> QED BY <1>2, <1>3, <1>4, Stutter DEF Pending, MESSG

LEMMA StoreWordRefines ==
  ASSUME FlagLast, IndInv, NEW p \in Procs, StoreWord(p)
  PROVE  slotBar' = slotBar /\ got' = got
<1> DEFINE d == <<p, peer[p]>>
<1> USE DEF IndInv, Typed, TypeOK
<1>1. PICK w \in Words \ copied[p] : /\ buf' = [buf EXCEPT ![d][w] = msg[p][w]]
                                     /\ Stored(p, w)
  BY DEF StoreWord
<1>2. pc[p] = "copy" /\ d \in Chan /\ "flag" \notin copied[p]
  BY ChanFacts DEF StoreWord, SenderOwns, NoSelf
<1>3. Sending(d) /\ ~Receiving(d) /\ state[d] \in {EMPTY, LOCKD}
  BY <1>2 DEF Sending, OwnerExclusion, SenderOwns
<1>4. pc'[p] # "take" BY <1>1 DEF Stored
<1>5. /\ \A r \in Procs \ {p} : pc'[r] = pc[r] /\ peer'[r] = peer[r]
      /\ got' = got /\ state' = state
  BY <1>1 DEF Stored, StoreWord
<1>6. \A c \in Chan \ {d} : buf'[c] = buf[c]
  BY <1>1, <1>2
<1>7. \A c \in Chan : Receiving(c)' <=> Receiving(c)
  <2> SUFFICES ASSUME NEW c \in Chan PROVE Receiving(c)' <=> Receiving(c)
    OBVIOUS
  <2>1. c[2] \in Procs BY ChanFacts
  <2> QED BY <1>2, <1>4, <1>5, <2>1 DEF Receiving
<1>8. ~Pending(d) BY <1>3 DEF Pending, EMPTY, MESSG, LOCKD
<1>9. \A c \in Chan : (Pending(c)' <=> Pending(c)) /\ (Pending(c) => buf'[c] = buf[c])
  BY <1>5, <1>6, <1>7, <1>8 DEF Pending, MESSG
<1> QED BY <1>5, <1>9, Stutter

LEMMA ScanHitRefines ==
  ASSUME IndInv, NEW p \in Procs, ScanHit(p)
  PROVE  slotBar' = slotBar /\ got' = got
<1> USE DEF IndInv, Typed, TypeOK
<1>1. PICK q \in from[p] :
        /\ state[<<q, p>>] = MESSG
        /\ state' = [state EXCEPT ![<<q, p>>] = IF RecvLocks(p, q) THEN LOCKD ELSE @]
        /\ peer' = [peer EXCEPT ![p] = q]
  BY DEF ScanHit
<1> DEFINE d == <<q, p>>
<1>2. q \in Procs /\ q # p /\ d \in Chan BY ChanFacts DEF NoSelf
<1>3. /\ pc[p] = "scan" /\ pc'[p] = "take" /\ peer'[p] = q
      /\ \A r \in Procs \ {p} : pc'[r] = pc[r] /\ peer'[r] = peer[r]
      /\ buf' = buf /\ got' = got
  BY <1>1 DEF ScanHit
<1>4. \A c \in Chan : Receiving(c)' <=> Receiving(c) \/ c = d
  <2> SUFFICES ASSUME NEW c \in Chan PROVE Receiving(c)' <=> Receiving(c) \/ c = d
    OBVIOUS
  <2>1. c[1] \in Procs /\ c[2] \in Procs /\ c = <<c[1], c[2]>> BY ChanFacts
  <2> QED BY <1>3, <2>1 DEF Receiving
<1>5. \A c \in Chan \ {d} : state'[c] = state[c] BY <1>1
<1>6. \A c \in Chan : Pending(c)' <=> Pending(c)
  <2> SUFFICES ASSUME NEW c \in Chan PROVE Pending(c)' <=> Pending(c)
    OBVIOUS
  <2>1. CASE c = d BY <1>1, <1>4, <2>1 DEF Pending
  <2>2. CASE c # d BY <1>4, <1>5, <2>2 DEF Pending, MESSG
  <2> QED BY <2>1, <2>2
<1> QED BY <1>3, <1>6, Stutter

LEMMA LoadWordRefines ==
  ASSUME NEW p \in Procs, LoadWord(p)
  PROVE  slotBar' = slotBar /\ got' = got
BY DEF LoadWord, slotBar, Pending, Receiving, MESSG

\* The store of the flag is the abstract send.
LEMMA StoreFlagRefines ==
  ASSUME FlagLast, IndInv, IndInv', NEW p \in Procs, StoreFlag(p)
  PROVE  Abstract!Next
<1> USE DEF IndInv, Typed, TypeOK
<1>0. PICK d : d = <<p, peer[p]>> OBVIOUS
<1>1. pc[p] = "copy" /\ d \in Chan /\ "flag" \notin copied[p]
  BY <1>0, ChanFacts DEF StoreFlag, NoSelf
<1>2. Sending(d) /\ ~Receiving(d) /\ state[d] \in {EMPTY, LOCKD}
  BY <1>0, <1>1 DEF Sending, OwnerExclusion, SenderOwns
<1>3. /\ state' = [state EXCEPT ![d] = MESSG]
      /\ buf' = buf /\ got' = got
      /\ pc'[p] # "take"
      /\ \A r \in Procs \ {p} : pc'[r] = pc[r] /\ peer'[r] = peer[r]
  BY <1>0 DEF StoreFlag, Stored
<1>4. \A c \in Chan : Receiving(c)' <=> Receiving(c)
  <2> SUFFICES ASSUME NEW c \in Chan PROVE Receiving(c)' <=> Receiving(c)
    OBVIOUS
  <2>1. c[2] \in Procs BY ChanFacts
  <2> QED BY <1>0, <1>1, <1>3, <2>1 DEF Receiving
<1>5. ~Pending(d) /\ Pending(d)'
  BY <1>0, <1>1, <1>2, <1>3 DEF Pending, EMPTY, MESSG, LOCKD
<1>6. \A c \in Chan \ {d} : Pending(c)' <=> Pending(c)
  BY <1>3, <1>4 DEF Pending, MESSG
<1>7. buf[d] \in MessagesOf[d[1]]
  <2>1. buf'[d] \in MessagesOf[d[1]] BY <1>0, <1>1, <1>5 DEF Whole, MessagesOf, Message
  <2> QED BY <1>3, <2>1
<1>8. slotBar[d] = None /\ slotBar' = [slotBar EXCEPT ![d] = buf[d]]
  <2> HIDE DEF IndInv, Typed, TypeOK
  <2> QED BY <1>0, <1>1, <1>3, <1>5, <1>6 DEF slotBar
<1> QED BY <1>0, <1>1, <1>3, <1>7, <1>8
        DEF Abstract!Next, Abstract!Send, Abstract!Chan, Chan, slotBar

\* The release of the buffer is the abstract receive.
LEMMA ReceiveDoneRefines ==
  ASSUME IndInv, NEW p \in Procs, ReceiveDone(p)
  PROVE  Abstract!Next
<1> USE DEF IndInv, Typed, TypeOK
<1>0. PICK d : d = <<peer[p], p>> OBVIOUS
<1>1. /\ pc[p] = "take" /\ Words \subseteq copied[p] /\ d \in Chan
      /\ peer[p] \in Procs /\ peer[p] # p
  BY <1>0, ChanFacts DEF ReceiveDone, NoSelf
<1>2. /\ state' = [state EXCEPT ![d] = EMPTY]
      /\ got' = [got EXCEPT ![p] = [sender |-> peer[p], msg |-> msg[p]]]
      /\ pc'[p] = "idle" /\ buf' = buf
      /\ \A r \in Procs \ {p} : pc'[r] = pc[r] /\ peer'[r] = peer[r]
  BY <1>0 DEF ReceiveDone
<1>3. Receiving(d) BY <1>0, <1>1 DEF Receiving
<1>4. \A c \in Chan : Receiving(c)' <=> Receiving(c) /\ c # d
  <2> SUFFICES ASSUME NEW c \in Chan PROVE Receiving(c)' <=> Receiving(c) /\ c # d
    OBVIOUS
  <2>1. c[1] \in Procs /\ c[2] \in Procs /\ c = <<c[1], c[2]>> BY ChanFacts
  <2> QED BY <1>0, <1>1, <1>2, <2>1 DEF Receiving
<1>5. Pending(d) /\ ~Pending(d)'
  BY <1>0, <1>1, <1>2, <1>3, <1>4 DEF Pending, EMPTY, MESSG
<1>6. \A c \in Chan \ {d} : Pending(c)' <=> Pending(c)
  BY <1>0, <1>2, <1>4 DEF Pending, MESSG
<1>7. msg[p] = buf[d] /\ buf[d] # None
  <2>1. \A w \in Words : msg[p][w] = buf[d][w] BY <1>0, <1>1 DEF ReceiverOwns
  <2>2. buf[d] \in Content /\ msg[p] \in Content BY <1>1
  <2>3. msg[p] = buf[d]
    <3> HIDE DEF IndInv, Typed, TypeOK
    <3> QED BY <2>1, <2>2 DEF Content
  <2>4. buf[d] \in MessagesOf[peer[p]] BY <1>0, <1>1, <1>5 DEF Whole
  <2> QED BY <1>0, <1>1, <2>3, <2>4, MessagesNotNone
<1>8. slotBar[d] = buf[d] /\ slotBar' = [slotBar EXCEPT ![d] = None]
  <2> HIDE DEF IndInv, Typed, TypeOK
  <2> QED BY <1>0, <1>1, <1>2, <1>5, <1>6 DEF slotBar
<1> QED BY <1>0, <1>1, <1>2, <1>7, <1>8
        DEF Abstract!Next, Abstract!Receive, Abstract!Chan, Chan, slotBar
LEMMA AbstractStep ==
  ASSUME FlagLast, IndInv, IndInv', [Next]_vars
  PROVE  Abstract!Next \/ (slotBar' = slotBar /\ got' = got)
<1>1. ASSUME NEW p \in Procs, Caller(p) PROVE slotBar' = slotBar /\ got' = got
  <2>1. pc[p] = "idle" BY <1>1 DEF Caller, Send, Broadcast, IsFree, SendNoSync,
          ReceiveFrom, Receive, ReceiveColor, ReceiveColorStart, CallSend, CallReceive, Compose
  <2>2. UNCHANGED <<state, buf, got>>
    BY <1>1 DEF Caller, Send, Broadcast, IsFree, SendNoSync,
          ReceiveFrom, Receive, ReceiveColor, ReceiveColorStart, CallSend, CallReceive
  <2>3. pc'[p] # "take" /\ \A r \in Procs \ {p} : pc'[r] = pc[r] /\ peer'[r] = peer[r]
    <3> USE DEF IndInv, Typed, TypeOK
    <3>1. CASE Send(p) \/ Broadcast(p) BY <3>1 DEF Send, Broadcast, CallSend
    <3>2. CASE IsFree(p) BY <2>1, <3>2 DEF IsFree
    <3>3. CASE \E to \in Others(p) : SendNoSync(p, to) BY <3>3 DEF SendNoSync
    <3>4. CASE ReceiveFrom(p) \/ Receive(p) \/ ReceiveColor(p) \/ ReceiveColorStart(p)
      <4>1. PICK f, S, i : CallReceive(p, f, S, i)
        BY <3>4 DEF ReceiveFrom, Receive, ReceiveColor, ReceiveColorStart
      <4> QED BY <4>1 DEF CallReceive
    <3> QED BY <1>1, <3>1, <3>2, <3>3, <3>4 DEF Caller
  <2> QED BY <2>1, <2>2, <2>3, QuietRefines
<1>2. ASSUME NEW p \in Procs, ScanMiss(p) PROVE slotBar' = slotBar /\ got' = got
  BY <1>2, QuietRefines DEF ScanMiss
<1>3. CASE UNCHANGED vars
  BY <1>3 DEF vars, slotBar, Pending, Receiving, MESSG
<1> QED
  BY <1>1, <1>2, <1>3, ClaimRefines, StoreWordRefines, StoreFlagRefines, ScanHitRefines,
     LoadWordRefines, ReceiveDoneRefines
     DEF Next, Library

\* The messaging of ssmp implements the one-message channel: nothing is lost,
\* overwritten, duplicated, torn or handed to another process.
THEOREM Refinement == ASSUME FlagLast PROVE Spec => ImplementsChannel
<1>1. Init => Abstract!Init BY AbstractInit
<1>2. IndInv /\ IndInv' /\ [Next]_vars => [Abstract!Next]_(Abstract!vars)
  BY AbstractStep DEF Abstract!vars, slotBar
<1> QED BY <1>1, <1>2, Invariant, PTL DEF Spec, ImplementsChannel, Abstract!Spec
=============================================================================
