----------------------------- MODULE TileProofs -----------------------------
(***************************************************************************)
(* Theorems about the Tilera port, for any number of processes.  Barriers: *)
(* when only participants wait, a barrier that counts calls is one that    *)
(* waits for all participants.  Messages: the one queue of a process does  *)
(* for receives that name a sender.                                        *)
(***************************************************************************)
EXTENDS TileBarrier, Sequences, FiniteSetTheorems, TLAPS

-----------------------------------------------------------------------------
(* Barriers: the invariant *)

Typed ==
  /\ forked \in BOOLEAN
  /\ party \in [Barriers -> SUBSET Procs]
  /\ count \in [Barriers -> Nat]
  /\ waiting \in [Barriers -> SUBSET Procs]
  /\ leaving \in [Barriers -> SUBSET Procs]
  /\ arrivals \in [Barriers -> [Procs -> Nat]]
  /\ departures \in [Barriers -> [Procs -> Nat]]

\* A barrier counts its participants, and nobody waits before the fork.
Counts ==
  \A b \in Barriers :
    /\ count[b] = Cardinality(party[b])
    /\ waiting[b] \cup leaving[b] \subseteq party[b]
    /\ waiting[b] \cap leaving[b] = {}
    /\ waiting[b] = {} \/ Cardinality(waiting[b]) < count[b]
    /\ ~forked => waiting[b] = {} /\ leaving[b] = {}
                  /\ \A p \in Procs : arrivals[b][p] = 0

\* k rounds of barrier b are complete: who may leave has not left the last of
\* them, who waits has entered the next, everybody else is between them.
Complete(b, k) ==
  \A p \in Procs :
    /\ p \in leaving[b] => arrivals[b][p] = k /\ departures[b][p] = k - 1
    /\ p \in waiting[b] => arrivals[b][p] = k + 1 /\ departures[b][p] = k
    /\ p \in party[b] \ (leaving[b] \cup waiting[b])
         => arrivals[b][p] = k /\ departures[b][p] = k
    /\ p \notin party[b] => arrivals[b][p] = 0 /\ departures[b][p] = 0

Rounds == \A b \in Barriers : \E k \in Nat : Complete(b, k)

RoundInv == Typed /\ Counts /\ Rounds

-----------------------------------------------------------------------------
(* Barriers: the invariant holds *)

LEMMA ProcsFinite ==
  ASSUME Parameters
  PROVE  IsFiniteSet(Procs) /\ Cardinality(Procs) = N
<1>1. N \in Nat /\ N > 0 BY DEF Parameters
<1>2. 0 \in Int /\ N - 1 \in Int /\ ~(0 > N - 1) BY <1>1
<1>3. IsFiniteSet(0 .. N - 1) BY <1>2, FS_Interval
<1>4. Cardinality(0 .. N - 1) = N - 1 - 0 + 1 BY <1>2, FS_Interval
<1> QED BY <1>1, <1>3, <1>4 DEF Procs

LEMMA PartOfProcs ==
  ASSUME Parameters, NEW S \in SUBSET Procs
  PROVE  IsFiniteSet(S) /\ Cardinality(S) \in Nat
BY ProcsFinite, FS_Subset, FS_CardinalityType

LEMMA RoundInit ==
  ASSUME Parameters, Init
  PROVE  RoundInv
<1>1. Typed BY DEF Init, Typed, Parameters
<1>2. Counts BY ProcsFinite DEF Init, Counts
<1>3. ASSUME NEW b \in Barriers PROVE Complete(b, 0)
  BY DEF Init, Complete
<1> QED BY <1>1, <1>2, <1>3 DEF RoundInv, Rounds

\* The call that completes the count has everybody else waiting.
LEMMA AllWait ==
  ASSUME Parameters, RoundInv, NEW b \in Barriers, NEW p \in party[b],
         p \notin waiting[b], Cardinality(waiting[b]) + 1 = count[b]
  PROVE  waiting[b] \cup {p} = party[b]
<1>1. party[b] \in SUBSET Procs /\ waiting[b] \in SUBSET party[b]
  BY DEF RoundInv, Typed, Counts
<1>2. IsFiniteSet(party[b]) /\ IsFiniteSet(waiting[b])
  BY <1>1, PartOfProcs
<1>3. Cardinality(waiting[b] \cup {p}) = Cardinality(party[b])
  BY <1>2, FS_AddElement DEF RoundInv, Counts
<1>4. waiting[b] \cup {p} \subseteq party[b] BY <1>1
<1> QED BY <1>2, <1>3, <1>4, FS_Subset

\* Who arrives is between two rounds.
LEMMA Arriver ==
  ASSUME RoundInv, NEW b \in Barriers, NEW p \in Procs, MayWait(b, p), Arrive(b, p)
  PROVE  p \in party[b] /\ p \notin waiting[b] /\ p \notin leaving[b]
<1>1. arrivals[b][p] = departures[b][p] /\ p \in party[b] BY DEF Arrive, MayWait
<1>2. PICK k \in Nat : Complete(b, k) BY DEF RoundInv, Rounds
<1> QED BY <1>1, <1>2 DEF Complete

LEMMA CountsStep ==
  ASSUME Parameters, RoundInv, [Next]_vars
  PROVE  Typed' /\ Counts'
<1>t. Typed /\ Counts BY DEF RoundInv
<1>1. ASSUME NEW b \in Barriers, NEW S \in Colors, BarrierInit(b, S)
      PROVE  Typed' /\ Counts'
  <2>1. S \in SUBSET Procs /\ Cardinality(S) \in Nat BY PartOfProcs DEF Parameters
  <2> QED BY <1>1, <1>t, <2>1 DEF BarrierInit, Typed, Counts, barrier
<1>2. CASE Fork BY <1>2, <1>t DEF Fork, Typed, Counts, barrier
<1>3. ASSUME NEW b \in Barriers, NEW p \in Procs, MayWait(b, p), Arrive(b, p)
      PROVE  Typed' /\ Counts'
  <2>1. p \in party[b] /\ p \notin waiting[b] /\ p \notin leaving[b] BY <1>3, Arriver
  <2>2. IsFiniteSet(waiting[b]) /\ Cardinality(waiting[b]) \in Nat
    BY <1>t, PartOfProcs DEF Typed
  <2>3. Cardinality(waiting[b] \cup {p}) = Cardinality(waiting[b]) + 1
    BY <2>1, <2>2, FS_AddElement
  <2>4. IsFiniteSet(party[b]) /\ Cardinality(party[b]) \in Nat
    BY <1>t, PartOfProcs DEF Typed
  <2>5. Cardinality(waiting[b] \cup {p}) <= Cardinality(party[b])
    BY <1>t, <2>1, <2>4, FS_Subset DEF Counts
  <2>6. arrivals' \in [Barriers -> [Procs -> Nat]] BY <1>3, <1>t DEF Arrive, Typed
  <2>7. CASE Cardinality(waiting[b]) + 1 = count[b]
    <3>1. /\ leaving' = [leaving EXCEPT ![b] = @ \cup waiting[b] \cup {p}]
          /\ waiting' = [waiting EXCEPT ![b] = {}]
          /\ UNCHANGED <<forked, party, count, departures>> /\ forked
      BY <1>3, <2>7 DEF Arrive
    <3> QED BY <1>t, <2>1, <2>6, <3>1 DEF Typed, Counts
  <2>8. CASE Cardinality(waiting[b]) + 1 # count[b]
    <3>1. /\ leaving' = leaving
          /\ waiting' = [waiting EXCEPT ![b] = @ \cup {p}]
          /\ UNCHANGED <<forked, party, count, departures>> /\ forked
      BY <1>3, <2>8 DEF Arrive
    <3>2. Cardinality(waiting[b] \cup {p}) < count[b]
      BY <1>t, <2>2, <2>3, <2>4, <2>5, <2>8 DEF Counts
    <3> QED BY <1>t, <2>1, <2>6, <3>1, <3>2 DEF Typed, Counts
  <2> QED BY <2>7, <2>8
<1>4. ASSUME NEW b \in Barriers, NEW p \in Procs, Depart(b, p)
      PROVE  Typed' /\ Counts'
  BY <1>4, <1>t DEF Depart, Typed, Counts
<1>5. CASE UNCHANGED vars BY <1>5, <1>t DEF vars, barrier, Typed, Counts
<1> QED BY <1>1, <1>2, <1>3, <1>4, <1>5 DEF Next

LEMMA RoundsStep ==
  ASSUME Parameters, RoundInv, [Next]_vars, NEW a \in Barriers
  PROVE  \E k \in Nat : Complete(a, k)'
<1>t. Typed /\ Counts BY DEF RoundInv
<1>k. PICK k \in Nat : Complete(a, k) BY DEF RoundInv, Rounds
<1>s. ASSUME party'[a] = party[a], waiting'[a] = waiting[a], leaving'[a] = leaving[a],
             arrivals'[a] = arrivals[a], departures'[a] = departures[a]
      PROVE  Complete(a, k)'
  BY <1>s, <1>k DEF Complete
<1>1. ASSUME NEW b \in Barriers, NEW S \in Colors, BarrierInit(b, S)
      PROVE  \E j \in Nat : Complete(a, j)'
  <2>1. CASE a # b BY <1>1, <1>s, <1>t, <2>1 DEF BarrierInit, Typed, barrier
  <2>2. CASE a = b
    <3>1. /\ \A p \in Procs : arrivals'[a][p] = 0
          /\ waiting'[a] = {} /\ leaving'[a] = {}
      BY <1>1, <1>t DEF BarrierInit, Counts, barrier
    <3>2. \A p \in Procs : departures'[a][p] = 0
      BY <1>1, <1>k, <1>t DEF BarrierInit, Counts, Complete, barrier
    <3>3. Complete(a, 0)' BY <3>1, <3>2 DEF Complete
    <3> QED BY <3>3
  <2> QED BY <2>1, <2>2
<1>2. CASE Fork BY <1>2, <1>s DEF Fork, barrier
<1>3. ASSUME NEW b \in Barriers, NEW p \in Procs, MayWait(b, p), Arrive(b, p)
      PROVE  \E j \in Nat : Complete(a, j)'
  <2>1. CASE a # b
    <3>1. /\ party'[a] = party[a] /\ departures'[a] = departures[a]
          /\ arrivals'[a] = arrivals[a]
      BY <1>3, <1>t, <2>1 DEF Arrive, Typed
    <3>2. waiting'[a] = waiting[a] /\ leaving'[a] = leaving[a]
      BY <1>3, <1>t, <2>1 DEF Arrive, Typed
    <3> QED BY <1>s, <3>1, <3>2
  <2>2. CASE a = b
    <3>1. p \in party[b] /\ p \notin waiting[b] /\ p \notin leaving[b] BY <1>3, Arriver
    <3>2. arrivals[b][p] = k /\ departures[b][p] = k BY <1>k, <2>2, <3>1 DEF Complete
    <3>3. /\ arrivals'[b][p] = k + 1
          /\ \A q \in Procs \ {p} : arrivals'[b][q] = arrivals[b][q]
          /\ departures' = departures /\ party' = party
      BY <1>3, <1>t, <3>2 DEF Arrive, Typed
    <3>4. CASE Cardinality(waiting[b]) + 1 = count[b]
      <4>1. waiting[b] \cup {p} = party[b] BY <3>1, <3>4, AllWait
      <4>2. leaving[b] = {} BY <1>t, <3>1, <4>1 DEF Counts
      <4>3. leaving'[b] = party[b] /\ waiting'[b] = {}
        BY <1>3, <1>t, <3>4, <4>1, <4>2 DEF Arrive, Typed
      <4>4. Complete(b, k + 1)' BY <1>k, <2>2, <3>2, <3>3, <4>1, <4>3 DEF Complete
      <4> QED BY <2>2, <4>4
    <3>5. CASE Cardinality(waiting[b]) + 1 # count[b]
      <4>1. leaving'[b] = leaving[b] /\ waiting'[b] = waiting[b] \cup {p}
        BY <1>3, <1>t, <3>5 DEF Arrive, Typed
      <4>2. Complete(b, k)' BY <1>k, <2>2, <3>1, <3>2, <3>3, <4>1 DEF Complete
      <4> QED BY <2>2, <4>2
    <3> QED BY <3>4, <3>5
  <2> QED BY <2>1, <2>2
<1>4. ASSUME NEW b \in Barriers, NEW p \in Procs, Depart(b, p)
      PROVE  \E j \in Nat : Complete(a, j)'
  <2>1. CASE a # b BY <1>4, <1>s, <1>t, <2>1 DEF Depart, Typed
  <2>2. CASE a = b
    <3>1. /\ leaving'[b] = leaving[b] \ {p} /\ waiting' = waiting /\ party' = party
          /\ arrivals' = arrivals /\ departures'[b][p] = departures[b][p] + 1
          /\ \A q \in Procs \ {p} : departures'[b][q] = departures[b][q]
          /\ p \in leaving[b]
      BY <1>4, <1>t DEF Depart, Typed
    <3>2. p \in party[b] /\ p \notin waiting[b] BY <1>t, <3>1 DEF Counts
    <3>3. arrivals[b][p] = k /\ departures[b][p] = k - 1 BY <1>k, <2>2, <3>1 DEF Complete
    <3>4. Complete(b, k)' BY <1>k, <2>2, <3>1, <3>2, <3>3 DEF Complete
    <3> QED BY <2>2, <3>4
  <2> QED BY <2>1, <2>2
<1>5. CASE UNCHANGED vars BY <1>5, <1>s DEF vars, barrier
<1> QED BY <1>1, <1>2, <1>3, <1>4, <1>5 DEF Next

LEMMA Invariant ==
  ASSUME Parameters
  PROVE  Spec => []RoundInv
<1>1. Init => RoundInv BY RoundInit
<1>2. RoundInv /\ [Next]_vars => RoundInv'
  <2> SUFFICES ASSUME RoundInv, [Next]_vars PROVE RoundInv'
    OBVIOUS
  <2>1. Typed' /\ Counts' BY CountsStep
  <2>2. Rounds' BY RoundsStep DEF Rounds
  <2> QED BY <2>1, <2>2 DEF RoundInv
<1> QED BY <1>1, <1>2, PTL DEF Spec

-----------------------------------------------------------------------------
(* Barriers: what follows from it *)

\* Nobody is both waiting and free to leave, those who wait are fewer than the
\* count, and inside are exactly those who have entered and not left.
THEOREM TypeCorrect ==
  ASSUME Parameters
  PROVE  Spec => []TypeOK
<1>1. ASSUME RoundInv PROVE TypeOK
  <2>t. Typed /\ Counts BY <1>1 DEF RoundInv
  <2>1. ASSUME NEW b \in Barriers PROVE count[b] \in 0 .. N
    <3>1. Cardinality(party[b]) <= Cardinality(Procs)
      BY <2>t, ProcsFinite, FS_Subset DEF Typed
    <3> QED BY <2>t, <3>1, ProcsFinite DEF Typed, Counts, Parameters
  <2>2. count \in [Barriers -> 0 .. N] BY <2>t, <2>1 DEF Typed
  <2>3. ASSUME NEW b \in Barriers
        PROVE  waiting[b] \cup leaving[b] = {p \in Procs : departures[b][p] < arrivals[b][p]}
    <3>1. PICK k \in Nat : Complete(b, k) BY <1>1 DEF RoundInv, Rounds
    <3>2. \A p \in Procs : p \in waiting[b] \cup leaving[b] <=> departures[b][p] < arrivals[b][p]
      BY <2>t, <3>1 DEF Complete, Typed, Counts
    <3> QED BY <2>t, <3>2 DEF Typed
  <2> QED BY <2>t, <2>2, <2>3 DEF Typed, Counts, TypeOK
<1> QED BY <1>1, Invariant, PTL

LEMMA StepRefines ==
  ASSUME Parameters, RoundInv, [Next]_vars
  PROVE  [Abstract!Next]_(Abstract!vars)
<1>t. Typed /\ Counts BY DEF RoundInv
<1>1. ASSUME NEW b \in Barriers, NEW S \in Colors, BarrierInit(b, S)
      PROVE  Abstract!Next
  <2>1. S \in SUBSET Procs BY DEF Parameters
  <2>2. Abstract!Choose(b, S)
    BY <1>1, <1>t DEF BarrierInit, Counts, Abstract!Choose, barrier
  <2> QED BY <2>1, <2>2 DEF Abstract!Next
<1>2. CASE Fork BY <1>2 DEF Fork, barrier, Abstract!vars
<1>3. ASSUME NEW b \in Barriers, NEW p \in Procs, MayWait(b, p), Arrive(b, p)
      PROVE  Abstract!Next
  <2>1. Abstract!Arrive(b, p) BY <1>3 DEF Arrive, MayWait, Abstract!Arrive
  <2> QED BY <2>1 DEF Abstract!Next
<1>4. ASSUME NEW b \in Barriers, NEW p \in Procs, Depart(b, p)
      PROVE  Abstract!Next
  <2>1. PICK k \in Nat : Complete(b, k) BY DEF RoundInv, Rounds
  <2>2. p \in leaving[b] /\ p \in party[b] BY <1>4, <1>t DEF Depart, Counts
  <2>3. departures[b][p] = k - 1 /\ arrivals[b][p] = k BY <2>1, <2>2 DEF Complete
  <2>4. \A q \in party[b] : arrivals[b][q] \in {k, k + 1}
    BY <1>t, <2>1 DEF Complete, Typed
  <2>5. Abstract!Depart(b, p)
    BY <1>4, <2>2, <2>3, <2>4 DEF Depart, Abstract!Depart
  <2> QED BY <2>5 DEF Abstract!Next
<1>5. CASE UNCHANGED vars BY <1>5 DEF vars, barrier, Abstract!vars
<1> QED BY <1>1, <1>2, <1>3, <1>4, <1>5 DEF Next

\* A barrier that counts calls, when only participants make them, lets nobody
\* leave a round before all participants have entered it, however often it is
\* used: it implements the barrier of the other ports.
THEOREM Refinement ==
  ASSUME Parameters
  PROVE  Spec => ImplementsBarrier
<1>1. Init => Abstract!Init BY DEF Init, Abstract!Init
<1>2. RoundInv /\ [Next]_vars => [Abstract!Next]_(Abstract!vars) BY StepRefines
<1> QED BY <1>1, <1>2, Invariant, PTL DEF Spec, ImplementsBarrier, Abstract!Spec

-----------------------------------------------------------------------------
(* Messages: the invariant, for clients that receive an answer before they   *)
(* ask again, as those of the benchmarks do                                  *)

CONSTANTS Servers, Ahead, Cap
VARIABLES active, queue, msg, reply, owed, last

UDN == INSTANCE Tile

Clients == UDN!Clients

QueueTyped ==
  /\ active \subseteq Procs
  /\ queue \in [Procs -> Seq(Procs)]
  /\ \A p \in Procs : Len(queue[p]) <= Cap
  /\ msg \in [Procs -> Procs]
  /\ reply \subseteq Servers
  /\ owed \in [Procs -> Seq(Servers)]
  /\ last \in [Procs -> Procs \X Procs]

\* Servers hear of clients alone.
FromClients ==
  /\ \A s \in Servers : \A i \in 1 .. Len(queue[s]) : queue[s][i] \in Clients
  /\ \A s \in reply : msg[s] \in Clients

\* A client has asked one server at most, and what it has asked is in one place:
\* once in the queue of that server, in the message it is about to answer, or
\* answered in the queue of the client.
OnePlace ==
  \A p \in Clients :
    /\ owed[p] = <<>> \/ \E s \in Servers : owed[p] = <<s>>
    /\ \A s \in Servers : \A i \in 1 .. Len(queue[s]) :
         queue[s][i] = p => /\ owed[p] = <<s>> /\ queue[p] = <<>>
                            /\ ~(s \in reply /\ msg[s] = p)
                            /\ \A j \in 1 .. Len(queue[s]) : queue[s][j] = p => j = i
    /\ \A s \in reply : msg[s] = p => owed[p] = <<s>> /\ queue[p] = <<>>
    /\ queue[p] # <<>> => queue[p] = owed[p]

UDNInv == QueueTyped /\ FromClients /\ OnePlace /\ UDN!FromAsked

-----------------------------------------------------------------------------
(* Messages: the invariant holds *)

LEMMA Kinds ==
  ASSUME UDN!Parameters
  PROVE  /\ UDN!Procs = Procs /\ Clients = Procs \ Servers /\ Servers \subseteq Procs
         /\ 0 \in Procs /\ Cap \in Nat /\ Cap > 0
BY DEF UDN!Parameters, UDN!Procs, Procs, Clients, UDN!Clients

LEMMA UDNInit ==
  ASSUME UDN!Parameters, UDN!Init
  PROVE  UDNInv
<1>k. /\ UDN!Procs = Procs /\ Clients \subseteq Procs /\ Servers \subseteq Procs
      /\ 0 \in Procs /\ Cap \in Nat
  BY Kinds
<1>1. \A p \in Procs : queue[p] = <<>> /\ owed[p] = <<>> /\ last[p] = <<0, 0>>
  BY <1>k DEF UDN!Init
<1>2. /\ queue \in [Procs -> Seq(Procs)] /\ owed \in [Procs -> Seq(Servers)]
      /\ msg \in [Procs -> Procs] /\ last \in [Procs -> Procs \X Procs]
      /\ active = {} /\ reply = {}
  BY <1>k DEF UDN!Init
<1>3. QueueTyped BY <1>k, <1>1, <1>2 DEF QueueTyped
<1>4. FromClients BY <1>k, <1>1, <1>2 DEF FromClients
<1>5. OnePlace BY <1>k, <1>1, <1>2 DEF OnePlace
<1>6. UDN!FromAsked BY <1>k, <1>1 DEF UDN!FromAsked, Clients
<1> QED BY <1>3, <1>4, <1>5, <1>6 DEF UDNInv

\* A client that owes nothing is heard of nowhere.
LEMMA Nowhere ==
  ASSUME UDN!Parameters, UDNInv, NEW p \in Clients, owed[p] = <<>>
  PROVE  /\ queue[p] = <<>>
         /\ \A s \in Servers : \A i \in 1 .. Len(queue[s]) : queue[s][i] # p
         /\ \A s \in reply : msg[s] # p
<1>1. \A s : owed[p] # <<s>> OBVIOUS
<1>2. OnePlace BY DEF UDNInv
<1>3. queue[p] = <<>> BY <1>2 DEF OnePlace
<1>4. ASSUME NEW s \in Servers, NEW i \in 1 .. Len(queue[s]), queue[s][i] = p PROVE FALSE
  <2>1. owed[p] = <<s>> BY <1>2, <1>4 DEF OnePlace
  <2> QED BY <1>1, <2>1
<1>5. ASSUME NEW s \in reply, msg[s] = p PROVE FALSE
  <2>1. owed[p] = <<s>> BY <1>2, <1>5 DEF OnePlace
  <2> QED BY <1>1, <2>1
<1> QED BY <1>3, <1>4, <1>5

LEMMA UDNStep ==
  ASSUME UDN!Parameters, Ahead = 1, UDNInv, [UDN!Next]_(UDN!vars)
  PROVE  UDNInv'
<1>k. /\ UDN!Procs = Procs /\ Clients = Procs \ Servers /\ Servers \subseteq Procs
      /\ UDN!Clients = Clients /\ 0 \in Procs /\ Cap \in Nat
  BY Kinds DEF Clients
<1>t. QueueTyped /\ FromClients /\ OnePlace BY DEF UDNInv
<1>f. \A p \in Clients : last[p][1] = last[p][2] BY <1>k DEF UDNInv, UDN!FromAsked
<1>d. UDN!FromAsked' <=> \A p \in Clients : last'[p][1] = last'[p][2]
  BY <1>k DEF UDN!FromAsked, UDN!Clients, UDN!Procs, Clients
<1>1. ASSUME NEW p \in Procs, UDN!MemInit(p) PROVE UDNInv'
  BY <1>1, <1>d, <1>f, <1>t DEF UDN!MemInit, UDNInv, QueueTyped, FromClients, OnePlace, Clients
<1>2. ASSUME NEW p \in Procs, NEW s \in Servers, UDN!Ask(p, s) PROVE UDNInv'
  <2>1. /\ p \in Clients /\ p # s /\ s \in Procs
        /\ Len(owed[p]) < 1 /\ Len(queue[s]) < Cap
        /\ msg' = [msg EXCEPT ![p] = p]
        /\ queue' = [queue EXCEPT ![s] = Append(@, p)]
        /\ owed' = [owed EXCEPT ![p] = Append(@, s)]
        /\ UNCHANGED <<active, reply, last>>
    BY <1>2, <1>k DEF UDN!Ask, UDN!UdnSend
  <2>2. owed[p] = <<>> BY <1>k, <1>t, <2>1 DEF QueueTyped
  <2>3. /\ queue[p] = <<>>
        /\ \A r \in Servers : \A i \in 1 .. Len(queue[r]) : queue[r][i] # p
        /\ \A r \in reply : msg[r] # p
    BY <2>1, <2>2, Nowhere
  <2>4. /\ \A q \in Procs : owed'[q] = IF q = p THEN <<s>> ELSE owed[q]
        /\ \A q \in Procs : queue'[q] = IF q = s THEN Append(queue[s], p) ELSE queue[q]
        /\ \A q \in Procs : msg'[q] = IF q = p THEN p ELSE msg[q]
    BY <1>k, <1>t, <2>1, <2>2 DEF QueueTyped
  <2>5. /\ Append(queue[s], p) \in Seq(Procs)
        /\ Len(Append(queue[s], p)) = Len(queue[s]) + 1
        /\ \A i \in 1 .. Len(queue[s]) + 1 :
             Append(queue[s], p)[i] = IF i = Len(queue[s]) + 1 THEN p ELSE queue[s][i]
        /\ Len(queue[s]) \in Nat
    BY <1>k, <1>t, <2>1 DEF QueueTyped
  <2>10. /\ \A r \in Servers \ {s} : queue'[r] = queue[r]
         /\ Len(queue'[s]) = Len(queue[s]) + 1
         /\ \A i \in 1 .. Len(queue'[s]) :
              \/ i = Len(queue[s]) + 1 /\ queue'[s][i] = p
              \/ i \in 1 .. Len(queue[s]) /\ queue'[s][i] = queue[s][i]
    <3>1. queue'[s] = Append(queue[s], p) /\ \A r \in Servers \ {s} : queue'[r] = queue[r]
      BY <1>k, <2>4
    <3>2. \A i \in 1 .. Len(queue[s]) + 1 : i = Len(queue[s]) + 1 \/ i \in 1 .. Len(queue[s])
      BY <2>5
    <3>3. Len(queue'[s]) = Len(queue[s]) + 1 BY <2>5, <3>1
    <3>4. ASSUME NEW i \in 1 .. Len(queue'[s])
          PROVE  \/ i = Len(queue[s]) + 1 /\ queue'[s][i] = p
                 \/ i \in 1 .. Len(queue[s]) /\ queue'[s][i] = queue[s][i]
      <4>1. i \in 1 .. Len(queue[s]) + 1 BY <3>3
      <4>2. queue'[s][i] = IF i = Len(queue[s]) + 1 THEN p ELSE queue[s][i] BY <2>5, <3>1, <4>1
      <4> QED BY <3>2, <4>1, <4>2
    <3> QED BY <3>1, <3>3, <3>4
  <2>6. QueueTyped'
    <3>1. queue' \in [Procs -> Seq(Procs)] BY <1>t, <2>1, <2>5 DEF QueueTyped
    <3>2. owed' \in [Procs -> Seq(Servers)] BY <1>t, <2>1, <2>4 DEF QueueTyped
    <3>3. \A q \in Procs : Len(queue'[q]) <= Cap BY <1>k, <1>t, <2>1, <2>4, <2>5 DEF QueueTyped
    <3> QED BY <1>t, <2>1, <3>1, <3>2, <3>3 DEF QueueTyped
  <2>7. FromClients'
    <3>1. \A r \in Servers : \A i \in 1 .. Len(queue'[r]) : queue'[r][i] \in Clients
      BY <1>t, <2>1, <2>10 DEF FromClients
    <3>2. \A r \in reply' : msg'[r] \in Clients
      BY <1>k, <1>t, <2>1, <2>4 DEF FromClients, QueueTyped
    <3> QED BY <3>1, <3>2 DEF FromClients, Clients, UDN!Clients, UDN!Procs
  <2>8. ASSUME NEW q \in Clients
        PROVE  /\ owed'[q] = <<>> \/ \E r \in Servers : owed'[q] = <<r>>
               /\ \A r \in Servers : \A i \in 1 .. Len(queue'[r]) :
                    queue'[r][i] = q =>
                      /\ owed'[q] = <<r>> /\ queue'[q] = <<>>
                      /\ ~(r \in reply' /\ msg'[r] = q)
                      /\ \A j \in 1 .. Len(queue'[r]) : queue'[r][j] = q => j = i
               /\ \A r \in reply' : msg'[r] = q => owed'[q] = <<r>> /\ queue'[q] = <<>>
               /\ queue'[q] # <<>> => queue'[q] = owed'[q]
    <3>1. queue'[q] = queue[q] /\ \A r \in Servers : msg'[r] = msg[r] /\ reply' = reply
      BY <1>k, <2>1, <2>4
    <3>2. CASE q # p
      <4>1. owed'[q] = owed[q] BY <1>k, <2>4, <3>2
      <4>2. ASSUME NEW r \in Servers, NEW i \in 1 .. Len(queue'[r]), queue'[r][i] = q
            PROVE  i \in 1 .. Len(queue[r]) /\ queue[r][i] = q
        BY <2>10, <3>2, <4>2
      <4>3. \A r \in Servers : \A i \in 1 .. Len(queue'[r]) :
              queue'[r][i] = q =>
                      /\ owed'[q] = <<r>> /\ queue'[q] = <<>>
                      /\ ~(r \in reply' /\ msg'[r] = q)
                      /\ \A j \in 1 .. Len(queue'[r]) : queue'[r][j] = q => j = i
        BY <1>t, <2>10, <3>1, <3>2, <4>1, <4>2 DEF OnePlace
      <4>4. \A r \in reply' : msg'[r] = msg[r] /\ r \in reply BY <1>t, <3>1 DEF QueueTyped
      <4> QED BY <1>t, <3>1, <4>1, <4>3, <4>4 DEF OnePlace
    <3>3. CASE q = p
      <4>1. owed'[p] = <<s>> /\ queue'[p] = <<>> BY <1>k, <2>3, <2>4, <3>1, <3>3
      <4>2. ASSUME NEW r \in Servers, NEW i \in 1 .. Len(queue'[r]), queue'[r][i] = p
            PROVE  r = s /\ i = Len(queue[s]) + 1
        BY <2>3, <2>10, <4>2
      <4>3. \A r \in reply' : msg'[r] # p BY <1>t, <2>1, <2>3, <3>1 DEF QueueTyped
      <4> QED BY <3>3, <4>1, <4>2, <4>3
    <3> QED BY <3>2, <3>3
  <2>9. OnePlace' BY <2>8 DEF OnePlace, Clients, UDN!Clients, UDN!Procs
  <2> QED BY <1>d, <1>f, <2>1, <2>6, <2>7, <2>9 DEF UDNInv
<1>3. ASSUME NEW p \in Procs, UDN!RecvFrom(p) PROVE UDNInv'
  <2>1. /\ p \in Clients /\ owed[p] # <<>> /\ queue[p] # <<>>
        /\ msg' = [msg EXCEPT ![p] = Head(queue[p])]
        /\ queue' = [queue EXCEPT ![p] = Tail(@)]
        /\ last' = [last EXCEPT ![p] = <<Head(owed[p]), Head(queue[p])>>]
        /\ owed' = [owed EXCEPT ![p] = Tail(@)]
        /\ UNCHANGED <<active, reply>>
    BY <1>3, <1>k DEF UDN!RecvFrom, UDN!UdnReceive
  <2>2. PICK s \in Servers : owed[p] = <<s>> BY <1>t, <2>1 DEF OnePlace
  <2>3. queue[p] = <<s>> BY <1>t, <2>1, <2>2 DEF OnePlace
  <2>4. /\ \A q \in Procs : owed'[q] = IF q = p THEN <<>> ELSE owed[q]
        /\ \A q \in Procs : queue'[q] = IF q = p THEN <<>> ELSE queue[q]
        /\ \A q \in Procs : msg'[q] = IF q = p THEN s ELSE msg[q]
        /\ \A q \in Procs : last'[q] = IF q = p THEN <<s, s>> ELSE last[q]
    BY <1>k, <1>t, <2>1, <2>2, <2>3 DEF QueueTyped
  <2>5. \A q \in Servers : queue'[q] = queue[q] /\ msg'[q] = msg[q] /\ q # p BY <1>k, <2>1, <2>4
  <2>6. QueueTyped'
    <3>1. queue' \in [Procs -> Seq(Procs)] BY <1>t, <2>1, <2>4 DEF QueueTyped
    <3>2. owed' \in [Procs -> Seq(Servers)] BY <1>t, <2>1, <2>4 DEF QueueTyped
    <3>3. \A q \in Procs : Len(queue'[q]) <= Cap BY <1>k, <1>t, <2>4 DEF QueueTyped
    <3>4. msg' \in [Procs -> Procs] /\ last' \in [Procs -> Procs \X Procs]
      BY <1>k, <1>t, <2>1, <2>2, <2>3 DEF QueueTyped
    <3> QED BY <1>t, <2>1, <3>1, <3>2, <3>3, <3>4 DEF QueueTyped
  <2>7. FromClients'
    BY <1>t, <2>1, <2>5 DEF FromClients, Clients, UDN!Clients, UDN!Procs, QueueTyped
  <2>8. OnePlace'
    <3>1. /\ \A r \in Servers : \A i \in 1 .. Len(queue[r]) : queue[r][i] # p
          /\ \A r \in reply : msg[r] # p
      BY <1>t, <2>1 DEF OnePlace
    <3> SUFFICES ASSUME NEW q \in Clients
          PROVE  /\ owed'[q] = <<>> \/ \E r \in Servers : owed'[q] = <<r>>
                 /\ \A r \in Servers : \A i \in 1 .. Len(queue[r]) :
                      queue[r][i] = q =>
                        /\ owed'[q] = <<r>> /\ queue'[q] = <<>>
                        /\ ~(r \in reply /\ msg'[r] = q)
                        /\ \A j \in 1 .. Len(queue[r]) : queue[r][j] = q => j = i
                 /\ \A r \in reply : msg'[r] = q => owed'[q] = <<r>> /\ queue'[q] = <<>>
                 /\ queue'[q] # <<>> => queue'[q] = owed'[q]
      BY <2>1, <2>5 DEF OnePlace, Clients, UDN!Clients, UDN!Procs
    <3>2. \A r \in reply : r \in Servers /\ msg'[r] = msg[r] BY <1>t, <2>5 DEF QueueTyped
    <3>3. CASE q = p BY <1>k, <2>4, <3>1, <3>2, <3>3
    <3>4. CASE q # p
      <4>1. owed'[q] = owed[q] /\ queue'[q] = queue[q] BY <1>k, <2>4, <3>4
      <4> QED BY <1>t, <2>5, <3>2, <4>1 DEF OnePlace
    <3> QED BY <3>3, <3>4
  <2>9. UDN!FromAsked' BY <1>d, <1>f, <1>k, <2>4
  <2> QED BY <2>6, <2>7, <2>8, <2>9 DEF UDNInv
<1>4. ASSUME NEW s \in Procs, UDN!Serve(s) PROVE UDNInv'
  <2>1. /\ s \in Servers /\ s \notin reply /\ queue[s] # <<>>
        /\ msg' = [msg EXCEPT ![s] = Head(queue[s])]
        /\ queue' = [queue EXCEPT ![s] = Tail(@)]
        /\ reply' = reply \cup {s}
        /\ UNCHANGED <<active, owed, last>>
    BY <1>4 DEF UDN!Serve, UDN!UdnReceive
  <2>2. /\ queue[s] \in Seq(Procs) /\ Len(queue[s]) \in Nat /\ Len(queue[s]) > 0
        /\ Head(queue[s]) = queue[s][1] /\ Tail(queue[s]) \in Seq(Procs)
        /\ Len(Tail(queue[s])) = Len(queue[s]) - 1
        /\ \A i \in 1 .. Len(queue[s]) - 1 : Tail(queue[s])[i] = queue[s][i + 1]
    BY <1>k, <1>t, <2>1 DEF QueueTyped
  <2>3. PICK c \in Clients : c = queue[s][1] BY <1>t, <2>1, <2>2 DEF FromClients
  <2>4. /\ \A q \in Procs : queue'[q] = IF q = s THEN Tail(queue[s]) ELSE queue[q]
        /\ \A q \in Procs : msg'[q] = IF q = s THEN c ELSE msg[q]
    BY <1>k, <1>t, <2>1, <2>2, <2>3 DEF QueueTyped
  <2>10. /\ \A r \in Servers \ {s} : queue'[r] = queue[r]
         /\ Len(queue'[s]) = Len(queue[s]) - 1
         /\ \A i \in 1 .. Len(queue'[s]) :
              i + 1 \in 1 .. Len(queue[s]) /\ queue'[s][i] = queue[s][i + 1]
    <3>1. queue'[s] = Tail(queue[s]) /\ \A r \in Servers \ {s} : queue'[r] = queue[r]
      BY <1>k, <2>1, <2>4
    <3>2. \A i \in 1 .. Len(queue[s]) - 1 : i + 1 \in 1 .. Len(queue[s]) BY <2>2
    <3> QED BY <2>2, <3>1, <3>2
  <2>5. /\ owed[c] = <<s>> /\ queue[c] = <<>>
        /\ \A j \in 1 .. Len(queue[s]) : queue[s][j] = c => j = 1
    BY <1>t, <2>1, <2>2, <2>3 DEF OnePlace
  <2>6. \A j \in 1 .. Len(queue'[s]) : queue'[s][j] # c
    <3> SUFFICES ASSUME NEW j \in 1 .. Len(queue'[s]), queue'[s][j] = c PROVE FALSE
      OBVIOUS
    <3>1. j + 1 \in 1 .. Len(queue[s]) /\ queue[s][j + 1] = c BY <2>10
    <3>2. j + 1 = 1 BY <2>5, <3>1
    <3> QED BY <2>2, <2>10, <3>2
  <2>7. QueueTyped'
    <3>1. queue' \in [Procs -> Seq(Procs)] BY <1>t, <2>1, <2>2 DEF QueueTyped
    <3>2. \A q \in Procs : Len(queue'[q]) <= Cap
      <4>1. Len(queue[s]) <= Cap /\ Len(queue'[s]) <= Cap
        BY <1>k, <1>t, <2>1, <2>2, <2>10 DEF QueueTyped
      <4> QED BY <1>t, <2>4, <4>1 DEF QueueTyped
    <3>3. msg' \in [Procs -> Procs] BY <1>k, <1>t, <2>1, <2>2, <2>3 DEF QueueTyped
    <3> QED BY <1>t, <2>1, <3>1, <3>2, <3>3 DEF QueueTyped
  <2>8. FromClients'
    <3>1. ASSUME NEW r \in Servers, NEW i \in 1 .. Len(queue'[r]) PROVE queue'[r][i] \in Clients
      <4>1. CASE r = s
        <5>1. i + 1 \in 1 .. Len(queue[s]) /\ queue'[r][i] = queue[s][i + 1] BY <2>10, <4>1
        <5> QED BY <1>t, <2>1, <5>1 DEF FromClients
      <4>2. CASE r # s BY <1>t, <2>10, <4>2 DEF FromClients
      <4> QED BY <4>1, <4>2
    <3>2. \A r \in reply' : msg'[r] \in Clients
      BY <1>k, <1>t, <2>1, <2>3, <2>4 DEF FromClients, QueueTyped
    <3> QED BY <3>1, <3>2 DEF FromClients, Clients, UDN!Clients, UDN!Procs
  <2>9. OnePlace'
    <3> SUFFICES ASSUME NEW q \in Clients
          PROVE  /\ owed'[q] = <<>> \/ \E r \in Servers : owed'[q] = <<r>>
                 /\ \A r \in Servers : \A i \in 1 .. Len(queue'[r]) :
                      queue'[r][i] = q =>
                        /\ owed'[q] = <<r>> /\ queue'[q] = <<>>
                        /\ ~(r \in reply' /\ msg'[r] = q)
                        /\ \A j \in 1 .. Len(queue'[r]) : queue'[r][j] = q => j = i
                 /\ \A r \in reply' : msg'[r] = q => owed'[q] = <<r>> /\ queue'[q] = <<>>
                 /\ queue'[q] # <<>> => queue'[q] = owed'[q]
      BY DEF OnePlace, Clients, UDN!Clients, UDN!Procs
    <3>1. queue'[q] = queue[q] /\ q \in Procs BY <1>k, <2>1, <2>4
    <3>2. ASSUME NEW r \in Servers, NEW i \in 1 .. Len(queue'[r]), queue'[r][i] = q
          PROVE  /\ owed[q] = <<r>> /\ queue'[q] = <<>>
                 /\ ~(r \in reply' /\ msg'[r] = q)
                 /\ \A j \in 1 .. Len(queue'[r]) : queue'[r][j] = q => j = i
      <4>1. CASE r # s
        <5>1. queue'[r] = queue[r] /\ msg'[r] = msg[r] /\ (r \in reply' => r \in reply)
          BY <1>k, <2>1, <2>4, <4>1
        <5> QED BY <1>t, <3>1, <3>2, <5>1 DEF OnePlace
      <4>2. CASE r = s
        <5>1. i + 1 \in 1 .. Len(queue[s]) /\ queue[s][i + 1] = q BY <2>10, <3>2, <4>2
        <5>2. owed[q] = <<s>> /\ queue[q] = <<>> BY <1>t, <2>1, <5>1 DEF OnePlace
        <5>3. msg'[r] = c /\ q # c BY <1>k, <2>1, <2>4, <2>6, <3>2, <4>2
        <5>4. ASSUME NEW j \in 1 .. Len(queue'[r]), queue'[r][j] = q PROVE j = i
          <6>1. j + 1 \in 1 .. Len(queue[s]) /\ queue[s][j + 1] = q BY <2>10, <4>2, <5>4
          <6>2. j + 1 = i + 1 BY <1>t, <2>1, <5>1, <6>1 DEF OnePlace
          <6> QED BY <2>2, <2>10, <4>2, <5>4, <6>2
        <5> QED BY <3>1, <4>2, <5>2, <5>3, <5>4
      <4> QED BY <4>1, <4>2
    <3>3. ASSUME NEW r \in reply', msg'[r] = q PROVE owed[q] = <<r>> /\ queue'[q] = <<>>
      <4>1. CASE r = s BY <1>k, <2>1, <2>4, <2>5, <3>1, <3>3, <4>1
      <4>2. CASE r # s
        <5>1. r \in reply /\ msg[r] = q BY <1>k, <1>t, <2>1, <2>4, <3>3, <4>2 DEF QueueTyped
        <5> QED BY <1>t, <3>1, <5>1 DEF OnePlace
      <4> QED BY <4>1, <4>2
    <3> QED BY <1>t, <2>1, <3>1, <3>2, <3>3 DEF OnePlace
  <2> QED BY <1>d, <1>f, <2>1, <2>7, <2>8, <2>9 DEF UDNInv
<1>5. ASSUME NEW s \in Procs, UDN!Reply(s) PROVE UDNInv'
  <2>1. PICK c \in Clients : s \in reply /\ s \in Servers /\ c = msg[s] /\ c # s /\ c \in Procs
    BY <1>5, <1>k, <1>t DEF UDN!Reply, FromClients, QueueTyped
  <2>2. /\ msg' = [msg EXCEPT ![s] = s]
        /\ queue' = [queue EXCEPT ![c] = Append(@, s)]
        /\ reply' = reply \ {s}
        /\ UNCHANGED <<active, owed, last>>
    BY <1>5, <2>1 DEF UDN!Reply, UDN!UdnSend
  <2>3. /\ owed[c] = <<s>> /\ queue[c] = <<>>
        /\ \A r \in Servers : \A i \in 1 .. Len(queue[r]) : queue[r][i] # c
        /\ \A r \in reply \ {s} : msg[r] # c
    <3>1. owed[c] = <<s>> /\ queue[c] = <<>> BY <1>t, <2>1 DEF OnePlace
    <3>2. \A r : <<r>> = <<s>> => r = s OBVIOUS
    <3>3. ASSUME NEW r \in reply \ {s}, msg[r] = c PROVE FALSE
      <4>1. owed[c] = <<r>> BY <1>t, <3>3 DEF OnePlace
      <4> QED BY <3>1, <3>2, <4>1
    <3>4. ASSUME NEW r \in Servers, NEW i \in 1 .. Len(queue[r]), queue[r][i] = c PROVE FALSE
      <4>1. owed[c] = <<r>> /\ ~(r \in reply /\ msg[r] = c) BY <1>t, <3>4 DEF OnePlace
      <4> QED BY <2>1, <3>1, <3>2, <4>1
    <3> QED BY <3>1, <3>3, <3>4
  <2>4. /\ \A q \in Procs : queue'[q] = IF q = c THEN <<s>> ELSE queue[q]
        /\ \A q \in Procs : msg'[q] = IF q = s THEN s ELSE msg[q]
    BY <1>k, <1>t, <2>1, <2>2, <2>3 DEF QueueTyped
  <2>5. \A r \in Servers : queue'[r] = queue[r] BY <1>k, <2>4
  <2>6. QueueTyped'
    <3>1. queue' \in [Procs -> Seq(Procs)] BY <1>k, <1>t, <2>1, <2>2, <2>4 DEF QueueTyped
    <3>2. \A q \in Procs : Len(queue'[q]) <= Cap
      <4>1. Len(<<s>>) = 1 /\ Cap \in Nat /\ Cap > 0 BY Kinds
      <4>2. Len(<<s>>) <= Cap BY <4>1
      <4> QED BY <1>t, <2>4, <4>2 DEF QueueTyped
    <3>3. msg' \in [Procs -> Procs] BY <1>k, <1>t, <2>1, <2>2 DEF QueueTyped
    <3> QED BY <1>t, <2>2, <3>1, <3>2, <3>3 DEF QueueTyped
  <2>7. FromClients'
    BY <1>k, <1>t, <2>1, <2>2, <2>4, <2>5
       DEF FromClients, Clients, UDN!Clients, UDN!Procs, QueueTyped
  <2>8. OnePlace'
    <3> SUFFICES ASSUME NEW q \in Clients
          PROVE  /\ owed[q] = <<>> \/ \E r \in Servers : owed[q] = <<r>>
                 /\ \A r \in Servers : \A i \in 1 .. Len(queue[r]) :
                      queue[r][i] = q =>
                        /\ owed[q] = <<r>> /\ queue'[q] = <<>>
                        /\ ~(r \in reply' /\ msg'[r] = q)
                        /\ \A j \in 1 .. Len(queue[r]) : queue[r][j] = q => j = i
                 /\ \A r \in reply' : msg'[r] = q => owed[q] = <<r>> /\ queue'[q] = <<>>
                 /\ queue'[q] # <<>> => queue'[q] = owed[q]
      BY <2>2, <2>5 DEF OnePlace, Clients, UDN!Clients, UDN!Procs
    <3>1. \A r \in reply' : r \in reply /\ msg'[r] = msg[r] /\ r # s
      BY <1>k, <1>t, <2>2, <2>4 DEF QueueTyped
    <3>2. \A r \in reply' : msg'[r] = q => q # c BY <2>2, <2>3, <3>1
    <3>3. CASE q = c BY <1>t, <1>k, <2>3, <2>4, <3>2, <3>3 DEF OnePlace
    <3>4. CASE q # c
      <4>1. queue'[q] = queue[q] BY <1>k, <2>4, <3>4
      <4>2. \A r \in Servers : r \in reply' /\ msg'[r] = q => r \in reply /\ msg[r] = q BY <3>1
      <4> QED BY <1>t, <3>1, <4>1, <4>2 DEF OnePlace
    <3> QED BY <3>3, <3>4
  <2> QED BY <1>d, <1>f, <2>2, <2>6, <2>7, <2>8 DEF UDNInv
<1>6. CASE UNCHANGED UDN!vars
  BY <1>6, <1>t, <1>d, <1>f
     DEF UDN!vars, UDNInv, QueueTyped, FromClients, OnePlace, Clients, UDN!Clients, UDN!Procs
<1> QED BY <1>1, <1>2, <1>3, <1>4, <1>5, <1>6, <1>k DEF UDN!Next, UDN!Step

\* Tilera messages: with clients that receive an answer before they ask again,
\* however many processes and servers there are and however long a queue is,
\* recv_from returns a message of the process it names, although it takes what
\* is at the head of the queue; a server's answer always has room at its client,
\* and the variables stay in their types.
THEOREM UDNCorrect ==
  ASSUME UDN!Parameters, Ahead = 1
  PROVE  UDN!Spec => [](UDN!TypeOK /\ UDN!FromAsked /\ UDN!AnswersHaveRoom)
<1>1. UDN!Init => UDNInv BY UDNInit
<1>2. UDNInv /\ [UDN!Next]_(UDN!vars) => UDNInv' BY UDNStep
<1>3. ASSUME UDNInv PROVE UDN!TypeOK /\ UDN!FromAsked /\ UDN!AnswersHaveRoom
  <2>1. UDN!TypeOK BY <1>3, Kinds DEF UDNInv, QueueTyped, UDN!TypeOK
  <2>2. ASSUME NEW s \in reply PROVE msg[s] \in UDN!Clients /\ Len(queue[msg[s]]) < Cap
    <3>1. msg[s] \in Clients BY <1>3 DEF UDNInv, FromClients
    <3>2. queue[msg[s]] = <<>> BY <1>3, <3>1 DEF UDNInv, OnePlace
    <3> QED BY <3>1, <3>2, Kinds DEF Clients
  <2> QED BY <1>3, <2>1, <2>2 DEF UDNInv, UDN!AnswersHaveRoom
<1> QED BY <1>1, <1>2, <1>3, PTL DEF UDN!Spec
=============================================================================
