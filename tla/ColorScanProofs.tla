-------------------------- MODULE ColorScanProofs --------------------------
(***************************************************************************)
(* Theorems about ColorScan: what a color buffer lists, for any number of  *)
(* them, and the order in which ssmp_recv_color_start serves the senders,  *)
(* for a process with one color buffer.                                    *)
(***************************************************************************)
EXTENDS ColorScan, TLAPS

-----------------------------------------------------------------------------
(* The invariant *)

\* The senders in the list.
In1(b) == 1 .. Len(from[b])

\* The list a call goes through is complete, and so is its place in it.
Places ==
  /\ call # <<>> => \A b \in Buffers : ue[b] = N
  /\ In("recv") => idx < N
  /\ start # 0 \/ (\E q, p \in Senders : passed[q][p] # 0) => \A b \in Buffers : ue[b] = N

\* From the place after i to place j, the end of the list included.
Between(i, j, k) == IF i < j THEN i <= k /\ k < j ELSE i <= k \/ k < j

\* Who was served in place of q comes after q from where the next call begins.
Turns ==
  calls = {"start"} =>
    \A b \in Buffers, q \in pending, p \in Senders : passed[q][p] # 0 =>
      /\ passed[q][p] = 1
      /\ \E i, j \in In1(b) : /\ from[b][i] = p /\ from[b][j] = q /\ i # j
                              /\ Between(i, j, start)

ScanInv == TypeOK /\ ListsColor /\ Places /\ Turns

-----------------------------------------------------------------------------
(* The types *)

LEMMA Facts ==
  /\ N \in Nat /\ N > 0 /\ 0 \in 0 .. N
  /\ Senders \subseteq Procs /\ \A p \in Procs : p \in 0 .. N - 1
BY NAssumption DEF Procs, Senders

LEMMA Types ==
  ASSUME TypeOK
  PROVE  /\ ue \in [Buffers -> 0 .. N] /\ from \in [Buffers -> Seq(Senders)]
         /\ \A b \in Buffers : from[b] \in Seq(Senders) /\ Len(from[b]) \in 0 .. N
                               /\ Len(from[b]) <= ue[b]
         /\ pending \subseteq Senders /\ start \in 0 .. N /\ idx \in 0 .. N
         /\ passed \in [Senders -> [Senders -> 0 .. 2]]
<1>1. \A b \in Buffers : Len(from[b]) \in Nat BY DEF TypeOK
<1> QED BY <1>1, Facts DEF TypeOK

\* The list the call goes through.
LEMMA CurrentIs ==
  ASSUME TypeOK, NEW kind, In(kind)
  PROVE  /\ call # <<>> /\ kind \in calls
         /\ \E b \in Buffers : call = <<kind, b>> /\ Current = from[b]
         /\ Current \in Seq(Senders) /\ Len(Current) \in 0 .. N
         /\ Listed \subseteq Senders
<1>1. PICK b \in Buffers : call = <<kind, b>> BY DEF In
<1>2. call[2] = b /\ call # <<>> BY <1>1
<1>3. call \in calls \X Buffers BY <1>2 DEF TypeOK
<1>4. kind \in calls BY <1>1, <1>3
<1>5. Current = from[b] BY <1>2 DEF Current
<1>6. from[b] \in Seq(Senders) /\ Len(from[b]) \in 0 .. N BY Types
<1>7. \A i \in 1 .. Len(from[b]) : from[b][i] \in Senders BY <1>6
<1> QED BY <1>1, <1>2, <1>4, <1>5, <1>6, <1>7 DEF Listed

\* Serving p: nobody's count but p's grows, and only for those that wait.
LEMMA ServeIs ==
  ASSUME TypeOK, NEW p \in Senders, NEW others, Serve(p, others)
  PROVE  /\ pending' = pending \ {p} /\ call' = <<>>
         /\ passed' \in [Senders -> [Senders -> 0 .. 2]]
         /\ \A q, r \in Senders :
              passed'[q][r] = IF r = p /\ q \in (pending \cap others) \ {p}
                              THEN IF passed[q][r] < 2 THEN passed[q][r] + 1 ELSE passed[q][r]
                              ELSE passed[q][r]
<1>t. passed \in [Senders -> [Senders -> 0 .. 2]] BY Types
<1>1. /\ pending' = pending \ {p} /\ call' = <<>>
      /\ passed' = [q \in Senders |->
                      IF q \in (pending \cap others) \ {p}
                      THEN [passed[q] EXCEPT ![p] = IF @ < 2 THEN @ + 1 ELSE @]
                      ELSE passed[q]]
  BY DEF Serve
<1>2. ASSUME NEW q \in Senders
      PROVE  /\ passed'[q] \in [Senders -> 0 .. 2]
             /\ \A r \in Senders :
                  passed'[q][r] = IF r = p /\ q \in (pending \cap others) \ {p}
                                  THEN IF passed[q][r] < 2 THEN passed[q][r] + 1 ELSE passed[q][r]
                                  ELSE passed[q][r]
  <2>1. CASE q \in (pending \cap others) \ {p}
    <3>1. passed'[q] = [passed[q] EXCEPT ![p] = IF @ < 2 THEN @ + 1 ELSE @] BY <1>1, <2>1
    <3>2. passed[q] \in [Senders -> 0 .. 2] /\ passed[q][p] \in 0 .. 2 BY <1>t
    <3>3. (IF passed[q][p] < 2 THEN passed[q][p] + 1 ELSE passed[q][p]) \in 0 .. 2 BY <3>2
    <3> QED BY <3>1, <3>2, <3>3, <2>1
  <2>2. CASE q \notin (pending \cap others) \ {p}
    <3>1. passed'[q] = passed[q] BY <1>1, <2>2
    <3> QED BY <3>1, <2>2, <1>t
  <2> QED BY <2>1, <2>2
<1> QED BY <1>1, <1>2

LEMMA ScanInit == Init => ScanInv
<1> SUFFICES ASSUME Init PROVE ScanInv
  OBVIOUS
<1>1. TypeOK
  <2>1. ue \in [Buffers -> 0 .. N] /\ start \in 0 .. N /\ idx \in 0 .. N
    BY Facts DEF Init
  <2>2. from \in [Buffers -> Seq(Senders)] /\ \A b \in Buffers : Len(from[b]) <= ue[b]
    BY DEF Init
  <2>3. passed \in [Senders -> [Senders -> 0 .. 2]] BY DEF Init
  <2> QED BY <2>1, <2>2, <2>3 DEF Init, TypeOK
<1>2. ListsColor BY ColorAssumption DEF Init, ListsColor, Procs
<1>3. Places BY DEF Init, Places, In
<1>4. Turns BY DEF Init, Turns
<1> QED BY <1>1, <1>2, <1>3, <1>4 DEF ScanInv

\* What the receive calls leave alone.
LEMMA ReceiveIs ==
  ASSUME TypeOK, Receive
  PROVE  /\ UNCHANGED <<calls, ue, from, freed>> /\ call # <<>>
         /\ call' \in {call, <<>>}
<1>1. UNCHANGED <<calls, ue, from, freed>> /\ call' \in {call, <<>>}
  BY DEF Receive, RecvMiss, RecvHit, ColorMiss, ColorHit, StartMiss, StartWrap, StartHit, Serve
<1>2. \E kind \in {"recv", "color", "start"} : In(kind)
  BY DEF Receive, RecvMiss, RecvHit, ColorMiss, ColorHit, StartMiss, StartWrap, StartHit
<1>3. call # <<>> BY <1>2, CurrentIs
<1> QED BY <1>1, <1>3

LEMMA TypeStep ==
  ASSUME TypeOK, Places, [Next]_vars
  PROVE  TypeOK'
<1>t. /\ calls \in CallSets /\ freed \in BOOLEAN /\ call \in {<<>>} \cup (calls \X Buffers)
  BY DEF TypeOK
<1>1. ASSUME NEW b \in Buffers, List(b) PROVE TypeOK'
  <2>1. /\ ue' = [ue EXCEPT ![b] = @ + 1] /\ ue[b] < N
        /\ from' = [from EXCEPT ![b] = IF ue[b] \in Color[b] \ {Me} THEN Append(@, ue[b]) ELSE @]
        /\ UNCHANGED <<calls, freed, pending, start, idx, call, passed>>
    BY <1>1 DEF List
  <2>2. ue'[b] = ue[b] + 1 /\ ue' \in [Buffers -> 0 .. N] BY <2>1, Types, Facts
  <2>3. ue[b] \in Color[b] \ {Me} => ue[b] \in Senders
    BY ColorAssumption DEF Senders
  <2>4. /\ from'[b] = IF ue[b] \in Color[b] \ {Me} THEN Append(from[b], ue[b]) ELSE from[b]
        /\ \A c \in Buffers : c # b => from'[c] = from[c] /\ ue'[c] = ue[c]
    BY <2>1, Types
  <2>5. from'[b] \in Seq(Senders) /\ Len(from'[b]) \in {Len(from[b]), Len(from[b]) + 1}
    BY <2>3, <2>4, Types
  <2>6. from' \in [Buffers -> Seq(Senders)] BY <2>1, <2>4, <2>5, Types
  <2>7. Len(from'[b]) <= ue'[b]
    <3>1. ue[b] \in Int /\ Len(from[b]) \in Int /\ Len(from[b]) <= ue[b] BY Types, Facts
    <3> QED BY <2>2, <2>5, <3>1
  <2>8. \A c \in Buffers : Len(from'[c]) <= ue'[c]
    BY <2>4, <2>7, Types
  <2> QED BY <2>1, <2>2, <2>6, <2>8, <1>t, Types DEF TypeOK
<1>2. ASSUME NEW k \in calls, NEW b \in Buffers, Enter(k, b) PROVE TypeOK'
  BY <1>2, Facts DEF Enter, TypeOK
<1>3. CASE ColorBufFree BY <1>3 DEF ColorBufFree, TypeOK
<1>4. ASSUME NEW q \in Senders, Send(q) PROVE TypeOK'
  <2>1. [p \in Senders |-> 0] \in [Senders -> 0 .. 2] OBVIOUS
  <2>2. passed' \in [Senders -> [Senders -> 0 .. 2]] BY <1>4, <2>1, Types DEF Send
  <2> QED BY <1>4, <2>2 DEF Send, TypeOK
<1>5. CASE Receive
  <2>1. /\ UNCHANGED <<calls, ue, from, freed>> /\ call' \in {<<>>} \cup (calls \X Buffers)
    BY <1>5, <1>t, ReceiveIs
  <2> SUFFICES /\ pending' \subseteq Senders /\ start' \in 0 .. N /\ idx' \in 0 .. N
               /\ passed' \in [Senders -> [Senders -> 0 .. 2]]
    BY <2>1 DEF TypeOK
  <2>2. CASE RecvMiss
    <3>1. idx < N BY <2>2 DEF RecvMiss, Places
    <3>2. idx' \in 0 .. N BY <2>2, <3>1, Types, Facts DEF RecvMiss
    <3> QED BY <2>2, <3>2, Types DEF RecvMiss
  <2>3. CASE RecvHit
    <3>1. idx \in Senders BY <2>3, Types DEF RecvHit
    <3>2. Serve(idx, Senders) BY <2>3 DEF RecvHit
    <3> QED BY <2>3, <3>1, <3>2, ServeIs, Types DEF RecvHit
  <2>4. CASE ColorMiss
    <3>1. Len(Current) \in 0 .. N /\ idx < Len(Current) BY <2>4, CurrentIs DEF ColorMiss
    <3>2. idx' \in 0 .. N BY <2>4, <3>1, Types, Facts DEF ColorMiss
    <3> QED BY <2>4, <3>2, Types DEF ColorMiss
  <2>5. CASE ColorHit
    <3>1. Current[idx + 1] \in Senders BY <2>5, Types DEF ColorHit
    <3> QED BY <2>5, <3>1, ServeIs, Types DEF ColorHit
  <2>6. CASE StartMiss
    <3>1. Len(Current) \in 0 .. N /\ start < Len(Current) BY <2>6, CurrentIs DEF StartMiss
    <3>2. start' \in 0 .. N BY <2>6, <3>1, Types, Facts DEF StartMiss
    <3> QED BY <2>6, <3>2, Types DEF StartMiss
  <2>7. CASE StartWrap BY <2>7, Types, Facts DEF StartWrap
  <2>8. CASE StartHit
    <3>1. Current[start + 1] \in Senders BY <2>8, Types DEF StartHit
    <3>2. Len(Current) \in 0 .. N /\ start < Len(Current) BY <2>8, CurrentIs DEF StartHit
    <3>3. start' \in 0 .. N BY <2>8, <3>2, Types, Facts DEF StartHit
    <3> QED BY <2>8, <3>1, <3>3, ServeIs, Types DEF StartHit
  <2> QED BY <1>5, <2>2, <2>3, <2>4, <2>5, <2>6, <2>7, <2>8 DEF Receive
<1>6. CASE UNCHANGED vars BY <1>6 DEF vars, TypeOK
<1> QED BY <1>1, <1>2, <1>3, <1>4, <1>5, <1>6 DEF Next, EnterSome

-----------------------------------------------------------------------------
(* The lists *)

\* A list in ascending order has everybody once.
LEMMA Distinct ==
  ASSUME ListsColor, NEW b \in Buffers, NEW i \in 1 .. Len(from[b]), NEW j \in 1 .. Len(from[b]),
         TypeOK, from[b][i] = from[b][j]
  PROVE  i = j
<1>1. from[b] \in Seq(Senders) BY Types
<1>2. from[b][i] \in Senders /\ from[b][i] \in Int BY <1>1, Facts
<1>3. i < j => from[b][i] < from[b][j] BY DEF ListsColor
<1>4. j < i => from[b][j] < from[b][i] BY DEF ListsColor
<1>5. i \in Int /\ j \in Int OBVIOUS
<1> QED BY <1>2, <1>3, <1>4, <1>5

LEMMA ListStep ==
  ASSUME TypeOK, ListsColor, [Next]_vars
  PROVE  ListsColor'
<1>1. ASSUME NEW b \in Buffers, List(b) PROVE ListsColor'
  <2>1. /\ from'[b] = IF ue[b] \in Color[b] \ {Me} THEN Append(from[b], ue[b]) ELSE from[b]
        /\ ue'[b] = ue[b] + 1
        /\ \A c \in Buffers : c # b => from'[c] = from[c] /\ ue'[c] = ue[c]
    BY <1>1, Types DEF List
  <2>2. /\ ue[b] \in Nat /\ from[b] \in Seq(Senders) /\ Len(from[b]) \in Nat
        /\ \A i \in 1 .. Len(from[b]) : from[b][i] \in Nat
    BY Types, Facts
  <2>3. /\ \A i, j \in 1 .. Len(from[b]) : i < j => from[b][i] < from[b][j]
        /\ {from[b][i] : i \in 1 .. Len(from[b])} = {p \in Color[b] \ {Me} : p < ue[b]}
    BY DEF ListsColor
  <2>4. Color[b] \subseteq Nat BY ColorAssumption, Facts
  <2>5. CASE ue[b] \in Color[b] \ {Me}
    <3>1. /\ from'[b] = Append(from[b], ue[b]) /\ Len(from'[b]) = Len(from[b]) + 1
          /\ \A i \in 1 .. Len(from[b]) : from'[b][i] = from[b][i]
          /\ from'[b][Len(from[b]) + 1] = ue[b]
      BY <2>1, <2>2, <2>5
    <3>2. \A i \in 1 .. Len(from[b]) : from[b][i] < ue[b] BY <2>3
    <3>3. \A i, j \in 1 .. Len(from'[b]) : i < j => from'[b][i] < from'[b][j]
      <4> SUFFICES ASSUME NEW i \in 1 .. Len(from'[b]), NEW j \in 1 .. Len(from'[b]), i < j
                   PROVE  from'[b][i] < from'[b][j]
        OBVIOUS
      <4>1. i \in 1 .. Len(from[b]) BY <2>2, <3>1
      <4>2. CASE j \in 1 .. Len(from[b]) BY <4>1, <4>2, <2>3, <3>1
      <4>3. CASE j = Len(from[b]) + 1 BY <4>1, <4>3, <3>1, <3>2
      <4> QED BY <4>2, <4>3, <2>2, <3>1
    <3>4. {from'[b][i] : i \in 1 .. Len(from'[b])} = {from[b][i] : i \in 1 .. Len(from[b])} \cup {ue[b]}
      BY <2>2, <3>1
    <3>5. {p \in Color[b] \ {Me} : p < ue'[b]} = {p \in Color[b] \ {Me} : p < ue[b]} \cup {ue[b]}
      BY <2>1, <2>2, <2>4, <2>5
    <3>6. {from'[b][i] : i \in 1 .. Len(from'[b])} = {p \in Color[b] \ {Me} : p < ue'[b]}
      BY <3>4, <3>5, <2>3
    <3>7. ASSUME NEW c \in Buffers, c # b
          PROVE  /\ \A i, j \in 1 .. Len(from'[c]) : i < j => from'[c][i] < from'[c][j]
                 /\ {from'[c][i] : i \in 1 .. Len(from'[c])} = {p \in Color[c] \ {Me} : p < ue'[c]}
      <4>1. from'[c] = from[c] /\ ue'[c] = ue[c] BY <3>7, <2>1
      <4> QED BY <4>1 DEF ListsColor
    <3>8. ASSUME NEW c \in Buffers
          PROVE  /\ \A i, j \in 1 .. Len(from'[c]) : i < j => from'[c][i] < from'[c][j]
                 /\ {from'[c][i] : i \in 1 .. Len(from'[c])} = {p \in Color[c] \ {Me} : p < ue'[c]}
      <4>1. CASE c = b BY <4>1, <3>3, <3>6
      <4> QED BY <4>1, <3>7
    <3> QED BY <3>8 DEF ListsColor
  <2>6. CASE ue[b] \notin Color[b] \ {Me}
    <3>1. {p \in Color[b] \ {Me} : p < ue'[b]} = {p \in Color[b] \ {Me} : p < ue[b]}
      BY <2>1, <2>2, <2>4, <2>6
    <3> QED BY <3>1, <2>1, <2>3, <2>6 DEF ListsColor
  <2> QED BY <2>5, <2>6
<1>2. CASE UNCHANGED <<from, ue>> BY <1>2 DEF ListsColor
<1>3. ASSUME EnterSome \/ ColorBufFree \/ \E q \in Senders : Send(q) PROVE UNCHANGED <<from, ue>>
  BY <1>3 DEF EnterSome, Enter, ColorBufFree, Send
<1>4. CASE Receive BY <1>2, <1>4, ReceiveIs
<1> QED BY <1>1, <1>2, <1>3, <1>4 DEF Next, vars

LEMMA PlacesStep ==
  ASSUME TypeOK, Places, [Next]_vars
  PROVE  Places'
<1>1. ASSUME NEW b \in Buffers, List(b) PROVE Places'
  <2>1. ue[b] # N BY <1>1, Types, Facts DEF List
  <2>2. UNCHANGED <<calls, freed, pending, start, idx, call, passed>> BY <1>1 DEF List
  <2>3. call = <<>> /\ start = 0 /\ ~\E q, p \in Senders : passed[q][p] # 0
    BY <2>1 DEF Places
  <2> QED BY <2>2, <2>3 DEF Places, In
<1>2. CASE EnterSome
  <2>1. PICK k \in calls, b \in Buffers : Enter(k, b) BY <1>2 DEF EnterSome
  <2>2. \A c \in Buffers : ue'[c] = N BY <2>1 DEF Enter, Ready
  <2>3. idx' < N BY <2>1, Facts DEF Enter
  <2> QED BY <2>2, <2>3 DEF Places
<1>3. CASE ColorBufFree BY <1>3 DEF ColorBufFree, Places, In
<1>4. ASSUME NEW q \in Senders, Send(q) PROVE Places'
  <2>1. UNCHANGED <<ue, start, idx, call>> BY <1>4 DEF Send
  <2>2. \A r, p \in Senders : passed'[r][p] # 0 => passed[r][p] # 0
    BY <1>4, Types DEF Send
  <2> QED BY <2>1, <2>2 DEF Places, In
<1>5. CASE Receive
  <2>1. ue' = ue /\ \A b \in Buffers : ue[b] = N BY <1>5, ReceiveIs DEF Places
  <2>2. CASE RecvMiss
    <3>1. idx < N BY <2>2 DEF RecvMiss, Places
    <3>2. idx' < N BY <2>2, <3>1, Types, Facts DEF RecvMiss
    <3> QED BY <2>1, <3>2 DEF Places
  <2>3. CASE ColorMiss
    <3>1. ~In("recv")' BY <2>3 DEF ColorMiss, In
    <3> QED BY <2>1, <3>1 DEF Places
  <2>4. CASE StartMiss \/ StartWrap
    <3>1. ~In("recv")' BY <2>4 DEF StartMiss, StartWrap, In
    <3> QED BY <2>1, <3>1 DEF Places
  <2>5. CASE RecvHit \/ ColorHit \/ StartHit
    <3>1. ~In("recv")' BY <2>5 DEF RecvHit, ColorHit, StartHit, Serve, In
    <3> QED BY <2>1, <3>1 DEF Places
  <2> QED BY <1>5, <2>2, <2>3, <2>4, <2>5 DEF Receive
<1>6. CASE UNCHANGED vars BY <1>6 DEF vars, Places, In
<1> QED BY <1>1, <1>2, <1>3, <1>4, <1>5, <1>6 DEF Next

-----------------------------------------------------------------------------
(* The order of service, with one color buffer *)

\* A call of ssmp_recv_color_start with the one buffer.
LEMMA OnlyStart ==
  ASSUME TypeOK, NEW B, Buffers = {B}, calls = {"start"}, NEW kind, In(kind)
  PROVE  kind = "start" /\ Current = from[B]
BY CurrentIs

\* The place moves past the end of the list, or on by one from a sender other
\* than j: who comes after the place still does.
LEMMA Moves ==
  ASSUME NEW n \in Nat, NEW i \in 1 .. n, NEW j \in 1 .. n, NEW k \in Nat, NEW l \in Nat,
         Between(i, j, k), k + 1 # j, i # j,
         \/ k < n /\ l = k + 1
         \/ k + 1 >= n /\ l = 0
  PROVE  Between(i, j, l)
BY DEF Between

LEMMA TurnsStep ==
  ASSUME TypeOK, ListsColor, Places, Turns, [Next]_vars, NEW B, Buffers = {B}
  PROVE  Turns'
<1>0. calls' = calls
  BY DEF Next, List, EnterSome, Enter, ColorBufFree, Send, Receive, RecvMiss, RecvHit, ColorMiss,
         ColorHit, StartMiss, StartWrap, StartHit, vars
<1> SUFFICES ASSUME calls = {"start"},
                    NEW q \in Senders, NEW p \in Senders, q \in pending', passed'[q][p] # 0
             PROVE  /\ passed'[q][p] = 1
                    /\ \E i, j \in 1 .. Len(from'[B]) :
                         from'[B][i] = p /\ from'[B][j] = q /\ i # j /\ Between(i, j, start')
  <2>1. TypeOK' BY TypeStep
  <2>2. pending' \subseteq Senders BY <2>1 DEF TypeOK
  <2> QED BY <1>0, <2>2 DEF Turns, In1, Between
<1>t. ASSUME q \in pending, passed[q][p] # 0
      PROVE  /\ passed[q][p] = 1
             /\ \E i, j \in 1 .. Len(from[B]) :
                  from[B][i] = p /\ from[B][j] = q /\ i # j /\ Between(i, j, start)
  BY <1>t DEF Turns, In1
<1>n. start \in Nat /\ Len(from[B]) \in Nat /\ from[B] \in Seq(Senders) BY Types, Facts
<1>1. CASE UNCHANGED <<from, pending, start, passed>> BY <1>1, <1>t
<1>2. ASSUME NEW b \in Buffers, List(b) PROVE FALSE
  <2>1. ue[b] # N /\ passed' = passed BY <1>2, Types, Facts DEF List
  <2> QED BY <2>1 DEF Places
<1>3. ASSUME EnterSome \/ ColorBufFree PROVE UNCHANGED <<from, pending, start, passed>>
  BY <1>3 DEF EnterSome, Enter, ColorBufFree
<1>4. ASSUME NEW r \in Senders, Send(r)
      PROVE  /\ passed'[q][p] = 1
             /\ \E i, j \in 1 .. Len(from'[B]) :
                  from'[B][i] = p /\ from'[B][j] = q /\ i # j /\ Between(i, j, start')
  <2>1. /\ pending' = pending \cup {r} /\ UNCHANGED <<from, start>>
        /\ passed'[r] = [s \in Senders |-> 0]
        /\ \A s \in Senders : s # r => passed'[s] = passed[s]
    BY <1>4, Types DEF Send
  <2>2. q # r BY <2>1
  <2> QED BY <2>1, <2>2, <1>t
<1>5. CASE RecvMiss \/ RecvHit \/ ColorMiss \/ ColorHit
  BY <1>5, OnlyStart DEF RecvMiss, RecvHit, ColorMiss, ColorHit
<1>6. CASE StartMiss \/ StartWrap
  <2>1. UNCHANGED <<from, pending, passed>> BY <1>6 DEF StartMiss, StartWrap
  <2>2. Current = from[B] BY <1>6, OnlyStart DEF StartMiss, StartWrap
  <2>3. PICK i, j \in 1 .. Len(from[B]) :
          from[B][i] = p /\ from[B][j] = q /\ i # j /\ Between(i, j, start)
    BY <2>1, <1>t
  <2>4. /\ start + 1 # j
        /\ \/ start < Len(from[B]) /\ start' = start + 1
           \/ start + 1 >= Len(from[B]) /\ start' = 0
    BY <1>6, <2>1, <2>2, <2>3, <1>n DEF StartMiss, StartWrap
  <2>5. start' \in Nat BY <2>4, <1>n
  <2>6. Between(i, j, start') BY <2>3, <2>4, <2>5, <1>n, Moves
  <2> QED BY <2>1, <2>3, <2>6, <1>t
<1>7. CASE StartHit
  <2>1. Current = from[B] BY <1>7, OnlyStart DEF StartHit
  <2> DEFINE k == start + 1
             s == from[B][k]
  <2>2. k \in 1 .. Len(from[B]) /\ s \in Senders BY <1>7, <2>1, <1>n DEF StartHit
  <2>3. /\ s \in pending /\ Serve(s, Listed) /\ from' = from
        /\ start' = IF k = Len(from[B]) THEN 0 ELSE k
    BY <1>7, <2>1 DEF StartHit
  <2>4. /\ q \in pending /\ q # s
        /\ passed'[q][p] = IF p = s /\ q \in (pending \cap Listed) \ {s}
                           THEN IF passed[q][p] < 2 THEN passed[q][p] + 1 ELSE passed[q][p]
                           ELSE passed[q][p]
    BY <2>2, <2>3, ServeIs
  <2>5. start' \in Nat /\ \/ start < Len(from[B]) /\ start' = start + 1
                          \/ start + 1 >= Len(from[B]) /\ start' = 0
    BY <2>2, <2>3, <1>n
  <2>6. CASE ~(p = s /\ q \in Listed)
    <3>1. passed'[q][p] = passed[q][p] BY <2>4, <2>6
    <3>2. PICK i, j \in 1 .. Len(from[B]) :
            from[B][i] = p /\ from[B][j] = q /\ i # j /\ Between(i, j, start)
      BY <3>1, <2>4, <1>t
    <3>3. start + 1 # j BY <3>2, <2>4
    <3>4. Between(i, j, start') BY <3>2, <3>3, <2>5, <1>n, Moves
    <3> QED BY <3>1, <3>2, <3>4, <2>3, <2>4, <1>t
  <2>7. CASE p = s /\ q \in Listed
    <3>1. passed[q][p] = 0
      <4> SUFFICES ASSUME passed[q][p] # 0 PROVE FALSE
        OBVIOUS
      <4>1. PICK i, j \in 1 .. Len(from[B]) :
              from[B][i] = p /\ from[B][j] = q /\ i # j /\ Between(i, j, start)
        BY <2>4, <1>t
      <4>2. i = k BY <4>1, <2>2, <2>7, Distinct
      <4> QED BY <4>1, <4>2, <1>n DEF Between
    <3>2. passed'[q][p] = 1 BY <3>1, <2>4, <2>7
    <3>3. PICK j \in 1 .. Len(from[B]) : from[B][j] = q BY <2>1, <2>7 DEF Listed
    <3>4. k # j BY <3>3, <2>4
    <3>5. Between(k, j, start') BY <3>4, <2>2, <2>3, <1>n DEF Between
    <3> QED BY <3>2, <3>3, <3>4, <3>5, <2>2, <2>3, <2>7
  <2> QED BY <2>6, <2>7
<1>8. CASE UNCHANGED vars BY <1>1, <1>8 DEF vars
<1> QED BY <1>1, <1>2, <1>3, <1>4, <1>5, <1>6, <1>7, <1>8 DEF Next, Receive

-----------------------------------------------------------------------------
(* What follows *)

LEMMA ListInvariant == Spec => [](TypeOK /\ ListsColor /\ Places)
<1>1. Init => TypeOK /\ ListsColor /\ Places BY ScanInit DEF ScanInv
<1>2. (TypeOK /\ ListsColor /\ Places) /\ [Next]_vars => (TypeOK /\ ListsColor /\ Places)'
  BY TypeStep, ListStep, PlacesStep
<1> QED BY <1>1, <1>2, PTL DEF Spec

\* The variables stay in their types, with any color buffers and calls.
THEOREM TypeCorrect == Spec => []TypeOK
BY ListInvariant, PTL

\* Every color buffer lists those its color function picks, but for the process
\* itself, in ascending order and each once.
THEOREM ListsTheColor == Spec => []ListsColor
BY ListInvariant, PTL

\* With one color buffer those it is for are served in turn: while one waits, no
\* other is served twice by ssmp_recv_color_start.
THEOREM ServedInTurn ==
  ASSUME NEW B, Buffers = {B}
  PROVE  Spec => []InTurn
<1>1. ScanInv /\ [Next]_vars => ScanInv'
  BY TypeStep, ListStep, PlacesStep, TurnsStep DEF ScanInv
<1>2. ScanInv => InTurn
  <2>1. ASSUME ScanInv, calls = {"start"}, NEW p \in Senders, NEW q \in pending
        PROVE  passed[q][p] <= 1
    <3>1. TypeOK BY <2>1 DEF ScanInv
    <3>2. q \in Senders BY <3>1, Types
    <3>3. passed[q][p] \in 0 .. 2 BY <3>1, <3>2, Types
    <3>4. passed[q][p] # 0 => passed[q][p] = 1 BY <2>1 DEF ScanInv, Turns
    <3> QED BY <3>3, <3>4
  <2> QED BY <2>1 DEF ScanInv, InTurn, Fair
<1> QED BY <1>1, <1>2, ScanInit, PTL DEF Spec
=============================================================================
