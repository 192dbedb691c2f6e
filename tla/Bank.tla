-------------------------------- MODULE Bank --------------------------------
(***************************************************************************)
(* The benchmark bank: servers keep accounts, applications send them       *)
(* deposits, withdrawals and checks.  When the applications are done the   *)
(* first of them sends EXIT to every server, and all send their throughput *)
(* to process 0, which is a server, has left its loop, and collects them   *)
(* after a barrier.  The messages are those of Channel.tla, the barriers   *)
(* those of AbstractBarrier.tla.                                           *)
(***************************************************************************)
EXTENDS Integers, FiniteSets

CONSTANTS N,           \* num_procs
          DslPerCore,  \* every DslPerCore-th process is a server
          NbAccounts,  \* nb_accounts, a power of two
          NumOps,      \* num_ops
          Ops,         \* the operations the percentages allow
          None

Procs == 0 .. N - 1
color_dsl(id) == id % DslPerCore = 0
Servers == {p \in Procs : color_dsl(p)}
Apps == Procs \ Servers
num_dsl == Cardinality(Servers)

\* dsl_seq is filled with the servers in ascending order; beyond them it is 0.
dsl_seq(i) == IF i < num_dsl THEN i * DslPerCore ELSE 0
PerDsl == NbAccounts \div num_dsl
get_dsl(acc) == dsl_seq(acc \div PerDsl)

Accounts == 0 .. NbAccounts - 1
Places == Servers \X (0 .. PerDsl - 1)   \* accs[] of the servers
Place(acc) == <<get_dsl(acc), acc % PerDsl>>

\* w0, w1 and w2 of the messages.  The report is a double, and as w0 it is
\* none of the operations.
Message == [w0 : {"DEPOSIT", "WITHDRAW", "CHECK", "EXIT", "REPORT"},
            w1 : 0 .. NbAccounts - 1, w2 : Nat]
EXIT == [w0 |-> "EXIT", w1 |-> 0, w2 |-> 0]
REPORT == [w0 |-> "REPORT", w1 |-> 0, w2 |-> 0]

Parameters ==
  /\ N \in Nat \ {0, 1} /\ DslPerCore \in Nat \ {0, 1}
  /\ NbAccounts \in Nat /\ num_dsl <= NbAccounts
  /\ NumOps \in Nat \ {0} /\ Ops \subseteq {"DEPOSIT", "WITHDRAW", "CHECK"}
  /\ None \notin Message \cup (Ops \X Accounts) \cup (Apps \X Message)

Barriers == {0, 1, 3, 4}

VARIABLES
  slot, got,                    \* the channels
  party, arrivals, departures,  \* the barriers
  pc,       \* pc[p]: where p is
  ops,      \* ops[p]: operations that application p has begun
  want,     \* want[p]: the operation and account it has chosen, or None
  next,     \* next[p]: loop variable: servers told to exit, reports collected
  start,    \* start[p]: start_recv_from of server p
  balance,  \* balance[pl]: the accounts
  answer,   \* answer[p]: to whom server p has yet to send which answer, or None
  made,     \* made[pl]: deposits that applications have begun
  taken     \* taken[pl]: withdrawals that succeeded, as they have learnt

channels == <<slot, got>>
barriers == <<party, arrivals, departures>>
history == <<made, taken>>
vars == <<channels, barriers, pc, ops, want, next, start, balance, answer, history>>

Ch == INSTANCE Channel WITH MessagesOf <- [p \in Procs |-> Message]
Bar == INSTANCE AbstractBarrier

Init ==
  /\ Ch!Init
  /\ party = [b \in Barriers |-> IF b = 1 THEN Apps ELSE Procs]
  /\ arrivals = [b \in Barriers |-> [p \in Procs |-> 0]]
  /\ departures = [b \in Barriers |-> [p \in Procs |-> 0]]
  /\ pc = [p \in Procs |-> "begin"]
  /\ ops = [p \in Procs |-> 0]
  /\ want = [p \in Procs |-> None]
  /\ next = [p \in Procs |-> 0]
  /\ start = [p \in Procs |-> 0]
  /\ balance = [pl \in Places |-> 0]
  /\ answer = [p \in Procs |-> None]
  /\ made = [pl \in Places |-> 0]
  /\ taken = [pl \in Places |-> 0]

-----------------------------------------------------------------------------
\* ssmp_barrier_wait(b), from one place of the program to the next.
Wait(b, p, at, to) ==
  /\ pc[p] = at
  /\ \/ Bar!Arrive(b, p) /\ UNCHANGED pc
     \/ Bar!Depart(b, p) /\ pc' = [pc EXCEPT ![p] = to]
  /\ UNCHANGED <<channels, ops, want, next, start, balance, answer, history>>

-----------------------------------------------------------------------------
(* bank_app *)

\* The next operation and account, by chance.
Choose(p) ==
  /\ pc[p] = "ops"
  /\ want[p] = None
  /\ IF ops[p] < NumOps
     THEN /\ \E op \in Ops, acc \in Accounts : want' = [want EXCEPT ![p] = <<op, acc>>]
          /\ ops' = [ops EXCEPT ![p] = @ + 1]
          /\ UNCHANGED pc
     ELSE /\ pc' = [pc EXCEPT ![p] = "done"]
          /\ UNCHANGED <<want, ops>>
  /\ UNCHANGED <<channels, barriers, next, start, balance, answer, history>>

\* deposit, and withdraw and check up to the send.
Request(p) ==
  /\ pc[p] = "ops"
  /\ want[p] # None
  /\ LET op == want[p][1]
         acc == want[p][2]
     IN /\ Ch!Send(<<p, get_dsl(acc)>>, [w0 |-> op, w1 |-> acc % PerDsl, w2 |-> 1])
        /\ made' = IF op = "DEPOSIT" THEN [made EXCEPT ![Place(acc)] = @ + 1] ELSE made
        /\ want' = IF op = "DEPOSIT" THEN [want EXCEPT ![p] = None] ELSE want
        /\ pc' = IF op = "DEPOSIT" THEN pc ELSE [pc EXCEPT ![p] = "answer"]
  /\ UNCHANGED <<barriers, ops, next, start, balance, answer, taken>>

\* withdraw and check from ssmp_recv_from on.
Answer(p) ==
  /\ pc[p] = "answer"
  /\ LET op == want[p][1]
         acc == want[p][2]
         c == <<get_dsl(acc), p>>
     IN /\ Ch!Receive(c)
        /\ taken' = IF op = "WITHDRAW" THEN [taken EXCEPT ![Place(acc)] = @ + slot[c].w2]
                    ELSE taken
  /\ want' = [want EXCEPT ![p] = None]
  /\ pc' = [pc EXCEPT ![p] = "ops"]
  /\ UNCHANGED <<barriers, ops, next, start, balance, answer, made>>

\* The first wait on barrier 1 leads application 1 to the EXITs.
WaitDone(p) == Wait(1, p, "done", IF p = 1 THEN "exit" ELSE "told")

\* A loop that leaves out the last server.
SendExit_MissLast(p) ==
  /\ pc[p] = "exit"
  /\ Ch!Send(<<p, dsl_seq(next[p])>>, EXIT)
  /\ next' = [next EXCEPT ![p] = @ + 1]
  /\ pc' = [pc EXCEPT ![p] = IF next[p] + 2 < num_dsl THEN "exit" ELSE "told"]
  /\ UNCHANGED <<barriers, ops, want, start, balance, answer, history>>

SendExit(p) ==
  /\ pc[p] = "exit"
  /\ Ch!Send(<<p, dsl_seq(next[p])>>, EXIT)
  /\ next' = [next EXCEPT ![p] = @ + 1]
  /\ pc' = [pc EXCEPT ![p] = IF next[p] + 1 < num_dsl THEN "exit" ELSE "told"]
  /\ UNCHANGED <<barriers, ops, want, start, balance, answer, history>>

SendReport(p) ==
  /\ pc[p] = "report"
  /\ Ch!Send(<<p, 0>>, REPORT)
  /\ pc' = [pc EXCEPT ![p] = "end"]
  /\ UNCHANGED <<barriers, ops, want, next, start, balance, answer, history>>

App(p) == \/ Wait(4, p, "begin", "ops")
          \/ Choose(p) \/ Request(p) \/ Answer(p)
          \/ WaitDone(p)
          \/ SendExit(p)
          \/ Wait(1, p, "told", "report")
          \/ SendReport(p)

-----------------------------------------------------------------------------
(* bank_dsl.  Its color buffer lists the applications in ascending order. *)

Sender(i) == CHOOSE a \in Apps : Cardinality({q \in Apps : q < a}) = i
NumApp == Cardinality(Apps)
After(i) == IF i + 1 = NumApp THEN 0 ELSE i + 1

\* ssmp_recv_color_start finds nothing at its position.
Miss(p) ==
  /\ pc[p] = "serve"
  /\ answer[p] = None
  /\ slot[<<Sender(start[p]), p>>] = None
  /\ start' = [start EXCEPT ![p] = After(@)]
  /\ UNCHANGED <<channels, barriers, pc, ops, want, next, balance, answer, history>>

\* A withdrawal must be covered.
Grant(pl, w2) == balance[pl] >= w2

\* A server that answers a withdrawal and keeps the money.
Apply_NoWithdraw(m, pl) ==
  balance' = IF m.w0 = "DEPOSIT" THEN [balance EXCEPT ![pl] = @ + m.w2] ELSE balance

\* What message m does to the account at place pl, and what is answered.
Apply(m, pl) ==
  balance' = CASE m.w0 = "DEPOSIT" -> [balance EXCEPT ![pl] = @ + m.w2]
               [] m.w0 = "WITHDRAW" /\ Grant(pl, m.w2) -> [balance EXCEPT ![pl] = @ - m.w2]
               [] OTHER -> balance

Reply(m, pl) == CASE m.w0 = "WITHDRAW" -> [m EXCEPT !.w2 = IF Grant(pl, @) THEN 1 ELSE 0]
                  [] m.w0 = "CHECK" -> [m EXCEPT !.w2 = balance[pl]]
                  [] OTHER -> None

\* A switch in which the case CHECK falls through to the default.
Serve_FallsThrough(p) ==
  /\ pc[p] = "serve"
  /\ answer[p] = None
  /\ LET q == Sender(start[p])
         m == slot[<<q, p>>]
     IN /\ Ch!Receive(<<q, p>>)
        /\ Apply(m, <<p, m.w1>>)
        /\ answer' = IF Reply(m, <<p, m.w1>>) = None THEN answer
                     ELSE [answer EXCEPT ![p] = <<q, Reply(m, <<p, m.w1>>)>>]
        /\ pc' = IF m.w0 \in {"DEPOSIT", "WITHDRAW"} THEN pc ELSE [pc EXCEPT ![p] = "end"]
  /\ start' = [start EXCEPT ![p] = After(@)]
  /\ UNCHANGED <<barriers, ops, want, next, history>>

\* ssmp_recv_color_start finds a message, and the server acts on it: on any
\* w0 that is no operation it leaves its loop.
Serve(p) ==
  /\ pc[p] = "serve"
  /\ answer[p] = None
  /\ LET q == Sender(start[p])
         m == slot[<<q, p>>]
     IN /\ Ch!Receive(<<q, p>>)
        /\ Apply(m, <<p, m.w1>>)
        /\ answer' = IF Reply(m, <<p, m.w1>>) = None THEN answer
                     ELSE [answer EXCEPT ![p] = <<q, Reply(m, <<p, m.w1>>)>>]
        /\ pc' = IF m.w0 \in {"DEPOSIT", "WITHDRAW", "CHECK"} THEN pc
                 ELSE [pc EXCEPT ![p] = "end"]
  /\ start' = [start EXCEPT ![p] = After(@)]
  /\ UNCHANGED <<barriers, ops, want, next, history>>

SendAnswer(p) ==
  /\ answer[p] # None
  /\ Ch!Send(<<p, answer[p][1]>>, answer[p][2])
  /\ answer' = [answer EXCEPT ![p] = None]
  /\ UNCHANGED <<barriers, pc, ops, want, next, start, balance, history>>

Dsl(p) == Wait(4, p, "begin", "serve") \/ Miss(p) \/ Serve(p) \/ SendAnswer(p)

-----------------------------------------------------------------------------
(* The end of main *)

WaitEnd(p) == Wait(0, p, "end", IF p = 0 THEN "collect" ELSE "stats")

\* Process 0 receives the reports, in the order of the applications.
Collect(p) ==
  /\ pc[p] = "collect"
  /\ IF next[p] < NumApp
     THEN /\ Ch!Receive(<<Sender(next[p]), p>>)
          /\ next' = [next EXCEPT ![p] = @ + 1]
          /\ UNCHANGED pc
     ELSE /\ pc' = [pc EXCEPT ![p] = "stats"]
          /\ UNCHANGED <<channels, next>>
  /\ UNCHANGED <<barriers, ops, want, start, balance, answer, history>>

WaitStats(p) == Wait(3, p, "stats", "term")

Step(p) == \/ p \in Apps /\ App(p)
           \/ p \in Servers /\ Dsl(p)
           \/ WaitEnd(p) \/ Collect(p) \/ WaitStats(p)

Next == \E p \in Procs : Step(p)

Spec == Init /\ [][Next]_vars

\* Every process runs on a core of its own.
FairSpec == Spec /\ \A p \in Procs : WF_vars(Step(p))

-----------------------------------------------------------------------------
(* Properties *)

TypeOK ==
  /\ slot \in [Ch!Chan -> Message \cup {None}]
  /\ pc \in [Procs -> {"begin", "ops", "answer", "done", "exit", "told", "report",
                       "serve", "end", "collect", "stats", "term"}]
  /\ ops \in [Procs -> 0 .. NumOps]
  /\ next \in [Procs -> 0 .. N]
  /\ \A p \in Servers : start[p] \in 0 .. NumApp - 1
  /\ balance \in [Places -> Nat]

\* The deposits for place pl, and the withdrawals granted, that are on their
\* way.
Deposits(pl) == {p \in Apps : /\ slot[<<p, pl[1]>>] # None
                              /\ slot[<<p, pl[1]>>].w0 = "DEPOSIT"
                              /\ slot[<<p, pl[1]>>].w1 = pl[2]}
Yes(m, pl) == m # None /\ m.w0 = "WITHDRAW" /\ m.w1 = pl[2] /\ m.w2 = 1
Grants(pl) ==
  {p \in Apps : \/ Yes(slot[<<pl[1], p>>], pl)
                \/ /\ answer[pl[1]] # None
                   /\ answer[pl[1]][1] = p
                   /\ Yes(answer[pl[1]][2], pl)}

\* Money neither appears nor vanishes: what was paid in is in the account, in
\* a message, or was taken out.
Conservation ==
  \A pl \in Places :
    made[pl] = balance[pl] + taken[pl] + Cardinality(Deposits(pl)) + Cardinality(Grants(pl))

\* Servers that share the accounts evenly keep no two of them in one place.
\* Otherwise get_dsl sends the last accounts to server 0, where they share
\* the places of its own.
OwnPlaces ==
  NbAccounts % num_dsl = 0 => \A acc, b \in Accounts : Place(acc) = Place(b) => acc = b

\* What a check brings back to a single application are its own deposits and
\* withdrawals, although deposits are not answered.
ReadsItsWrites ==
  \A p \in Apps :
    pc[p] = "answer" /\ want[p][1] = "CHECK" =>
      LET acc == want[p][2]
          m == slot[<<get_dsl(acc), p>>]
      IN m # None => m.w2 = made[Place(acc)] - taken[Place(acc)]

\* A server that has left its loop has left no operation behind.
NothingUnserved ==
  \A s \in Servers, p \in Apps :
    pc[s] \in {"end", "collect", "stats", "term"} /\ slot[<<p, s>>] # None
      => slot[<<p, s>>].w0 = "REPORT"

\* The program ends.
Ended == \A p \in Procs : pc[p] = "term"
Terminates == <>Ended
=============================================================================
