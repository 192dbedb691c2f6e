------------------------------ MODULE Helpers ------------------------------
(***************************************************************************)
(* The helpers of ssmp that compute: pow2roundup, the tables id_to_core by *)
(* which programs choose the core of a process, and on the xeon which      *)
(* processes share a socket.  A call and what it returns is a state.       *)
(***************************************************************************)
EXTENDS Integers, Sequences

CONSTANTS W,      \* bits of a word, a power of two: 32 in the code
          Shifts  \* how far pow2roundup shifts: 1, 2, 4, ... W / 2

Parameters ==
  /\ W \in Nat \ {0} /\ Shifts \in Seq(Nat)
  /\ \A n \in 1 .. Len(Shifts) : Shifts[n] = IF n = 1 THEN 1 ELSE 2 * Shifts[n - 1]
  /\ W = IF Len(Shifts) = 0 THEN 1 ELSE 2 * Shifts[Len(Shifts)]

\* The powers of two that a word can hold, and the one after them.
pow2[n \in 0 .. W] == IF n = 0 THEN 1 ELSE 2 * pow2[n - 1]

Words == 0 .. pow2[W] - 1

VARIABLES call,  \* the call: its name and its arguments
          ret    \* what it has returned

vars == <<call, ret>>

Init == call = <<"none">> /\ ret = 0

-----------------------------------------------------------------------------
(* pow2roundup *)

\* The bits that are set in a word, and the word in which these are set.
Bits(x) == {i \in 0 .. W - 1 : (x \div pow2[i]) % 2 = 1}
Word(bits) ==
  LET sum[n \in 0 .. W] ==
        IF n = 0 THEN 0 ELSE sum[n - 1] + (IF n - 1 \in bits THEN pow2[n - 1] ELSE 0)
  IN sum[W]

\* x |= x >> s, for the first n shifts.
Smear(x) ==
  LET after[n \in 0 .. Len(Shifts)] ==
        IF n = 0 THEN Bits(x)
        ELSE after[n - 1] \cup ({i - Shifts[n] : i \in after[n - 1]} \cap Nat)
  IN Word(after[Len(Shifts)])

\* A rounding that moves a power of two on to the next.
pow2roundup_Next(x) == IF x = 0 THEN 1 ELSE (Smear(x) + 1) % pow2[W]

pow2roundup(x) == IF x = 0 THEN 1 ELSE (Smear(x - 1) + 1) % pow2[W]

-----------------------------------------------------------------------------
(* Cores *)

Platforms == {"generic", "opteron", "xeon", "niagara", "tilera"}

Ids(platform) == CASE platform \in {"generic", "opteron", "xeon"} -> 0 .. 255
                   [] platform = "niagara" -> 0 .. 63
                   [] platform = "tilera" -> 0 .. 47

\* The niagara begins with the first thread of each of its eight cores, goes
\* on with the second of all but the first core, and so on.
niagara(id) == CASE id < 8 -> 8 * id
                 [] id \in 8 .. 56 -> 9 + 8 * ((id - 8) % 7) + (id - 8) \div 7
                 [] id > 56 -> id - 56

\* A table of the xeon without core 0.
xeon_Skip(id) == IF id < 40 THEN id + 1 ELSE id

\* The xeon leaves core 0 for the first process of the fifth socket.
xeon(id) == CASE id < 40 -> id + 1
              [] id = 40 -> 0
              [] id > 40 -> id

id_to_core(platform, id) == CASE platform = "niagara" -> niagara(id)
                              [] platform = "xeon" -> xeon(id)
                              [] OTHER -> id

\* id_to_node: for the 80 cores of the xeon.
XeonCores == 0 .. 79

id_to_node(core) == IF core = 0 THEN 4
                    ELSE IF core <= 40 THEN (core - 1) \div 10
                    ELSE core \div 10

ssmp_cores_on_same_socket(p, q) == id_to_node(xeon(p)) = id_to_node(xeon(q))

-----------------------------------------------------------------------------
Idle == call = <<"none">>

Pow2roundup(x) == /\ Idle
                  /\ call' = <<"pow2roundup", x>>
                  /\ ret' = pow2roundup(x)

\* set_cpu(id_to_core[ID])
SetCpu(platform, id) == /\ Idle
                        /\ call' = <<"set_cpu", platform, id>>
                        /\ ret' = id_to_core(platform, id)

SameSocket(p, q) == /\ Idle
                    /\ call' = <<"ssmp_cores_on_same_socket", p, q>>
                    /\ ret' = IF ssmp_cores_on_same_socket(p, q) THEN 1 ELSE 0

Return == /\ ~Idle
          /\ call' = <<"none">>
          /\ ret' = 0

Next == \/ \E x \in Words : Pow2roundup(x)
        \/ \E platform \in Platforms : \E id \in Ids(platform) : SetCpu(platform, id)
        \/ \E p, q \in XeonCores : SameSocket(p, q)
        \/ Return

Spec == Init /\ [][Next]_vars

-----------------------------------------------------------------------------
(* Properties *)

\* A call has arguments of its types, and returns a word, a core or a truth value.
TypeOK ==
  \/ Idle /\ ret = 0
  \/ call \in {"pow2roundup"} \X Words /\ ret \in Words
  \/ /\ call \in {"set_cpu"} \X Platforms \X (0 .. 255)
     /\ call[3] \in Ids(call[2]) /\ ret \in Ids(call[2])
  \/ call \in {"ssmp_cores_on_same_socket"} \X XeonCores \X XeonCores /\ ret \in {0, 1}

PowersOfTwo == {pow2[k] : k \in 0 .. W - 1}
NextPower(x, y) == y \in PowersOfTwo /\ y >= x /\ \A z \in PowersOfTwo : z >= x => y <= z

\* pow2roundup returns the smallest power of two that is not smaller, whenever
\* a word can hold it.
RoundsUp ==
  (call[1] = "pow2roundup" /\ call[2] <= pow2[W - 1]) => NextPower(call[2], ret)

\* No two processes share a core, on any platform: on that rests that each of
\* them can spin and still let the others run.
OwnCore ==
  call[1] = "set_cpu" =>
    /\ \A q \in Ids(call[2]) \ {call[3]} : id_to_core(call[2], q) # ret
    /\ ret \in Ids(call[2])

\* On the xeon ten processes after one another share a socket, and nobody else
\* is on it.  Sender and receiver agree on it: both lock the line, or neither.
SocketsOfTen ==
  call[1] = "ssmp_cores_on_same_socket" => (ret = 1) = (call[2] \div 10 = call[3] \div 10)
=============================================================================
