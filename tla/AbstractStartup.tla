-------------------------- MODULE AbstractStartup --------------------------
(***************************************************************************)
(* What ssmp_mem_init promises: it returns to a process only when every    *)
(* process has reset the buffers it receives in, so that no message sent   *)
(* after it can be wiped out, and none of an earlier run be received.      *)
(* MemInit.tla (x86) and SparcInit.tla are shown to implement this module. *)
(***************************************************************************)
CONSTANT Procs   \* the processes

VARIABLES reset,  \* processes whose receive buffers are reset
          up      \* processes to which ssmp_mem_init has returned

vars == <<reset, up>>

Init == reset = {} /\ up = {}

Reset(p) == /\ p \notin reset
            /\ reset' = reset \cup {p}
            /\ UNCHANGED up

Return(p) == /\ reset = Procs
             /\ p \notin up
             /\ up' = up \cup {p}
             /\ UNCHANGED reset

Next == \E p \in Procs : Reset(p) \/ Return(p)

Spec == Init /\ [][Next]_vars
=============================================================================
