------------------------------ MODULE Channel ------------------------------
(***************************************************************************)
(* What the cache-line messages of ssmp promise, with no memory in sight:  *)
(* between every ordered pair of processes there is a channel that holds   *)
(* at most one pending message (README.md, Limitations 1).  A message      *)
(* enters an empty channel whole, sent by the channel's sender, and leaves *)
(* it once, handed whole to the channel's receiver together with the       *)
(* sender's name.  Mailbox.tla is shown to implement this module.          *)
(***************************************************************************)
CONSTANTS Procs,      \* the processes (ssmp_id_)
          MessagesOf, \* MessagesOf[p]: the messages process p may send
          None        \* no message

VARIABLES slot,  \* slot[c]: the pending message of channel c, or None
          got    \* got[p]: the last message a receive of p returned

vars == <<slot, got>>

Chan == {c \in Procs \X Procs : c[1] # c[2]}

Init == /\ slot = [c \in Chan |-> None]
        /\ got = [p \in Procs |-> None]

Send(c, m) == /\ slot[c] = None
              /\ slot' = [slot EXCEPT ![c] = m]
              /\ UNCHANGED got

Receive(c) == /\ slot[c] # None
              /\ got' = [got EXCEPT ![c[2]] = [sender |-> c[1], msg |-> slot[c]]]
              /\ slot' = [slot EXCEPT ![c] = None]

Next == \E c \in Chan : \/ \E m \in MessagesOf[c[1]] : Send(c, m)
                        \/ Receive(c)

Spec == Init /\ [][Next]_vars
=============================================================================
