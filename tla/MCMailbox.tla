----------------------------- MODULE MCMailbox -----------------------------
(* Instances of Mailbox for TLC. *)
EXTENDS Mailbox

TwoWords == {"w0", "f5"}
OneSocket == [p \in Procs |-> 0]
TwoSockets == [p \in Procs |-> IF p = 0 THEN 0 ELSE 1]
AllColors == {Procs}
AnyCall == [p \in Procs |-> LibraryCalls]

\* Three roles: a broadcaster that also serves process 1, a client, and a
\* server of both.
Roles == [p \in Procs |->
            CASE p = 0 -> {"broadcast", "recv_color"}
              [] p = 1 -> {"send", "recv_from"}
              [] OTHER -> {"recv", "recv_color", "recv_color_start"}]

\* Two color buffers of different lengths.  Process 1 is at position 0 of the
\* shorter: the socket of process 0 is asked for, and to process 0 it is its own.
Nested == {{0, 1}, {1}}
=============================================================================
