----------------------------- MODULE Profiling -----------------------------
(***************************************************************************)
(* The profiler of measurements.h: PF_START and PF_STOP around a section   *)
(* of a program add up its ticks, less what reading the clock costs.  All  *)
(* the numbers are words; the cost of a reading varies, the correction     *)
(* that is subtracted is its average.                                      *)
(***************************************************************************)
EXTENDS Integers

CONSTANTS Positions,   \* positions that are measured
          W,           \* bits of a word
          Costs,       \* ticks it may take to read the clock
          Correction,  \* getticks_correction: the average cost
          MaxNow       \* bound: the ticks of a run

Word == 0 .. 2^W - 1

Parameters ==
  Costs \subseteq Nat \ {0} /\ Correction \in Nat /\ W \in Nat /\ MaxNow \in Word

VARIABLES now,      \* the clock
          entry,    \* entry_time
          valid,    \* positions whose entry_time_valid is M_TRUE
          sum,      \* total_sum_ticks
          samples,  \* total_samples
          stops     \* history: how often something was added to total_sum_ticks

vars == <<now, entry, valid, sum, samples, stops>>

Zeros == [i \in Positions |-> 0]

Init == /\ now = 0
        /\ entry = Zeros
        /\ valid = {}
        /\ sum = Zeros
        /\ samples = Zeros
        /\ stops = Zeros

\* The program computes.
Work == /\ now < MaxNow
        /\ now' = now + 1
        /\ UNCHANGED <<entry, valid, sum, samples, stops>>

\* getticks: the value is that at the end of the reading.
Read == \E c \in Costs : now + c <= MaxNow /\ now' = now + c

\* PF_START
EntryTime(i) == /\ Read
                /\ entry' = [entry EXCEPT ![i] = now']
                /\ valid' = valid \cup {i}
                /\ UNCHANGED <<sum, samples, stops>>

\* total_sum_ticks is unsigned: a section may be shorter than the correction.
Add(i) == /\ sum' = [sum EXCEPT ![i] = (@ + now' - entry[i] - Correction) % 2^W]
          /\ samples' = [samples EXCEPT ![i] = @ + 1]
          /\ stops' = [stops EXCEPT ![i] = @ + 1]

\* A stop that leaves the entry valid.
ExitTime_StaysValid(i) ==
  /\ Read
  /\ IF i \in valid THEN Add(i) ELSE UNCHANGED <<sum, samples, stops>>
  /\ UNCHANGED <<entry, valid>>

\* PF_STOP; without a PF_START before it nothing happens.
ExitTime(i) ==
  /\ Read
  /\ IF i \in valid THEN Add(i) ELSE UNCHANGED <<sum, samples, stops>>
  /\ valid' = valid \ {i}
  /\ UNCHANGED entry

\* PF_EXCLUDE
ExcludeEntry(i) == /\ samples' = [samples EXCEPT ![i] = 0]
                   /\ UNCHANGED <<now, entry, valid, sum, stops>>

Next == Work \/ \E i \in Positions : EntryTime(i) \/ ExitTime(i) \/ ExcludeEntry(i)

Spec == Init /\ [][Next]_vars

-----------------------------------------------------------------------------
(* Properties *)

TypeOK ==
  /\ now \in 0 .. MaxNow
  /\ entry \in [Positions -> 0 .. MaxNow]
  /\ valid \subseteq Positions
  /\ sum \in [Positions -> Word]
  /\ samples \in [Positions -> 0 .. MaxNow]
  /\ stops \in [Positions -> 0 .. MaxNow]

\* Whatever starts and stops follow each other, and although a section may be
\* shorter than the correction: with the correction put back, a sum is the time
\* of sections that do not overlap, and so within the time of the run.
NoTimeTwice ==
  \A i \in Positions : (sum[i] + stops[i] * Correction) % 2^W <= now

=============================================================================
