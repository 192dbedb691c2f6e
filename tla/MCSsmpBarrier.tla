--------------------------- MODULE MCSsmpBarrier ---------------------------
(* Instances of SsmpBarrier for TLC. *)
EXTENDS SsmpBarrier

SixtyFour == 0 .. 63
TwoBarriers == {0, 1}
Everybody == {SixtyFour}
NoColor == {NULL}
ColorPair == {NULL, {0, 2}}
SomeBits == {SixtyFour, {0, 1}}
=============================================================================
