----------------------------- MODULE MCSsmpBig -----------------------------
(* Instances of SsmpBig for TLC. *)
EXTENDS SsmpBig

TwoCells == {"first", "middle"}
Zeros == {0}
Ones == {1}
BothWays == {<<0, 1>>, <<1, 0>>}
OneWay == {<<0, 1>>}
TwoReceivers == {<<0, 1>>, <<0, 2>>}
Short == {[full |-> 0, rest |-> TRUE]}
AllShapes == [full : 0 .. 2, rest : BOOLEAN]
=============================================================================
