------------------------------ MODULE MCGuarded -----------------------------
(* Small instances of Guarded.  Window: two senders that share one window. *)
(* Control: requests that overlap and one that follows them; two listeners,*)
(* so that a request can be half way; two credentials of one name; a zone  *)
(* whose name is not in its normal form; rules that give two and three     *)
(* streams.                                                                *)
EXTENDS Guarded

CONSTANTS c1, c2

TwoCallers == {c1, c2}
MixedSizes == {0, 2, 5}     \* an empty message, a normal one, an oversized one

AllParts == {"admin", "zones", "connect", "router"}

TwoCreds == {[name |-> "n", stream |-> "s"], [name |-> "n", stream |-> "t"]}
TwoValues == {"a", "B"}
LowerCase == [v \in TwoValues |-> IF v = "B" THEN "b" ELSE v]
One1 == {1}
One2 == 1 .. 2
One3 == 1 .. 3
ThreeRules == {[streams |-> 2, meets |-> {"m1"}], [streams |-> 2, meets |-> {"m2"}],
               [streams |-> 3, meets |-> {"m1", "m2"}]}
TwoMetas == {"m1", "m2"}
=============================================================================
