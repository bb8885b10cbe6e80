---------------------------- MODULE MCToolPins ----------------------------
(***************************************************************************)
(* Instances of ToolPins for TLC.                                          *)
(***************************************************************************)
EXTENDS ToolPins, TLC

CONSTANTS i1, i2, o1, o2

\* Two definitions that the old digest cannot tell apart; and, of what was pinned
\* before, one of them and one that both differ from.
SomeDefs == {[input |-> i1, output |-> o1], [input |-> i1, output |-> o2]}
SomeOldDefs == {[input |-> i1, output |-> o1], [input |-> i2, output |-> o1]}

\* Replicas are interchangeable.
PinsSymmetry == Permutations(Replicas)
=============================================================================
