---------------------------- MODULE MCProjection ----------------------------
(***************************************************************************)
(* Instances of Projection for TLC.                                        *)
(***************************************************************************)
EXTENDS Projection, TLC

CONSTANT p1

\* No preference, and one for this skill.
SomePolicies == {[default |-> None, override |-> None], [default |-> None, override |-> p1]}

\* A behaviour is not followed past an edit that an adopt has swallowed.
NotSwallowed == ~swallowed
=============================================================================
