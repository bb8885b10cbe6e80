--------------------------- MODULE MCScaleWindow ---------------------------
(***************************************************************************)
(* Instances of ScaleWindow for TLC.  Times are in ticks of ten seconds.   *)
(***************************************************************************)
EXTENDS ScaleWindow

P(min, max, warm, target, idle, up, down) ==
    [min |-> min, max |-> max, warm |-> warm, target |-> target, idle |-> idle,
     up |-> up, down |-> down]

\* The shortest scale_down_after the validator accepts.  Two sets scale to zero,
\* without and with a warm replica, and their window (half of scale_up_after)
\* covers scale_down_after, so that the idle branch is taken; one has a floor and
\* the shortest scale_up_after.
MixedPolicies ==
    {P(0, 1, 0, 6, TRUE, 12, 6), P(0, 1, 1, 1, TRUE, 12, 6), P(1, 2, 0, 1, FALSE, 1, 6)}

\* The documented default of scale_up_after with the shortest scale_down_after.
DefaultPolicies == {P(1, 3, 0, 2, FALSE, 3, 6)}

\* A window that covers scale_down_after, and a permanent warm replica.
WarmPolicies == {P(0, 2, 1, 2, TRUE, 12, 6)}

Loads == {0, 1, 5}
FewLoads == {0, 1}
IdleOrBusy == {0, 3}
============================================================================
