------------------------- MODULE ScaleWindowHistory -------------------------
(***************************************************************************)
(* ScaleWindow with history: for how long every sample that a tick took    *)
(* has been high or low, also the samples that the window has forgotten,   *)
(* and since when there has been no call.                                  *)
(***************************************************************************)
EXTENDS ScaleWindow

VARIABLES
    highFor,    \* every sample was at or above the target for that long; -1 never
    lowFor,     \* every sample was at or below half of it for that long; -1 never
    quietFor    \* time since the last sample that was not zero, or since the start

hvars == <<vars, highFor, lowFor, quietFor>>

\* How long a condition has held of every sample, now that it is b.
Lasts(was, gap, b, horizon) ==
    IF ~b THEN -1 ELSE IF was < 0 THEN 0 ELSE Older(was, gap, horizon)

HInit == Init /\ highFor = -1 /\ lowFor = -1 /\ quietFor = 0

HNext ==
    \/ \E gap \in 1 .. MaxGap :
          /\ Tick(gap)
          /\ highFor' = Lasts(highFor, gap, MedianInFlight >= 2 * policy.target, UpHorizon)
          /\ lowFor' = Lasts(lowFor, gap, MedianInFlight <= policy.target, DownHorizon)
          /\ quietFor' = IF MedianInFlight > 0 THEN 0 ELSE Min2(quietFor + gap, DownHorizon + 1)
    \/ (ColdStart \/ DemandChanges) /\ UNCHANGED <<highFor, lowFor, quietFor>>
    \/ UpdatePolicy /\ highFor' = -1 /\ lowFor' = -1 /\ UNCHANGED quietFor

HSpec == HInit /\ [][HNext]_hvars

\* docs/scaling.md: a load-driven scale-up happens only when the median "has
\* exceeded target_in_flight for the full scale_up_after window".
SustainedUp ==
    [][Ticks /\ n' > n /\ n >= policy.min + policy.warm => highFor' >= policy.up]_hvars

\* docs/scaling.md: a scale-down happens only when the median "has been below
\* half the target for the full scale_down_after window".
SustainedDown == [][Ticks /\ n' < n => lowFor' >= policy.down]_hvars

\* autoscaler.go: "aggressive reap only after ScaleDownAfter of sustained
\* zero-traffic windows".  Warm replicas are reaped only if no sample of that time
\* was busy and the scaler has watched for as long, whatever the window has
\* dropped and however often the policy, and with it the window, has changed.
WarmUntilIdle ==
    [][Ticks /\ n' < n /\ n' < policy.min + policy.warm => quietFor' > policy.down]_hvars
=============================================================================
