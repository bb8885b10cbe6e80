---------------------------- MODULE ScaleWindow ----------------------------
(***************************************************************************)
(* The timing side of the autoscaler (pkg/mcp/autoscaler.go): the rolling  *)
(* window of load samples, the two cooldowns and the gates that Tick,      *)
(* scaleUp and scaleDown build from them.  ReplicaPool leaves the window's *)
(* verdict open; here the clock and the samples are explicit, and a tick   *)
(* is one step, because only ticks and cold starts use the clock.          *)
(*                                                                         *)
(* The unit of time is the interval of StartAutoscaler, ten seconds.  Only *)
(* differences of times matter, so a sample has an age and not a date, and *)
(* ages of scale actions are cut at the cooldown they are compared with.   *)
(* Least-connections dispatch spreads the calls in flight evenly.  Medians *)
(* are doubled to keep them whole.                                         *)
(***************************************************************************)
EXTENDS Integers, Sequences, FiniteSets

CONSTANTS
    Policies,       \* the policies the stack may set
    Demands,        \* numbers of calls in flight on the whole set
    MaxGap,         \* the longest time between two ticks (a slow one delays the next)
    MinRetention    \* 30 s

Max2(a, b) == IF a > b THEN a ELSE b
Min2(a, b) == IF a < b THEN a ELSE b

\* config.validateAutoscale: 10 s and 1 m are the shortest cooldowns.
ValidPolicy(p) ==
    /\ p.min \in Nat /\ p.max \in Nat \ {0} /\ p.warm \in Nat
    /\ p.target \in Nat \ {0} /\ p.idle \in BOOLEAN
    /\ p.up \in Nat \ {0} /\ p.down \in Nat /\ p.down >= 6
    /\ p.min + p.warm <= p.max
    /\ ~p.idle => p.min >= 1

UpCooldowns == {p.up : p \in Policies}
DownCooldowns == {p.down : p \in Policies}

IsLongest(h, S) == h \in S /\ \A d \in S : d <= h

\* There are longest cooldowns: a stack has one policy at a time, and finitely
\* many in a history.
ASSUME WindowAssumption ==
    /\ \A p \in Policies : ValidPolicy(p)
    /\ \E h \in UpCooldowns : IsLongest(h, UpCooldowns)
    /\ \E h \in DownCooldowns : IsLongest(h, DownCooldowns)
    /\ Demands \subseteq Nat
    /\ MaxGap \in Nat \ {0} /\ MinRetention \in Nat

VARIABLES
    policy,     \* Autoscaler.policy
    samples,    \* inFlightWindow.samples, oldest first
    size,       \* inFlightWindow.size
    upAge,      \* time since lastScaleUpAt, cut at UpHorizon (also: never)
    downAge,    \* time since lastScaleDownAt, cut at DownHorizon (also: never)
    n,          \* healthy replicas of the set
    demand      \* calls in flight

vars == <<policy, samples, size, upAge, downAge, n, demand>>

UpHorizon == CHOOSE h \in UpCooldowns : IsLongest(h, UpCooldowns)
DownHorizon == CHOOSE h \in DownCooldowns : IsLongest(h, DownCooldowns)

windowSizeFor(p) == Max2(MinRetention, p.up \div 2)

Older(age, gap, horizon) == Min2(age + gap, horizon)

\* The k-th least loaded of the replicas that share the demand.
Share(k) == IF k <= n - (demand % n) THEN demand \div n ELSE (demand \div n) + 1

\* Twice the median of the calls in flight per replica.
MedianInFlight == IF n = 0 THEN 0 ELSE Share((n + 1) \div 2) + Share((n \div 2) + 1)

\* inFlightWindow.Add: append, then drop from the head what is too old.
Add(gap, med2) ==
    LET aged == [i \in 1 .. Len(samples) |-> [samples[i] EXCEPT !.age = @ + gap]]
        all == Append(aged, [age |-> 0, med2 |-> med2])
        first == CHOOSE i \in 1 .. Len(all) :
                    /\ all[i].age <= size
                    /\ \A j \in 1 .. i - 1 : all[j].age > size
    IN  SubSeq(all, first, Len(all))

\* The samples of window w no older than d.
Since(w, d) == {i \in 1 .. Len(w) : w[i].age <= d}

\* Four times the median of the samples of w no older than d; 0 if there is none.
sampleMedian(w, d) ==
    LET idx == Since(w, d)
        c == Cardinality(idx)
        rank(v, k) == /\ Cardinality({i \in idx : w[i].med2 < v}) < k
                      /\ k <= Cardinality({i \in idx : w[i].med2 <= v})
        at(k) == CHOOSE v \in {w[i].med2 : i \in idx} : rank(v, k)
    IN  IF c = 0 THEN 0 ELSE at((c + 1) \div 2) + at((c \div 2) + 1)

allSamplesZeroSince(w, d) ==
    Since(w, d) # {} /\ \A i \in Since(w, d) : w[i].med2 = 0

\* Mutant: the load-derived target is rounded down.
computeTargetRoundedDown(med2) ==
    LET raw == (n * med2) \div (2 * policy.target)
    IN  Min2(Max2(raw, policy.min) + policy.warm, policy.max)

\* Mutant: the warm pool is left out of the target.
computeTargetNoWarm(med2) ==
    LET raw == IF n > 0 THEN (n * med2 + 2 * policy.target - 1) \div (2 * policy.target)
                        ELSE 0
    IN  Min2(Max2(raw, policy.min), policy.max)

\* The load-derived number of replicas, floored at Min, plus the warm pool.
computeTarget(med2) ==
    LET raw == IF n > 0 THEN (n * med2 + 2 * policy.target - 1) \div (2 * policy.target)
                        ELSE 0
    IN  Min2(Max2(raw, policy.min) + policy.warm, policy.max)

Init ==
    /\ policy \in Policies /\ size = windowSizeFor(policy)
    /\ samples = <<>> /\ upAge = UpHorizon /\ downAge = DownHorizon
    /\ n = 0 /\ demand \in Demands

\* Mutant: the loop over the missing replicas runs once too often.
ScaleUpOneMore(w, target, up) ==
    LET eager == n < policy.min + policy.warm
    IN  IF eager \/ (up >= policy.up /\ sampleMedian(w, policy.up) >= 4 * policy.target)
          THEN \E added \in 0 .. target - n + 1 :
                  /\ n' = n + added
                  /\ upAge' = IF added > 0 THEN 0 ELSE up
          ELSE n' = n /\ upAge' = up

\* scaleUp: the eager catch-up to Min + WarmPool, or a load-driven step that
\* waits for the cooldown and the window.  A failed spawn ends the loop.
ScaleUp(w, target, up) ==
    LET eager == n < policy.min + policy.warm
    IN  IF eager \/ (up >= policy.up /\ sampleMedian(w, policy.up) >= 4 * policy.target)
          THEN \E added \in 0 .. target - n :
                  /\ n' = n + added
                  /\ upAge' = IF added > 0 THEN 0 ELSE up
          ELSE n' = n /\ upAge' = up

\* scaleDown: at most one replica, never below the floor; a drain that does
\* not finish puts the replica back and leaves the cooldown as it was.
ScaleDown(w, reason, down) ==
    LET floor == IF policy.idle /\ reason = "idle" THEN 0 ELSE policy.min + policy.warm
    IN  IF /\ n > floor
           /\ down >= policy.down
           /\ reason = "load" => sampleMedian(w, policy.down) <= 2 * policy.target
          THEN \/ n' = n - 1 /\ downAge' = 0
               \/ n' = n /\ downAge' = down
          ELSE n' = n /\ downAge' = down

\* What a tick decides on the window w, which ends with its own sample.
Decide(w, target, up, down) ==
    LET idle == /\ policy.idle /\ policy.min = 0 /\ n > 0
                /\ w[1].age >= policy.down /\ allSamplesZeroSince(w, policy.down)
    IN  CASE idle -> ScaleDown(w, "idle", down) /\ upAge' = up
          [] ~idle /\ target > n -> ScaleUp(w, target, up) /\ downAge' = down
          [] ~idle /\ target < n -> ScaleDown(w, "load", down) /\ upAge' = up
          [] OTHER -> n' = n /\ upAge' = up /\ downAge' = down

\* Tick, gap after the previous one.
Tick(gap) ==
    /\ \E w \in {Add(gap, MedianInFlight)} :
          /\ samples' = w
          /\ Decide(w, computeTarget(MedianInFlight),
                    Older(upAge, gap, UpHorizon), Older(downAge, gap, DownHorizon))
    /\ UNCHANGED <<policy, size, demand>>

\* TriggerColdStart, for a call that finds the set empty.
ColdStart ==
    /\ n = 0 /\ demand > 0
    /\ n' = 1 /\ upAge' = 0
    /\ UNCHANGED <<policy, samples, size, downAge, demand>>

\* Calls come and go.
DemandChanges ==
    /\ \E d \in Demands \ {demand} : demand' = d
    /\ UNCHANGED <<policy, samples, size, upAge, downAge, n>>

\* UpdatePolicy swaps the policy and resizes the window, not the set.
UpdatePolicy ==
    /\ \E p \in Policies \ {policy} : policy' = p /\ size' = windowSizeFor(p)
    /\ UNCHANGED <<samples, upAge, downAge, n, demand>>

Ticks == \E gap \in 1 .. MaxGap : Tick(gap)

Next ==
    \/ Ticks
    \/ ColdStart
    \/ DemandChanges
    \/ UpdatePolicy

Spec == Init /\ [][Next]_vars

(***************************************************************************)
(* Fairness: the ticker keeps ticking, calls that find the set empty start *)
(* a replica, and neither every spawn nor every drain fails for ever.      *)
(***************************************************************************)
FairSpec ==
    /\ Spec
    /\ WF_vars(Ticks) /\ WF_vars(ColdStart)
    /\ SF_vars(Ticks /\ n' > n) /\ SF_vars(Ticks /\ n' < n)

-----------------------------------------------------------------------------
(* Properties                                                              *)

\* A policy with two floors, and calls on fewer than half of the replicas:
\* idle_to_zero lets scaleDown reap to zero where the median is zero, and the eager
\* branch of scaleUp refills the pool to WarmPool.
WarmToZero == policy.idle /\ policy.min = 0 /\ policy.warm > 0 /\ 2 * demand < policy.max


\* The same of every policy.  The code does not keep it: docs/scaling.md
\* recommends `min: 0` with `warm_pool: 1`, which is WarmToZero.
SettlesAlways ==
    <>[][UNCHANGED <<demand, policy>>]_vars => <>[][n' = n]_vars

\* The pool recovers to Min + WarmPool, also after a reload that raises it.
PoolRefills == n < policy.min + policy.warm ~> n >= policy.min + policy.warm

\* docs/scaling.md: min + warm_pool "is the floor the scaler refuses to cross
\* on scale-down".
WarmKept == [][Ticks /\ n' < n => n' >= policy.min + policy.warm]_vars

\* A scale-up spawns no more than the measured load, the warm pool and Max ask
\* for: with one replica less the load would exceed the target.
GrowsAsMeasured ==
    [][Ticks /\ n' > n =>
          /\ n' <= policy.max
          /\ \/ n' <= policy.min + policy.warm
             \/ 2 * policy.target * (n' - policy.warm - 1) < n * MedianInFlight]_vars

\* A scale-down takes one replica and leaves Min, and it leaves enough for the
\* load that the tick has measured, unless Max was lowered below that.
ShrinksAsMeasured ==
    [][Ticks /\ n' < n =>
          /\ n' = n - 1 /\ n' >= policy.min
          /\ \/ n * MedianInFlight <= 2 * policy.target * n'
             \/ n' >= policy.max]_vars
=============================================================================
