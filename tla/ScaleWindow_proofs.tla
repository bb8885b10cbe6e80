------------------------- MODULE ScaleWindow_proofs -------------------------
(***************************************************************************)
(* Theorems about ScaleWindow: what the sample window remembers, and how   *)
(* far a tick may move the pool.                                           *)
(***************************************************************************)
EXTENDS ScaleWindowHistory, SequenceTheorems, WellFoundedInduction, TLAPS

-----------------------------------------------------------------------------
(* Numbers                                                                 *)

\* Numbers have a least one.
LEMMA LeastNumber ==
  ASSUME NEW T \in SUBSET Nat, T # {}
  PROVE  \E m \in T : \A k \in T : m <= k
<1> DEFINE R == {s \in Nat \X Nat : s[1] < s[2]}
<1>1. IsWellFoundedOn(R, Nat)
  BY NatLessThanWellFounded DEF OpToRel
<1>2. \A x, y \in Nat : x < y => <<x, y>> \in R
  OBVIOUS
<1> HIDE DEF R
<1>3. PICK m \in T : \A k \in T : ~(<<k, m>> \in R)
  BY <1>1, WFMin
<1>4. \A k \in T : ~(k < m)
  BY <1>2, <1>3
<1> QED BY <1>4

\* What computeTarget rounds up.
LEMMA CeilDiv ==
  ASSUME NEW a \in Nat, NEW b \in Nat \ {0}
  PROVE  LET q == (a + b - 1) \div b IN q \in Nat /\ a <= b * q /\ b * (q - 1) < a
<1> DEFINE q == (a + b - 1) \div b
<1>1. q \in Nat /\ b * q <= a + b - 1 /\ a + b - 1 < b * q + b
  OBVIOUS
<1>2. b * (q - 1) = b * q - b
  BY <1>1
<1> QED BY <1>1, <1>2

LEMMA Grows ==
  ASSUME NEW b \in Nat, NEW x \in Int, NEW y \in Int, x <= y
  PROVE  b * x <= b * y
OBVIOUS

\* The longest cooldowns are at least any policy's.
LEMMA LongestCooldown ==
  /\ UpHorizon \in Nat /\ DownHorizon \in Nat
  /\ \A p \in Policies : p.up <= UpHorizon /\ p.down <= DownHorizon
<1>1. IsLongest(UpHorizon, UpCooldowns) /\ IsLongest(DownHorizon, DownCooldowns)
  BY WindowAssumption DEF UpHorizon, DownHorizon
<1>2. \A p \in Policies : p.up \in Nat /\ p.down \in Nat
  BY WindowAssumption DEF ValidPolicy
<1> QED BY <1>1, <1>2 DEF UpCooldowns, DownCooldowns, IsLongest

-----------------------------------------------------------------------------
(* The window                                                              *)

Sample == [age : Nat, med2 : Nat]

\* Samples come one after the other.
Ordered(w) == \A i, j \in 1 .. Len(w) : i < j => w[i].age > w[j].age

\* Window w holds the samples from the first on, aged by gap, and one more.
Carries(w, gap, first) ==
    /\ Len(w) = Len(samples) + 2 - first
    /\ \A i \in first .. Len(samples) :
          /\ w[i - first + 1].age = samples[i].age + gap
          /\ w[i - first + 1].med2 = samples[i].med2

WindowTypeOK ==
    /\ policy \in Policies /\ samples \in Seq(Sample) /\ size \in Nat
    /\ upAge \in Nat /\ downAge \in Nat /\ n \in Nat /\ demand \in Demands

\* What a sample is made of.
LEMMA SampleType == \A s \in Sample : s.age \in Nat /\ s.med2 \in Nat
BY DEF Sample

\* A sample ages, and its load stays.
LEMMA SampleAges ==
  ASSUME NEW s \in Sample, NEW gap \in Nat, NEW t, t = [s EXCEPT !.age = @ + gap]
  PROVE  t \in Sample /\ t.age = s.age + gap /\ t.med2 = s.med2
BY DEF Sample

\* Add keeps what is not too old, in order, and the new sample in any case.
LEMMA AddKeeps ==
  ASSUME samples \in Seq(Sample), Ordered(samples), size \in Nat,
         NEW gap \in Nat \ {0}, NEW m \in Nat
  PROVE  LET w == Add(gap, m)
         IN  /\ w \in Seq(Sample) /\ Len(w) \in Nat \ {0} /\ Ordered(w)
             /\ w[Len(w)] = [age |-> 0, med2 |-> m]
             /\ \E first \in 1 .. Len(samples) + 1 : Carries(w, gap, first)
<1> DEFINE L == Len(samples)
           new == [age |-> 0, med2 |-> m]
           aged == [i \in 1 .. L |-> [samples[i] EXCEPT !.age = @ + gap]]
           all == Append(aged, new)
           Kept(i) == /\ all[i].age <= size
                      /\ \A j \in 1 .. i - 1 : all[j].age > size
           first == CHOOSE i \in 1 .. Len(all) : Kept(i)
           w == SubSeq(all, first, Len(all))
<1>1. /\ L \in Nat /\ new \in Sample /\ new.age = 0
      /\ \A i \in 1 .. L : samples[i] \in Sample
  <2>1. L \in Nat /\ \A i \in 1 .. L : samples[i] \in Sample
    OBVIOUS
  <2>2. new \in Sample /\ new.age = 0
    BY DEF Sample
  <2> QED BY <2>1, <2>2
<1>2. ASSUME NEW i \in 1 .. L
      PROVE  /\ aged[i] \in Sample
             /\ aged[i].age = samples[i].age + gap /\ aged[i].med2 = samples[i].med2
  <2>1. PICK s \in Sample : s = samples[i]
    BY <1>1
  <2>2. aged[i] = [s EXCEPT !.age = @ + gap]
    BY <2>1
  <2> HIDE DEF aged
  <2> QED BY <2>1, <2>2, SampleAges
<1>3. aged \in Seq(Sample) /\ Len(aged) = L
  BY <1>1, <1>2
<1>4. /\ all \in Seq(Sample) /\ Len(all) = L + 1 /\ all[L + 1] = new
      /\ \A i \in 1 .. L : all[i] = aged[i]
  BY <1>1, <1>3
<1> HIDE DEF aged, new, all
<1>5. Ordered(all)
  <2> SUFFICES ASSUME NEW i \in 1 .. L + 1, NEW j \in 1 .. L + 1, i < j
               PROVE  all[i].age > all[j].age
    BY <1>4 DEF Ordered
  <2>0. \A k \in 1 .. L : all[k].age = samples[k].age + gap /\ samples[k].age \in Nat
    BY <1>1, <1>2, <1>4, SampleType
  <2>1. i \in 1 .. L
    BY <1>1
  <2>2. CASE j = L + 1
    <3>1. all[j].age = 0
      BY <2>2, <1>1, <1>4
    <3> QED BY <2>0, <2>1, <3>1
  <2>3. CASE j \in 1 .. L
    <3>1. samples[i].age > samples[j].age
      BY <2>1, <2>3 DEF Ordered
    <3> QED BY <2>0, <2>1, <2>3, <3>1
  <2> QED BY <2>2, <2>3, <1>1
<1>6. first \in 1 .. L + 1
  <2> DEFINE T == {i \in 1 .. L + 1 : all[i].age <= size}
  <2>1. L + 1 \in T /\ T \in SUBSET Nat
    BY <1>1, <1>4
  <2> HIDE DEF T
  <2>2. PICK i \in T : \A j \in T : i <= j
    BY <2>1, LeastNumber
  <2>3. i \in 1 .. L + 1 /\ all[i].age <= size
    BY <2>2 DEF T
  <2>4. ASSUME NEW j \in 1 .. i - 1 PROVE all[j].age > size
    <3>1. j \in 1 .. L + 1 /\ j \notin T
      BY <1>1, <2>1, <2>2, <2>3
    <3>2. all[j] \in Sample
      BY <1>4, <3>1
    <3>3. all[j].age \in Nat
      BY <3>2 DEF Sample
    <3> QED BY <3>1, <3>3 DEF T
  <2>5. \E k \in 1 .. Len(all) : Kept(k)
    BY <1>4, <2>3, <2>4
  <2> QED BY <1>4, <2>5
<1> HIDE DEF first
<1>7. /\ w \in Seq(Sample) /\ Len(w) = L + 2 - first
      /\ \A k \in 1 .. Len(w) : w[k] = all[first + k - 1]
  <2>1. \A i \in first .. L + 1 : all[i] \in Sample
    BY <1>1, <1>4, <1>6
  <2>2. first \in Int /\ L + 1 \in Int /\ first <= L + 1 /\ (L + 1) - first + 1 = L + 2 - first
    BY <1>1, <1>6
  <2>3. /\ SubSeq(all, first, L + 1) \in Seq(Sample)
        /\ Len(SubSeq(all, first, L + 1)) = L + 2 - first
        /\ \A k \in 1 .. (L + 1) - first + 1 : SubSeq(all, first, L + 1)[k] = all[first + k - 1]
    BY <2>1, <2>2, SubSeqProperties
  <2> QED BY <2>2, <2>3, <1>4
<1>8. Add(gap, m) = w
  BY DEF Add, aged, new, all, first
<1> HIDE DEF w
<1>9. Len(w) \in Nat \ {0} /\ w[Len(w)] = new
  <2> HIDE DEF L
  <2>1. Len(w) = L + 2 - first /\ L \in Nat /\ first \in 1 .. L + 1
    BY <1>1, <1>6, <1>7
  <2>2. Len(w) \in Nat \ {0} /\ Len(w) \in 1 .. Len(w) /\ first + Len(w) - 1 = L + 1
    BY <2>1
  <2>3. w[Len(w)] = all[first + Len(w) - 1]
    BY <2>2, <1>7
  <2> QED BY <2>2, <2>3, <1>4
<1>10. Ordered(w)
  <2> SUFFICES ASSUME NEW i \in 1 .. Len(w), NEW j \in 1 .. Len(w), i < j
               PROVE  w[i].age > w[j].age
    BY DEF Ordered
  <2> HIDE DEF L
  <2>1. /\ first + i - 1 \in 1 .. Len(all) /\ first + j - 1 \in 1 .. Len(all)
        /\ first + i - 1 < first + j - 1
    <3>1. L \in Nat /\ first \in Int /\ 1 <= first /\ first <= L + 1
      BY <1>1, <1>6
    <3>2. Len(w) = L + 2 - first /\ Len(all) = L + 1
      BY <1>4, <1>7
    <3>3. i \in Int /\ j \in Int /\ 1 <= i /\ i <= Len(w) /\ 1 <= j /\ j <= Len(w)
      BY <3>1, <3>2
    <3> QED BY <3>1, <3>2, <3>3
  <2>2. all[first + i - 1].age > all[first + j - 1].age
    BY <2>1, <1>5 DEF Ordered
  <2> QED BY <2>2, <1>7
<1>11. \A i \in first .. L : /\ w[i - first + 1].age = samples[i].age + gap
                             /\ w[i - first + 1].med2 = samples[i].med2
  <2> SUFFICES ASSUME NEW i \in first .. L
               PROVE  /\ w[i - first + 1].age = samples[i].age + gap
                      /\ w[i - first + 1].med2 = samples[i].med2
    OBVIOUS
  <2>1. i - first + 1 \in 1 .. Len(w) /\ first + (i - first + 1) - 1 = i /\ i \in 1 .. L
    BY <1>1, <1>6, <1>7
  <2>2. aged[i].age = samples[i].age + gap /\ aged[i].med2 = samples[i].med2
    BY <1>2, <2>1
  <2> QED BY <2>1, <2>2, <1>4, <1>7
<1>12. Carries(w, gap, first)
  BY <1>7, <1>11 DEF Carries
<1> QED BY <1>6, <1>7, <1>8, <1>9, <1>10, <1>12 DEF new

\* The median of the pool is a number, also of an empty pool.
LEMMA MedianType ==
  ASSUME n \in Nat, demand \in Nat
  PROVE  MedianInFlight \in Nat
<1>1. CASE n = 0
  BY <1>1 DEF MedianInFlight
<1>2. CASE n # 0
  <2>1. demand \div n \in Nat /\ demand % n \in Nat
    BY <1>2
  <2>2. \A k \in Nat : Share(k) \in Nat
    BY <2>1 DEF Share
  <2>3. (n + 1) \div 2 \in Nat /\ (n \div 2) + 1 \in Nat
    BY <1>2
  <2> QED BY <1>2, <2>2, <2>3 DEF MedianInFlight
<1> QED BY <1>1, <1>2

\* The target is at least Min and the warm pool, unless that is above Max, and
\* has room for the load but for what Max cuts off.
LEMMA TargetIs ==
  ASSUME policy \in Policies, n \in Nat, NEW m \in Nat
  PROVE  LET target == computeTarget(m)
         IN  /\ target \in Nat /\ target <= policy.max
             /\ n * m <= 2 * policy.target * target \/ target = policy.max
             /\ \/ target <= policy.min + policy.warm
                \/ 2 * policy.target * (target - policy.warm - 1) < n * m
<1> DEFINE b == 2 * policy.target
           raw == IF n > 0 THEN (n * m + b - 1) \div b ELSE 0
           target == computeTarget(m)
<1>1. /\ policy.min \in Nat /\ policy.max \in Nat /\ policy.warm \in Nat
      /\ b \in Nat \ {0} /\ n * m \in Nat
  BY WindowAssumption DEF ValidPolicy
<1>2. target = Min2(Max2(raw, policy.min) + policy.warm, policy.max)
  BY DEF computeTarget
<1>3. raw \in Nat /\ n * m <= b * raw /\ (raw = 0 \/ b * (raw - 1) < n * m)
  <2>1. CASE n = 0
    BY <1>1, <2>1
  <2>2. CASE n > 0
    BY <1>1, <2>2, CeilDiv
  <2> QED BY <2>1, <2>2
<1> HIDE DEF b, raw, target
<1>4. target \in Nat /\ target <= policy.max
  BY <1>1, <1>2, <1>3 DEF Min2, Max2
<1>5. n * m <= b * target \/ target = policy.max
  <2>1. raw <= target \/ target = policy.max
    BY <1>1, <1>2, <1>3 DEF Min2, Max2
  <2>2. raw <= target => b * raw <= b * target
    BY <1>1, <1>3, <1>4, Grows
  <2>3. b * raw \in Nat /\ b * target \in Nat
    BY <1>1, <1>3, <1>4
  <2> QED BY <1>1, <1>3, <2>1, <2>2, <2>3
<1>6. target <= policy.min + policy.warm \/ b * (target - policy.warm - 1) < n * m
  <2>1. \/ target <= policy.min + policy.warm
        \/ raw # 0 /\ target - policy.warm - 1 <= raw - 1
    BY <1>1, <1>2, <1>3 DEF Min2, Max2
  <2>2. target - policy.warm - 1 <= raw - 1 => b * (target - policy.warm - 1) <= b * (raw - 1)
    BY <1>1, <1>3, <1>4, Grows
  <2>3. b * (target - policy.warm - 1) \in Int /\ b * (raw - 1) \in Int
    BY <1>1, <1>3, <1>4
  <2> QED BY <1>1, <1>3, <2>1, <2>2, <2>3
<1> QED BY <1>4, <1>5, <1>6 DEF b, target

-----------------------------------------------------------------------------
(* What a tick does                                                        *)

LEMMA OlderType ==
  ASSUME NEW age \in Nat, NEW gap \in Nat, NEW horizon \in Nat
  PROVE  Older(age, gap, horizon) \in Nat
BY DEF Older, Min2

\* A scale-up adds at most what is missing to the target.
LEMMA ScaleUpMoves ==
  ASSUME n \in Nat, NEW w, NEW target \in Nat, target > n, NEW up \in Nat,
         ScaleUp(w, target, up)
  PROVE  n' \in Nat /\ upAge' \in Nat /\ n' >= n /\ n' <= target
<1>1. CASE n' = n /\ upAge' = up
  BY <1>1
<1>2. CASE \E added \in 0 .. target - n : n' = n + added /\ upAge' = IF added > 0 THEN 0 ELSE up
  BY <1>2
<1> QED BY <1>1, <1>2 DEF ScaleUp

\* A scale-down takes one replica at most, and none of the floor's.
LEMMA ScaleDownMoves ==
  ASSUME n \in Nat, policy \in Policies, NEW w, NEW reason, NEW down \in Nat,
         ScaleDown(w, reason, down)
  PROVE  /\ n' \in Nat /\ downAge' \in Nat
         /\ n' = n \/ n' = n - 1
         /\ n' < n => n' >= policy.min + policy.warm \/ (policy.idle /\ reason = "idle")
<1> DEFINE floor == IF policy.idle /\ reason = "idle" THEN 0 ELSE policy.min + policy.warm
<1>1. floor \in Nat /\ policy.min + policy.warm \in Nat
  BY WindowAssumption DEF ValidPolicy
<1>2. \/ n > floor /\ n' = n - 1 /\ downAge' = 0
      \/ n' = n /\ downAge' = down
  BY DEF ScaleDown
<1> QED BY <1>1, <1>2

\* How far one tick moves the pool, and on what grounds.
LEMMA TickMoves ==
  ASSUME WindowTypeOK, Ordered(samples), NEW gap \in 1 .. MaxGap, Tick(gap)
  PROVE  LET target == computeTarget(MedianInFlight)
         IN  /\ n' \in Nat /\ upAge' \in Nat /\ downAge' \in Nat
             /\ samples' = Add(gap, MedianInFlight)
             /\ n' > n => n' <= target
             /\ n' < n =>
                  /\ n' = n - 1
                  /\ \/ target < n /\ n' >= policy.min + policy.warm
                     \/ /\ policy.min = 0 /\ samples'[1].age >= policy.down
                        /\ allSamplesZeroSince(samples', policy.down)
<1> DEFINE target == computeTarget(MedianInFlight)
           up == Older(upAge, gap, UpHorizon)
           down == Older(downAge, gap, DownHorizon)
           w == samples'
           idle == /\ policy.idle /\ policy.min = 0 /\ n > 0
                   /\ w[1].age >= policy.down /\ allSamplesZeroSince(w, policy.down)
<1>1. /\ n \in Nat /\ policy \in Policies /\ demand \in Nat /\ gap \in Nat
      /\ upAge \in Nat /\ downAge \in Nat
  BY WindowAssumption DEF WindowTypeOK
<1>2. up \in Nat /\ down \in Nat
  BY <1>1, OlderType, LongestCooldown
<1>3. MedianInFlight \in Nat
  BY <1>1, MedianType
<1>4. target \in Nat
  BY <1>1, <1>3, TargetIs
<1>5. w = Add(gap, MedianInFlight) /\ Decide(w, target, up, down)
  BY DEF Tick
<1> HIDE DEF target, up, down, w
<1>6. CASE idle
  <2>1. ScaleDown(w, "idle", down) /\ upAge' = up
    BY <1>5, <1>6 DEF Decide
  <2> QED BY <1>1, <1>2, <1>5, <1>6, <2>1, ScaleDownMoves DEF w, target
<1>7. CASE ~idle /\ target > n
  <2>1. ScaleUp(w, target, up) /\ downAge' = down
    BY <1>1, <1>4, <1>5, <1>7 DEF Decide
  <2>2. n' \in Nat /\ upAge' \in Nat /\ n' >= n /\ n' <= target
    BY <1>1, <1>2, <1>4, <1>7, <2>1, ScaleUpMoves
  <2> QED BY <1>1, <1>2, <1>5, <2>1, <2>2 DEF w, target
<1>8. CASE ~idle /\ target < n
  <2>1. ScaleDown(w, "load", down) /\ upAge' = up
    BY <1>1, <1>4, <1>5, <1>8 DEF Decide
  <2>2. /\ n' \in Nat /\ downAge' \in Nat /\ (n' = n \/ n' = n - 1)
        /\ n' < n => n' >= policy.min + policy.warm
    BY <1>1, <1>2, <2>1, ScaleDownMoves
  <2> QED BY <1>1, <1>2, <1>5, <1>8, <2>1, <2>2 DEF w, target
<1>9. CASE ~idle /\ target = n
  <2>1. n' = n /\ upAge' = up /\ downAge' = down
    BY <1>5, <1>9, <1>1 DEF Decide
  <2> QED BY <1>1, <1>2, <1>5, <2>1 DEF w, target
<1> QED BY <1>1, <1>4, <1>6, <1>7, <1>8, <1>9

-----------------------------------------------------------------------------
(* The invariant and the theorems                                          *)

\* The window's samples are in order, and some policy has room for all replicas.
WindowInv ==
    /\ WindowTypeOK
    /\ Ordered(samples)
    /\ \E p \in Policies : n <= p.max

LEMMA WindowSize == \A p \in Policies : windowSizeFor(p) \in Nat
<1> SUFFICES ASSUME NEW p \in Policies PROVE windowSizeFor(p) \in Nat
  OBVIOUS
<1>1. p.up \in Nat /\ MinRetention \in Nat
  BY WindowAssumption DEF ValidPolicy
<1> QED BY <1>1 DEF windowSizeFor, Max2

LEMMA InitWindow == Init => WindowInv
<1> SUFFICES ASSUME Init PROVE WindowInv
  OBVIOUS
<1>1. policy \in Policies /\ size \in Nat
  BY WindowSize DEF Init
<1>2. samples \in Seq(Sample) /\ Ordered(samples)
  BY DEF Init, Ordered
<1>3. upAge \in Nat /\ downAge \in Nat /\ n \in Nat /\ demand \in Demands
  BY LongestCooldown DEF Init
<1>4. n <= policy.max
  BY <1>1, WindowAssumption DEF Init, ValidPolicy
<1> QED BY <1>1, <1>2, <1>3, <1>4 DEF WindowInv, WindowTypeOK

LEMMA TickWindow ==
  ASSUME WindowInv, NEW gap \in 1 .. MaxGap, Tick(gap)
  PROVE  WindowInv'
<1>1. /\ WindowTypeOK /\ Ordered(samples) /\ n \in Nat /\ policy \in Policies
      /\ demand \in Nat /\ gap \in Nat \ {0} /\ size \in Nat /\ samples \in Seq(Sample)
  BY WindowAssumption DEF WindowInv, WindowTypeOK
<1>2. MedianInFlight \in Nat
  BY <1>1, MedianType
<1>3. samples' \in Seq(Sample) /\ Ordered(samples')
  <2>1. samples' = Add(gap, MedianInFlight)
    BY <1>1, TickMoves
  <2>2. PICK m \in Nat : m = MedianInFlight
    BY <1>2
  <2>3. Add(gap, m) \in Seq(Sample) /\ Ordered(Add(gap, m))
    BY <1>1, AddKeeps
  <2> QED BY <2>1, <2>2, <2>3
<1>4. n' \in Nat /\ upAge' \in Nat /\ downAge' \in Nat
  BY <1>1, TickMoves
<1>5. UNCHANGED <<policy, size, demand>>
  BY DEF Tick
<1>6. \E p \in Policies : n' <= p.max
  <2>1. PICK p \in Policies : n <= p.max
    BY DEF WindowInv
  <2>2. p.max \in Nat /\ policy.max \in Nat
    BY <1>1, WindowAssumption DEF ValidPolicy
  <2>3. computeTarget(MedianInFlight) \in Nat /\ computeTarget(MedianInFlight) <= policy.max
    BY <1>1, <1>2, TargetIs
  <2>4. n' > n => n' <= policy.max
    BY <1>1, <1>4, <2>2, <2>3, TickMoves
  <2> QED BY <1>1, <1>4, <2>1, <2>2, <2>4
<1>7. WindowTypeOK'
  BY <1>1, <1>3, <1>4, <1>5 DEF WindowTypeOK
<1> QED BY <1>3, <1>6, <1>7 DEF WindowInv

LEMMA NextWindow == WindowInv /\ [Next]_vars => WindowInv'
<1> SUFFICES ASSUME WindowInv, [Next]_vars PROVE WindowInv'
  OBVIOUS
<1>1. CASE Ticks
  BY <1>1, TickWindow DEF Ticks
<1>2. CASE ColdStart
  <2>1. policy.max \in Nat \ {0} /\ policy \in Policies
    BY WindowAssumption DEF WindowInv, WindowTypeOK, ValidPolicy
  <2>2. n' <= policy.max
    BY <1>2, <2>1 DEF ColdStart
  <2> QED BY <1>2, <2>1, <2>2 DEF ColdStart, WindowInv, WindowTypeOK, Ordered
<1>3. CASE DemandChanges
  BY <1>3 DEF DemandChanges, WindowInv, WindowTypeOK, Ordered
<1>4. CASE UpdatePolicy
  <2>1. policy' \in Policies /\ size' \in Nat
    BY <1>4, WindowSize DEF UpdatePolicy
  <2> QED BY <1>4, <2>1 DEF UpdatePolicy, WindowInv, WindowTypeOK, Ordered
<1>5. CASE UNCHANGED vars
  BY <1>5 DEF vars, WindowInv, WindowTypeOK, Ordered
<1> QED BY <1>1, <1>2, <1>3, <1>4, <1>5 DEF Next

\* The samples are in order of age, so that what Add drops is older than what it
\* keeps, and the pool is never larger than the largest Max of the policies that
\* the stack has had.
THEOREM WindowIsSound == Spec => []WindowInv
BY InitWindow, NextWindow, PTL DEF Spec

\* scaleUp: a tick never spawns more than the measured load, the warm pool and
\* Max ask for, through cold starts and reloads between the samples.
THEOREM GrowthIsMeasured == Spec => GrowsAsMeasured
<1> DEFINE Measured == Ticks /\ n' > n =>
               /\ n' <= policy.max
               /\ \/ n' <= policy.min + policy.warm
                  \/ 2 * policy.target * (n' - policy.warm - 1) < n * MedianInFlight
<1>1. WindowInv => Measured
  <2> SUFFICES ASSUME WindowInv, NEW gap \in 1 .. MaxGap, Tick(gap), n' > n
               PROVE  /\ n' <= policy.max
                      /\ \/ n' <= policy.min + policy.warm
                         \/ 2 * policy.target * (n' - policy.warm - 1) < n * MedianInFlight
    BY DEF Ticks
  <2> DEFINE target == computeTarget(MedianInFlight)
             b == 2 * policy.target
  <2>1. /\ WindowTypeOK /\ Ordered(samples) /\ n \in Nat /\ policy \in Policies
        /\ demand \in Nat
    BY WindowAssumption DEF WindowInv, WindowTypeOK
  <2>2. /\ policy.min \in Nat /\ policy.max \in Nat /\ policy.warm \in Nat /\ b \in Nat
    BY <2>1, WindowAssumption DEF ValidPolicy
  <2>3. MedianInFlight \in Nat
    BY <2>1, MedianType
  <2>4. /\ target \in Nat /\ target <= policy.max
        /\ \/ target <= policy.min + policy.warm
           \/ b * (target - policy.warm - 1) < n * MedianInFlight
    BY <2>1, <2>3, TargetIs
  <2>5. n' \in Nat /\ n' <= target
    BY <2>1, TickMoves
  <2> HIDE DEF target, b
  <2>6. b * (n' - policy.warm - 1) <= b * (target - policy.warm - 1)
    BY <2>2, <2>4, <2>5, Grows
  <2>7. /\ b * (n' - policy.warm - 1) \in Int /\ b * (target - policy.warm - 1) \in Int
        /\ n * MedianInFlight \in Int
    BY <2>1, <2>2, <2>3, <2>4, <2>5
  <2>8. n' <= policy.min + policy.warm \/ b * (n' - policy.warm - 1) < n * MedianInFlight
    BY <2>2, <2>4, <2>5, <2>6, <2>7
  <2> QED BY <2>2, <2>4, <2>5, <2>8 DEF b
<1>2. Spec => []WindowInv
  BY WindowIsSound
<1> QED BY <1>1, <1>2, PTL DEF GrowsAsMeasured

\* The idle branch saw only samples without load, its own among them.
LEMMA IdleIsZero ==
  ASSUME samples \in Seq(Sample), Ordered(samples), size \in Nat,
         NEW gap \in Nat \ {0}, NEW m \in Nat, NEW d \in Nat,
         allSamplesZeroSince(Add(gap, m), d)
  PROVE  m = 0
<1> DEFINE w == Add(gap, m)
<1>1. Len(w) \in Nat \ {0} /\ w[Len(w)] = [age |-> 0, med2 |-> m]
  BY AddKeeps
<1>2. \A i \in Since(w, d) : w[i].med2 = 0
  BY DEF allSamplesZeroSince
<1> HIDE DEF w
<1>3. Len(w) \in Since(w, d)
  BY <1>1 DEF Since
<1> QED BY <1>1, <1>2, <1>3

\* scaleDown: a tick takes one replica at most, leaves Min, and leaves enough
\* for the load that it has measured, unless a reload lowered Max below that.
THEOREM ShrinkIsMeasured == Spec => ShrinksAsMeasured
<1> DEFINE Enough == /\ n' = n - 1 /\ n' >= policy.min
                     /\ \/ n * MedianInFlight <= 2 * policy.target * n'
                        \/ n' >= policy.max
           Measured == Ticks /\ n' < n => Enough
<1>1. WindowInv => Measured
  <2> SUFFICES ASSUME WindowInv, NEW gap \in 1 .. MaxGap, Tick(gap), n' < n
               PROVE  Enough
    BY DEF Ticks
  <2> DEFINE target == computeTarget(MedianInFlight)
             b == 2 * policy.target
  <2>1. /\ WindowTypeOK /\ Ordered(samples) /\ n \in Nat /\ policy \in Policies
        /\ demand \in Nat /\ gap \in Nat \ {0} /\ size \in Nat /\ samples \in Seq(Sample)
    BY WindowAssumption DEF WindowInv, WindowTypeOK
  <2>2. /\ policy.min \in Nat /\ policy.max \in Nat /\ policy.warm \in Nat
        /\ policy.down \in Nat /\ b \in Nat
    BY <2>1, WindowAssumption DEF ValidPolicy
  <2>3. MedianInFlight \in Nat
    BY <2>1, MedianType
  <2>4. /\ target \in Nat
        /\ n * MedianInFlight <= b * target \/ target = policy.max
    BY <2>1, <2>3, TargetIs
  <2>5. /\ n' \in Nat /\ n' = n - 1 /\ samples' = Add(gap, MedianInFlight)
        /\ \/ target < n /\ n' >= policy.min + policy.warm
           \/ policy.min = 0 /\ allSamplesZeroSince(samples', policy.down)
    BY <2>1, TickMoves
  <2> HIDE DEF target, b
  <2>6. CASE target < n /\ n' >= policy.min + policy.warm
    <3>1. b * target <= b * n'
      BY <2>1, <2>2, <2>4, <2>5, <2>6, Grows
    <3>2. b * target \in Int /\ b * n' \in Int /\ n * MedianInFlight \in Int
      BY <2>1, <2>2, <2>3, <2>4, <2>5
    <3>3. n * MedianInFlight <= b * n' \/ n' >= policy.max
      <4>1. CASE n * MedianInFlight <= b * target
        BY <3>1, <3>2, <4>1
      <4>2. CASE target = policy.max
        BY <2>1, <2>2, <2>4, <2>5, <2>6, <4>2
      <4> QED BY <2>4, <4>1, <4>2
    <3> QED BY <2>2, <2>5, <2>6, <3>3 DEF b
  <2>7. CASE policy.min = 0 /\ allSamplesZeroSince(samples', policy.down)
    <3>1. PICK m \in Nat : m = MedianInFlight
      BY <2>3
    <3>2. allSamplesZeroSince(Add(gap, m), policy.down)
      BY <2>5, <2>7, <3>1
    <3>3. m = 0
      BY <2>1, <2>2, <3>2, IdleIsZero
    <3>4. n * MedianInFlight = 0 /\ b * n' \in Nat
      BY <2>1, <2>2, <2>5, <3>1, <3>3
    <3> QED BY <2>5, <2>7, <3>4 DEF b
  <2> QED BY <2>5, <2>6, <2>7
<1>2. Spec => []WindowInv
  BY WindowIsSound
<1> QED BY <1>1, <1>2, PTL DEF ShrinksAsMeasured

-----------------------------------------------------------------------------
(* Warm replicas are reaped when it is quiet                               *)

\* quietFor is the age of a sample of the window that was busy, or no sample is
\* that old; above DownHorizon, it has reached no policy's cooldown.
Remembered ==
    quietFor <= DownHorizon =>
        \/ \E i \in 1 .. Len(samples) : samples[i].age = quietFor /\ samples[i].med2 > 0
        \/ \A i \in 1 .. Len(samples) : samples[i].age < quietFor

QuietInv == WindowInv /\ quietFor \in Nat /\ Remembered

\* A step with history is one without.
LEMMA HNextIsNext == [HNext]_hvars => [Next]_vars
BY DEF HNext, hvars, Next, Ticks

LEMMA TickRemembers ==
  ASSUME QuietInv, NEW gap \in 1 .. MaxGap, Tick(gap),
         quietFor' = IF MedianInFlight > 0 THEN 0 ELSE Min2(quietFor + gap, DownHorizon + 1)
  PROVE  quietFor' \in Nat /\ Remembered'
<1>1. /\ WindowTypeOK /\ Ordered(samples) /\ n \in Nat /\ demand \in Nat
      /\ gap \in Nat \ {0} /\ size \in Nat /\ samples \in Seq(Sample)
      /\ quietFor \in Nat /\ DownHorizon \in Nat
  BY WindowAssumption, LongestCooldown DEF QuietInv, WindowInv, WindowTypeOK
<1>2. PICK m \in Nat : m = MedianInFlight
  BY <1>1, MedianType
<1>3. PICK w : w = Add(gap, m)
  OBVIOUS
<1>4. samples' = w
  BY <1>1, <1>2, <1>3, TickMoves
<1>5. quietFor' \in Nat /\ (m > 0 => quietFor' = 0)
      /\ (m = 0 /\ quietFor' <= DownHorizon => quietFor' = quietFor + gap /\ quietFor <= DownHorizon)
  BY <1>1, <1>2 DEF Min2
<1>6. /\ Len(w) \in Nat \ {0} /\ Ordered(w) /\ w \in Seq(Sample)
      /\ w[Len(w)] = [age |-> 0, med2 |-> m]
  BY <1>1, <1>3, AddKeeps
<1>7. PICK first \in 1 .. Len(samples) + 1 : Carries(w, gap, first)
  BY <1>1, <1>3, AddKeeps
<1>8. ASSUME quietFor' <= DownHorizon
      PROVE  \/ \E i \in 1 .. Len(w) : w[i].age = quietFor' /\ w[i].med2 > 0
             \/ \A i \in 1 .. Len(w) : w[i].age < quietFor'
  <2>1. CASE m > 0
    BY <2>1, <1>5, <1>6
  <2>2. CASE m = 0
    <3>1. quietFor' = quietFor + gap /\ quietFor <= DownHorizon
      BY <2>2, <1>5, <1>8
    <3>2. ASSUME NEW k \in 1 .. Len(samples), first <= k
          PROVE  /\ k - first + 1 \in 1 .. Len(w)
                 /\ w[k - first + 1].age = samples[k].age + gap
                 /\ w[k - first + 1].med2 = samples[k].med2
      <4>1. k \in first .. Len(samples) /\ k - first + 1 \in 1 .. Len(w)
        BY <1>1, <1>7, <3>2 DEF Carries
      <4> QED BY <1>7, <4>1 DEF Carries
    <3>3. CASE \E i \in 1 .. Len(samples) : /\ samples[i].age = quietFor /\ samples[i].med2 > 0
                                            /\ first <= i
      BY <3>1, <3>2, <3>3
    <3>4. CASE \A k \in 1 .. Len(samples) : first <= k => samples[k].age < quietFor
      <4> SUFFICES ASSUME NEW j \in 1 .. Len(w) PROVE w[j].age < quietFor'
        OBVIOUS
      <4>1. CASE j = Len(w)
        BY <1>1, <1>6, <3>1, <4>1
      <4>2. CASE j # Len(w)
        <5>1. PICK k \in 1 .. Len(samples) : first <= k /\ k - first + 1 = j
          <6> DEFINE k == j + first - 1
          <6>1. Len(samples) \in Nat /\ Len(w) \in Nat /\ j < Len(w)
            BY <1>1, <1>6, <4>2
          <6>2. k \in 1 .. Len(samples) /\ first <= k /\ k - first + 1 = j
            BY <1>7, <6>1 DEF Carries
          <6> QED BY <6>2
        <5>2. w[j].age = samples[k].age + gap /\ samples[k].age < quietFor
          BY <5>1, <3>2, <3>4
        <5>3. samples[k].age \in Nat
          <6>1. samples[k] \in Sample
            BY <1>1, <5>1
          <6> QED BY <6>1 DEF Sample
        <5> QED BY <1>1, <3>1, <5>2, <5>3
      <4> QED BY <4>1, <4>2
    <3>5. CASE \A i \in 1 .. Len(samples) : samples[i].age < quietFor
      BY <3>4, <3>5
    <3>6. CASE \E i \in 1 .. Len(samples) : /\ samples[i].age = quietFor /\ samples[i].med2 > 0
                                            /\ i < first
      <4>1. PICK i \in 1 .. Len(samples) : samples[i].age = quietFor /\ i < first
        BY <3>6
      <4>2. \A k \in 1 .. Len(samples) : first <= k => samples[i].age > samples[k].age
        BY <1>1, <1>7, <4>1 DEF Ordered
      <4>3. \A k \in 1 .. Len(samples) : samples[k].age \in Nat
        <5>1. \A k \in 1 .. Len(samples) : samples[k] \in Sample
          BY <1>1
        <5> QED BY <5>1 DEF Sample
      <4> QED BY <1>1, <4>1, <4>2, <4>3, <3>4
    <3> QED BY <1>1, <3>1, <3>3, <3>5, <3>6 DEF QuietInv, Remembered
  <2> QED BY <1>2, <2>1, <2>2
<1> QED BY <1>4, <1>5, <1>8 DEF Remembered

LEMMA NextQuiet == QuietInv /\ [HNext]_hvars => QuietInv'
<1> SUFFICES ASSUME QuietInv, [HNext]_hvars PROVE QuietInv'
  OBVIOUS
<1>1. WindowInv'
  BY HNextIsNext, NextWindow DEF QuietInv
<1>2. CASE UNCHANGED <<samples, quietFor>>
  BY <1>1, <1>2 DEF QuietInv, Remembered
<1>3. CASE \E gap \in 1 .. MaxGap :
             /\ Tick(gap)
             /\ quietFor' = IF MedianInFlight > 0 THEN 0 ELSE Min2(quietFor + gap, DownHorizon + 1)
  BY <1>1, <1>3, TickRemembers DEF QuietInv
<1> QED BY <1>2, <1>3 DEF HNext, ColdStart, DemandChanges, UpdatePolicy, hvars, vars

\* The idle reap drops below Min and the warm pool only after a whole cooldown
\* without load, also when the window has forgotten samples of that time.
THEOREM WarmIsReapedIdle == HSpec => WarmUntilIdle
<1>1. HInit => QuietInv
  BY InitWindow DEF HInit, QuietInv, Remembered, Init
<1>2. QuietInv /\ [HNext]_hvars => QuietInv'
  BY NextQuiet
<1>3. ASSUME QuietInv, QuietInv', Ticks, n' < n, n' < policy.min + policy.warm
      PROVE  quietFor' > policy.down
  <2>1. PICK gap \in 1 .. MaxGap : Tick(gap)
    BY <1>3 DEF Ticks
  <2>2. WindowTypeOK /\ Ordered(samples) /\ policy \in Policies
    BY <1>3 DEF QuietInv, WindowInv, WindowTypeOK
  <2>3. policy.min \in Nat /\ policy.warm \in Nat /\ policy.down \in Nat /\ policy.down <= DownHorizon
    BY <2>2, WindowAssumption, LongestCooldown DEF ValidPolicy
  <2>4. n' \in Nat /\ samples'[1].age >= policy.down /\ allSamplesZeroSince(samples', policy.down)
    BY <1>3, <2>1, <2>2, <2>3, TickMoves
  <2>5. quietFor' \in Nat /\ Remembered' /\ samples' \in Seq(Sample)
    BY <1>3 DEF QuietInv, WindowInv, WindowTypeOK
  <2>6. SUFFICES ASSUME quietFor' <= policy.down PROVE FALSE
    BY <2>3, <2>5
  <2>7. CASE \E i \in 1 .. Len(samples') : samples'[i].age = quietFor' /\ samples'[i].med2 > 0
    <3>1. PICK i \in 1 .. Len(samples') : samples'[i].age = quietFor' /\ samples'[i].med2 > 0
      BY <2>7
    <3>2. i \in Since(samples', policy.down)
      BY <3>1, <2>6 DEF Since
    <3> QED BY <3>1, <3>2, <2>4 DEF allSamplesZeroSince
  <2>8. CASE \A i \in 1 .. Len(samples') : samples'[i].age < quietFor'
    <3>1. 1 \in 1 .. Len(samples')
      BY <2>4, <2>5 DEF allSamplesZeroSince, Since
    <3>2. samples'[1] \in Sample
      BY <2>5, <3>1
    <3>3. samples'[1].age \in Nat
      BY <3>2 DEF Sample
    <3> QED BY <2>3, <2>4, <2>5, <2>6, <2>8, <3>1, <3>3
  <2> QED BY <2>3, <2>5, <2>6, <2>7, <2>8, LongestCooldown DEF Remembered
<1> QED BY <1>1, <1>2, <1>3, PTL DEF HSpec, WarmUntilIdle
=============================================================================
