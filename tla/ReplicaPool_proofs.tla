-------------------------- MODULE ReplicaPool_proofs --------------------------
(***************************************************************************)
(* Theorems about ReplicaPool, for every set of calls, every set of valid  *)
(* policies and every bound on the ids.                                    *)
(***************************************************************************)
EXTENDS ReplicaPool, FiniteSetTheorems, TLAPS

-----------------------------------------------------------------------------
(* Helpers                                                                 *)

\* Removing a replica from a sequence of ids leaves a sequence of ids.
LEMMA WithoutType ==
  ASSUME NEW S, NEW s \in Seq(S), NEW r
  PROVE  Without(s, r) \in Seq(S)
<1>1. CASE \E i \in 1 .. Len(s) : s[i] = r
  <2> DEFINE at == CHOOSE i \in 1 .. Len(s) : s[i] = r
             w == [i \in 1 .. Len(s) - 1 |-> IF i < at THEN s[i] ELSE s[i + 1]]
  <2>1. Len(s) - 1 \in Nat
    BY <1>1
  <2>2. \A i \in 1 .. Len(s) - 1 : w[i] \in S
    OBVIOUS
  <2>3. w \in [1 .. Len(s) - 1 -> S]
    BY <2>2
  <2>4. w \in Seq(S)
    BY <2>1, <2>3
  <2> QED BY <1>1, <2>4 DEF Without
<1>2. CASE ~\E i \in 1 .. Len(s) : s[i] = r
  BY <1>2 DEF Without
<1> QED BY <1>1, <1>2

\* A replica that is not listed joins the slice once.
LEMMA AppendElems ==
  ASSUME NEW S, NEW s \in Seq(S), NEW r \in S, IsInjective(s), r \notin ToSet(s)
  PROVE  ToSet(Append(s, r)) = ToSet(s) \cup {r} /\ IsInjective(Append(s, r))
<1> DEFINE a == Append(s, r)
<1>1. Len(a) = Len(s) + 1 /\ a[Len(s) + 1] = r /\ \A i \in 1 .. Len(s) : a[i] = s[i]
  OBVIOUS
<1>2. Len(s) \in Nat OBVIOUS
<1> HIDE DEF a
<1>3. ToSet(a) = ToSet(s) \cup {r}
  BY <1>1, <1>2 DEF ToSet
<1>4. IsInjective(a)
  BY <1>1, <1>2 DEF IsInjective, ToSet
<1> QED BY <1>3, <1>4 DEF a

\* Removing a listed replica takes out that one and nothing else.
LEMMA WithoutElems ==
  ASSUME NEW S, NEW s \in Seq(S), NEW r, IsInjective(s), r \in ToSet(s)
  PROVE  /\ ToSet(Without(s, r)) = ToSet(s) \ {r} /\ IsInjective(Without(s, r))
         /\ Len(Without(s, r)) = Len(s) - 1
<1> DEFINE at == CHOOSE i \in 1 .. Len(s) : s[i] = r
           w == [i \in 1 .. Len(s) - 1 |-> IF i < at THEN s[i] ELSE s[i + 1]]
<1>1. at \in 1 .. Len(s) /\ s[at] = r
  BY DEF ToSet
<1>2. Without(s, r) = w
  BY DEF Without, ToSet
<1>3. Len(s) - 1 \in Nat /\ Len(s) \in Nat
  BY <1>1
<1>4. Len(w) = Len(s) - 1 /\ DOMAIN w = 1 .. Len(s) - 1 /\ DOMAIN s = 1 .. Len(s)
  BY <1>3
<1>5. \A i \in 1 .. Len(s) - 1 : w[i] = IF i < at THEN s[i] ELSE s[i + 1]
  OBVIOUS
<1> HIDE DEF w, at
<1>6. ToSet(w) \subseteq ToSet(s) \ {r}
  <2> SUFFICES ASSUME NEW i \in 1 .. Len(s) - 1 PROVE w[i] \in ToSet(s) \ {r}
    BY <1>4 DEF ToSet
  <2>1. CASE i < at
    <3>1. i \in 1 .. Len(s) /\ i # at /\ w[i] = s[i]
      BY <2>1, <1>1, <1>3, <1>5
    <3> QED BY <3>1, <1>1, <1>4 DEF ToSet, IsInjective
  <2>2. CASE ~(i < at)
    <3>1. i + 1 \in 1 .. Len(s) /\ i + 1 # at /\ w[i] = s[i + 1]
      BY <2>2, <1>1, <1>3, <1>5
    <3> QED BY <3>1, <1>1, <1>4 DEF ToSet, IsInjective
  <2> QED BY <2>1, <2>2
<1>7. ToSet(s) \ {r} \subseteq ToSet(w)
  <2> SUFFICES ASSUME NEW i \in 1 .. Len(s), s[i] # r PROVE s[i] \in ToSet(w)
    BY DEF ToSet
  <2>1. CASE i < at
    <3>1. i \in 1 .. Len(s) - 1 /\ w[i] = s[i]
      BY <2>1, <1>1, <1>3, <1>5
    <3> QED BY <3>1, <1>4 DEF ToSet
  <2>2. CASE i > at
    <3>1. i - 1 \in 1 .. Len(s) - 1 /\ ~(i - 1 < at)
      BY <2>2, <1>1, <1>3
    <3>2. w[i - 1] = s[i]
      BY <3>1, <1>5, <1>3
    <3> QED BY <3>1, <3>2, <1>4 DEF ToSet
  <2> QED BY <2>1, <2>2, <1>1
<1>8. IsInjective(w)
  <2> SUFFICES ASSUME NEW i \in 1 .. Len(s) - 1, NEW j \in 1 .. Len(s) - 1,
                      w[i] = w[j]
               PROVE  i = j
    BY <1>4 DEF IsInjective
  <2> DEFINE up(k) == IF k < at THEN k ELSE k + 1
  <2>1. /\ up(i) \in 1 .. Len(s) /\ w[i] = s[up(i)]
        /\ up(j) \in 1 .. Len(s) /\ w[j] = s[up(j)]
    BY <1>1, <1>3, <1>5
  <2>2. up(i) = up(j)
    BY <2>1, <1>4 DEF IsInjective
  <2> QED BY <2>2, <1>1, <1>3
<1> QED BY <1>2, <1>4, <1>6, <1>7, <1>8

\* The target is a natural number, at most Max.
LEMMA TargetType ==
  ASSUME NEW p \in Policies, NEW cur \in Nat, NEW med2 \in Nat
  PROVE  /\ computeTarget(cur, med2, p) \in Nat
         /\ computeTarget(cur, med2, p) <= p.max
<1>1. ValidPolicy(p)
  BY PoolAssumption
<1>2. cur * med2 \in Nat /\ 2 * p.target \in Nat \ {0}
  BY <1>1 DEF ValidPolicy
<1>3. \A a \in Nat, b \in Nat \ {0} : CeilDiv(a, b) \in Nat
  BY DEF CeilDiv
<1>4. CeilDiv(cur * med2, 2 * p.target) \in Nat
  BY <1>2, <1>3
<1> QED BY <1>1, <1>4 DEF computeTarget, ValidPolicy

\* The members are ids, and the healthy ones can be counted.
LEMMA MembersType ==
  ASSUME SetTypes
  PROVE  /\ Members \subseteq ReplicaID
         /\ IsFiniteSet(Members)
         /\ IsFiniteSet(HealthyMembers)
         /\ HealthyCount \in Nat
<1>1. Members \subseteq ReplicaID
  BY DEF SetTypes, Members, ToSet
<1>2. IsFiniteSet(ReplicaID)
  BY PoolAssumption, FS_Interval DEF ReplicaID
<1>3. HealthyMembers \subseteq Members
  BY DEF HealthyMembers
<1>4. IsFiniteSet(Members) /\ IsFiniteSet(HealthyMembers)
  BY <1>1, <1>2, <1>3, FS_Subset
<1> QED BY <1>1, <1>4, FS_CardinalityType DEF HealthyCount

\* A tick starts, and ends, in a well-typed local state.
LEMMA FreshTickType ==
  ASSUME ScalerTypes, NEW pc \in TickPC
  PROVE  FreshTick(pc) \in TickRec
BY DEF FreshTick, TickRec, ScalerTypes

\* A ticker that moves to a well-typed local state keeps TickTypes.
LEMMA TickMoves ==
  ASSUME TickTypes, NEW t \in Tickers, NEW rec \in TickRec,
         rec.pc \in {"remove", "drain", "reap"} => rec.victim \in ReplicaID,
         tick' = [tick EXCEPT ![t] = rec]
  PROVE  TickTypes'
<1>1. tick' \in [Tickers -> TickRec]
  BY DEF TickTypes
<1>2. ASSUME NEW u \in Tickers, tick'[u].pc \in {"remove", "drain", "reap"}
      PROVE  tick'[u].victim \in ReplicaID
  BY <1>2 DEF TickTypes
<1> QED BY <1>1, <1>2 DEF TickTypes

\* Ending a tick keeps TickTypes.
LEMMA EndTickType ==
  ASSUME ScalerTypes, TickTypes, NEW t \in Tickers, EndTick(t)
  PROVE  TickTypes'
<1> DEFINE pc == IF t = "init" THEN "done" ELSE "idle"
<1>1. pc \in TickPC /\ FreshTick(pc).pc \notin {"remove", "drain", "reap"}
  BY DEF TickPC, FreshTick
<1>2. FreshTick(pc) \in TickRec
  BY <1>1, FreshTickType
<1>3. tick' = [tick EXCEPT ![t] = FreshTick(pc)]
  BY DEF EndTick
<1> QED BY <1>1, <1>2, <1>3, TickMoves

\* AddReplica keeps the types of the set and of the clients.
LEMMA AddReplicaType ==
  ASSUME SetTypes, ClientTypes, AddReplica
  PROVE  /\ replicas' \in Seq(ReplicaID) /\ started' \in Seq(ReplicaID)
         /\ nextID' \in 0 .. MaxID
         /\ healthy' \in [ReplicaID -> BOOLEAN]
         /\ proc' \in [ReplicaID -> ProcState]
<1> nextID \in ReplicaID
  BY PoolAssumption DEF AddReplica, SetTypes, ReplicaID
<1> QED BY PoolAssumption DEF AddReplica, SetTypes, ClientTypes, ProcState

\* ReinsertReplica keeps the types of the slice and of the health flags.
LEMMA ReinsertType ==
  ASSUME SetTypes, NEW r \in ReplicaID, ReinsertReplica(r)
  PROVE  replicas' \in Seq(ReplicaID) /\ healthy' \in [ReplicaID -> BOOLEAN]
<1>1. CASE r \in Members
  BY <1>1 DEF ReinsertReplica, SetTypes
<1>2. CASE r \notin Members
  <2>1. replicas' = Append(replicas, r) /\ healthy' = [healthy EXCEPT ![r] = TRUE]
    BY <1>2 DEF ReinsertReplica
  <2>2. replicas' \in Seq(ReplicaID)
    BY <2>1 DEF SetTypes
  <2>3. healthy \in [ReplicaID -> BOOLEAN]
    BY DEF SetTypes
  <2>4. healthy' \in [ReplicaID -> BOOLEAN]
    BY <2>1, <2>3
  <2> QED BY <2>2, <2>4
<1> QED BY <1>1, <1>2

-----------------------------------------------------------------------------
(* Type correctness                                                        *)

\* An empty set, just registered, is well typed.
LEMMA InitType == Init => TypeOK
<1> SUFFICES ASSUME Init PROVE TypeOK
  OBVIOUS
<1>a. SetTypes
  BY PoolAssumption DEF Init, SetTypes
<1>b. ClientTypes
  BY DEF Init, ClientTypes, ProcState
<1>1. ScalerTypes
  BY DEF Init, ScalerTypes
<1>2. TickTypes
  <2>1. \A t \in Tickers : tick[t] \in TickRec /\ tick[t].pc \in {"idle", "done"}
    BY <1>1, FreshTickType DEF Init, TickPC, FreshTick
  <2>2. DOMAIN tick = Tickers /\ tick = [t \in Tickers |-> tick[t]]
    BY DEF Init
  <2> QED BY <2>1, <2>2 DEF TickTypes
<1>3. CallTypes
  BY DEF Init, CallTypes, IdleCall, CallPC
<1>4. MonTypes
  BY DEF Init, MonTypes, MonPC
<1> QED BY <1>a, <1>b, <1>1, <1>2, <1>3, <1>4 DEF TypeOK

\* Every step of a ticker preserves the types.
LEMMA TickType ==
  ASSUME TypeOK, NEW t \in Tickers, Tick(t)
  PROVE  TypeOK'
<1> SetTypes /\ ClientTypes /\ ScalerTypes /\ TickTypes /\ CallTypes /\ MonTypes
  BY DEF TypeOK
<1> DEFINE me == tick[t]
<1>0. me \in TickRec
  BY DEF TickTypes
<1>p. me.p \in Policies /\ ValidPolicy(me.p)
  BY <1>0, PoolAssumption DEF TickRec
<1>1. CASE TickSample(t)
  <2>1. PICK m2 \in 0 .. 2 * Cardinality(Calls) :
           tick' = [tick EXCEPT ![t] = [me EXCEPT !.pc = "count", !.p = policy,
                                                  !.med2 = m2]]
    BY <1>1 DEF TickSample, TickTypes
  <2>2. m2 \in Nat
    OBVIOUS
  <2>3. [me EXCEPT !.pc = "count", !.p = policy, !.med2 = m2] \in TickRec
    BY <1>0, <2>2 DEF TickRec, TickPC, ScalerTypes
  <2>4. TickTypes'
    BY <2>1, <2>3, TickMoves DEF TickRec
  <2> QED BY <1>1, <2>4 DEF TickSample, TypeOK, SetTypes, ClientTypes,
             ScalerTypes, CallTypes, MonTypes, setVars, clientVars, scalerVars
<1>2. CASE TickCount(t)
  <2> DEFINE goal == computeTarget(HealthyCount, me.med2, me.p)
             rec(pc) == [me EXCEPT !.pc = pc, !.cur = HealthyCount,
                                   !.target = goal, !.med2 = 0]
  <2>1. HealthyCount \in Nat /\ goal \in Nat
    BY <1>0, <1>p, MembersType, TargetType DEF TickRec
  <2>2. TickTypes'
    <3>1. CASE EndTick(t)
      BY <3>1, EndTickType
    <3>2. ASSUME NEW pc \in {"down_idle", "up", "down_load"},
                 tick' = [tick EXCEPT ![t] = rec(pc)]
          PROVE  TickTypes'
      <4>1. rec(pc) \in TickRec
        BY <1>0, <2>1 DEF TickRec, TickPC
      <4>2. rec(pc).pc \notin {"remove", "drain", "reap"}
        BY <1>0 DEF TickRec
      <4> HIDE DEF rec
      <4> QED BY <3>2, <4>1, <4>2, TickMoves
    <3>3. EndTick(t) \/ \E pc \in {"down_idle", "up", "down_load"} :
                           tick' = [tick EXCEPT ![t] = rec(pc)]
      BY <1>2 DEF TickCount, TickTypes
    <3> QED BY <3>1, <3>2, <3>3
  <2> QED BY <1>2, <2>2 DEF TickCount, TypeOK, SetTypes, ClientTypes,
             ScalerTypes, CallTypes, MonTypes, setVars, clientVars, scalerVars
<1>3. CASE UpGate(t)
  <2>1. TickTypes'
    <3>1. CASE EndTick(t)
      BY <3>1, EndTickType
    <3>2. CASE tick' = [tick EXCEPT ![t] = [me EXCEPT !.pc = "lock"]]
      <4>1. [me EXCEPT !.pc = "lock"] \in TickRec
        BY <1>0 DEF TickRec, TickPC
      <4> QED BY <3>2, <4>1, TickMoves DEF TickRec
    <3> QED BY <1>3, <3>1, <3>2 DEF UpGate
  <2> QED BY <1>3, <2>1 DEF UpGate, TypeOK, SetTypes, ClientTypes,
             ScalerTypes, CallTypes, MonTypes, setVars, clientVars, scalerVars
<1>4. CASE UpLock(t)
  <2>1. [me EXCEPT !.pc = "spawn"] \in TickRec
    BY <1>0 DEF TickRec, TickPC
  <2>2. TickTypes'
    BY <1>4, <2>1, TickMoves DEF UpLock, TickRec
  <2>3. ScalerTypes'
    BY <1>4 DEF UpLock, ScalerTypes
  <2> QED BY <1>4, <2>2, <2>3 DEF UpLock, TypeOK, SetTypes, ClientTypes,
             CallTypes, MonTypes, setVars, clientVars
<1>5. CASE UpSpawn(t)
  <2>1. TickTypes'
    <3>1. CASE EndTick(t)
      BY <3>1, EndTickType
    <3>2. CASE tick' = [tick EXCEPT ![t] = [me EXCEPT !.added = @ + 1]]
      <4>1. [me EXCEPT !.added = @ + 1] \in TickRec
        BY <1>0 DEF TickRec
      <4>2. [me EXCEPT !.added = @ + 1].pc \notin {"remove", "drain", "reap"}
        BY <1>0, <1>5 DEF UpSpawn, TickRec
      <4> QED BY <3>2, <4>1, <4>2, TickMoves
    <3> QED BY <1>5, <3>1, <3>2 DEF UpSpawn
  <2>2. ScalerTypes'
    BY <1>5 DEF UpSpawn, ScalerTypes
  <2>3. SetTypes' /\ ClientTypes'
    BY <1>5, AddReplicaType DEF UpSpawn, SetTypes, ClientTypes
  <2> QED BY <1>5, <2>1, <2>2, <2>3 DEF UpSpawn, TypeOK, CallTypes, MonTypes
<1>6. CASE UpSpawnFails(t)
  <2>1. TickTypes'
    BY <1>6, EndTickType DEF UpSpawnFails
  <2>2. ScalerTypes'
    BY <1>6 DEF UpSpawnFails, ScalerTypes
  <2> QED BY <1>6, <2>1, <2>2 DEF UpSpawnFails, TypeOK, SetTypes, ClientTypes,
             CallTypes, MonTypes, setVars, clientVars
<1>7. CASE DownGate(t)
  <2>1. TickTypes'
    <3>1. CASE EndTick(t)
      BY <3>1, EndTickType
    <3>2. ASSUME NEW r \in Members,
                 tick' = [tick EXCEPT ![t] = [me EXCEPT !.pc = "remove",
                             !.victim = r, !.floor = Floor(t)]]
          PROVE  TickTypes'
      <4>1. Floor(t) \in Nat
        BY <1>p DEF Floor, ValidPolicy
      <4>2. r \in ReplicaID
        BY MembersType
      <4>3. [me EXCEPT !.pc = "remove", !.victim = r, !.floor = Floor(t)] \in TickRec
        BY <1>0, <4>1, <4>2 DEF TickRec, TickPC
      <4>4. [me EXCEPT !.pc = "remove", !.victim = r, !.floor = Floor(t)].victim = r
        BY <1>0 DEF TickRec
      <4> QED BY <3>2, <4>2, <4>3, <4>4, TickMoves
    <3> QED BY <1>7, <3>1, <3>2 DEF DownGate
  <2> QED BY <1>7, <2>1 DEF DownGate, TypeOK, SetTypes, ClientTypes,
             ScalerTypes, CallTypes, MonTypes, setVars, clientVars, scalerVars
<1>v. me.pc \in {"remove", "drain", "reap"} => me.victim \in ReplicaID
  BY DEF TickTypes
<1>8. CASE RemoveVictim(t)
  <2>1. CASE me.victim \in Members
    <3>1. /\ replicas' = Without(replicas, me.victim)
          /\ tick' = [tick EXCEPT ![t] = [me EXCEPT !.pc = "drain"]]
          /\ healthy' = healthy
      BY <1>8, <2>1 DEF RemoveVictim
    <3>2. [me EXCEPT !.pc = "drain"] \in TickRec
      BY <1>0 DEF TickRec, TickPC
    <3>3. [me EXCEPT !.pc = "drain"].victim \in ReplicaID
      BY <1>0, <1>8, <1>v DEF RemoveVictim, TickRec
    <3>4. TickTypes'
      BY <3>1, <3>2, <3>3, TickMoves
    <3>5. replicas' \in Seq(ReplicaID)
      BY <3>1, WithoutType DEF SetTypes
    <3>6. SetTypes'
      BY <1>8, <3>1, <3>5 DEF RemoveVictim, SetTypes
    <3> QED BY <1>8, <3>4, <3>6 DEF RemoveVictim, TypeOK, ClientTypes,
               ScalerTypes, CallTypes, MonTypes, clientVars, scalerVars
  <2>2. CASE me.victim \notin Members
    <3>1. me.victim \in ReplicaID /\ ReinsertReplica(me.victim) /\ EndTick(t)
      BY <1>8, <2>2, <1>v DEF RemoveVictim
    <3>2. TickTypes'
      BY <3>1, EndTickType
    <3>3. replicas' \in Seq(ReplicaID) /\ healthy' \in [ReplicaID -> BOOLEAN]
      BY <3>1, ReinsertType
    <3>4. SetTypes'
      BY <1>8, <3>3 DEF RemoveVictim, SetTypes
    <3> QED BY <1>8, <3>2, <3>4 DEF RemoveVictim, TypeOK, ClientTypes,
               ScalerTypes, CallTypes, MonTypes, clientVars, scalerVars
  <2> QED BY <2>1, <2>2
<1>9. CASE DrainPoll(t)
  <2>1. [me EXCEPT !.pc = "reap"] \in TickRec
    BY <1>0 DEF TickRec, TickPC
  <2>2. [me EXCEPT !.pc = "reap"].victim \in ReplicaID
    BY <1>0, <1>9, <1>v DEF DrainPoll, TickRec
  <2>3. TickTypes'
    BY <1>9, <2>1, <2>2, TickMoves DEF DrainPoll
  <2> QED BY <1>9, <2>3 DEF DrainPoll, TypeOK, SetTypes, ClientTypes,
             ScalerTypes, CallTypes, MonTypes, setVars, clientVars, scalerVars
<1>10. CASE DrainAborts(t)
  <2>1. me.victim \in ReplicaID /\ ReinsertReplica(me.victim) /\ EndTick(t)
    BY <1>10, <1>v DEF DrainAborts
  <2>2. TickTypes'
    BY <2>1, EndTickType
  <2>3. replicas' \in Seq(ReplicaID) /\ healthy' \in [ReplicaID -> BOOLEAN]
    BY <2>1, ReinsertType
  <2>4. SetTypes'
    BY <1>10, <2>3 DEF DrainAborts, SetTypes
  <2> QED BY <1>10, <2>2, <2>4 DEF DrainAborts, TypeOK, ClientTypes,
             ScalerTypes, CallTypes, MonTypes, clientVars, scalerVars
<1>11. CASE ReapVictim(t)
  <2>1. me.victim \in ReplicaID
    BY <1>11, <1>v DEF ReapVictim
  <2>2. TickTypes'
    BY <1>11, EndTickType DEF ReapVictim
  <2>3. ClientTypes'
    BY <1>11, <2>1 DEF ReapVictim, ClientTypes, Closed, ProcState
  <2>4. SetTypes'
    BY <1>11 DEF ReapVictim, SetTypes, setVars
  <2>5. ScalerTypes'
    BY <1>11 DEF ReapVictim, ScalerTypes
  <2> QED BY <1>11, <2>2, <2>3, <2>4, <2>5 DEF ReapVictim, TypeOK, CallTypes, MonTypes
<1> QED BY <1>1, <1>2, <1>3, <1>4, <1>5, <1>6, <1>7, <1>8, <1>9, <1>10, <1>11 DEF Tick

\* A call that moves to a well-typed local state keeps CallTypes.
LEMMA CallMoves ==
  ASSUME CallTypes, NEW c \in Calls,
         NEW rec \in [pc : CallPC, r : ReplicaID \cup {NoID}],
         rec.pc \in {"picked", "calling"} => rec.r \in ReplicaID,
         call' = [call EXCEPT ![c] = rec]
  PROVE  CallTypes'
<1>1. call' \in [Calls -> [pc : CallPC, r : ReplicaID \cup {NoID}]]
  BY DEF CallTypes
<1>2. ASSUME NEW d \in Calls, call'[d].pc \in {"picked", "calling"}
      PROVE  call'[d].r \in ReplicaID
  BY <1>2 DEF CallTypes
<1> QED BY <1>1, <1>2 DEF CallTypes

\* A call that moves on with the replica it has keeps CallTypes.
LEMMA GoCallType ==
  ASSUME CallTypes, NEW c \in Calls, NEW pc \in CallPC,
         pc \in {"picked", "calling"} => call[c].r \in ReplicaID,
         GoCall(c, pc)
  PROVE  CallTypes'
<1>1. call[c] \in [pc : CallPC, r : ReplicaID \cup {NoID}]
  BY DEF CallTypes
<1>2. [call[c] EXCEPT !.pc = pc] \in [pc : CallPC, r : ReplicaID \cup {NoID}]
  BY <1>1
<1>3. [call[c] EXCEPT !.pc = pc].pc = pc /\ [call[c] EXCEPT !.pc = pc].r = call[c].r
  BY <1>1
<1>4. call' = [call EXCEPT ![c] = [call[c] EXCEPT !.pc = pc]]
  BY DEF GoCall
<1> QED BY <1>2, <1>3, <1>4, CallMoves

\* A call that ends keeps CallTypes.
LEMMA EndCallType ==
  ASSUME CallTypes, NEW c \in Calls, EndCall(c)
  PROVE  CallTypes'
BY CallMoves DEF EndCall, IdleCall, CallPC

\* A call that picks a healthy member keeps CallTypes.
LEMMA PickedType ==
  ASSUME SetTypes, CallTypes, NEW c \in Calls, NEW r \in HealthyMembers,
         call' = [call EXCEPT ![c] = [pc |-> "picked", r |-> r]]
  PROVE  CallTypes'
<1>1. r \in ReplicaID
  BY MembersType DEF HealthyMembers
<1> QED BY <1>1, CallMoves DEF CallPC

\* The round-robin cursor stays below its period.
LEMMA CursorType ==
  ASSUME SetTypes, AdvanceCursor
  PROVE  rrCursor' \in 0 .. RRPeriod - 1
BY PoolAssumption DEF SetTypes, AdvanceCursor

\* Every step of a tool call preserves the types.
LEMMA CallType ==
  ASSUME TypeOK, NEW c \in Calls, HandleToolsCall(c)
  PROVE  TypeOK'
<1> SetTypes /\ ClientTypes /\ ScalerTypes /\ TickTypes /\ CallTypes /\ MonTypes
  BY DEF TypeOK
<1>r. call[c].pc \in {"picked", "calling"} => call[c].r \in ReplicaID
  BY DEF CallTypes
<1>1. CASE Route(c)
  <2>1. CallTypes'
    <3>1. CASE GoCall(c, "cold")
      BY <3>1, GoCallType DEF CallPC
    <3>2. CASE \E r \in HealthyMembers :
                  call' = [call EXCEPT ![c] = [pc |-> "picked", r |-> r]]
      BY <3>2, PickedType
    <3> QED BY <1>1, <3>1, <3>2 DEF Route
  <2>2. SetTypes'
    BY <1>1, CursorType DEF Route, SetTypes
  <2> QED BY <1>1, <2>1, <2>2 DEF Route, TypeOK, ClientTypes, ScalerTypes,
             TickTypes, MonTypes, clientVars, scalerVars
<1>2. CASE Retry(c)
  <2>1. CallTypes'
    <3>1. CASE EndCall(c)
      BY <3>1, EndCallType
    <3>2. CASE \E r \in HealthyMembers :
                  call' = [call EXCEPT ![c] = [pc |-> "picked", r |-> r]]
      BY <3>2, PickedType
    <3> QED BY <1>2, <3>1, <3>2 DEF Retry
  <2>2. SetTypes'
    BY <1>2, CursorType DEF Retry, SetTypes
  <2> QED BY <1>2, <2>1, <2>2 DEF Retry, TypeOK, ClientTypes, ScalerTypes,
             TickTypes, MonTypes, clientVars, scalerVars
<1>3. CASE CallBegins(c)
  <2>1. CallTypes'
    BY <1>3, <1>r, GoCallType DEF CallBegins, CallPC
  <2>2. SetTypes'
    BY <1>3, <1>r DEF CallBegins, SetTypes
  <2> QED BY <1>3, <2>1, <2>2 DEF CallBegins, TypeOK, ClientTypes, ScalerTypes,
             TickTypes, MonTypes, clientVars, scalerVars
<1>4. CASE CallReturns(c)
  <2>1. CallTypes'
    BY <1>4, EndCallType DEF CallReturns
  <2>2. SetTypes'
    BY <1>4, <1>r DEF CallReturns, SetTypes
  <2> QED BY <1>4, <2>1, <2>2 DEF CallReturns, TypeOK, ClientTypes, ScalerTypes,
             TickTypes, MonTypes, clientVars, scalerVars
<1>5. CASE ColdEnter(c)
  <2>1. CallTypes'
    BY <1>5, GoCallType DEF ColdEnter, CallPC
  <2>2. ScalerTypes'
    BY <1>5 DEF ColdEnter, ScalerTypes
  <2> QED BY <1>5, <2>1, <2>2 DEF ColdEnter, TypeOK, SetTypes, ClientTypes,
             TickTypes, MonTypes, setVars, clientVars
<1>6. CASE ColdSpawnFails(c)
  <2>1. CallTypes'
    BY <1>6, EndCallType DEF ColdSpawnFails
  <2>2. ScalerTypes'
    BY <1>6 DEF ColdSpawnFails, ScalerTypes
  <2> QED BY <1>6, <2>1, <2>2 DEF ColdSpawnFails, TypeOK, SetTypes, ClientTypes,
             TickTypes, MonTypes, setVars, clientVars
<1>7. CASE ColdStamp(c)
  <2>1. CallTypes'
    BY <1>7, GoCallType DEF ColdStamp, CallPC
  <2>2. ScalerTypes'
    BY <1>7 DEF ColdStamp, ScalerTypes
  <2> QED BY <1>7, <2>1, <2>2 DEF ColdStamp, TypeOK, SetTypes, ClientTypes,
             TickTypes, MonTypes, setVars, clientVars
<1>8. CASE ColdAdd(c)
  <2>1. CallTypes'
    BY <1>8, GoCallType DEF ColdAdd, CallPC
  <2>2. ScalerTypes'
    BY <1>8 DEF ColdAdd, ScalerTypes
  <2>3. SetTypes' /\ ClientTypes'
    BY <1>8, AddReplicaType DEF ColdAdd, SetTypes, ClientTypes
  <2> QED BY <1>8, <2>1, <2>2, <2>3 DEF ColdAdd, TypeOK, TickTypes, MonTypes
<1>9. CASE CallRejected(c)
  <2>1. CallTypes'
    BY <1>9, EndCallType DEF CallRejected
  <2> QED BY <1>9, <2>1 DEF CallRejected, TypeOK, SetTypes, ClientTypes,
             ScalerTypes, TickTypes, MonTypes, setVars, clientVars, scalerVars
<1> QED BY <1>1, <1>2, <1>3, <1>4, <1>5, <1>6, <1>7, <1>8, <1>9 DEF HandleToolsCall

\* Every step of the health monitor preserves the types.
LEMMA MonitorType ==
  ASSUME TypeOK, Monitor
  PROVE  TypeOK'
<1> SetTypes /\ ClientTypes /\ ScalerTypes /\ TickTypes /\ CallTypes /\ MonTypes
  BY DEF TypeOK
<1> DEFINE r == Head(mon.todo)
<1>r. mon.pc \in {"up", "down", "reconnect"} => r \in ReplicaID
  BY DEF MonTypes
<1>n. ASSUME NextReplica, mon.todo # <<>> PROVE MonTypes'
  BY <1>n DEF NextReplica, MonTypes, MonPC
<1>1. CASE MonSnapshot
  BY <1>1 DEF MonSnapshot, TypeOK, SetTypes, ClientTypes, ScalerTypes, TickTypes,
     CallTypes, MonTypes, MonPC, setVars, clientVars, scalerVars
<1>2. CASE MonEnd
  BY <1>2 DEF MonEnd, TypeOK, SetTypes, ClientTypes, ScalerTypes, TickTypes,
     CallTypes, MonTypes, MonPC, setVars, clientVars, scalerVars
<1>3. CASE MonPing
  <2>1. MonTypes'
    BY <1>3 DEF MonPing, MonTypes, MonPC
  <2> QED BY <1>3, <2>1 DEF MonPing, TypeOK, SetTypes, ClientTypes, ScalerTypes,
             TickTypes, CallTypes, setVars, clientVars, scalerVars
<1>4. CASE MonUp
  <2>1. MonTypes'
    BY <1>4, <1>n DEF MonUp, MonTypes
  <2>2. SetTypes' /\ ClientTypes'
    BY <1>4, <1>r DEF MonUp, SetTypes, ClientTypes
  <2> QED BY <1>4, <2>1, <2>2 DEF MonUp, TypeOK, ScalerTypes, TickTypes,
             CallTypes, scalerVars
<1>5. CASE MonDown
  <2>1. MonTypes'
    BY <1>5, <1>n DEF MonDown, MonTypes, MonPC
  <2>2. SetTypes'
    BY <1>5, <1>r DEF MonDown, SetTypes
  <2> QED BY <1>5, <2>1, <2>2 DEF MonDown, TypeOK, ClientTypes, ScalerTypes,
             TickTypes, CallTypes, clientVars, scalerVars
<1>6. CASE MonReconnect
  <2>1. MonTypes'
    BY <1>6, <1>n DEF MonReconnect, MonTypes
  <2>2. PICK s2 \in ProcState, ok \in BOOLEAN :
           /\ proc' = [proc EXCEPT ![r] = s2]
           /\ backoff' = [backoff EXCEPT ![r] = ~ok]
           /\ healthy' = [healthy EXCEPT ![r] = ok]
           /\ started' = IF ok
                           THEN Append(Without(started, r), r) ELSE started
    BY <1>6 DEF MonReconnect
  <2>3. r \in ReplicaID
    BY <1>6, <1>r DEF MonReconnect
  <2>4. started' \in Seq(ReplicaID)
    <3>1. Without(started, r) \in Seq(ReplicaID)
      BY WithoutType DEF SetTypes
    <3> QED BY <2>2, <2>3, <3>1 DEF SetTypes
  <2>5. healthy' \in [ReplicaID -> BOOLEAN]
    BY <2>2, <2>3 DEF SetTypes
  <2>6. ClientTypes'
    BY <1>6, <2>2, <2>3 DEF MonReconnect, ClientTypes
  <2>7. SetTypes'
    BY <1>6, <2>4, <2>5 DEF MonReconnect, SetTypes
  <2> QED BY <1>6, <2>1, <2>6, <2>7 DEF MonReconnect, TypeOK, ScalerTypes,
             TickTypes, CallTypes, scalerVars
<1> QED BY <1>1, <1>2, <1>3, <1>4, <1>5, <1>6 DEF Monitor

\* Policy changes, the clock and crashes preserve the types.
LEMMA EnvironmentType ==
  ASSUME TypeOK, Environment
  PROVE  TypeOK'
<1> SetTypes /\ ClientTypes /\ ScalerTypes /\ TickTypes /\ CallTypes /\ MonTypes
  BY DEF TypeOK
<1>1. ASSUME NEW p \in Policies, UpdatePolicy(p) PROVE TypeOK'
  BY <1>1 DEF UpdatePolicy, TypeOK, SetTypes, ClientTypes, ScalerTypes, TickTypes,
     CallTypes, MonTypes, setVars, clientVars
<1>2. CASE CooldownElapses
  <2>1. ScalerTypes'
    BY <1>2 DEF CooldownElapses, ScalerTypes
  <2> QED BY <1>2, <2>1 DEF CooldownElapses, TypeOK, SetTypes, ClientTypes,
             TickTypes, CallTypes, MonTypes, setVars, clientVars
<1>3. ASSUME NEW r \in ReplicaID, Crash(r) PROVE TypeOK'
  <2>1. ClientTypes'
    BY <1>3 DEF Crash, ClientTypes, ProcState
  <2> QED BY <1>3, <2>1 DEF Crash, TypeOK, SetTypes, ScalerTypes, TickTypes,
             CallTypes, MonTypes, setVars, scalerVars
<1> QED BY <1>1, <1>2, <1>3 DEF Environment

\* Every step preserves the types.
LEMMA NextType == TypeOK /\ [Next]_vars => TypeOK'
<1> SUFFICES ASSUME TypeOK, [Next]_vars PROVE TypeOK'
  OBVIOUS
<1>1. CASE UNCHANGED vars
  BY <1>1 DEF vars, TypeOK, SetTypes, ClientTypes, ScalerTypes, TickTypes,
     CallTypes, MonTypes, setVars, clientVars, scalerVars
<1> QED BY <1>1, TickType, CallType, MonitorType, EnvironmentType DEF Next

\* The types of the pool's variables and of every goroutine's locals hold in
\* every reachable state, for any number of calls and any valid policies.
THEOREM TypeCorrect == Spec => []TypeOK
BY InitType, NextType, PTL DEF Spec

-----------------------------------------------------------------------------
(* Mutual exclusion of Spawn                                               *)

\* Nobody spawns when the set is registered.
LEMMA InitSpawn == Init => SpawnSerialised
BY DEF Init, SpawnSerialised, FreshTick, IdleCall

\* Every step preserves the mutual exclusion: spawnMu is taken only when
\* free, and only its holder gives it back.
LEMMA NextSpawn == TypeOK /\ SpawnSerialised /\ [Next]_vars => SpawnSerialised'
<1> SUFFICES ASSUME TypeOK, SpawnSerialised, [Next]_vars
             PROVE  SpawnSerialised'
  OBVIOUS
<1>T. /\ tick \in [Tickers -> TickRec] /\ Calls \cap Tickers = {}
      /\ call \in [Calls -> [pc : CallPC, r : ReplicaID \cup {NoID}]]
      /\ NoThread \notin Calls \cup Tickers
  BY PoolAssumption DEF TypeOK, TickTypes, CallTypes
<1>1. ASSUME NEW t \in Tickers, Tick(t) PROVE SpawnSerialised'
  <2>1. call' = call
    BY <1>1 DEF Tick, TickSample, TickCount, UpGate, UpLock, UpSpawn, UpSpawnFails,
       DownGate, RemoveVictim, DrainPoll, DrainAborts, ReapVictim
  <2>2. \A u \in Tickers \ {t} : tick'[u] = tick[u]
    BY <1>1, <1>T DEF Tick, TickSample, TickCount, UpGate, UpLock, UpSpawn,
       UpSpawnFails, DownGate, RemoveVictim, DrainPoll, DrainAborts, ReapVictim,
       EndTick
  <2>3. CASE UpLock(t)
    BY <1>T, <2>1, <2>2, <2>3 DEF UpLock, SpawnSerialised
  <2>4. CASE UpSpawn(t) \/ UpSpawnFails(t)
    <3>1. spawnMu = t
      BY <2>4 DEF UpSpawn, UpSpawnFails, SpawnSerialised
    <3>2. (spawnMu' = spawnMu) \/ (tick'[t].pc # "spawn")
      BY <1>T, <2>4 DEF UpSpawn, UpSpawnFails, EndTick, FreshTick
    <3> QED BY <1>T, <2>1, <2>2, <3>1, <3>2 DEF SpawnSerialised
  <2>5. CASE ~UpLock(t) /\ ~UpSpawn(t) /\ ~UpSpawnFails(t)
    <3>1. spawnMu' = spawnMu
      BY <1>1, <2>5 DEF Tick, TickSample, TickCount, UpGate, DownGate, RemoveVictim,
         DrainPoll, DrainAborts, ReapVictim, scalerVars
    <3>2. tick'[t].pc # "spawn"
      <4>0. ASSUME EndTick(t) PROVE tick'[t].pc # "spawn"
        BY <4>0, <1>T DEF EndTick, FreshTick
      <4>1. CASE TickSample(t)
        BY <1>T, <4>1 DEF TickSample, TickRec
      <4>2. CASE TickCount(t)
        BY <1>T, <4>0, <4>2 DEF TickCount, TickRec
      <4>3. CASE UpGate(t)
        BY <1>T, <4>0, <4>3 DEF UpGate, TickRec
      <4>4. CASE DownGate(t)
        <5>1. \/ EndTick(t)
              \/ \E r \in Members : tick' = [tick EXCEPT ![t] =
                    [tick[t] EXCEPT !.pc = "remove", !.victim = r, !.floor = Floor(t)]]
          BY <4>4 DEF DownGate
        <5>2. ASSUME NEW r, NEW f,
                     tick' = [tick EXCEPT ![t] =
                       [tick[t] EXCEPT !.pc = "remove", !.victim = r, !.floor = f]]
              PROVE  tick'[t].pc # "spawn"
          BY <1>T, <5>2 DEF TickRec
        <5> QED BY <4>0, <5>1, <5>2
      <4>5. CASE RemoveVictim(t)
        BY <1>T, <4>0, <4>5 DEF RemoveVictim, TickRec
      <4>6. CASE DrainPoll(t)
        BY <1>T, <4>6 DEF DrainPoll, TickRec
      <4>7. CASE DrainAborts(t) \/ ReapVictim(t)
        BY <4>0, <4>7 DEF DrainAborts, ReapVictim
      <4> QED BY <1>1, <2>5, <4>1, <4>2, <4>3, <4>4, <4>5, <4>6, <4>7 DEF Tick
    <3> QED BY <2>1, <2>2, <3>1, <3>2 DEF SpawnSerialised
  <2> QED BY <2>3, <2>4, <2>5
<1>2. ASSUME NEW c \in Calls, HandleToolsCall(c) PROVE SpawnSerialised'
  <2>1. tick' = tick
    BY <1>2 DEF HandleToolsCall, Route, Retry, CallRejected, CallBegins, CallReturns, ColdEnter,
       ColdSpawnFails, ColdStamp, ColdAdd
  <2>2. \A d \in Calls \ {c} : call'[d] = call[d]
    BY <1>2, <1>T DEF HandleToolsCall, Route, Retry, CallRejected, CallBegins, CallReturns,
       ColdEnter, ColdSpawnFails, ColdStamp, ColdAdd, GoCall, EndCall
  <2>3. CASE ColdEnter(c)
    BY <1>T, <2>1, <2>2, <2>3 DEF ColdEnter, GoCall, SpawnSerialised
  <2>4. CASE ColdSpawnFails(c) \/ ColdStamp(c) \/ ColdAdd(c)
    <3>1. spawnMu = c
      BY <2>4 DEF ColdSpawnFails, ColdStamp, ColdAdd, SpawnSerialised
    <3>2. spawnMu' = spawnMu \/ call'[c].pc \notin {"coldspawn", "coldadd"}
      BY <1>T, <2>4 DEF ColdSpawnFails, ColdStamp, ColdAdd, GoCall, EndCall, IdleCall
    <3> QED BY <1>T, <2>1, <2>2, <3>1, <3>2 DEF SpawnSerialised
  <2>5. CASE Route(c) \/ Retry(c) \/ CallRejected(c) \/ CallBegins(c) \/ CallReturns(c)
    <3>1. spawnMu' = spawnMu
      BY <2>5 DEF Route, Retry, CallRejected, CallBegins, CallReturns, scalerVars
    <3>2. call'[c].pc \notin {"coldspawn", "coldadd"}
      BY <1>T, <2>5 DEF Route, Retry, CallRejected, CallBegins, CallReturns, GoCall, EndCall, IdleCall
    <3> QED BY <2>1, <2>2, <3>1, <3>2 DEF SpawnSerialised
  <2> QED BY <1>2, <2>3, <2>4, <2>5 DEF HandleToolsCall
<1>3. CASE Monitor \/ Environment \/ UNCHANGED vars
  <2>1. UNCHANGED <<tick, call, spawnMu>>
    BY <1>3 DEF Monitor, MonSnapshot, MonEnd, MonPing, MonUp, MonDown, MonReconnect,
       Environment, UpdatePolicy, CooldownElapses, Crash, vars, scalerVars
  <2> QED BY <2>1 DEF SpawnSerialised
<1> QED BY <1>1, <1>2, <1>3 DEF Next

\* autoscaler.go, spawnMu: "serialises every Spawn call for this scaler".  At
\* most one goroutine, tick or cold start, is between Spawn and AddReplica.
THEOREM SpawnExclusion == Spec => []SpawnSerialised
BY InitType, NextType, InitSpawn, NextSpawn, PTL DEF Spec

-----------------------------------------------------------------------------
(* The in-flight counter                                                   *)

\* The calls running on a replica can be counted.
LEMMA CallsOnFinite ==
  ASSUME NEW r PROVE IsFiniteSet(CallsOn(r))
<1>1. CallsOn(r) \subseteq Calls
  BY DEF CallsOn
<1> QED BY <1>1, PoolAssumption, FS_Subset

\* No call runs when the set is registered.
LEMMA InitInFlight == Init => InFlightExact
<1> SUFFICES ASSUME Init, NEW r \in ReplicaID
             PROVE  inFlight[r] = Cardinality(CallsOn(r))
  BY DEF InFlightExact
<1>1. CallsOn(r) = {}
  BY DEF Init, CallsOn, IdleCall
<1> QED BY <1>1, FS_EmptySet DEF Init

\* A step in which nobody enters or leaves CallTool.
LEMMA InFlightStays ==
  ASSUME InFlightExact, inFlight' = inFlight,
         \A c \in Calls : \/ call'[c] = call[c]
                          \/ call[c].pc # "calling" /\ call'[c].pc # "calling"
  PROVE  InFlightExact'
<1> SUFFICES ASSUME NEW r \in ReplicaID
             PROVE  inFlight'[r] = Cardinality(CallsOn(r)')
  BY DEF InFlightExact
<1>1. CallsOn(r)' = CallsOn(r)
  BY DEF CallsOn
<1> QED BY <1>1 DEF InFlightExact

\* Every step preserves the counter: CallBegins and CallReturns move one
\* call and the counter together, no other step enters or leaves CallTool.
LEMMA NextInFlight == TypeOK /\ InFlightExact /\ [Next]_vars => InFlightExact'
<1> SUFFICES ASSUME TypeOK, InFlightExact, [Next]_vars
             PROVE  InFlightExact'
  OBVIOUS
<1>T. /\ call \in [Calls -> [pc : CallPC, r : ReplicaID \cup {NoID}]]
      /\ inFlight \in [ReplicaID -> Int]
      /\ \A c \in Calls :
            call[c].pc \in {"picked", "calling"} => call[c].r \in ReplicaID
  BY DEF TypeOK, CallTypes, SetTypes
<1>1. ASSUME NEW c \in Calls, CallBegins(c) PROVE InFlightExact'
  <2> DEFINE q == call[c].r
  <2>1. q \in ReplicaID /\ call[c].pc = "picked"
    BY <1>1, <1>T DEF CallBegins
  <2>2. /\ inFlight' = [inFlight EXCEPT ![q] = @ + 1]
        /\ call' = [call EXCEPT ![c] = [call[c] EXCEPT !.pc = "calling"]]
    BY <1>1 DEF CallBegins, GoCall
  <2>3. call'[c].pc = "calling" /\ call'[c].r = q
    BY <2>2, <1>T
  <2>4. \A d \in Calls \ {c} : call'[d] = call[d]
    BY <2>2, <1>T
  <2> SUFFICES ASSUME NEW r \in ReplicaID
               PROVE  inFlight'[r] = Cardinality(CallsOn(r)')
    BY DEF InFlightExact
  <2>5. CASE r = q
    <3>1. CallsOn(r)' = CallsOn(r) \cup {c} /\ c \notin CallsOn(r)
      BY <2>1, <2>3, <2>4, <2>5 DEF CallsOn
    <3>2. Cardinality(CallsOn(r) \cup {c}) = Cardinality(CallsOn(r)) + 1
      BY <3>1, CallsOnFinite, FS_AddElement
    <3> QED BY <2>2, <2>5, <3>1, <3>2, <1>T DEF InFlightExact
  <2>6. CASE r # q
    <3>1. CallsOn(r)' = CallsOn(r)
      BY <2>1, <2>3, <2>4, <2>6 DEF CallsOn
    <3> QED BY <2>2, <2>6, <3>1, <1>T DEF InFlightExact
  <2> QED BY <2>5, <2>6
<1>2. ASSUME NEW c \in Calls, CallReturns(c) PROVE InFlightExact'
  <2> DEFINE q == call[c].r
  <2>1. q \in ReplicaID /\ call[c].pc = "calling"
    BY <1>2, <1>T DEF CallReturns
  <2>2. /\ inFlight' = [inFlight EXCEPT ![q] = @ - 1]
        /\ call' = [call EXCEPT ![c] = IdleCall]
    BY <1>2 DEF CallReturns, EndCall
  <2>3. call'[c].pc = "idle"
    BY <2>2, <1>T DEF IdleCall
  <2>4. \A d \in Calls \ {c} : call'[d] = call[d]
    BY <2>2, <1>T
  <2> SUFFICES ASSUME NEW r \in ReplicaID
               PROVE  inFlight'[r] = Cardinality(CallsOn(r)')
    BY DEF InFlightExact
  <2>5. CASE r = q
    <3>1. CallsOn(r)' = CallsOn(r) \ {c} /\ c \in CallsOn(r)
      BY <2>1, <2>3, <2>4, <2>5 DEF CallsOn
    <3>2. Cardinality(CallsOn(r) \ {c}) = Cardinality(CallsOn(r)) - 1
      BY <3>1, CallsOnFinite, FS_RemoveElement
    <3> QED BY <2>2, <2>5, <3>1, <3>2, <1>T DEF InFlightExact
  <2>6. CASE r # q
    <3>1. CallsOn(r)' = CallsOn(r)
      BY <2>1, <2>3, <2>4, <2>6 DEF CallsOn
    <3> QED BY <2>2, <2>6, <3>1, <1>T DEF InFlightExact
  <2> QED BY <2>5, <2>6
<1>3. ASSUME NEW c \in Calls,
             \/ Route(c) \/ Retry(c) \/ CallRejected(c) \/ ColdEnter(c) \/ ColdSpawnFails(c)
             \/ ColdStamp(c) \/ ColdAdd(c)
      PROVE  InFlightExact'
  <2>1. inFlight' = inFlight
    BY <1>3 DEF Route, Retry, CallRejected, ColdEnter, ColdSpawnFails, ColdStamp, ColdAdd, setVars
  <2>2. \A d \in Calls \ {c} : call'[d] = call[d]
    BY <1>3, <1>T DEF Route, Retry, CallRejected, ColdEnter, ColdSpawnFails, ColdStamp, ColdAdd,
       GoCall, EndCall
  <2>3. call[c].pc # "calling" /\ call'[c].pc # "calling"
    BY <1>3, <1>T DEF Route, Retry, CallRejected, ColdEnter, ColdSpawnFails, ColdStamp, ColdAdd,
       GoCall, EndCall, IdleCall
  <2> QED BY <2>1, <2>2, <2>3, InFlightStays
<1>4. ASSUME NEW t \in Tickers, Tick(t) PROVE InFlightExact'
  <2>1. inFlight' = inFlight /\ call' = call
    BY <1>4 DEF Tick, TickSample, TickCount, UpGate, UpLock, UpSpawn, UpSpawnFails,
       DownGate, RemoveVictim, DrainPoll, DrainAborts, ReapVictim, setVars
  <2> QED BY <2>1, InFlightStays
<1>5. CASE Monitor \/ Environment \/ UNCHANGED vars
  <2>1. inFlight' = inFlight /\ call' = call
    BY <1>5 DEF Monitor, MonSnapshot, MonEnd, MonPing, MonUp, MonDown, MonReconnect,
       Environment, UpdatePolicy, CooldownElapses, Crash, vars, setVars
  <2> QED BY <2>1, InFlightStays
<1> QED BY <1>1, <1>2, <1>3, <1>4, <1>5 DEF Next, HandleToolsCall

\* Replica.inFlight is exactly the number of calls between IncInFlight and
\* DecInFlight, whatever the ticks, reinsertions and reconnects do meanwhile.
THEOREM InFlightIsExact == Spec => []InFlightExact
BY InitType, NextType, InitInFlight, NextInFlight, PTL DEF Spec

-----------------------------------------------------------------------------
(* No call on a reaped client                                              *)

InUse == {"picked", "calling"}
Holding == {"remove", "drain", "reap"}

\* Nothing is in the set, drained or reaped when it is registered.
LEMMA InitReap == Init => ReapInv
<1> SUFFICES ASSUME Init PROVE ReapInv
  OBVIOUS
<1>1. Members = {} /\ reaped = {} /\ IsInjective(replicas)
  BY DEF Init, Members, ToSet, IsInjective
<1>2. \A t \in Tickers : tick[t].pc \in {"idle", "done"}
  BY DEF Init, FreshTick
<1>3. \A c \in Calls : call[c].pc = "idle"
  BY DEF Init, IdleCall
<1> QED BY <1>1, <1>2, <1>3 DEF ReapInv, IdsMinted, VictimHeld, SetSound, NoCallOnReaped

\* A step that leaves the set and the reaped ids alone, in which no tick
\* takes or advances a victim and no call picks a replica.
LEMMA ReapFrame ==
  ASSUME ReapInv, UNCHANGED <<replicas, nextID, reaped>>,
         \A t \in Tickers : tick'[t].pc \in Holding =>
            tick'[t].pc = tick[t].pc /\ tick'[t].victim = tick[t].victim,
         \A c \in Calls : call'[c].pc \in InUse =>
            call[c].pc \in InUse /\ call'[c].r = call[c].r
  PROVE  ReapInv'
<1>1. Members' = Members
  BY DEF Members
<1>2. IdsMinted'
  BY <1>1 DEF ReapInv, IdsMinted, InUse, Holding
<1>3. VictimHeld'
  BY <1>1 DEF ReapInv, VictimHeld, InUse, Holding
<1>4. SetSound' /\ NoCallOnReaped'
  BY <1>1 DEF ReapInv, SetSound, NoCallOnReaped, InUse
<1> QED BY <1>2, <1>3, <1>4 DEF ReapInv

\* A fresh replica joins; its id was never used.
LEMMA ReapAdd ==
  ASSUME TypeOK, ReapInv, AddReplica, reaped' = reaped,
         \A t \in Tickers : tick'[t].pc \in Holding =>
            tick'[t].pc = tick[t].pc /\ tick'[t].victim = tick[t].victim,
         \A c \in Calls : call'[c].pc \in InUse =>
            call[c].pc \in InUse /\ call'[c].r = call[c].r
  PROVE  ReapInv'
<1>T. /\ replicas \in Seq(ReplicaID) /\ nextID \in Nat /\ nextID \in ReplicaID
      /\ replicas' = Append(replicas, nextID) /\ nextID' = nextID + 1
      /\ ReplicaID \subseteq Int /\ reaped \subseteq ReplicaID
      /\ Members \subseteq ReplicaID
  BY PoolAssumption, MembersType DEF TypeOK, SetTypes, ClientTypes, AddReplica, ReplicaID
<1>V. /\ \A t \in Tickers : tick[t].pc \in Holding => tick[t].victim \in Int
      /\ \A c \in Calls : call[c].pc \in InUse => call[c].r \in Int
  BY <1>T DEF TypeOK, TickTypes, CallTypes, Holding, InUse
<1>1. nextID \notin Members \cup reaped
  BY <1>T DEF ReapInv, IdsMinted
<1>2. Members' = Members \cup {nextID} /\ IsInjective(replicas')
  BY <1>T, <1>1, AppendElems DEF ReapInv, SetSound, Members
<1>3. IdsMinted'
  <2>1. \A r \in Members' \cup reaped' : r < nextID'
    BY <1>T, <1>2 DEF ReapInv, IdsMinted
  <2>2. \A t \in Tickers : tick'[t].pc \in Holding => tick'[t].victim < nextID'
    BY <1>T, <1>V DEF ReapInv, IdsMinted, Holding
  <2>3. \A c \in Calls : call'[c].pc \in InUse => call'[c].r < nextID'
    BY <1>T, <1>V DEF ReapInv, IdsMinted, InUse
  <2> QED BY <2>1, <2>2, <2>3 DEF IdsMinted, InUse, Holding
<1>4. VictimHeld'
  <2> SUFFICES ASSUME NEW t \in Tickers, tick'[t].pc \in Holding
               PROVE  /\ tick'[t].pc = "remove" => tick'[t].victim \in Members'
                      /\ tick'[t].pc \in {"drain", "reap"} =>
                            tick'[t].victim \notin Members' \cup reaped'
                      /\ tick'[t].pc = "reap" =>
                            \A c \in Calls : call'[c].pc \in InUse =>
                                                call'[c].r # tick'[t].victim
    BY DEF VictimHeld, Holding, InUse
  <2>1. tick[t].victim # nextID
    BY <1>T, <1>V DEF ReapInv, IdsMinted, Holding
  <2> QED BY <1>2, <2>1 DEF ReapInv, VictimHeld, Holding, InUse
<1>5. SetSound'
  BY <1>1, <1>2 DEF ReapInv, SetSound
<1>6. NoCallOnReaped'
  BY DEF ReapInv, NoCallOnReaped, InUse
<1> QED BY <1>3, <1>4, <1>5, <1>6 DEF ReapInv

\* Every step of the only ticker preserves the invariant.  DrainPoll is where
\* the grace window and the exact counter are needed.
LEMMA TickReap ==
  ASSUME TypeOK, InFlightExact, ReapInv, GraceCovers,
         \A u, v \in Tickers : u = v,
         NEW t \in Tickers, Tick(t)
  PROVE  ReapInv'
<1> DEFINE me == tick[t]
<1>T. /\ tick \in [Tickers -> TickRec] /\ me \in TickRec
      /\ replicas \in Seq(ReplicaID) /\ reaped \subseteq ReplicaID
      /\ Members \subseteq ReplicaID /\ nextID \in Int /\ ReplicaID \subseteq Int
      /\ Tickers = {t}
  BY MembersType DEF TypeOK, TickTypes, SetTypes, ClientTypes, ReplicaID
<1>v. me.pc \in Holding => me.victim \in ReplicaID /\ me.victim < nextID
  BY DEF TypeOK, TickTypes, ReapInv, IdsMinted, Holding
<1>E. ASSUME EndTick(t) PROVE tick'[t].pc \notin Holding
  BY <1>E, <1>T DEF EndTick, FreshTick, Holding
<1>C. call' = call
  BY DEF Tick, TickSample, TickCount, UpGate, UpLock, UpSpawn, UpSpawnFails,
     DownGate, RemoveVictim, DrainPoll, DrainAborts, ReapVictim
<1>1. CASE TickSample(t) \/ TickCount(t) \/ UpGate(t) \/ UpLock(t) \/ UpSpawnFails(t)
  <2>1. UNCHANGED <<replicas, nextID, reaped>>
    BY <1>1 DEF TickSample, TickCount, UpGate, UpLock, UpSpawnFails, setVars, clientVars
  <2>2. tick'[t].pc \notin Holding
    <3>1. CASE TickSample(t)
      BY <3>1, <1>T DEF TickSample, TickRec, Holding
    <3>2. CASE TickCount(t)
      BY <3>2, <1>T, <1>E DEF TickCount, TickRec, Holding
    <3>3. CASE UpGate(t)
      BY <3>3, <1>T, <1>E DEF UpGate, TickRec, Holding
    <3>4. CASE UpLock(t) \/ UpSpawnFails(t)
      BY <3>4, <1>T, <1>E DEF UpLock, UpSpawnFails, TickRec, Holding
    <3> QED BY <1>1, <3>1, <3>2, <3>3, <3>4
  <2> QED BY <2>1, <2>2, <1>T, <1>C, ReapFrame
<1>2. CASE UpSpawn(t)
  <2>1. tick'[t].pc \notin Holding
    BY <1>2, <1>T, <1>E DEF UpSpawn, TickRec, Holding
  <2> QED BY <1>2, <2>1, <1>T, <1>C, ReapAdd DEF UpSpawn
<1>3. CASE DownGate(t)
  <2>1. UNCHANGED <<replicas, nextID, reaped>>
    BY <1>3 DEF DownGate, setVars, clientVars
  <2>2. CASE EndTick(t)
    BY <2>1, <2>2, <1>E, <1>T, <1>C, ReapFrame
  <2>3. ASSUME NEW r \in Members, NEW f,
               tick' = [tick EXCEPT ![t] =
                  [me EXCEPT !.pc = "remove", !.victim = r, !.floor = f]]
        PROVE  ReapInv'
    <3>1. tick'[t].pc = "remove" /\ tick'[t].victim = r
      BY <2>3, <1>T DEF TickRec
    <3>2. Members' = Members
      BY <2>1 DEF Members
    <3>3. IdsMinted'
      BY <2>1, <3>1, <3>2, <1>T, <1>C DEF ReapInv, IdsMinted
    <3>4. VictimHeld'
      BY <3>1, <3>2, <1>T DEF VictimHeld
    <3>5. SetSound' /\ NoCallOnReaped'
      BY <2>1, <3>2, <1>C DEF ReapInv, SetSound, NoCallOnReaped
    <3> QED BY <3>3, <3>4, <3>5 DEF ReapInv
  <2>4. \/ EndTick(t)
        \/ \E r \in Members : tick' = [tick EXCEPT ![t] =
              [me EXCEPT !.pc = "remove", !.victim = r, !.floor = Floor(t)]]
    BY <1>3 DEF DownGate
  <2> QED BY <2>2, <2>3, <2>4
<1>4. CASE RemoveVictim(t)
  <2>1. me.pc = "remove" /\ me.victim \in Members
    BY <1>4 DEF RemoveVictim, ReapInv, VictimHeld
  <2>2. /\ replicas' = Without(replicas, me.victim)
        /\ tick' = [tick EXCEPT ![t] = [me EXCEPT !.pc = "drain"]]
        /\ nextID' = nextID /\ reaped' = reaped
    BY <1>4, <2>1 DEF RemoveVictim, clientVars
  <2>3. Members' = Members \ {me.victim} /\ IsInjective(replicas')
    BY <2>1, <2>2, <1>T, WithoutElems DEF ReapInv, SetSound, Members
  <2>4. tick'[t].pc = "drain" /\ tick'[t].victim = me.victim
    BY <2>2, <1>T DEF TickRec
  <2>5. IdsMinted'
    BY <2>1, <2>2, <2>3, <2>4, <1>T, <1>C, <1>v DEF ReapInv, IdsMinted, Holding
  <2>6. me.victim \notin Members' \cup reaped'
    BY <2>1, <2>2, <2>3 DEF ReapInv, SetSound
  <2>7. VictimHeld'
    BY <2>4, <2>6, <1>T DEF VictimHeld
  <2>8. SetSound' /\ NoCallOnReaped'
    BY <2>2, <2>3, <1>C DEF ReapInv, SetSound, NoCallOnReaped
  <2> QED BY <2>5, <2>7, <2>8 DEF ReapInv
<1>5. CASE DrainPoll(t)
  <2>1. /\ me.pc = "drain" /\ inFlight[me.victim] = 0
        /\ ~\E c \in Calls : call[c].pc = "picked" /\ call[c].r = me.victim
        /\ tick' = [tick EXCEPT ![t] = [me EXCEPT !.pc = "reap"]]
        /\ UNCHANGED <<replicas, nextID, reaped>>
    BY <1>5 DEF DrainPoll, setVars, clientVars
  <2>2. CallsOn(me.victim) = {}
    <3>1. Cardinality(CallsOn(me.victim)) = 0
      BY <2>1, <1>v DEF InFlightExact, Holding
    <3> QED BY <3>1, CallsOnFinite, FS_EmptySet
  <2>3. \A c \in Calls : call[c].pc \in InUse => call[c].r # me.victim
    BY <2>1, <2>2 DEF CallsOn, InUse
  <2>4. tick'[t].pc = "reap" /\ tick'[t].victim = me.victim
    BY <2>1, <1>T DEF TickRec
  <2>5. Members' = Members
    BY <2>1 DEF Members
  <2>6. IdsMinted'
    BY <2>1, <2>4, <2>5, <1>T, <1>C, <1>v DEF ReapInv, IdsMinted, Holding
  <2>7. me.victim \notin Members \cup reaped
    BY <2>1 DEF ReapInv, VictimHeld
  <2>8. VictimHeld'
    BY <2>1, <2>3, <2>4, <2>5, <2>7, <1>T, <1>C DEF VictimHeld, InUse
  <2>9. SetSound' /\ NoCallOnReaped'
    BY <2>1, <2>5, <1>C DEF ReapInv, SetSound, NoCallOnReaped
  <2> QED BY <2>6, <2>8, <2>9 DEF ReapInv
<1>6. CASE DrainAborts(t)
  <2>1. me.pc = "drain" /\ me.victim \notin Members \cup reaped
    BY <1>6 DEF DrainAborts, ReapInv, VictimHeld
  <2>2. replicas' = Append(replicas, me.victim) /\ nextID' = nextID /\ reaped' = reaped
    BY <1>6, <2>1 DEF DrainAborts, ReinsertReplica, clientVars
  <2>3. Members' = Members \cup {me.victim} /\ IsInjective(replicas')
    BY <2>1, <2>2, <1>T, <1>v, AppendElems DEF ReapInv, SetSound, Members, Holding
  <2>4. tick'[t].pc \notin Holding
    BY <1>6, <1>E DEF DrainAborts
  <2>5. IdsMinted'
    BY <2>1, <2>2, <2>3, <2>4, <1>T, <1>C, <1>v DEF ReapInv, IdsMinted, Holding
  <2>6. VictimHeld'
    BY <2>4, <1>T DEF VictimHeld, Holding
  <2>7. SetSound' /\ NoCallOnReaped'
    BY <2>1, <2>2, <2>3, <1>C DEF ReapInv, SetSound, NoCallOnReaped
  <2> QED BY <2>5, <2>6, <2>7 DEF ReapInv
<1>7. CASE ReapVictim(t)
  <2>1. /\ me.pc = "reap" /\ me.victim \notin Members \cup reaped
        /\ \A c \in Calls : call[c].pc \in InUse => call[c].r # me.victim
    BY <1>7 DEF ReapVictim, ReapInv, VictimHeld, InUse
  <2>2. replicas' = replicas /\ nextID' = nextID /\ reaped' = reaped \cup {me.victim}
    BY <1>7 DEF ReapVictim, setVars
  <2>3. Members' = Members
    BY <2>2 DEF Members
  <2>4. tick'[t].pc \notin Holding
    BY <1>7, <1>E DEF ReapVictim
  <2>5. IdsMinted'
    BY <2>1, <2>2, <2>3, <2>4, <1>T, <1>C, <1>v DEF ReapInv, IdsMinted, Holding
  <2>6. VictimHeld'
    BY <2>4, <1>T DEF VictimHeld, Holding
  <2>7. SetSound' /\ NoCallOnReaped'
    BY <2>1, <2>2, <2>3, <1>C DEF ReapInv, SetSound, NoCallOnReaped, InUse
  <2> QED BY <2>5, <2>6, <2>7 DEF ReapInv
<1> QED BY <1>1, <1>2, <1>3, <1>4, <1>5, <1>6, <1>7 DEF Tick

\* Every step of a call preserves the invariant: a pick takes a member.
LEMMA CallReap ==
  ASSUME TypeOK, ReapInv, NEW c \in Calls, HandleToolsCall(c)
  PROVE  ReapInv'
<1>T. /\ call \in [Calls -> [pc : CallPC, r : ReplicaID \cup {NoID}]]
      /\ tick' = tick
  BY DEF TypeOK, CallTypes, HandleToolsCall, Route, Retry, CallRejected, CallBegins, CallReturns,
     ColdEnter, ColdSpawnFails, ColdStamp, ColdAdd
<1>1. ASSUME NEW r \in HealthyMembers, UNCHANGED <<replicas, nextID, reaped>>,
             call' = [call EXCEPT ![c] = [pc |-> "picked", r |-> r]]
      PROVE  ReapInv'
  <2>1. r \in Members /\ Members' = Members
    BY <1>1 DEF HealthyMembers, Members
  <2>2. /\ call'[c].pc = "picked" /\ call'[c].r = r
        /\ \A d \in Calls \ {c} : call'[d] = call[d]
    BY <1>1, <1>T
  <2>3. IdsMinted'
    BY <1>1, <1>T, <2>1, <2>2 DEF ReapInv, IdsMinted
  <2>4. VictimHeld'
    BY <1>1, <1>T, <2>1, <2>2 DEF ReapInv, VictimHeld
  <2>5. SetSound' /\ NoCallOnReaped'
    BY <1>1, <2>1, <2>2 DEF ReapInv, SetSound, NoCallOnReaped
  <2> QED BY <2>3, <2>4, <2>5 DEF ReapInv
<1>2. ASSUME UNCHANGED <<replicas, nextID, reaped>>, NEW pc,
             pc \in InUse => call[c].pc \in InUse, GoCall(c, pc)
      PROVE  ReapInv'
  BY <1>2, <1>T, ReapFrame DEF GoCall
<1>3. ASSUME UNCHANGED <<replicas, nextID, reaped>>, EndCall(c)
      PROVE  ReapInv'
  BY <1>3, <1>T, ReapFrame DEF EndCall, IdleCall, InUse
<1>4. CASE Route(c)
  <2>1. UNCHANGED <<replicas, nextID, reaped>>
    BY <1>4 DEF Route, clientVars
  <2> QED BY <1>4, <2>1, <1>1, <1>2 DEF Route, InUse
<1>5. CASE Retry(c)
  <2>1. UNCHANGED <<replicas, nextID, reaped>>
    BY <1>5 DEF Retry, clientVars
  <2> QED BY <1>5, <2>1, <1>1, <1>3 DEF Retry
<1>6. CASE CallBegins(c)
  BY <1>6, <1>2 DEF CallBegins, InUse, clientVars
<1>7. CASE CallReturns(c) \/ CallRejected(c)
  BY <1>7, <1>3 DEF CallReturns, CallRejected, setVars, clientVars
<1>8. CASE ColdEnter(c) \/ ColdStamp(c)
  BY <1>8, <1>2 DEF ColdEnter, ColdStamp, InUse, setVars, clientVars
<1>9. CASE ColdSpawnFails(c)
  BY <1>9, <1>3 DEF ColdSpawnFails, setVars, clientVars
<1>10. CASE ColdAdd(c)
  <2>1. /\ \A d \in Calls \ {c} : call'[d] = call[d]
        /\ call'[c].pc = "retry"
    BY <1>10, <1>T DEF ColdAdd, GoCall
  <2> QED BY <1>10, <2>1, <1>T, ReapAdd DEF ColdAdd, InUse
<1> QED BY <1>4, <1>5, <1>6, <1>7, <1>8, <1>9, <1>10 DEF HandleToolsCall

\* Every step preserves the invariant.
LEMMA NextReap ==
  ASSUME GraceCovers, \A u, v \in Tickers : u = v,
         TypeOK, InFlightExact, ReapInv, [Next]_vars
  PROVE  ReapInv'
<1>1. CASE Monitor \/ Environment \/ UNCHANGED vars
  <2>1. UNCHANGED <<replicas, nextID, reaped, tick, call>>
    BY <1>1 DEF Monitor, MonSnapshot, MonEnd, MonPing, MonUp, MonDown, MonReconnect,
       Environment, UpdatePolicy, CooldownElapses, Crash, vars, setVars, clientVars
  <2> QED BY <2>1, ReapFrame
<1> QED BY <1>1, TickReap, CallReap DEF Next

\* drainAndReap: with one ticker, and a grace poll that outlasts the window
\* between Pick and IncInFlight, no call runs on, or is about to start on, a
\* client that the scaler has closed; and the set lists no reaped replica.
\* The statement is the inductive invariant that has both as conjuncts.
THEOREM ReapIsSafe ==
  ASSUME GraceCovers, \A u, v \in Tickers : u = v
  PROVE  Spec => []ReapInv
<1>1. Init => TypeOK /\ InFlightExact /\ ReapInv
  BY InitType, InitInFlight, InitReap
<1>2. TypeOK /\ InFlightExact /\ ReapInv /\ [Next]_vars
         => (TypeOK /\ InFlightExact /\ ReapInv)'
  BY NextType, NextInFlight, NextReap
<1> QED BY <1>1, <1>2, PTL DEF Spec
-----------------------------------------------------------------------------
(* ReplicaPool implements ReplicaLife.                                      *)

\* Each phase, by what the gateway knows of the id.
LEMMA PhaseIs ==
  ASSUME NEW r \in ReplicaID
  PROVE  /\ r \in reaped => PhaseOf(r) = "gone"
         /\ r \in Members /\ r \notin reaped => PhaseOf(r) = "serving"
         /\ r \notin Members \cup reaped /\ r < nextID => PhaseOf(r) = "leaving"
         /\ r \notin Members \cup reaped /\ ~(r < nextID) => PhaseOf(r) = "unborn"
BY DEF PhaseOf

\* The same after a step.
LEMMA PhaseWillBe ==
  ASSUME NEW r \in ReplicaID
  PROVE  /\ r \in reaped' => PhaseOf(r)' = "gone"
         /\ r \in Members' /\ r \notin reaped' => PhaseOf(r)' = "serving"
         /\ r \notin Members' \cup reaped' /\ r < nextID' => PhaseOf(r)' = "leaving"
         /\ r \notin Members' \cup reaped' /\ ~(r < nextID') => PhaseOf(r)' = "unborn"
BY DEF PhaseOf

\* A step that leaves the set, the minted ids and the reaped ones alone.
LEMMA PhaseStays ==
  ASSUME UNCHANGED <<replicas, nextID, reaped>>
  PROVE  \A r \in ReplicaID : PhaseOf(r)' = PhaseOf(r)
BY DEF PhaseOf, Members

\* A step that changes neither the phases nor the replica of a call.
LEMMA LifeStutters ==
  ASSUME UNCHANGED <<replicas, nextID, reaped>>,
         \A c \in Calls : On(c)' = On(c)
  PROVE  UNCHANGED Abstract!vars
BY PhaseStays DEF Abstract!vars

\* One replica changes phase and no call moves.
LEMMA LifeEnters ==
  ASSUME NEW r \in ReplicaID, NEW from, NEW to,
         PhaseOf(r) = from, PhaseOf(r)' = to,
         \A s \in ReplicaID \ {r} : PhaseOf(s)' = PhaseOf(s),
         \A c \in Calls : On(c)' = On(c)
  PROVE  Abstract!Enter(r, from, to)
<1> DEFINE st == [s \in ReplicaID |-> PhaseOf(s)]
           o == [c \in Calls |-> On(c)]
<1>1. st[r] = from /\ st' = [st EXCEPT ![r] = to]
  OBVIOUS
<1>2. o' = o
  OBVIOUS
<1> HIDE DEF st, o
<1> QED BY <1>1, <1>2 DEF Abstract!Enter, st, o

\* One call moves.
LEMMA OnMoves ==
  ASSUME NEW c \in Calls, NEW v, On(c)' = v, \A d \in Calls \ {c} : On(d)' = On(d)
  PROVE  [d \in Calls |-> On(d)]' = [[d \in Calls |-> On(d)] EXCEPT ![c] = v]
OBVIOUS

\* One call takes a replica, or drops it, and no phase changes.
LEMMA LifeTakes ==
  ASSUME NEW c \in Calls, NEW r \in ReplicaID,
         UNCHANGED <<replicas, nextID, reaped>>,
         On(c) = NoID, PhaseOf(r) = "serving", On(c)' = r,
         \A d \in Calls \ {c} : On(d)' = On(d)
  PROVE  Abstract!Take(c, r)
<1> DEFINE st == [s \in ReplicaID |-> PhaseOf(s)]
           o == [d \in Calls |-> On(d)]
<1>1. st[r] = "serving" /\ st' = st
  BY PhaseStays
<1>2. o[c] = NoID
  OBVIOUS
<1>3. o' = [o EXCEPT ![c] = r]
  BY OnMoves
<1> HIDE DEF st, o
<1> QED BY <1>1, <1>2, <1>3 DEF Abstract!Take, st, o

LEMMA LifeDrops ==
  ASSUME NEW c \in Calls, UNCHANGED <<replicas, nextID, reaped>>,
         On(c) # NoID, On(c)' = NoID,
         \A d \in Calls \ {c} : On(d)' = On(d)
  PROVE  Abstract!Drop(c)
<1> DEFINE st == [s \in ReplicaID |-> PhaseOf(s)]
           o == [d \in Calls |-> On(d)]
<1>1. st' = st
  BY PhaseStays
<1>2. o[c] # NoID
  OBVIOUS
<1>3. o' = [o EXCEPT ![c] = NoID]
  BY OnMoves
<1> HIDE DEF st, o
<1> QED BY <1>1, <1>2, <1>3 DEF Abstract!Drop, st, o

\* A registered pool starts empty and unused.
LEMMA InitLife == Init => Abstract!Init
<1> SUFFICES ASSUME Init PROVE Abstract!Init
  OBVIOUS
<1>1. Members = {} /\ reaped = {} /\ nextID = 0
  BY DEF Init, Members, ToSet
<1>2. \A r \in ReplicaID : PhaseOf(r) = "unborn"
  BY <1>1, PhaseIs DEF ReplicaID
<1>3. \A c \in Calls : On(c) = NoID
  BY DEF Init, IdleCall, On
<1> QED BY <1>2, <1>3 DEF Abstract!Init, Abstract!ReplicaID, ReplicaID

\* A spawned client joins: every lower id was minted before.
LEMMA LifeJoins ==
  ASSUME TypeOK, ReapInv, AddReplica, reaped' = reaped,
         \A c \in Calls : On(c)' = On(c)
  PROVE  \E r \in ReplicaID : Abstract!Join(r)
<1>T. /\ replicas \in Seq(ReplicaID) /\ nextID \in ReplicaID
      /\ replicas' = Append(replicas, nextID) /\ nextID' = nextID + 1
      /\ ReplicaID \subseteq Int /\ nextID \in Int
  BY PoolAssumption DEF TypeOK, SetTypes, AddReplica, ReplicaID
<1>1. nextID \notin Members \cup reaped
  BY <1>T DEF ReapInv, IdsMinted
<1>2. Members' = Members \cup {nextID}
  BY <1>T, <1>1, AppendElems DEF ReapInv, SetSound, Members
<1>p. PICK n : n = nextID
  OBVIOUS
<1>3. PhaseOf(n) = "unborn" /\ PhaseOf(n)' = "serving"
  BY <1>T, <1>p, <1>1, <1>2, PhaseIs, PhaseWillBe
<1>4. \A s \in ReplicaID \ {n} : PhaseOf(s)' = PhaseOf(s)
  <2> SUFFICES ASSUME NEW s \in ReplicaID, s # n PROVE PhaseOf(s)' = PhaseOf(s)
    OBVIOUS
  <2>1. (s \in Members' <=> s \in Members) /\ reaped' = reaped
    BY <1>p, <1>2
  <2>2. s < nextID' <=> s < nextID
    BY <1>T, <1>p
  <2> QED BY <2>1, <2>2 DEF PhaseOf
<1>5. \A s \in ReplicaID : s < n => PhaseOf(s) # "unborn"
  BY <1>p, PhaseIs
<1>6. Abstract!Enter(n, "unborn", "serving")
  BY <1>T, <1>p, <1>3, <1>4, LifeEnters
<1> QED BY <1>T, <1>p, <1>5, <1>6 DEF Abstract!Join, Abstract!ReplicaID, ReplicaID

\* Every step of the only ticker is a step of the pool's life, or none.
LEMMA TickLife ==
  ASSUME TypeOK, ReapInv, \A u, v \in Tickers : u = v, NEW t \in Tickers, Tick(t)
  PROVE  [Abstract!Next]_(Abstract!vars)
<1> DEFINE me == tick[t]
<1>T. /\ replicas \in Seq(ReplicaID) /\ reaped \subseteq ReplicaID
      /\ Members \subseteq ReplicaID /\ nextID \in Int /\ ReplicaID \subseteq Int
  BY MembersType DEF TypeOK, SetTypes, ClientTypes, ReplicaID
<1>p. PICK v : v = me.victim
  OBVIOUS
<1>v. me.pc \in Holding => v \in ReplicaID /\ v < nextID
  BY <1>p DEF TypeOK, TickTypes, ReapInv, IdsMinted, Holding
<1>C. \A c \in Calls : On(c)' = On(c)
  BY DEF On, Tick, TickSample, TickCount, UpGate, UpLock, UpSpawn, UpSpawnFails,
     DownGate, RemoveVictim, DrainPoll, DrainAborts, ReapVictim
<1>N. ASSUME NEW r \in ReplicaID,
             \/ Abstract!Join(r) \/ Abstract!Leave(r) \/ Abstract!Return(r) \/ Abstract!Reap(r)
      PROVE  Abstract!Next
  BY <1>N DEF Abstract!Next, Abstract!ReplicaID, ReplicaID
<1>1. CASE \/ TickSample(t) \/ TickCount(t) \/ UpGate(t) \/ UpLock(t) \/ UpSpawnFails(t)
           \/ DownGate(t) \/ DrainPoll(t)
  <2>1. UNCHANGED <<replicas, nextID, reaped>>
    BY <1>1 DEF TickSample, TickCount, UpGate, UpLock, UpSpawnFails, DownGate, DrainPoll,
       setVars, clientVars
  <2> QED BY <2>1, <1>C, LifeStutters
<1>2. CASE UpSpawn(t)
  <2>1. \E r \in ReplicaID : Abstract!Join(r)
    BY <1>2, <1>C, LifeJoins DEF UpSpawn
  <2> QED BY <2>1, <1>N
<1>3. CASE RemoveVictim(t)
  <2>1. me.pc = "remove" /\ v \in Members /\ v \notin reaped
    BY <1>3, <1>p DEF RemoveVictim, ReapInv, VictimHeld, SetSound
  <2>2. replicas' = Without(replicas, v) /\ nextID' = nextID /\ reaped' = reaped
    BY <1>3, <1>p, <2>1 DEF RemoveVictim, clientVars
  <2>3. Members' = Members \ {v}
    BY <2>1, <2>2, <1>T, WithoutElems DEF ReapInv, SetSound, Members
  <2>4. v \in ReplicaID /\ v < nextID
    BY <2>1, <1>v DEF Holding
  <2>5. PhaseOf(v) = "serving" /\ PhaseOf(v)' = "leaving"
    BY <2>1, <2>2, <2>3, <2>4, PhaseIs, PhaseWillBe
  <2>6. \A s \in ReplicaID \ {v} : PhaseOf(s)' = PhaseOf(s)
    BY <2>2, <2>3 DEF PhaseOf
  <2>7. Abstract!Leave(v)
    BY <2>4, <2>5, <2>6, <1>C, LifeEnters DEF Abstract!Leave
  <2> QED BY <2>4, <2>7, <1>N
<1>4. CASE DrainAborts(t)
  <2>1. me.pc = "drain" /\ v \notin Members \cup reaped
    BY <1>4, <1>p DEF DrainAborts, ReapInv, VictimHeld
  <2>2. replicas' = Append(replicas, v) /\ nextID' = nextID /\ reaped' = reaped
    BY <1>4, <1>p, <2>1 DEF DrainAborts, ReinsertReplica, clientVars
  <2>4. v \in ReplicaID /\ v < nextID
    BY <2>1, <1>v DEF Holding
  <2>3. Members' = Members \cup {v}
    BY <2>1, <2>2, <2>4, <1>T, AppendElems DEF ReapInv, SetSound, Members
  <2>5. PhaseOf(v) = "leaving" /\ PhaseOf(v)' = "serving"
    BY <2>1, <2>2, <2>3, <2>4, PhaseIs, PhaseWillBe
  <2>6. \A s \in ReplicaID \ {v} : PhaseOf(s)' = PhaseOf(s)
    BY <2>2, <2>3 DEF PhaseOf
  <2>7. Abstract!Return(v)
    BY <2>4, <2>5, <2>6, <1>C, LifeEnters DEF Abstract!Return
  <2> QED BY <2>4, <2>7, <1>N
<1>5. CASE ReapVictim(t)
  <2>1. /\ me.pc = "reap" /\ v \notin Members \cup reaped
        /\ \A c \in Calls : call[c].pc \in InUse => call[c].r # v
    BY <1>5, <1>p DEF ReapVictim, ReapInv, VictimHeld, InUse
  <2>2. replicas' = replicas /\ nextID' = nextID /\ reaped' = reaped \cup {v}
    BY <1>5, <1>p DEF ReapVictim, setVars
  <2>3. Members' = Members
    BY <2>2 DEF Members
  <2>4. v \in ReplicaID /\ v < nextID
    BY <2>1, <1>v DEF Holding
  <2>5. PhaseOf(v) = "leaving" /\ PhaseOf(v)' = "gone"
    BY <2>1, <2>2, <2>4, PhaseIs, PhaseWillBe
  <2>6. \A s \in ReplicaID \ {v} : PhaseOf(s)' = PhaseOf(s)
    BY <2>2, <2>3 DEF PhaseOf
  <2>7. \A c \in Calls : On(c) # v
    BY <2>1, <2>4 DEF On, InUse, NoID, ReplicaID
  <2>8. Abstract!Reap(v)
    BY <2>4, <2>5, <2>6, <2>7, <1>C, LifeEnters DEF Abstract!Reap
  <2> QED BY <2>4, <2>8, <1>N
<1> QED BY <1>1, <1>2, <1>3, <1>4, <1>5 DEF Tick

\* So is every step of a call: it is given a member, which is not reaped.
LEMMA CallLife ==
  ASSUME TypeOK, ReapInv, NEW c \in Calls, HandleToolsCall(c)
  PROVE  [Abstract!Next]_(Abstract!vars)
<1>T. /\ call \in [Calls -> [pc : CallPC, r : ReplicaID \cup {NoID}]]
      /\ \A d \in Calls : call[d].pc \in InUse => call[d].r \in ReplicaID
      /\ Members \subseteq ReplicaID /\ NoID \notin ReplicaID
  BY MembersType DEF TypeOK, CallTypes, InUse, NoID, ReplicaID
<1>N. ASSUME NEW r \in ReplicaID, Abstract!Join(r) \/ Abstract!Take(c, r) \/ Abstract!Drop(c)
      PROVE  Abstract!Next
  BY <1>N DEF Abstract!Next, Abstract!ReplicaID, ReplicaID
<1>1. ASSUME NEW r \in HealthyMembers, UNCHANGED <<replicas, nextID, reaped>>,
             call[c].pc \notin InUse,
             call' = [call EXCEPT ![c] = [pc |-> "picked", r |-> r]]
      PROVE  Abstract!Next
  <2>1. r \in Members /\ r \in ReplicaID /\ r \notin reaped
    BY <1>T DEF HealthyMembers, ReapInv, SetSound
  <2>2. On(c) = NoID /\ On(c)' = r /\ \A d \in Calls \ {c} : On(d)' = On(d)
    BY <1>1, <1>T DEF On, InUse
  <2>3. PhaseOf(r) = "serving"
    BY <2>1, PhaseIs
  <2> QED BY <1>1, <1>N, <2>1, <2>2, <2>3, LifeTakes
<1>2. ASSUME UNCHANGED <<replicas, nextID, reaped>>, EndCall(c), call[c].pc \in InUse
      PROVE  Abstract!Next
  <2>1. On(c) # NoID /\ On(c)' = NoID /\ \A d \in Calls \ {c} : On(d)' = On(d)
    BY <1>2, <1>T DEF On, InUse, EndCall, IdleCall
  <2> QED BY <1>2, <1>N, <1>T, <2>1, LifeDrops
<1>3. ASSUME UNCHANGED <<replicas, nextID, reaped>>, EndCall(c), call[c].pc \notin InUse
      PROVE  UNCHANGED Abstract!vars
  <2>1. \A d \in Calls : On(d)' = On(d)
    BY <1>3, <1>T DEF On, InUse, EndCall, IdleCall
  <2> QED BY <1>3, <2>1, LifeStutters
<1>g. ASSUME NEW pc, GoCall(c, pc), pc \in InUse <=> call[c].pc \in InUse
      PROVE  \A d \in Calls : On(d)' = On(d)
  BY <1>g, <1>T DEF On, InUse, GoCall
<1>4. ASSUME UNCHANGED <<replicas, nextID, reaped>>, NEW pc,
             pc \in InUse <=> call[c].pc \in InUse, GoCall(c, pc)
      PROVE  UNCHANGED Abstract!vars
  BY <1>4, <1>g, LifeStutters
<1>5. CASE Route(c)
  <2>1. UNCHANGED <<replicas, nextID, reaped>> /\ call[c].pc = "idle"
    BY <1>5 DEF Route, clientVars
  <2> QED BY <1>5, <2>1, <1>1, <1>4 DEF Route, InUse
<1>6. CASE Retry(c)
  <2>1. UNCHANGED <<replicas, nextID, reaped>> /\ call[c].pc = "retry"
    BY <1>6 DEF Retry, clientVars
  <2> QED BY <1>6, <2>1, <1>1, <1>3 DEF Retry, InUse
<1>7. CASE CallBegins(c)
  BY <1>7, <1>4 DEF CallBegins, InUse, clientVars
<1>8. CASE CallReturns(c) \/ CallRejected(c)
  BY <1>8, <1>2 DEF CallReturns, CallRejected, InUse, setVars, clientVars
<1>9. CASE ColdEnter(c) \/ ColdStamp(c)
  BY <1>9, <1>4 DEF ColdEnter, ColdStamp, InUse, setVars, clientVars
<1>10. CASE ColdSpawnFails(c)
  BY <1>10, <1>3 DEF ColdSpawnFails, InUse, setVars, clientVars
<1>11. CASE ColdAdd(c)
  <2>1. \A d \in Calls : On(d)' = On(d)
    BY <1>11, <1>g DEF ColdAdd, InUse
  <2>2. \E r \in ReplicaID : Abstract!Join(r)
    BY <1>11, <2>1, LifeJoins DEF ColdAdd
  <2> QED BY <2>2, <1>N
<1> QED BY <1>5, <1>6, <1>7, <1>8, <1>9, <1>10, <1>11 DEF HandleToolsCall

\* Every step maps to a step or a stutter.
LEMMA NextLife ==
  ASSUME \A u, v \in Tickers : u = v, TypeOK, ReapInv, [Next]_vars
  PROVE  [Abstract!Next]_(Abstract!vars)
<1>1. CASE Monitor \/ Environment \/ UNCHANGED vars
  <2>1. UNCHANGED <<replicas, nextID, reaped, call>>
    BY <1>1 DEF Monitor, MonSnapshot, MonEnd, MonPing, MonUp, MonDown, MonReconnect,
       Environment, UpdatePolicy, CooldownElapses, Crash, vars, setVars, clientVars
  <2> QED BY <2>1, LifeStutters DEF On
<1> QED BY <1>1, TickLife, CallLife DEF Next

\* With one ticker, and a grace poll that outlasts the window between Pick and
\* IncInFlight, the set, drainAndReap and HandleToolsCall together implement
\* ReplicaLife: whatever crashes, reconnects, aborted drains and cold starts do in
\* between, a call is only given to a replica that serves, a client is closed only
\* when nobody is on it, and an id lives once.
THEOREM RefinesReplicaLife ==
  ASSUME GraceCovers, \A u, v \in Tickers : u = v
  PROVE  Spec => ImplementsReplicaLife
<1>1. Init => TypeOK /\ InFlightExact /\ ReapInv
  BY InitType, InitInFlight, InitReap
<1>2. TypeOK /\ InFlightExact /\ ReapInv /\ [Next]_vars
         => (TypeOK /\ InFlightExact /\ ReapInv)'
  BY NextType, NextInFlight, NextReap
<1>3. TypeOK /\ ReapInv /\ [Next]_vars => [Abstract!Next]_(Abstract!vars)
  BY NextLife
<1> QED BY <1>1, <1>2, <1>3, InitLife, PTL DEF Spec, ImplementsReplicaLife, Abstract!Spec
-----------------------------------------------------------------------------
(* The floor of a scale-down                                               *)

\* A scale-down that has not removed its victim yet.
ScalingDown == {"down_load", "down_idle", "remove"}

\* With one ticker, the set has at least the replicas that the tick counted
\* until the tick itself removes one, and it counted more than the floor.
FloorInv ==
  \A t \in Tickers :
     /\ tick[t].pc \in ScalingDown => tick[t].cur <= Len(replicas)
     /\ tick[t].pc = "remove" => tick[t].floor < tick[t].cur

\* No more replicas are healthy than the slice has places.
LEMMA HealthyAtMost ==
  ASSUME SetTypes
  PROVE  HealthyCount <= Len(replicas) /\ Len(replicas) \in Nat
<1> DEFINE n == Len(replicas)
<1>1. n \in Nat /\ replicas \in [1 .. n -> ReplicaID]
  BY DEF SetTypes
<1>2. replicas \in Surjection(1 .. n, Members)
  BY <1>1 DEF Surjection, Members, ToSet
<1>3. IsFiniteSet(1 .. n) /\ Cardinality(1 .. n) = n
  BY <1>1, FS_Interval
<1>4. IsFiniteSet(Members) /\ Cardinality(Members) <= n
  BY <1>2, <1>3, FS_Surjection
<1>5. HealthyMembers \subseteq Members
  BY DEF HealthyMembers
<1>6. Cardinality(HealthyMembers) <= Cardinality(Members)
  BY <1>4, <1>5, FS_Subset
<1>7. Cardinality(HealthyMembers) \in Nat /\ Cardinality(Members) \in Nat
  BY <1>4, <1>5, FS_Subset, FS_CardinalityType
<1> QED BY <1>1, <1>4, <1>6, <1>7 DEF HealthyCount

\* A step that takes nothing from the set, in which no tick starts or goes on
\* scaling down.
LEMMA FloorFrame ==
  ASSUME TypeOK, FloorInv, Len(replicas') \in Nat, Len(replicas') >= Len(replicas),
         \A t \in Tickers : tick'[t].pc \in ScalingDown => tick'[t] = tick[t]
  PROVE  FloorInv'
<1>1. Len(replicas) \in Nat /\ \A t \in Tickers : tick[t].cur \in Nat
  BY DEF TypeOK, SetTypes, TickTypes, TickRec
<1> QED BY <1>1 DEF FloorInv, ScalingDown

\* The steps of the only ticker: TickCount counts, DownGate compares.
LEMMA TickFloor ==
  ASSUME TypeOK, FloorInv, \A u, v \in Tickers : u = v, NEW t \in Tickers, Tick(t)
  PROVE  FloorInv'
<1> DEFINE me == tick[t]
<1>T. /\ tick \in [Tickers -> TickRec] /\ me \in TickRec /\ Tickers = {t}
      /\ SetTypes
  BY DEF TypeOK, TickTypes
<1>E. ASSUME EndTick(t) PROVE tick'[t].pc \notin ScalingDown
  BY <1>E, <1>T DEF EndTick, FreshTick, ScalingDown
<1>N. ASSUME tick'[t].pc \notin ScalingDown PROVE FloorInv'
  BY <1>N, <1>T DEF FloorInv, ScalingDown
<1>1. CASE TickSample(t) \/ UpGate(t) \/ UpLock(t) \/ UpSpawnFails(t)
  BY <1>1, <1>T, <1>E, <1>N DEF TickSample, UpGate, UpLock, UpSpawnFails, TickRec, ScalingDown
<1>2. CASE UpSpawn(t)
  BY <1>2, <1>T, <1>E, <1>N DEF UpSpawn, TickRec, ScalingDown
<1>3. CASE DrainPoll(t) \/ DrainAborts(t) \/ ReapVictim(t)
  BY <1>3, <1>T, <1>E, <1>N DEF DrainPoll, DrainAborts, ReapVictim, TickRec, ScalingDown
<1>4. CASE RemoveVictim(t)
  BY <1>4, <1>T, <1>E, <1>N DEF RemoveVictim, TickRec, ScalingDown
<1>5. CASE TickCount(t)
  <2>1. replicas' = replicas
    BY <1>5 DEF TickCount, setVars
  <2>2. \/ EndTick(t)
        \/ tick'[t].pc \in {"down_idle", "up", "down_load"} /\ tick'[t].cur = HealthyCount
    BY <1>5, <1>T DEF TickCount, TickRec
  <2>3. HealthyCount <= Len(replicas)
    BY <1>T, HealthyAtMost
  <2> QED BY <2>1, <2>2, <2>3, <1>T, <1>E, <1>N DEF FloorInv, ScalingDown
<1>6. CASE DownGate(t)
  <2>1. replicas' = replicas
    BY <1>6 DEF DownGate, setVars
  <2>2. me.pc \in ScalingDown /\ me.cur <= Len(replicas)
    BY <1>6 DEF DownGate, FloorInv, ScalingDown
  <2>3. CASE EndTick(t)
    BY <2>3, <1>E, <1>N
  <2>4. ASSUME NEW r \in Members, me.cur > Floor(t),
               tick' = [tick EXCEPT ![t].pc = "remove", ![t].victim = r, ![t].floor = Floor(t)]
        PROVE  FloorInv'
    <3>1. tick'[t].pc = "remove" /\ tick'[t].cur = me.cur /\ tick'[t].floor = Floor(t)
      BY <2>4, <1>T DEF TickRec
    <3> QED BY <2>1, <2>2, <2>4, <3>1, <1>T DEF FloorInv
  <2> QED BY <1>6, <2>3, <2>4 DEF DownGate
<1> QED BY <1>1, <1>2, <1>3, <1>4, <1>5, <1>6 DEF Tick

\* Everybody else only adds to the set.
LEMMA NextFloor ==
  ASSUME \A u, v \in Tickers : u = v, TypeOK, FloorInv, [Next]_vars
  PROVE  FloorInv'
<1>1. replicas \in Seq(ReplicaID)
  BY DEF TypeOK, SetTypes
<1>2. CASE Monitor \/ Environment \/ UNCHANGED vars
  <2>1. UNCHANGED <<replicas, tick>>
    BY <1>2 DEF Monitor, MonSnapshot, MonEnd, MonPing, MonUp, MonDown, MonReconnect,
       Environment, UpdatePolicy, CooldownElapses, Crash, vars, setVars
  <2> QED BY <1>1, <2>1, FloorFrame
<1>3. ASSUME NEW c \in Calls, HandleToolsCall(c) PROVE FloorInv'
  <2>1. tick' = tick /\ (replicas' = replicas \/ ColdAdd(c))
    BY <1>3 DEF HandleToolsCall, Route, Retry, CallRejected, CallBegins, CallReturns,
       ColdEnter, ColdSpawnFails, ColdStamp, ColdAdd, setVars
  <2>2. ASSUME ColdAdd(c) PROVE Len(replicas') = Len(replicas) + 1
    BY <1>1, <2>2 DEF ColdAdd, AddReplica
  <2>3. Len(replicas') \in Nat /\ Len(replicas') >= Len(replicas)
    BY <1>1, <2>1, <2>2
  <2> QED BY <2>1, <2>3, FloorFrame
<1> QED BY <1>2, <1>3, TickFloor DEF Next

\* The step that removes the victim takes one place of the slice.
LEMMA RemovalKeepsFloor ==
  ASSUME TypeOK, FloorInv, [Next]_vars
  PROVE  [\A t \in Tickers : (tick[t].pc = "remove" /\ tick'[t].pc = "drain")
                                => Len(replicas') >= tick[t].floor]_vars
<1> SUFFICES ASSUME NEW t \in Tickers, tick[t].pc = "remove", tick'[t].pc = "drain"
             PROVE  Len(replicas') >= tick[t].floor
  OBVIOUS
<1>T. tick \in [Tickers -> TickRec] /\ tick[t] \in TickRec /\ replicas \in Seq(ReplicaID)
  BY DEF TypeOK, TickTypes, SetTypes
<1>1. PICK u \in Tickers : Tick(u)
  <2>1. tick' # tick
    BY <1>T
  <2> QED BY <2>1 DEF Next, HandleToolsCall, Route, Retry, CallRejected, CallBegins, CallReturns,
     ColdEnter, ColdSpawnFails, ColdStamp, ColdAdd,
     Monitor, MonSnapshot, MonEnd, MonPing, MonUp, MonDown, MonReconnect,
     Environment, UpdatePolicy, CooldownElapses, Crash, vars
<1>2. \A v \in Tickers \ {u} : tick'[v] = tick[v]
  BY <1>T, <1>1 DEF Tick, TickSample, TickCount, UpGate, UpLock, UpSpawn, UpSpawnFails,
     DownGate, RemoveVictim, DrainPoll, DrainAborts, ReapVictim, EndTick
<1>3. u = t
  BY <1>2
<1>4. RemoveVictim(t)
  BY <1>1, <1>3 DEF Tick, TickSample, TickCount, UpGate, UpLock, UpSpawn, UpSpawnFails,
     DownGate, DrainPoll, DrainAborts, ReapVictim
<1>5. tick[t].victim \in Members /\ replicas' = Without(replicas, tick[t].victim)
  BY <1>4, <1>T DEF RemoveVictim, EndTick, FreshTick
<1>6. Len(replicas') = Len(replicas) - 1
  <2>1. Len(replicas) - 1 \in Nat /\ \E i \in 1 .. Len(replicas) : replicas[i] = tick[t].victim
    BY <1>5, <1>T DEF Members, ToSet
  <2> QED BY <1>5, <2>1, <1>T DEF Without
<1>7. tick[t].cur <= Len(replicas) /\ tick[t].floor < tick[t].cur
  BY DEF FloorInv, ScalingDown
<1>8. tick[t].cur \in Nat /\ tick[t].floor \in Nat /\ Len(replicas) \in Nat
  BY <1>T DEF TickRec
<1> QED BY <1>6, <1>7, <1>8

\* scaleDown: with one ticker, a scale-down leaves at least the floor it was
\* decided for, Min + WarmPool on the load path, however many calls, cold
\* starts, health checks and policy changes come between its count and its
\* removal.
THEOREM FloorIsKept ==
  ASSUME \A u, v \in Tickers : u = v
  PROVE  Spec => FloorKept
<1>1. Init => FloorInv
  BY DEF Init, FreshTick, FloorInv, ScalingDown
<1>2. TypeOK /\ FloorInv /\ [Next]_vars => FloorInv'
  BY NextFloor
<1>3. TypeOK /\ FloorInv /\ [Next]_vars =>
         [\A t \in Tickers : (tick[t].pc = "remove" /\ tick'[t].pc = "drain")
                                => Len(replicas') >= tick[t].floor]_vars
  BY RemovalKeepsFloor
<1> QED BY InitType, NextType, <1>1, <1>2, <1>3, PTL DEF Spec, FloorKept
=============================================================================
