----------------------------- MODULE ReplicaPool -----------------------------
(***************************************************************************)
(* One autoscaled replica set of the gateway: the ReplicaSet itself        *)
(* (pkg/mcp/replica_set.go), the Autoscaler that ticks on it               *)
(* (pkg/mcp/autoscaler.go), the process spawner it uses                    *)
(* (pkg/controller/spawn_process.go), the health monitor                   *)
(* (Gateway.checkHealth) and the tool calls that are dispatched to it      *)
(* (Gateway.HandleToolsCall).  Every goroutine is a process of the model:  *)
(*                                                                         *)
(*   - Tickers: "loop" is the goroutine of StartAutoscaler, which ticks    *)
(*     for ever; "init" is the one synchronous Tick of RegisterAutoscaler, *)
(*     which runs on the registering goroutine while the loop is already   *)
(*     able to see the scaler;                                             *)
(*   - Calls: goroutines inside HandleToolsCall;                           *)
(*   - the health monitor, which works on a snapshot of the set.           *)
(*                                                                         *)
(* A step of the model is what the code does under one lock acquisition or *)
(* between two of them.  Clock time is abstracted to what the code asks of *)
(* it: "is the cooldown still running" is a Boolean that a step of the     *)
(* environment clears, and the rolling window's verdict is a choice (the   *)
(* module ScaleWindow models the window with its clock).                   *)
(***************************************************************************)
EXTENDS Integers, FiniteSets, SequencesExt

CONSTANTS
    Calls,          \* goroutines inside HandleToolsCall
    Tickers,        \* {"loop"} or {"init", "loop"}
    Policies,       \* the autoscale policies the stack may set
    Dispatch,       \* the set's replica_policy
    MaxID,          \* bound on the ids ever minted (each Spawn mints one)
    RRPeriod,       \* the round-robin cursor is kept modulo this
    MonitorOn,      \* whether the health monitor runs
    GraceCovers,    \* timing: Pick ... IncInFlight fits in one drain poll
    NoThread        \* nobody holds spawnMu

ReplicaID == 0 .. MaxID - 1

\* What config.validateAutoscale and RegisterAutoscaler accept.
ValidPolicy(p) ==
    /\ p.min \in Nat /\ p.max \in Nat \ {0} /\ p.warm \in Nat
    /\ p.target \in Nat \ {0} /\ p.idle \in BOOLEAN
    /\ p.min + p.warm <= p.max
    /\ ~p.idle => p.min >= 1

ASSUME PoolAssumption ==
    /\ Tickers \subseteq {"init", "loop"}
    /\ Calls \cap Tickers = {}
    /\ NoThread \notin Calls \cup Tickers
    /\ IsFiniteSet(Calls)
    /\ MaxID \in Nat /\ RRPeriod \in Nat \ {0}
    /\ Dispatch \in {"round-robin", "least-connections"}
    /\ MonitorOn \in BOOLEAN /\ GraceCovers \in BOOLEAN
    /\ \A p \in Policies : ValidPolicy(p)

VARIABLES
    replicas,   \* the set's slice: a sequence of ids, in insertion order
    nextID,     \* ReplicaSet.nextID
    rrCursor,   \* ReplicaSet.rrCursor, modulo RRPeriod
    healthy,    \* Replica.healthy
    inFlight,   \* Replica.inFlight
    started,    \* ids in the order of Replica.startedAt, oldest first
    proc,       \* the ProcessClient behind each id, see ProcState
    backoff,    \* Replica.restart has a scheduled next attempt
    reaped,     \* ids the spawner has reaped (history)
    policy,     \* Autoscaler.policy
    spawnMu,    \* holder of Autoscaler.spawnMu
    upCool,     \* now - lastScaleUpAt < ScaleUpAfter
    downCool,   \* now - lastScaleDownAt < ScaleDownAfter
    tick,       \* the local state of each ticker
    call,       \* the local state of each call
    mon         \* the local state of the health monitor

setVars == <<replicas, nextID, rrCursor, healthy, inFlight, started>>
clientVars == <<proc, backoff, reaped>>
scalerVars == <<policy, spawnMu, upCool, downCool>>
vars == <<setVars, clientVars, scalerVars, tick, call, mon>>

(***************************************************************************)
(* ProcessClient's (started, cmd) pair.  "cleared" is started with cmd =   *)
(* nil: Close leaves `started` set when there was a process to terminate,  *)
(* and Reconnect then forgets cmd.                                         *)
(***************************************************************************)
ProcState == {"none", "running", "exited", "cleared", "stopped"}

NoID == -1

TickPC == {"idle", "count", "up", "lock", "spawn",
           "down_load", "down_idle", "remove", "drain", "reap", "done"}
CallPC == {"idle", "picked", "calling", "cold", "coldspawn", "coldadd", "retry"}
MonPC  == {"idle", "next", "up", "down", "reconnect"}

-----------------------------------------------------------------------------
(* The replica set                                                         *)

Members == ToSet(replicas)
HealthyMembers == {r \in Members : healthy[r]}

\* Mutant: counts every client that was ever healthy, removed or not.
HealthyCountEver == Cardinality({r \in ReplicaID : healthy[r]})

HealthyCount == Cardinality(HealthyMembers)

\* v is the k-th smallest in-flight count among the healthy replicas.
IsRank(v, k) ==
    /\ Cardinality({r \in HealthyMembers : inFlight[r] < v}) < k
    /\ k <= Cardinality({r \in HealthyMembers : inFlight[r] <= v})

\* m2 is twice the median in-flight count of the healthy replicas.
MedianInFlight(m2) ==
    LET n == Cardinality(HealthyMembers)
        loads == {inFlight[r] : r \in HealthyMembers}
    IN  IF n = 0
          THEN m2 = 0
          ELSE \E lo, hi \in loads : /\ IsRank(lo, (n + 1) \div 2)
                                     /\ IsRank(hi, (n \div 2) + 1)
                                     /\ m2 = lo + hi

\* The slot the scan of pickRoundRobinLocked reads at offset i.
Slot(i) == replicas[((rrCursor + i) % Len(replicas)) + 1]

\* The first healthy slot at or after the cursor.
pickRoundRobin(r) ==
    \E i \in 0 .. Len(replicas) - 1 :
        /\ r = Slot(i) /\ healthy[r]
        /\ \A j \in 0 .. i - 1 : ~healthy[Slot(j)]

\* The healthy replica with the fewest calls in flight, lowest id on a tie.
pickLeastConnections(r) ==
    /\ r \in HealthyMembers
    /\ \A s \in HealthyMembers :
          \/ inFlight[r] < inFlight[s]
          \/ inFlight[r] = inFlight[s] /\ r <= s

Pick(r) == IF Dispatch = "least-connections" THEN pickLeastConnections(r)
                                             ELSE pickRoundRobin(r)

\* The cursor moves once per Pick of a non-empty set, found or not.
AdvanceCursor ==
    rrCursor' = IF Dispatch = "round-robin" /\ Len(replicas) > 0
                  THEN (rrCursor + 1) % RRPeriod
                  ELSE rrCursor

\* A client the spawner has just made ready joins under a fresh id.
AddReplica ==
    /\ nextID < MaxID
    /\ nextID' = nextID + 1
    /\ replicas' = Append(replicas, nextID)
    /\ started' = Append(started, nextID)
    /\ healthy' = [healthy EXCEPT ![nextID] = TRUE]
    /\ proc' = [proc EXCEPT ![nextID] = "running"]

\* append(s[:i], s[i+1:]...) at the position of r.
Without(s, r) ==
    LET at == CHOOSE i \in 1 .. Len(s) : s[i] = r
    IN  IF \E i \in 1 .. Len(s) : s[i] = r
          THEN [i \in 1 .. Len(s) - 1 |-> IF i < at THEN s[i] ELSE s[i + 1]]
          ELSE s

\* The original replica goes back, marked healthy, unless it is present.
ReinsertReplica(r) ==
    IF r \in Members
      THEN UNCHANGED <<replicas, healthy>>
      ELSE /\ replicas' = Append(replicas, r)
           /\ healthy' = [healthy EXCEPT ![r] = TRUE]

-----------------------------------------------------------------------------
(* The autoscaler                                                          *)

CeilDiv(a, b) == (a + b - 1) \div b

computeTarget(cur, med2, p) ==
    LET raw == IF cur > 0 THEN CeilDiv(cur * med2, 2 * p.target) ELSE 0
        load == IF raw < p.min THEN p.min ELSE raw
    IN  IF load + p.warm > p.max THEN p.max ELSE load + p.warm

FreshTick(pc) == [pc |-> pc, p |-> policy, med2 |-> 0, cur |-> 0, target |-> 0,
                  added |-> 0, floor |-> 0, victim |-> NoID]

\* The loop waits for the next tick; the registration's Tick is the only one.
EndTick(t) ==
    tick' = [tick EXCEPT ![t] = FreshTick(IF t = "init" THEN "done" ELSE "idle")]

\* Tick: load the policy and sample the median.
TickSample(t) ==
    /\ tick[t].pc = "idle"
    /\ \E m2 \in 0 .. 2 * Cardinality(Calls) :
          /\ MedianInFlight(m2)
          /\ tick' = [tick EXCEPT ![t].pc = "count", ![t].p = policy,
                                  ![t].med2 = m2]
    /\ UNCHANGED <<setVars, clientVars, scalerVars, call, mon>>

\* Tick: count the healthy replicas and choose a branch.  The window can
\* say "all samples zero for ScaleDownAfter" only if this sample is zero.
TickCount(t) ==
    LET cur == HealthyCount
        p == tick[t].p
        goal == computeTarget(cur, tick[t].med2, p)
        branch(pc) == tick' = [tick EXCEPT ![t].pc = pc, ![t].cur = cur,
                                           ![t].target = goal, ![t].med2 = 0]
    IN  /\ tick[t].pc = "count"
        /\ \/ /\ p.idle /\ p.min = 0 /\ cur > 0 /\ tick[t].med2 = 0
              /\ branch("down_idle")
           \/ goal > cur /\ branch("up")
           \/ goal < cur /\ branch("down_load")
           \/ goal = cur /\ EndTick(t)
        /\ UNCHANGED <<setVars, clientVars, scalerVars, call, mon>>

\* scaleUp up to spawnMu: the cooldown and the sustained signal hold back
\* everything but the catch-up to Min + WarmPool.
UpGate(t) ==
    LET eager == tick[t].cur < tick[t].p.min + tick[t].p.warm
    IN  /\ tick[t].pc = "up"
        /\ \/ ~eager /\ EndTick(t)
           \/ /\ eager \/ ~upCool
              /\ tick' = [tick EXCEPT ![t].pc = "lock"]
        /\ UNCHANGED <<setVars, clientVars, scalerVars, call, mon>>

\* Mutant: scaleUp spawns without taking spawnMu.
UpLockSkipped(t) ==
    /\ tick[t].pc = "lock"
    /\ tick' = [tick EXCEPT ![t].pc = "spawn"]
    /\ UNCHANGED <<setVars, clientVars, scalerVars, call, mon>>

UpLock(t) ==
    /\ tick[t].pc = "lock" /\ spawnMu = NoThread
    /\ spawnMu' = t
    /\ tick' = [tick EXCEPT ![t].pc = "spawn"]
    /\ UNCHANGED <<setVars, clientVars, policy, upCool, downCool, call, mon>>

\* One turn of the spawn loop: Spawn succeeds and the client is added; the
\* last turn stamps lastScaleUpAt and releases spawnMu.
UpSpawn(t) ==
    LET last == tick[t].added + 1 = tick[t].target - tick[t].cur
    IN  /\ tick[t].pc = "spawn"
        /\ AddReplica
        /\ IF last THEN /\ EndTick(t)
                        /\ upCool' = TRUE /\ spawnMu' = NoThread
                   ELSE /\ tick' = [tick EXCEPT ![t].added = @ + 1]
                        /\ UNCHANGED <<upCool, spawnMu>>
        /\ UNCHANGED <<rrCursor, inFlight, backoff, reaped, policy, downCool,
                       call, mon>>

\* Mutant: the failing path returns without releasing spawnMu.
UpSpawnFailsLocked(t) ==
    /\ tick[t].pc = "spawn"
    /\ EndTick(t)
    /\ UNCHANGED <<setVars, clientVars, scalerVars, call, mon>>

\* Spawn fails: the loop breaks; the cooldown starts only if one was added.
UpSpawnFails(t) ==
    /\ tick[t].pc = "spawn"
    /\ upCool' = (upCool \/ tick[t].added > 0)
    /\ spawnMu' = NoThread
    /\ EndTick(t)
    /\ UNCHANGED <<setVars, clientVars, policy, downCool, call, mon>>

Floor(t) == IF tick[t].pc = "down_idle" THEN 0
                                        ELSE tick[t].p.min + tick[t].p.warm

\* Position in startedAt order.
Age(r) == CHOOSE i \in 1 .. Len(started) : started[i] = r

\* The replica with the fewest calls in flight, the oldest on a tie.
\* Unhealthy replicas are candidates too.
pickReapTarget(r) ==
    /\ r \in Members
    /\ \A s \in Members :
          \/ inFlight[r] < inFlight[s]
          \/ inFlight[r] = inFlight[s] /\ Age(r) <= Age(s)

\* scaleDown up to drainAndReap.
DownGate(t) ==
    /\ tick[t].pc \in {"down_load", "down_idle"}
    /\ \/ /\ \/ tick[t].cur <= Floor(t)
             \/ downCool
             \/ tick[t].pc = "down_load"    \* window: insufficient_signal
             \/ Members = {}
          /\ EndTick(t)
       \/ /\ tick[t].cur > Floor(t) /\ ~downCool
          /\ \E r \in Members :
                /\ pickReapTarget(r)
                /\ tick' = [tick EXCEPT ![t].pc = "remove", ![t].victim = r,
                                        ![t].floor = Floor(t)]
    /\ UNCHANGED <<setVars, clientVars, scalerVars, call, mon>>

\* drainAndReap: RemoveReplica; its error sends the victim back to the set.
RemoveVictim(t) ==
    LET r == tick[t].victim
    IN  /\ tick[t].pc = "remove"
        /\ IF r \in Members
             THEN /\ replicas' = Without(replicas, r)
                  /\ tick' = [tick EXCEPT ![t].pc = "drain"]
                  /\ UNCHANGED healthy
             ELSE ReinsertReplica(r) /\ EndTick(t)
        /\ UNCHANGED <<nextID, rrCursor, inFlight, started, clientVars,
                       scalerVars, call, mon>>

\* Mutant: the first poll returns before it reads the counter.
DrainPollBlind(t) ==
    /\ tick[t].pc = "drain"
    /\ tick' = [tick EXCEPT ![t].pc = "reap"]
    /\ UNCHANGED <<setVars, clientVars, scalerVars, call, mon>>

\* After at least one poll interval the drain sees no call in flight.
DrainPoll(t) ==
    LET r == tick[t].victim
    IN  /\ tick[t].pc = "drain" /\ inFlight[r] = 0
        /\ GraceCovers => ~\E c \in Calls : call[c].pc = "picked" /\ call[c].r = r
        /\ tick' = [tick EXCEPT ![t].pc = "reap"]
        /\ UNCHANGED <<setVars, clientVars, scalerVars, call, mon>>

\* errDrainTimeout (calls still in flight) or a cancelled context.
DrainAborts(t) ==
    /\ tick[t].pc = "drain"
    /\ ReinsertReplica(tick[t].victim)
    /\ EndTick(t)
    /\ UNCHANGED <<nextID, rrCursor, inFlight, started, clientVars,
                   scalerVars, call, mon>>

\* ProcessClient.Close.
Closed(s) == IF s \in {"running", "exited"} THEN "exited" ELSE "stopped"

\* ProcessSpawner.Reap closes the client and cannot fail.
ReapVictim(t) ==
    LET r == tick[t].victim
    IN  /\ tick[t].pc = "reap"
        /\ proc' = [proc EXCEPT ![r] = Closed(@)]
        /\ reaped' = reaped \cup {r}
        /\ downCool' = TRUE
        /\ EndTick(t)
        /\ UNCHANGED <<setVars, backoff, policy, spawnMu, upCool, call, mon>>

\* A policy-only change of the stack file.
UpdatePolicy(p) ==
    /\ p # policy
    /\ policy' = p
    /\ UNCHANGED <<setVars, clientVars, spawnMu, upCool, downCool, tick, call, mon>>

CooldownElapses ==
    /\ upCool \/ downCool
    /\ \E u, d \in {FALSE, TRUE} :
          /\ upCool' = (upCool /\ u) /\ downCool' = (downCool /\ d)
          /\ ~(u /\ d)
    /\ UNCHANGED <<setVars, clientVars, policy, spawnMu, tick, call, mon>>

-----------------------------------------------------------------------------
(* HandleToolsCall                                                         *)

IdleCall == [pc |-> "idle", r |-> NoID]
GoCall(c, pc) == call' = [call EXCEPT ![c].pc = pc]
EndCall(c) == call' = [call EXCEPT ![c] = IdleCall]

\* Mutant: a nil replica is not turned into an error.
RouteUnchecked(c) ==
    /\ call[c].pc = "idle"
    /\ AdvanceCursor
    /\ \E r \in HealthyMembers \cup {NoID} :
          call' = [call EXCEPT ![c] = [pc |-> "picked", r |-> r]]
    /\ UNCHANGED <<replicas, nextID, healthy, inFlight, started, clientVars,
                   scalerVars, tick, mon>>

\* RouteToolCallReplica: a pick, or the cold-start path when there is none.
Route(c) ==
    /\ call[c].pc = "idle"
    /\ AdvanceCursor
    /\ \/ \E r \in HealthyMembers :
             /\ Pick(r)
             /\ call' = [call EXCEPT ![c] = [pc |-> "picked", r |-> r]]
       \/ HealthyMembers = {} /\ GoCall(c, "cold")
    /\ UNCHANGED <<replicas, nextID, healthy, inFlight, started, clientVars,
                   scalerVars, tick, mon>>

\* TriggerColdStart: take spawnMu and look again.
ColdEnter(c) ==
    /\ call[c].pc = "cold" /\ spawnMu = NoThread
    /\ IF HealthyMembers # {}
         THEN GoCall(c, "retry") /\ UNCHANGED spawnMu
         ELSE GoCall(c, "coldspawn") /\ spawnMu' = c
    /\ UNCHANGED <<setVars, clientVars, policy, upCool, downCool, tick, mon>>

\* Mutant: a failed cold start keeps spawnMu.
ColdSpawnFailsLocked(c) ==
    /\ call[c].pc = "coldspawn"
    /\ EndCall(c)
    /\ UNCHANGED <<setVars, clientVars, scalerVars, tick, mon>>

ColdSpawnFails(c) ==
    /\ call[c].pc = "coldspawn"
    /\ EndCall(c)
    /\ spawnMu' = NoThread
    /\ UNCHANGED <<setVars, clientVars, policy, upCool, downCool, tick, mon>>

\* The cooldown is stamped before the replica is visible to a tick.
ColdStamp(c) ==
    /\ call[c].pc = "coldspawn" /\ nextID < MaxID
    /\ upCool' = TRUE
    /\ GoCall(c, "coldadd")
    /\ UNCHANGED <<setVars, clientVars, policy, spawnMu, downCool, tick, mon>>

ColdAdd(c) ==
    /\ call[c].pc = "coldadd"
    /\ AddReplica
    /\ spawnMu' = NoThread
    /\ GoCall(c, "retry")
    /\ UNCHANGED <<rrCursor, inFlight, backoff, reaped, policy, upCool,
                   downCool, tick, mon>>

\* The second RouteToolCallReplica; no replica now is an error result.
Retry(c) ==
    /\ call[c].pc = "retry"
    /\ AdvanceCursor
    /\ \/ \E r \in HealthyMembers :
             /\ Pick(r)
             /\ call' = [call EXCEPT ![c] = [pc |-> "picked", r |-> r]]
       \/ HealthyMembers = {} /\ EndCall(c)
    /\ UNCHANGED <<replicas, nextID, healthy, inFlight, started, clientVars,
                   scalerVars, tick, mon>>

\* The picked replica's server is blocked on schema drift, or an MRTR retry
\* belongs to another server: an error result, and nothing was counted.
CallRejected(c) ==
    /\ call[c].pc = "picked"
    /\ EndCall(c)
    /\ UNCHANGED <<setVars, clientVars, scalerVars, tick, mon>>

\* IncInFlight, and CallTool begins.
CallBegins(c) ==
    /\ call[c].pc = "picked"
    /\ inFlight' = [inFlight EXCEPT ![call[c].r] = @ + 1]
    /\ GoCall(c, "calling")
    /\ UNCHANGED <<replicas, nextID, rrCursor, healthy, started, clientVars,
                   scalerVars, tick, mon>>

\* Mutant: the error path returns before DecInFlight.
CallReturnsLeaks(c) ==
    /\ call[c].pc = "calling"
    /\ EndCall(c)
    /\ UNCHANGED <<setVars, clientVars, scalerVars, tick, mon>>

\* CallTool returns, with a result or an error, and DecInFlight follows.
CallReturns(c) ==
    /\ call[c].pc = "calling"
    /\ inFlight' = [inFlight EXCEPT ![call[c].r] = @ - 1]
    /\ EndCall(c)
    /\ UNCHANGED <<replicas, nextID, rrCursor, healthy, started, clientVars,
                   scalerVars, tick, mon>>

-----------------------------------------------------------------------------
(* The health monitor                                                      *)

NextReplica == mon' = [pc |-> "next", todo |-> Tail(mon.todo)]

\* checkHealth takes a snapshot of the set.
MonSnapshot ==
    /\ MonitorOn /\ mon.pc = "idle" /\ replicas # <<>>
    /\ mon' = [pc |-> "next", todo |-> replicas]
    /\ UNCHANGED <<setVars, clientVars, scalerVars, tick, call>>

MonEnd ==
    /\ mon.pc = "next" /\ mon.todo = <<>>
    /\ mon' = [pc |-> "idle", todo |-> <<>>]
    /\ UNCHANGED <<setVars, clientVars, scalerVars, tick, call>>

\* A ping of a running process may succeed; any ping may fail.
MonPing ==
    /\ mon.pc = "next" /\ mon.todo # <<>>
    /\ \/ proc[Head(mon.todo)] = "running" /\ mon' = [mon EXCEPT !.pc = "up"]
       \/ mon' = [mon EXCEPT !.pc = "down"]
    /\ UNCHANGED <<setVars, clientVars, scalerVars, tick, call>>

MonUp ==
    /\ mon.pc = "up"
    /\ healthy' = [healthy EXCEPT ![Head(mon.todo)] = TRUE]
    /\ backoff' = [backoff EXCEPT ![Head(mon.todo)] = FALSE]
    /\ NextReplica
    /\ UNCHANGED <<replicas, nextID, rrCursor, inFlight, started, proc, reaped,
                   scalerVars, tick, call>>

\* Out of dispatch; reconnect unless the backoff has not elapsed yet.
MonDown ==
    LET r == Head(mon.todo)
    IN  /\ mon.pc = "down"
        /\ healthy' = [healthy EXCEPT ![r] = FALSE]
        /\ \/ mon' = [mon EXCEPT !.pc = "reconnect"]
           \/ backoff[r] /\ NextReplica
        /\ UNCHANGED <<replicas, nextID, rrCursor, inFlight, started,
                       clientVars, scalerVars, tick, call>>

\* ProcessClient.Reconnect: Close, forget cmd, Connect, Initialize.  Connect
\* returns at once while `started` is set, which leaves no process to talk to.
Reconnect(s, s2, ok) ==
    IF s \in {"running", "exited"}
      THEN s2 = "cleared" /\ ~ok
      ELSE \/ s2 = "running" /\ ok
           \/ s2 = "running" /\ ~ok      \* the handshake fails
           \/ s2 = "stopped" /\ ~ok      \* the process does not start

MonReconnect ==
    LET r == Head(mon.todo)
    IN  /\ mon.pc = "reconnect"
        /\ \E s2 \in ProcState, ok \in BOOLEAN :
              /\ Reconnect(proc[r], s2, ok)
              /\ proc' = [proc EXCEPT ![r] = s2]
              /\ backoff' = [backoff EXCEPT ![r] = ~ok]
              /\ healthy' = [healthy EXCEPT ![r] = ok]
              /\ started' = IF ok
                              THEN Append(Without(started, r), r) ELSE started
        /\ NextReplica
        /\ UNCHANGED <<replicas, nextID, rrCursor, inFlight, reaped,
                       scalerVars, tick, call>>

\* A replica's process dies by itself.
Crash(r) ==
    /\ MonitorOn /\ proc[r] = "running"
    /\ proc' = [proc EXCEPT ![r] = "exited"]
    /\ UNCHANGED <<setVars, backoff, reaped, scalerVars, tick, call, mon>>

-----------------------------------------------------------------------------
\* RegisterAutoscaler: an empty set; the first tick is skipped for a pool
\* that may stay cold.
Init ==
    /\ replicas = <<>> /\ nextID = 0 /\ rrCursor = 0
    /\ healthy = [r \in ReplicaID |-> FALSE]
    /\ inFlight = [r \in ReplicaID |-> 0]
    /\ started = <<>>
    /\ proc = [r \in ReplicaID |-> "none"]
    /\ backoff = [r \in ReplicaID |-> FALSE]
    /\ reaped = {}
    /\ policy \in Policies
    /\ spawnMu = NoThread /\ upCool = FALSE /\ downCool = FALSE
    /\ LET skipInitialTick == policy.idle /\ policy.min = 0 /\ policy.warm = 0
       IN  tick = [t \in Tickers |->
                     FreshTick(IF t = "init" /\ skipInitialTick
                                 THEN "done" ELSE "idle")]
    /\ call = [c \in Calls |-> IdleCall]
    /\ mon = [pc |-> "idle", todo |-> <<>>]

Tick(t) ==
    \/ TickSample(t) \/ TickCount(t)
    \/ UpGate(t) \/ UpLock(t) \/ UpSpawn(t) \/ UpSpawnFails(t)
    \/ DownGate(t) \/ RemoveVictim(t) \/ DrainPoll(t) \/ DrainAborts(t)
    \/ ReapVictim(t)

HandleToolsCall(c) ==
    \/ Route(c) \/ Retry(c) \/ CallRejected(c) \/ CallBegins(c) \/ CallReturns(c)
    \/ ColdEnter(c) \/ ColdSpawnFails(c) \/ ColdStamp(c) \/ ColdAdd(c)

Monitor ==
    \/ MonSnapshot \/ MonEnd \/ MonPing \/ MonUp \/ MonDown \/ MonReconnect

Environment ==
    \/ \E p \in Policies : UpdatePolicy(p)
    \/ CooldownElapses
    \/ \E r \in ReplicaID : Crash(r)

Next ==
    \/ \E t \in Tickers : Tick(t)
    \/ \E c \in Calls : HandleToolsCall(c)
    \/ Monitor
    \/ Environment

Spec == Init /\ [][Next]_vars

(***************************************************************************)
(* Fairness.  A goroutine that can move is scheduled; CallTool, Spawn and  *)
(* the drain are bounded by timeouts, so they end; sync.Mutex hands itself *)
(* to a waiter that has starved, so whoever waits for a spawnMu that is    *)
(* released again and again gets it.  No tool call has to arrive.          *)
(***************************************************************************)
FairSpec ==
    /\ Spec
    /\ \A t \in Tickers : WF_vars(Tick(t)) /\ SF_vars(UpLock(t))
    /\ \A c \in Calls :
          /\ WF_vars(call[c].pc # "idle" /\ HandleToolsCall(c))
          /\ SF_vars(ColdEnter(c))
-----------------------------------------------------------------------------
(* Properties                                                              *)

TickRec == [pc : TickPC, p : Policies, med2 : Nat, cur : Nat, target : Nat,
            added : Nat, floor : Nat, victim : ReplicaID \cup {NoID}]

SetTypes ==
    /\ replicas \in Seq(ReplicaID) /\ started \in Seq(ReplicaID)
    /\ nextID \in 0 .. MaxID /\ rrCursor \in 0 .. RRPeriod - 1
    /\ healthy \in [ReplicaID -> BOOLEAN]
    /\ inFlight \in [ReplicaID -> Int]

ClientTypes ==
    /\ proc \in [ReplicaID -> ProcState]
    /\ backoff \in [ReplicaID -> BOOLEAN]
    /\ reaped \subseteq ReplicaID

ScalerTypes ==
    /\ policy \in Policies
    /\ spawnMu \in Tickers \cup Calls \cup {NoThread}
    /\ upCool \in BOOLEAN /\ downCool \in BOOLEAN

TickTypes ==
    /\ tick \in [Tickers -> TickRec]
    /\ \A t \in Tickers :
          tick[t].pc \in {"remove", "drain", "reap"} => tick[t].victim \in ReplicaID

CallTypes ==
    /\ call \in [Calls -> [pc : CallPC, r : ReplicaID \cup {NoID}]]
    /\ \A c \in Calls :
          call[c].pc \in {"picked", "calling"} => call[c].r \in ReplicaID

MonTypes ==
    /\ mon \in [pc : MonPC, todo : Seq(ReplicaID)]
    /\ mon.pc \in {"up", "down", "reconnect"} => mon.todo # <<>>

\* Type invariant: every variable and every goroutine's locals.
TypeOK ==
    /\ SetTypes /\ ClientTypes /\ ScalerTypes
    /\ TickTypes /\ CallTypes /\ MonTypes

CallsOn(r) == {c \in Calls : call[c].pc = "calling" /\ call[c].r = r}

\* The counter the drain and least-connections rely on is exact: it counts
\* the goroutines between IncInFlight and DecInFlight on that replica, in
\* whatever order ticks, reinsertions and reconnects touch the replica.
InFlightExact ==
    \A r \in ReplicaID : inFlight[r] = Cardinality(CallsOn(r))

\* drainAndReap: the client of a replica is not closed while a call runs on
\* it, and no call starts on it afterwards.
NoCallOnReaped ==
    \A c \in Calls : call[c].pc \in {"picked", "calling"} => call[c].r \notin reaped

\* The set never lists a replica twice (RemoveReplica would leave a copy
\* behind) and never lists one whose client was reaped.
SetSound ==
    /\ IsInjective(replicas)
    /\ Members \cap reaped = {}

\* Ids in use, anywhere, have been minted.
IdsMinted ==
    /\ \A r \in Members \cup reaped : r < nextID
    /\ \A t \in Tickers :
          tick[t].pc \in {"remove", "drain", "reap"} => tick[t].victim < nextID
    /\ \A c \in Calls : call[c].pc \in {"picked", "calling"} => call[c].r < nextID

\* What a tick that is scaling down knows of its victim: it leaves the set
\* before its client is closed, and a drained victim has no caller left.
VictimHeld ==
    \A t \in Tickers :
        /\ tick[t].pc = "remove" => tick[t].victim \in Members
        /\ tick[t].pc \in {"drain", "reap"} => tick[t].victim \notin Members \cup reaped
        /\ tick[t].pc = "reap" =>
              \A c \in Calls : call[c].pc \in {"picked", "calling"} =>
                                  call[c].r # tick[t].victim

\* The inductive invariant behind NoCallOnReaped, for one ticker.
ReapInv == IdsMinted /\ VictimHeld /\ SetSound /\ NoCallOnReaped

(***************************************************************************)
(* The pool as its callers see it.  A replica serves while it is in the    *)
(* set, leaves while only a tick knows of it, and is gone once its client  *)
(* was closed; a call is on the replica that was picked for it.            *)
(***************************************************************************)
PhaseOf(r) ==
    CASE r \in reaped -> "gone"
      [] r \in Members \ reaped -> "serving"
      [] r \notin Members \cup reaped /\ r < nextID -> "leaving"
      [] OTHER -> "unborn"

On(c) == IF call[c].pc \in {"picked", "calling"} THEN call[c].r ELSE NoID

Abstract == INSTANCE ReplicaLife WITH
    state <- [r \in ReplicaID |-> PhaseOf(r)],
    on <- [c \in Calls |-> On(c)]

\* The set, the scaler's drain and the calls together keep the promise of
\* ReplicaLife: no call is given to a replica that has left, none is cut off by
\* the closing of its client, and no replica comes back from that.
ImplementsReplicaLife == Abstract!Spec

\* spawnMu serialises Spawn: nobody is inside a spawn without holding it.
SpawnSerialised ==
    /\ \A t \in Tickers : tick[t].pc = "spawn" => spawnMu = t
    /\ \A c \in Calls : call[c].pc \in {"coldspawn", "coldadd"} => spawnMu = c

\* scaleDown on load leaves at least Min + WarmPool replicas in the set, for
\* the policy the tick was evaluated under.
FloorKept ==
    [][\A t \in Tickers :
          (tick[t].pc = "remove" /\ tick'[t].pc = "drain")
             => Len(replicas') >= tick[t].floor]_vars

\* A tool call that entered the gateway gets its answer, also when it waits
\* behind a tick or another cold start for spawnMu and whatever spawn fails.
CallsEnd == \A c \in Calls : call[c].pc # "idle" ~> call[c].pc = "idle"

\* No tick is stuck for ever, behind a cold start or in a drain: a stuck tick
\* would stop the scaling of every server, since one goroutine ticks them all.
TicksEnd ==
    \A t \in Tickers : tick[t].pc \notin {"idle", "done"} ~> tick[t].pc \in {"idle", "done"}

\* autoscaler.go: "Max: Upper bound on replica count".
MaxKept == Len(replicas) <= policy.max

\* autoscaler.go: "On any spawn failure the lastScaleUpAt timestamp is NOT
\* updated so the next tick retries".
FailureNotStamped == [][\A t \in Tickers : UpSpawnFails(t) => upCool' = upCool]_vars

\* A process that the pool started is in the set, or a tick is draining it.
NoOrphanProcess ==
    \A r \in ReplicaID : proc[r] = "running" =>
        \/ r \in Members
        \/ \E t \in Tickers : tick[t].victim = r
=============================================================================
