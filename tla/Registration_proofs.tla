------------------------ MODULE Registration_proofs ------------------------
(***************************************************************************)
(* Proofs about Registration, for every set of goroutines, configurations  *)
(* and clients and every bound on the generation.                          *)
(***************************************************************************)
EXTENDS Registration, TLAPS

-----------------------------------------------------------------------------
(* Type correctness                                                        *)

\* A goroutine that moves to a sane local state keeps the types.
LEMMA Moves ==
  ASSUME RegTypeOK, NEW t \in Threads, NEW l \in Local, Sane(l),
         th' = [th EXCEPT ![t] = l]
  PROVE  th' \in [Threads -> Local] /\ \A u \in Threads : Sane(th'[u])
BY DEF RegTypeOK

\* Going on to pc keeps the types if the goroutine has what pc needs.
LEMMA GoType ==
  ASSUME RegTypeOK, NEW t \in Threads, NEW pc \in PC \ {"commit"}, Go(t, pc),
         th[t].pc \notin {"commit", "settle"},
         pc \in Configured => th[t].cfg # None
  PROVE  th' \in [Threads -> Local] /\ \A u \in Threads : Sane(th'[u])
<1> DEFINE l == [th[t] EXCEPT !.pc = pc]
<1>1. th[t] \in Local /\ Sane(th[t])
  BY DEF RegTypeOK
<1>2. l \in Local
  BY <1>1 DEF Local
<1>3. Sane(l)
  BY <1>1 DEF Local, Sane, Configured
<1>4. th' = [th EXCEPT ![t] = l]
  BY DEF Go
<1> QED BY <1>2, <1>3, <1>4, Moves

\* The same with an error to report.
LEMMA GoErrType ==
  ASSUME RegTypeOK, NEW t \in Threads, NEW pc \in PC \ {"commit"}, NEW e \in Errs,
         GoErr(t, pc, e), th[t].pc \notin {"commit", "settle"},
         pc \in Configured => th[t].cfg # None
  PROVE  th' \in [Threads -> Local] /\ \A u \in Threads : Sane(th'[u])
<1> DEFINE l == [th[t] EXCEPT !.pc = pc, !.err = e]
<1>1. th[t] \in Local /\ Sane(th[t])
  BY DEF RegTypeOK
<1>2. l \in Local
  BY <1>1 DEF Local
<1>3. Sane(l)
  BY <1>1 DEF Local, Sane, Configured
<1>4. th' = [th EXCEPT ![t] = l]
  BY DEF GoErr
<1> QED BY <1>2, <1>3, <1>4, Moves

\* Idle is a local state, and so is the wait for the deferred reset.
LEMMA IdleType ==
  /\ Idle \in Local /\ Sane(Idle)
  /\ [Idle EXCEPT !.pc = "finish"] \in Local /\ Sane([Idle EXCEPT !.pc = "finish"])
BY DEF Idle, Local, Sane, Configured, PC, Errs

\* Returning keeps the types.
LEMMA ReturnType ==
  ASSUME RegTypeOK, NEW t \in Threads, Return(t)
  PROVE  th' \in [Threads -> Local] /\ \A u \in Threads : Sane(th'[u])
<1> DEFINE l == IF t \in Retries THEN [Idle EXCEPT !.pc = "finish"] ELSE Idle
<1>1. l \in Local /\ Sane(l)
  BY IdleType
<1>2. th' = [th EXCEPT ![t] = l]
  BY DEF Return
<1> HIDE DEF l
<1> QED BY <1>1, <1>2, Moves

\* A bump marks every attempt as out of date and moves one goroutine.
LEMMA BumpType ==
  ASSUME RegTypeOK, NEW t \in Threads, NEW pc \in PC \ {"commit"},
         th[t].pc \notin {"commit", "settle"},
         pc \in Configured => th[t].cfg # None,
         th' = Bumped([th EXCEPT ![t].pc = pc])
  PROVE  th' \in [Threads -> Local] /\ \A u \in Threads : Sane(th'[u])
<1> DEFINE l == [th[t] EXCEPT !.pc = pc]
           s == [th EXCEPT ![t] = l]
<1>1. th[t] \in Local /\ Sane(th[t])
  BY DEF RegTypeOK
<1>2. l \in Local /\ Sane(l)
  BY <1>1 DEF Local, Sane, Configured
<1>3. s \in [Threads -> Local] /\ \A u \in Threads : Sane(s[u])
  BY <1>2 DEF RegTypeOK
<1>4. th' = [u \in Threads |-> [s[u] EXCEPT !.current = FALSE]]
  BY DEF Bumped
<1> HIDE DEF s
<1>5. \A u \in Threads : th'[u] = [s[u] EXCEPT !.current = FALSE]
  BY <1>4
<1>6. ASSUME NEW u \in Threads PROVE th'[u] \in Local /\ Sane(th'[u])
  <2>1. s[u] \in Local /\ Sane(s[u])
    BY <1>3
  <2> DEFINE k == s[u]
  <2>2. k \in Local /\ Sane(k) /\ th'[u] = [k EXCEPT !.current = FALSE]
    BY <1>5, <2>1
  <2> HIDE DEF k
  <2> QED BY <2>2 DEF Local, Sane, Configured
<1>7. \A u \in Threads : [s[u] EXCEPT !.current = FALSE] \in Local
  BY <1>5, <1>6
<1>8. th' \in [Threads -> Local]
  BY <1>4, <1>7
<1> QED BY <1>6, <1>8

\* Nothing is registered at first.
LEMMA InitReg == Init => RegTypeOK
<1> SUFFICES ASSUME Init PROVE RegTypeOK
  OBVIOUS
<1>1. th \in [Threads -> Local] /\ \A t \in Threads : Sane(th[t])
  BY IdleType DEF Init
<1>2. /\ pending \in [cfg : Cfgs \cup {None}, inFlight : BOOLEAN]
      /\ set \in [client : Clients \cup {None}, cfg : Cfgs \cup {None}]
  BY DEF Init, NoPending, NoSet
<1>3. /\ declared \in Cfgs \cup {None} /\ meta \in Cfgs \cup {None}
      /\ regGen \in Nat /\ cleanupRan \in BOOLEAN
      /\ rows \subseteq {"failed", "needs-auth"}
      /\ open \subseteq Clients /\ dropped \subseteq Clients
  BY DEF Init
<1> QED BY <1>1, <1>2, <1>3 DEF RegTypeOK

\* The operations start in sane local states.
LEMMA OperationType == RegTypeOK /\ Operation => RegTypeOK'
<1> SUFFICES ASSUME RegTypeOK, Operation PROVE RegTypeOK'
  OBVIOUS
<1>1. ASSUME NEW c \in Cfgs, NEW pc \in {"start", "unbump", "bump", "close"},
             NEW b \in BOOLEAN
      PROVE  /\ LET l == [Idle EXCEPT !.pc = pc, !.cfg = c, !.register = b]
                IN  l \in Local /\ Sane(l)
             /\ LET l == [Idle EXCEPT !.pc = pc, !.cfg = c]
                IN  l \in Local /\ Sane(l)
  BY <1>1, RegAssumption DEF Idle, Local, Sane, Configured, PC, Errs
<1>2. CASE ReloadAdds
  <2>1. PICK c \in Cfgs : declared' = c /\
           th' = [th EXCEPT !["reload"] = [Idle EXCEPT !.pc = "start", !.cfg = c]]
    BY <1>2 DEF ReloadAdds
  <2>3. th' \in [Threads -> Local] /\ \A u \in Threads : Sane(th'[u])
    BY <1>1, <1>2, <2>1, Moves DEF ReloadAdds, Threads
  <2> QED BY <1>2, <2>1, <2>3 DEF ReloadAdds, RegTypeOK
<1>3. CASE ReloadRemoves
  <2>1. [Idle EXCEPT !.pc = "unbump"] \in Local /\ Sane([Idle EXCEPT !.pc = "unbump"])
    BY DEF Idle, Local, Sane, Configured, PC, Errs
  <2>2. th' \in [Threads -> Local] /\ \A u \in Threads : Sane(th'[u])
    BY <1>3, <2>1, Moves DEF ReloadRemoves, Threads
  <2> QED BY <1>3, <2>2 DEF ReloadRemoves, RegTypeOK
<1>4. CASE ReloadModifies
  <2>1. PICK c \in Cfgs : declared' = c /\
           th' = [th EXCEPT !["reload"] = [Idle EXCEPT !.pc = "unbump", !.cfg = c,
                                                       !.register = TRUE]]
    BY <1>4 DEF ReloadModifies
  <2>2. th' \in [Threads -> Local] /\ \A u \in Threads : Sane(th'[u])
    BY <1>1, <1>4, <2>1, Moves DEF ReloadModifies, Threads
  <2> QED BY <1>4, <2>1, <2>2 DEF ReloadModifies, RegTypeOK
<1>5. CASE RestartBegins
  <2>1. ASSUME meta # None, th' = [th EXCEPT !["restart"] =
               [Idle EXCEPT !.pc = "close", !.cfg = meta, !.register = TRUE]]
        PROVE  th' \in [Threads -> Local] /\ \A u \in Threads : Sane(th'[u])
    <3>1. meta \in Cfgs
      BY <2>1 DEF RegTypeOK
    <3> QED BY <1>1, <1>5, <2>1, <3>1, Moves DEF RestartBegins, Threads
  <2>2. ASSUME pending.cfg # None, th' = [th EXCEPT !["restart"] =
               [Idle EXCEPT !.pc = "bump", !.cfg = pending.cfg]]
        PROVE  th' \in [Threads -> Local] /\ \A u \in Threads : Sane(th'[u])
    <3>1. pending.cfg \in Cfgs
      BY <2>2 DEF RegTypeOK
    <3> QED BY <1>1, <1>5, <2>2, <3>1, Moves DEF RestartBegins, Threads
  <2>3. th' \in [Threads -> Local] /\ \A u \in Threads : Sane(th'[u])
    BY <1>5, <2>1, <2>2 DEF RestartBegins
  <2> QED BY <1>5, <2>3 DEF RestartBegins, RegTypeOK
<1>6. CASE ReloadAddFails
  <2> DEFINE l == [Idle EXCEPT !.pc = "record", !.err = "terminal"]
  <2>1. l \in Local /\ Sane(l)
    BY DEF Idle, Local, Sane, Configured, PC, Errs
  <2>2. th' \in [Threads -> Local] /\ \A u \in Threads : Sane(th'[u])
    BY <1>6, <2>1, Moves DEF ReloadAddFails, Threads
  <2> QED BY <1>6, <2>2 DEF ReloadAddFails, RegTypeOK
<1> QED BY <1>2, <1>3, <1>4, <1>5, <1>6 DEF Operation

\* Every step of a goroutine preserves the types.
LEMMA StepType ==
  ASSUME RegTypeOK, NEW t \in Threads, Step(t)
  PROVE  RegTypeOK'
<1> DEFINE Typed == th' \in [Threads -> Local] /\ \A u \in Threads : Sane(th'[u])
<1>l. th[t] \in Local /\ Sane(th[t])
  BY DEF RegTypeOK
<1>1. CASE RestartCloses(t)
  <2>1. Typed
    BY <1>1, GoType DEF RestartCloses, PC, Configured
  <2> QED BY <1>1, <2>1 DEF RestartCloses, RegTypeOK
<1>2. CASE UnregisterBump(t)
  <2>1. Typed
    BY <1>2, BumpType DEF UnregisterBump, PC, Configured
  <2>2. regGen' \in Nat
    BY <1>2 DEF UnregisterBump, RegTypeOK
  <2>3. pending' \in [cfg : Cfgs \cup {None}, inFlight : BOOLEAN] /\ cleanupRan' \in BOOLEAN
    BY <1>2 DEF UnregisterBump, NoPending
  <2>4. UNCHANGED <<declared, meta, set, rows, open, dropped>>
    BY <1>2 DEF UnregisterBump
  <2> QED BY <2>1, <2>2, <2>3, <2>4 DEF RegTypeOK
<1>3. CASE UnregisterRoute(t)
  <2>1. Typed
    BY <1>3, GoType DEF UnregisterRoute, PC, Configured
  <2> QED BY <1>3, <2>1 DEF UnregisterRoute, RegTypeOK, NoSet
<1>4. CASE UnregisterMeta(t)
  <2>1. Typed
    BY <1>4, GoType DEF UnregisterMeta, PC, Configured
  <2> QED BY <1>4, <2>1 DEF UnregisterMeta, RegTypeOK
<1>5. CASE UnregisterRows(t)
  <2> DEFINE l == IF th[t].register THEN [th[t] EXCEPT !.pc = "start"] ELSE Idle
  <2>1. l \in Local /\ Sane(l)
    BY <1>5, <1>l, IdleType DEF UnregisterRows, Local, Sane, Configured, PC
  <2>2. th' = [th EXCEPT ![t] = l]
    BY <1>5 DEF UnregisterRows
  <2> HIDE DEF l
  <2>3. Typed
    BY <2>1, <2>2, Moves
  <2> QED BY <1>5, <2>3 DEF UnregisterRows, RegTypeOK
<1>6. CASE StartServer(t)
  <2>1. th[t].cfg # None /\ th[t].pc = "start"
    BY <1>6, <1>l DEF StartServer, Sane, Configured
  <2>2. Typed
    BY <1>6, <2>1, GoType, GoErrType DEF StartServer, PC, Configured, Errs
  <2>3. rows' \subseteq {"failed", "needs-auth"}
    BY <1>6 DEF StartServer, RegTypeOK
  <2> QED BY <1>6, <2>2, <2>3 DEF StartServer, RegTypeOK
<1>7. CASE RegisterBump(t)
  <2>1. th[t].cfg # None /\ th[t].pc = "bump"
    BY <1>7, <1>l DEF RegisterBump, Sane, Configured
  <2>2. Typed
    BY <1>7, <2>1, BumpType DEF RegisterBump, PC, Configured
  <2>3. regGen' \in Nat
    BY <1>7 DEF RegisterBump, RegTypeOK
  <2>4. UNCHANGED <<declared, pending, cleanupRan, meta, set, rows, open, dropped>>
    BY <1>7 DEF RegisterBump
  <2> QED BY <2>2, <2>3, <2>4 DEF RegTypeOK
<1>8. CASE RetryProbe(t)
  <2>1. Typed
    BY <1>8, <1>l, GoType, GoErrType, ReturnType DEF RetryProbe, PC, Configured, Errs, Sane
  <2> QED BY <1>8, <2>1 DEF RetryProbe, RegTypeOK
<1>9. CASE RetryDrop(t)
  <2>1. Typed
    BY <1>9, GoType DEF RetryDrop, PC, Configured
  <2> QED BY <1>9, <2>1 DEF RetryDrop, RegTypeOK, NoPending
<1>10. CASE RetryCheck(t)
  <2>1. th[t].cfg # None /\ th[t].pc = "check"
    BY <1>10, <1>l DEF RetryCheck, Sane, Configured
  <2>2. Typed
    BY <1>10, <2>1, GoType, ReturnType DEF RetryCheck, PC, Configured
  <2> QED BY <1>10, <2>2 DEF RetryCheck, RegTypeOK
<1>11. CASE RetryFinish(t)
  <2>1. Typed
    BY <1>11, IdleType, Moves DEF RetryFinish
  <2> QED BY <1>11, <2>1 DEF RetryFinish, RegTypeOK
<1>12. CASE BuildSucceeds(t)
  <2> DEFINE c == CHOOSE c \in Free : TRUE
             l == [th[t] EXCEPT !.pc = "commit", !.client = c]
  <2>1. c \in Clients
    BY <1>12 DEF BuildSucceeds, Free
  <2>2. open' = open \cup {c} /\ th' = [th EXCEPT ![t] = l]
    BY <1>12 DEF BuildSucceeds
  <2> HIDE DEF c
  <2>3. l \in Local /\ Sane(l)
    BY <1>12, <1>l, <2>1, RegAssumption DEF BuildSucceeds, Local, Sane, Configured, PC
  <2>4. Typed
    BY <2>2, <2>3, Moves
  <2> QED BY <1>12, <2>1, <2>2, <2>4 DEF BuildSucceeds, RegTypeOK
<1>13. CASE BuildFails(t)
  <2>1. th[t].cfg # None /\ th[t].pc = "build"
    BY <1>13, <1>l DEF BuildFails, Sane, Configured
  <2>2. PICK e \in Errs : GoErr(t, "note", e) /\ cleanupRan' = (cleanupRan \/ e = "ready")
    BY <1>13 DEF BuildFails, Errs
  <2>3. Typed
    BY <2>1, <2>2, GoErrType DEF PC, Configured
  <2>4. cleanupRan' \in BOOLEAN
    BY <2>2
  <2> QED BY <1>13, <2>3, <2>4 DEF BuildFails, RegTypeOK
<1>14. CASE NoteFailure(t)
  <2>1. th[t].cfg \in Cfgs
    BY <1>14, <1>l DEF NoteFailure, Sane, Configured, Local
  <2>2. Typed
    BY <1>14, GoType, ReturnType DEF NoteFailure, PC, Configured
  <2>3. pending' \in [cfg : Cfgs \cup {None}, inFlight : BOOLEAN]
    BY <1>14, <2>1 DEF NoteFailure, NoPending, RegTypeOK
  <2> QED BY <1>14, <2>2, <2>3 DEF NoteFailure, RegTypeOK
<1>15. CASE RecordFailure(t)
  <2>1. Typed
    BY <1>15, ReturnType DEF RecordFailure
  <2> QED BY <1>15, <2>1 DEF RecordFailure, RegTypeOK
<1>16. CASE Commit(t)
  <2> DEFINE l == [th[t] EXCEPT !.pc = "settle", !.client = None, !.old = set.client]
  <2>1. l \in Local /\ Sane(l)
    BY <1>16, <1>l DEF Commit, Local, Sane, Configured, PC, RegTypeOK
  <2>2. th' = [th EXCEPT ![t] = l]
    BY <1>16 DEF Commit
  <2>3. th[t].client \in Clients \cup {None} /\ th[t].cfg \in Cfgs \cup {None}
    BY <1>l DEF Local
  <2> HIDE DEF l
  <2>4. Typed
    BY <2>1, <2>2, Moves
  <2> QED BY <1>16, <2>3, <2>4 DEF Commit, RegTypeOK, NoPending
<1>17. CASE CommitStale(t)
  <2>1. Typed
    BY <1>17, ReturnType DEF CommitStale
  <2> QED BY <1>17, <2>1 DEF CommitStale, RegTypeOK
<1>18. CASE Settle(t)
  <2>1. Typed
    BY <1>18, ReturnType DEF Settle
  <2> QED BY <1>18, <2>1 DEF Settle, RegTypeOK
<1> QED BY <1>1, <1>2, <1>3, <1>4, <1>5, <1>6, <1>7, <1>8, <1>9, <1>10, <1>11,
           <1>12, <1>13, <1>14, <1>15, <1>16, <1>17, <1>18 DEF Step

\* A retry starts with the configuration of the pending entry.
LEMMA LaunchType ==
  ASSUME RegTypeOK, NEW t \in Retries, RetryLaunch(t)
  PROVE  RegTypeOK'
<1> DEFINE l == [Idle EXCEPT !.pc = "probe", !.gen = regGen, !.cfg = pending.cfg,
                             !.current = TRUE]
<1>1. l \in Local /\ Sane(l)
  BY DEF RetryLaunch, RegTypeOK, Idle, Local, Sane, Configured, PC, Errs
<1>2. th' = [th EXCEPT ![t] = l] /\ t \in Threads
  BY DEF RetryLaunch, Threads
<1> HIDE DEF l
<1>3. th' \in [Threads -> Local] /\ \A u \in Threads : Sane(th'[u])
  BY <1>1, <1>2, Moves
<1> QED BY <1>3 DEF RetryLaunch, RegTypeOK

\* Every step preserves the types.
LEMMA NextReg == RegTypeOK /\ [Next]_vars => RegTypeOK'
<1> SUFFICES ASSUME RegTypeOK, [Next]_vars PROVE RegTypeOK'
  OBVIOUS
<1>1. CASE UNCHANGED vars
  BY <1>1 DEF vars, RegTypeOK
<1> QED BY <1>1, OperationType, StepType, LaunchType DEF Next

\* Type correctness of the registration state and of every goroutine.
THEOREM RegTypeCorrect == Spec => []RegTypeOK
BY InitReg, NextReg, PTL DEF Spec

-----------------------------------------------------------------------------
(* Ownership: the generation tells a retry whether it is out of date       *)

\* A bump moves one goroutine and marks every attempt as out of date.
LEMMA BumpFrame ==
  ASSUME RegTypeOK, NEW t \in Threads, NEW pc, th' = Bumped([th EXCEPT ![t].pc = pc]),
         NEW u \in Threads
  PROVE  /\ th'[u].pc = IF u = t THEN pc ELSE th[u].pc
         /\ th'[u].gen = th[u].gen /\ ~th'[u].current
         /\ th'[u].client = th[u].client /\ th'[u].old = th[u].old
<1>1. th[u] \in Local /\ th[t] \in Local
  BY DEF RegTypeOK
<1> DEFINE k == [th EXCEPT ![t].pc = pc][u]
<1>2. th'[u] = [k EXCEPT !.current = FALSE]
  BY DEF Bumped
<1>3. k = IF u = t THEN [th[u] EXCEPT !.pc = pc] ELSE th[u]
  BY DEF RegTypeOK
<1> QED BY <1>1, <1>2, <1>3 DEF Local

\* What the other steps of a goroutine t do to the part of a local state that
\* RetryMarked is about: only t moves, and its generation and its mark stay
\* until it is over.
Keeps(t) ==
    \A u \in Threads :
       \/ th'[u] = th[u]
       \/ u = t /\ th'[u].gen = th[u].gen /\ th'[u].current = th[u].current
       \/ u = t /\ u \in Retries /\ th'[u].pc \in {"idle", "finish"}
       \/ u = t /\ u \notin Retries /\ th'[u] = Idle

\* Every step but the two bumps keeps generations and marks.
LEMMA StepKeeps ==
  ASSUME RegTypeOK, NEW t \in Threads, Step(t)
  PROVE  Keeps(t) \/ UnregisterBump(t) \/ RegisterBump(t)
<1>l. th[t] \in Local /\ th \in [Threads -> Local]
  BY DEF RegTypeOK
<1>1. ASSUME NEW pc, Go(t, pc) PROVE Keeps(t)
  BY <1>1, <1>l DEF Go, Keeps, Local
<1>2. ASSUME NEW pc, NEW e, GoErr(t, pc, e) PROVE Keeps(t)
  BY <1>2, <1>l DEF GoErr, Keeps, Local
<1>3. ASSUME Return(t) PROVE Keeps(t)
  BY <1>3, <1>l DEF Return, Keeps, Idle
<1>4. ASSUME UnregisterRows(t) PROVE Keeps(t)
  BY <1>4, <1>l DEF UnregisterRows, Keeps, Idle, Local
<1>5. ASSUME RetryFinish(t) PROVE Keeps(t)
  BY <1>5, <1>l DEF RetryFinish, Keeps, Idle
<1>6. ASSUME BuildSucceeds(t) PROVE Keeps(t)
  BY <1>6, <1>l DEF BuildSucceeds, Keeps, Local
<1>7. ASSUME Commit(t) PROVE Keeps(t)
  BY <1>7, <1>l DEF Commit, Keeps, Local
<1>8. CASE RestartCloses(t)
  BY <1>1, <1>8 DEF RestartCloses
<1>9. CASE UnregisterRoute(t)
  BY <1>1, <1>9 DEF UnregisterRoute
<1>10. CASE UnregisterMeta(t)
  BY <1>1, <1>10 DEF UnregisterMeta
<1>11. CASE StartServer(t)
  BY <1>1, <1>2, <1>11 DEF StartServer
<1>12. CASE RetryProbe(t)
  BY <1>1, <1>2, <1>3, <1>12 DEF RetryProbe
<1>13. CASE RetryDrop(t)
  BY <1>1, <1>13 DEF RetryDrop
<1>14. CASE RetryCheck(t)
  BY <1>1, <1>3, <1>14 DEF RetryCheck
<1>15. CASE BuildFails(t)
  BY <1>2, <1>15 DEF BuildFails
<1>16. CASE NoteFailure(t)
  BY <1>1, <1>3, <1>16 DEF NoteFailure
<1>17. CASE RecordFailure(t)
  BY <1>3, <1>17 DEF RecordFailure
<1>18. CASE CommitStale(t)
  BY <1>3, <1>18 DEF CommitStale
<1>19. CASE Settle(t)
  BY <1>3, <1>19 DEF Settle
<1> QED BY <1>4, <1>5, <1>6, <1>7, <1>8, <1>9, <1>10, <1>11, <1>12, <1>13, <1>14,
           <1>15, <1>16, <1>17, <1>18, <1>19 DEF Step

\* The control flow of the goroutines: what a step of t makes of its pc.
Edge(t, p, q) ==
    \/ p = "close" /\ q = "unbump"
    \/ p = "unbump" /\ q = "unroute"
    \/ p = "unroute" /\ q = "unmeta"
    \/ p = "unmeta" /\ q = "unrows"
    \/ p = "unrows" /\ q \in {"start", "idle"}
    \/ p = "start" /\ q = "bump"
    \/ p = "start" /\ q = "record" /\ t = "reload"
    \/ p = "start" /\ q = "note" /\ t = "restart"
    \/ p = "bump" /\ q = "build"
    \/ p = "probe" /\ q \in {"check", "drop"}
    \/ p = "drop" /\ q = "record"
    \/ p = "check" /\ q = "build"
    \/ p = "finish" /\ q = "idle"
    \/ p = "build" /\ q \in {"commit", "note"}
    \/ p = "note" /\ q = "record"
    \/ p = "commit" /\ q = "settle"
    \/ /\ p \in {"probe", "check", "note", "record", "commit", "settle"}
       /\ q = IF t \in Retries THEN "finish" ELSE "idle"

\* A step of t follows an edge and leaves the other goroutines where they are.
LEMMA StepEdge ==
  ASSUME RegTypeOK, NEW t \in Threads, Step(t)
  PROVE  /\ Edge(t, th[t].pc, th'[t].pc)
         /\ \A u \in Threads \ {t} : th'[u].pc = th[u].pc
<1>l. th[t] \in Local /\ th \in [Threads -> Local]
  BY DEF RegTypeOK
<1> DEFINE To(pc) == th'[t].pc = pc /\ \A u \in Threads \ {t} : th'[u].pc = th[u].pc
<1>1. ASSUME NEW pc, Go(t, pc) PROVE To(pc)
  BY <1>1, <1>l DEF Go, Local
<1>2. ASSUME NEW pc, NEW e, GoErr(t, pc, e) PROVE To(pc)
  BY <1>2, <1>l DEF GoErr, Local
<1>3. ASSUME Return(t) PROVE To(IF t \in Retries THEN "finish" ELSE "idle")
  BY <1>3, <1>l DEF Return, Idle
<1>4. ASSUME NEW pc, th' = Bumped([th EXCEPT ![t].pc = pc]) PROVE To(pc)
  BY <1>4, BumpFrame, ZenonT(30)
<1>5. CASE UnregisterRows(t)
  <2>1. To("start") \/ To("idle")
    BY <1>5, <1>l DEF UnregisterRows, Idle, Local
  <2> QED BY <1>5, <2>1 DEF UnregisterRows, Edge
<1>6. CASE RetryFinish(t)
  <2>1. To("idle")
    BY <1>6, <1>l DEF RetryFinish, Idle
  <2> QED BY <1>6, <2>1 DEF RetryFinish, Edge
<1>7. CASE BuildSucceeds(t)
  <2>1. To("commit")
    BY <1>7, <1>l DEF BuildSucceeds, Local
  <2> QED BY <1>7, <2>1 DEF BuildSucceeds, Edge
<1>8. CASE Commit(t)
  <2>1. To("settle")
    BY <1>8, <1>l DEF Commit, Local
  <2> QED BY <1>8, <2>1 DEF Commit, Edge
<1>9. CASE RestartCloses(t)
  BY <1>1, <1>9 DEF RestartCloses, Edge
<1>10. CASE UnregisterBump(t)
  BY <1>4, <1>10 DEF UnregisterBump, Edge
<1>11. CASE UnregisterRoute(t)
  BY <1>1, <1>11 DEF UnregisterRoute, Edge
<1>12. CASE UnregisterMeta(t)
  BY <1>1, <1>12 DEF UnregisterMeta, Edge
<1>13. CASE StartServer(t)
  <2>1. th[t].pc = "start"
    BY <1>13 DEF StartServer
  <2>2. CASE Go(t, "bump")
    <3>1. To("bump")
      BY <1>1, <2>2
    <3> QED BY <2>1, <3>1 DEF Edge
  <2>3. CASE t = "reload" /\ GoErr(t, "record", "terminal")
    <3>1. To("record")
      BY <1>2, <2>3
    <3>2. Edge(t, "start", "record")
      BY <2>3 DEF Edge
    <3> QED BY <2>1, <3>1, <3>2
  <2>4. CASE t = "restart" /\ GoErr(t, "note", "container")
    <3>1. To("note")
      BY <1>2, <2>4
    <3>2. Edge(t, "start", "note")
      BY <2>4 DEF Edge
    <3> QED BY <2>1, <3>1, <3>2
  <2> QED BY <1>13, <2>2, <2>3, <2>4 DEF StartServer
<1>14. CASE RegisterBump(t)
  BY <1>4, <1>14 DEF RegisterBump, Edge
<1>15. CASE RetryProbe(t)
  BY <1>1, <1>2, <1>3, <1>15 DEF RetryProbe, Edge
<1>16. CASE RetryDrop(t)
  BY <1>1, <1>16 DEF RetryDrop, Edge
<1>17. CASE RetryCheck(t)
  BY <1>1, <1>3, <1>17 DEF RetryCheck, Edge
<1>18. CASE BuildFails(t)
  BY <1>2, <1>18 DEF BuildFails, Edge
<1>19. CASE NoteFailure(t)
  BY <1>1, <1>3, <1>19 DEF NoteFailure, Edge
<1>20. CASE RecordFailure(t)
  BY <1>3, <1>20 DEF RecordFailure, Edge
<1>21. CASE CommitStale(t)
  BY <1>3, <1>21 DEF CommitStale, Edge
<1>22. CASE Settle(t)
  BY <1>3, <1>22 DEF Settle, Edge
<1> HIDE DEF To
<1> QED BY <1>5, <1>6, <1>7, <1>8, <1>9, <1>10, <1>11, <1>12, <1>13, <1>14, <1>15,
           <1>16, <1>17, <1>18, <1>19, <1>20, <1>21, <1>22 DEF Step

\* An operation starts on a goroutine that was idle and is not a retry.
LEMMA OperationStarts ==
  ASSUME RegTypeOK, Operation
  PROVE  \E e \in Explicit :
            /\ th[e].pc = "idle"
            /\ th'[e].pc \in {"start", "unbump", "close", "bump", "record"}
            /\ th'[e].gen = 0 /\ th'[e].client = None /\ th'[e].old = None
            /\ e = "restart" => th'[e].pc # "start"
            /\ \A u \in Threads \ {e} : th'[u] = th[u]
<1>l. th \in [Threads -> Local]
  BY DEF RegTypeOK
<1>1. CASE ReloadAdds
  BY <1>1, <1>l DEF ReloadAdds, Idle, Threads
<1>2. CASE ReloadRemoves
  BY <1>2, <1>l DEF ReloadRemoves, Idle, Threads
<1>3. CASE ReloadModifies
  BY <1>3, <1>l DEF ReloadModifies, Idle, Threads
<1>4. CASE RestartBegins
  <2>1. "restart" \in Explicit /\ "restart" \in Threads /\ th["restart"].pc = "idle"
    BY <1>4 DEF RestartBegins, Threads
  <2>2. ASSUME NEW l, th' = [th EXCEPT !["restart"] = l], l.pc \in {"close", "bump"},
               l.gen = 0, l.client = None, l.old = None
        PROVE  \E e \in Explicit :
                  /\ th[e].pc = "idle"
                  /\ th'[e].pc \in {"start", "unbump", "close", "bump", "record"}
                  /\ th'[e].gen = 0 /\ th'[e].client = None /\ th'[e].old = None
                  /\ e = "restart" => th'[e].pc # "start"
                  /\ \A u \in Threads \ {e} : th'[u] = th[u]
    BY <1>l, <2>1, <2>2
  <2> DEFINE r == [Idle EXCEPT !.pc = "close", !.cfg = meta, !.register = TRUE]
             p == [Idle EXCEPT !.pc = "bump", !.cfg = pending.cfg]
  <2>3. /\ r.pc = "close" /\ r.gen = 0 /\ r.client = None /\ r.old = None
        /\ p.pc = "bump" /\ p.gen = 0 /\ p.client = None /\ p.old = None
    BY DEF Idle
  <2>4. th' = [th EXCEPT !["restart"] = r] \/ th' = [th EXCEPT !["restart"] = p]
    BY <1>4 DEF RestartBegins
  <2> HIDE DEF r, p
  <2> QED BY <2>2, <2>3, <2>4
<1>5. CASE ReloadAddFails
  BY <1>5, <1>l DEF ReloadAddFails, Idle, Threads
<1> QED BY <1>1, <1>2, <1>3, <1>4, <1>5 DEF Operation

\* Retries never run the steps of an explicit operation, nor the converse.
Roles ==
    \A t \in Threads :
       IF t \in Retries
         THEN th[t].pc \notin {"unbump", "unroute", "unmeta", "unrows", "start", "bump",
                               "close"}
         ELSE th[t].pc \notin {"probe", "check", "drop", "finish"}

\* The roles are invariant.
LEMMA RolesKept == RegTypeOK /\ Roles /\ [Next]_vars => Roles'
<1> SUFFICES ASSUME RegTypeOK, Roles, [Next]_vars PROVE Roles'
  OBVIOUS
<1>1. CASE UNCHANGED vars
  BY <1>1 DEF vars, Roles
<1>2. CASE Operation
  BY <1>2, OperationStarts, RegAssumption DEF Roles, Threads
<1>3. ASSUME NEW t \in Threads, Step(t) PROVE Roles'
  BY <1>3, StepEdge DEF Roles, Edge
<1>4. ASSUME NEW t \in Retries, RetryLaunch(t) PROVE Roles'
  <2> DEFINE l == [Idle EXCEPT !.pc = "probe", !.gen = regGen, !.cfg = pending.cfg,
                               !.current = TRUE]
  <2>1. th' = [th EXCEPT ![t] = l] /\ l.pc = "probe"
    BY <1>4 DEF RetryLaunch, Idle
  <2> HIDE DEF l
  <2> QED BY <1>4, <2>1 DEF Roles, RegTypeOK
<1> QED BY <1>1, <1>2, <1>3, <1>4 DEF Next

\* Bumps are the only steps that change the generation, and they raise it.
LEMMA GenSteps ==
  ASSUME RegTypeOK, [Next]_vars
  PROVE  /\ regGen \in Nat /\ regGen' \in Nat /\ regGen' >= regGen
         /\ \A t \in Threads :
               (Step(t) /\ th[t].pc \notin {"unbump", "bump"}) => regGen' = regGen
         /\ \A t \in Threads :
               (Step(t) /\ th[t].pc \in {"unbump", "bump"}) => regGen' = regGen + 1
<1>1. regGen \in Nat
  BY DEF RegTypeOK
<1>2. ASSUME NEW t \in Threads, Step(t)
      PROVE  regGen' = IF th[t].pc \in {"unbump", "bump"} THEN regGen + 1 ELSE regGen
  BY <1>2 DEF Step, RestartCloses, UnregisterBump, UnregisterRoute, UnregisterMeta,
              UnregisterRows, StartServer, RegisterBump, RetryProbe, RetryDrop, RetryCheck,
              RetryFinish, BuildSucceeds, BuildFails, NoteFailure, RecordFailure, Commit,
              CommitStale, Settle
<1>3. ASSUME Operation PROVE regGen' = regGen
  BY <1>3 DEF Operation, ReloadAdds, ReloadAddFails, ReloadRemoves, ReloadModifies,
         RestartBegins
<1>4. ASSUME \E t \in Retries : RetryLaunch(t) PROVE regGen' = regGen
  BY <1>4 DEF RetryLaunch
<1>5. ASSUME UNCHANGED vars PROVE regGen' = regGen
  BY <1>5 DEF vars
<1>6. regGen' = regGen \/ regGen' = regGen + 1
  BY <1>2, <1>3, <1>4, <1>5 DEF Next
<1> QED BY <1>1, <1>2, <1>6

\* A pending entry is written where a failure is noted, and nowhere else.
LEMMA PendingSteps ==
  ASSUME RegTypeOK, [Next]_vars, pending'.cfg # None
  PROVE  pending.cfg # None \/ \E t \in Threads : NoteFailure(t)
<1>p. pending \in [cfg : Cfgs \cup {None}, inFlight : BOOLEAN]
  BY DEF RegTypeOK
<1>1. ASSUME NEW t \in Threads, Step(t)
      PROVE  NoteFailure(t) \/ pending'.cfg = pending.cfg \/ pending'.cfg = None
  BY <1>1, <1>p DEF Step, RestartCloses, UnregisterBump, UnregisterRoute, UnregisterMeta,
              UnregisterRows, StartServer, RegisterBump, RetryProbe, RetryDrop, RetryCheck,
              RetryFinish, BuildSucceeds, BuildFails, RecordFailure, Commit,
              CommitStale, Settle, NoPending
<1>2. CASE Operation
  BY <1>2 DEF Operation, ReloadAdds, ReloadAddFails, ReloadRemoves, ReloadModifies,
         RestartBegins
<1>3. CASE \E t \in Retries : RetryLaunch(t)
  BY <1>3 DEF RetryLaunch
<1>4. CASE UNCHANGED vars
  BY <1>4 DEF vars
<1> QED BY <1>1, <1>2, <1>3, <1>4 DEF Next

\* A step of t keeps every goroutine marked.
LEMMA StepMarked ==
  ASSUME RegTypeOK, Roles, \A u \in Threads : Marked(u),
         NEW t \in Threads, Step(t), NEW u \in Threads
  PROVE  Marked(u)'
<1>g. /\ regGen \in Nat /\ regGen' \in Nat
      /\ th[t].pc \notin {"unbump", "bump"} => regGen' = regGen
      /\ th[t].pc \in {"unbump", "bump"} => regGen' = regGen + 1
  BY GenSteps DEF Next
<1>e. Edge(t, th[t].pc, th'[t].pc) /\ (u # t => th'[u].pc = th[u].pc)
  BY StepEdge
<1>m. Marked(u) /\ Marked(t)
  OBVIOUS
<1>n. th[u].gen \in Nat /\ th[u].current \in BOOLEAN
  BY DEF RegTypeOK, Local
<1>1. CASE UnregisterBump(t) \/ RegisterBump(t)
  <2>1. th[t].pc \in {"unbump", "bump"} /\ regGen' = regGen + 1 /\ regGen' > 0
    BY <1>1, <1>g DEF UnregisterBump, RegisterBump
  <2>2. th'[u].gen = th[u].gen /\ ~th'[u].current
    BY <1>1, BumpFrame DEF UnregisterBump, RegisterBump
  <2>3. CASE u \in Retries
    <3>1. th'[u].pc \notin {"idle", "finish"} => th[u].pc \notin {"idle", "finish"}
      BY <1>e, <2>1, <2>3 DEF Edge
    <3>2. th[u].pc \notin {"idle", "finish"} => th[u].gen \in 1 .. regGen
      BY <1>m, <2>3 DEF Marked
    <3>3. th'[u].pc \notin {"idle", "finish"} =>
             th'[u].gen \in 1 .. regGen' /\ th'[u].gen # regGen'
      BY <1>g, <1>n, <2>1, <2>2, <3>1, <3>2
    <3> QED BY <2>2, <2>3, <3>3 DEF Marked
  <2>4. CASE u \notin Retries
    BY <1>m, <2>1, <2>2, <2>4 DEF Marked
  <2> QED BY <2>3, <2>4
<1>2. CASE Keeps(t) /\ ~UnregisterBump(t) /\ ~RegisterBump(t)
  <2>1. regGen' >= regGen
    BY <1>g
  <2>2. CASE u # t
    <3>1. th'[u] = th[u]
      BY <1>2, <2>2 DEF Keeps
    <3>2. CASE th[t].pc \notin {"unbump", "bump"}
      BY <1>m, <1>g, <3>1, <3>2 DEF Marked
    <3>3. CASE th[t].pc \in {"unbump", "bump"}
      BY <1>2, <3>3 DEF Step, RestartCloses, UnregisterRoute, UnregisterMeta,
              UnregisterRows, StartServer, RetryProbe, RetryDrop, RetryCheck,
              RetryFinish, BuildSucceeds, BuildFails, NoteFailure, RecordFailure, Commit,
              CommitStale, Settle
    <3> QED BY <3>2, <3>3
  <2>3. CASE u = t /\ t \in Retries
    <3>1. regGen' = regGen
      BY <1>g, <2>3 DEF Roles
    <3>2. th'[u].pc \notin {"idle", "finish"} =>
             /\ th[u].pc \notin {"idle", "finish"}
             /\ th'[u].gen = th[u].gen /\ th'[u].current = th[u].current
      BY <1>2, <1>e, <2>3 DEF Edge, Keeps, Idle
    <3> QED BY <1>m, <2>3, <3>1, <3>2 DEF Marked
  <2>4. CASE u = t /\ t \notin Retries
    <3>1. th'[u].gen = 0
      BY <1>2, <1>m, <2>4 DEF Keeps, Marked, Idle
    <3>2. \/ th[t].pc \in {"unbump", "bump"} /\ regGen' > 0
          \/ th[t].pc \notin {"unbump", "bump"} /\ regGen' = regGen
      BY <1>g
    <3>3. th'[u].pc \in {"unroute", "unmeta", "unrows", "build", "note", "commit"}
             => regGen' > 0
      BY <1>e, <1>m, <2>4, <3>2 DEF Edge, Marked, Roles
    <3>4. (u = "restart" /\ th'[u].pc = "start") => regGen' > 0
      BY <1>e, <1>m, <2>4, <3>2 DEF Edge, Marked, Roles
    <3> QED BY <2>4, <3>1, <3>3, <3>4 DEF Marked
  <2> QED BY <2>2, <2>3, <2>4
<1> QED BY <1>1, <1>2, StepKeeps

\* The inductive invariant: types, roles and marks.
RegInv == RegTypeOK /\ Roles /\ RetryMarked

\* It holds at first.
LEMMA InitRegInv == Init => RegInv
<1> SUFFICES ASSUME Init PROVE RegInv
  OBVIOUS
<1>1. RegTypeOK
  BY InitReg
<1>2. \A t \in Threads : th[t] = Idle
  BY DEF Init
<1>3. Roles
  BY <1>2 DEF Roles, Idle
<1>4. RetryMarked
  BY <1>2 DEF RetryMarked, Marked, Idle, Init, NoPending
<1> QED BY <1>1, <1>3, <1>4 DEF RegInv

\* Every step preserves it.
LEMMA NextRegInv == RegInv /\ [Next]_vars => RegInv'
<1> SUFFICES ASSUME RegInv, [Next]_vars PROVE RegInv'
  OBVIOUS
<1>i. RegTypeOK /\ Roles /\ RetryMarked /\ \A u \in Threads : Marked(u)
  BY DEF RegInv, RetryMarked
<1>g. regGen \in Nat /\ regGen' \in Nat /\ regGen' >= regGen
  BY <1>i, GenSteps
<1>1. pending'.cfg # None => regGen' > 0
  <2>1. ASSUME NEW t \in Threads, NoteFailure(t) PROVE regGen > 0
    <3>1. th[t].pc = "note" /\ Marked(t)
      BY <1>i, <2>1 DEF NoteFailure
    <3> QED BY <1>g, <3>1 DEF Marked
  <2>2. pending'.cfg # None => regGen > 0
    BY <1>i, <2>1, PendingSteps DEF RetryMarked
  <2> QED BY <1>g, <2>2
<1>2. ASSUME NEW u \in Threads PROVE Marked(u)'
  <2>1. CASE UNCHANGED vars
    BY <1>i, <2>1 DEF vars, Marked
  <2>2. CASE Operation
    <3>1. regGen' = regGen
      BY <2>2 DEF Operation, ReloadAdds, ReloadAddFails, ReloadRemoves, ReloadModifies,
         RestartBegins
    <3>2. PICK e \in Explicit :
             /\ th'[e].pc \in {"start", "unbump", "close", "bump", "record"}
             /\ th'[e].gen = 0 /\ (e = "restart" => th'[e].pc # "start")
             /\ \A v \in Threads \ {e} : th'[v] = th[v]
      BY <1>i, <2>2, OperationStarts
    <3>3. CASE u = e
      BY <3>2, <3>3, RegAssumption DEF Marked
    <3>4. CASE u # e
      BY <1>i, <3>1, <3>2, <3>4 DEF Marked
    <3> QED BY <3>3, <3>4
  <2>3. ASSUME NEW t \in Threads, Step(t) PROVE Marked(u)'
    BY <1>i, <2>3, StepMarked
  <2>4. ASSUME NEW t \in Retries, RetryLaunch(t) PROVE Marked(u)'
    <3> DEFINE l == [Idle EXCEPT !.pc = "probe", !.gen = regGen, !.cfg = pending.cfg,
                                 !.current = TRUE]
    <3>1. th' = [th EXCEPT ![t] = l] /\ regGen' = regGen /\ regGen > 0
      BY <1>i, <2>4 DEF RetryLaunch, RetryMarked
    <3>2. l.gen = regGen /\ l.current = TRUE
      BY DEF Idle
    <3>3. th \in [Threads -> Local]
      BY <1>i DEF RegTypeOK
    <3> HIDE DEF l
    <3>4. CASE u = t
      <4>1. th'[u] = l
        BY <3>1, <3>3, <3>4
      <4> QED BY <1>g, <2>4, <3>1, <3>2, <3>4, <4>1 DEF Marked
    <3>5. CASE u # t
      <4>1. th'[u] = th[u]
        BY <3>1, <3>3, <3>5
      <4> QED BY <1>i, <3>1, <4>1 DEF Marked
    <3> QED BY <3>4, <3>5
  <2> QED BY <2>1, <2>2, <2>3, <2>4 DEF Next
<1> QED BY <1>i, <1>1, <1>2, NextReg, RolesKept DEF RegInv, RetryMarked

\* A retry's generation tells whether an explicit operation has begun since.
THEOREM RetriesAreMarked == Spec => []RetryMarked
<1>1. RegInv => RetryMarked
  BY DEF RegInv
<1> QED BY <1>1, InitRegInv, NextRegInv, PTL DEF Spec

\* The generation check at the commit works for every number of explicit
\* operations and retries: registerReplicaSet never commits a retry that an
\* explicit registration or unregistration has overtaken.
THEOREM CommitsAreOwned == Spec => CommitOwned
<1> DEFINE Owned == \A t \in Retries :
                       (th[t].pc = "commit" /\ th'[t].pc = "settle") => th[t].current
<1>1. RegInv /\ [Next]_vars => [Owned]_vars
  <2> SUFFICES ASSUME RegInv, Next, NEW t \in Retries, th[t].pc = "commit",
                      th'[t].pc = "settle"
               PROVE  th[t].current
    OBVIOUS
  <2>i. RegTypeOK /\ Marked(t) /\ t \in Threads /\ th \in [Threads -> Local]
    BY DEF RegInv, RetryMarked, Threads, RegTypeOK
  <2>1. CASE Operation
    BY <2>i, <2>1, OperationStarts
  <2>2. ASSUME NEW u \in Threads, Step(u) PROVE Commit(t)
    <3>1. u = t
      BY <2>i, <2>2, StepEdge
    <3>2. ~CommitStale(t)
      BY <2>i DEF CommitStale, Return, Idle
    <3> QED BY <2>2, <3>1, <3>2 DEF Step, RestartCloses, UnregisterBump, UnregisterRoute,
              UnregisterMeta, UnregisterRows, StartServer, RegisterBump, RetryProbe,
              RetryDrop, RetryCheck, RetryFinish, BuildSucceeds, BuildFails, NoteFailure,
              RecordFailure, Settle
  <2>3. CASE Commit(t)
    BY <2>i, <2>3 DEF Commit, Marked
  <2>4. ASSUME NEW u \in Retries, RetryLaunch(u) PROVE FALSE
    <3>1. u # t
      BY <2>4 DEF RetryLaunch
    <3>2. th'[t] = th[t]
      BY <2>i, <2>4, <3>1 DEF RetryLaunch
    <3> QED BY <3>2
  <2> QED BY <2>1, <2>2, <2>3, <2>4 DEF Next
<1> QED BY <1>1, InitRegInv, NextRegInv, PTL DEF Spec, CommitOwned

-----------------------------------------------------------------------------
(* The mark on a pending entry is always cleared                           *)

\* Only a launch marks an entry; the deferred reset clears the mark.
LEMMA MarkSteps ==
  ASSUME RegTypeOK, NEW t \in Threads, Step(t), pending'.inFlight
  PROVE  pending.inFlight /\ th[t].pc # "finish"
<1>p. pending \in [cfg : Cfgs \cup {None}, inFlight : BOOLEAN]
  BY DEF RegTypeOK
<1>1. CASE NoteFailure(t)
  BY <1>1, <1>p DEF NoteFailure, NoPending
<1>2. CASE ~NoteFailure(t)
  BY <1>2, <1>p DEF Step, RestartCloses, UnregisterBump, UnregisterRoute, UnregisterMeta,
              UnregisterRows, StartServer, RegisterBump, RetryProbe, RetryDrop, RetryCheck,
              RetryFinish, BuildSucceeds, BuildFails, RecordFailure, Commit,
              CommitStale, Settle, NoPending
<1> QED BY <1>1, <1>2

\* Every return of attemptRegistration runs its deferred reset: an entry
\* marked in flight has an attempt under way, so no entry is left unretried.
THEOREM NoEntryIsStranded == Spec => []InFlightHeld
<1>1. Init => InFlightHeld
  BY DEF Init, NoPending, InFlightHeld
<1>2. RegInv /\ InFlightHeld /\ [Next]_vars => InFlightHeld'
  <2> SUFFICES ASSUME RegInv, InFlightHeld, [Next]_vars, pending'.inFlight
               PROVE  \E r \in Retries : th'[r].pc # "idle"
    BY DEF InFlightHeld
  <2>i. RegTypeOK /\ Roles /\ th \in [Threads -> Local]
    BY DEF RegInv, RegTypeOK
  <2>1. CASE UNCHANGED vars
    BY <2>1 DEF vars, InFlightHeld
  <2>2. CASE Operation
    <3>1. pending.inFlight
      BY <2>2 DEF Operation, ReloadAdds, ReloadAddFails, ReloadRemoves, ReloadModifies,
         RestartBegins
    <3> QED BY <2>i, <2>2, <3>1, OperationStarts, RegAssumption DEF InFlightHeld, Threads
  <2>3. ASSUME NEW t \in Threads, Step(t) PROVE \E r \in Retries : th'[r].pc # "idle"
    <3>1. pending.inFlight /\ th[t].pc # "finish"
      BY <2>i, <2>3, MarkSteps
    <3>2. PICK r \in Retries : th[r].pc # "idle"
      BY <3>1 DEF InFlightHeld
    <3>3. r \in Threads
      BY DEF Threads
    <3>4. CASE r = t
      BY <2>i, <2>3, <3>1, <3>4, StepEdge DEF Edge, Roles
    <3>5. CASE r # t
      BY <2>i, <2>3, <3>2, <3>3, <3>5, StepEdge
    <3> QED BY <3>4, <3>5
  <2>4. ASSUME NEW t \in Retries, RetryLaunch(t) PROVE \E r \in Retries : th'[r].pc # "idle"
    <3> DEFINE l == [Idle EXCEPT !.pc = "probe", !.gen = regGen, !.cfg = pending.cfg,
                                 !.current = TRUE]
    <3>1. th' = [th EXCEPT ![t] = l] /\ l.pc = "probe" /\ t \in Threads
      BY <2>4 DEF RetryLaunch, Idle, Threads
    <3> HIDE DEF l
    <3> QED BY <2>i, <3>1
  <2> QED BY <2>1, <2>2, <2>3, <2>4 DEF Next
<1> QED BY <1>1, <1>2, InitRegInv, NextRegInv, PTL DEF Spec

-----------------------------------------------------------------------------
(* No connection is lost                                                   *)

\* A goroutine that is not at its commit or settling holds no client, so its
\* step, if it opens and routes nothing, loses none.
LEMMA NothingHeld ==
  ASSUME RegTypeOK, ClientsAccounted, NEW t \in Threads,
         th[t].pc \notin {"commit", "settle"},
         \A u \in Threads \ {t} : th'[u].client = th[u].client /\ th'[u].old = th[u].old,
         open' \subseteq open, set' = set, dropped' = dropped
  PROVE  ClientsAccounted'
<1>1. th[t].client = None /\ th[t].old = None
  BY DEF RegTypeOK, Sane
<1>2. None \notin open
  BY RegAssumption DEF RegTypeOK
<1> QED BY <1>1, <1>2 DEF ClientsAccounted

\* A step of t leaves what the other goroutines hold.
LEMMA OthersHold ==
  ASSUME RegTypeOK, NEW t \in Threads, Step(t), NEW u \in Threads \ {t}
  PROVE  th'[u].client = th[u].client /\ th'[u].old = th[u].old
<1>1. CASE UnregisterBump(t) \/ RegisterBump(t)
  BY <1>1, BumpFrame DEF UnregisterBump, RegisterBump
<1>2. CASE Keeps(t)
  BY <1>2 DEF Keeps
<1> QED BY <1>1, <1>2, StepKeeps

\* The steps of a goroutine lose no connection.
LEMMA StepAccounts ==
  ASSUME RegTypeOK, ClientsAccounted, NEW t \in Threads, Step(t)
  PROVE  ClientsAccounted'
<1>l. /\ th \in [Threads -> Local] /\ th[t] \in Local /\ Sane(th[t])
      /\ None \notin open /\ open \subseteq Clients
  BY RegAssumption DEF RegTypeOK
<1>o. \A u \in Threads \ {t} : th'[u].client = th[u].client /\ th'[u].old = th[u].old
  BY OthersHold
<1>1. CASE UnregisterRoute(t)
  <2>1. th'[t].client = th[t].client /\ th'[t].old = th[t].old
    BY <1>1, <1>l DEF UnregisterRoute, Go, Local
  <2>2. open' = open /\ dropped' = dropped \cup (open \cap {set.client})
    BY <1>1 DEF UnregisterRoute
  <2> QED BY <1>o, <2>1, <2>2 DEF ClientsAccounted
<1>2. CASE BuildSucceeds(t)
  <2> DEFINE c == CHOOSE c \in Free : TRUE
  <2>1. /\ open' = open \cup {c} /\ set' = set /\ dropped' = dropped
        /\ th' = [th EXCEPT ![t] = [th[t] EXCEPT !.pc = "commit", !.client = c]]
    BY <1>2 DEF BuildSucceeds
  <2> HIDE DEF c
  <2>2. th'[t].client = c /\ th'[t].old = th[t].old /\ th[t].client = None
    BY <1>2, <1>l, <2>1 DEF BuildSucceeds, Local, Sane
  <2> QED BY <1>l, <1>o, <2>1, <2>2 DEF ClientsAccounted
<1>3. CASE Commit(t)
  <2>1. th'[t].old = set.client /\ th[t].old = None
    BY <1>3, <1>l DEF Commit, Local, Sane
  <2>2. set'.client = th[t].client /\ open' = open /\ dropped' = dropped
    BY <1>3 DEF Commit
  <2> QED BY <1>l, <1>o, <2>1, <2>2 DEF ClientsAccounted
<1>4. CASE CommitStale(t)
  <2>1. th[t].old = None
    BY <1>4, <1>l DEF CommitStale, Sane
  <2>2. open' = open \ {th[t].client} /\ set' = set /\ dropped' = dropped
    BY <1>4 DEF CommitStale
  <2> QED BY <1>l, <1>o, <2>1, <2>2 DEF ClientsAccounted
<1>5. CASE Settle(t)
  <2>1. th[t].client = None
    BY <1>5, <1>l DEF Settle, Sane
  <2>2. open' = open \ {th[t].old} /\ set' = set /\ dropped' = dropped
    BY <1>5 DEF Settle
  <2> QED BY <1>l, <1>o, <2>1, <2>2 DEF ClientsAccounted
<1>6. CASE ~(\/ UnregisterRoute(t) \/ BuildSucceeds(t) \/ Commit(t) \/ CommitStale(t)
             \/ Settle(t))
  <2>1. /\ th[t].pc \notin {"commit", "settle"}
        /\ open' \subseteq open /\ set' = set /\ dropped' = dropped
    BY <1>6 DEF Step, RestartCloses, UnregisterBump, UnregisterMeta, UnregisterRows,
                StartServer, RegisterBump, RetryProbe, RetryDrop, RetryCheck, RetryFinish,
                BuildFails, NoteFailure, RecordFailure
  <2> QED BY <1>o, <2>1, NothingHeld
<1> QED BY <1>1, <1>2, <1>3, <1>4, <1>5, <1>6

\* For any number of retries and explicit operations: every live connection is
\* routed, or some goroutine will still commit or close it, or it was dropped
\* by UnregisterMCPServer, which closes nothing.
THEOREM NoClientIsLost == Spec => []ClientsAccounted
<1>1. Init => ClientsAccounted
  BY DEF Init, ClientsAccounted
<1>2. RegInv /\ ClientsAccounted /\ [Next]_vars => ClientsAccounted'
  <2> SUFFICES ASSUME RegInv, ClientsAccounted, [Next]_vars PROVE ClientsAccounted'
    OBVIOUS
  <2>i. RegTypeOK
    BY DEF RegInv
  <2>1. CASE UNCHANGED vars
    BY <2>1 DEF vars, ClientsAccounted
  <2>2. CASE Operation
    <3>1. open' = open /\ set' = set /\ dropped' = dropped
      BY <2>2 DEF Operation, ReloadAdds, ReloadAddFails, ReloadRemoves, ReloadModifies,
         RestartBegins
    <3>2. PICK e \in Explicit : th[e].pc = "idle" /\ \A u \in Threads \ {e} : th'[u] = th[u]
      BY <2>i, <2>2, OperationStarts
    <3> QED BY <2>i, <3>1, <3>2, NothingHeld DEF Threads
  <2>3. ASSUME NEW t \in Threads, Step(t) PROVE ClientsAccounted'
    BY <2>i, <2>3, StepAccounts
  <2>4. ASSUME NEW t \in Retries, RetryLaunch(t) PROVE ClientsAccounted'
    <3>1. /\ th[t].pc = "idle" /\ t \in Threads /\ open' = open /\ set' = set
          /\ dropped' = dropped /\ \A u \in Threads \ {t} : th'[u] = th[u]
      BY <2>i, <2>4 DEF RetryLaunch, Threads, RegTypeOK
    <3> QED BY <2>i, <3>1, NothingHeld
  <2> QED BY <2>1, <2>2, <2>3, <2>4 DEF Next
<1> QED BY <1>1, <1>2, InitRegInv, NextRegInv, PTL DEF Spec, RegInv
=============================================================================
