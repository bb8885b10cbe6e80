------------------------- MODULE OAuthBroker_proofs -------------------------
(***************************************************************************)
(* The safety of the shared grant, for any number of servers, daemons,     *)
(* logins, logouts, clients and tokens.                                    *)
(***************************************************************************)
EXTENDS OAuthBroker, FiniteSetTheorems, TLAPS

Callers == Flows \cup Admins

\* Who may be where.
Roles ==
    /\ \A s \in Sources : th[s].pc \in {"idle", "creds", "ask", "persist", "discard"}
    /\ \A f \in Flows : th[f].pc \in {"idle", "register", "pending", "put", "drop", "clear"}
    /\ \A a \in Admins : th[a].pc \in {"idle", "look", "revoke", "delete", "drop", "clear"}

\* The logins that were stored are finitely many, and a mark counts some of them.
Counted ==
    /\ IsFiniteSet({f \in Flows : puts[f] # 0})
    /\ \A t \in Callers : mark[t] # None => mark[t].n <= Stored

\* A login is stored once, a call is reported once, and one that has written has
\* its mark.
Once ==
    /\ \A f \in Flows : puts[f] # 0 =>
           (th[f].pc \in {"drop", "clear"} \/ (th[f].pc = "idle" /\ told[f] # None))
    /\ \A t \in Callers :
           /\ told[t] # None => th[t].pc = "idle"
           /\ told[t] = "ok" => mark[t] # None
           /\ th[t].pc \in {"drop", "clear"} => (mark[t] # None /\ mark[t].at = th[t].at)

\* Only the flow itself has a token of a login that was not stored yet.
Placed ==
    /\ grant # None => puts[grant.login] # 0
    /\ \A s \in Sources : cache[s] # None => puts[cache[s].login] # 0
    /\ \A t \in Threads :
           /\ th[t].pc \in {"creds", "ask", "revoke"} => puts[th[t].old.login] # 0
           /\ th[t].pc = "persist" => puts[th[t].tok.login] # 0
           /\ th[t].pc = "put" => th[t].tok.login = t

\* What is served was stored.
Persisted ==
    /\ grant # None => grant.access \in saved
    /\ PersistedBeforeUse

\* The refresh token that the authorization server will accept is the flow's, then
\* the stored one, or that of the only refresh under way.
Accepted ==
    /\ \A f \in Flows : th[f].pc = "put" => live[f] = th[f].tok.refresh
    /\ (grant # None /\ grant.login \notin excused
        /\ \A s \in Sources : th[s].pc = "persist" => th[s].tok.login # grant.login)
           => live[grant.login] = grant.refresh
    /\ \A s \in Sources :
           (th[s].pc = "persist" /\ th[s].tok.login \notin excused)
               => live[th[s].tok.login] = th[s].tok.refresh
    /\ \A s, q \in Sources, f \in Flows : (s # q /\ Refreshing(s, f) /\ Refreshing(q, f)) => f \in excused

\* The login or logout t has cleared the cache of s.
Cleared(t, s) == told[t] = "ok" \/ (th[t].pc = "clear" /\ s \notin th[t].left)

\* What is stored is later than every write that was marked, and so is what has
\* been cached since.
Later ==
    ~overtaken =>
        \A t \in Callers : mark[t] # None =>
            /\ grant # None => puts[grant.login] > mark[t].n
            /\ \A s \in Sources : (mark[t].at = DaemonOf[s] /\ cache[s] # None /\ Cleared(t, s))
                                      => puts[cache[s].login] > mark[t].n

OAuthInv ==
    OAuthTypeOK /\ Roles /\ Counted /\ Once /\ Placed /\ Persisted /\ Accepted /\ Later

-----------------------------------------------------------------------------
(* Goroutines                                                              *)

LEMMA Fields ==
    ASSUME NEW r \in Goroutine
    PROVE  /\ r.pc # "idle" => r.at \in Daemons
           /\ r.pc \in {"creds", "revoke", "ask"} => r.old \in Token
           /\ r.pc \in {"ask", "register", "pending"} => r.by \in 1..MaxClients
           /\ r.pc \in {"persist", "put"} => r.tok \in Token
           /\ r.pc = "clear" => r.left \in SUBSET Sources
  BY DEF Goroutine, Idle

LEMMA TokenFields ==
    ASSUME NEW tok \in Token
    PROVE  /\ tok.login \in Flows /\ tok.client \in 1..MaxClients
           /\ tok.access \in 1..MaxTokens /\ tok.refresh \in 0..MaxTokens
  BY DEF Token

LEMMA IdleGoroutine == Idle \in Goroutine /\ Idle.pc = "idle"
  BY DEF Goroutine, Idle

LEMMA Distinct ==
    /\ Sources \subseteq Threads /\ Flows \subseteq Threads /\ Admins \subseteq Threads /\ Callers \subseteq Threads
    /\ Sources \cap Callers = {} /\ Flows \cap Admins = {}
    /\ Callers = Flows \cup Admins /\ Threads = Sources \cup Callers
    /\ None \notin Token \cup {"ok", "failed"} /\ DaemonOf \in [Sources -> Daemons]
  BY OAuthAssumption DEF Threads, Callers

Moves(t, r) == th'[t] = r /\ \A u \in Threads \ {t} : th'[u] = th[u]

LEMMA GoMoves ==
    ASSUME OAuthTypeOK, NEW t \in Threads, NEW r \in Goroutine, Go(t, r)
    PROVE  th' \in [Threads -> Goroutine] /\ Moves(t, r)
  BY DEF OAuthTypeOK, Go, Moves

\* The program counter is one of t's.
InRole(t, pc) ==
    /\ t \in Sources => pc \in {"idle", "creds", "ask", "persist", "discard"}
    /\ t \in Flows => pc \in {"idle", "register", "pending", "put", "drop", "clear"}
    /\ t \in Admins => pc \in {"idle", "look", "revoke", "delete", "drop", "clear"}

LEMMA RolesKept ==
    ASSUME Roles, NEW t \in Threads, NEW r, Moves(t, r), InRole(t, r.pc)
    PROVE  Roles'
  BY Distinct DEF Roles, Moves, InRole

LEMMA StoredStays ==
    ASSUME UNCHANGED <<puts, mark>>, Counted
    PROVE  Stored' = Stored /\ Counted'
  <1>1. {f \in Flows : puts'[f] # 0} = {f \in Flows : puts[f] # 0}
    OBVIOUS
  <1>2. Stored' = Stored
    BY <1>1 DEF Stored
  <1> QED
    BY <1>1, <1>2 DEF Counted

\* The gateway's tokens, the store and the marks stay as they are, but a login may
\* be ended, while t goes on to r.
Goes(t, r) ==
    /\ Moves(t, r) /\ InRole(t, r.pc) /\ r.pc \notin {"persist", "put"}
    /\ UNCHANGED <<told, grant, cache, puts, mark, saved, overtaken>>
    /\ excused \subseteq excused'
    /\ \A f \in Flows : live'[f] = live[f] \/ (f \in excused' /\ puts[f] # 0)
    /\ th[t].pc = "persist" => th[t].tok.login \in excused'
    /\ r.pc \in {"creds", "ask", "revoke"} => (r.old \in Token /\ puts[r.old.login] # 0)
    /\ r.pc = "ask" =>
           (r.old.login \in excused' \/ \A q \in Sources \ {t} : ~Refreshing(q, r.old.login))
    /\ t \in Callers => told[t] = None
    /\ (t \in Flows /\ puts[t] # 0) => r.pc \in {"drop", "clear"}
    /\ r.pc \in {"drop", "clear"} => (mark[t] # None /\ mark[t].at = r.at)
    /\ r.pc = "clear" => \A s \in Sources : mark[t].at = DaemonOf[s] => s \in r.left

LEMMA GoesKeeps ==
    ASSUME OAuthInv, OAuthTypeOK', NEW t \in Threads, NEW r, Goes(t, r)
    PROVE  OAuthInv'
  <1> USE DEF OAuthInv
  <1>1. Moves(t, r) /\ UNCHANGED <<told, grant, cache, puts, mark, saved, overtaken>>
    BY DEF Goes
  <1>2. Roles'
    BY RolesKept DEF Goes
  <1>3. Counted'
    BY <1>1, StoredStays
  <1>4. Once'
    BY Distinct DEF Once, Goes, Moves
  <1>5. Placed'
    BY Distinct DEF Placed, Goes, Moves
  <1>6. Persisted'
    BY <1>1 DEF Persisted, PersistedBeforeUse
  <1>7. Accepted'
    <2>1. \A f \in Flows : th'[f].pc = "put" => live'[f] = th'[f].tok.refresh
      <3> SUFFICES ASSUME NEW f \in Flows, th'[f].pc = "put" PROVE live'[f] = th'[f].tok.refresh
        OBVIOUS
      <3>1. f # t /\ th'[f] = th[f]
        BY Distinct DEF Goes, Moves
      <3>2. puts[f] = 0
        BY <3>1 DEF Once
      <3> QED BY <3>1, <3>2 DEF Accepted, Goes
    <2>2. ASSUME grant' # None, grant'.login \notin excused',
                 \A s \in Sources : th'[s].pc = "persist" => th'[s].tok.login # grant'.login
          PROVE  live'[grant'.login] = grant'.refresh
      <3>1. grant \in Token /\ grant.login \in Flows
        BY <1>1, <2>2, TokenFields DEF OAuthTypeOK
      <3>2. \A s \in Sources : th[s].pc = "persist" => th[s].tok.login # grant.login
        <4> SUFFICES ASSUME NEW s \in Sources, th[s].pc = "persist" PROVE th[s].tok.login # grant.login
          OBVIOUS
        <4>1. CASE s = t
          BY <4>1, <1>1, <2>2 DEF Goes
        <4>2. CASE s # t
          BY <4>2, <1>1, <2>2, Distinct DEF Moves
        <4> QED BY <4>1, <4>2
      <3> QED BY <1>1, <2>2, <3>1, <3>2 DEF Accepted, Goes
    <2>3. ASSUME NEW s \in Sources, th'[s].pc = "persist", th'[s].tok.login \notin excused'
          PROVE  live'[th'[s].tok.login] = th'[s].tok.refresh
      <3>1. s # t /\ th'[s] = th[s]
        BY <2>3, Distinct DEF Goes, Moves
      <3>2. th[s].tok.login \in Flows
        BY <2>3, <3>1, Fields, TokenFields, Distinct DEF OAuthTypeOK
      <3> QED BY <2>3, <3>1, <3>2 DEF Accepted, Goes
    <2>4. ASSUME NEW s \in Sources, NEW q \in Sources, NEW f \in Flows, s # q, Refreshing(s, f)', Refreshing(q, f)'
          PROVE  f \in excused'
      <3>1. \A x \in Sources \ {t} : Refreshing(x, f)' => Refreshing(x, f)
        BY Distinct DEF Goes, Moves, Refreshing
      <3>2. CASE s # t /\ q # t
        BY <2>4, <3>1, <3>2 DEF Accepted, Goes
      <3>3. ASSUME NEW x \in Sources, x # t, Refreshing(x, f)', t \in Sources, Refreshing(t, f)'
            PROVE  f \in excused'
        <4>1. r.pc = "ask" /\ r.old.login = f
          BY <3>3 DEF Goes, Moves, Refreshing
        <4> QED BY <3>1, <3>3, <4>1 DEF Goes
      <3> QED BY <2>4, <3>2, <3>3
    <2> QED BY <2>1, <2>2, <2>3, <2>4 DEF Accepted
  <1>8. Later'
    <2> SUFFICES ASSUME ~overtaken, NEW u \in Callers, mark[u] # None
                 PROVE  /\ grant # None => puts[grant.login] > mark[u].n
                        /\ \A s \in Sources : (mark[u].at = DaemonOf[s] /\ cache[s] # None /\ Cleared(u, s)')
                                                  => puts[cache[s].login] > mark[u].n
      BY <1>1 DEF Later
    <2>1. \A s \in Sources : (mark[u].at = DaemonOf[s] /\ Cleared(u, s)') => Cleared(u, s)
      BY <1>1, Distinct DEF Goes, Moves, Cleared
    <2> QED BY <2>1 DEF Later
  <1> QED BY <1>2, <1>3, <1>4, <1>5, <1>6, <1>7, <1>8

-----------------------------------------------------------------------------
(* Requests and refreshes                                                  *)

\* A cache takes the stored token, or loses its own.
LEMMA CacheKeeps ==
    ASSUME OAuthInv, NEW s \in Sources, NEW x \in {grant, None}, cache' = [cache EXCEPT ![s] = x],
           UNCHANGED <<grant, client, bmu, th, told, server, ghosts>>
    PROVE  OAuthInv'
  <1> USE DEF OAuthInv
  <1>1. UNCHANGED <<issued, clients, live, expired, puts, mark, saved, excused, overtaken>>
    BY DEF server, ghosts
  <1>2. /\ cache' \in [Sources -> Token \cup {None}] /\ cache'[s] = x
        /\ \A q \in Sources \ {s} : cache'[q] = cache[q]
    BY DEF OAuthTypeOK
  <1>3. OAuthTypeOK'
    BY <1>1, <1>2 DEF OAuthTypeOK
  <1>4. Roles' /\ Once'
    BY <1>1 DEF Roles, Once
  <1>5. Counted'
    BY <1>1, StoredStays
  <1>6. Placed'
    BY <1>1, <1>2 DEF Placed
  <1>7. Persisted'
    BY <1>1, <1>2 DEF Persisted, PersistedBeforeUse
  <1>8. Accepted'
    BY <1>1 DEF Accepted, Refreshing
  <1>9. Later'
    BY <1>1, <1>2 DEF Later, Cleared
  <1> QED BY <1>3, <1>4, <1>5, <1>6, <1>7, <1>8, <1>9

LEMMA AuthHeaderKeeps ==
    ASSUME OAuthInv, NEW s \in Sources, AuthHeader(s)
    PROVE  OAuthInv'
  <1> USE DEF OAuthInv
  <1>1. UNCHANGED <<bmu, told, grant, client, issued, clients, live, expired, puts, mark, saved, excused, overtaken>>
    BY DEF AuthHeader, server, store, ghosts
  <1>2. CASE cache' = [cache EXCEPT ![s] = grant] /\ UNCHANGED th
    BY <1>1, <1>2, CacheKeeps DEF server, ghosts
  <1>3. CASE Refreshes /\ Go(s, [pc |-> "creds", at |-> DaemonOf[s], old |-> grant]) /\ UNCHANGED cache
    <2> DEFINE r == [pc |-> "creds", at |-> DaemonOf[s], old |-> grant]
    <2>1. grant \in Token /\ DaemonOf[s] \in Daemons
      BY <1>3, Distinct DEF Refreshes, OAuthTypeOK
    <2>2. r \in Goroutine /\ r.pc = "creds" /\ r.old = grant
      BY <2>1 DEF Goroutine
    <2> HIDE DEF r
    <2>3. th' \in [Threads -> Goroutine] /\ Moves(s, r)
      BY <1>3, <2>2, GoMoves, Distinct DEF r
    <2>4. OAuthTypeOK'
      BY <1>1, <1>3, <2>3 DEF OAuthTypeOK
    <2>5. Goes(s, r)
      BY <1>1, <1>3, <2>1, <2>2, <2>3, Distinct DEF Goes, AuthHeader, Refreshes, Placed, InRole
    <2> QED BY <2>4, <2>5, GoesKeeps, Distinct
  <1> QED BY <1>2, <1>3 DEF AuthHeader

LEMMA InvalidateKeeps ==
    ASSUME OAuthInv, NEW s \in Sources, InvalidateToken(s)
    PROVE  OAuthInv'
  BY CacheKeeps DEF InvalidateToken, store

LEMMA ClientCredsKeeps ==
    ASSUME OAuthInv, NEW s \in Sources, ClientCreds(s)
    PROVE  OAuthInv'
  <1> USE DEF OAuthInv
  <1>1. /\ th[s].pc = "creds"
        /\ UNCHANGED <<cache, bmu, told, grant, client, issued, clients, live, expired, puts, mark, saved, overtaken>>
    BY DEF ClientCreds, server, store
  <1>2. th[s].old \in Token /\ puts[th[s].old.login] # 0 /\ DaemonOf[s] \in Daemons /\ th[s].old.login \in Flows
    BY <1>1, Fields, TokenFields, Distinct DEF OAuthTypeOK, Placed
  <1>3. CASE client = 0
    <2>1. Go(s, Idle) /\ UNCHANGED excused
      BY <1>3 DEF ClientCreds
    <2>2. th' \in [Threads -> Goroutine] /\ Moves(s, Idle)
      BY <2>1, IdleGoroutine, GoMoves, Distinct
    <2>3. OAuthTypeOK'
      BY <1>1, <2>1, <2>2 DEF OAuthTypeOK
    <2>4. Goes(s, Idle)
      BY <1>1, <2>1, <2>2, IdleGoroutine, Distinct DEF Goes, InRole
    <2> QED BY <2>3, <2>4, GoesKeeps, Distinct
  <1>4. CASE client # 0
    <2> DEFINE r == [pc |-> "ask", at |-> DaemonOf[s], old |-> th[s].old, by |-> client]
    <2>1. /\ Go(s, r)
          /\ excused' = excused \cup {f \in {th[s].old.login} : \E q \in Sources : Refreshing(q, f)}
      BY <1>4 DEF ClientCreds
    <2>2. client \in 1..MaxClients
      BY <1>4, OAuthAssumption DEF OAuthTypeOK
    <2>3. r \in Goroutine /\ r.pc = "ask" /\ r.old = th[s].old
      BY <1>2, <2>2 DEF Goroutine
    <2> HIDE DEF r
    <2>4. th' \in [Threads -> Goroutine] /\ Moves(s, r)
      BY <2>1, <2>3, GoMoves, Distinct
    <2>5. OAuthTypeOK'
      BY <1>1, <1>2, <2>1, <2>4 DEF OAuthTypeOK
    <2>6. r.old.login \in excused' \/ \A q \in Sources \ {s} : ~Refreshing(q, r.old.login)
      BY <2>1, <2>3
    <2>7. Goes(s, r)
      BY <1>1, <1>2, <2>1, <2>3, <2>4, <2>6, Distinct DEF Goes, InRole
    <2> QED BY <2>5, <2>7, GoesKeeps, Distinct
  <1> QED BY <1>3, <1>4

\* A token of the refresh that is under way, at the authorization server.
LEMMA RefreshedToken ==
    ASSUME OAuthInv, NEW old \in Token, NEW rotate \in BOOLEAN, issued < MaxTokens
    PROVE  Refreshed(old, rotate) \in Token /\ Refreshed(old, rotate).login = old.login
  <1>1. issued + 1 \in 1..MaxTokens
    BY OAuthAssumption DEF OAuthInv, OAuthTypeOK
  <1>2. \A x \in Token, a \in 1..MaxTokens, b \in 0..MaxTokens :
            /\ [x EXCEPT !.access = a, !.refresh = b] \in Token
            /\ [x EXCEPT !.access = a, !.refresh = b].login = x.login
    BY DEF Token
  <1>3. issued + 1 \in 0..MaxTokens /\ old.refresh \in 0..MaxTokens
    BY <1>1, TokenFields, OAuthAssumption
  <1>4. PICK b \in 0..MaxTokens : Refreshed(old, rotate) = [old EXCEPT !.access = issued + 1, !.refresh = b]
    BY <1>3 DEF Refreshed
  <1>5. /\ [old EXCEPT !.access = issued + 1, !.refresh = b] \in Token
        /\ [old EXCEPT !.access = issued + 1, !.refresh = b].login = old.login
    <2> DEFINE a == issued + 1
    <2>1. a \in 1..MaxTokens
      BY <1>1
    <2> HIDE DEF a
    <2>2. [old EXCEPT !.access = a, !.refresh = b] \in Token /\ [old EXCEPT !.access = a, !.refresh = b].login = old.login
      BY <1>2, <2>1, Zenon
    <2> QED BY <2>2 DEF a
  <1> QED BY <1>4, <1>5

LEMMA RefreshGrantedKeeps ==
    ASSUME OAuthInv, NEW s \in Sources, NEW rotate \in BOOLEAN, RefreshGranted(s, rotate)
    PROVE  OAuthInv'
  <1> USE DEF OAuthInv
  <1> DEFINE tok == Refreshed(th[s].old, rotate)
             r == [pc |-> "persist", at |-> DaemonOf[s], tok |-> tok]
  <1>1. /\ th[s].pc = "ask" /\ issued < MaxTokens /\ Go(s, r) /\ live' = [live EXCEPT ![tok.login] = tok.refresh]
        /\ issued' = issued + 1
        /\ UNCHANGED <<cache, bmu, told, clients, expired, grant, client, puts, mark, saved, excused, overtaken>>
    BY DEF RefreshGranted, store, ghosts
  <1>2. th[s].old \in Token /\ puts[th[s].old.login] # 0 /\ DaemonOf[s] \in Daemons
    BY <1>1, Fields, Distinct DEF OAuthTypeOK, Placed
  <1>3. tok \in Token /\ tok.login = th[s].old.login
    BY <1>1, <1>2, RefreshedToken
  <1>4. r \in Goroutine /\ r.pc = "persist" /\ r.tok = tok
    BY <1>2, <1>3 DEF Goroutine
  <1> HIDE DEF tok, r
  <1>5. tok.login \in Flows /\ tok.refresh \in 0..MaxTokens
    BY <1>3, TokenFields
  <1>6. th' \in [Threads -> Goroutine] /\ Moves(s, r)
    BY <1>1, <1>4, GoMoves, Distinct
  <1>7. OAuthTypeOK'
    BY <1>1, <1>5, <1>6, OAuthAssumption DEF OAuthTypeOK
  <1>8. Roles' /\ Counted'
    BY <1>1, <1>4, <1>6, RolesKept, StoredStays, Distinct DEF InRole
  <1>9. Once' /\ Placed'
    <2>1. Once'
      BY <1>1, <1>4, <1>6, Distinct DEF Once, Moves
    <2>2. Placed'
      BY <1>1, <1>2, <1>3, <1>4, <1>6, Distinct DEF Placed, Moves
    <2> QED BY <2>1, <2>2
  <1>10. Persisted'
    BY <1>1 DEF Persisted, PersistedBeforeUse
  <1>11. Accepted'
    <2>1. live'[tok.login] = tok.refresh /\ \A f \in Flows \ {tok.login} : live'[f] = live[f]
      BY <1>1, <1>5 DEF OAuthTypeOK
    <2>2. ASSUME NEW f \in Flows, th'[f].pc = "put" PROVE live'[f] = th'[f].tok.refresh
      <3>1. th'[f] = th[f] /\ puts[f] = 0
        BY <1>6, <2>2, Distinct DEF Moves, Once
      <3>2. f # tok.login
        BY <3>1, <1>2, <1>3
      <3> QED BY <2>1, <2>2, <3>1, <3>2 DEF Accepted
    <2>3. \A q \in Sources \ {s} : th'[q] = th[q]
      BY <1>6, Distinct DEF Moves
    <2>4. Refreshing(s, tok.login) /\ \A f \in Flows : Refreshing(s, f)' <=> f = tok.login
      BY <1>1, <1>3, <1>4, <1>6 DEF Refreshing, Moves
    <2>5. ASSUME grant' # None, grant'.login \notin excused',
                 \A q \in Sources : th'[q].pc = "persist" => th'[q].tok.login # grant'.login
          PROVE  live'[grant'.login] = grant'.refresh
      <3>1. grant.login \in Flows
        BY <1>1, <2>5, TokenFields DEF OAuthTypeOK
      <3>2. grant.login # tok.login
        BY <1>1, <1>4, <1>6, <2>5 DEF Moves
      <3>3. \A q \in Sources : th[q].pc = "persist" => th[q].tok.login # grant.login
        BY <1>1, <2>3, <2>5
      <3> QED BY <1>1, <2>1, <2>5, <3>1, <3>2, <3>3 DEF Accepted
    <2>6. ASSUME NEW q \in Sources, th'[q].pc = "persist", th'[q].tok.login \notin excused'
          PROVE  live'[th'[q].tok.login] = th'[q].tok.refresh
      <3>1. CASE q = s
        BY <3>1, <2>1, <1>4, <1>6 DEF Moves
      <3>2. CASE q # s
        <4>1. th[q].tok.login \in Flows /\ Refreshing(q, th[q].tok.login)
          BY <2>3, <2>6, <3>2, Fields, TokenFields, Distinct DEF OAuthTypeOK, Refreshing
        <4>2. th[q].tok.login # tok.login
          BY <1>1, <2>3, <2>4, <2>6, <3>2, <4>1 DEF Accepted
        <4> QED BY <1>1, <2>1, <2>3, <2>6, <3>2, <4>1, <4>2 DEF Accepted
      <3> QED BY <3>1, <3>2
    <2>7. ASSUME NEW p \in Sources, NEW q \in Sources, NEW f \in Flows, p # q, Refreshing(p, f)', Refreshing(q, f)'
          PROVE  f \in excused'
      <3>1. \A x \in Sources : Refreshing(x, f)' => Refreshing(x, f)
        BY <2>3, <2>4 DEF Refreshing
      <3> QED BY <1>1, <2>7, <3>1 DEF Accepted
    <2> QED BY <2>2, <2>5, <2>6, <2>7 DEF Accepted
  <1>12. Later'
    BY <1>1, <1>6, Distinct DEF Later, Cleared, Moves
  <1> QED BY <1>7, <1>8, <1>9, <1>10, <1>11, <1>12

LEMMA AskEndsKeeps ==
    ASSUME OAuthInv, NEW s \in Sources, RefreshRejected(s) \/ RefreshFails(s)
    PROVE  OAuthInv'
  <1> USE DEF OAuthInv
  <1> DEFINE d == [pc |-> "discard", at |-> DaemonOf[s]]
  <1>1. /\ th[s].pc = "ask" /\ (Go(s, d) \/ Go(s, Idle))
        /\ UNCHANGED <<live, excused>> \/ LoginEnds(th[s].old.login)
        /\ UNCHANGED <<cache, bmu, told, issued, clients, expired, grant, client, puts, mark, saved, overtaken>>
    BY DEF RefreshRejected, RefreshFails, store
  <1>2. d \in Goroutine /\ d.pc = "discard"
    BY Distinct DEF Goroutine
  <1> HIDE DEF d
  <1>3. PICK r \in {Idle, d} : Go(s, r)
    BY <1>1
  <1>4. r \in Goroutine /\ r.pc \in {"idle", "discard"}
    BY <1>2, IdleGoroutine
  <1>5. th' \in [Threads -> Goroutine] /\ Moves(s, r)
    BY <1>3, <1>4, GoMoves, Distinct
  <1>6. th[s].old.login \in Flows /\ puts[th[s].old.login] # 0
    BY <1>1, Fields, TokenFields, Distinct DEF OAuthTypeOK, Placed
  <1>7. /\ live' \in [Flows -> 0..MaxTokens] /\ excused \subseteq excused' /\ excused' \subseteq Flows
        /\ \A f \in Flows : live'[f] = live[f] \/ (f \in excused' /\ puts[f] # 0)
    BY <1>1, <1>6, OAuthAssumption DEF LoginEnds, OAuthTypeOK
  <1>8. OAuthTypeOK'
    BY <1>1, <1>5, <1>7 DEF OAuthTypeOK
  <1>9. Goes(s, r)
    BY <1>1, <1>4, <1>5, <1>7, Distinct DEF Goes, InRole
  <1> QED BY <1>8, <1>9, GoesKeeps, Distinct

LEMMA PersistKeeps ==
    ASSUME OAuthInv, NEW s \in Sources, Persist(s)
    PROVE  OAuthInv'
  <1> USE DEF OAuthInv
  <1> DEFINE tok == th[s].tok
  <1>1. /\ th[s].pc = "persist" /\ Go(s, Idle) /\ grant' = tok /\ saved' = saved \cup {tok.access}
        /\ (overtaken' <=> (overtaken \/ grant = None \/ grant.login # tok.login)) /\ overtaken' \in BOOLEAN
        /\ cache' = [cache EXCEPT ![s] = tok]
        /\ UNCHANGED <<bmu, told, client, puts, mark, excused, issued, clients, live, expired>>
    BY DEF Persist, PutRefreshed, server, OAuthTypeOK
  <1>2. tok \in Token /\ tok.login \in Flows /\ tok.access \in 1..MaxTokens /\ puts[tok.login] # 0
    BY <1>1, Fields, TokenFields, Distinct DEF OAuthTypeOK, Placed
  <1> HIDE DEF tok
  <1>3. th' \in [Threads -> Goroutine] /\ Moves(s, Idle)
    BY <1>1, IdleGoroutine, GoMoves, Distinct
  <1>4. /\ cache' \in [Sources -> Token \cup {None}] /\ cache'[s] = tok
        /\ \A q \in Sources \ {s} : cache'[q] = cache[q]
    BY <1>1, <1>2 DEF OAuthTypeOK
  <1>5. OAuthTypeOK'
    BY <1>1, <1>2, <1>3, <1>4 DEF OAuthTypeOK
  <1>6. Roles' /\ Counted'
    BY <1>1, <1>3, IdleGoroutine, RolesKept, StoredStays, Distinct DEF InRole
  <1>7. Once'
    BY <1>1, <1>3, Distinct DEF Once, Moves
  <1>8. Placed'
    BY <1>1, <1>2, <1>3, <1>4, IdleGoroutine, Distinct DEF Placed, Moves
  <1>9. Persisted'
    BY <1>1, <1>2, <1>4, Distinct DEF Persisted, PersistedBeforeUse
  <1>10. Accepted'
    <2>1. \A f \in Flows : th'[f] = th[f]
      BY <1>3, Distinct DEF Moves
    <2>2. th'[s].pc = "idle" /\ \A q \in Sources \ {s} : th'[q] = th[q]
      BY <1>3, IdleGoroutine, Distinct DEF Moves
    <2>3. tok.login \notin excused => live[tok.login] = tok.refresh
      BY <1>1 DEF Accepted, tok
    <2>4. \A q \in Sources, f \in Flows : Refreshing(q, f)' => Refreshing(q, f)
      BY <2>2 DEF Refreshing
    <2> QED BY <1>1, <2>1, <2>2, <2>3, <2>4 DEF Accepted
  <1>11. Later'
    BY <1>1, <1>2, <1>3, <1>4, Distinct DEF Later, Cleared, Moves
  <1> QED BY <1>5, <1>6, <1>7, <1>8, <1>9, <1>10, <1>11

LEMMA PersistFailsKeeps ==
    ASSUME OAuthInv, NEW s \in Sources, PersistFails(s)
    PROVE  OAuthInv'
  <1> USE DEF OAuthInv
  <1>1. /\ th[s].pc = "persist" /\ Go(s, Idle) /\ excused' = excused \cup {th[s].tok.login}
        /\ UNCHANGED <<cache, bmu, told, puts, mark, saved, overtaken, issued, clients, live, expired, grant, client>>
    BY DEF PersistFails, server, store
  <1>2. th' \in [Threads -> Goroutine] /\ Moves(s, Idle)
    BY <1>1, IdleGoroutine, GoMoves, Distinct
  <1>3. th[s].tok.login \in Flows
    BY <1>1, Fields, TokenFields, Distinct DEF OAuthTypeOK
  <1>4. OAuthTypeOK'
    BY <1>1, <1>2, <1>3 DEF OAuthTypeOK
  <1>5. Goes(s, Idle)
    BY <1>1, <1>2, IdleGoroutine, Distinct DEF Goes, InRole
  <1> QED BY <1>4, <1>5, GoesKeeps, Distinct

LEMMA DiscardKeeps ==
    ASSUME OAuthInv, NEW s \in Sources, Discard(s)
    PROVE  OAuthInv'
  <1> USE DEF OAuthInv
  <1>1. /\ th[s].pc = "discard" /\ Go(s, Idle) /\ grant' \in {None, grant}
        /\ UNCHANGED <<cache, bmu, told, client, puts, mark, saved, excused, overtaken, issued, clients, live, expired>>
    BY DEF Discard, server, ghosts
  <1>2. th' \in [Threads -> Goroutine] /\ Moves(s, Idle)
    BY <1>1, IdleGoroutine, GoMoves, Distinct
  <1>3. OAuthTypeOK'
    BY <1>1, <1>2 DEF OAuthTypeOK
  <1>4. Roles' /\ Counted'
    BY <1>1, <1>2, IdleGoroutine, RolesKept, StoredStays, Distinct DEF InRole
  <1>5. Once'
    BY <1>1, <1>2, Distinct DEF Once, Moves
  <1>6. Placed'
    BY <1>1, <1>2, IdleGoroutine, Distinct DEF Placed, Moves
  <1>7. Persisted'
    BY <1>1 DEF Persisted, PersistedBeforeUse
  <1>8. Accepted'
    <2>1. \A f \in Flows : th'[f] = th[f]
      BY <1>2, Distinct DEF Moves
    <2>2. th'[s].pc = "idle" /\ \A q \in Sources \ {s} : th'[q] = th[q]
      BY <1>2, IdleGoroutine, Distinct DEF Moves
    <2>3. \A q \in Sources, f \in Flows : Refreshing(q, f)' => Refreshing(q, f)
      BY <2>2 DEF Refreshing
    <2> QED BY <1>1, <2>1, <2>2, <2>3 DEF Accepted
  <1>9. Later'
    BY <1>1, <1>2, Distinct DEF Later, Cleared, Moves
  <1> QED BY <1>3, <1>4, <1>5, <1>6, <1>7, <1>8, <1>9

-----------------------------------------------------------------------------
(* Logins                                                                  *)

LEMMA BeginKeeps ==
    ASSUME OAuthInv, NEW f \in Flows, NEW d \in Daemons, BeginAuthorization(f, d)
    PROVE  OAuthInv'
  <1> USE DEF OAuthInv
  <1>1. /\ th[f].pc = "idle" /\ told[f] = None
        /\ UNCHANGED <<cache, bmu, told, issued, live, expired, grant, client, puts, mark, saved, excused, overtaken>>
    BY DEF BeginAuthorization, New, store, ghosts
  <1>2. PICK r : /\ Go(f, r) /\ r \in Goroutine /\ r.pc \in {"register", "pending"}
                 /\ clients' \in 0..MaxClients
    <2>1. CASE client # 0
      <3>1. client \in 1..MaxClients
        BY <2>1, OAuthAssumption DEF OAuthTypeOK
      <3>2. [pc |-> "pending", at |-> d, by |-> client] \in Goroutine
        BY <3>1 DEF Goroutine
      <3> QED BY <2>1, <3>2 DEF BeginAuthorization, OAuthTypeOK
    <2>2. CASE client = 0
      <3>1. clients + 1 \in 1..MaxClients /\ clients + 1 \in 0..MaxClients
        BY <2>2, OAuthAssumption DEF BeginAuthorization, OAuthTypeOK
      <3>2. [pc |-> "register", at |-> d, by |-> clients + 1] \in Goroutine
        BY <3>1 DEF Goroutine
      <3> QED BY <2>2, <3>1, <3>2 DEF BeginAuthorization
    <2> QED BY <2>1, <2>2
  <1>3. th' \in [Threads -> Goroutine] /\ Moves(f, r)
    BY <1>2, GoMoves, Distinct
  <1>4. OAuthTypeOK'
    BY <1>1, <1>2, <1>3 DEF OAuthTypeOK
  <1>5. Goes(f, r)
    BY <1>1, <1>2, <1>3, Distinct DEF Goes, InRole, Once
  <1> QED BY <1>4, <1>5, GoesKeeps, Distinct

LEMMA PutRegistrationKeeps ==
    ASSUME OAuthInv, NEW f \in Flows, PutRegistration(f)
    PROVE  OAuthInv'
  <1> USE DEF OAuthInv
  <1> DEFINE p == [th[f] EXCEPT !.pc = "pending"]
  <1>1. /\ th[f].pc = "register" /\ ((client' = th[f].by /\ Go(f, p)) \/ (client' = client /\ Go(f, Idle)))
        /\ UNCHANGED <<cache, bmu, told, grant, issued, clients, live, expired, puts, mark, saved, excused, overtaken>>
    BY DEF PutRegistration, server, ghosts
  <1>2. th[f] \in [pc : {"register", "pending"}, at : Daemons, by : 1..MaxClients]
    BY <1>1, Distinct DEF OAuthTypeOK, Goroutine, Idle
  <1>3. p \in [pc : {"register", "pending"}, at : Daemons, by : 1..MaxClients] /\ p.pc = "pending"
    <2>1. \A x \in [pc : {"register", "pending"}, at : Daemons, by : 1..MaxClients] :
              LET y == [x EXCEPT !.pc = "pending"]
              IN  y \in [pc : {"register", "pending"}, at : Daemons, by : 1..MaxClients] /\ y.pc = "pending"
      OBVIOUS
    <2> QED BY <1>2, <2>1
  <1>4. p \in Goroutine
    BY <1>3 DEF Goroutine
  <1>5. client' \in 0..MaxClients
    BY <1>1, <1>2, OAuthAssumption DEF OAuthTypeOK
  <1> HIDE DEF p
  <1>6. PICK r \in {p, Idle} : Go(f, r)
    BY <1>1
  <1>7. th' \in [Threads -> Goroutine] /\ Moves(f, r) /\ r.pc \in {"pending", "idle"}
    BY <1>3, <1>4, <1>6, IdleGoroutine, GoMoves, Distinct
  <1>8. OAuthTypeOK'
    BY <1>1, <1>5, <1>7 DEF OAuthTypeOK
  <1>9. Goes(f, r)
    BY <1>1, <1>7, Distinct DEF Goes, InRole, Once, Callers
  <1> QED BY <1>8, <1>9, GoesKeeps, Distinct

\* A call that has not written ends without success.
LEMMA FailedKeeps ==
    ASSUME OAuthInv, NEW t \in Callers, Ends(t, "failed"),
           UNCHANGED <<cache, bmu, grant, client, server, ghosts>>
    PROVE  OAuthInv'
  <1> USE DEF OAuthInv
  <1>1. UNCHANGED <<issued, clients, live, expired, puts, mark, saved, excused, overtaken>>
    BY DEF server, ghosts
  <1>2. th' \in [Threads -> Goroutine] /\ Moves(t, Idle)
    BY IdleGoroutine, GoMoves, Distinct DEF Ends
  <1>3. /\ told' \in [Threads -> {None, "ok", "failed"}] /\ told'[t] = "failed"
        /\ \A u \in Threads \ {t} : told'[u] = told[u]
    BY Distinct DEF Ends, OAuthTypeOK
  <1>4. OAuthTypeOK'
    BY <1>1, <1>2, <1>3 DEF OAuthTypeOK
  <1>5. Roles' /\ Counted'
    BY <1>1, <1>2, IdleGoroutine, RolesKept, StoredStays, Distinct DEF InRole
  <1>6. Once'
    BY <1>1, <1>2, <1>3, IdleGoroutine, Distinct DEF Once, Moves
  <1>7. Placed'
    BY <1>1, <1>2, IdleGoroutine, Distinct DEF Placed, Moves
  <1>8. Persisted'
    BY <1>1 DEF Persisted, PersistedBeforeUse
  <1>9. Accepted'
    <2>1. \A s \in Sources : th'[s] = th[s]
      BY <1>2, Distinct DEF Moves
    <2>2. \A f \in Flows : th'[f].pc = "put" => th'[f] = th[f]
      BY <1>2, IdleGoroutine, Distinct DEF Moves
    <2>3. \A q \in Sources, f \in Flows : Refreshing(q, f)' <=> Refreshing(q, f)
      BY <2>1 DEF Refreshing
    <2> QED BY <1>1, <2>1, <2>2, <2>3 DEF Accepted
  <1>10. Later'
    BY <1>1, <1>2, <1>3, IdleGoroutine, Distinct DEF Later, Cleared, Moves
  <1> QED BY <1>4, <1>5, <1>6, <1>7, <1>8, <1>9, <1>10

LEMMA FlowFailsKeeps ==
    ASSUME OAuthInv, NEW f \in Flows, FlowFails(f)
    PROVE  OAuthInv'
  BY FailedKeeps, Distinct DEF FlowFails, store

LEMMA ExchangeKeeps ==
    ASSUME OAuthInv, NEW f \in Flows, NEW long \in BOOLEAN, Exchange(f, long)
    PROVE  OAuthInv'
  <1> USE DEF OAuthInv
  <1> DEFINE tok == [login |-> f, client |-> th[f].by, access |-> issued + 1,
                     refresh |-> IF long THEN issued + 1 ELSE 0]
             r == [pc |-> "put", at |-> th[f].at, tok |-> tok]
  <1>1. /\ th[f].pc = "pending" /\ issued < MaxTokens /\ issued' = issued + 1
        /\ Go(f, r) /\ live' = [live EXCEPT ![f] = tok.refresh]
        /\ UNCHANGED <<cache, bmu, told, clients, expired, grant, client, puts, mark, saved, excused, overtaken>>
    BY DEF Exchange, store, ghosts
  <1>2. issued + 1 \in 1..MaxTokens /\ issued' \in 0..MaxTokens /\ tok.refresh \in 0..MaxTokens
    BY <1>1, OAuthAssumption DEF OAuthTypeOK
  <1>3. th[f].by \in 1..MaxClients /\ th[f].at \in Daemons /\ puts[f] = 0 /\ told[f] = None
    BY <1>1, Fields, Distinct DEF OAuthTypeOK, Once
  <1>4. tok \in Token /\ tok.login = f
    BY <1>2, <1>3 DEF Token
  <1> HIDE DEF tok
  <1>5. r \in Goroutine /\ r.pc = "put" /\ r.tok = tok
    BY <1>3, <1>4 DEF Goroutine
  <1> HIDE DEF r
  <1>6. th' \in [Threads -> Goroutine] /\ Moves(f, r)
    BY <1>1, <1>5, GoMoves, Distinct
  <1>7. live' \in [Flows -> 0..MaxTokens] /\ live'[f] = tok.refresh /\ \A g \in Flows \ {f} : live'[g] = live[g]
    BY <1>1, <1>2 DEF OAuthTypeOK
  <1>8. OAuthTypeOK'
    BY <1>1, <1>2, <1>6, <1>7 DEF OAuthTypeOK
  <1>9. Roles' /\ Counted'
    BY <1>1, <1>5, <1>6, RolesKept, StoredStays, Distinct DEF InRole
  <1>10. Once'
    BY <1>1, <1>3, <1>5, <1>6, Distinct DEF Once, Moves
  <1>11. Placed'
    BY <1>1, <1>4, <1>5, <1>6, Distinct DEF Placed, Moves
  <1>12. Persisted'
    BY <1>1 DEF Persisted, PersistedBeforeUse
  <1>13. Accepted'
    <2>1. \A s \in Sources : th'[s] = th[s]
      BY <1>6, Distinct DEF Moves
    <2>2. \A g \in Flows : th'[g].pc = "put" => live'[g] = th'[g].tok.refresh
      BY <1>5, <1>6, <1>7, Distinct DEF Moves, Accepted
    <2>3. grant # None => (grant.login \in Flows /\ grant.login # f)
      BY <1>3, TokenFields DEF OAuthTypeOK, Placed
    <2>4. \A s \in Sources : th[s].pc = "persist" => (th[s].tok.login \in Flows /\ th[s].tok.login # f)
      BY <1>3, Fields, TokenFields, Distinct DEF OAuthTypeOK, Placed
    <2>5. \A q \in Sources, g \in Flows : Refreshing(q, g)' <=> Refreshing(q, g)
      BY <2>1 DEF Refreshing
    <2> QED BY <1>1, <1>7, <2>1, <2>2, <2>3, <2>4, <2>5 DEF Accepted
  <1>14. Later'
    BY <1>1, <1>5, <1>6, Distinct DEF Later, Cleared, Moves
  <1> QED BY <1>8, <1>9, <1>10, <1>11, <1>12, <1>13, <1>14

\* A login that is stored is one more.
LEMMA OneMore ==
    ASSUME OAuthInv, NEW f \in Flows, puts[f] = 0, puts' = [puts EXCEPT ![f] = Stored + 1]
    PROVE  /\ Stored \in Nat /\ Stored' = Stored + 1 /\ puts' \in [Flows -> Nat]
           /\ puts'[f] = Stored + 1 /\ \A g \in Flows \ {f} : puts'[g] = puts[g]
           /\ IsFiniteSet({g \in Flows : puts'[g] # 0})
  <1> DEFINE S == {g \in Flows : puts[g] # 0}
             T == {g \in Flows : puts'[g] # 0}
  <1>1. IsFiniteSet(S) /\ f \notin S
    BY DEF OAuthInv, Counted
  <1>2. Stored \in Nat
    BY <1>1, FS_CardinalityType DEF Stored
  <1>3. puts' \in [Flows -> Nat] /\ puts'[f] = Stored + 1 /\ \A g \in Flows \ {f} : puts'[g] = puts[g]
    BY <1>2 DEF OAuthInv, OAuthTypeOK
  <1>4. T = S \cup {f}
    BY <1>2, <1>3
  <1>5. IsFiniteSet(T) /\ Cardinality(T) = Cardinality(S) + 1
    <2> HIDE DEF S, T
    <2> QED BY <1>1, <1>4, FS_AddElement
  <1>6. Stored = Cardinality(S) /\ Stored' = Cardinality(T)
    BY DEF Stored
  <1> QED BY <1>2, <1>3, <1>5, <1>6

LEMMA PutGrantKeeps ==
    ASSUME OAuthInv, NEW f \in Flows, PutGrant(f)
    PROVE  OAuthInv'
  <1> USE DEF OAuthInv
  <1> DEFINE tok == th[f].tok
             r == [pc |-> "drop", at |-> th[f].at]
             m == [n |-> Stored, at |-> th[f].at]
  <1>1. /\ th[f].pc = "put" /\ grant' = tok /\ saved' = saved \cup {tok.access}
        /\ puts' = [puts EXCEPT ![f] = Stored + 1] /\ mark' = [mark EXCEPT ![f] = m] /\ Go(f, r)
        /\ UNCHANGED <<cache, bmu, told, client, excused, overtaken, issued, clients, live, expired>>
    BY DEF PutGrant, Marks, server
  <1>2. /\ tok \in Token /\ tok.login = f /\ tok.access \in 1..MaxTokens /\ th[f].at \in Daemons
        /\ puts[f] = 0 /\ told[f] = None /\ live[f] = tok.refresh
    BY <1>1, Fields, TokenFields, Distinct DEF OAuthTypeOK, Once, Placed, Accepted
  <1>3. /\ Stored \in Nat /\ Stored' = Stored + 1 /\ puts' \in [Flows -> Nat]
        /\ puts'[f] = Stored + 1 /\ \A g \in Flows \ {f} : puts'[g] = puts[g]
        /\ IsFiniteSet({g \in Flows : puts'[g] # 0})
    BY <1>1, <1>2, OneMore
  <1>4. r \in Goroutine /\ r.pc = "drop" /\ r.at = th[f].at
    BY <1>2 DEF Goroutine
  <1>5. m \in [n : Nat, at : Daemons] /\ m # None /\ m.n = Stored /\ m.at = th[f].at
    BY <1>2, <1>3, OAuthAssumption
  <1> HIDE DEF r, m, tok
  <1>6. th' \in [Threads -> Goroutine] /\ Moves(f, r)
    BY <1>1, <1>4, GoMoves, Distinct
  <1>7. /\ mark' \in [Callers -> [n : Nat, at : Daemons] \cup {None}]
        /\ mark'[f] = m /\ \A t \in Callers \ {f} : mark'[t] = mark[t]
    BY <1>1, <1>5, Distinct DEF OAuthTypeOK
  <1>8. OAuthTypeOK'
    BY <1>1, <1>2, <1>3, <1>6, <1>7 DEF OAuthTypeOK, Callers
  <1>9. Roles'
    BY <1>4, <1>6, RolesKept, Distinct DEF InRole
  <1>10. \A t \in Callers : mark[t] # None => mark[t].n \in Nat /\ mark[t].n <= Stored
    BY DEF OAuthTypeOK, Callers, Counted
  <1>11. Counted'
    <2>1. \A t \in Callers : mark'[t] # None => mark'[t].n <= Stored'
      BY <1>3, <1>5, <1>7, <1>10
    <2> QED BY <1>3, <2>1 DEF Counted
  <1>12. Once'
    BY <1>1, <1>2, <1>3, <1>4, <1>5, <1>6, <1>7, Distinct DEF Once, Moves
  <1>13. \A x \in Token : puts[x.login] # 0 => puts'[x.login] = puts[x.login] /\ puts'[x.login] # 0
    BY <1>2, <1>3, TokenFields
  <1>14. Placed'
    <2>1. puts'[grant'.login] # 0
      BY <1>1, <1>2, <1>3
    <2>2. \A s \in Sources : cache'[s] # None => puts'[cache'[s].login] # 0
      BY <1>1, <1>13 DEF Placed, OAuthTypeOK
    <2>3. ASSUME NEW t \in Threads
          PROVE  /\ th'[t].pc \in {"creds", "ask", "revoke"} => puts'[th'[t].old.login] # 0
                 /\ th'[t].pc = "persist" => puts'[th'[t].tok.login] # 0
                 /\ th'[t].pc = "put" => th'[t].tok.login = t
      <3>1. CASE t = f
        BY <3>1, <1>4, <1>6 DEF Moves
      <3>2. CASE t # f
        <4>1. th'[t] = th[t] /\ th[t] \in Goroutine
          BY <3>2, <1>6 DEF Moves, OAuthTypeOK
        <4> QED BY <4>1, <1>13, Fields DEF Placed
      <3> QED BY <3>1, <3>2
    <2> QED BY <2>1, <2>2, <2>3 DEF Placed
  <1>15. Persisted'
    BY <1>1 DEF Persisted, PersistedBeforeUse
  <1>16. Accepted'
    <2>1. \A s \in Sources : th'[s] = th[s]
      BY <1>6, Distinct DEF Moves
    <2>2. \A g \in Flows : th'[g].pc = "put" => th'[g] = th[g]
      BY <1>4, <1>6, Distinct DEF Moves
    <2>3. \A q \in Sources, g \in Flows : Refreshing(q, g)' <=> Refreshing(q, g)
      BY <2>1 DEF Refreshing
    <2> QED BY <1>1, <1>2, <2>1, <2>2, <2>3 DEF Accepted
  <1>17. Later'
    <2> SUFFICES ASSUME ~overtaken, NEW t \in Callers, mark'[t] # None
                 PROVE  /\ puts'[grant'.login] > mark'[t].n
                        /\ \A s \in Sources : (mark'[t].at = DaemonOf[s] /\ cache[s] # None /\ Cleared(t, s)')
                                                  => puts'[cache[s].login] > mark'[t].n
      BY <1>1 DEF Later
    <2>1. mark'[t].n \in Nat /\ mark'[t].n < Stored + 1
      BY <1>3, <1>5, <1>7, <1>10
    <2>2. puts'[grant'.login] > mark'[t].n
      BY <1>1, <1>2, <1>3, <2>1
    <2>3. ASSUME NEW s \in Sources, mark'[t].at = DaemonOf[s], cache[s] # None, Cleared(t, s)'
          PROVE  puts'[cache[s].login] > mark'[t].n
      <3>1. t # f /\ th'[t] = th[t] /\ mark'[t] = mark[t] /\ Cleared(t, s)
        BY <1>1, <1>2, <1>4, <1>6, <1>7, <2>3, Distinct DEF Cleared, Moves
      <3>2. puts'[cache[s].login] = puts[cache[s].login]
        BY <1>13, <2>3 DEF Placed, OAuthTypeOK
      <3> QED BY <2>3, <3>1, <3>2 DEF Later
    <2> QED BY <2>2, <2>3
  <1> QED BY <1>8, <1>9, <1>11, <1>12, <1>14, <1>15, <1>16, <1>17

-----------------------------------------------------------------------------
(* Logouts                                                                 *)

\* Logout and RemoveGrant read the store and have nothing else to do.
LEMMA LookKeeps ==
    ASSUME OAuthInv, NEW a \in Admins, NEW d \in Daemons, Look(a, d), th[a].pc \in {"idle", "look"}, told[a] = None,
           UNCHANGED <<cache, bmu, told, grant, client, issued, clients, live, expired,
                       puts, mark, saved, excused, overtaken>>
    PROVE  OAuthInv'
  <1> USE DEF OAuthInv
  <1>1. PICK r : /\ Go(a, r) /\ r \in Goroutine /\ r.pc \in {"revoke", "delete"}
                 /\ r.pc = "revoke" => r.old \in Token /\ puts[r.old.login] # 0
    <2>1. CASE grant = None
      <3>1. [pc |-> "delete", at |-> d] \in Goroutine
        BY DEF Goroutine
      <3> QED BY <2>1, <3>1 DEF Look
    <2>2. CASE grant # None
      <3>1. grant \in Token /\ puts[grant.login] # 0
        BY <2>2 DEF OAuthTypeOK, Placed
      <3>2. [pc |-> "revoke", at |-> d, old |-> grant] \in Goroutine
        BY <3>1 DEF Goroutine
      <3> QED BY <2>2, <3>1, <3>2 DEF Look
    <2> QED BY <2>1, <2>2
  <1>2. th' \in [Threads -> Goroutine] /\ Moves(a, r)
    BY <1>1, GoMoves, Distinct
  <1>3. OAuthTypeOK'
    BY <1>1, <1>2 DEF OAuthTypeOK
  <1>4. Goes(a, r)
    BY <1>1, <1>2, Distinct DEF Goes, InRole
  <1> QED BY <1>3, <1>4, GoesKeeps, Distinct

LEMMA LogoutKeeps ==
    ASSUME OAuthInv, NEW a \in Admins, NEW d \in Daemons, Logout(a, d)
    PROVE  OAuthInv'
  <1>1. /\ th[a].pc = "idle" /\ told[a] = None /\ Look(a, d)
        /\ UNCHANGED <<cache, bmu, told, grant, client, issued, clients, live, expired,
                       puts, mark, saved, excused, overtaken>>
    BY DEF Logout, New, server, store, ghosts
  <1> QED BY <1>1, LookKeeps

LEMMA ResetKeeps ==
    ASSUME OAuthInv, NEW a \in Admins, NEW d \in Daemons, Reset(a, d)
    PROVE  OAuthInv'
  <1> USE DEF OAuthInv
  <1>1. /\ th[a].pc = "idle" /\ told[a] = None /\ client' \in 0..MaxClients
        /\ UNCHANGED <<cache, bmu, grant, issued, clients, live, expired, puts, mark, saved, excused, overtaken>>
    BY OAuthAssumption DEF Reset, New, server, ghosts, OAuthTypeOK
  <1>2. CASE client' = client /\ Ends(a, "failed")
    BY <1>1, <1>2, FailedKeeps, Distinct DEF server, ghosts
  <1>3. CASE Go(a, [pc |-> "look", at |-> d]) /\ UNCHANGED told
    <2>1. PICK r \in Goroutine : Go(a, r) /\ r.pc = "look"
      BY <1>3 DEF Goroutine
    <2>2. th' \in [Threads -> Goroutine] /\ Moves(a, r)
      BY <2>1, GoMoves, Distinct
    <2>3. OAuthTypeOK'
      BY <1>1, <1>3, <2>2 DEF OAuthTypeOK
    <2>4. Goes(a, r)
      BY <1>1, <1>3, <2>1, <2>2, Distinct DEF Goes, InRole
    <2> QED BY <2>3, <2>4, GoesKeeps, Distinct
  <1> QED BY <1>2, <1>3 DEF Reset

LEMMA RemoveGrantKeeps ==
    ASSUME OAuthInv, NEW a \in Admins, RemoveGrant(a)
    PROVE  OAuthInv'
  <1>1. /\ th[a].pc = "look" /\ Look(a, th[a].at)
        /\ UNCHANGED <<cache, bmu, told, grant, client, issued, clients, live, expired,
                       puts, mark, saved, excused, overtaken>>
    BY DEF RemoveGrant, server, store, ghosts
  <1>2. th[a].at \in Daemons /\ told[a] = None
    BY <1>1, Fields, Distinct DEF OAuthInv, OAuthTypeOK, Once
  <1>3. PICK d \in Daemons : d = th[a].at
    BY <1>2
  <1> QED BY <1>1, <1>2, <1>3, LookKeeps

LEMMA RevokeKeeps ==
    ASSUME OAuthInv, NEW a \in Admins, Revoke(a)
    PROVE  OAuthInv'
  <1> USE DEF OAuthInv
  <1> DEFINE r == [pc |-> "delete", at |-> th[a].at]
  <1>1. /\ th[a].pc = "revoke" /\ Go(a, r) /\ (UNCHANGED <<live, excused>> \/ LoginEnds(th[a].old.login))
        /\ UNCHANGED <<cache, bmu, told, issued, clients, expired, grant, client, puts, mark, saved, overtaken>>
    BY DEF Revoke, store
  <1>2. th[a].at \in Daemons /\ th[a].old.login \in Flows /\ puts[th[a].old.login] # 0 /\ told[a] = None
    BY <1>1, Fields, TokenFields, Distinct DEF OAuthTypeOK, Placed, Once
  <1>3. r \in Goroutine /\ r.pc = "delete"
    BY <1>2 DEF Goroutine
  <1> HIDE DEF r
  <1>4. th' \in [Threads -> Goroutine] /\ Moves(a, r)
    BY <1>1, <1>3, GoMoves, Distinct
  <1>5. /\ live' \in [Flows -> 0..MaxTokens] /\ excused \subseteq excused' /\ excused' \subseteq Flows
        /\ \A f \in Flows : live'[f] = live[f] \/ (f \in excused' /\ puts[f] # 0)
    BY <1>1, <1>2, OAuthAssumption DEF LoginEnds, OAuthTypeOK
  <1>6. OAuthTypeOK'
    BY <1>1, <1>4, <1>5 DEF OAuthTypeOK
  <1>7. Goes(a, r)
    BY <1>1, <1>2, <1>3, <1>4, <1>5, Distinct DEF Goes, InRole
  <1> QED BY <1>6, <1>7, GoesKeeps, Distinct

LEMMA DeleteGrantKeeps ==
    ASSUME OAuthInv, NEW a \in Admins, DeleteGrant(a)
    PROVE  OAuthInv'
  <1> USE DEF OAuthInv
  <1>1. /\ th[a].pc = "delete"
        /\ UNCHANGED <<cache, bmu, client, puts, saved, excused, overtaken, issued, clients, live, expired>>
    BY DEF DeleteGrant, server
  <1>2. CASE Ends(a, "failed") /\ UNCHANGED <<grant, mark>>
    BY <1>1, <1>2, FailedKeeps, Distinct DEF server, ghosts
  <1>3. CASE grant' = None /\ Marks(a) /\ Go(a, [pc |-> "drop", at |-> th[a].at]) /\ UNCHANGED told
    <2> DEFINE r == [pc |-> "drop", at |-> th[a].at]
               m == [n |-> Stored, at |-> th[a].at]
    <2>1. th[a].at \in Daemons /\ told[a] = None
      BY <1>1, Fields, Distinct DEF OAuthTypeOK, Once
    <2>2. Stored \in Nat
      BY FS_CardinalityType DEF Counted, Stored
    <2>3. r \in Goroutine /\ r.pc = "drop" /\ r.at = th[a].at
      BY <2>1 DEF Goroutine
    <2>4. m \in [n : Nat, at : Daemons] /\ m # None /\ m.n = Stored /\ m.at = th[a].at /\ mark' = [mark EXCEPT ![a] = m]
      BY <1>3, <2>1, <2>2, OAuthAssumption DEF Marks
    <2> HIDE DEF r, m
    <2>5. th' \in [Threads -> Goroutine] /\ Moves(a, r)
      BY <1>3, <2>3, GoMoves, Distinct DEF r
    <2>6. /\ mark' \in [Callers -> [n : Nat, at : Daemons] \cup {None}]
          /\ mark'[a] = m /\ \A t \in Callers \ {a} : mark'[t] = mark[t]
      BY <2>4, Distinct DEF OAuthTypeOK
    <2>7. OAuthTypeOK'
      BY <1>1, <1>3, <2>5, <2>6 DEF OAuthTypeOK, Callers
    <2>8. Roles'
      BY <2>3, <2>5, RolesKept, Distinct DEF InRole
    <2>9. Counted'
      <3>1. {f \in Flows : puts'[f] # 0} = {f \in Flows : puts[f] # 0} /\ Stored' = Stored
        BY <1>1 DEF Stored
      <3>2. IsFiniteSet({f \in Flows : puts'[f] # 0})
        BY <3>1 DEF Counted
      <3>3. \A t \in Callers : mark'[t] # None => mark'[t].n <= Stored'
        BY <2>2, <2>4, <2>6, <3>1 DEF Counted
      <3> QED BY <3>2, <3>3 DEF Counted
    <2>10. Once'
      BY <1>1, <1>3, <2>1, <2>3, <2>4, <2>5, <2>6, Distinct DEF Once, Moves
    <2>11. Placed'
      BY <1>1, <1>3, <2>3, <2>5, Distinct DEF Placed, Moves
    <2>12. Persisted'
      BY <1>1, <1>3 DEF Persisted, PersistedBeforeUse
    <2>13. Accepted'
      <3>1. \A t \in Sources \cup Flows : th'[t] = th[t]
        BY <2>5, Distinct DEF Moves
      <3>2. \A q \in Sources, g \in Flows : Refreshing(q, g)' <=> Refreshing(q, g)
        BY <3>1 DEF Refreshing
      <3> QED BY <1>1, <1>3, <3>1, <3>2 DEF Accepted
    <2>14. Later'
      BY <1>1, <1>3, <2>1, <2>3, <2>5, <2>6, Distinct DEF Later, Cleared, Moves
    <2> QED BY <2>7, <2>8, <2>9, <2>10, <2>11, <2>12, <2>13, <2>14
  <1> QED BY <1>2, <1>3 DEF DeleteGrant

-----------------------------------------------------------------------------
(* The caches are dropped                                                  *)

LEMMA DropSourcesKeeps ==
    ASSUME OAuthInv, NEW t \in Callers, DropSources(t)
    PROVE  OAuthInv'
  <1> USE DEF OAuthInv
  <1> DEFINE r == [pc |-> "clear", at |-> th[t].at, left |-> {s \in Sources : DaemonOf[s] = th[t].at}]
  <1>1. /\ th[t].pc = "drop" /\ Go(t, r)
        /\ UNCHANGED <<cache, bmu, told, grant, client, issued, clients, live, expired, puts, mark, saved, excused, overtaken>>
    BY DEF DropSources, server, store, ghosts
  <1>2. th[t].at \in Daemons /\ told[t] = None /\ mark[t] # None /\ mark[t].at = th[t].at
    BY <1>1, Fields, Distinct DEF OAuthTypeOK, Once
  <1>3. /\ r \in Goroutine /\ r.pc = "clear" /\ r.at = th[t].at
        /\ \A s \in Sources : DaemonOf[s] = th[t].at => s \in r.left
    BY <1>2 DEF Goroutine
  <1> HIDE DEF r
  <1>4. th' \in [Threads -> Goroutine] /\ Moves(t, r)
    BY <1>1, <1>3, GoMoves, Distinct
  <1>5. OAuthTypeOK'
    BY <1>1, <1>4 DEF OAuthTypeOK
  <1>6. Goes(t, r)
    BY <1>1, <1>2, <1>3, <1>4, Distinct DEF Goes, InRole
  <1> QED BY <1>5, <1>6, GoesKeeps, Distinct

LEMMA ClearCacheKeeps ==
    ASSUME OAuthInv, NEW t \in Callers, NEW s \in Sources, ClearCache(t, s)
    PROVE  OAuthInv'
  <1> USE DEF OAuthInv
  <1> DEFINE c == [th[t] EXCEPT !.left = @ \ {s}]
             r == IF th[t].left = {s} THEN Idle ELSE c
  <1>1. /\ th[t].pc = "clear" /\ s \in th[t].left /\ Go(t, r) /\ cache' = [cache EXCEPT ![s] = None]
        /\ told' = (IF th[t].left = {s} THEN [told EXCEPT ![t] = "ok"] ELSE told)
        /\ UNCHANGED <<bmu, grant, client, issued, clients, live, expired, puts, mark, saved, excused, overtaken>>
    BY DEF ClearCache, Ends, server, store, ghosts
  <1>2. told[t] = None /\ mark[t] # None /\ mark[t].at = th[t].at
    BY <1>1, Distinct DEF Once
  <1>3. th[t] \in [pc : {"clear"}, at : Daemons, left : SUBSET Sources]
    BY <1>1, Distinct DEF OAuthTypeOK, Goroutine, Idle
  <1>4. /\ c \in [pc : {"clear"}, at : Daemons, left : SUBSET Sources]
        /\ c.at = th[t].at /\ c.left = th[t].left \ {s}
    <2>1. \A x \in [pc : {"clear"}, at : Daemons, left : SUBSET Sources] :
              /\ [x EXCEPT !.left = @ \ {s}] \in [pc : {"clear"}, at : Daemons, left : SUBSET Sources]
              /\ [x EXCEPT !.left = @ \ {s}].at = x.at /\ [x EXCEPT !.left = @ \ {s}].left = x.left \ {s}
      OBVIOUS
    <2> QED BY <1>3, <2>1
  <1>5. c \in Goroutine /\ c.pc = "clear"
    BY <1>4 DEF Goroutine
  <1> HIDE DEF c
  <1>6. r \in Goroutine /\ (th[t].left = {s} => r.pc = "idle") /\ (th[t].left # {s} => r = c)
    BY <1>5, IdleGoroutine
  <1> HIDE DEF r
  <1>7. th' \in [Threads -> Goroutine] /\ Moves(t, r)
    BY <1>1, <1>6, GoMoves, Distinct
  <1>8. /\ cache' \in [Sources -> Token \cup {None}] /\ cache'[s] = None
        /\ \A q \in Sources \ {s} : cache'[q] = cache[q]
    BY <1>1 DEF OAuthTypeOK
  <1>9. /\ told' \in [Threads -> {None, "ok", "failed"}] /\ \A u \in Threads \ {t} : told'[u] = told[u]
        /\ told'[t] = (IF th[t].left = {s} THEN "ok" ELSE None)
    BY <1>1, <1>2, Distinct DEF OAuthTypeOK
  <1>10. OAuthTypeOK'
    BY <1>1, <1>7, <1>8, <1>9 DEF OAuthTypeOK
  <1>11. Roles' /\ Counted'
    BY <1>1, <1>5, <1>6, <1>7, RolesKept, StoredStays, Distinct DEF InRole
  <1>12. Once'
    BY <1>1, <1>2, <1>4, <1>5, <1>6, <1>7, <1>9, Distinct DEF Once, Moves
  <1>13. Placed'
    BY <1>1, <1>5, <1>6, <1>7, <1>8, Distinct DEF Placed, Moves
  <1>14. Persisted'
    BY <1>1, <1>8 DEF Persisted, PersistedBeforeUse
  <1>15. Accepted'
    <2>1. \A q \in Sources : th'[q] = th[q]
      BY <1>7, Distinct DEF Moves
    <2>2. \A f \in Flows : th'[f].pc = "put" => th'[f] = th[f]
      BY <1>5, <1>6, <1>7, Distinct DEF Moves
    <2>3. \A q \in Sources, f \in Flows : Refreshing(q, f)' <=> Refreshing(q, f)
      BY <2>1 DEF Refreshing
    <2> QED BY <1>1, <2>1, <2>2, <2>3 DEF Accepted
  <1>16. Later'
    <2> SUFFICES ASSUME ~overtaken, NEW u \in Callers, mark[u] # None
                 PROVE  /\ grant # None => puts[grant.login] > mark[u].n
                        /\ \A q \in Sources : (mark[u].at = DaemonOf[q] /\ cache'[q] # None /\ Cleared(u, q)')
                                                  => puts[cache'[q].login] > mark[u].n
      BY <1>1 DEF Later
    <2>1. ASSUME NEW q \in Sources, q # s, Cleared(u, q)' PROVE Cleared(u, q)
      BY <1>1, <1>4, <1>5, <1>6, <1>7, <1>9, <2>1, Distinct DEF Cleared, Moves
    <2> QED BY <1>8, <2>1 DEF Later
  <1> QED BY <1>10, <1>11, <1>12, <1>13, <1>14, <1>15, <1>16

-----------------------------------------------------------------------------
(* Time and crashes                                                        *)

LEMMA ExpiryKeeps ==
    ASSUME OAuthInv, NEW n \in 1..MaxTokens, TokenExpires(n)
    PROVE  OAuthInv'
  <1> USE DEF OAuthInv
  <1>1. /\ expired' = expired \cup {n}
        /\ UNCHANGED <<cache, bmu, th, told, grant, client, issued, clients, live, puts, mark, saved, excused, overtaken>>
    BY DEF TokenExpires, broker, store, ghosts
  <1>2. OAuthTypeOK'
    BY <1>1 DEF OAuthTypeOK
  <1>3. Roles' /\ Once' /\ Placed'
    BY <1>1 DEF Roles, Once, Placed
  <1>4. Counted'
    BY <1>1, StoredStays
  <1>5. Persisted'
    BY <1>1 DEF Persisted, PersistedBeforeUse
  <1>6. Accepted' /\ Later'
    BY <1>1 DEF Accepted, Later, Refreshing, Cleared
  <1> QED BY <1>2, <1>3, <1>4, <1>5, <1>6

LEMMA CrashKeeps ==
    ASSUME OAuthInv, NEW d \in Daemons, Crash(d)
    PROVE  OAuthInv'
  <1> USE DEF OAuthInv
  <1> DEFINE dead == {t \in Threads : th[t].pc # "idle" /\ th[t].at = d}
             ended == {th[t].tok.login : t \in {u \in dead : th[u].pc = "persist"}}
  <1>1. /\ th' = [t \in Threads |-> IF t \in dead THEN Idle ELSE th[t]]
        /\ told' = [t \in Threads |-> IF t \in dead \ Sources THEN "failed" ELSE told[t]]
        /\ cache' = [s \in Sources |-> IF DaemonOf[s] = d THEN None ELSE cache[s]]
        /\ bmu' = [bmu EXCEPT ![d] = Free]
        /\ excused' = excused \cup ended
        /\ UNCHANGED <<puts, mark, saved, overtaken, issued, clients, live, expired, grant, client>>
    BY DEF Crash, server, store
  <1>2. /\ ended \subseteq Flows
        /\ \A s \in Sources : (s \in dead /\ th[s].pc = "persist") => th[s].tok.login \in ended
    BY Fields, TokenFields, Distinct DEF OAuthTypeOK
  <1> HIDE DEF ended
  <1>3. \A t \in Threads : /\ t \in dead => (th[t].pc # "idle" /\ th'[t] = Idle)
                           /\ t \notin dead => th'[t] = th[t]
    BY <1>1
  <1>4. \A t \in Callers : told'[t] = (IF t \in dead THEN "failed" ELSE told[t])
    BY <1>1, Distinct
  <1>5. \A s \in Sources : cache'[s] = None \/ cache'[s] = cache[s]
    BY <1>1
  <1>6. OAuthTypeOK'
    <2>1. th' \in [Threads -> Goroutine]
      BY <1>1, IdleGoroutine DEF OAuthTypeOK
    <2>2. told' \in [Threads -> {None, "ok", "failed"}]
      BY <1>1 DEF OAuthTypeOK
    <2>3. cache' \in [Sources -> Token \cup {None}] /\ bmu' \in [Daemons -> Threads \cup {Free}]
      BY <1>1 DEF OAuthTypeOK
    <2> QED BY <1>1, <1>2, <2>1, <2>2, <2>3 DEF OAuthTypeOK
  <1> HIDE DEF dead
  <1>7. Roles'
    BY <1>3, IdleGoroutine, Distinct DEF Roles
  <1>8. Counted'
    BY <1>1, StoredStays
  <1>9. Once'
    BY <1>1, <1>3, <1>4, IdleGoroutine, Distinct DEF Once
  <1>10. Placed'
    BY <1>1, <1>3, <1>5, IdleGoroutine DEF Placed
  <1>11. Persisted'
    BY <1>1, <1>5 DEF Persisted, PersistedBeforeUse
  <1>12. Accepted'
    <2>1. \A t \in Threads : th'[t].pc # "idle" => th'[t] = th[t]
      BY <1>3, IdleGoroutine
    <2>2. \A q \in Sources, f \in Flows : Refreshing(q, f)' => Refreshing(q, f)
      BY <2>1, Distinct DEF Refreshing
    <2>3. \A f \in Flows : th'[f].pc = "put" => live'[f] = th'[f].tok.refresh
      BY <1>1, <2>1, Distinct DEF Accepted
    <2>4. \A s \in Sources : (th'[s].pc = "persist" /\ th'[s].tok.login \notin excused')
                                 => live'[th'[s].tok.login] = th'[s].tok.refresh
      BY <1>1, <2>1, Distinct DEF Accepted
    <2>5. ASSUME grant' # None, grant'.login \notin excused',
                 \A s \in Sources : th'[s].pc = "persist" => th'[s].tok.login # grant'.login
          PROVE  live'[grant'.login] = grant'.refresh
      <3>1. \A s \in Sources : th[s].pc = "persist" => th[s].tok.login # grant.login
        BY <1>1, <1>2, <1>3, <2>5, Distinct
      <3> QED BY <1>1, <2>5, <3>1 DEF Accepted
    <2> QED BY <1>1, <2>2, <2>3, <2>4, <2>5 DEF Accepted
  <1>13. Later'
    <2>1. \A t \in Callers, s \in Sources : Cleared(t, s)' => Cleared(t, s)
      BY <1>3, <1>4, IdleGoroutine, Distinct DEF Cleared
    <2> QED BY <1>1, <1>5, <2>1 DEF Later
  <1> QED BY <1>6, <1>7, <1>8, <1>9, <1>10, <1>11, <1>12, <1>13

-----------------------------------------------------------------------------
(* The invariant and what follows from it                                  *)

LEMMA InvInitially == Init => OAuthInv
  <1> SUFFICES ASSUME Init PROVE OAuthInv
    OBVIOUS
  <1>1. \A t \in Threads : th[t].pc = "idle" /\ told[t] = None
    BY IdleGoroutine DEF Init
  <1>2. OAuthTypeOK
    <2>1. th \in [Threads -> Goroutine] /\ told \in [Threads -> {None, "ok", "failed"}]
      BY IdleGoroutine DEF Init
    <2>2. /\ cache \in [Sources -> Token \cup {None}] /\ bmu \in [Daemons -> Threads \cup {Free}]
          /\ mark \in [Flows \cup Admins -> [n : Nat, at : Daemons] \cup {None}]
      BY DEF Init
    <2>3. issued \in 0..MaxTokens /\ clients \in 0..MaxClients /\ client \in 0..MaxClients
      BY OAuthAssumption DEF Init
    <2>4. live \in [Flows -> 0..MaxTokens] /\ puts \in [Flows -> Nat]
      BY OAuthAssumption DEF Init
    <2>5. grant = None /\ saved = {} /\ expired = {} /\ excused = {} /\ overtaken = FALSE
      BY DEF Init
    <2> QED BY <2>1, <2>2, <2>3, <2>4, <2>5 DEF OAuthTypeOK
  <1>3. Roles /\ Once /\ Placed
    BY <1>1, Distinct DEF Init, Roles, Once, Placed
  <1>4. Counted
    <2>1. {f \in Flows : puts[f] # 0} = {}
      BY DEF Init
    <2>2. \A t \in Callers : mark[t] = None
      BY DEF Init, Callers
    <2> QED BY <2>1, <2>2, FS_EmptySet DEF Counted
  <1>5. Persisted
    BY DEF Init, Persisted, PersistedBeforeUse
  <1>6. Accepted
    BY <1>1, Distinct DEF Init, Accepted, Refreshing
  <1>7. Later
    BY DEF Init, Later, Callers
  <1> QED BY <1>2, <1>3, <1>4, <1>5, <1>6, <1>7 DEF OAuthInv

LEMMA InvStep == OAuthInv /\ [Next]_vars => OAuthInv'
  <1> SUFFICES ASSUME OAuthInv, [Next]_vars PROVE OAuthInv'
    OBVIOUS
  <1>1. ASSUME NEW s \in Sources, AuthHeader(s) \/ InvalidateToken(s) PROVE OAuthInv'
    BY <1>1, AuthHeaderKeeps, InvalidateKeeps
  <1>2. ASSUME NEW s \in Sources, Refresh(s) PROVE OAuthInv'
    BY <1>2, ClientCredsKeeps, RefreshGrantedKeeps, AskEndsKeeps, PersistKeeps, PersistFailsKeeps, DiscardKeeps
       DEF Refresh
  <1>3. ASSUME NEW f \in Flows, NEW d \in Daemons, BeginAuthorization(f, d) PROVE OAuthInv'
    BY <1>3, BeginKeeps
  <1>4. ASSUME NEW f \in Flows, PutRegistration(f) \/ Redeem(f) PROVE OAuthInv'
    BY <1>4, PutRegistrationKeeps, PutGrantKeeps, FlowFailsKeeps, ExchangeKeeps DEF Redeem
  <1>5. ASSUME NEW a \in Admins, NEW d \in Daemons, Logout(a, d) \/ Reset(a, d) PROVE OAuthInv'
    BY <1>5, LogoutKeeps, ResetKeeps
  <1>6. ASSUME NEW a \in Admins, Remove(a) PROVE OAuthInv'
    BY <1>6, RemoveGrantKeeps, RevokeKeeps, DeleteGrantKeeps DEF Remove
  <1>7. ASSUME NEW t \in Callers, Drop(t) PROVE OAuthInv'
    BY <1>7, DropSourcesKeeps, ClearCacheKeeps DEF Drop
  <1>8. ASSUME NEW n \in 1..MaxTokens, TokenExpires(n) PROVE OAuthInv'
    BY <1>8, ExpiryKeeps
  <1>9. ASSUME NEW d \in Daemons, Crash(d) PROVE OAuthInv'
    BY <1>9, CrashKeeps
  <1>10. CASE UNCHANGED vars
    <2>1. UNCHANGED <<cache, bmu, th, told, issued, clients, live, expired, grant, client,
                      puts, mark, saved, excused, overtaken>>
      BY <1>10 DEF vars, broker, server, store, ghosts
    <2>2. OAuthTypeOK' /\ Roles' /\ Once' /\ Placed'
      BY <2>1 DEF OAuthInv, OAuthTypeOK, Roles, Once, Placed
    <2>3. Counted'
      BY <2>1, StoredStays DEF OAuthInv
    <2>4. Persisted' /\ Accepted' /\ Later'
      BY <2>1 DEF OAuthInv, Persisted, PersistedBeforeUse, Accepted, Later, Refreshing, Cleared
    <2> QED BY <2>2, <2>3, <2>4 DEF OAuthInv
  <1> QED BY <1>1, <1>2, <1>3, <1>4, <1>5, <1>6, <1>7, <1>8, <1>9, <1>10 DEF Next, Callers

LEMMA InvAlways == Spec => []OAuthInv
  BY InvInitially, InvStep, PTL DEF Spec

\* The store, the caches and what every goroutine has in hand keep their types.
THEOREM OAuthTypeCorrect == Spec => []OAuthTypeOK
  <1>1. OAuthInv => OAuthTypeOK
    BY DEF OAuthInv
  <1> QED BY <1>1, InvAlways, PTL

\* Every token that a source serves was stored before: Persist writes the store
\* and then the cache, and AuthHeader caches what the store has.
THEOREM TokensArePersisted == Spec => []PersistedBeforeUse
  <1>1. OAuthInv => PersistedBeforeUse
    BY DEF OAuthInv, Persisted
  <1> QED BY <1>1, InvAlways, PTL

\* The stored refresh token is the one that will be accepted, unless the login was
\* ended, a rotation was lost on its way or two refreshes were under way at once.
THEOREM GrantStaysUsable == Spec => []GrantUsable
  <1>1. OAuthInv => GrantUsable
    BY DEF OAuthInv, Accepted, GrantUsable
  <1> QED BY <1>1, InvAlways, PTL

\* After dropSourceCaches has ended a login or logout, no source of its daemon
\* serves a token of an earlier login, unless a refresh has brought one back.
THEOREM CachesAreNotStale == Spec => []NoStaleCache
  <1>1. OAuthInv => NoStaleCache
    <2> SUFFICES ASSUME OAuthInv, NEW t \in Flows \cup Admins, NEW s \in Sources,
                        told[t] = "ok", mark[t].at = DaemonOf[s], cache[s] # None, ~overtaken
                 PROVE  puts[cache[s].login] > mark[t].n
      BY DEF NoStaleCache
    <2>1. t \in Callers /\ mark[t] # None
      BY DEF OAuthInv, Once, Callers
    <2> QED BY <2>1 DEF OAuthInv, Later, Cleared
  <1> QED BY <1>1, InvAlways, PTL

\* No step keeps the broker's mutex: each releases it before it waits for a
\* source, the store or the authorization server.
MutexFree == \A d \in Daemons : bmu[d] = Free

LEMMA MutexStaysFree == OAuthTypeOK /\ MutexFree /\ [Next]_vars => MutexFree'
  <1> SUFFICES ASSUME OAuthTypeOK, MutexFree, [Next]_vars PROVE MutexFree'
    OBVIOUS
  <1>0. ASSUME UNCHANGED bmu PROVE MutexFree'
    BY <1>0 DEF MutexFree
  <1>1. ASSUME NEW s \in Sources, AuthHeader(s) \/ InvalidateToken(s) \/ Refresh(s) PROVE MutexFree'
    BY <1>0, <1>1 DEF AuthHeader, InvalidateToken, Refresh, ClientCreds, RefreshGranted,
       RefreshRejected, RefreshFails, Persist, PersistFails, Discard
  <1>2. ASSUME NEW f \in Flows, (\E d \in Daemons : BeginAuthorization(f, d)) \/ PutRegistration(f) \/ Redeem(f)
        PROVE  MutexFree'
    BY <1>0, <1>2 DEF BeginAuthorization, PutRegistration, Redeem, PutGrant, FlowFails, Exchange
  <1>3. ASSUME NEW a \in Admins, (\E d \in Daemons : Logout(a, d) \/ Reset(a, d)) \/ Remove(a)
        PROVE  MutexFree'
    BY <1>0, <1>3 DEF Logout, Reset, Remove, RemoveGrant, Revoke, DeleteGrant
  <1>4. ASSUME NEW t \in Flows \cup Admins, Drop(t) PROVE MutexFree'
    BY <1>0, <1>4 DEF Drop, DropSources, ClearCache
  <1>5. ASSUME NEW n \in 1..MaxTokens, TokenExpires(n) PROVE MutexFree'
    BY <1>0, <1>5 DEF TokenExpires, broker
  <1>6. ASSUME NEW d \in Daemons, Crash(d) PROVE MutexFree'
    BY <1>6 DEF Crash, MutexFree, OAuthTypeOK
  <1>7. CASE UNCHANGED vars
    BY <1>0, <1>7 DEF vars, broker
  <1> QED BY <1>1, <1>2, <1>3, <1>4, <1>5, <1>6, <1>7 DEF Next

\* refresh and dropSourceCaches cannot wait for each other, however many sources,
\* logins and logouts there are: what HoldersMove says with ENABLED, said of the
\* mutexes.
THEOREM HoldersAreUnblocked == Spec => []HoldersUnblocked
  <1>1. Init => MutexFree
    BY DEF Init, MutexFree
  <1>2. OAuthInv => OAuthTypeOK
    BY DEF OAuthInv
  <1>3. OAuthInv /\ MutexFree => HoldersUnblocked
    BY OAuthAssumption DEF OAuthInv, Roles, MutexFree, HoldersUnblocked
  <1> QED BY <1>1, <1>2, <1>3, InvAlways, MutexStaysFree, PTL DEF Spec
=============================================================================
