----------------------------- MODULE OAuthBroker -----------------------------
(***************************************************************************)
(* The downstream OAuth broker (pkg/mcpauth) for one protected resource    *)
(* that several configured servers share, in one gateway daemon or in      *)
(* several that share the token store.  Requests take their token from the *)
(* server's grantSource, which reads the store and refreshes; logins,      *)
(* logouts and resets change the store meanwhile; the authorization server *)
(* may rotate refresh tokens, answer no more, or withdraw what it granted; *)
(* daemons crash.                                                          *)
(*                                                                         *)
(* A token is the login it descends from and the numbers of its access and *)
(* refresh tokens (0: no refresh token).  State shown to users (the        *)
(* StateSink), redaction and the wording of errors are left out.           *)
(***************************************************************************)
EXTENDS Naturals, FiniteSets

CONSTANTS
    Sources,        \* the grantSources, one for each server of the resource
    Daemons, DaemonOf,
    Flows,          \* authorization flows, by their state parameter
    Admins,         \* API calls that log out or reset
    MaxTokens,      \* bound: how many tokens the authorization server issues
    MaxClients,     \* bound: how many clients it registers
    MaxCalls,       \* bound: how many logins, logouts and resets there are
    None

Threads == Sources \cup Flows \cup Admins
Token == [login : Flows, client : 1..MaxClients, access : 1..MaxTokens, refresh : 0..MaxTokens]

ASSUME OAuthAssumption ==
    /\ DaemonOf \in [Sources -> Daemons] /\ {MaxTokens, MaxCalls} \subseteq Nat /\ MaxClients \in Nat \ {0}
    /\ Sources \cap (Flows \cup Admins) = {} /\ Flows \cap Admins = {}
    /\ None \notin Threads \cup Token \cup {"ok", "failed"} /\ None \notin [n : Nat, at : Daemons]

VARIABLES
    grant,      \* the stored grant's token
    client,     \* the stored client registration, 0 when there is none
    cache,      \* each source's cached token; None when InvalidateToken aged it
    bmu,        \* who holds a broker's mutex across steps
    th,         \* flows, logouts and, by source, the request that holds its mutex
    told,       \* how each login, logout and reset ended, as Wait reports it
    issued, clients,    \* tokens issued and clients registered so far
    live,       \* the refresh token of each login that will be accepted, or 0
    expired,    \* access tokens whose time is over
    puts,       \* ghost: how many logins were stored before and with this one
    mark,       \* ghost: logins stored before each login or logout wrote, and where
    saved,      \* ghost: access tokens that were in the store
    excused,    \* ghost: logins whose stored refresh token may be dead, because
                \* the authorization server ended them, a rotated token was lost
                \* before it was stored, or two refreshes were under way at once
    overtaken   \* ghost: a refresh stored a token of a login that was replaced

broker == <<cache, bmu, th, told>>
server == <<issued, clients, live, expired>>
store == <<grant, client>>
ghosts == <<puts, mark, saved, excused, overtaken>>
vars == <<broker, server, store, ghosts>>

Idle == [pc |-> "idle"]
Free == None

Go(t, r) == th' = [th EXCEPT ![t] = r]
Ends(t, result) == Go(t, Idle) /\ told' = [told EXCEPT ![t] = result]
New(t) ==
    /\ th[t].pc = "idle" /\ told[t] = None
    /\ Cardinality({u \in Flows \cup Admins : th[u].pc # "idle" \/ told[u] # None}) < MaxCalls

\* tokenUsable: by its expiry, which is all that the gateway knows.
Usable(tok) == tok.access \notin expired
Serves == grant # None /\ Usable(grant)
Refreshes == grant # None /\ ~Usable(grant) /\ grant.refresh # 0
Cached(s) == cache[s] # None /\ Usable(cache[s])

Refreshing(s, f) == \/ th[s].pc = "ask" /\ th[s].old.login = f
                    \/ th[s].pc = "persist" /\ th[s].tok.login = f
Stored == Cardinality({f \in Flows : puts[f] # 0})
Marks(t) == mark' = [mark EXCEPT ![t] = [n |-> Stored, at |-> th[t].at]]

-----------------------------------------------------------------------------
(* Requests: AuthHeader, and InvalidateToken after a 401                   *)

\* AuthHeader of a token that is not cached: currentToken takes the source's
\* mutex, reads the store and, for a refresh, keeps the mutex.
AuthHeader(s) ==
    /\ th[s].pc = "idle" /\ bmu[DaemonOf[s]] = Free /\ ~Cached(s)
    /\ \/ Serves /\ cache' = [cache EXCEPT ![s] = grant] /\ UNCHANGED th
       \/ Refreshes /\ Go(s, [pc |-> "creds", at |-> DaemonOf[s], old |-> grant]) /\ UNCHANGED cache
    /\ UNCHANGED <<bmu, told>> /\ UNCHANGED <<server, store, ghosts>>

\* A server says 401 to a token, which may have been replaced since, and sendHTTP
\* calls InvalidateToken before its one retry.  The stored copy of the token is
\* not aged, so that the retry reads the store and refreshes only by its expiry.
InvalidateToken(s) ==
    /\ th[s].pc = "idle" /\ cache[s] # None
    /\ cache' = [cache EXCEPT ![s] = None]
    /\ UNCHANGED <<bmu, th, told>> /\ UNCHANGED <<server, store, ghosts>>

\* clientCredsForGrant, under the broker's mutex and then the store's lock.
ClientCreds(s) ==
    /\ th[s].pc = "creds" /\ bmu[DaemonOf[s]] = Free
    /\ IF client = 0 THEN Go(s, Idle) /\ UNCHANGED excused
       ELSE /\ Go(s, [pc |-> "ask", at |-> DaemonOf[s], old |-> th[s].old, by |-> client])
            /\ excused' = excused \cup {f \in {th[s].old.login} : \E q \in Sources : Refreshing(q, f)}
    /\ UNCHANGED <<cache, bmu, told, puts, mark, saved, overtaken>>
    /\ UNCHANGED <<server, store>>

\* The authorization server takes the refresh token, and may rotate it.
Accepts(old, by) == old.client = by /\ live[old.login] = old.refresh

Refreshed(old, rotate) ==
    [old EXCEPT !.access = issued + 1, !.refresh = IF rotate THEN issued + 1 ELSE @]

\* No refresh token of the login that the gateway has is accepted any more.
LoginEnds(f) == live' = [live EXCEPT ![f] = 0] /\ excused' = excused \cup {f}

RefreshGranted(s, rotate) ==
    /\ th[s].pc = "ask" /\ issued < MaxTokens /\ Accepts(th[s].old, th[s].by)
    /\ LET tok == Refreshed(th[s].old, rotate)
       IN  /\ Go(s, [pc |-> "persist", at |-> DaemonOf[s], tok |-> tok])
           /\ live' = [live EXCEPT ![tok.login] = tok.refresh]
    /\ issued' = issued + 1
    /\ UNCHANGED <<cache, bmu, told, clients, expired>> /\ UNCHANGED <<store, ghosts>>

\* invalid_grant or invalid_client, for a token that was replaced or a login that
\* the authorization server has ended.
RefreshRejected(s) ==
    /\ th[s].pc = "ask"
    /\ IF Accepts(th[s].old, th[s].by) THEN LoginEnds(th[s].old.login) ELSE UNCHANGED <<live, excused>>
    /\ Go(s, [pc |-> "discard", at |-> DaemonOf[s]])
    /\ UNCHANGED <<cache, bmu, told, issued, clients, expired>>
    /\ UNCHANGED <<store, puts, mark, saved, overtaken>>

\* No answer, or one that cannot be used; the grant may be rotated already.
RefreshFails(s) ==
    /\ th[s].pc = "ask"
    /\ Go(s, Idle)
    /\ \/ UNCHANGED <<live, excused>>
       \/ Accepts(th[s].old, th[s].by) /\ LoginEnds(th[s].old.login)
    /\ UNCHANGED <<cache, bmu, told, issued, clients, expired>>
    /\ UNCHANGED <<store, puts, mark, saved, overtaken>>

\* Mutant: the refresh token that was used up is stored again.
PutRefreshedOld(tok) ==
    /\ grant' = [tok EXCEPT !.refresh = IF grant = None THEN @ ELSE grant.refresh]
    /\ saved' = saved \cup {tok.access}
    /\ overtaken' = (overtaken \/ grant = None \/ grant.login # tok.login)

\* PutGrant for a rotation.
PutRefreshed(tok) ==
    /\ grant' = tok /\ saved' = saved \cup {tok.access}
    /\ overtaken' = (overtaken \/ grant = None \/ grant.login # tok.login)

\* Mutant: the new token is cached and used before it is stored.
PersistLater(s) ==
    /\ th[s].pc = "persist"
    /\ cache' = [cache EXCEPT ![s] = th[s].tok]
    /\ Go(s, Idle)
    /\ UNCHANGED <<bmu, told>> /\ UNCHANGED <<server, store, ghosts>>

\* The rotation is persisted before the token is used.
Persist(s) ==
    /\ th[s].pc = "persist"
    /\ PutRefreshed(th[s].tok)
    /\ cache' = [cache EXCEPT ![s] = th[s].tok]
    /\ Go(s, Idle)
    /\ UNCHANGED <<bmu, told, client, puts, mark, excused>> /\ UNCHANGED server

PersistFails(s) ==
    /\ th[s].pc = "persist" /\ Go(s, Idle) /\ excused' = excused \cup {th[s].tok.login}
    /\ UNCHANGED <<cache, bmu, told, puts, mark, saved, overtaken>>
    /\ UNCHANGED <<server, store>>

\* The rejected grant is deleted, whatever the store holds by now; an error of
\* the store is ignored.
Discard(s) ==
    /\ th[s].pc = "discard" /\ Go(s, Idle)
    /\ grant' \in {None, grant}
    /\ UNCHANGED <<cache, bmu, told, client>> /\ UNCHANGED <<server, ghosts>>

-----------------------------------------------------------------------------
(* A login: BeginAuthorization, the callback, CompleteAuthorization        *)

\* resolveClient uses the stored registration or registers a client.
BeginAuthorization(f, d) ==
    /\ New(f) /\ bmu[d] = Free
    /\ IF client # 0
       THEN Go(f, [pc |-> "pending", at |-> d, by |-> client]) /\ UNCHANGED clients
       ELSE /\ clients < MaxClients /\ clients' = clients + 1
            /\ Go(f, [pc |-> "register", at |-> d, by |-> clients + 1])
    /\ UNCHANGED <<cache, bmu, told, issued, live, expired>> /\ UNCHANGED <<store, ghosts>>

PutRegistration(f) ==
    /\ th[f].pc = "register"
    /\ \/ client' = th[f].by /\ Go(f, [th[f] EXCEPT !.pc = "pending"])
       \/ client' = client /\ Go(f, Idle)
    /\ UNCHANGED <<cache, bmu, told, grant>> /\ UNCHANGED <<server, ghosts>>

\* FailAuthorization or the deadline ends a flow, or after CompleteAuthorization
\* has claimed it the exchange or the store fails.
FlowFails(f) ==
    /\ th[f].pc \in {"pending", "put"} /\ Ends(f, "failed")
    /\ UNCHANGED <<cache, bmu>> /\ UNCHANGED <<server, store, ghosts>>

\* Mutant: the exchange uses the registration of the moment, not the flow's.
ExchangeCurrent(f, long) ==
    /\ th[f].pc = "pending" /\ issued < MaxTokens /\ issued' = issued + 1
    /\ LET tok == [login |-> f, client |-> client, access |-> issued + 1,
                   refresh |-> IF long THEN issued + 1 ELSE 0]
       IN  /\ Go(f, [pc |-> "put", at |-> th[f].at, tok |-> tok])
           /\ live' = [live EXCEPT ![f] = tok.refresh]
    /\ UNCHANGED <<cache, bmu, told, clients, expired>> /\ UNCHANGED <<store, ghosts>>

\* CompleteAuthorization claims the flow, once, and exchanges the code; a refresh
\* token may be part of what is granted.
Exchange(f, long) ==
    /\ th[f].pc = "pending" /\ issued < MaxTokens /\ issued' = issued + 1
    /\ LET tok == [login |-> f, client |-> th[f].by, access |-> issued + 1,
                   refresh |-> IF long THEN issued + 1 ELSE 0]
       IN  /\ Go(f, [pc |-> "put", at |-> th[f].at, tok |-> tok])
           /\ live' = [live EXCEPT ![f] = tok.refresh]
    /\ UNCHANGED <<cache, bmu, told, clients, expired>> /\ UNCHANGED <<store, ghosts>>

PutGrant(f) ==
    /\ th[f].pc = "put"
    /\ grant' = th[f].tok /\ saved' = saved \cup {th[f].tok.access}
    /\ puts' = [puts EXCEPT ![f] = Stored + 1] /\ Marks(f)
    /\ Go(f, [pc |-> "drop", at |-> th[f].at])
    /\ UNCHANGED <<cache, bmu, told, client, excused, overtaken>> /\ UNCHANGED server

-----------------------------------------------------------------------------
(* Logout and Reset                                                        *)

\* removeGrant reads the grant, ...
Look(a, d) ==
    Go(a, IF grant = None THEN [pc |-> "delete", at |-> d]
          ELSE [pc |-> "revoke", at |-> d, old |-> grant])

Logout(a, d) ==
    /\ New(a) /\ bmu[d] = Free
    /\ Look(a, d)
    /\ UNCHANGED <<cache, bmu, told>> /\ UNCHANGED <<server, store, ghosts>>

\* Reset deletes the client registration first, if it can find out whose: from the
\* stored grant or by discovery.  It gives up when that cannot be saved.
Reset(a, d) ==
    /\ New(a) /\ bmu[d] = Free
    /\ \/ client' \in {client, 0} /\ Go(a, [pc |-> "look", at |-> d]) /\ UNCHANGED told
       \/ client' = client /\ Ends(a, "failed")
    /\ UNCHANGED <<cache, bmu, grant>> /\ UNCHANGED <<server, ghosts>>

RemoveGrant(a) ==
    /\ th[a].pc = "look"
    /\ Look(a, th[a].at)
    /\ UNCHANGED <<cache, bmu, told>> /\ UNCHANGED <<server, store, ghosts>>

\* ... asks the authorization server, which need not comply, to revoke it, ...
Revoke(a) ==
    /\ th[a].pc = "revoke" /\ bmu[th[a].at] = Free
    /\ LoginEnds(th[a].old.login) \/ UNCHANGED <<live, excused>>
    /\ Go(a, [pc |-> "delete", at |-> th[a].at])
    /\ UNCHANGED <<cache, bmu, told, issued, clients, expired, puts, mark, saved, overtaken>>
    /\ UNCHANGED store

\* ... and deletes what is stored by then.
DeleteGrant(a) ==
    /\ th[a].pc = "delete"
    /\ \/ /\ grant' = None /\ Marks(a)
          /\ Go(a, [pc |-> "drop", at |-> th[a].at]) /\ UNCHANGED told
       \/ Ends(a, "failed") /\ UNCHANGED <<grant, mark>>
    /\ UNCHANGED <<cache, bmu, client, puts, saved, excused, overtaken>>
    /\ UNCHANGED server

-----------------------------------------------------------------------------
(* dropSourceCaches, which ends a login and a logout                       *)

\* Mutant: the broker's mutex is held while the caches are cleared.
DropSourcesNested(t) ==
    /\ th[t].pc = "drop" /\ bmu[th[t].at] = Free
    /\ bmu' = [bmu EXCEPT ![th[t].at] = t]
    /\ Go(t, [pc |-> "clear", at |-> th[t].at,
              left |-> {s \in Sources : DaemonOf[s] = th[t].at}])
    /\ UNCHANGED <<cache, told>> /\ UNCHANGED <<server, store, ghosts>>

\* The sources of this daemon are listed under the broker's mutex, ...
DropSources(t) ==
    /\ th[t].pc = "drop" /\ bmu[th[t].at] = Free
    /\ Go(t, [pc |-> "clear", at |-> th[t].at,
              left |-> {s \in Sources : DaemonOf[s] = th[t].at}])
    /\ UNCHANGED <<cache, bmu, told>> /\ UNCHANGED <<server, store, ghosts>>

\* Mutant: the loop ends with the first source.
ClearCacheFirst(t, s) ==
    /\ th[t].pc = "clear" /\ s \in th[t].left /\ th[s].pc = "idle"
    /\ cache' = [cache EXCEPT ![s] = None]
    /\ Ends(t, "ok")
    /\ UNCHANGED bmu /\ UNCHANGED <<server, store, ghosts>>

\* ... and cleared one by one, each under its own mutex; after the last, whoever
\* waits for the login is told, and a logout returns.
ClearCache(t, s) ==
    /\ th[t].pc = "clear" /\ s \in th[t].left /\ th[s].pc = "idle"
    /\ cache' = [cache EXCEPT ![s] = None]
    /\ IF th[t].left = {s} THEN Ends(t, "ok")
       ELSE Go(t, [th[t] EXCEPT !.left = @ \ {s}]) /\ UNCHANGED told
    /\ UNCHANGED bmu /\ UNCHANGED <<server, store, ghosts>>

-----------------------------------------------------------------------------
(* Time, the authorization server and crashes                              *)

\* The tokens that somebody has; the others expire unnoticed.
Held == ({grant} \ {None}) \cup ({cache[s] : s \in Sources} \ {None})
        \cup {th[t].tok : t \in {t \in Threads : th[t].pc \in {"persist", "put"}}}

TokenExpires(n) ==
    /\ n \notin expired /\ \E tok \in Held : tok.access = n
    /\ expired' = expired \cup {n}
    /\ UNCHANGED <<issued, clients, live>> /\ UNCHANGED <<broker, store, ghosts>>

\* What a thread was at is gone; flows and caches are in memory only.
Crash(d) ==
    LET mine == {t \in Threads : th[t].pc # "idle" /\ th[t].at = d}
    IN  /\ mine # {}
        /\ th' = [t \in Threads |-> IF t \in mine THEN Idle ELSE th[t]]
        /\ told' = [t \in Threads |-> IF t \in mine \ Sources THEN "failed" ELSE told[t]]
        /\ cache' = [s \in Sources |-> IF DaemonOf[s] = d THEN None ELSE cache[s]]
        /\ bmu' = [bmu EXCEPT ![d] = Free]
        /\ excused' = excused \cup {th[t].tok.login : t \in {t \in mine : th[t].pc = "persist"}}
        /\ UNCHANGED <<puts, mark, saved, overtaken>> /\ UNCHANGED <<server, store>>

-----------------------------------------------------------------------------
Init ==
    /\ grant = None /\ client = 0
    /\ cache = [s \in Sources |-> None]
    /\ bmu = [d \in Daemons |-> Free]
    /\ th = [t \in Threads |-> Idle] /\ told = [t \in Threads |-> None]
    /\ issued = 0 /\ clients = 0 /\ live = [f \in Flows |-> 0]
    /\ expired = {}
    /\ puts = [f \in Flows |-> 0] /\ mark = [t \in Flows \cup Admins |-> None]
    /\ saved = {} /\ excused = {} /\ overtaken = FALSE

Refresh(s) ==
    \/ ClientCreds(s)
    \/ \E rotate \in BOOLEAN : RefreshGranted(s, rotate)
    \/ RefreshRejected(s) \/ RefreshFails(s) \/ Persist(s) \/ PersistFails(s) \/ Discard(s)

\* What a flow and a begun logout do.
Redeem(f) == PutGrant(f) \/ FlowFails(f) \/ \E long \in BOOLEAN : Exchange(f, long)
Remove(a) == RemoveGrant(a) \/ Revoke(a) \/ DeleteGrant(a)
Drop(t) == DropSources(t) \/ \E s \in Sources : ClearCache(t, s)

Next ==
    \/ \E s \in Sources : AuthHeader(s) \/ InvalidateToken(s) \/ Refresh(s)
    \/ \E f \in Flows :
           \/ \E d \in Daemons : BeginAuthorization(f, d)
           \/ PutRegistration(f) \/ Redeem(f) \/ Drop(f)
    \/ \E a \in Admins : (\E d \in Daemons : Logout(a, d) \/ Reset(a, d)) \/ Remove(a) \/ Drop(a)
    \/ \E n \in 1..MaxTokens : TokenExpires(n)
    \/ \E d \in Daemons : Crash(d)

Spec == Init /\ [][Next]_vars

-----------------------------------------------------------------------------
(* Properties                                                              *)

\* What a goroutine knows at each point.
Goroutine ==
    {Idle} \cup [pc : {"creds", "revoke"}, at : Daemons, old : Token]
    \cup [pc : {"ask"}, at : Daemons, old : Token, by : 1..MaxClients]
    \cup [pc : {"persist", "put"}, at : Daemons, tok : Token]
    \cup [pc : {"register", "pending"}, at : Daemons, by : 1..MaxClients]
    \cup [pc : {"discard", "look", "delete", "drop"}, at : Daemons]
    \cup [pc : {"clear"}, at : Daemons, left : SUBSET Sources]

\* Types of the stores and caches, and of what each goroutine has in hand.
OAuthTypeOK ==
    /\ grant \in Token \cup {None} /\ client \in 0..MaxClients
    /\ cache \in [Sources -> Token \cup {None}] /\ bmu \in [Daemons -> Threads \cup {Free}]
    /\ th \in [Threads -> Goroutine] /\ told \in [Threads -> {None, "ok", "failed"}]
    /\ issued \in 0..MaxTokens /\ clients \in 0..MaxClients /\ live \in [Flows -> 0..MaxTokens]
    /\ puts \in [Flows -> Nat] /\ mark \in [Flows \cup Admins -> [n : Nat, at : Daemons] \cup {None}]
    /\ {saved, expired} \subseteq SUBSET (1..MaxTokens) /\ excused \subseteq Flows
    /\ overtaken \in BOOLEAN

\* No token is sent to a server, or kept to be sent, that was not stored first:
\* a crash after its first use cannot cost the rotated refresh token.
PersistedBeforeUse ==
    \A s \in Sources : cache[s] # None => cache[s].access \in saved

\* The stored refresh token is the one that the authorization server will accept,
\* as long as it has not ended the login, no rotation got lost on its way to the
\* store and no two sources refreshed at once; a refresh that is under way has
\* yet to store it.
GrantUsable ==
    (grant # None /\ grant.login \notin excused
     /\ \A s \in Sources : th[s].pc # "persist") => live[grant.login] = grant.refresh

\* Once a login or logout has been reported, no source of its daemon serves a
\* token of a login that was stored before it, unless a refresh of the earlier
\* grant was under way and stored its result later.
NoStaleCache ==
    \A t \in Flows \cup Admins, s \in Sources :
        (told[t] = "ok" /\ mark[t].at = DaemonOf[s] /\ cache[s] # None /\ ~overtaken)
            => puts[cache[s].login] > mark[t].n

\* Whoever holds a source's mutex can go on: nobody who is asked for a token
\* while a login or logout clears the caches waits for the one that waits for it.
HoldersMove == \A s \in Sources : th[s].pc # "idle" => ENABLED Refresh(s)

\* The same, said of the locks: whoever holds a source's mutex is in one of the
\* steps of refresh, and the broker's mutex, the only one that these wait for, is
\* not held by somebody who has to wait.
HoldersUnblocked ==
    \A s \in Sources : th[s].pc # "idle" =>
        \/ th[s].pc \in {"ask", "persist", "discard"}
        \/ th[s].pc = "creds" /\ bmu[DaemonOf[s]] = Free

\* Refuted: when a rejected refresh is about to delete the stored grant, that grant
\* is dead ("Self-heal: the stored grant is dead", refresh).  Another source or a
\* login may have stored a live one since it was read.
DiscardsDead ==
    \A s \in Sources : (th[s].pc = "discard" /\ grant # None) => live[grant.login] # grant.refresh

\* Refuted: a logout that was reported leaves no grant of an earlier login ("deletes
\* the grant backing a configured server", Logout).  A refresh that was under way
\* stores the grant again.
LogoutHolds ==
    \A a \in Admins : (told[a] = "ok" /\ grant # None) => puts[grant.login] > mark[a].n
=============================================================================
