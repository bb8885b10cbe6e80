---------------------------- MODULE Registration ----------------------------
(***************************************************************************)
(* The registration lifecycle of one server name in the gateway            *)
(* (pkg/mcp/gateway.go): explicit registration and unregistration, the     *)
(* manual restart, and the background retries of servers that could not be *)
(* reached when they were registered.  Names do not interact, so one is    *)
(* enough.                                                                 *)
(*                                                                         *)
(* Explicit operations run on the reload goroutine (Reload holds a mutex,  *)
(* so there is one) and on the goroutine of a restart request.  Retries    *)
(* are the goroutines that retryPendingRegistrations launches on the       *)
(* health monitor's cadence.  A step is what happens under one mutex or    *)
(* between two.                                                            *)
(*                                                                         *)
(* A replica set is one client: registerReplicaSet succeeds when at least  *)
(* one replica could be built, and closes or commits them together.  The   *)
(* retry backoff only decides when a retry starts, so any time will do.    *)
(***************************************************************************)
EXTENDS Integers, FiniteSets

CONSTANTS
    Explicit,   \* {"reload"} or {"reload", "restart"}
    Retries,    \* slots for retry goroutines
    Cfgs,       \* configurations the stack file may declare for the name
    Clients,    \* identities of client connections
    MaxGen,     \* bound on the generation, so on the explicit operations
    None        \* no configuration, no client

ASSUME RegAssumption ==
    /\ Explicit \subseteq {"reload", "restart"}
    /\ Explicit \cap Retries = {}
    /\ MaxGen \in Nat
    /\ None \notin Cfgs \cup Clients

VARIABLES
    declared,   \* the configuration the reload handler has applied
    regGen,     \* Gateway.regGen[name]
    pending,    \* Gateway.pending[name]
    cleanupRan, \* Gateway.cleanupRan[name]
    meta,       \* Gateway.serverMeta[name]
    set,        \* the router's replica set: its client and configuration
    rows,       \* registrationFailures[name] and authState[name]
    open,       \* clients with a live connection
    dropped,    \* clients UnregisterMCPServer took out of the router (ghost)
    th          \* the local state of each goroutine

vars == <<declared, regGen, pending, cleanupRan, meta, set, rows, open, dropped, th>>

Threads == Explicit \cup Retries

NoPending == [cfg |-> None, inFlight |-> FALSE]
NoSet == [client |-> None, cfg |-> None]

\* gen is 0 for an explicit operation, client the one that was just built,
\* old the client of the set that a commit replaced, register whether an
\* unregistration goes on to register cfg, current (a ghost) whether no
\* explicit operation has begun since.
Idle == [pc |-> "idle", gen |-> 0, cfg |-> None, client |-> None, old |-> None,
         err |-> "none", register |-> FALSE, current |-> FALSE]

PC == {"idle", "unbump", "unroute", "unmeta", "unrows", "start", "bump",
       "close", "check", "probe", "drop", "build", "note", "record", "commit",
       "settle", "finish"}

\* What buildAgentClient can return.  "container" is a failed docker restart,
\* "ready" a readiness timeout that removed the container.
Errs == {"none", "retryable", "cancelled", "auth", "terminal", "ready", "container"}

Go(t, pc) == th' = [th EXCEPT ![t].pc = pc]
GoErr(t, pc, e) == th' = [th EXCEPT ![t].pc = pc, ![t].err = e]

\* An explicit operation bumps the generation: the attempts under way are
\* out of date from here on.
Bumped(s) == [t \in Threads |-> [s[t] EXCEPT !.current = FALSE]]

\* An explicit operation is over; an attempt still has its deferred reset.
Return(t) ==
    th' = [th EXCEPT ![t] = IF t \in Retries THEN [Idle EXCEPT !.pc = "finish"]
                                              ELSE Idle]

-----------------------------------------------------------------------------
(* The operations that start on the reload and restart goroutines          *)

\* A server is added to the stack file.
ReloadAdds ==
    /\ "reload" \in Explicit /\ th["reload"].pc = "idle" /\ declared = None
    /\ \E c \in Cfgs :
          /\ declared' = c
          /\ th' = [th EXCEPT !["reload"] = [Idle EXCEPT !.pc = "start", !.cfg = c]]
    /\ UNCHANGED <<regGen, pending, cleanupRan, meta, set, rows, open, dropped>>

\* The image of an added server cannot be prepared: the name stays undeclared.
\* (A modified one whose image cannot be prepared stays as it is.)
ReloadAddFails ==
    /\ "reload" \in Explicit /\ th["reload"].pc = "idle" /\ declared = None
    /\ th' = [th EXCEPT !["reload"] = [Idle EXCEPT !.pc = "record", !.err = "terminal"]]
    /\ UNCHANGED <<declared, regGen, pending, cleanupRan, meta, set, rows, open, dropped>>

\* Mutant: a removed server falls through to the start of the new one.
ReloadRemovesThenStarts ==
    /\ "reload" \in Explicit /\ th["reload"].pc = "idle" /\ declared # None
    /\ declared' = None
    /\ th' = [th EXCEPT !["reload"] = [Idle EXCEPT !.pc = "unbump", !.register = TRUE]]
    /\ UNCHANGED <<regGen, pending, cleanupRan, meta, set, rows, open, dropped>>

ReloadRemoves ==
    /\ "reload" \in Explicit /\ th["reload"].pc = "idle" /\ declared # None
    /\ declared' = None
    /\ th' = [th EXCEPT !["reload"] = [Idle EXCEPT !.pc = "unbump"]]
    /\ UNCHANGED <<regGen, pending, cleanupRan, meta, set, rows, open, dropped>>

ReloadModifies ==
    /\ "reload" \in Explicit /\ th["reload"].pc = "idle" /\ declared # None
    /\ \E c \in Cfgs \ {declared} :
          /\ declared' = c
          /\ th' = [th EXCEPT !["reload"] = [Idle EXCEPT !.pc = "unbump", !.cfg = c,
                                                         !.register = TRUE]]
    /\ UNCHANGED <<regGen, pending, cleanupRan, meta, set, rows, open, dropped>>

\* RestartMCPServer: from the stored metadata, or from the pending entry; an
\* unknown name is an error.
RestartBegins ==
    /\ "restart" \in Explicit /\ th["restart"].pc = "idle"
    /\ \/ /\ meta # None
          /\ th' = [th EXCEPT !["restart"] = [Idle EXCEPT !.pc = "close", !.cfg = meta,
                                                          !.register = TRUE]]
       \/ /\ meta = None /\ pending.cfg # None
          /\ th' = [th EXCEPT !["restart"] = [Idle EXCEPT !.pc = "bump",
                                                          !.cfg = pending.cfg]]
    /\ UNCHANGED <<declared, regGen, pending, cleanupRan, meta, set, rows, open, dropped>>

RestartCloses(t) ==
    /\ th[t].pc = "close"
    /\ open' = open \ {set.client}
    /\ Go(t, "unbump")
    /\ UNCHANGED <<declared, regGen, pending, cleanupRan, meta, set, rows, dropped>>

-----------------------------------------------------------------------------
(* UnregisterMCPServer                                                     *)

\* Take ownership: bump the generation and drop the retry state.
UnregisterBump(t) ==
    /\ th[t].pc = "unbump"
    /\ regGen' = regGen + 1
    /\ pending' = NoPending /\ cleanupRan' = FALSE
    /\ th' = Bumped([th EXCEPT ![t].pc = "unroute"])
    /\ UNCHANGED <<declared, meta, set, rows, open, dropped>>

\* router.RemoveClient; the set's clients are not closed.
UnregisterRoute(t) ==
    /\ th[t].pc = "unroute"
    /\ set' = NoSet
    /\ dropped' = dropped \cup (open \cap {set.client})
    /\ Go(t, "unmeta")
    /\ UNCHANGED <<declared, regGen, pending, cleanupRan, meta, rows, open>>

UnregisterMeta(t) ==
    /\ th[t].pc = "unmeta"
    /\ meta' = None
    /\ Go(t, "unrows")
    /\ UNCHANGED <<declared, regGen, pending, cleanupRan, set, rows, open, dropped>>

\* ClearRegistrationFailure and ClearServerAuthState end the operation.
UnregisterRows(t) ==
    /\ th[t].pc = "unrows"
    /\ rows' = {}
    /\ th' = [th EXCEPT ![t] = IF th[t].register THEN [@ EXCEPT !.pc = "start"]
                                                 ELSE Idle]
    /\ UNCHANGED <<declared, regGen, pending, cleanupRan, meta, set, open, dropped>>

\* The new server's container is started (reload) or restarted (restart).
StartServer(t) ==
    /\ th[t].pc = "start"
    /\ \/ Go(t, "bump") /\ UNCHANGED rows
       \/ t = "reload" /\ GoErr(t, "record", "terminal") /\ UNCHANGED rows
       \/ t = "restart" /\ GoErr(t, "note", "container") /\ rows' = rows \cup {"failed"}
    /\ UNCHANGED <<declared, regGen, pending, cleanupRan, meta, set, open, dropped>>

\* RegisterMCPReplicaSet takes ownership of the name and leaves the pending
\* entry in place.
RegisterBump(t) ==
    /\ th[t].pc = "bump"
    /\ regGen' = regGen + 1
    /\ th' = Bumped([th EXCEPT ![t].pc = "build"])
    /\ UNCHANGED <<declared, pending, cleanupRan, meta, set, rows, open, dropped>>

-----------------------------------------------------------------------------
(* The retries                                                             *)

\* retryPendingRegistrations: one attempt for an entry without one.
RetryLaunch(t) ==
    /\ t \in Retries /\ th[t].pc = "idle"
    /\ pending.cfg # None /\ ~pending.inFlight
    /\ pending' = [pending EXCEPT !.inFlight = TRUE]
    /\ th' = [th EXCEPT ![t] = [Idle EXCEPT !.pc = "probe", !.gen = regGen,
                                            !.cfg = pending.cfg, !.current = TRUE]]
    /\ UNCHANGED <<declared, regGen, cleanupRan, meta, set, rows, open, dropped>>

\* The container restart and the reachability probe.
RetryProbe(t) ==
    /\ th[t].pc = "probe"
    /\ \/ Go(t, "check")
       \/ Return(t)
       \/ GoErr(t, "drop", "auth")
    /\ UNCHANGED <<declared, regGen, pending, cleanupRan, meta, set, rows, open, dropped>>

\* dropPending: the endpoint wants authorization.
RetryDrop(t) ==
    /\ th[t].pc = "drop"
    /\ pending' = NoPending
    /\ Go(t, "record")
    /\ UNCHANGED <<declared, regGen, cleanupRan, meta, set, rows, open, dropped>>

\* The generation check before the clients are built.
RetryCheck(t) ==
    /\ th[t].pc = "check"
    /\ IF regGen = th[t].gen THEN Go(t, "build") ELSE Return(t)
    /\ UNCHANGED <<declared, regGen, pending, cleanupRan, meta, set, rows, open, dropped>>

\* Mutant: the deferred reset is missing on some return.
RetryFinishForgets(t) ==
    /\ th[t].pc = "finish"
    /\ th' = [th EXCEPT ![t] = Idle]
    /\ UNCHANGED <<declared, regGen, pending, cleanupRan, meta, set, rows, open, dropped>>

\* The deferred reset: whatever entry has the name now may be retried.
RetryFinish(t) ==
    /\ th[t].pc = "finish"
    /\ pending' = [pending EXCEPT !.inFlight = FALSE]
    /\ th' = [th EXCEPT ![t] = Idle]
    /\ UNCHANGED <<declared, regGen, cleanupRan, meta, set, rows, open, dropped>>

-----------------------------------------------------------------------------
(* registerReplicaSet                                                      *)

\* Identities that no connection, set or goroutine has.
Free == {c \in Clients : /\ c \notin open /\ c # set.client
                         /\ \A t \in Threads : c # th[t].old}

BuildSucceeds(t) ==
    /\ th[t].pc = "build" /\ Free # {}
    /\ LET c == CHOOSE c \in Free : TRUE
       IN  /\ open' = open \cup {c}
           /\ th' = [th EXCEPT ![t].pc = "commit", ![t].client = c]
    /\ UNCHANGED <<declared, regGen, pending, cleanupRan, meta, set, rows, dropped>>

\* buildAgentClient closes what it had opened; a readiness timeout removes
\* the container and says so (handleReadyFailure).
BuildFails(t) ==
    /\ th[t].pc = "build"
    /\ \E e \in {"retryable", "cancelled", "auth", "terminal", "ready"} :
          /\ GoErr(t, "note", e)
          /\ cleanupRan' = (cleanupRan \/ e = "ready")
    /\ UNCHANGED <<declared, regGen, pending, meta, set, rows, open, dropped>>

\* notePendingRegistrationFailure: the caller's generation plays no part.
NoteFailure(t) ==
    /\ th[t].pc = "note"
    /\ cleanupRan' = FALSE
    /\ pending' = CASE cleanupRan -> NoPending
                    [] ~cleanupRan /\ th[t].err = "cancelled" -> pending
                    [] ~cleanupRan /\ th[t].err \in {"auth", "terminal"} -> NoPending
                    [] OTHER -> [pending EXCEPT !.cfg = th[t].cfg]
    /\ IF th[t].err = "container" THEN Return(t) ELSE Go(t, "record")
    /\ UNCHANGED <<declared, regGen, meta, set, rows, open, dropped>>

\* RecordRegistrationFailure: a missing grant is needs-auth and not a failure;
\* everything else, a bare challenge too, is a failure.
RecordFailure(t) ==
    /\ th[t].pc = "record"
    /\ \/ th[t].err = "auth" /\ rows' = {"needs-auth"}
       \/ rows' = rows \cup {"failed"}
    /\ Return(t)
    /\ UNCHANGED <<declared, regGen, pending, cleanupRan, meta, set, open, dropped>>

\* Mutant: the generation is only checked before the clients are built.
CommitUnchecked(t) ==
    /\ th[t].pc = "commit"
    /\ pending' = NoPending /\ cleanupRan' = FALSE
    /\ meta' = th[t].cfg
    /\ set' = [client |-> th[t].client, cfg |-> th[t].cfg]
    /\ th' = [th EXCEPT ![t].pc = "settle", ![t].client = None, ![t].old = set.client]
    /\ UNCHANGED <<declared, regGen, rows, open, dropped>>

\* Mutant: AddReplicaSet replaces silently.
CommitLeaks(t) ==
    /\ th[t].pc = "commit" /\ (th[t].gen = 0 \/ th[t].gen = regGen)
    /\ pending' = NoPending /\ cleanupRan' = FALSE
    /\ meta' = th[t].cfg
    /\ set' = [client |-> th[t].client, cfg |-> th[t].cfg]
    /\ th' = [th EXCEPT ![t].pc = "settle", ![t].client = None]
    /\ UNCHANGED <<declared, regGen, rows, open, dropped>>

\* The commit, under pendingMu: metadata and router together.
Commit(t) ==
    /\ th[t].pc = "commit" /\ (th[t].gen = 0 \/ th[t].gen = regGen)
    /\ pending' = NoPending /\ cleanupRan' = FALSE
    /\ meta' = th[t].cfg
    /\ set' = [client |-> th[t].client, cfg |-> th[t].cfg]
    /\ th' = [th EXCEPT ![t].pc = "settle", ![t].client = None, ![t].old = set.client]
    /\ UNCHANGED <<declared, regGen, rows, open, dropped>>

\* errStaleRegistration: the attempt closes what it built.
CommitStale(t) ==
    /\ th[t].pc = "commit" /\ th[t].gen # 0 /\ th[t].gen # regGen
    /\ open' = open \ {th[t].client}
    /\ Return(t)
    /\ UNCHANGED <<declared, regGen, pending, cleanupRan, meta, set, rows, dropped>>

\* After the unlock: close the replaced clients, clear the status rows.
Settle(t) ==
    /\ th[t].pc = "settle"
    /\ open' = open \ {th[t].old}
    /\ rows' = {}
    /\ Return(t)
    /\ UNCHANGED <<declared, regGen, pending, cleanupRan, meta, set, dropped>>

-----------------------------------------------------------------------------
Init ==
    /\ declared = None /\ regGen = 0 /\ pending = NoPending
    /\ cleanupRan = FALSE /\ meta = None /\ set = NoSet /\ rows = {}
    /\ open = {} /\ dropped = {}
    /\ th = [t \in Threads |-> Idle]

\* An operation bumps the generation at most twice.
Operation ==
    /\ regGen + 2 * Cardinality(Explicit) <= MaxGen
    /\ ReloadAdds \/ ReloadAddFails \/ ReloadRemoves \/ ReloadModifies \/ RestartBegins

\* What a goroutine does once it is under way.
Step(t) ==
    \/ RestartCloses(t)
    \/ UnregisterBump(t) \/ UnregisterRoute(t) \/ UnregisterMeta(t) \/ UnregisterRows(t)
    \/ StartServer(t) \/ RegisterBump(t)
    \/ RetryProbe(t) \/ RetryDrop(t) \/ RetryCheck(t) \/ RetryFinish(t)
    \/ BuildSucceeds(t) \/ BuildFails(t) \/ NoteFailure(t) \/ RecordFailure(t)
    \/ Commit(t) \/ CommitStale(t) \/ Settle(t)

Next ==
    \/ Operation
    \/ \E t \in Threads : Step(t)
    \/ \E t \in Retries : RetryLaunch(t)

Spec == Init /\ [][Next]_vars

(***************************************************************************)
(* Fairness: goroutines are scheduled, the health monitor keeps launching  *)
(* retries, and the server, once it is declared, answers again and again,  *)
(* so that neither every probe nor every build of an attempt fails.        *)
(***************************************************************************)
FairSpec ==
    /\ Spec
    /\ \A t \in Threads : WF_vars(Step(t)) /\ SF_vars(BuildSucceeds(t))
    /\ \A t \in Retries : SF_vars(RetryProbe(t) /\ th'[t].pc = "check")
    /\ WF_vars(\E t \in Retries : RetryLaunch(t))

-----------------------------------------------------------------------------
(* Properties                                                              *)

Local == [pc : PC, gen : Nat, cfg : Cfgs \cup {None}, client : Clients \cup {None},
          old : Clients \cup {None}, err : Errs, register : BOOLEAN, current : BOOLEAN]

Configured == {"start", "bump", "probe", "check", "build", "commit", "note"}

Sane(l) ==
    /\ l.register \/ l.pc \in Configured => l.cfg # None
    /\ l.pc = "commit" <=> l.client # None
    /\ l.old # None => l.pc = "settle"

\* Type invariant: a goroutine that registers has a configuration, and it
\* holds a client exactly between the build and the commit.
RegTypeOK ==
    /\ declared \in Cfgs \cup {None} /\ meta \in Cfgs \cup {None}
    /\ regGen \in Nat
    /\ pending \in [cfg : Cfgs \cup {None}, inFlight : BOOLEAN]
    /\ cleanupRan \in BOOLEAN
    /\ set \in [client : Clients \cup {None}, cfg : Cfgs \cup {None}]
    /\ rows \subseteq {"failed", "needs-auth"}
    /\ open \subseteq Clients /\ dropped \subseteq Clients
    /\ th \in [Threads -> Local]
    /\ \A t \in Threads : Sane(th[t])

\* registerReplicaSet commits a retry only if no explicit registration or
\* unregistration of the name has begun since the retry was launched.
CommitOwned ==
    [][\A t \in Retries :
          (th[t].pc = "commit" /\ th'[t].pc = "settle") => th[t].current]_vars

Marked(t) ==
    IF t \in Retries
      THEN th[t].pc \notin {"idle", "finish"} =>
              /\ th[t].gen \in 1 .. regGen
              /\ th[t].current <=> (th[t].gen = regGen)
      ELSE /\ th[t].gen = 0
           /\ th[t].pc \in {"unroute", "unmeta", "unrows", "build", "note", "commit"}
                 => regGen > 0
           /\ (t = "restart" /\ th[t].pc = "start") => regGen > 0

\* The inductive invariant behind CommitOwned: a retry is never mistaken for
\* an explicit registration (generation 0), and its generation tells exactly
\* whether an explicit operation has begun since it was launched.
RetryMarked ==
    /\ pending.cfg # None => regGen > 0
    /\ \A t \in Threads : Marked(t)

\* Every live connection is routed, or a goroutine will commit or close it,
\* or UnregisterMCPServer dropped it with its set.  No race of commits leaks
\* one ("an orphaned set means an orphaned child").
ClientsAccounted ==
    \A c \in open : \/ c = set.client \/ c \in dropped
                     \/ \E t \in Threads : c \in {th[t].client, th[t].old}

\* An entry marked in flight has an attempt under way that will clear the
\* mark; otherwise the server would never be retried again.
InFlightHeld == pending.inFlight => \E t \in Retries : th[t].pc # "idle"

\* A server that was unreachable is eventually registered, or dropped from
\* the retries for a reason that retrying cannot mend.
Settles == pending.cfg # None ~> pending.cfg = None

Quiet == \A t \in Explicit : th[t].pc = "idle"

\* "It can never resurrect a server that was unregistered": once a removal is
\* complete the name stays out of the router.
NotResurrected == Quiet /\ declared = None => set = NoSet

\* "Retries always attempt the latest shape" of the server.
PendingIsLatest ==
    Quiet /\ declared # None /\ pending.cfg # None => pending.cfg = declared

\* A server that is not in the stack keeps no "ghost needs-auth row" in the
\* status.
NoGhostRow == Quiet /\ declared = None => "needs-auth" \notin rows
=============================================================================
