------------------------------ MODULE ToolPins ------------------------------
(***************************************************************************)
(* Schema pins of one MCP server: the pin store (pkg/pins/store.go), the   *)
(* gate that blocks a drifted server (pkg/mcp/gateway.go), the handlers    *)
(* that show a diff, approve and reset (internal/api/pins.go), and those   *)
(* who verify: the goroutine that registers the server and the health      *)
(* monitor after a reconnect.  The server may change its tools at any      *)
(* time, each write of the pin file may fail and the daemon may crash.     *)
(*                                                                         *)
(* A tool is its definition, of which digests of the old scheme cover all  *)
(* but the output schema; a digest is what it covers.                      *)
(***************************************************************************)
EXTENDS Naturals

CONSTANTS
    Names,              \* of the server's tools
    Defs,               \* definitions it may have, records of input and output
    OldDefs,            \* definitions that an older version has pinned
    Cfgs,               \* configurations of the server
    Replicas,
    Registrar, Monitor, Approvers,
    Action,             \* what to do about drift: "warn" or "block"
    None                \* no tool, no pins, no output in the digest, no config

Legacy(d) == [d EXCEPT !.output = None]
Pin == Defs \cup {Legacy(d) : d \in Defs \cup OldDefs}
Tools == [Names -> Defs \cup {None}]
Pins == [tools : [Names -> Pin \cup {None}], status : {"pinned", "drift"}]
Verifiers == {Registrar, Monitor}
Threads == Verifiers \cup Approvers

ASSUME PinsAssumption ==
    /\ \A d \in Defs \cup OldDefs : d = [input |-> d.input, output |-> d.output] /\ d.output # None
    /\ Action \in {"warn", "block"}
    /\ None \notin Defs \cup Cfgs \cup Pins \cup Tools
    /\ Registrar # Monitor /\ Verifiers \cap Approvers = {}

VARIABLES
    offered,    \* the tools that the server has now, under each configuration
    cfg,        \* the configuration that is applied
    tools,      \* the tool list of each routed replica's client
    routed,     \* whether the server is in the router
    blocked,    \* whether the server is in blockedServers
    mem, file,  \* the server's pins, in the store and in its file
    th,         \* what each goroutine is at
    accepted,   \* ghost: for each tool the first definition since a reset or an
                \* approval, with no output when only an old digest is known
    onDisk,     \* ghost: accepted, as of the last save
    unchecked   \* ghost: the last verification ended in an error

world == <<offered, cfg, tools, routed>>
store == <<mem, file>>
vars == <<world, blocked, store, th, accepted, onDisk, unchecked>>

NoTools == [r \in Replicas |-> [n \in Names |-> None]]
Idle == [pc |-> "idle"]
Go(t, r) == th' = [th EXCEPT ![t] = r]

-----------------------------------------------------------------------------
(* The pin store                                                           *)

\* The digest of d under the scheme of the pin.
hashToolForPin(pin, d) == IF pin.output = None THEN Legacy(d) ELSE d

ModifiedTools(p, list) ==
    {n \in Names : p.tools[n] # None /\ list[n] # None /\ hashToolForPin(p.tools[n], list[n]) # p.tools[n]}

\* Mutant: an approval takes effect with the next deployment.
pinServerPending(list) == [tools |-> list, status |-> "approved_pending_redeploy"]

pinServer(list) == [tools |-> list, status |-> "pinned"]

\* Mutant: the pin of a tool that is gone is dropped.
verifyAndUpdatePrunes(p, list) ==
    [tools |-> [n \in Names |-> IF n \in ModifiedTools(p, list) THEN p.tools[n] ELSE list[n]],
     status |-> IF ModifiedTools(p, list) = {} THEN "pinned" ELSE "drift"]

\* New tools are pinned, clean pins of the old scheme upgraded; what was modified
\* or removed keeps its pin.
verifyAndUpdate(p, list) ==
    [tools |-> [n \in Names |-> IF list[n] = None \/ n \in ModifiedTools(p, list)
                                THEN p.tools[n] ELSE list[n]],
     status |-> IF ModifiedTools(p, list) = {} THEN "pinned" ELSE "drift"]

Differs(acc, list) ==
    \E n \in Names : /\ acc[n] # None /\ list[n] # None
                     /\ acc[n].input # list[n].input \/ acc[n].output \notin {None, list[n].output}
Seen(acc, list) ==
    [n \in Names |-> IF acc[n] = None \/ (list[n] # None /\ acc[n] = Legacy(list[n]))
                     THEN list[n] ELSE acc[n]]

\* The pins become p under the locks of the store: the lock file is not had in
\* time, the save fails after the change, or it succeeds.
Store(p, acc, TimesOut, Fails, Succeeds) ==
    \/ TimesOut /\ UNCHANGED <<mem, file, accepted, onDisk>>
    \/ Fails /\ mem' = p /\ accepted' = acc /\ UNCHANGED <<file, onDisk>>
    \/ Succeeds /\ mem' = p /\ accepted' = acc /\ file' = p /\ onDisk' = acc

\* VerifyOrPin, by a goroutine that then goes on to act on the result.
VerifyOrPin(t) ==
    LET list == th[t].list
        p == IF mem = None THEN pinServer(list) ELSE verifyAndUpdate(mem, list)
        drift == mem # None /\ ModifiedTools(mem, list) # {}
        Reports(d) == Go(t, [th[t] EXCEPT !.pc = "report", !.drift = d])
    IN  /\ th[t].pc = "verify"
        /\ Store(p, Seen(accepted, list),
                 Reports(FALSE) /\ unchecked' = TRUE,
                 Reports(FALSE) /\ unchecked' = TRUE,
                 Reports(drift) /\ unchecked' = FALSE)
        /\ UNCHANGED world /\ UNCHANGED blocked

\* Mutant: the block ends with the next clean verification.
handlePinDriftLatest(drift) == blocked' = (drift /\ Action = "block")

\* handlePinDrift, unless the verification failed.
handlePinDrift(drift) == blocked' = (blocked \/ (drift /\ Action = "block"))

-----------------------------------------------------------------------------
(* Registration of the server                                              *)

\* UnregisterMCPServer, for a server that is removed (next is None) or modified,
\* which may leave what it offers as it is.
ReloadUnregisters(next) ==
    /\ th[Registrar].pc = "idle" /\ cfg # None
    /\ routed' = FALSE /\ cfg' = next /\ tools' = NoTools
    /\ th' = [th EXCEPT ![Registrar] = [pc |-> "reset"],
                        ![Monitor] = IF @.pc = "connect" THEN [@ EXCEPT !.current = FALSE] ELSE @]
    /\ UNCHANGED <<offered, blocked, accepted, onDisk, unchecked>> /\ UNCHANGED store

\* ResetServerPins; a failure is logged.
ResetServerPins ==
    LET After(fresh) == Go(Registrar, IF cfg = None THEN Idle ELSE [pc |-> "build", fresh |-> fresh])
    IN  /\ th[Registrar].pc = "reset"
        /\ Store(None, [n \in Names |-> None], After(FALSE), After(TRUE), After(TRUE))
        /\ UNCHANGED world /\ UNCHANGED <<blocked, unchecked>>

\* A server is added, restarted, or retried.
StartServer(next) ==
    /\ th[Registrar].pc = "idle" /\ next # None /\ (cfg = None \/ next = cfg)
    /\ cfg' = next /\ Go(Registrar, [pc |-> "build", fresh |-> FALSE])
    /\ UNCHANGED <<offered, tools, routed, blocked, accepted, onDisk, unchecked>> /\ UNCHANGED store

\* The clients are built and have listed the server's tools.
Build ==
    /\ th[Registrar].pc = "build"
    /\ \/ Go(Registrar, Idle)
       \/ Go(Registrar, [pc |-> "verify", list |-> offered[cfg], drift |-> FALSE])
    /\ UNCHANGED world /\ UNCHANGED <<blocked, accepted, onDisk, unchecked>> /\ UNCHANGED store

\* registerReplicaSet after the verification of the first client's tools.
Commit ==
    /\ th[Registrar].pc = "report"
    /\ handlePinDrift(th[Registrar].drift)
    /\ tools' = [r \in Replicas |-> th[Registrar].list] /\ routed' = TRUE
    /\ th' = [th EXCEPT ![Registrar] = Idle,
                        ![Monitor] = IF @.pc = "connect" THEN [@ EXCEPT !.current = FALSE] ELSE @]
    /\ UNCHANGED <<offered, cfg, accepted, onDisk, unchecked>> /\ UNCHANGED store

-----------------------------------------------------------------------------
(* The health monitor                                                      *)

\* A replica of the monitor's snapshot is to be reconnected.
MonFinds(r) ==
    /\ th[Monitor].pc = "idle" /\ routed
    /\ Go(Monitor, [pc |-> "connect", replica |-> r, cfg |-> cfg, current |-> TRUE])
    /\ UNCHANGED world /\ UNCHANGED <<blocked, accepted, onDisk, unchecked>> /\ UNCHANGED store

\* Reconnect lists the tools of the server it was started for, which may have
\* left the router since.
MonReconnects ==
    LET m == th[Monitor] IN
    /\ m.pc = "connect"
    /\ tools' = IF m.current THEN [tools EXCEPT ![m.replica] = offered[m.cfg]] ELSE tools
    /\ Go(Monitor, [pc |-> "verify", list |-> offered[m.cfg], drift |-> FALSE])
    /\ UNCHANGED <<offered, cfg, routed, blocked, accepted, onDisk, unchecked>> /\ UNCHANGED store

MonReports ==
    /\ th[Monitor].pc = "report"
    /\ handlePinDrift(th[Monitor].drift) /\ Go(Monitor, Idle)
    /\ UNCHANGED world /\ UNCHANGED <<accepted, onDisk, unchecked>> /\ UNCHANGED store

-----------------------------------------------------------------------------
(* Review                                                                  *)

\* handlePinsDiff shows what a client of the router's choice lists, ...
Diff(a, r) ==
    /\ th[a].pc = "idle" /\ mem # None /\ routed
    /\ Go(a, [pc |-> "reviewed", seen |-> tools[r]])
    /\ UNCHANGED world /\ UNCHANGED <<blocked, accepted, onDisk, unchecked>> /\ UNCHANGED store

\* The diff that an approval is bound to, if any.
Reviewed(a) == IF th[a].pc = "reviewed" THEN th[a].seen ELSE None

\* Mutant: the hash of the request is not compared.
ApproveUncompared(a, r) ==
    /\ mem # None /\ routed /\ th[a].pc \in {"idle", "reviewed"}
    /\ Go(a, [pc |-> "approve", seen |-> Reviewed(a), list |-> tools[r]])
    /\ UNCHANGED world /\ UNCHANGED <<blocked, accepted, onDisk, unchecked>> /\ UNCHANGED store

\* ... and handleApprovePins compares its hash with what another one lists, unless
\* the request is bound to no diff.
Approve(a, r) ==
    /\ mem # None /\ routed
    /\ th[a].pc = "idle" \/ (th[a].pc = "reviewed" /\ tools[r] = th[a].seen)
    /\ Go(a, [pc |-> "approve", seen |-> Reviewed(a), list |-> tools[r]])
    /\ UNCHANGED world /\ UNCHANGED <<blocked, accepted, onDisk, unchecked>> /\ UNCHANGED store

\* PinStore.Approve; no handler calls UnblockServer.
ApprovePins(a) ==
    /\ th[a].pc = "approve" /\ Go(a, Idle)
    /\ Store(pinServer(th[a].list), th[a].list, TRUE, TRUE, TRUE)
    /\ UNCHANGED world /\ UNCHANGED <<blocked, unchecked>>

\* The reviewer loses interest, or the approval is refused.
Leave(a) ==
    /\ th[a].pc = "reviewed" /\ Go(a, Idle)
    /\ UNCHANGED world /\ UNCHANGED <<blocked, accepted, onDisk, unchecked>> /\ UNCHANGED store

\* handleResetPins.
Reset(a) ==
    /\ th[a].pc = "idle" /\ mem # None
    /\ Store(None, [n \in Names |-> None], TRUE, TRUE, TRUE)
    /\ UNCHANGED world /\ UNCHANGED <<blocked, th, unchecked>>

-----------------------------------------------------------------------------
(* The server and the daemon                                               *)

ServerChanges(c) ==
    /\ offered' \in {[offered EXCEPT ![c] = list] : list \in Tools \ {offered[c]}}
    /\ UNCHANGED <<cfg, tools, routed, blocked, th, accepted, onDisk, unchecked>> /\ UNCHANGED store

\* The file is one for all servers: the save of another one writes what the store
\* has of this one, also a change whose own save has failed.
OtherServerSaves ==
    /\ file' = mem /\ onDisk' = accepted
    /\ UNCHANGED world /\ UNCHANGED <<blocked, mem, th, accepted, unchecked>>

\* The daemon ends and starts again with the file; one that is damaged is
\* discarded.  What was blocked is not remembered.
Crash(damaged) ==
    /\ mem' = IF damaged THEN None ELSE file
    /\ accepted' = IF damaged THEN [n \in Names |-> None] ELSE onDisk
    /\ th' = [t \in Threads |-> Idle] /\ routed' = FALSE /\ tools' = NoTools /\ blocked' = FALSE
    /\ unchecked' = FALSE
    /\ UNCHANGED <<offered, cfg, file, onDisk>>

-----------------------------------------------------------------------------
OldPins == [tools : [Names -> {Legacy(d) : d \in OldDefs} \cup {None}], status : {"pinned"}]

PinsInit ==
    /\ offered \in [Cfgs -> Tools] /\ cfg = None /\ routed = FALSE
    /\ tools = NoTools
    /\ blocked = FALSE
    /\ file \in OldPins \cup {None} /\ mem = file
    /\ th = [t \in Threads |-> Idle]
    /\ accepted = (IF file = None THEN [n \in Names |-> None] ELSE file.tools) /\ onDisk = accepted
    /\ unchecked = FALSE

Next ==
    \/ \E next \in Cfgs \cup {None} : ReloadUnregisters(next) \/ StartServer(next)
    \/ ResetServerPins \/ Build \/ Commit
    \/ \E t \in Verifiers : VerifyOrPin(t)
    \/ \E r \in Replicas : MonFinds(r)
    \/ MonReconnects \/ MonReports
    \/ \E a \in Approvers :
           \/ \E r \in Replicas : Diff(a, r) \/ Approve(a, r)
           \/ ApprovePins(a) \/ Leave(a) \/ Reset(a)
    \/ \E c \in Cfgs : ServerChanges(c)
    \/ OtherServerSaves
    \/ \E damaged \in BOOLEAN : Crash(damaged)

Spec == PinsInit /\ [][Next]_vars
-----------------------------------------------------------------------------
(* Properties                                                              *)

Verifying == [pc : {"verify", "report"}, list : Tools, drift : BOOLEAN]
Registering == {Idle, [pc |-> "reset"]} \cup [pc : {"build"}, fresh : BOOLEAN] \cup Verifying
Monitoring == {Idle} \cup [pc : {"connect"}, replica : Replicas, cfg : Cfgs, current : BOOLEAN] \cup Verifying
Reviewing == {Idle} \cup [pc : {"reviewed"}, seen : Tools] \cup [pc : {"approve"}, seen : Tools \cup {None}, list : Tools]

\* Types, and what each goroutine has in hand at each of its steps.
PinsTypeOK ==
    /\ offered \in [Cfgs -> Tools] /\ cfg \in Cfgs \cup {None}
    /\ routed \/ th[Registrar].pc \in {"build", "verify", "report"} => cfg # None
    /\ tools \in [Replicas -> Tools] /\ {routed, blocked, unchecked} \subseteq BOOLEAN
    /\ mem \in Pins \cup {None} /\ file \in Pins \cup {None}
    /\ {accepted, onDisk} \subseteq [Names -> Pin \cup {None}]
    /\ th \in [Threads -> Registering \cup Monitoring \cup Reviewing]
    /\ th[Registrar] \in Registering /\ th[Monitor] \in Monitoring
    /\ \A a \in Approvers : th[a] \in Reviewing

\* Trust on first use: a verification reports drift exactly if some tool is not
\* the one that was first seen since the last reset or approval, however often it
\* was removed and added again, whichever digest scheme its pin was written in,
\* and whatever saves have failed or crashes have come between.
VerdictExact ==
    [][\A t \in Verifiers : (th[t].pc = "verify" /\ th'[t].pc = "report" /\ ~unchecked')
           => (th'[t].drift <=> Differs(accepted, th[t].list))]_vars

\* A server whose stored status is drift is blocked, if drift blocks: also after a
\* restart, which forgets what was blocked, the first verification blocks it before
\* it is routed.  The exceptions are a verification that ended in an error, on
\* which the gateway goes on, and one whose result is not acted on yet.
DriftIsEnforced ==
    (/\ Action = "block" /\ routed /\ mem # None /\ mem.status = "drift" /\ ~unchecked
     /\ \A t \in Verifiers : th[t].pc # "report") => blocked

\* An approval that is bound to a diff pins the tools that the diff has shown and
\* nothing else, though the server may change its tools and replicas may differ meanwhile.
ApprovedAsReviewed ==
    [][\A a \in Approvers : (ApprovePins(a) /\ th[a].seen # None)
           => mem' = mem \/ mem'.tools = th[a].seen]_vars

\* Refuted: "block" rejects tool calls "until approved" (docs/config-schema.md); an
\* approval of what all replicas list resumes the server.
ApprovalResumes ==
    [][\A a \in Approvers :
           (ApprovePins(a) /\ routed /\ file' # file /\ \A r \in Replicas : tools[r] = th[a].list)
               => ~blocked']_vars

\* Refuted: a modified server is pinned "from scratch rather than flagging
\* config-driven tool changes as drift" (ResetServerPins).
RepinsFromScratch ==
    (th[Registrar].pc = "build" /\ th[Registrar].fresh) => mem = None
=============================================================================
