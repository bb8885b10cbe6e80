------------------------------ MODULE StdioRPC ------------------------------
(***************************************************************************)
(* The JSON-RPC clients that speak over a pipe: ProcessClient              *)
(* (pkg/mcp/process.go), which owns a local process, and StdioClient       *)
(* (pkg/mcp/stdio.go), which attaches to a container.  Callers register a  *)
(* channel under a request id, write the request under procMu and wait; a  *)
(* reader goroutine per connection routes the answers and, when it ends,   *)
(* fails whatever is still pending; the health monitor pings and           *)
(* reconnects.                                                             *)
(*                                                                         *)
(* A step is what a goroutine does under one mutex or between two; the     *)
(* response map has a mutex of its own, which is never held across a step. *)
(* The handshake of Reconnect is one call.                                 *)
(***************************************************************************)
EXTENDS Integers, FiniteSets

CONSTANTS
    Kind,       \* "process" or "container"
    Callers,    \* goroutines in CallTool
    Monitor,    \* the health monitor's goroutine
    Free,       \* nobody holds procMu
    MaxCalls,   \* bound on the calls ever made
    MaxConns,   \* bound on the connections ever made
    PipeCap     \* requests the server's stdin holds unread

ASSUME RPCAssumption ==
    /\ Kind \in {"process", "container"}
    /\ Monitor \notin Callers /\ Free \notin Callers \cup {Monitor}
    /\ MaxCalls \in Nat /\ MaxConns \in Nat \ {0} /\ PipeCap \in Nat \ {0}

VARIABLES
    procMu,     \* holder of procMu (connMu)
    started,    \* started (attached)
    cur,        \* the connection cmd, stdin and stdout belong to; 0 for nil
    conns,      \* the number of connections made; cancel is the last one's
    conn,       \* the state of each connection
    requestID,  \* the last request id
    calls,      \* how many calls were made (ghost: tells calls apart)
    responses,  \* the ids with a channel in the response map
    chan,       \* what the channel of each id holds
    th          \* the local state of each goroutine

vars == <<procMu, started, cur, conns, conn, requestID, calls, responses, chan, th>>

Threads == Callers \cup {Monitor}
IDs == 1 .. MaxCalls
ConnIDs == 1 .. MaxConns

\* A request, and the response to it: the id, and which call it belongs to.
Message == [id : IDs, no : IDs]

Empty == [id |-> 0, no |-> 0]
Lost == [id |-> 0, no |-> 1]      \* drainPendingRequests' error response

\* open: the process runs and its pipes are open.  in, work and out are the
\* requests unread, the requests read and the responses unread.
NoConn == [open |-> FALSE, cancelled |-> FALSE, reader |-> "off", got |-> Empty,
           in |-> {}, work |-> {}, out |-> {}]

Idle == [pc |-> "idle", req |-> Empty, phase |-> "call"]

Go(t, pc) == th' = [th EXCEPT ![t].pc = pc]

-----------------------------------------------------------------------------
(* call                                                                    *)

\* Calls the monitor may still have to make.
Reserved == IF th[Monitor].pc = "idle" THEN 0 ELSE 2

\* A new id and a channel for it.
Register(t, phase) ==
    LET m == [id |-> requestID + 1, no |-> calls + 1]
    IN  /\ requestID' = requestID + 1 /\ calls' = calls + 1
        /\ responses' = responses \cup {m.id}
        /\ chan' = [chan EXCEPT ![m.id] = Empty]
        /\ th' = [th EXCEPT ![t] = [pc |-> "send", req |-> m, phase |-> phase]]

CallBegins(t) ==
    /\ t \in Callers /\ th[t].pc = "idle"
    /\ calls + 1 + Reserved <= MaxCalls
    /\ Register(t, "call")
    /\ UNCHANGED <<procMu, started, cur, conns, conn>>

\* sendStdio: the mutex, and "not connected".
SendLock(t) ==
    /\ th[t].pc = "send" /\ procMu = Free
    /\ IF started /\ cur # 0
         THEN procMu' = t /\ Go(t, "write")
         ELSE Go(t, "unregister") /\ UNCHANGED procMu
    /\ UNCHANGED <<started, cur, conns, conn, requestID, calls, responses, chan>>

\* sendStdio: the write, which blocks while the pipe is full.
SendWrite(t) ==
    /\ th[t].pc = "write" /\ conn[cur].open /\ Cardinality(conn[cur].in) < PipeCap
    /\ conn' = [conn EXCEPT ![cur].in = @ \cup {th[t].req}]
    /\ procMu' = Free
    /\ Go(t, "wait")
    /\ UNCHANGED <<started, cur, conns, requestID, calls, responses, chan>>

\* Mutant: the failing write returns without unlocking procMu.
SendFailsLocked(t) ==
    /\ th[t].pc = "write" /\ ~conn[cur].open
    /\ Go(t, "unregister")
    /\ UNCHANGED <<procMu, started, cur, conns, conn, requestID, calls, responses, chan>>

\* sendStdio: the pipe is closed.
SendFails(t) ==
    /\ th[t].pc = "write" /\ ~conn[cur].open
    /\ procMu' = Free
    /\ Go(t, "unregister")
    /\ UNCHANGED <<started, cur, conns, conn, requestID, calls, responses, chan>>

\* A call is over.  A ping that failed starts a reconnect.
Return(t, ok) ==
    th' = [th EXCEPT ![t] = IF th[t].phase = "ping" /\ ~ok
                              THEN [Idle EXCEPT !.pc = "close"] ELSE Idle]

\* The send failed: the channel is deleted.
Unregister(t) ==
    /\ th[t].pc = "unregister"
    /\ responses' = responses \ {th[t].req.id}
    /\ Return(t, FALSE)
    /\ UNCHANGED <<procMu, started, cur, conns, conn, requestID, calls, chan>>

\* The select takes the response.
CallReceives(t) ==
    /\ th[t].pc = "wait" /\ chan[th[t].req.id] # Empty
    /\ Return(t, chan[th[t].req.id] # Lost)
    /\ UNCHANGED <<procMu, started, cur, conns, conn, requestID, calls, responses, chan>>

\* Mutant: the timeout path leaves its channel in the map.
CallGivesUpLeaks(t) ==
    /\ th[t].pc = "wait"
    /\ Return(t, FALSE)
    /\ UNCHANGED <<procMu, started, cur, conns, conn, requestID, calls, responses, chan>>

\* The select takes the timeout or the cancelled context.
CallGivesUp(t) ==
    /\ th[t].pc = "wait"
    /\ responses' = responses \ {th[t].req.id}
    /\ Return(t, FALSE)
    /\ UNCHANGED <<procMu, started, cur, conns, conn, requestID, calls, chan>>

-----------------------------------------------------------------------------
(* readResponses                                                           *)

\* Scan returns a line; the context is checked right after it.
ReaderScans(k) ==
    /\ conn[k].reader = "scan"
    /\ \E m \in conn[k].out :
          conn' = [conn EXCEPT ![k].out = @ \ {m},
                               ![k].got = IF conn[k].cancelled THEN Empty ELSE m,
                               ![k].reader = IF conn[k].cancelled THEN "drain" ELSE "route"]
    /\ UNCHANGED <<procMu, started, cur, conns, requestID, calls, responses, chan, th>>

\* The response goes to the channel of its id, if it still has one.
ReaderRoutes(k) ==
    LET m == conn[k].got
    IN  /\ conn[k].reader = "route"
        /\ IF m.id \in responses
             THEN /\ chan' = [chan EXCEPT ![m.id] = m]
                  /\ responses' = responses \ {m.id}
             ELSE UNCHANGED <<chan, responses>>
        /\ conn' = [conn EXCEPT ![k].reader = "scan", ![k].got = Empty]
        /\ UNCHANGED <<procMu, started, cur, conns, requestID, calls, th>>

\* Scan ends at the end of the stream, or on a line longer than its buffer.
ReaderEnds(k) ==
    /\ conn[k].reader = "scan"
    /\ conn' = [conn EXCEPT ![k].reader = "drain"]
    /\ UNCHANGED <<procMu, started, cur, conns, requestID, calls, responses, chan, th>>

\* Mutant: the drained channels stay in the map.
DrainKeeps(k) ==
    /\ conn[k].reader = "drain"
    /\ chan' = [i \in IDs |-> IF i \in responses /\ chan[i] = Empty THEN Lost ELSE chan[i]]
    /\ conn' = [conn EXCEPT ![k].reader = "off"]
    /\ UNCHANGED <<procMu, started, cur, conns, requestID, calls, responses, th>>

\* Mutant: the map is reset and its callers are not told.
DrainSilent(k) ==
    /\ conn[k].reader = "drain"
    /\ responses' = {}
    /\ conn' = [conn EXCEPT ![k].reader = "off"]
    /\ UNCHANGED <<procMu, started, cur, conns, requestID, calls, chan, th>>

\* drainPendingRequests fails every pending call, whatever its connection.
Drain(k) ==
    /\ conn[k].reader = "drain"
    /\ chan' = [i \in IDs |-> IF i \in responses /\ chan[i] = Empty THEN Lost ELSE chan[i]]
    /\ responses' = {}
    /\ conn' = [conn EXCEPT ![k].reader = "off"]
    /\ UNCHANGED <<procMu, started, cur, conns, requestID, calls, th>>

-----------------------------------------------------------------------------
(* Ping and Reconnect                                                      *)

\* Ping: a process or connection that is not there is an error at once.
MonPings ==
    /\ th[Monitor].pc = "idle" /\ procMu = Free /\ calls + 2 <= MaxCalls
    /\ IF started /\ (Kind = "process" => cur # 0)
         THEN Register(Monitor, "ping")
         ELSE Go(Monitor, "close") /\ UNCHANGED <<requestID, calls, responses, chan>>
    /\ UNCHANGED <<procMu, started, cur, conns, conn>>

\* Close: cancel the last reader, close the pipes, end the process.
MonCloses ==
    /\ th[Monitor].pc = "close" /\ procMu = Free
    /\ started' = (started /\ Kind = "process" /\ cur # 0)
    /\ conn' = [k \in ConnIDs |->
                  [conn[k] EXCEPT !.cancelled = @ \/ k = conns, !.open = @ /\ k # cur]]
    /\ Go(Monitor, IF Kind = "process" THEN "reset" ELSE "connect")
    /\ UNCHANGED <<procMu, cur, conns, requestID, calls, responses, chan>>

\* ProcessClient.Reconnect forgets cmd, stdin and stdout.
MonResets ==
    /\ th[Monitor].pc = "reset" /\ procMu = Free
    /\ cur' = 0
    /\ Go(Monitor, "connect")
    /\ UNCHANGED <<procMu, started, conns, conn, requestID, calls, responses, chan>>

\* What a container has read stays with it; a new process has read nothing.
Inherited == IF Kind = "container" /\ conns # 0 THEN conn[conns].work \cup conn[conns].in
                                                ELSE {}

\* Mutant: a new connection numbers its requests from one again.
MonConnectsRenumbered ==
    /\ th[Monitor].pc = "connect" /\ procMu = Free /\ ~started /\ conns < MaxConns
    /\ started' = TRUE /\ cur' = conns + 1 /\ conns' = conns + 1
    /\ conn' = [conn EXCEPT ![conns + 1] =
                  [NoConn EXCEPT !.open = TRUE, !.reader = "scan", !.work = Inherited]]
    /\ requestID' = 0
    /\ Go(Monitor, "handshake")
    /\ UNCHANGED <<procMu, calls, responses, chan>>

\* Connect starts the process or attaches, and starts a reader.
MonConnects ==
    /\ th[Monitor].pc = "connect" /\ procMu = Free /\ ~started /\ conns < MaxConns
    /\ started' = TRUE /\ cur' = conns + 1 /\ conns' = conns + 1
    /\ conn' = [conn EXCEPT ![conns + 1] =
                  [NoConn EXCEPT !.open = TRUE, !.reader = "scan", !.work = Inherited]]
    /\ Go(Monitor, "handshake")
    /\ UNCHANGED <<procMu, requestID, calls, responses, chan>>

\* Connect returns nil at once while started is set.
MonConnectsAlready ==
    /\ th[Monitor].pc = "connect" /\ procMu = Free /\ started
    /\ Go(Monitor, "handshake")
    /\ UNCHANGED <<procMu, started, cur, conns, conn, requestID, calls, responses, chan>>

\* Connect fails.
MonConnectFails ==
    /\ th[Monitor].pc = "connect" /\ procMu = Free /\ ~started
    /\ th' = [th EXCEPT ![Monitor] = Idle]
    /\ UNCHANGED <<procMu, started, cur, conns, conn, requestID, calls, responses, chan>>

\* Initialize and RefreshTools.
MonHandshakes ==
    /\ th[Monitor].pc = "handshake"
    /\ Register(Monitor, "handshake")
    /\ UNCHANGED <<procMu, started, cur, conns, conn>>

-----------------------------------------------------------------------------
(* The server at the other end                                             *)

ServerReads(k) ==
    /\ conn[k].open
    /\ \E m \in conn[k].in :
          conn' = [conn EXCEPT ![k].in = @ \ {m}, ![k].work = @ \cup {m}]
    /\ UNCHANGED <<procMu, started, cur, conns, requestID, calls, responses, chan, th>>

\* It answers what it has read, late, out of order or twice.
ServerAnswers(k) ==
    /\ conn[k].open
    /\ \E m \in conn[k].work \ conn[k].out : conn' = [conn EXCEPT ![k].out = @ \cup {m}]
    /\ UNCHANGED <<procMu, started, cur, conns, requestID, calls, responses, chan, th>>

ServerExits(k) ==
    /\ conn[k].open
    /\ conn' = [conn EXCEPT ![k].open = FALSE]
    /\ UNCHANGED <<procMu, started, cur, conns, requestID, calls, responses, chan, th>>

-----------------------------------------------------------------------------
\* The client is connected and initialized when it joins the gateway.
Init ==
    /\ procMu = Free /\ started = TRUE /\ cur = 1 /\ conns = 1
    /\ conn = [k \in ConnIDs |-> IF k = 1 THEN [NoConn EXCEPT !.open = TRUE, !.reader = "scan"]
                                          ELSE NoConn]
    /\ requestID = 0 /\ calls = 0 /\ responses = {}
    /\ chan = [i \in IDs |-> Empty]
    /\ th = [t \in Threads |-> Idle]

\* What a goroutine does once it is in a call.
InCall(t) ==
    \/ SendLock(t) \/ SendWrite(t) \/ SendFails(t) \/ Unregister(t)
    \/ CallReceives(t) \/ CallGivesUp(t)

Reconnect ==
    \/ MonCloses \/ MonResets \/ MonConnects \/ MonConnectsAlready \/ MonConnectFails
    \/ MonHandshakes

Reader(k) == ReaderScans(k) \/ ReaderRoutes(k) \/ ReaderEnds(k) \/ Drain(k)

Next ==
    \/ \E t \in Threads : CallBegins(t) \/ InCall(t)
    \/ MonPings \/ Reconnect
    \/ \E k \in ConnIDs : Reader(k) \/ ServerReads(k) \/ ServerAnswers(k) \/ ServerExits(k)

Spec == Init /\ [][Next]_vars

(***************************************************************************)
(* Fairness: goroutines are scheduled, timers fire, and sync.Mutex is      *)
(* handed to a waiter that starves.  FairSpec asks nothing of the server;  *)
(* ReadingSpec asks that it reads its standard input.                      *)
(***************************************************************************)
FairSpec ==
    /\ Spec
    /\ \A t \in Threads : WF_vars(InCall(t)) /\ SF_vars(SendLock(t))
    /\ WF_vars(Reconnect) /\ SF_vars(MonCloses) /\ SF_vars(MonResets)
    /\ SF_vars(MonConnects \/ MonConnectsAlready \/ MonConnectFails)

ReadingSpec == FairSpec /\ \A k \in ConnIDs : WF_vars(ServerReads(k))

-----------------------------------------------------------------------------
(* Properties                                                              *)

\* A goroutine has a call under way, from its registration to its return.
Calling(t) == th[t].pc \in {"send", "write", "wait", "unregister"}

\* What the channel of a goroutine's call holds.
Told(t) ==
    LET c == chan[th[t].req.id]
    IN  IF c = Empty THEN "empty" ELSE IF c = Lost THEN "lost"
        ELSE IF c = th[t].req THEN "answer" ELSE "wrong"

PC == {"idle", "send", "write", "wait", "unregister", "close", "reset", "connect",
       "handshake"}
Goroutine == [pc : PC, req : Message \cup {Empty}, phase : {"call", "ping", "handshake"}]
Conn == [open : BOOLEAN, cancelled : BOOLEAN,
         reader : {"off", "scan", "route", "drain"}, got : Message \cup {Empty},
         in : SUBSET Message, work : SUBSET Message, out : SUBSET Message]

\* Type invariant; procMu is held exactly by a goroutine inside a write, on a
\* connection that the client has.
RPCTypeOK ==
    /\ procMu \in Threads \cup {Free} /\ started \in BOOLEAN
    /\ cur \in 0 .. conns /\ conns \in 0 .. MaxConns
    /\ conn \in [ConnIDs -> Conn]
    /\ requestID \in 0 .. MaxCalls /\ calls \in 0 .. MaxCalls
    /\ responses \subseteq IDs
    /\ chan \in [IDs -> Message \cup {Empty, Lost}]
    /\ th \in [Threads -> Goroutine]
    /\ \A t \in Threads : th[t].pc = "write" <=> procMu = t
    /\ procMu # Free => cur # 0

\* The reader and the drain send on a channel while they hold the lock of the
\* response map.  The channel has room for one response: a second one would
\* block the reader, and with it every other call, for good.
ReaderNeverBlocks == \A i \in responses : chan[i] = Empty

\* A caller never gets the answer to another request, however late or often
\* the server answers and however often the client has reconnected meanwhile.
AnswersMatch ==
    \A t \in Threads : Calling(t) => chan[th[t].req.id] \in {Empty, Lost, th[t].req}

\* The response map holds no channel whose caller is gone.
NoStaleEntry ==
    \A i \in responses : \E t \in Threads :
        Calling(t) /\ th[t].req.id = i

\* A registered call that is still waiting has its channel in the map or the
\* response in its channel: no response is dropped between the two.
NoneForgotten ==
    \A t \in Threads : Calling(t) =>
        th[t].req.id \in responses \/ chan[th[t].req.id] # Empty

\* The client seen as a table of calls: what each goroutine has under way and
\* what its channel tells it; "wrong" is an answer to some other call.
Abstract == INSTANCE CallTable WITH
    Threads <- Threads,
    issued <- calls,
    waiting <- [t \in Threads |-> IF Calling(t) THEN th[t].req.no ELSE 0],
    box <- [t \in Threads |-> IF ~Calling(t) THEN "empty" ELSE Told(t)]

\* Through every reconnect, late answer and drain, the client implements the
\* table of calls: a call is settled at most once, by the answer to it or by
\* the news that it is lost, and a drain settles every call there is.
ImplementsCallTable == Abstract!Spec

\* Every call returns, and so does every ping and every reconnect.
CallsReturn == \A t \in Threads : th[t].pc # "idle" ~> th[t].pc = "idle"

\* "The per-ping deadline": a ping of the health monitor comes to an end.
PingsEnd == th[Monitor].phase = "ping" ~> th[Monitor].phase # "ping"

\* "Reconnect terminates the existing process and starts a new one": there is
\* a process to shake hands with.
ReconnectStarts == th[Monitor].pc = "handshake" => cur # 0
=============================================================================
