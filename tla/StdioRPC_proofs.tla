--------------------------- MODULE StdioRPC_proofs ---------------------------
(***************************************************************************)
(* The pipe client's safety, for any number of callers, calls and          *)
(* connections, and the proof that it implements CallTable.                *)
(***************************************************************************)
EXTENDS StdioRPC, TLAPS

\* The ids are the numbers of the calls: nothing takes the counter back.
Numbered ==
    /\ requestID = calls /\ responses \subseteq 1 .. calls
    /\ \A t \in Threads : Calling(t) =>
          th[t].req \in Message /\ th[t].req.id = th[t].req.no /\ th[t].req.no <= calls

\* What is on its way to a server, in it or on its way back is a numbered
\* request, and a reader that routes has one in its hands.
Known ==
    \A k \in ConnIDs :
        /\ \A m \in conn[k].in \cup conn[k].work \cup conn[k].out : m.id = m.no
        /\ conn[k].got.id = conn[k].got.no
        /\ conn[k].reader = "route" => conn[k].got # Empty

\* A channel holds nothing, the bad news or the answer to its own call.
Delivered == \A i \in IDs : chan[i] \in {Empty, Lost, [id |-> i, no |-> i]}

\* No two goroutines wait on one channel.
Apart ==
    \A t, u \in Threads : Calling(t) /\ Calling(u) /\ th[t].req.id = th[u].req.id => t = u

\* The bound on calls leaves the monitor its ping's handshake.
Handshakes ==
    /\ th[Monitor].pc # "idle" /\ th[Monitor].phase # "handshake" => calls < MaxCalls
    /\ ~Calling(Monitor) => th[Monitor].phase = "call"

IndInv ==
    /\ RPCTypeOK /\ Handshakes /\ Numbered /\ Known /\ Delivered
    /\ Apart /\ ReaderNeverBlocks /\ NoStaleEntry /\ NoneForgotten

-----------------------------------------------------------------------------
(* What every action that is not about the table of calls leaves alone.    *)

Table == <<requestID, calls, responses, chan>>

LEMMA Sets ==
    /\ Monitor \in Threads /\ Callers \subseteq Threads /\ Free \notin Threads
    /\ MaxCalls \in Nat /\ MaxConns \in Nat \ {0}
    /\ Empty \notin Message /\ Lost \notin Message /\ Empty # Lost
  BY RPCAssumption DEF Threads, Empty, Lost, Message, IDs

LEMMA InitInv == Init => IndInv
  <1> SUFFICES ASSUME Init PROVE IndInv
    OBVIOUS
  <1> USE Sets DEF Init
  <1>1. RPCTypeOK
    <2>1. Idle \in Goroutine
      BY DEF Idle, PC, Goroutine
    <2>2. NoConn \in Conn /\ [NoConn EXCEPT !.open = TRUE, !.reader = "scan"] \in Conn
      BY DEF NoConn, Conn
    <2>3. conn \in [ConnIDs -> Conn]
      BY <2>2
    <2>4. \A t \in Threads : th[t].pc = "write" <=> procMu = t
      BY DEF Idle
    <2> QED BY <2>1, <2>3, <2>4 DEF RPCTypeOK
  <1>2. Handshakes /\ Numbered /\ Delivered /\ Apart
    BY DEF Handshakes, Numbered, Delivered, Apart, Calling, Idle
  <1>3. Known
    BY DEF Known, NoConn, Empty, ConnIDs
  <1>4. ReaderNeverBlocks /\ NoStaleEntry /\ NoneForgotten
    BY DEF ReaderNeverBlocks, NoStaleEntry, NoneForgotten, Calling, Idle
  <1> QED BY <1>1, <1>2, <1>3, <1>4 DEF IndInv

-----------------------------------------------------------------------------
(* Types, and the bound on the calls.                                      *)

LEMMA IdleTyped ==
    /\ Idle \in Goroutine /\ [Idle EXCEPT !.pc = "close"] \in Goroutine
    /\ Idle.pc = "idle" /\ Idle.phase = "call"
    /\ [Idle EXCEPT !.pc = "close"].pc = "close" /\ [Idle EXCEPT !.pc = "close"].phase = "call"
  BY DEF Idle, PC, Goroutine

LEMMA RegisterTyped ==
    ASSUME RPCTypeOK, NEW t \in Threads, NEW ph \in {"call", "ping", "handshake"},
           th[t].pc # "write", calls < MaxCalls, requestID = calls, Register(t, ph),
           UNCHANGED <<procMu, started, cur, conns, conn>>
    PROVE  RPCTypeOK'
  <1>1. calls + 1 \in IDs /\ [id |-> requestID + 1, no |-> calls + 1] \in Message
    BY Sets DEF RPCTypeOK, IDs, Message
  <1>2. [pc |-> "send", req |-> [id |-> requestID + 1, no |-> calls + 1], phase |-> ph]
            \in Goroutine
    BY <1>1 DEF Goroutine, PC
  <1>3. th' \in [Threads -> Goroutine] /\ chan' \in [IDs -> Message \cup {Empty, Lost}]
    BY <1>1, <1>2 DEF Register, RPCTypeOK
  <1>4. \A u \in Threads : th'[u].pc = "write" <=> procMu' = u
    BY DEF Register, RPCTypeOK
  <1> QED BY Sets, <1>1, <1>3, <1>4 DEF Register, RPCTypeOK, IDs

LEMMA GoTyped ==
    ASSUME RPCTypeOK, NEW t \in Threads, NEW pc \in PC, Go(t, pc)
    PROVE  th' \in [Threads -> Goroutine]
  BY DEF RPCTypeOK, Go, Goroutine

LEMMA ReturnTyped ==
    ASSUME RPCTypeOK, NEW t \in Threads, NEW ok \in BOOLEAN, Return(t, ok)
    PROVE  th' \in [Threads -> Goroutine]
  BY IdleTyped DEF RPCTypeOK, Return

LEMMA CallTyped ==
    ASSUME RPCTypeOK, Handshakes, Numbered, NEW t \in Threads,
           CallBegins(t) \/ InCall(t)
    PROVE  RPCTypeOK'
  <1> USE Sets
  <1>1. CASE CallBegins(t)
    <2>1. calls < MaxCalls
      BY <1>1 DEF CallBegins, Reserved, RPCTypeOK
    <2> QED BY <1>1, <2>1, RegisterTyped DEF CallBegins, Numbered
  <1>2. CASE SendLock(t)
    <2>1. th' \in [Threads -> Goroutine]
      BY <1>2, GoTyped DEF SendLock, PC
    <2>2. CASE procMu' = t /\ Go(t, "write") /\ cur # 0
      <3>1. \A u \in Threads : th'[u].pc = "write" <=> procMu' = u
        BY <1>2, <2>2 DEF SendLock, Go, RPCTypeOK, Goroutine
      <3> QED BY <1>2, <2>1, <2>2, <3>1 DEF SendLock, RPCTypeOK
    <2>3. CASE procMu' = procMu /\ Go(t, "unregister")
      <3>1. \A u \in Threads : th'[u].pc = "write" <=> procMu' = u
        BY <1>2, <2>3 DEF SendLock, Go, RPCTypeOK, Goroutine
      <3> QED BY <1>2, <2>1, <2>3, <3>1 DEF SendLock, RPCTypeOK
    <2> QED BY <1>2, <2>2, <2>3 DEF SendLock
  <1>3. CASE SendWrite(t)
    <2>1. th' \in [Threads -> Goroutine]
      BY <1>3, GoTyped DEF SendWrite, PC
    <2>2. cur \in ConnIDs /\ conn[cur] \in Conn /\ th[t].req \in Message
      BY <1>3 DEF SendWrite, RPCTypeOK, Goroutine, ConnIDs, Numbered, Calling
    <2>3. [conn[cur] EXCEPT !.in = @ \cup {th[t].req}] \in Conn
      BY <2>2 DEF Conn
    <2>4. conn' \in [ConnIDs -> Conn]
      BY <1>3, <2>3 DEF SendWrite, RPCTypeOK
    <2> QED BY <1>3, <2>1, <2>4 DEF SendWrite, Go, RPCTypeOK
  <1>4. CASE SendFails(t)
    <2>1. th' \in [Threads -> Goroutine]
      BY <1>4, GoTyped DEF SendFails, PC
    <2> QED BY <1>4, <2>1 DEF SendFails, Go, RPCTypeOK
  <1>5. CASE Unregister(t)
    <2>1. th' \in [Threads -> Goroutine]
      BY <1>5, ReturnTyped DEF Unregister
    <2> QED BY <1>5, <2>1, IdleTyped DEF Unregister, Return, RPCTypeOK
  <1>6. CASE CallReceives(t)
    <2>1. th' \in [Threads -> Goroutine]
      BY <1>6, ReturnTyped DEF CallReceives
    <2> QED BY <1>6, <2>1, IdleTyped DEF CallReceives, Return, RPCTypeOK
  <1>7. CASE CallGivesUp(t)
    <2>1. th' \in [Threads -> Goroutine]
      BY <1>7, ReturnTyped DEF CallGivesUp
    <2> QED BY <1>7, <2>1, IdleTyped DEF CallGivesUp, Return, RPCTypeOK
  <1> QED BY <1>1, <1>2, <1>3, <1>4, <1>5, <1>6, <1>7 DEF InCall

LEMMA ReaderTyped ==
    ASSUME RPCTypeOK, Known, NEW k \in ConnIDs, Reader(k)
    PROVE  RPCTypeOK'
  <1> USE Sets
  <1>0. conn[k] \in Conn
    BY DEF RPCTypeOK
  <1>1. CASE ReaderScans(k)
    <2>1. PICK m \in conn[k].out :
             conn' = [conn EXCEPT ![k].out = @ \ {m},
                        ![k].got = IF conn[k].cancelled THEN Empty ELSE m,
                        ![k].reader = IF conn[k].cancelled THEN "drain" ELSE "route"]
      BY <1>1 DEF ReaderScans
    <2>2. m \in Message
      BY <1>0 DEF Conn
    <2> DEFINE c == [conn[k] EXCEPT !.out = @ \ {m},
                        !.got = IF conn[k].cancelled THEN Empty ELSE m,
                        !.reader = IF conn[k].cancelled THEN "drain" ELSE "route"]
    <2>3. c \in Conn
      BY <1>0, <2>2 DEF Conn
    <2>4. conn' = [conn EXCEPT ![k] = c]
      BY <2>1 DEF RPCTypeOK
    <2> HIDE DEF c
    <2>5. conn' \in [ConnIDs -> Conn]
      BY <2>3, <2>4 DEF RPCTypeOK
    <2> QED BY <1>1, <2>5 DEF ReaderScans, RPCTypeOK
  <1>2. CASE ReaderRoutes(k)
    <2>1. conn' \in [ConnIDs -> Conn]
      BY <1>0, <1>2 DEF ReaderRoutes, RPCTypeOK, Conn
    <2>2. conn[k].got \in Message /\ conn[k].got.id \in IDs
      BY <1>0, <1>2 DEF ReaderRoutes, Known, Conn, Message
    <2>3. responses' \subseteq IDs /\ chan' \in [IDs -> Message \cup {Empty, Lost}]
      BY <1>2, <2>2 DEF ReaderRoutes, RPCTypeOK
    <2> QED BY <1>2, <2>1, <2>3 DEF ReaderRoutes, RPCTypeOK
  <1>3. CASE ReaderEnds(k)
    <2>1. conn' \in [ConnIDs -> Conn]
      BY <1>0, <1>3 DEF ReaderEnds, RPCTypeOK, Conn
    <2> QED BY <1>3, <2>1 DEF ReaderEnds, RPCTypeOK
  <1>4. CASE Drain(k)
    <2>1. conn' \in [ConnIDs -> Conn]
      BY <1>0, <1>4 DEF Drain, RPCTypeOK, Conn
    <2>2. chan' \in [IDs -> Message \cup {Empty, Lost}]
      BY <1>4 DEF Drain, RPCTypeOK
    <2> QED BY <1>4, <2>1, <2>2 DEF Drain, RPCTypeOK
  <1> QED BY <1>1, <1>2, <1>3, <1>4 DEF Reader

LEMMA ServerTyped ==
    ASSUME RPCTypeOK, NEW k \in ConnIDs,
           ServerReads(k) \/ ServerAnswers(k) \/ ServerExits(k)
    PROVE  RPCTypeOK'
  <1>0. conn[k] \in Conn
    BY DEF RPCTypeOK
  <1>1. conn' \in [ConnIDs -> Conn]
    <2>1. CASE ServerReads(k)
      <3>1. PICK m \in conn[k].in :
               conn' = [conn EXCEPT ![k].in = @ \ {m}, ![k].work = @ \cup {m}]
        BY <2>1 DEF ServerReads
      <3>2. m \in Message
        BY <1>0 DEF Conn
      <3> QED BY <1>0, <3>1, <3>2 DEF RPCTypeOK, Conn
    <2>2. CASE ServerAnswers(k)
      <3>1. PICK m \in conn[k].work : conn' = [conn EXCEPT ![k].out = @ \cup {m}]
        BY <2>2 DEF ServerAnswers
      <3>2. m \in Message
        BY <1>0 DEF Conn
      <3> QED BY <1>0, <3>1, <3>2 DEF RPCTypeOK, Conn
    <2>3. CASE ServerExits(k)
      BY <1>0, <2>3 DEF ServerExits, RPCTypeOK, Conn
    <2> QED BY <2>1, <2>2, <2>3
  <1>2. UNCHANGED <<procMu, started, cur, conns, requestID, calls, responses, chan, th>>
    BY DEF ServerReads, ServerAnswers, ServerExits
  <1> QED BY <1>1, <1>2 DEF RPCTypeOK

LEMMA MonitorTyped ==
    ASSUME RPCTypeOK, Handshakes, Numbered, MonPings \/ Reconnect
    PROVE  RPCTypeOK'
  <1> USE Sets
  <1>1. CASE MonPings
    <2>1. CASE Register(Monitor, "ping")
      <3>1. calls < MaxCalls
        BY <1>1 DEF MonPings, RPCTypeOK
      <3> QED BY <1>1, <2>1, <3>1, RegisterTyped DEF MonPings, Numbered
    <2>2. CASE Go(Monitor, "close") /\ UNCHANGED <<requestID, calls, responses, chan>>
      <3>1. th' \in [Threads -> Goroutine]
        BY <2>2, GoTyped DEF PC
      <3>2. \A u \in Threads : th'[u].pc = "write" <=> procMu' = u
        BY <1>1, <2>2 DEF MonPings, Go, RPCTypeOK, Goroutine
      <3> QED BY <1>1, <2>2, <3>1, <3>2 DEF MonPings, RPCTypeOK
    <2> QED BY <1>1, <2>1, <2>2 DEF MonPings
  <1>2. CASE MonCloses
    <2>1. th' \in [Threads -> Goroutine]
      BY <1>2, GoTyped DEF MonCloses, PC
    <2>2. \A u \in Threads : th'[u].pc = "write" <=> procMu' = u
      BY <1>2 DEF MonCloses, Go, RPCTypeOK, Goroutine
    <2>3. ASSUME NEW k \in ConnIDs
          PROVE  [conn[k] EXCEPT !.cancelled = @ \/ k = conns, !.open = @ /\ k # cur] \in Conn
      <3>1. conn[k] \in Conn
        BY DEF RPCTypeOK
      <3> QED BY <3>1 DEF Conn
    <2>4. conn' \in [ConnIDs -> Conn] /\ started' \in BOOLEAN
      BY <1>2, <2>3 DEF MonCloses
    <2> QED BY <1>2, <2>1, <2>2, <2>4 DEF MonCloses, RPCTypeOK
  <1>3. CASE MonResets
    <2>1. th' \in [Threads -> Goroutine]
      BY <1>3, GoTyped DEF MonResets, PC
    <2>2. \A u \in Threads : th'[u].pc = "write" <=> procMu' = u
      BY <1>3 DEF MonResets, Go, RPCTypeOK, Goroutine
    <2> QED BY <1>3, <2>1, <2>2 DEF MonResets, RPCTypeOK
  <1>4. CASE MonConnects
    <2>1. th' \in [Threads -> Goroutine]
      BY <1>4, GoTyped DEF MonConnects, PC
    <2>2. \A u \in Threads : th'[u].pc = "write" <=> procMu' = u
      BY <1>4 DEF MonConnects, Go, RPCTypeOK, Goroutine
    <2>3. Inherited \in SUBSET Message
      BY DEF Inherited, RPCTypeOK, Conn, ConnIDs
    <2>4. [NoConn EXCEPT !.open = TRUE, !.reader = "scan", !.work = Inherited] \in Conn
      BY <2>3 DEF NoConn, Conn
    <2>5. conn' \in [ConnIDs -> Conn]
      BY <1>4, <2>4 DEF MonConnects, RPCTypeOK
    <2>6. conns' \in 0 .. MaxConns /\ cur' \in 0 .. conns' /\ started' \in BOOLEAN
      BY <1>4 DEF MonConnects, RPCTypeOK
    <2> QED BY <1>4, <2>1, <2>2, <2>5, <2>6 DEF MonConnects, RPCTypeOK
  <1>5. CASE MonConnectsAlready
    <2>1. th' \in [Threads -> Goroutine]
      BY <1>5, GoTyped DEF MonConnectsAlready, PC
    <2>2. \A u \in Threads : th'[u].pc = "write" <=> procMu' = u
      BY <1>5 DEF MonConnectsAlready, Go, RPCTypeOK, Goroutine
    <2> QED BY <1>5, <2>1, <2>2 DEF MonConnectsAlready, RPCTypeOK
  <1>6. CASE MonConnectFails
    BY <1>6, IdleTyped DEF MonConnectFails, RPCTypeOK
  <1>7. CASE MonHandshakes
    <2>1. calls < MaxCalls
      BY <1>7 DEF MonHandshakes, Handshakes, Calling
    <2> QED BY <1>7, <2>1, RegisterTyped DEF MonHandshakes, Numbered
  <1> QED BY <1>1, <1>2, <1>3, <1>4, <1>5, <1>6, <1>7 DEF Reconnect

LEMMA TypeKept ==
    ASSUME IndInv, [Next]_vars
    PROVE  RPCTypeOK'
  <1>1. CASE UNCHANGED vars
    BY <1>1 DEF vars, IndInv, RPCTypeOK
  <1> QED BY <1>1, CallTyped, MonitorTyped, ReaderTyped, ServerTyped DEF Next, IndInv

LEMMA HandshakesKept ==
    ASSUME IndInv, [Next]_vars
    PROVE  Handshakes'
  <1> USE Sets, IdleTyped DEF IndInv, Handshakes, Calling
  <1>1. ASSUME NEW t \in Threads, CallBegins(t) \/ InCall(t) PROVE Handshakes'
    <2>1. CASE CallBegins(t)
      <3>1. t # Monitor /\ th'[Monitor] = th[Monitor] /\ calls' = calls + 1 /\ calls \in Nat
        BY <2>1, RPCAssumption DEF CallBegins, Register, RPCTypeOK
      <3>2. th[Monitor].pc # "idle" => calls + 3 <= MaxCalls
        BY <2>1, <3>1 DEF CallBegins, Reserved
      <3> QED BY <3>1, <3>2
    <2>2. CASE SendLock(t)
      BY <2>2 DEF SendLock, Go, RPCTypeOK, Goroutine
    <2>3. CASE SendWrite(t)
      BY <2>3 DEF SendWrite, Go, RPCTypeOK, Goroutine
    <2>4. CASE SendFails(t)
      BY <2>4 DEF SendFails, Go, RPCTypeOK, Goroutine
    <2>5. CASE Unregister(t)
      BY <2>5 DEF Unregister, Return, RPCTypeOK, Goroutine
    <2>6. CASE CallReceives(t)
      BY <2>6 DEF CallReceives, Return, RPCTypeOK, Goroutine
    <2>7. CASE CallGivesUp(t)
      BY <2>7 DEF CallGivesUp, Return, RPCTypeOK, Goroutine
    <2> QED BY <1>1, <2>1, <2>2, <2>3, <2>4, <2>5, <2>6, <2>7 DEF InCall
  <1>2. CASE MonPings
    <2>1. CASE Register(Monitor, "ping")
      BY <1>2, <2>1 DEF MonPings, Register, RPCTypeOK, Goroutine
    <2>2. CASE Go(Monitor, "close") /\ UNCHANGED calls
      BY <1>2, <2>2 DEF MonPings, Go, RPCTypeOK, Goroutine
    <2> QED BY <1>2, <2>1, <2>2 DEF MonPings
  <1>3. CASE Reconnect
    <2>1. CASE MonCloses
      BY <2>1 DEF MonCloses, Go, RPCTypeOK, Goroutine
    <2>2. CASE MonResets
      BY <2>2 DEF MonResets, Go, RPCTypeOK, Goroutine
    <2>3. CASE MonConnects
      BY <2>3 DEF MonConnects, Go, RPCTypeOK, Goroutine
    <2>4. CASE MonConnectsAlready
      BY <2>4 DEF MonConnectsAlready, Go, RPCTypeOK, Goroutine
    <2>5. CASE MonConnectFails
      BY <2>5 DEF MonConnectFails, RPCTypeOK, Goroutine
    <2>6. CASE MonHandshakes
      BY <2>6 DEF MonHandshakes, Register, RPCTypeOK, Goroutine
    <2> QED BY <1>3, <2>1, <2>2, <2>3, <2>4, <2>5, <2>6 DEF Reconnect
  <1>4. ASSUME UNCHANGED <<th, calls>> PROVE Handshakes'
    BY <1>4
  <1>5. ASSUME NEW k \in ConnIDs,
               Reader(k) \/ ServerReads(k) \/ ServerAnswers(k) \/ ServerExits(k)
        PROVE  UNCHANGED <<th, calls>>
    BY <1>5 DEF Reader, ReaderScans, ReaderRoutes, ReaderEnds, Drain, ServerReads,
       ServerAnswers, ServerExits
  <1> QED BY <1>1, <1>2, <1>3, <1>4, <1>5 DEF Next, vars

-----------------------------------------------------------------------------
(* The messages.                                                           *)

LEMMA KnownKept ==
    ASSUME IndInv, [Next]_vars
    PROVE  Known'
  <1> USE DEF IndInv
  <1>1. ASSUME NEW t \in Threads, SendWrite(t) PROVE Known'
    <2>1. cur \in ConnIDs /\ th[t].req.id = th[t].req.no
      <3>1. procMu = t /\ cur # 0
        BY <1>1, Sets DEF SendWrite, RPCTypeOK
      <3> QED BY <1>1, <3>1, Sets DEF SendWrite, RPCTypeOK, ConnIDs, Numbered, Calling
    <2>2. \A k \in ConnIDs : /\ conn'[k].in \subseteq conn[k].in \cup {th[t].req}
                             /\ conn'[k].work = conn[k].work /\ conn'[k].out = conn[k].out
                             /\ conn'[k].got = conn[k].got /\ conn'[k].reader = conn[k].reader
      BY <1>1, <2>1 DEF SendWrite, RPCTypeOK, Conn
    <2> QED BY <2>1, <2>2 DEF Known
  <1>2. CASE MonCloses
    <2>1. ASSUME NEW k \in ConnIDs
          PROVE  /\ conn'[k].in = conn[k].in
                 /\ conn'[k].work = conn[k].work /\ conn'[k].out = conn[k].out
                 /\ conn'[k].got = conn[k].got /\ conn'[k].reader = conn[k].reader
      <3> DEFINE c == conn[k].cancelled \/ k = conns
                 o == conn[k].open /\ k # cur
      <3>1. conn'[k] = [conn[k] EXCEPT !.cancelled = c, !.open = o]
        BY <1>2 DEF MonCloses
      <3>2. conn[k] \in Conn
        BY DEF RPCTypeOK
      <3> HIDE DEF c, o
      <3> QED BY <3>1, <3>2 DEF Conn
    <2> QED BY <2>1 DEF Known
  <1>3. CASE MonConnects
    <2>1. \A m \in Inherited : m.id = m.no
      BY DEF Inherited, Known, RPCTypeOK, ConnIDs
    <2>2. conns + 1 \in ConnIDs
      BY <1>3, Sets DEF MonConnects, RPCTypeOK, ConnIDs
    <2>3. \A k \in ConnIDs \ {conns + 1} : conn'[k] = conn[k]
      BY <1>3 DEF MonConnects, RPCTypeOK
    <2>4. /\ conn'[conns + 1].in = {} /\ conn'[conns + 1].out = {}
          /\ conn'[conns + 1].work = Inherited /\ conn'[conns + 1].got = Empty
          /\ conn'[conns + 1].reader = "scan"
      BY <1>3, <2>2 DEF MonConnects, RPCTypeOK, NoConn
    <2> QED BY <2>1, <2>3, <2>4 DEF Known, Empty
  <1>4. ASSUME NEW k \in ConnIDs,
               Reader(k) \/ ServerReads(k) \/ ServerAnswers(k) \/ ServerExits(k)
        PROVE  Known'
    <2>0. conn[k] \in Conn
      BY DEF RPCTypeOK
    <2>1. CASE ReaderScans(k)
      <3>1. PICK m \in conn[k].out :
               conn' = [conn EXCEPT ![k].out = @ \ {m},
                          ![k].got = IF conn[k].cancelled THEN Empty ELSE m,
                          ![k].reader = IF conn[k].cancelled THEN "drain" ELSE "route"]
        BY <2>1 DEF ReaderScans
      <3>2. m \in Message /\ m.id = m.no /\ m # Empty
        BY <2>0, Sets DEF Conn, Known
      <3>3. \A j \in ConnIDs \ {k} : conn'[j] = conn[j]
        BY <3>1 DEF RPCTypeOK
      <3>4. /\ conn'[k].in = conn[k].in /\ conn'[k].work = conn[k].work
            /\ conn'[k].out \subseteq conn[k].out
            /\ \/ conn'[k].got = Empty /\ conn'[k].reader = "drain"
               \/ conn'[k].got = m /\ conn'[k].reader = "route"
        BY <2>0, <3>1 DEF RPCTypeOK, Conn
      <3> QED BY <3>2, <3>3, <3>4 DEF Known, Empty
    <2>2. CASE ReaderRoutes(k) \/ ReaderEnds(k) \/ Drain(k) \/ ServerExits(k)
      <3>1. \A j \in ConnIDs \ {k} : conn'[j] = conn[j]
        BY <2>2 DEF ReaderRoutes, ReaderEnds, Drain, ServerExits, RPCTypeOK
      <3>2. /\ conn'[k].in = conn[k].in /\ conn'[k].work = conn[k].work
            /\ conn'[k].out = conn[k].out /\ conn'[k].got \in {Empty, conn[k].got}
            /\ \/ conn'[k].reader \in {"scan", "drain", "off"}
               \/ conn'[k].reader = conn[k].reader /\ conn'[k].got = conn[k].got
        BY <2>0, <2>2 DEF ReaderRoutes, ReaderEnds, Drain, ServerExits, RPCTypeOK, Conn
      <3> QED BY <3>1, <3>2 DEF Known, Empty
    <2>3. CASE ServerReads(k) \/ ServerAnswers(k)
      <3>1. \A j \in ConnIDs \ {k} : conn'[j] = conn[j]
        BY <2>3 DEF ServerReads, ServerAnswers, RPCTypeOK
      <3>2. /\ conn'[k].in \cup conn'[k].work \cup conn'[k].out
                  \subseteq conn[k].in \cup conn[k].work \cup conn[k].out
            /\ conn'[k].got = conn[k].got /\ conn'[k].reader = conn[k].reader
        <4>1. CASE ServerReads(k)
          BY <2>0, <4>1 DEF ServerReads, RPCTypeOK, Conn
        <4>2. CASE ServerAnswers(k)
          BY <2>0, <4>2 DEF ServerAnswers, RPCTypeOK, Conn
        <4> QED BY <2>3, <4>1, <4>2
      <3> QED BY <3>1, <3>2 DEF Known
    <2> QED BY <1>4, <2>1, <2>2, <2>3 DEF Reader
  <1>5. ASSUME UNCHANGED conn PROVE Known'
    BY <1>5 DEF Known
  <1>6. ASSUME NEW t \in Threads, CallBegins(t) \/ InCall(t) PROVE Known'
    BY <1>1, <1>5, <1>6 DEF CallBegins, InCall, SendLock, SendFails, Unregister,
       CallReceives, CallGivesUp
  <1>7. CASE MonPings \/ Reconnect
    BY <1>2, <1>3, <1>5, <1>7 DEF MonPings, Reconnect, MonResets, MonConnectsAlready,
       MonConnectFails, MonHandshakes
  <1> QED BY <1>4, <1>5, <1>6, <1>7 DEF Next, vars

-----------------------------------------------------------------------------
(* The table of calls.  Each action does one of a few things to it.        *)

Calls ==
    Numbered /\ Delivered /\ Apart /\ ReaderNeverBlocks /\ NoStaleEntry /\ NoneForgotten

\* A goroutine moves on within its call, or outside any.
Moves(t) ==
    /\ UNCHANGED Table /\ \A u \in Threads \ {t} : th'[u] = th[u]
    /\ (Calling(t)' <=> Calling(t)) /\ (Calling(t) => th'[t].req = th[t].req)

\* A goroutine's call is over.
Returns(t) ==
    /\ Calling(t) /\ ~Calling(t)' /\ \A u \in Threads \ {t} : th'[u] = th[u]
    /\ responses' = responses \ {th[t].req.id}
    /\ UNCHANGED <<requestID, calls, chan>>

\* A reader hands over the message it has.
Hands(m) ==
    /\ m \in Message /\ m.id = m.no /\ m.id \in responses
    /\ chan' = [chan EXCEPT ![m.id] = m] /\ responses' = responses \ {m.id}
    /\ UNCHANGED <<requestID, calls, th>>

\* A reader drains the table.
Drains ==
    /\ chan' = [i \in IDs |-> IF i \in responses /\ chan[i] = Empty THEN Lost ELSE chan[i]]
    /\ responses' = {}
    /\ UNCHANGED <<requestID, calls, th>>

\* A goroutine with no call under way makes one.
Makes(t) == ~Calling(t) /\ \E ph \in {"call", "ping", "handshake"} : Register(t, ph)

LEMMA StepKinds ==
    ASSUME IndInv, [Next]_vars
    PROVE  \/ UNCHANGED <<Table, th>> \/ Drains \/ \E m \in Message : Hands(m)
           \/ \E t \in Threads : Makes(t) \/ Moves(t) \/ Returns(t)
  <1> USE Sets, IdleTyped DEF IndInv, Calling
  <1>1. ASSUME NEW t \in Threads, CallBegins(t) \/ InCall(t)
        PROVE  Makes(t) \/ Moves(t) \/ Returns(t)
    <2>1. CASE CallBegins(t)
      BY <2>1 DEF CallBegins, Makes
    <2>2. CASE SendLock(t)
      BY <2>2 DEF SendLock, Go, Moves, RPCTypeOK, Goroutine, Table
    <2>3. CASE SendWrite(t)
      BY <2>3 DEF SendWrite, Go, Moves, RPCTypeOK, Goroutine, Table
    <2>4. CASE SendFails(t)
      BY <2>4 DEF SendFails, Go, Moves, RPCTypeOK, Goroutine, Table
    <2>5. CASE Unregister(t)
      BY <2>5 DEF Unregister, Return, Returns, RPCTypeOK
    <2>6. CASE CallReceives(t)
      <3>1. th[t].req.id \notin responses
        BY <2>6 DEF CallReceives, ReaderNeverBlocks
      <3> QED BY <2>6, <3>1 DEF CallReceives, Return, Returns, RPCTypeOK
    <2>7. CASE CallGivesUp(t)
      BY <2>7 DEF CallGivesUp, Return, Returns, RPCTypeOK
    <2> QED BY <1>1, <2>1, <2>2, <2>3, <2>4, <2>5, <2>6, <2>7 DEF InCall
  <1>2. ASSUME MonPings \/ Reconnect
        PROVE  Makes(Monitor) \/ Moves(Monitor)
    <2>1. CASE MonPings
      <3>1. CASE Register(Monitor, "ping")
        BY <2>1, <3>1 DEF MonPings, Makes
      <3>2. CASE Go(Monitor, "close") /\ UNCHANGED <<requestID, calls, responses, chan>>
        BY <2>1, <3>2 DEF MonPings, Go, Moves, RPCTypeOK, Goroutine, Table
      <3> QED BY <2>1, <3>1, <3>2 DEF MonPings
    <2>2. CASE MonCloses
      BY <2>2 DEF MonCloses, Go, Moves, RPCTypeOK, Goroutine, Table
    <2>3. CASE MonResets
      BY <2>3 DEF MonResets, Go, Moves, RPCTypeOK, Goroutine, Table
    <2>4. CASE MonConnects
      BY <2>4 DEF MonConnects, Go, Moves, RPCTypeOK, Goroutine, Table
    <2>5. CASE MonConnectsAlready
      BY <2>5 DEF MonConnectsAlready, Go, Moves, RPCTypeOK, Goroutine, Table
    <2>6. CASE MonConnectFails
      BY <2>6 DEF MonConnectFails, Moves, RPCTypeOK, Goroutine, Table
    <2>7. CASE MonHandshakes
      BY <2>7 DEF MonHandshakes, Makes
    <2> QED BY <1>2, <2>1, <2>2, <2>3, <2>4, <2>5, <2>6, <2>7 DEF Reconnect
  <1>3. ASSUME NEW k \in ConnIDs,
               Reader(k) \/ ServerReads(k) \/ ServerAnswers(k) \/ ServerExits(k)
        PROVE  UNCHANGED <<Table, th>> \/ Drains \/ \E m \in Message : Hands(m)
    <2>1. CASE ReaderRoutes(k)
      <3>1. conn[k].got \in Message /\ conn[k].got.id = conn[k].got.no
        BY <2>1 DEF ReaderRoutes, RPCTypeOK, Conn, Known
      <3> QED BY <2>1, <3>1 DEF ReaderRoutes, Hands, Table
    <2>2. CASE Drain(k)
      BY <2>2 DEF Drain, Drains
    <2>3. CASE ReaderScans(k) \/ ReaderEnds(k)
      BY <2>3 DEF ReaderScans, ReaderEnds, Table
    <2>4. CASE ServerReads(k) \/ ServerAnswers(k) \/ ServerExits(k)
      BY <2>4 DEF ServerReads, ServerAnswers, ServerExits, Table
    <2> QED BY <1>3, <2>1, <2>2, <2>3, <2>4 DEF Reader
  <1>4. UNCHANGED vars => UNCHANGED <<Table, th>>
    BY DEF vars, Table
  <1> QED BY <1>1, <1>2, <1>3, <1>4 DEF Next

LEMMA CallsKept ==
    ASSUME IndInv, [Next]_vars
    PROVE  Calls'
  <1> USE Sets DEF IndInv, Calls
  <1>1. CASE UNCHANGED <<Table, th>>
    BY <1>1 DEF Table, Numbered, Delivered, Apart, ReaderNeverBlocks, NoStaleEntry,
       NoneForgotten, Calling
  <1>2. CASE Drains
    <2>1. Numbered' /\ Apart'
      BY <1>2 DEF Drains, Numbered, Apart, Calling
    <2>2. Delivered' /\ ReaderNeverBlocks' /\ NoStaleEntry'
      BY <1>2 DEF Drains, Delivered, ReaderNeverBlocks, NoStaleEntry
    <2>3. NoneForgotten'
      BY <1>2 DEF Drains, NoneForgotten, Calling, Numbered, Message
    <2> QED BY <2>1, <2>2, <2>3
  <1>3. ASSUME NEW m \in Message, Hands(m) PROVE Calls'
    <2>0. m.id \in IDs /\ m = [id |-> m.id, no |-> m.id] /\ m # Empty
      BY <1>3 DEF Hands, Message
    <2>1. Numbered' /\ Apart'
      BY <1>3 DEF Hands, Numbered, Apart, Calling
    <2>2. Delivered'
      BY <1>3, <2>0 DEF Hands, Delivered, RPCTypeOK
    <2>3. ReaderNeverBlocks' /\ NoStaleEntry'
      BY <1>3 DEF Hands, ReaderNeverBlocks, NoStaleEntry, Calling, RPCTypeOK
    <2>4. NoneForgotten'
      BY <1>3, <2>0 DEF Hands, NoneForgotten, Calling, RPCTypeOK
    <2> QED BY <2>1, <2>2, <2>3, <2>4
  <1>4. ASSUME NEW t \in Threads, Moves(t) PROVE Calls'
    <2>1. \A u \in Threads : (Calling(u)' <=> Calling(u)) /\ (Calling(u) => th'[u].req = th[u].req)
      <3> TAKE u \in Threads
      <3>1. CASE u = t
        BY <1>4, <3>1 DEF Moves
      <3>2. CASE u # t
        BY <1>4, <3>2 DEF Moves, Calling
      <3> QED BY <3>1, <3>2
    <2>2. Numbered' /\ Delivered' /\ Apart'
      BY <1>4, <2>1 DEF Moves, Table, Numbered, Delivered, Apart
    <2>3. ReaderNeverBlocks' /\ NoStaleEntry' /\ NoneForgotten'
      BY <1>4, <2>1 DEF Moves, Table, ReaderNeverBlocks, NoStaleEntry, NoneForgotten
    <2> QED BY <2>2, <2>3
  <1>5. ASSUME NEW t \in Threads, Returns(t) PROVE Calls'
    <2>1. /\ \A u \in Threads \ {t} : (Calling(u)' <=> Calling(u)) /\ th'[u] = th[u]
          /\ Calling(t) /\ ~Calling(t)'
      BY <1>5 DEF Returns, Calling
    <2>2. Numbered' /\ Delivered' /\ Apart'
      BY <1>5, <2>1 DEF Returns, Numbered, Delivered, Apart
    <2>3. ReaderNeverBlocks' /\ NoStaleEntry'
      BY <1>5, <2>1 DEF Returns, ReaderNeverBlocks, NoStaleEntry
    <2>4. NoneForgotten'
      BY <1>5, <2>1 DEF Returns, NoneForgotten, Apart
    <2> QED BY <2>2, <2>3, <2>4
  <1>6. ASSUME NEW t \in Threads, Makes(t) PROVE Calls'
    <2>0. PICK ph \in {"call", "ping", "handshake"} : Register(t, ph)
      BY <1>6 DEF Makes
    <2> DEFINE i == calls + 1
               m == [id |-> i, no |-> i]
    <2>1. /\ i \in Nat /\ requestID' = i /\ calls' = i /\ i \notin responses
          /\ responses' = responses \cup {i} /\ chan' = [chan EXCEPT ![i] = Empty]
          /\ th' = [th EXCEPT ![t] = [pc |-> "send", req |-> m, phase |-> ph]]
      BY <2>0 DEF Register, Numbered, RPCTypeOK
    <2>2. i \in IDs /\ m \in Message
      BY <2>1, TypeKept DEF RPCTypeOK, IDs, Message
    <2>3. /\ Calling(t)' /\ th'[t].req = m
          /\ \A u \in Threads \ {t} : (Calling(u)' <=> Calling(u)) /\ th'[u] = th[u]
      BY <2>1 DEF Calling, RPCTypeOK
    <2>4. \A u \in Threads : Calling(u) =>
             /\ th[u].req \in Message /\ th[u].req.id = th[u].req.no
             /\ th[u].req.no <= i /\ th[u].req.id # i
      BY <2>1 DEF Numbered, Message, IDs, RPCTypeOK
    <2>9. 1 .. calls \subseteq 1 .. i /\ i \in 1 .. i
      BY <2>1 DEF RPCTypeOK
    <2>10. m.id = i /\ m.no = i
      OBVIOUS
    <2> HIDE DEF i, m
    <2>5. Numbered'
      <3>1. responses' \subseteq 1 .. calls'
        BY <2>1, <2>9 DEF Numbered
      <3>2. ASSUME NEW u \in Threads, Calling(u)'
            PROVE  /\ th'[u].req \in Message /\ th'[u].req.id = th'[u].req.no
                   /\ th'[u].req.no <= calls'
        BY <2>1, <2>2, <2>3, <2>4, <2>10, <3>2
      <3> QED BY <2>1, <3>1, <3>2 DEF Numbered
    <2>6. Delivered' /\ ReaderNeverBlocks'
      BY <2>1, <2>2 DEF Delivered, ReaderNeverBlocks, RPCTypeOK
    <2>7. Apart' /\ NoStaleEntry'
      <3>1. ASSUME NEW u \in Threads, NEW v \in Threads, Calling(u)', Calling(v)',
                   th'[u].req.id = th'[v].req.id
            PROVE  u = v
        BY <2>3, <2>4, <2>10, <3>1 DEF Apart
      <3>2. ASSUME NEW j \in responses'
            PROVE  \E u \in Threads : Calling(u)' /\ th'[u].req.id = j
        <4>1. CASE j = i
          BY <2>3, <2>10, <4>1
        <4>2. CASE j \in responses
          <5>1. PICK u \in Threads : Calling(u) /\ th[u].req.id = j
            BY <4>2 DEF NoStaleEntry
          <5>2. u # t
            BY <1>6, <5>1 DEF Makes
          <5> QED BY <2>3, <5>1, <5>2
        <4> QED BY <2>1, <4>1, <4>2
      <3> QED BY <3>1, <3>2 DEF Apart, NoStaleEntry
    <2>8. NoneForgotten'
      BY <2>1, <2>2, <2>3, <2>4, <2>10 DEF NoneForgotten, RPCTypeOK
    <2> QED BY <2>5, <2>6, <2>7, <2>8
  <1> QED BY <1>1, <1>2, <1>3, <1>4, <1>5, <1>6, StepKinds

LEMMA IndInvKept == IndInv /\ [Next]_vars => IndInv'
  BY TypeKept, HandshakesKept, KnownKept, CallsKept DEF IndInv, Calls

\* The strengthened invariant holds for any number of callers, calls and
\* connections.
THEOREM RPCInductive == Spec => []IndInv
  BY InitInv, IndInvKept, PTL DEF Spec

\* Every variable of the client keeps its type; procMu is held exactly by a
\* goroutine inside a write, and only on a connection the client has.
THEOREM RPCTypeCorrect == Spec => []RPCTypeOK
  BY RPCInductive, PTL DEF IndInv

\* No caller ever gets the answer to another request.
THEOREM AnswersAreMatched == Spec => []AnswersMatch
  <1>1. IndInv => AnswersMatch
    <2> SUFFICES ASSUME IndInv, NEW t \in Threads, Calling(t)
                 PROVE  chan[th[t].req.id] \in {Empty, Lost, th[t].req}
      BY DEF AnswersMatch
    <2>1. th[t].req \in Message /\ th[t].req.id = th[t].req.no
      BY DEF IndInv, Numbered
    <2>2. th[t].req.id \in IDs /\ th[t].req = [id |-> th[t].req.id, no |-> th[t].req.id]
      BY <2>1 DEF Message
    <2> QED BY <2>2 DEF IndInv, Delivered
  <1> QED BY <1>1, RPCInductive, PTL

\* The reader's send on a response channel finds it empty (its buffer holds one),
\* so that a late or second answer never stops the answers to everybody else.
THEOREM ReaderIsNeverBlocked == Spec => []ReaderNeverBlocks
  BY RPCInductive, PTL DEF IndInv

\* A channel in the map belongs to a call that still waits: every way out of a
\* call, its timeout included, has deleted its own entry.
THEOREM NoEntryIsStale == Spec => []NoStaleEntry
  BY RPCInductive, PTL DEF IndInv

\* A call that waits is in the map, or has its answer or the news of the
\* disconnect in its channel: the drain and the timeout leave nobody behind.
THEOREM NobodyIsForgotten == Spec => []NoneForgotten
  BY RPCInductive, PTL DEF IndInv

-----------------------------------------------------------------------------
(* StdioRPC implements CallTable.                                          *)

\* The refinement mapping.
Waiting == [t \in Threads |-> IF Calling(t) THEN th[t].req.no ELSE 0]
Box == [t \in Threads |-> IF ~Calling(t) THEN "empty" ELSE Told(t)]

\* A goroutine whose call and whose channel stay as they are.
LEMMA SameView ==
    ASSUME NEW u \in Threads, Calling(u)' <=> Calling(u),
           Calling(u) => th'[u].req = th[u].req /\ chan'[th[u].req.id] = chan[th[u].req.id]
    PROVE  Waiting'[u] = Waiting[u] /\ Box'[u] = Box[u]
  BY DEF Waiting, Box, Told

LEMMA MapsToTable ==
    ASSUME IndInv, [Next]_vars
    PROVE  [Abstract!Next]_Abstract!vars
  <1> USE DEF IndInv
  <1>0. \A t \in Threads : Calling(t) =>
           /\ th[t].req \in Message /\ th[t].req.id \in IDs /\ th[t].req.no # 0
           /\ th[t].req # Empty /\ th[t].req # Lost
    BY Sets DEF Numbered, Message, IDs
  <1>1. ASSUME calls' = calls, \A u \in Threads : Waiting'[u] = Waiting[u] /\ Box'[u] = Box[u]
        PROVE  UNCHANGED Abstract!vars
    <2>1. Waiting' = Waiting /\ Box' = Box
      BY <1>1 DEF Waiting, Box
    <2> QED BY <1>1, <2>1 DEF Abstract!vars, Waiting, Box
  <1>2. CASE UNCHANGED <<Table, th>>
    BY <1>1, <1>2, SameView DEF Table, Calling
  <1>3. ASSUME NEW t \in Threads, Moves(t) PROVE UNCHANGED Abstract!vars
    <2>1. ASSUME NEW u \in Threads
          PROVE  /\ Calling(u)' <=> Calling(u)
                 /\ Calling(u) => /\ th'[u].req = th[u].req
                                  /\ chan'[th[u].req.id] = chan[th[u].req.id]
      <3>1. CASE u = t
        BY <1>3, <3>1 DEF Moves, Table
      <3>2. CASE u # t
        BY <1>3, <3>2 DEF Moves, Table, Calling
      <3> QED BY <3>1, <3>2
    <2> QED BY <1>1, <1>3, <2>1, SameView DEF Moves, Table
  <1>4. ASSUME NEW t \in Threads, Returns(t) PROVE Abstract!Finish(t)
    <2>1. \A u \in Threads \ {t} : Waiting'[u] = Waiting[u] /\ Box'[u] = Box[u]
      BY <1>4, SameView DEF Returns, Calling
    <2>2. Waiting[t] # 0 /\ Waiting'[t] = 0 /\ Box'[t] = "empty"
      BY <1>0, <1>4 DEF Returns, Waiting, Box
    <2>3. Waiting' = [Waiting EXCEPT ![t] = 0] /\ Box' = [Box EXCEPT ![t] = "empty"]
      BY <2>1, <2>2 DEF Waiting, Box
    <2> QED BY <1>4, <2>2, <2>3 DEF Abstract!Finish, Returns, Waiting, Box
  <1>5. ASSUME NEW t \in Threads, Makes(t) PROVE Abstract!Begin(t)
    <2>0. PICK ph \in {"call", "ping", "handshake"} : Register(t, ph)
      BY <1>5 DEF Makes
    <2> DEFINE i == calls + 1
               m == [id |-> i, no |-> i]
    <2>1. /\ calls' = i /\ i \in IDs /\ chan' = [chan EXCEPT ![i] = Empty]
          /\ th' = [th EXCEPT ![t] = [pc |-> "send", req |-> m, phase |-> ph]]
      BY <2>0, Sets, TypeKept DEF Register, Numbered, RPCTypeOK, IDs
    <2>2. /\ ~Calling(t) /\ Calling(t)' /\ th'[t].req = m
          /\ \A u \in Threads \ {t} : (Calling(u)' <=> Calling(u)) /\ th'[u] = th[u]
      BY <1>5, <2>1 DEF Calling, RPCTypeOK, Makes
    <2>3. \A u \in Threads : Calling(u) => chan'[th[u].req.id] = chan[th[u].req.id]
      BY <1>0, <2>1, Sets DEF Numbered, RPCTypeOK, Message, IDs
    <2>4. m.id = i /\ m.no = i /\ chan'[i] = Empty
      BY <2>1 DEF RPCTypeOK
    <2>5. \A u \in Threads \ {t} : Waiting'[u] = Waiting[u] /\ Box'[u] = Box[u]
      BY <2>2, <2>3, SameView
    <2>6. Waiting[t] = 0 /\ Waiting'[t] = i /\ Box[t] = "empty" /\ Box'[t] = "empty"
      <3>1. th'[t].req.id = i /\ th'[t].req.no = i
        BY <2>2, <2>4
      <3>2. Told(t)' = "empty"
        BY <2>4, <3>1 DEF Told, Empty
      <3> HIDE DEF i, m
      <3> QED BY <2>2, <3>1, <3>2 DEF Waiting, Box
    <2>7. Waiting' = [Waiting EXCEPT ![t] = i] /\ Box' = Box
      BY <2>5, <2>6 DEF Waiting, Box
    <2> QED BY <2>1, <2>6, <2>7 DEF Abstract!Begin, Waiting, Box
  <1>6. ASSUME NEW m \in Message, Hands(m) PROVE \E t \in Threads : Abstract!Answer(t)
    <2>1. PICK t \in Threads : Calling(t) /\ th[t].req.id = m.id
      BY <1>6 DEF Hands, NoStaleEntry
    <2>2. th[t].req = m
      BY <1>0, <1>6, <2>1 DEF Hands, Numbered, Message
    <2>3. \A u \in Threads : (Calling(u)' <=> Calling(u)) /\ th'[u] = th[u]
      BY <1>6 DEF Hands, Calling
    <2>4. \A u \in Threads \ {t} : Calling(u) => chan'[th[u].req.id] = chan[th[u].req.id]
      BY <1>0, <1>6, <2>1 DEF Hands, Apart, RPCTypeOK
    <2>5. \A u \in Threads \ {t} : Waiting'[u] = Waiting[u] /\ Box'[u] = Box[u]
      BY <2>3, <2>4, SameView
    <2>6. chan[m.id] = Empty /\ chan'[m.id] = m
      BY <1>0, <1>6, <2>1 DEF Hands, ReaderNeverBlocks, RPCTypeOK
    <2>7. /\ Waiting[t] # 0 /\ Waiting'[t] = Waiting[t]
          /\ Box[t] = "empty" /\ Box'[t] = "answer"
      <3>1. Told(t) = "empty"
        BY <2>1, <2>6 DEF Told
      <3>2. m # Empty /\ m # Lost /\ th'[t].req = m /\ chan'[th'[t].req.id] = m
        BY <1>0, <2>1, <2>2, <2>3, <2>6
      <3>3. Told(t)' = "answer"
        BY <3>2 DEF Told, Empty, Lost
      <3> QED BY <1>0, <2>1, <2>3, <3>1, <3>3 DEF Waiting, Box
    <2>8. Waiting' = Waiting /\ Box' = [Box EXCEPT ![t] = "answer"]
      BY <2>5, <2>7 DEF Waiting, Box
    <2>9. calls' = calls
      BY <1>6 DEF Hands
    <2> QED BY <2>7, <2>8, <2>9 DEF Abstract!Answer, Waiting, Box
  <1>7. ASSUME Drains PROVE Abstract!Lose
    <2>1. \A u \in Threads : (Calling(u)' <=> Calling(u)) /\ th'[u] = th[u]
      BY <1>7 DEF Drains, Calling
    <2>2. Waiting' = Waiting /\ calls' = calls
      BY <1>7, <2>1 DEF Waiting, Drains
    <2>3. ASSUME NEW u \in Threads
          PROVE  Box'[u] = IF Waiting[u] # 0 /\ Box[u] = "empty" THEN "lost" ELSE Box[u]
      <3>1. CASE ~Calling(u)
        BY <2>1, <3>1 DEF Waiting, Box
      <3>2. CASE Calling(u) /\ chan[th[u].req.id] = Empty
        <4>1. chan'[th[u].req.id] = Lost
          BY <1>0, <1>7, <3>2 DEF Drains, NoneForgotten
        <4> QED BY <1>0, <2>1, <3>2, <4>1, Sets DEF Waiting, Box, Told
      <3>3. CASE Calling(u) /\ chan[th[u].req.id] # Empty
        <4>1. chan'[th[u].req.id] = chan[th[u].req.id]
          BY <1>0, <1>7, <3>3 DEF Drains
        <4>2. Told(u) # "empty"
          BY <3>3 DEF Told
        <4> QED BY <2>1, <3>3, <4>1, <4>2 DEF Waiting, Box, Told
      <3> QED BY <3>1, <3>2, <3>3
    <2>4. Box' = [u \in Threads |->
                     IF Waiting[u] # 0 /\ Box[u] = "empty" THEN "lost" ELSE Box[u]]
      BY <2>3 DEF Box
    <2> QED BY <2>2, <2>4 DEF Abstract!Lose, Waiting, Box
  <1> QED BY <1>2, <1>3, <1>4, <1>5, <1>6, <1>7, StepKinds DEF Abstract!Next

\* Through reconnects, late and duplicate answers, drains and timeouts, the
\* client is a table of calls that settles each call at most once.
THEOREM RefinesCallTable == Spec => ImplementsCallTable
  <1>1. Init => Abstract!Init
    BY DEF Init, Abstract!Init, Calling, Idle
  <1> QED BY <1>1, MapsToTable, RPCInductive, PTL DEF Spec, ImplementsCallTable, Abstract!Spec
=============================================================================
