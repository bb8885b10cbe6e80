--------------------------- MODULE ToolPins_proofs ---------------------------
(***************************************************************************)
(* The safety of the schema pins, for any tools, definitions, replicas,    *)
(* configurations and reviewers.                                           *)
(***************************************************************************)
EXTENDS ToolPins, TLAPS

\* The ghosts say what the store knows: what was accepted is what is pinned.
AgreeOn(p, acc) == acc = (IF p = None THEN [n \in Names |-> None] ELSE p.tools)
Agree == AgreeOn(mem, accepted) /\ AgreeOn(file, onDisk)

\* Whoever knows of the stored drift has blocked the server or is about to; after
\* a restart nobody does, but the server is not routed and the registration has
\* not come to its verification yet.
Told ==
    (Action = "block" /\ mem # None /\ mem.status = "drift" /\ ~unchecked) =>
        \/ blocked
        \/ \E t \in Verifiers : th[t].pc = "report" /\ th[t].drift
        \/ ~routed /\ th[Registrar].pc # "report"

\* What an approval is going to pin is what its diff has shown.
Bound == \A a \in Approvers : th[a].pc = "approve" => th[a].seen \in {None, th[a].list}

PinsInv == PinsTypeOK /\ Agree /\ Told /\ Bound

-----------------------------------------------------------------------------
(* Digests                                                                 *)

LEMMA Shapes ==
    /\ \A d \in Defs : /\ d = [input |-> d.input, output |-> d.output]
                       /\ Legacy(d) = [input |-> d.input, output |-> None] /\ d.output # None
    /\ \A p \in Pin : p = [input |-> p.input, output |-> p.output]
    /\ None \notin Defs
  <1>1. \A d \in Defs \cup OldDefs : /\ d = [input |-> d.input, output |-> d.output]
                                     /\ Legacy(d) = [input |-> d.input, output |-> None] /\ d.output # None
    BY PinsAssumption DEF Legacy
  <1> QED
    BY <1>1, PinsAssumption DEF Pin

\* What counts as modified under the digest of a pin is what differs from it.
LEMMA DigestsDiffer ==
    ASSUME NEW p \in Pin, NEW d \in Defs
    PROVE  (hashToolForPin(p, d) # p) <=> (p.input # d.input \/ p.output \notin {None, d.output})
  <1> USE Shapes
  <1>1. CASE p.output = None
    <2>1. hashToolForPin(p, d) = [input |-> d.input, output |-> None]
      BY <1>1 DEF hashToolForPin
    <2> QED
      BY <1>1, <2>1
  <1>2. CASE p.output # None
    <2>1. hashToolForPin(p, d) = d
      BY <1>2 DEF hashToolForPin
    <2> QED
      BY <1>2, <2>1
  <1> QED
    BY <1>1, <1>2

LEMMA ModifiedDiffers ==
    ASSUME NEW p \in Pins, NEW list \in Tools
    PROVE  (ModifiedTools(p, list) # {}) <=> Differs(p.tools, list)
  <1>1. \A n \in Names : p.tools[n] \in Pin \cup {None} /\ list[n] \in Defs \cup {None}
    BY DEF Pins, Tools
  <1>2. \A n \in Names : (p.tools[n] # None /\ list[n] # None) =>
            ((hashToolForPin(p.tools[n], list[n]) # p.tools[n])
             <=> (p.tools[n].input # list[n].input \/ p.tools[n].output \notin {None, list[n].output}))
    BY <1>1, DigestsDiffer
  <1> QED
    BY <1>2 DEF ModifiedTools, Differs

\* A verification stores what was seen first.
LEMMA StoresSeen ==
    ASSUME NEW p \in Pins, NEW list \in Tools
    PROVE  /\ verifyAndUpdate(p, list) \in Pins
           /\ verifyAndUpdate(p, list).tools = Seen(p.tools, list)
           /\ verifyAndUpdate(p, list).status = "drift" <=> ModifiedTools(p, list) # {}
  <1>1. \A n \in Names : p.tools[n] \in Pin \cup {None} /\ list[n] \in Defs \cup {None}
    BY DEF Pins, Tools
  <1>2. \A n \in Names : n \in ModifiedTools(p, list) <=>
            /\ p.tools[n] # None /\ list[n] # None
            /\ hashToolForPin(p.tools[n], list[n]) # p.tools[n]
    BY DEF ModifiedTools
  <1>3. ASSUME NEW n \in Names
        PROVE  (IF list[n] = None \/ n \in ModifiedTools(p, list) THEN p.tools[n] ELSE list[n])
             = (IF p.tools[n] = None \/ (list[n] # None /\ p.tools[n] = Legacy(list[n])) THEN list[n] ELSE p.tools[n])
    <2>1. CASE p.tools[n] = None \/ list[n] = None
      BY <2>1, <1>2
    <2>2. CASE p.tools[n] # None /\ list[n] # None
      <3>1. p.tools[n] \in Pin /\ list[n] \in Defs
        BY <1>1, <2>2
      <3>2. CASE p.tools[n].output = None
        BY <3>1, <3>2, <2>2, <1>2 DEF hashToolForPin
      <3>3. CASE p.tools[n].output # None
        <4>1. p.tools[n] # Legacy(list[n])
          BY <3>1, <3>3, Shapes
        <4> QED
          BY <3>1, <3>3, <4>1, <2>2, <1>2 DEF hashToolForPin
      <3> QED
        BY <3>2, <3>3
    <2> QED
      BY <2>1, <2>2
  <1>4. verifyAndUpdate(p, list).tools = Seen(p.tools, list)
    BY <1>3 DEF verifyAndUpdate, Seen
  <1>5. verifyAndUpdate(p, list).tools \in [Names -> Pin \cup {None}]
    BY <1>1 DEF verifyAndUpdate, Pin
  <1>6. verifyAndUpdate(p, list).status \in {"pinned", "drift"}
    BY DEF verifyAndUpdate
  <1>7. verifyAndUpdate(p, list) \in Pins
    BY <1>5, <1>6 DEF verifyAndUpdate, Pins
  <1>8. verifyAndUpdate(p, list).status = "drift" <=> ModifiedTools(p, list) # {}
    BY DEF verifyAndUpdate
  <1> QED
    BY <1>4, <1>7, <1>8

LEMMA FirstPin ==
    ASSUME NEW list \in Tools
    PROVE  /\ pinServer(list) \in Pins /\ pinServer(list).tools = list /\ pinServer(list).status = "pinned"
           /\ Seen([n \in Names |-> None], list) = list
           /\ ~Differs([n \in Names |-> None], list)
  <1>1. list \in [Names -> Defs \cup {None}] /\ list \in [Names -> Pin \cup {None}]
    BY DEF Tools, Pin
  <1>2. pinServer(list) \in Pins /\ pinServer(list).tools = list /\ pinServer(list).status = "pinned"
    BY <1>1 DEF pinServer, Pins
  <1>3. Seen([n \in Names |-> None], list) = [n \in Names |-> list[n]]
    BY DEF Seen
  <1>4. ~Differs([n \in Names |-> None], list)
    BY DEF Differs
  <1> QED
    BY <1>1, <1>2, <1>3, <1>4

-----------------------------------------------------------------------------
(* Writes of the pins                                                      *)

\* The pins become p in memory, and in the file too, or nothing changes.
Written(p, acc) ==
    \/ UNCHANGED <<mem, file, accepted, onDisk>>
    \/ mem' = p /\ accepted' = acc /\ UNCHANGED <<file, onDisk>>
    \/ mem' = p /\ accepted' = acc /\ file' = p /\ onDisk' = acc

PinsTyped ==
    /\ mem \in Pins \cup {None} /\ file \in Pins \cup {None}
    /\ accepted \in [Names -> Pin \cup {None}] /\ onDisk \in [Names -> Pin \cup {None}]

LEMMA WrittenAgree ==
    ASSUME PinsTyped, Agree, NEW p \in Pins \cup {None}, NEW acc, AgreeOn(p, acc), Written(p, acc)
    PROVE  PinsTyped' /\ Agree'
  <1>1. acc \in [Names -> Pin \cup {None}]
    <2>1. CASE p = None
      BY <2>1 DEF AgreeOn
    <2>2. CASE p # None
      BY <2>2 DEF AgreeOn, Pins
    <2> QED BY <2>1, <2>2
  <1> QED BY <1>1 DEF PinsTyped, Agree, AgreeOn, Written

LEMMA NothingPinned == AgreeOn(None, [n \in Names |-> None])
  BY DEF AgreeOn

LEMMA VerifyWrites ==
    ASSUME PinsTypeOK, Agree, NEW t \in Verifiers, VerifyOrPin(t)
    PROVE  LET list == th[t].list
               p == IF mem = None THEN pinServer(list) ELSE verifyAndUpdate(mem, list)
               drift == mem # None /\ ModifiedTools(mem, list) # {}
           IN  /\ list \in Tools /\ p \in Pins /\ drift \in BOOLEAN
               /\ AgreeOn(p, Seen(accepted, list)) /\ Written(p, Seen(accepted, list))
               /\ (drift <=> Differs(accepted, list))
               /\ ((p.status = "drift") <=> drift)
               /\ \/ unchecked' = TRUE /\ th' = [th EXCEPT ![t] = [th[t] EXCEPT !.pc = "report", !.drift = FALSE]]
                  \/ /\ unchecked' = FALSE /\ mem' = p
                     /\ th' = [th EXCEPT ![t] = [th[t] EXCEPT !.pc = "report", !.drift = drift]]
  <1> DEFINE list == th[t].list
             p == IF mem = None THEN pinServer(list) ELSE verifyAndUpdate(mem, list)
             drift == mem # None /\ ModifiedTools(mem, list) # {}
  <1>1. list \in Tools
    <2>1. th[t] \in Registering \cup Monitoring /\ th[t].pc = "verify"
      BY DEF PinsTypeOK, Verifiers, VerifyOrPin
    <2> QED BY <2>1 DEF Registering, Monitoring, Verifying, Idle
  <1>2. /\ p \in Pins /\ p.tools = Seen(accepted, list) /\ ((p.status = "drift") <=> drift)
        /\ (drift <=> Differs(accepted, list))
    <2>1. CASE mem = None
      <3>1. accepted = [n \in Names |-> None]
        BY <2>1 DEF Agree, AgreeOn
      <3>2. p = pinServer(list) /\ drift = FALSE
        BY <2>1
      <3> HIDE DEF p, drift, list
      <3> QED BY <3>1, <3>2, <1>1, FirstPin
    <2>2. CASE mem # None
      <3>1. accepted = mem.tools /\ mem \in Pins
        BY <2>2 DEF Agree, AgreeOn, PinsTypeOK
      <3>2. p = verifyAndUpdate(mem, list) /\ (drift <=> ModifiedTools(mem, list) # {})
        BY <2>2
      <3> HIDE DEF p, drift, list
      <3> QED BY <3>1, <3>2, <1>1, StoresSeen, ModifiedDiffers
    <2> QED BY <2>1, <2>2
  <1>3. AgreeOn(p, Seen(accepted, list))
    <2> HIDE DEF p, list
    <2> QED BY <1>2, PinsAssumption DEF AgreeOn
  <1>4. Written(p, Seen(accepted, list))
    BY DEF VerifyOrPin, Store, Written
  <1>5. \/ unchecked' = TRUE /\ th' = [th EXCEPT ![t] = [th[t] EXCEPT !.pc = "report", !.drift = FALSE]]
        \/ /\ unchecked' = FALSE /\ mem' = p
           /\ th' = [th EXCEPT ![t] = [th[t] EXCEPT !.pc = "report", !.drift = drift]]
    BY DEF VerifyOrPin, Store, Go
  <1>6. drift \in BOOLEAN
    OBVIOUS
  <1> HIDE DEF p, drift, list
  <1> QED BY <1>1, <1>2, <1>3, <1>4, <1>5, <1>6 DEF p, drift, list

-----------------------------------------------------------------------------
(* Types                                                                   *)

ThTyped ==
    /\ th \in [Threads -> Registering \cup Monitoring \cup Reviewing]
    /\ th[Registrar] \in Registering /\ th[Monitor] \in Monitoring
    /\ \A a \in Approvers : th[a] \in Reviewing

\* The rest of PinsTypeOK.
WorldTyped ==
    /\ offered \in [Cfgs -> Tools] /\ cfg \in Cfgs \cup {None}
    /\ (routed \/ th[Registrar].pc \in {"build", "verify", "report"}) => cfg # None
    /\ tools \in [Replicas -> Tools]
    /\ routed \in BOOLEAN /\ blocked \in BOOLEAN /\ unchecked \in BOOLEAN

LEMMA TypeParts == PinsTypeOK <=> (ThTyped /\ WorldTyped /\ PinsTyped)
  BY DEF PinsTypeOK, ThTyped, WorldTyped, PinsTyped

LEMMA Distinct ==
    /\ Registrar \in Threads /\ Monitor \in Threads /\ Approvers \subseteq Threads
    /\ Threads = {Registrar, Monitor} \cup Approvers
    /\ Registrar # Monitor /\ Registrar \notin Approvers /\ Monitor \notin Approvers
  BY PinsAssumption DEF Threads, Verifiers

LEMMA GoTyped ==
    ASSUME ThTyped, NEW t \in Threads, NEW r, Go(t, r),
           t = Registrar => r \in Registering,
           t = Monitor => r \in Monitoring,
           t \in Approvers => r \in Reviewing
    PROVE  ThTyped' /\ th'[t] = r /\ \A u \in Threads \ {t} : th'[u] = th[u]
  BY Distinct DEF ThTyped, Go

LEMMA IdleTyped == Idle \in Registering /\ Idle \in Monitoring /\ Idle \in Reviewing /\ Idle.pc = "idle"
  BY DEF Registering, Monitoring, Reviewing, Idle

LEMMA NoToolsTyped == NoTools \in [Replicas -> Tools]
  BY DEF NoTools, Tools

LEMMA RegistrarHas ==
    ASSUME ThTyped
    PROVE  /\ th[Registrar].pc = "build" => th[Registrar].fresh \in BOOLEAN
           /\ th[Registrar].pc \in {"verify", "report"} =>
                  th[Registrar].list \in Tools /\ th[Registrar].drift \in BOOLEAN
           /\ th[Monitor].pc \in {"verify", "report"} =>
                  th[Monitor].list \in Tools /\ th[Monitor].drift \in BOOLEAN
  BY DEF ThTyped, Registering, Monitoring, Verifying, Idle

LEMMA ConnectTyped ==
    ASSUME ThTyped, th[Monitor].pc = "connect"
    PROVE  /\ th[Monitor].replica \in Replicas /\ th[Monitor].cfg \in Cfgs /\ th[Monitor].current \in BOOLEAN
           /\ [th[Monitor] EXCEPT !.current = FALSE] \in Monitoring
           /\ [th[Monitor] EXCEPT !.current = FALSE].pc = "connect"
  <1> DEFINE Connecting == [pc : {"connect"}, replica : Replicas, cfg : Cfgs, current : BOOLEAN]
  <1>1. th[Monitor] \in Connecting
    BY DEF ThTyped, Monitoring, Verifying, Idle
  <1>2. \A m \in Connecting : [m EXCEPT !.current = FALSE] \in Connecting
    OBVIOUS
  <1>3. [th[Monitor] EXCEPT !.current = FALSE] \in Connecting
    <2> HIDE DEF Connecting
    <2> QED BY <1>1, <1>2
  <1>4. [th[Monitor] EXCEPT !.current = FALSE] \in Monitoring
    BY <1>3 DEF Monitoring
  <1>5. \A m \in Connecting : m.pc = "connect" /\ m.replica \in Replicas /\ m.cfg \in Cfgs /\ m.current \in BOOLEAN
    OBVIOUS
  <1> HIDE DEF Connecting
  <1> QED BY <1>1, <1>3, <1>4, <1>5

LEMMA OutdateTyped ==
    ASSUME ThTyped, NEW r \in Registering,
           th' = [th EXCEPT ![Registrar] = r,
                            ![Monitor] = IF @.pc = "connect" THEN [@ EXCEPT !.current = FALSE] ELSE @]
    PROVE  /\ ThTyped' /\ th'[Registrar] = r /\ th'[Monitor].pc = th[Monitor].pc
           /\ th[Monitor].pc # "connect" => th'[Monitor] = th[Monitor]
           /\ \A a \in Approvers : th'[a] = th[a]
  <1> DEFINE m == IF th[Monitor].pc = "connect" THEN [th[Monitor] EXCEPT !.current = FALSE] ELSE th[Monitor]
  <1>1. m \in Monitoring /\ m.pc = th[Monitor].pc /\ (th[Monitor].pc # "connect" => m = th[Monitor])
    BY ConnectTyped DEF ThTyped
  <1>2. /\ th' \in [Threads -> Registering \cup Monitoring \cup Reviewing] /\ th'[Registrar] = r /\ th'[Monitor] = m
        /\ \A a \in Approvers : th'[a] = th[a]
    <2>1. th' = [th EXCEPT ![Registrar] = r, ![Monitor] = m]
      BY Distinct DEF ThTyped
    <2> HIDE DEF m
    <2>2. th'[Registrar] = r /\ th'[Monitor] = m
      BY <2>1, Distinct DEF ThTyped
    <2>3. \A u \in Threads \ {Registrar, Monitor} : th'[u] = th[u]
      BY <2>1, Distinct DEF ThTyped
    <2>4. th' \in [Threads -> Registering \cup Monitoring \cup Reviewing]
      BY <2>1, <1>1, Distinct DEF ThTyped
    <2> QED BY <2>2, <2>3, <2>4, Distinct
  <1> HIDE DEF m
  <1> QED BY <1>1, <1>2 DEF ThTyped

-----------------------------------------------------------------------------
(* Steps                                                                   *)

\* The invariant is kept by what leaves the pins alone, ...
LEMMA PinsUntouched ==
    ASSUME PinsTyped, Agree, UNCHANGED <<mem, file, accepted, onDisk>>
    PROVE  PinsTyped' /\ Agree'
  BY DEF PinsTyped, Agree, AgreeOn

\* ... by what reports no result and stores no drift, ...
LEMMA ToldKept ==
    ASSUME Told, mem' = mem \/ mem' = None \/ mem'.status # "drift",
           unchecked' <=> unchecked, blocked => blocked', routed' => routed,
           th'[Registrar] = th[Registrar] \/ th'[Registrar].pc # "report",
           \A t \in Verifiers : th[t].pc = "report" => th'[t] = th[t]
    PROVE  Told'
  BY DEF Told

\* ... and by what leaves the reviewers alone.
LEMMA BoundKept ==
    ASSUME Bound, \A a \in Approvers : \/ th'[a] = th[a]
                                            \/ th'[a].pc # "approve"
                                            \/ th'[a].seen \in {None, th'[a].list}
    PROVE  Bound'
  BY DEF Bound

LEMMA InvParts == PinsInv <=> (ThTyped /\ WorldTyped /\ PinsTyped /\ Agree /\ Told /\ Bound)
  BY TypeParts DEF PinsInv

LEMMA InvPartsPrime == PinsInv' <=> (ThTyped' /\ WorldTyped' /\ PinsTyped' /\ Agree' /\ Told' /\ Bound')
  BY InvParts, PTL

LEMMA ReloadKeeps ==
    ASSUME PinsInv, NEW next \in Cfgs \cup {None}, ReloadUnregisters(next)
    PROVE  PinsInv'
  <1> USE InvParts
  <1>1. [pc |-> "reset"] \in Registering /\ [pc |-> "reset"].pc = "reset"
    BY DEF Registering
  <1>2. /\ ThTyped' /\ th'[Registrar].pc = "reset" /\ th'[Monitor].pc = th[Monitor].pc
        /\ th[Monitor].pc # "connect" => th'[Monitor] = th[Monitor]
        /\ \A a \in Approvers : th'[a] = th[a]
    BY <1>1, OutdateTyped DEF ReloadUnregisters
  <1>3. /\ routed' = FALSE /\ cfg' = next /\ tools' = NoTools /\ th[Registrar].pc = "idle"
        /\ UNCHANGED <<offered, blocked, accepted, onDisk, unchecked, mem, file>>
    BY DEF ReloadUnregisters, store
  <1>4. WorldTyped'
    BY <1>2, <1>3, NoToolsTyped DEF WorldTyped
  <1>5. Told'
    BY <1>2, <1>3, ToldKept DEF Verifiers
  <1> QED BY <1>2, <1>3, <1>4, <1>5, PinsUntouched, BoundKept, InvPartsPrime

LEMMA StartKeeps ==
    ASSUME PinsInv, NEW next \in Cfgs \cup {None}, StartServer(next)
    PROVE  PinsInv'
  <1> USE InvParts
  <1>1. [pc |-> "build", fresh |-> FALSE] \in Registering /\ [pc |-> "build", fresh |-> FALSE].pc = "build"
    BY DEF Registering
  <1>2. /\ ThTyped' /\ th'[Registrar].pc = "build" /\ \A u \in Threads \ {Registrar} : th'[u] = th[u]
    BY <1>1, GoTyped, Distinct DEF StartServer
  <1>3. /\ next # None /\ cfg' = next /\ th[Registrar].pc = "idle"
        /\ UNCHANGED <<offered, tools, routed, blocked, accepted, onDisk, unchecked, mem, file>>
    BY DEF StartServer, store
  <1>4. WorldTyped'
    BY <1>2, <1>3 DEF WorldTyped
  <1>5. Told'
    BY <1>2, <1>3, ToldKept, Distinct DEF Verifiers
  <1>6. \A a \in Approvers : th'[a] = th[a]
    BY <1>2, Distinct
  <1> QED BY <1>2, <1>3, <1>4, <1>5, <1>6, PinsUntouched, BoundKept, InvPartsPrime

LEMMA ResetKeeps ==
    ASSUME PinsInv, ResetServerPins
    PROVE  PinsInv'
  <1> USE InvParts
  <1> DEFINE r(fresh) == IF cfg = None THEN Idle ELSE [pc |-> "build", fresh |-> fresh]
  <1>1. \A fresh \in BOOLEAN :
            /\ r(fresh) \in Registering /\ r(fresh).pc = (IF cfg = None THEN "idle" ELSE "build")
    BY IdleTyped DEF Registering
  <1>2. PICK fresh \in BOOLEAN : Go(Registrar, r(fresh))
    BY DEF ResetServerPins, Store
  <1> HIDE DEF r
  <1>3. /\ ThTyped' /\ th'[Registrar].pc = (IF cfg = None THEN "idle" ELSE "build")
        /\ \A u \in Threads \ {Registrar} : th'[u] = th[u]
    BY <1>1, <1>2, GoTyped, Distinct
  <1>4. /\ th[Registrar].pc = "reset" /\ UNCHANGED <<offered, cfg, tools, routed, blocked, unchecked>>
        /\ Written(None, [n \in Names |-> None])
    BY DEF ResetServerPins, Store, world, Written
  <1>5. WorldTyped'
    BY <1>3, <1>4 DEF WorldTyped
  <1>6. Told'
    BY <1>3, <1>4, ToldKept, Distinct DEF Verifiers, Written
  <1>7. \A a \in Approvers : th'[a] = th[a]
    BY <1>3, Distinct
  <1>8. PinsTyped' /\ Agree'
    BY <1>4, NothingPinned, WrittenAgree
  <1> QED BY <1>3, <1>5, <1>6, <1>7, <1>8, BoundKept, InvPartsPrime

LEMMA BuildKeeps ==
    ASSUME PinsInv, Build
    PROVE  PinsInv'
  <1> USE InvParts
  <1> DEFINE v == [pc |-> "verify", list |-> offered[cfg], drift |-> FALSE]
  <1>1. cfg \in Cfgs /\ offered[cfg] \in Tools
    BY DEF WorldTyped, Build
  <1>2. v \in Registering /\ v.pc = "verify"
    BY <1>1 DEF Registering, Verifying
  <1>3. PICK r \in {Idle, v} : Go(Registrar, r)
    BY DEF Build
  <1> HIDE DEF v
  <1>4. /\ ThTyped' /\ th'[Registrar].pc \in {"idle", "verify"} /\ \A u \in Threads \ {Registrar} : th'[u] = th[u]
    BY <1>2, <1>3, IdleTyped, GoTyped, Distinct
  <1>5. th[Registrar].pc = "build" /\ UNCHANGED <<offered, cfg, tools, routed, blocked, unchecked, mem, file, accepted, onDisk>>
    BY DEF Build, world, store
  <1>6. WorldTyped'
    BY <1>1, <1>4, <1>5 DEF WorldTyped
  <1>7. Told'
    BY <1>4, <1>5, ToldKept, Distinct DEF Verifiers
  <1>8. \A a \in Approvers : th'[a] = th[a]
    BY <1>4, Distinct
  <1> QED BY <1>4, <1>5, <1>6, <1>7, <1>8, PinsUntouched, BoundKept, InvPartsPrime

\* The registration acts on its result before the server is routed.
LEMMA CommitKeeps ==
    ASSUME PinsInv, Commit
    PROVE  PinsInv'
  <1> USE InvParts
  <1>1. /\ ThTyped' /\ th'[Registrar] = Idle /\ th'[Monitor].pc = th[Monitor].pc
        /\ th[Monitor].pc # "connect" => th'[Monitor] = th[Monitor]
        /\ \A a \in Approvers : th'[a] = th[a]
    BY IdleTyped, OutdateTyped DEF Commit
  <1>2. /\ th[Registrar].pc = "report" /\ (blocked' <=> (blocked \/ (th[Registrar].drift /\ Action = "block")))
        /\ tools' = [r \in Replicas |-> th[Registrar].list] /\ routed' = TRUE
        /\ blocked' \in BOOLEAN
        /\ UNCHANGED <<offered, cfg, accepted, onDisk, unchecked, mem, file>>
    BY DEF Commit, handlePinDrift, store
  <1>3. th[Registrar].list \in Tools
    BY <1>2, RegistrarHas
  <1>4. WorldTyped'
    BY <1>1, <1>2, <1>3, IdleTyped DEF WorldTyped
  <1>5. Told'
    <2>1. SUFFICES ASSUME Action = "block", mem # None, mem.status = "drift", ~unchecked, ~blocked'
                   PROVE  th'[Monitor].pc = "report" /\ th'[Monitor].drift
      BY <1>2 DEF Told, Verifiers
    <2>2. th[Monitor].pc = "report" /\ th[Monitor].drift
      BY <1>2, <2>1 DEF Told, Verifiers
    <2> QED BY <1>1, <2>2
  <1> QED BY <1>1, <1>2, <1>4, <1>5, PinsUntouched, BoundKept, InvPartsPrime

LEMMA VerifyKeeps ==
    ASSUME PinsInv, NEW t \in Verifiers, VerifyOrPin(t)
    PROVE  PinsInv'
  <1> USE InvParts
  <1> DEFINE list == th[t].list
             p == IF mem = None THEN pinServer(list) ELSE verifyAndUpdate(mem, list)
             drift == mem # None /\ ModifiedTools(mem, list) # {}
             r(d) == [th[t] EXCEPT !.pc = "report", !.drift = d]
  <1>1. /\ list \in Tools /\ p \in Pins /\ drift \in BOOLEAN
        /\ AgreeOn(p, Seen(accepted, list)) /\ Written(p, Seen(accepted, list))
        /\ ((p.status = "drift") <=> drift)
        /\ \/ unchecked' = TRUE /\ Go(t, r(FALSE))
           \/ unchecked' = FALSE /\ mem' = p /\ Go(t, r(drift))
    BY VerifyWrites DEF PinsInv, Go
  <1>2. th[t] \in Verifying
    <2>1. th[t] \in Registering \cup Monitoring /\ th[t].pc = "verify"
      BY DEF ThTyped, Verifiers, VerifyOrPin
    <2> QED BY <2>1 DEF Registering, Monitoring, Verifying, Idle
  <1>3. \A d \in BOOLEAN : r(d) \in Verifying /\ r(d).pc = "report" /\ (r(d).drift <=> d)
    <2>1. \A v \in Verifying, d \in BOOLEAN :
              LET w == [v EXCEPT !.pc = "report", !.drift = d]
              IN  w \in Verifying /\ w.pc = "report" /\ (w.drift <=> d)
      BY DEF Verifying
    <2> QED BY <1>2, <2>1
  <1>4. Verifying \subseteq Registering /\ Verifying \subseteq Monitoring
    BY DEF Registering, Monitoring
  <1> HIDE DEF list, p, drift, r
  <1>5. PICK d \in BOOLEAN : Go(t, r(d)) /\ (unchecked' = TRUE \/ (unchecked' = FALSE /\ mem' = p /\ (d <=> drift)))
    BY <1>1
  <1>6. ThTyped' /\ th'[t] = r(d) /\ \A u \in Threads \ {t} : th'[u] = th[u]
    BY <1>3, <1>4, <1>5, GoTyped, Distinct DEF Verifiers, Threads
  <1>7. th[t].pc = "verify" /\ UNCHANGED <<offered, cfg, tools, routed, blocked>>
    BY DEF VerifyOrPin, world
  <1>8. WorldTyped'
    <2>1. t = Registrar \/ th'[Registrar] = th[Registrar]
      BY <1>6, Distinct
    <2> QED BY <1>5, <1>7, <2>1 DEF WorldTyped
  <1>9. PinsTyped' /\ Agree'
    BY <1>1, WrittenAgree
  <1>10. Told'
    BY <1>1, <1>3, <1>5, <1>6 DEF Told
  <1>11. \A a \in Approvers : th'[a] = th[a]
    BY <1>6, Distinct DEF Verifiers
  <1> QED BY <1>6, <1>8, <1>9, <1>10, <1>11, BoundKept, InvPartsPrime

LEMMA MonFindsKeeps ==
    ASSUME PinsInv, NEW r \in Replicas, MonFinds(r)
    PROVE  PinsInv'
  <1> USE InvParts
  <1> DEFINE c == [pc |-> "connect", replica |-> r, cfg |-> cfg, current |-> TRUE]
  <1>1. cfg \in Cfgs
    BY DEF MonFinds, WorldTyped
  <1>2. c \in Monitoring /\ c.pc = "connect"
    BY <1>1 DEF Monitoring
  <1>3. Go(Monitor, c) /\ th[Monitor].pc = "idle"
    BY DEF MonFinds
  <1> HIDE DEF c
  <1>4. ThTyped' /\ th'[Monitor] = c /\ \A u \in Threads \ {Monitor} : th'[u] = th[u]
    BY <1>2, <1>3, GoTyped, Distinct
  <1>5. UNCHANGED <<offered, cfg, tools, routed, blocked, unchecked, mem, file, accepted, onDisk>>
    BY DEF MonFinds, world, store
  <1>6. th'[Registrar] = th[Registrar] /\ \A a \in Approvers : th'[a] = th[a]
    BY <1>4, Distinct
  <1>7. WorldTyped'
    BY <1>5, <1>6 DEF WorldTyped
  <1>8. Told'
    BY <1>3, <1>5, <1>6, ToldKept DEF Verifiers
  <1> QED BY <1>4, <1>5, <1>6, <1>7, <1>8, PinsUntouched, BoundKept, InvPartsPrime

LEMMA MonReconnectsKeeps ==
    ASSUME PinsInv, MonReconnects
    PROVE  PinsInv'
  <1> USE InvParts
  <1> DEFINE list == offered[th[Monitor].cfg]
             v == [pc |-> "verify", list |-> list, drift |-> FALSE]
  <1>1. th[Monitor].pc = "connect" /\ th[Monitor].replica \in Replicas /\ list \in Tools
    BY ConnectTyped DEF MonReconnects, WorldTyped
  <1>2. v \in Monitoring /\ v.pc = "verify"
    BY <1>1 DEF Monitoring, Verifying
  <1>3. /\ Go(Monitor, v)
        /\ tools' = IF th[Monitor].current THEN [tools EXCEPT ![th[Monitor].replica] = list] ELSE tools
        /\ UNCHANGED <<offered, cfg, routed, blocked, unchecked, mem, file, accepted, onDisk>>
    BY DEF MonReconnects, store
  <1>4. tools' \in [Replicas -> Tools]
    BY <1>1, <1>3 DEF WorldTyped
  <1> HIDE DEF v, list
  <1>5. ThTyped' /\ th'[Monitor] = v /\ \A u \in Threads \ {Monitor} : th'[u] = th[u]
    BY <1>2, <1>3, GoTyped, Distinct
  <1>6. th'[Registrar] = th[Registrar] /\ \A a \in Approvers : th'[a] = th[a]
    BY <1>5, Distinct
  <1>7. WorldTyped'
    BY <1>3, <1>4, <1>6 DEF WorldTyped
  <1>8. Told'
    BY <1>1, <1>3, <1>6, ToldKept DEF Verifiers
  <1> QED BY <1>3, <1>5, <1>6, <1>7, <1>8, PinsUntouched, BoundKept, InvPartsPrime

LEMMA MonReportsKeeps ==
    ASSUME PinsInv, MonReports
    PROVE  PinsInv'
  <1> USE InvParts
  <1>1. /\ th[Monitor].pc = "report" /\ Go(Monitor, Idle)
        /\ (blocked' <=> (blocked \/ (th[Monitor].drift /\ Action = "block"))) /\ blocked' \in BOOLEAN
        /\ UNCHANGED <<offered, cfg, tools, routed, unchecked, mem, file, accepted, onDisk>>
    BY DEF MonReports, handlePinDrift, world, store
  <1>2. ThTyped' /\ \A u \in Threads \ {Monitor} : th'[u] = th[u]
    BY <1>1, IdleTyped, GoTyped, Distinct
  <1>3. th'[Registrar] = th[Registrar] /\ \A a \in Approvers : th'[a] = th[a]
    BY <1>2, Distinct
  <1>4. WorldTyped'
    BY <1>1, <1>3 DEF WorldTyped
  <1>5. Told'
    BY <1>1, <1>3 DEF Told, Verifiers
  <1> QED BY <1>1, <1>2, <1>3, <1>4, <1>5, PinsUntouched, BoundKept, InvPartsPrime

\* A reviewer moves on.
LEMMA ReviewerMoves ==
    ASSUME PinsInv, NEW a \in Approvers, NEW r \in Reviewing, Go(a, r), r.pc = "approve" => r.seen \in {None, r.list},
           UNCHANGED <<offered, cfg, tools, routed, blocked, unchecked>>
    PROVE  ThTyped' /\ WorldTyped' /\ Bound' /\ \A t \in Verifiers : th'[t] = th[t]
  <1> USE InvParts
  <1>1. ThTyped' /\ th'[a] = r /\ \A u \in Threads \ {a} : th'[u] = th[u]
    BY GoTyped, Distinct
  <1>2. \A t \in Verifiers : th'[t] = th[t]
    BY <1>1, Distinct DEF Verifiers
  <1>3. Bound'
    BY <1>1, Distinct, BoundKept
  <1>4. WorldTyped'
    BY <1>2 DEF WorldTyped, Verifiers
  <1> QED BY <1>1, <1>2, <1>3, <1>4

LEMMA LeaveKeeps ==
    ASSUME PinsInv, NEW a \in Approvers, Leave(a)
    PROVE  PinsInv'
  <1> USE InvParts
  <1>1. Go(a, Idle) /\ UNCHANGED <<offered, cfg, tools, routed, blocked, unchecked, mem, file, accepted, onDisk>>
    BY DEF Leave, world, store
  <1>2. ThTyped' /\ WorldTyped' /\ Bound' /\ \A t \in Verifiers : th'[t] = th[t]
    BY <1>1, IdleTyped, ReviewerMoves
  <1>3. Told'
    BY <1>1, <1>2, ToldKept DEF Verifiers
  <1> QED BY <1>1, <1>2, <1>3, PinsUntouched, InvPartsPrime

\* A review that stores nothing.
LEMMA ReviewKeeps ==
    ASSUME PinsInv, NEW a \in Approvers, NEW r \in Replicas, Diff(a, r) \/ Approve(a, r)
    PROVE  PinsInv'
  <1> USE InvParts
  <1> DEFINE s == [pc |-> "reviewed", seen |-> tools[r]]
             w == [pc |-> "approve", seen |-> Reviewed(a), list |-> tools[r]]
  <1>1. tools[r] \in Tools
    BY DEF WorldTyped
  <1>2. /\ s \in Reviewing /\ s.pc = "reviewed"
        /\ Approve(a, r) => w \in Reviewing /\ w.seen \in {None, w.list}
    <2>1. Approve(a, r) => Reviewed(a) \in {None, tools[r]}
      BY DEF Approve, Reviewed
    <2> QED BY <1>1, <2>1 DEF Reviewing
  <1>3. Go(a, s) \/ (Approve(a, r) /\ Go(a, w))
    BY DEF Diff, Approve
  <1>4. UNCHANGED <<offered, cfg, tools, routed, blocked, unchecked, mem, file, accepted, onDisk>>
    BY DEF Diff, Approve, world, store
  <1> HIDE DEF s, w
  <1>5. ThTyped' /\ WorldTyped' /\ Bound' /\ \A t \in Verifiers : th'[t] = th[t]
    BY <1>2, <1>3, <1>4, ReviewerMoves
  <1>6. Told'
    BY <1>4, <1>5, ToldKept DEF Verifiers
  <1> QED BY <1>4, <1>5, <1>6, PinsUntouched, InvPartsPrime

\* What an approval writes.
LEMMA ApprovalWrites ==
    ASSUME PinsInv, NEW a \in Approvers, ApprovePins(a)
    PROVE  /\ th[a].list \in Tools /\ th[a].seen \in {None, th[a].list}
           /\ Written(pinServer(th[a].list), th[a].list)
  <1> USE InvParts
  <1>1. th[a].pc = "approve" /\ th[a] \in Reviewing
    BY DEF ApprovePins, ThTyped
  <1>2. th[a].list \in Tools
    BY <1>1 DEF Reviewing, Idle
  <1>3. th[a].seen \in {None, th[a].list}
    BY <1>1 DEF Bound
  <1>4. Written(pinServer(th[a].list), th[a].list)
    BY DEF ApprovePins, Store, Written
  <1> QED BY <1>2, <1>3, <1>4

LEMMA ApprovalKeeps ==
    ASSUME PinsInv, NEW a \in Approvers, ApprovePins(a)
    PROVE  PinsInv'
  <1> USE InvParts
  <1> DEFINE p == pinServer(th[a].list)
  <1>1. p \in Pins /\ p.tools = th[a].list /\ p.status = "pinned" /\ Written(p, th[a].list)
    BY ApprovalWrites, FirstPin
  <1>2. AgreeOn(p, th[a].list)
    <2> HIDE DEF p
    <2> QED BY <1>1, PinsAssumption DEF AgreeOn
  <1>3. Go(a, Idle) /\ UNCHANGED <<offered, cfg, tools, routed, blocked, unchecked>>
    BY DEF ApprovePins, world
  <1> HIDE DEF p
  <1>4. ThTyped' /\ WorldTyped' /\ Bound' /\ \A t \in Verifiers : th'[t] = th[t]
    BY <1>3, IdleTyped, ReviewerMoves
  <1>5. PinsTyped' /\ Agree'
    BY <1>1, <1>2, WrittenAgree
  <1>6. mem' = mem \/ mem' = None \/ mem'.status # "drift"
    BY <1>1 DEF Written
  <1>7. Told'
    BY <1>3, <1>4, <1>6, ToldKept DEF Verifiers
  <1> QED BY <1>4, <1>5, <1>7, InvPartsPrime

LEMMA HandlerResetKeeps ==
    ASSUME PinsInv, NEW a \in Approvers, Reset(a)
    PROVE  PinsInv'
  <1> USE InvParts
  <1>1. Written(None, [n \in Names |-> None]) /\ UNCHANGED <<offered, cfg, tools, routed, blocked, th, unchecked>>
    BY DEF Reset, Store, Written, world
  <1>2. PinsTyped' /\ Agree'
    BY <1>1, NothingPinned, WrittenAgree
  <1>3. Told'
    BY <1>1, ToldKept DEF Written
  <1>4. ThTyped' /\ WorldTyped' /\ Bound'
    BY <1>1 DEF ThTyped, WorldTyped, Bound
  <1> QED BY <1>2, <1>3, <1>4, InvPartsPrime

LEMMA OtherSaveKeeps ==
    ASSUME PinsInv, OtherServerSaves
    PROVE  PinsInv'
  <1> USE InvParts
  <1>1. /\ file' = mem /\ onDisk' = accepted
        /\ UNCHANGED <<offered, cfg, tools, routed, blocked, mem, th, accepted, unchecked>>
    BY DEF OtherServerSaves, world
  <1>2. PinsTyped' /\ Agree'
    BY <1>1 DEF PinsTyped, Agree, AgreeOn
  <1>3. ThTyped' /\ WorldTyped' /\ Bound' /\ Told'
    BY <1>1 DEF ThTyped, WorldTyped, Bound, Told
  <1> QED BY <1>2, <1>3, InvPartsPrime

LEMMA ServerKeeps ==
    ASSUME PinsInv, NEW c \in Cfgs, ServerChanges(c)
    PROVE  PinsInv'
  <1> USE InvParts
  <1>1. UNCHANGED <<cfg, tools, routed, blocked, th, accepted, onDisk, unchecked, mem, file>>
    BY DEF ServerChanges, store
  <1>2. offered' \in [Cfgs -> Tools]
    BY DEF ServerChanges, WorldTyped
  <1>3. ThTyped' /\ WorldTyped' /\ Bound' /\ Told'
    BY <1>1, <1>2 DEF ThTyped, WorldTyped, Bound, Told
  <1> QED BY <1>1, <1>3, PinsUntouched, InvPartsPrime

\* All threads are idle after a start of the daemon.
LEMMA AllIdle ==
    ASSUME th = [t \in Threads |-> Idle]
    PROVE  ThTyped /\ Bound /\ th[Registrar].pc = "idle"
  BY IdleTyped, Distinct DEF ThTyped, Bound

\* The file holds what the ghost of the last save says.
LEMMA CrashKeeps ==
    ASSUME PinsInv, NEW damaged \in BOOLEAN, Crash(damaged)
    PROVE  PinsInv'
  <1> USE InvParts
  <1>1. /\ th' = [t \in Threads |-> Idle] /\ routed' = FALSE /\ tools' = NoTools /\ blocked' = FALSE
        /\ unchecked' = FALSE /\ UNCHANGED <<offered, cfg, file, onDisk>>
        /\ mem' = (IF damaged THEN None ELSE file)
        /\ accepted' = (IF damaged THEN [n \in Names |-> None] ELSE onDisk)
    BY DEF Crash
  <1>2. ThTyped' /\ Bound' /\ th'[Registrar].pc = "idle"
    <2>1. th' = [t \in Threads |-> Idle] => ThTyped' /\ Bound' /\ th'[Registrar].pc = "idle"
      BY IdleTyped, Distinct DEF ThTyped, Bound
    <2> QED BY <1>1, <2>1
  <1>3. WorldTyped'
    BY <1>1, <1>2, NoToolsTyped DEF WorldTyped
  <1>4. PinsTyped'
    BY <1>1 DEF PinsTyped
  <1>5. Agree'
    BY <1>1 DEF Agree, AgreeOn
  <1>6. Told'
    BY <1>1, <1>2 DEF Told
  <1> QED BY <1>2, <1>3, <1>4, <1>5, <1>6, InvPartsPrime

-----------------------------------------------------------------------------
(* The invariant and what follows from it                                  *)

LEMMA InvInitially == PinsInit => PinsInv
  <1> SUFFICES ASSUME PinsInit PROVE PinsInv
    OBVIOUS
  <1> USE InvParts
  <1>1. ThTyped /\ Bound /\ th[Registrar].pc = "idle"
    BY AllIdle DEF PinsInit
  <1>2. WorldTyped
    BY <1>1, NoToolsTyped DEF PinsInit, WorldTyped
  <1>3. OldPins \subseteq Pins
    BY DEF OldPins, Pins, Pin
  <1>4. mem = file /\ file \in Pins \cup {None} /\ AgreeOn(file, accepted) /\ onDisk = accepted
    BY <1>3 DEF PinsInit, AgreeOn
  <1>5. accepted \in [Names -> Pin \cup {None}]
    BY <1>4 DEF AgreeOn, Pins
  <1>6. PinsTyped /\ Agree
    BY <1>4, <1>5 DEF PinsTyped, Agree
  <1>7. Told
    BY <1>1 DEF PinsInit, Told
  <1> QED BY <1>1, <1>2, <1>6, <1>7

LEMMA InvStep == PinsInv /\ [Next]_vars => PinsInv'
  <1> SUFFICES ASSUME PinsInv, [Next]_vars PROVE PinsInv'
    OBVIOUS
  <1>1. ASSUME NEW next \in Cfgs \cup {None}, ReloadUnregisters(next) PROVE PinsInv'
    BY <1>1, ReloadKeeps
  <1>2. ASSUME NEW next \in Cfgs \cup {None}, StartServer(next) PROVE PinsInv'
    BY <1>2, StartKeeps
  <1>3. ASSUME ResetServerPins PROVE PinsInv'
    BY <1>3, ResetKeeps
  <1>4. ASSUME Build PROVE PinsInv'
    BY <1>4, BuildKeeps
  <1>5. ASSUME Commit PROVE PinsInv'
    BY <1>5, CommitKeeps
  <1>6. ASSUME NEW t \in Verifiers, VerifyOrPin(t) PROVE PinsInv'
    BY <1>6, VerifyKeeps
  <1>7. ASSUME NEW r \in Replicas, MonFinds(r) PROVE PinsInv'
    BY <1>7, MonFindsKeeps
  <1>8. ASSUME MonReconnects PROVE PinsInv'
    BY <1>8, MonReconnectsKeeps
  <1>9. ASSUME MonReports PROVE PinsInv'
    BY <1>9, MonReportsKeeps
  <1>10. ASSUME NEW a \in Approvers, NEW r \in Replicas, Diff(a, r) \/ Approve(a, r) PROVE PinsInv'
    BY <1>10, ReviewKeeps
  <1>11. ASSUME NEW a \in Approvers, ApprovePins(a) PROVE PinsInv'
    BY <1>11, ApprovalKeeps
  <1>12. ASSUME NEW a \in Approvers, Leave(a) PROVE PinsInv'
    BY <1>12, LeaveKeeps
  <1>13. ASSUME NEW a \in Approvers, Reset(a) PROVE PinsInv'
    BY <1>13, HandlerResetKeeps
  <1>14. ASSUME NEW c \in Cfgs, ServerChanges(c) PROVE PinsInv'
    BY <1>14, ServerKeeps
  <1>15. ASSUME NEW damaged \in BOOLEAN, Crash(damaged) PROVE PinsInv'
    BY <1>15, CrashKeeps
  <1>16. ASSUME OtherServerSaves PROVE PinsInv'
    BY <1>16, OtherSaveKeeps
  <1>17. CASE UNCHANGED vars
    BY <1>17 DEF vars, world, store, PinsInv, PinsTypeOK, Agree, AgreeOn, Told, Bound
  <1> QED BY <1>1, <1>2, <1>3, <1>4, <1>5, <1>6, <1>7, <1>8,
             <1>9, <1>10, <1>11, <1>12, <1>13, <1>14, <1>15, <1>16, <1>17 DEF Next

LEMMA InvAlways == Spec => []PinsInv
  BY InvInitially, InvStep, PTL DEF Spec

\* Types, and what each goroutine has in hand at each of its steps.
THEOREM PinsTypeCorrect == Spec => []PinsTypeOK
  <1>1. PinsInv => PinsTypeOK
    BY DEF PinsInv
  <1> QED BY <1>1, InvAlways, PTL

\* While drift blocks, a routed server whose stored status is drift is blocked,
\* once the verifications that end without an error have been acted on: through
\* reloads, restarts, failed saves, reviews and crashes.
THEOREM DriftIsBlocked == Spec => []DriftIsEnforced
  <1>1. PinsInv => DriftIsEnforced
    BY DEF PinsInv, Told, DriftIsEnforced
  <1> QED BY <1>1, InvAlways, PTL

\* An approval bound to a reviewed diff pins what was reviewed.
THEOREM ApprovalsAreReviewed == Spec => ApprovedAsReviewed
  <1>1. PinsInv /\ [Next]_vars =>
            [\A a \in Approvers : (ApprovePins(a) /\ th[a].seen # None)
                 => mem' = mem \/ mem'.tools = th[a].seen]_vars
    <2> SUFFICES ASSUME PinsInv, NEW a \in Approvers, ApprovePins(a), th[a].seen # None
                 PROVE  mem' = mem \/ mem'.tools = th[a].seen
      OBVIOUS
    <2> QED BY ApprovalWrites, FirstPin DEF Written
  <1> QED BY <1>1, InvAlways, PTL DEF Spec, ApprovedAsReviewed

\* The thread that reaches its report has verified in this step.
LEMMA OnlyVerifyReports ==
    ASSUME PinsInv, Next, NEW t \in Verifiers, th[t].pc = "verify", th'[t].pc = "report"
    PROVE  VerifyOrPin(t)
  <1> USE InvParts
  <1> SUFFICES ASSUME ~VerifyOrPin(t) PROVE FALSE
    OBVIOUS
  <1>1. t \in Threads /\ (t = Registrar \/ t = Monitor) /\ Registrar # Monitor /\ t \notin Approvers
    BY Distinct DEF Verifiers
  <1>2. \A u \in Threads \ {t} : \A r : ~Go(u, r)
    BY <1>1 DEF Go, ThTyped
  <1>3. ASSUME NEW next \in Cfgs \cup {None}, ReloadUnregisters(next) PROVE FALSE
    BY <1>1, <1>3, OutdateTyped DEF ReloadUnregisters, Registering
  <1>4. ASSUME NEW next \in Cfgs \cup {None}, StartServer(next) PROVE FALSE
    BY <1>1, <1>2, <1>4, Distinct DEF StartServer
  <1>5. ASSUME ResetServerPins PROVE FALSE
    BY <1>1, <1>2, <1>5, Distinct DEF ResetServerPins, Store
  <1>6. ASSUME Build PROVE FALSE
    BY <1>1, <1>2, <1>6, Distinct DEF Build
  <1>7. ASSUME Commit PROVE FALSE
    BY <1>1, <1>7, OutdateTyped, IdleTyped DEF Commit
  <1>8. ASSUME NEW r \in Replicas, MonFinds(r) PROVE FALSE
    BY <1>1, <1>2, <1>8, Distinct DEF MonFinds
  <1>9. ASSUME MonReconnects \/ MonReports PROVE FALSE
    BY <1>1, <1>2, <1>9, Distinct DEF MonReconnects, MonReports
  <1>10. ASSUME NEW a \in Approvers, NEW r \in Replicas, Diff(a, r) \/ Approve(a, r) PROVE FALSE
    BY <1>1, <1>2, <1>10, Distinct DEF Diff, Approve
  <1>11. ASSUME NEW a \in Approvers, ApprovePins(a) \/ Leave(a) PROVE FALSE
    BY <1>1, <1>2, <1>11, Distinct DEF ApprovePins, Leave
  <1>12. ASSUME NEW a \in Approvers, Reset(a) PROVE FALSE
    BY <1>12 DEF Reset
  <1>13. ASSUME NEW c \in Cfgs, ServerChanges(c) PROVE FALSE
    BY <1>13 DEF ServerChanges
  <1>14. ASSUME NEW damaged \in BOOLEAN, Crash(damaged) PROVE FALSE
    BY <1>1, <1>14, IdleTyped DEF Crash
  <1>15. ASSUME NEW u \in Verifiers, VerifyOrPin(u) PROVE FALSE
    <2>1. u \in Threads \ {t}
      BY <1>15 DEF Threads
    <2>2. \E r : Go(u, r)
      BY <1>15 DEF VerifyOrPin, Store
    <2> QED BY <1>2, <2>1, <2>2
  <1>16. ASSUME OtherServerSaves PROVE FALSE
    BY <1>16 DEF OtherServerSaves
  <1> QED BY <1>3, <1>4, <1>5, <1>6, <1>7, <1>8, <1>9, <1>10,
             <1>11, <1>12, <1>13, <1>14, <1>15, <1>16 DEF Next

\* A verification that ends without an error reports drift exactly if a tool is
\* not the one that was first seen since the last reset or approval.
THEOREM VerdictsAreExact == Spec => VerdictExact
  <1>1. PinsInv /\ [Next]_vars =>
            [\A t \in Verifiers : (th[t].pc = "verify" /\ th'[t].pc = "report" /\ ~unchecked')
                 => (th'[t].drift <=> Differs(accepted, th[t].list))]_vars
    <2> SUFFICES ASSUME PinsInv, Next, NEW t \in Verifiers,
                        th[t].pc = "verify", th'[t].pc = "report", ~unchecked'
                 PROVE  th'[t].drift <=> Differs(accepted, th[t].list)
      OBVIOUS
    <2> DEFINE drift == mem # None /\ ModifiedTools(mem, th[t].list) # {}
    <2>1. VerifyOrPin(t)
      BY OnlyVerifyReports
    <2>2. /\ drift \in BOOLEAN /\ (drift <=> Differs(accepted, th[t].list))
          /\ th' = [th EXCEPT ![t] = [th[t] EXCEPT !.pc = "report", !.drift = drift]]
      BY <2>1, VerifyWrites DEF PinsInv
    <2> HIDE DEF drift
    <2>3. th[t] \in Verifying /\ t \in Threads /\ th \in [Threads -> Registering \cup Monitoring \cup Reviewing]
      <3>1. th[t] \in Registering \cup Monitoring /\ t \in Threads
        BY DEF PinsInv, PinsTypeOK, Verifiers, Threads
      <3>2. th \in [Threads -> Registering \cup Monitoring \cup Reviewing]
        BY DEF PinsInv, PinsTypeOK
      <3> QED BY <3>1, <3>2 DEF Registering, Monitoring, Verifying, Idle
    <2>4. th'[t] = [th[t] EXCEPT !.pc = "report", !.drift = drift]
      BY <2>2, <2>3
    <2>5. \A v \in Verifying, d \in BOOLEAN : [v EXCEPT !.pc = "report", !.drift = d].drift <=> d
      BY DEF Verifying
    <2> QED BY <2>2, <2>3, <2>4, <2>5
  <1> QED BY <1>1, InvAlways, PTL DEF Spec, VerdictExact
=============================================================================
