-------------------------- MODULE Projection_proofs --------------------------
(***************************************************************************)
(* The safety of one projection, for any texts, models and policies.       *)
(***************************************************************************)
EXTENDS Projection, TLAPS

\* An operation that has decided what to write.
Work == [pc : {"backup", "clear", "write", "save"}, who : Actors, entry : Entry \cup {None}, sync : BOOLEAN]
Working == op \in Work

OpTyped == op = Idle \/ op \in [pc : {"adopted"}, who : Actors, sk : Content] \/ Working

\* The bytes that a client gets from x when no policy applies.
Rendered(x) == IF kind = "rendered" THEN [x EXCEPT !.model = None] ELSE x

\* A model of a policy is at d only if the entry e says that it was put there.
Attributed(d, e) == (d \in Content /\ d.model \in PolicyModels) => (e # None /\ e.modelValue = d.model)

\* An entry records what was written, and what it was made from.
Faithful(e) ==
    e # None =>
        /\ e.channel = "link" => kind = "skill"
        /\ (e.channel = "copy" /\ ~swallowed) =>
               /\ e.installed \in Content /\ e.tree \in Content
               /\ e.modelValue = None => e.installed = Rendered(e.tree)
Entries ==
    /\ Faithful(lock)
    /\ Working => /\ Faithful(op.entry)
                  /\ (~torn /\ op.entry # None) => Attributed(Image(op.entry), op.entry)
                  /\ op.pc = "write" => op.entry # None

\* Between its two steps an adopt still has a copy.
Adopting ==
    op.pc = "adopted" => /\ lock # None /\ lock.channel = "copy" /\ kind # "rendered" /\ dest # Linked
                         /\ ~unseen => dest \in Content

\* The copy that the user has edited is where it was or set aside, and is not
\* what gridctl recorded, unless an adopt took it for its own; the operation in
\* progress has not seen it, has backed it up, or will write the same.
AtRisk == IF dest = None THEN aside ELSE dest
Edited ==
    mine => /\ AtRisk \in Content
            /\ lock # None => (AtRisk # lock.installed \/ swallowed)
            /\ op.pc = "adopted" => unseen
            /\ (op.pc \in {"clear", "write"} /\ ~unseen /\ ~swallowed) =>
                   (~Skill /\ op.entry # None /\ dest # None /\ dest = op.entry.installed)

\* If nothing else moved, a sync still writes what its actor wants.
Plan(who, e) ==
    /\ Known(who) # None /\ src # None
    /\ \E ch \in {"copy", "link"} : e = Wanted(Known(who), Pol(who), ch)
Syncing ==
    /\ Running => settled = None
    /\ (Working /\ op.sync /\ ~raced) =>
           /\ Plan(op.who, op.entry)
           /\ op.pc = "save" => dest = Image(op.entry)

\* What is ready to take the place is what the entry says, but for a directory
\* that the author changed after its hash was taken.
Ready ==
    op.pc = "write" => /\ staged # None
                       /\ (~Skill \/ (op.sync /\ ~raced)) => staged = Image(op.entry)
                       /\ ~torn => Attributed(staged, op.entry)

\* Where a policy's model may be.
ModelsSound ==
    ~torn => /\ PolicyNotAdopted
             /\ op.pc # "save" => (Attributed(dest, lock) /\ Attributed(aside, lock))
             /\ op.pc = "save" => Attributed(dest, op.entry)

\* ProjectionTypeOK, but for the operation.
Typed ==
    /\ kind \in Kinds /\ policy \in Policies
    /\ src \in Content \cup {None} /\ reg \in Content \cup {None}
    /\ dest \in Content \cup {None, Linked, Elsewhere} /\ aside \in Content \cup {None, Linked, Elsewhere}
    /\ lock \in Entry \cup {None}
    /\ aside # None => op.pc = "write"
    /\ staged \in Content \cup {None, Linked, Elsewhere} /\ (staged # None => op.pc = "write")
    /\ mine \in BOOLEAN /\ lost \in BOOLEAN /\ raced \in BOOLEAN /\ unseen \in BOOLEAN
    /\ torn \in BOOLEAN /\ swallowed \in BOOLEAN
    /\ settled \in Actors \cup {None}

ProjectionInv ==
    Typed /\ OpTyped /\ Entries /\ Adopting /\ Edited /\ Syncing /\ Ready /\ ModelsSound
    /\ NothingLost /\ SyncSettles

-----------------------------------------------------------------------------
(* What a sync writes                                                      *)

LEMMA ContentFields ==
    ASSUME NEW x \in Content
    PROVE  x.model \in Models /\ x # None /\ x # Linked /\ x # Elsewhere /\ ~IsLink(x)
  BY ProjectionAssumption DEF Content, IsLink

LEMMA WithModel ==
    ASSUME NEW x \in Content, NEW m \in Models, NEW y, y = [x EXCEPT !.model = m]
    PROVE  y \in Content /\ y.model = m
  BY DEF Content

LEMMA EntryFields ==
    ASSUME NEW e \in Entry
    PROVE  /\ e # None /\ e.channel \in {"copy", "link"} /\ e.tree \in Content \cup {None}
           /\ e.installed \in Content \cup {None, Elsewhere} /\ e.modelValue \in PolicyModels \cup {None}
           /\ e.reason \in BOOLEAN
  BY ProjectionAssumption DEF Entry

LEMMA LinkEntryIs ==
    /\ LinkEntry \in Entry /\ LinkEntry.channel = "link" /\ LinkEntry.tree = None
    /\ LinkEntry.installed = None /\ LinkEntry.modelValue = None /\ LinkEntry # None
  <1>1. LinkEntry \in Entry
    BY DEF LinkEntry, Entry
  <1>2. LinkEntry # None
    BY <1>1, ProjectionAssumption
  <1> QED BY <1>1, <1>2 DEF LinkEntry

\* A policy's model is put where the author's is another, in every client that
\* has the key.
LEMMA RewriteIs ==
    ASSUME NEW p \in Policies \cup {None}, NEW m, NeedsRewrite(p, m)
    PROVE  /\ Resolve(p, m) \in PolicyModels /\ Resolve(p, m) \in Models /\ Resolve(p, m) # None
           /\ kind # "rendered" /\ p # None
  <1>1. p # None /\ kind # "rendered" /\ Resolve(p, m) # None /\ Resolve(p, m) # m
    BY DEF NeedsRewrite
  <1>2. p.default \in PolicyModels \cup {None} /\ p.override \in PolicyModels \cup {None}
    BY <1>1, ProjectionAssumption
  <1>3. /\ p.override # None => Resolve(p, m) = p.override
        /\ (p.override = None /\ m # None) => Resolve(p, m) = m
        /\ (p.override = None /\ m = None) => Resolve(p, m) = p.default
    BY DEF Resolve
  <1> QED BY <1>1, <1>2, <1>3 DEF Models

LEMMA InstallIs ==
    ASSUME src \in Content, NEW sk \in Content, NEW p \in Policies \cup {None}
    PROVE  /\ Install(sk, p) \in Content
           /\ NeedsRewrite(p, sk.model) => Install(sk, p).model = Resolve(p, sk.model)
           /\ ~NeedsRewrite(p, sk.model) => Install(sk, p) = Rendered(src)
  <1>1. CASE kind = "rendered"
    <2>1. Install(sk, p) = [src EXCEPT !.model = None] /\ ~NeedsRewrite(p, sk.model)
      BY <1>1 DEF Install, NeedsRewrite
    <2>2. Rendered(src) = [src EXCEPT !.model = None]
      BY <1>1 DEF Rendered
    <2>3. None \in Models
      BY DEF Models
    <2> QED BY <2>1, <2>2, <2>3, WithModel
  <1>2. CASE kind # "rendered" /\ NeedsRewrite(p, sk.model)
    <2>1. Install(sk, p) = [sk EXCEPT !.model = Resolve(p, sk.model)]
      BY <1>2 DEF Install
    <2> QED BY <1>2, <2>1, WithModel, RewriteIs
  <1>3. CASE kind # "rendered" /\ ~NeedsRewrite(p, sk.model)
    <2>1. Install(sk, p) = src
      BY <1>3 DEF Install
    <2> QED BY <1>3, <2>1 DEF Rendered
  <1> QED BY <1>1, <1>2, <1>3

LEMMA RenderedModel ==
    ASSUME NEW x \in Content
    PROVE  Rendered(x).model \in {x.model, None}
  BY DEF Rendered, Content

LEMMA CopyEntryIs ==
    ASSUME src \in Content, NEW sk \in Content, NEW p \in Policies \cup {None}, NEW ch, NEW e, e = CopyEntry(sk, p, ch)
    PROVE  /\ e \in Entry /\ e.channel = "copy" /\ e.tree = src /\ e.installed = Install(sk, p)
           /\ e.modelValue = IF NeedsRewrite(p, sk.model) THEN Resolve(p, sk.model) ELSE None
  <1>1. PICK v : v = IF NeedsRewrite(p, sk.model) THEN Resolve(p, sk.model) ELSE None
    OBVIOUS
  <1>2. v \in PolicyModels \cup {None}
    BY <1>1, RewriteIs
  <1>3. PICK b \in BOOLEAN : b = (NeedsRewrite(p, sk.model) /\ ch = "link")
    OBVIOUS
  <1>4. PICK i : i = Install(sk, p)
    OBVIOUS
  <1>5. i \in Content
    BY <1>4, InstallIs
  <1>6. e = [channel |-> "copy", tree |-> src, installed |-> i, reason |-> b, modelValue |-> v]
    BY <1>1, <1>3, <1>4 DEF CopyEntry
  <1>7. e \in Entry
    BY <1>2, <1>5, <1>6 DEF Entry
  <1> QED BY <1>1, <1>4, <1>6, <1>7

\* The entry that a sync wants is faithful, and where it puts a policy's model it
\* says so.
LEMMA WantedIs ==
    ASSUME src \in Content, NEW sk \in Content, NEW p \in Policies \cup {None}, NEW ch \in {"copy", "link"},
           NEW e, e = Wanted(sk, p, ch)
    PROVE  /\ e \in Entry /\ e # None /\ Image(e) \in Content \cup {Linked} /\ Image(e) # None
           /\ (e.channel = "link" /\ ch = "link" /\ ~NeedsRewrite(p, sk.model)) \/ e = CopyEntry(sk, p, ch)
           /\ ch = "copy" => e.channel = "copy"
           /\ (ch = "link" => kind = "skill") => Faithful(e)
           /\ src.model \notin PolicyModels => Attributed(Image(e), e)
  <1>1. CASE ch = "link" /\ ~NeedsRewrite(p, sk.model)
    <2>1. e = LinkEntry
      BY <1>1 DEF Wanted
    <2>2. Image(e) = Linked
      BY <2>1, LinkEntryIs DEF Image
    <2> QED BY <1>1, <2>1, <2>2, LinkEntryIs, ProjectionAssumption, ContentFields DEF Faithful, Attributed
  <1>2. CASE ~(ch = "link" /\ ~NeedsRewrite(p, sk.model))
    <2>1. e = CopyEntry(sk, p, ch)
      BY <1>2 DEF Wanted
    <2>2. /\ e \in Entry /\ e.channel = "copy" /\ e.tree = src /\ e.installed = Install(sk, p)
          /\ e.modelValue = IF NeedsRewrite(p, sk.model) THEN Resolve(p, sk.model) ELSE None
      BY <2>1, CopyEntryIs
    <2>3. Image(e) = e.installed /\ e.installed \in Content /\ e # None
      BY <2>2, InstallIs, EntryFields DEF Image
    <2>4. Faithful(e)
      <3>1. e.modelValue = None => ~NeedsRewrite(p, sk.model)
        BY <2>2, RewriteIs
      <3>2. ~NeedsRewrite(p, sk.model) => e.installed = Rendered(e.tree)
        BY <2>2, InstallIs
      <3> QED BY <2>2, <2>3, <3>1, <3>2 DEF Faithful
    <2>5. src.model \notin PolicyModels => Attributed(Image(e), e)
      BY <2>2, <2>3, InstallIs, RewriteIs, RenderedModel, ProjectionAssumption DEF Attributed
    <2> QED BY <2>1, <2>2, <2>3, <2>4, <2>5, ContentFields
  <1> QED BY <1>1, <1>2

LEMMA DriftedIs ==
    /\ dest = None => ~Drifted
    /\ (dest # None /\ lock.channel = "link") => (Drifted <=> dest # Linked)
    /\ (dest # None /\ lock.channel # "link") => (Drifted <=> dest # lock.installed)
  BY DEF Drifted

-----------------------------------------------------------------------------
(* The operation in progress                                               *)

LEMMA OpCases ==
    ASSUME OpTyped
    PROVE  /\ op.pc \in {"idle", "adopted", "backup", "clear", "write", "save"}
           /\ Working <=> op.pc \in {"backup", "clear", "write", "save"}
           /\ Working => op.who \in Actors /\ op.entry \in Entry \cup {None} /\ op.sync \in BOOLEAN
           /\ op.pc = "adopted" => op.who \in Actors /\ op.sk \in Content
  <1>1. CASE op = Idle
    BY <1>1 DEF Idle, Working, Work
  <1>2. CASE op \in [pc : {"adopted"}, who : Actors, sk : Content]
    BY <1>2 DEF Working, Work
  <1>3. CASE Working
    BY <1>3 DEF Working, Work
  <1> QED BY <1>1, <1>2, <1>3 DEF OpTyped

LEMMA WorkIs ==
    ASSUME NEW who \in Actors, NEW e \in Entry \cup {None}, NEW sy \in BOOLEAN,
           NEW q \in {"backup", "clear", "write", "save"}, NEW o, o = [pc |-> q, who |-> who, entry |-> e, sync |-> sy]
    PROVE  o \in Work /\ o.pc = q /\ o.who = who /\ o.entry = e /\ (o.sync <=> sy)
  BY DEF Work

LEMMA WorkNext ==
    ASSUME NEW o \in Work, NEW q \in {"backup", "clear", "write", "save"}, NEW n, n = [o EXCEPT !.pc = q]
    PROVE  n \in Work /\ n.pc = q /\ n.who = o.who /\ n.entry = o.entry /\ (n.sync <=> o.sync)
  BY DEF Work

LEMMA KnownIs ==
    ASSUME Typed, NEW who \in Actors
    PROVE  /\ Known(who) # None => Known(who) \in Content
           /\ src # None => src \in Content
           /\ Pol(who) \in Policies \cup {None}
  BY DEF Typed, Known, Pol

\* What a plan depends on.
LEMMA PlanKept ==
    ASSUME NEW who, NEW e, UNCHANGED world, Plan(who, e)
    PROVE  Plan(who, e)'
  <1>1. kind' = kind /\ src' = src /\ reg' = reg /\ policy' = policy
    BY DEF world
  <1>2. Known(who)' = Known(who) /\ Pol(who)' = Pol(who)
    BY <1>1 DEF Known, Pol, Skill
  <1>3. PICK sk, p : sk = Known(who) /\ p = Pol(who)
    OBVIOUS
  <1>4. NeedsRewrite(p, sk.model)' <=> NeedsRewrite(p, sk.model)
    BY <1>1 DEF NeedsRewrite
  <1>5. Install(sk, p)' = Install(sk, p)
    <2>1. CASE kind = "rendered"
      BY <1>1, <2>1 DEF Install
    <2>2. CASE kind # "rendered" /\ NeedsRewrite(p, sk.model)
      BY <1>1, <1>4, <2>2 DEF Install
    <2>3. CASE kind # "rendered" /\ ~NeedsRewrite(p, sk.model)
      BY <1>1, <1>4, <2>3 DEF Install
    <2> QED BY <2>1, <2>2, <2>3
  <1>6. ASSUME NEW ch PROVE Wanted(sk, p, ch)' = Wanted(sk, p, ch)
    <2>1. CASE NeedsRewrite(p, sk.model)
      BY <1>1, <1>4, <1>5, <2>1 DEF Wanted, CopyEntry
    <2>2. CASE ~NeedsRewrite(p, sk.model)
      BY <1>1, <1>4, <1>5, <2>2 DEF Wanted, CopyEntry
    <2> QED BY <2>1, <2>2
  <1> QED BY <1>1, <1>2, <1>3, <1>6 DEF Plan

LEMMA FaithfulKept ==
    ASSUME NEW e, Faithful(e), kind' = kind, swallowed => swallowed'
    PROVE  Faithful(e)'
  BY DEF Faithful, Rendered

\* The status after a sync that wrote and saved its plan.
LEMMA PlanIsInSync ==
    \A who \in Actors : \A e :
        (Typed /\ Plan(who, e) /\ lock = e /\ dest = Image(e)) => (lock # None /\ statusFor(who) = "in-sync")
  <1> SUFFICES ASSUME NEW who \in Actors, NEW e, Typed, Plan(who, e), lock = e, dest = Image(e)
               PROVE  lock # None /\ statusFor(who) = "in-sync"
    OBVIOUS
  <1>1. PICK ch \in {"copy", "link"} : e = Wanted(Known(who), Pol(who), ch)
    BY DEF Plan
  <1>2. PICK sk, p : sk = Known(who) /\ p = Pol(who)
    OBVIOUS
  <1>3. sk \in Content /\ src \in Content /\ p \in Policies \cup {None}
    BY <1>2, KnownIs DEF Plan
  <1>4. /\ e \in Entry /\ e # None /\ Image(e) \in Content \cup {Linked} /\ Image(e) # None
        /\ (e.channel = "link" /\ ch = "link" /\ ~NeedsRewrite(p, sk.model)) \/ e = CopyEntry(sk, p, ch)
    BY <1>1, <1>2, <1>3, WantedIs
  <1>5. sk # None
    BY <1>3, ContentFields
  <1>6. CASE e.channel = "link"
    <2>1. ~NeedsRewrite(p, sk.model)
      BY <1>3, <1>4, <1>6, CopyEntryIs
    <2>2. dest = Linked
      BY <1>6 DEF Image
    <2>3. ~Drifted
      BY <1>4, <1>6, <2>2, DriftedIs
    <2> QED BY <1>2, <1>4, <1>5, <1>6, <2>1, <2>3 DEF statusFor
  <1>7. CASE e.channel # "link"
    <2>1. e = CopyEntry(sk, p, ch)
      BY <1>4, <1>7
    <2>2. e.tree = src /\ e.installed = Install(sk, p) /\ dest = e.installed
      BY <1>3, <1>7, <2>1, CopyEntryIs DEF Image
    <2>3. ~Drifted
      BY <1>4, <1>7, <2>2, DriftedIs
    <2> QED BY <1>2, <1>4, <1>5, <1>7, <2>2, <2>3 DEF statusFor
  <1> QED BY <1>6, <1>7

LEMMA PlanIsInSyncNext ==
    (\A who \in Actors : \A e :
        (Typed /\ Plan(who, e) /\ lock = e /\ dest = Image(e)) => (lock # None /\ statusFor(who) = "in-sync"))'
  BY PlanIsInSync, PTL

LEMMA PlanEntry ==
    ASSUME Typed, NEW who \in Actors, NEW e, Plan(who, e)
    PROVE  e # None
  <1>1. PICK ch \in {"copy", "link"} : e = Wanted(Known(who), Pol(who), ch)
    BY DEF Plan
  <1>2. Known(who) \in Content /\ src \in Content /\ Pol(who) \in Policies \cup {None}
    BY KnownIs DEF Plan
  <1> QED BY <1>1, <1>2, WantedIs

LEMMA UnchangedIs ==
    ASSUME NEW e \in Entry, Unchanged(e), ~Skill => e.channel = "copy"
    PROVE  dest = Image(e)
  BY DEF Unchanged, Image

\* An edit that is nowhere else is at the path, unless a copy was set aside.
LEMMA AtThePath ==
    ASSUME Typed, Edited, mine, op.pc # "write"
    PROVE  dest \in Content /\ dest # None /\ ~IsLink(dest) /\ dest = AtRisk /\ aside = None
  <1>1. aside = None
    BY DEF Typed
  <1>2. AtRisk \in Content
    BY DEF Edited
  <1> QED BY <1>1, <1>2, ContentFields DEF AtRisk

\* What the path is cleared of without a backup is nothing of the user's.
LEMMA NoBackup ==
    ASSUME Typed, Edited, mine, ~swallowed, op.pc # "write", NEW e, ~NeedsBackup(e)
    PROVE  ~Skill /\ dest # None /\ dest = e.installed
  <1>1. dest \in Content /\ dest # None /\ ~IsLink(dest) /\ dest = AtRisk
    BY AtThePath
  <1>2. ASSUME lock # None PROVE Drifted
    <2>1. dest # Linked /\ dest # lock.installed
      BY <1>1, <1>2, ContentFields DEF Edited
    <2> QED BY <1>1, <2>1, DriftedIs
  <1> QED BY <1>1, <1>2 DEF NeedsBackup

-----------------------------------------------------------------------------
(* An operation starts                                                     *)

LEMMA StartKeeps ==
    ASSUME ProjectionInv, op.pc \in {"idle", "adopted"},
           NEW who \in Actors, NEW e \in Entry \cup {None}, NEW sy \in BOOLEAN, NEW q \in {"backup", "clear", "save"},
           op' = [pc |-> q, who |-> who, entry |-> e, sync |-> sy],
           UNCHANGED world, UNCHANGED <<dest, lock, aside, staged, mine, lost, torn>>,
           raced' \in BOOLEAN, unseen' = FALSE, swallowed' \in BOOLEAN, swallowed => swallowed', settled' = None,
           Faithful(e)', (~torn /\ e # None) => Attributed(Image(e), e),
           (sy /\ ~raced') => Plan(who, e),
           q = "save" => /\ ~torn => Attributed(dest, e)
                         /\ (sy /\ ~raced') => dest = Image(e),
           (q = "clear" /\ mine /\ ~swallowed') =>
               (~Skill /\ e # None /\ dest # None /\ dest = e.installed)
    PROVE  ProjectionInv'
  <1> USE DEF ProjectionInv
  <1>1. kind' = kind /\ src' = src /\ reg' = reg /\ policy' = policy
    BY DEF world
  <1>2. op' \in Work /\ op'.pc = q /\ op'.who = who /\ op'.entry = e /\ (op'.sync <=> sy)
    BY WorkIs
  <1>3. aside = None /\ staged = None
    BY DEF Typed
  <1>4. Typed'
    BY <1>1, <1>2, <1>3 DEF Typed
  <1>5. OpTyped'
    BY <1>2 DEF OpTyped, Working
  <1>6. Entries'
    <2>1. Faithful(lock)'
      BY <1>1, FaithfulKept DEF Entries
    <2>2. Image(op.entry)' = Image(e)
      BY <1>2 DEF Image
    <2>3. (~torn /\ e # None) => Attributed(Image(op.entry), op.entry)'
      BY <1>2, <2>2 DEF Attributed
    <2>4. Faithful(op.entry)'
      BY <1>2 DEF Faithful, Rendered
    <2> QED BY <1>2, <2>1, <2>3, <2>4 DEF Entries
  <1>7. Adopting'
    BY <1>2 DEF Adopting
  <1>8. Edited'
    BY <1>1, <1>2 DEF Edited, AtRisk, Skill
  <1>9. Syncing'
    <2>1. ASSUME sy, ~raced' PROVE Plan(op.who, op.entry)'
      <3>1. Plan(who, e)'
        BY <2>1, PlanKept
      <3> QED BY <1>2, <3>1 DEF Plan, Known, Pol
    <2>2. Image(op.entry)' = Image(e)
      BY <1>2 DEF Image
    <2> QED BY <1>2, <2>1, <2>2 DEF Syncing
  <1>10. ModelsSound'
    BY <1>1, <1>2, <1>3 DEF ModelsSound, PolicyNotAdopted, Attributed
  <1>11. NothingLost' /\ SyncSettles' /\ Ready'
    BY <1>2 DEF NothingLost, SyncSettles, Ready
  <1> QED BY <1>4, <1>5, <1>6, <1>7, <1>8, <1>9, <1>10, <1>11

\* A sync refuses, or finds that there is nothing to do.
LEMMA IdleKeeps ==
    ASSUME ProjectionInv, op = Idle, op' = Idle,
           UNCHANGED world, UNCHANGED <<dest, lock, aside, staged, mine, lost, torn, swallowed>>,
           raced' = FALSE, unseen' = FALSE, settled' \in Actors \cup {None}, SyncSettles'
    PROVE  ProjectionInv'
  <1> USE DEF ProjectionInv
  <1>1. kind' = kind /\ src' = src /\ reg' = reg /\ policy' = policy
    BY DEF world
  <1>2. op.pc = "idle" /\ op'.pc = "idle" /\ op' = op
    BY DEF Idle
  <1>3. ~Working' /\ OpTyped'
    BY <1>2 DEF OpTyped, Working, Work
  <1>4. Typed' /\ Adopting' /\ NothingLost' /\ Ready'
    BY <1>1, <1>2 DEF Typed, Adopting, NothingLost, Ready
  <1>5. Entries'
    BY <1>1, <1>3, FaithfulKept DEF Entries
  <1>6. Edited'
    BY <1>1, <1>2 DEF Edited, AtRisk, Skill
  <1>7. Syncing'
    BY <1>2, <1>3 DEF Syncing, Running
  <1>8. ModelsSound'
    BY <1>1, <1>2 DEF ModelsSound, PolicyNotAdopted, Attributed
  <1> QED BY <1>3, <1>4, <1>5, <1>6, <1>7, <1>8

\* A sync that leaves a rewritten copy alone has found it as it was recorded.
LEMMA PreservedIs ==
    ASSUME NEW who, NEW force, Known(who) # None, ~Refuses(force), Preserved(Pol(who)), ~force
    PROVE  lock # None /\ statusFor(who) \in {"in-sync", "stale"}
  <1>1. lock # None /\ dest # None /\ ~Drifted
    BY DEF Refuses, Preserved
  <1>2. CASE lock.channel = "link"
    BY <1>1, <1>2 DEF statusFor
  <1>3. CASE lock.channel # "link"
    BY <1>1, <1>3 DEF statusFor
  <1> QED BY <1>1, <1>2, <1>3

LEMMA StatusKept ==
    ASSUME NEW who, UNCHANGED world, UNCHANGED <<dest, lock>>
    PROVE  statusFor(who)' = statusFor(who) /\ Preserved(Pol(who))' = Preserved(Pol(who)) /\ lock' = lock
  BY DEF world, statusFor, Preserved, IsLink, Known, Pol, Skill, Drifted, NeedsRewrite, Install, Resolve

\* A sync that has something to do starts with what its actor wants.
LEMMA MaterializeKeeps ==
    ASSUME ProjectionInv, op = Idle, NEW who \in Actors, Known(who) # None, src # None,
           NEW ch \in {"copy", "link"}, ch = "link" => kind = "skill", NEW force,
           Materialize(who, Known(who), ch, force),
           UNCHANGED world, UNCHANGED <<dest, lock, aside, staged, mine, lost, torn, swallowed>>
    PROVE  ProjectionInv'
  <1>1. CASE Refuses(force)
    <2>1. op' = Idle /\ raced' = FALSE /\ unseen' = FALSE /\ settled' = None
      BY <1>1 DEF Materialize, Begin
    <2>2. SyncSettles'
      BY <2>1 DEF SyncSettles
    <2> QED BY <2>1, <2>2, IdleKeeps
  <1>2. CASE ~Refuses(force) /\ Preserved(Pol(who)) /\ ~force
    <2>1. op' = Idle /\ raced' = FALSE /\ unseen' = FALSE /\ settled' = who
      BY <1>2 DEF Materialize
    <2>2. lock # None /\ statusFor(who) \in {"in-sync", "stale"}
      BY <1>2, PreservedIs
    <2>3. /\ statusFor(who)' = statusFor(who) /\ Preserved(Pol(who))' /\ lock' = lock
      BY <1>2, StatusKept
    <2>4. SyncSettles'
      BY <2>1, <2>2, <2>3 DEF SyncSettles, statusFor, Known, Pol, Preserved
    <2> QED BY <2>1, <2>4, IdleKeeps
  <1>3. CASE ~Refuses(force) /\ ~(Preserved(Pol(who)) /\ ~force)
    <2> USE DEF ProjectionInv
    <2>1. PICK e : e = Wanted(Known(who), Pol(who), ch)
      OBVIOUS
    <2>2. PICK q : q = CASE Unchanged(e) -> "save" [] ~Unchanged(e) /\ NeedsBackup(e) -> "backup" [] OTHER -> "clear"
      OBVIOUS
    <2>3. /\ op' = [pc |-> q, who |-> who, entry |-> e, sync |-> TRUE]
          /\ raced' = FALSE /\ unseen' = FALSE /\ settled' = None
      BY <1>3, <2>1, <2>2 DEF Materialize, Begin
    <2>4. /\ q \in {"backup", "clear", "save"}
          /\ q = "save" => Unchanged(e)
          /\ q = "clear" => ~NeedsBackup(e)
      BY <2>2
    <2>5. Known(who) \in Content /\ src \in Content /\ Pol(who) \in Policies \cup {None}
      BY KnownIs
    <2>6. /\ e \in Entry /\ e # None /\ Faithful(e)
          /\ ch = "copy" => e.channel = "copy"
          /\ src.model \notin PolicyModels => Attributed(Image(e), e)
      BY <2>1, <2>5, WantedIs
    <2>7. ~torn => Attributed(Image(e), e)
      BY <2>6 DEF ModelsSound, PolicyNotAdopted
    <2>8. Plan(who, e)
      BY <2>1 DEF Plan
    <2>9. q = "save" => dest = Image(e)
      BY <2>4, <2>6, UnchangedIs DEF Skill
    <2>10. (q = "clear" /\ mine /\ ~swallowed) => (~Skill /\ dest # None /\ dest = e.installed)
      BY <2>4, NoBackup DEF Idle
    <2>11. Faithful(e)'
      BY <2>6, FaithfulKept DEF world
    <2>12. op.pc = "idle" /\ swallowed' \in BOOLEAN /\ raced' \in BOOLEAN /\ (swallowed => swallowed')
      BY <2>3 DEF Idle, Typed
    <2> QED BY <2>3, <2>4, <2>6, <2>7, <2>8, <2>9, <2>10, <2>11, <2>12, StartKeeps
  <1> QED BY <1>1, <1>2, <1>3

LEMMA SyncKeeps ==
    ASSUME ProjectionInv, NEW who \in Actors,
           (\E copy, force \in BOOLEAN : SyncNamed(who, copy, force)) \/ SyncRecorded(who)
    PROVE  ProjectionInv'
  <1>1. ASSUME ~Running PROVE op = Idle
    BY <1>1 DEF ProjectionInv, OpTyped, Running, Working, Work
  <1>2. ASSUME NEW c PROVE Channel(c) \in {"copy", "link"} /\ (Channel(c) = "link" => kind = "skill")
    BY DEF Channel
  <1>3. ASSUME NEW copy \in BOOLEAN, NEW force \in BOOLEAN, SyncNamed(who, copy, force)
        PROVE  ProjectionInv'
    <2>1. PICK ch : ch = Channel(copy)
      OBVIOUS
    <2> QED BY <1>1, <1>2, <1>3, <2>1, MaterializeKeeps DEF SyncNamed
  <1>4. CASE SyncRecorded(who)
    <2>1. PICK c : c = (lock.channel = "copy" /\ ~lock.reason)
      OBVIOUS
    <2>2. PICK ch : ch = Channel(c)
      OBVIOUS
    <2>3. PICK force : force = FALSE
      OBVIOUS
    <2>4. Materialize(who, Known(who), ch, force)
      BY <1>4, <2>1, <2>2, <2>3 DEF SyncRecorded
    <2>5. /\ op = Idle /\ Known(who) # None /\ src # None
          /\ UNCHANGED world /\ UNCHANGED <<dest, lock, aside, staged, mine, lost, torn, swallowed>>
      BY <1>1, <1>4 DEF SyncRecorded
    <2>6. ch \in {"copy", "link"} /\ (ch = "link" => kind = "skill")
      BY <1>2, <2>2
    <2> QED BY <2>4, <2>5, <2>6, MaterializeKeeps
  <1> QED BY <1>3, <1>4

LEMMA RemoveKeeps ==
    ASSUME ProjectionInv, NEW who \in Actors, NEW gone \in BOOLEAN, Remove(who, gone)
    PROVE  ProjectionInv'
  <1> USE DEF ProjectionInv
  <1>1. op.pc = "idle"
    BY DEF Remove, Running
  <1>2. PICK q : q = CASE dest = None -> "save" [] IsLink(dest) -> "clear" [] OTHER -> "backup"
    OBVIOUS
  <1>3. op' = [pc |-> q, who |-> who, entry |-> None, sync |-> FALSE] /\ raced' = FALSE /\ unseen' = FALSE /\ settled' = None
    BY <1>2 DEF Remove, Begin
  <1>4. q \in {"backup", "clear", "save"} /\ (q = "save" => dest = None) /\ (q = "clear" => IsLink(dest))
    BY <1>2, ProjectionAssumption DEF IsLink
  <1>5. Faithful(None)'
    BY DEF Faithful
  <1>6. q = "save" => Attributed(dest, None)
    BY <1>4, ContentFields DEF Attributed
  <1>7. ~(q = "clear" /\ mine)
    BY <1>1, <1>4, AtThePath
  <1>8. swallowed' \in BOOLEAN /\ raced' \in BOOLEAN /\ (swallowed => swallowed')
    BY <1>3 DEF Typed, Remove
  <1>9. UNCHANGED world /\ UNCHANGED <<dest, lock, aside, staged, mine, lost, torn>>
    BY DEF Remove
  <1>10. PICK e \in Entry \cup {None}, sy \in BOOLEAN : e = None /\ sy = FALSE
    OBVIOUS
  <1> QED BY <1>1, <1>3, <1>4, <1>5, <1>6, <1>7, <1>8, <1>9, <1>10, StartKeeps

-----------------------------------------------------------------------------
(* An adopt                                                                *)

LEMMA RestoredIs ==
    ASSUME dest \in Content, src \in Content
    PROVE  /\ Restored \in Content /\ Restored.model \in {dest.model, src.model}
           /\ (lock.modelValue # None /\ dest.model = lock.modelValue) => Restored.model = src.model
  <1>1. src.model \in Models
    BY ContentFields
  <1>2. CASE lock.modelValue # None /\ dest.model = lock.modelValue
    <2>1. Restored = [dest EXCEPT !.model = src.model]
      BY <1>2 DEF Restored
    <2> QED BY <1>1, <2>1, WithModel
  <1>3. CASE ~(lock.modelValue # None /\ dest.model = lock.modelValue)
    BY <1>3 DEF Restored
  <1> QED BY <1>2, <1>3

LEMMA AdoptKeeps ==
    ASSUME ProjectionInv, NEW who \in Actors, Adopt(who)
    PROVE  ProjectionInv'
  <1> USE DEF ProjectionInv
  <1>1. op.pc = "idle" /\ aside = None /\ staged = None
    BY DEF Adopt, Running, Typed
  <1>2. dest \in Content /\ src \in Content /\ Known(who) \in Content
    BY KnownIs DEF Adopt, IsLink, Typed
  <1>3. src' \in Content /\ (~torn => src'.model \notin PolicyModels)
    <2>1. (~torn /\ dest.model \in PolicyModels) => (lock.modelValue # None /\ dest.model = lock.modelValue)
      BY <1>1, <1>2, ProjectionAssumption DEF ModelsSound, Attributed
    <2>2. ~torn => src.model \notin PolicyModels
      BY <1>2, ContentFields DEF ModelsSound, PolicyNotAdopted
    <2> QED BY <1>2, <2>1, <2>2, RestoredIs DEF Adopt
  <1>4. PICK sk : sk = Known(who)
    OBVIOUS
  <1>5. op' = [pc |-> "adopted", who |-> who, sk |-> sk] /\ raced' = FALSE /\ unseen' = FALSE /\ settled' = None
    BY <1>4 DEF Adopt, Begin
  <1>6. op' \in [pc : {"adopted"}, who : Actors, sk : Content] /\ op'.pc = "adopted"
    BY <1>2, <1>4, <1>5
  <1>7. ~Working' /\ OpTyped'
    BY <1>6 DEF OpTyped, Working, Work
  <1>8. Typed'
    BY <1>1, <1>3, <1>5 DEF Adopt, Typed
  <1>9. Entries'
    BY <1>7, FaithfulKept DEF Adopt, Entries
  <1>10. Adopting' /\ Edited'
    BY <1>2, ContentFields DEF Adopt, Adopting, Edited
  <1>11. Syncing'
    BY <1>5, <1>7 DEF Syncing
  <1>12. ModelsSound'
    BY <1>1, <1>3, <1>6 DEF Adopt, ModelsSound, PolicyNotAdopted, Attributed
  <1>13. NothingLost' /\ SyncSettles' /\ Ready'
    BY <1>5, <1>6 DEF Adopt, NothingLost, SyncSettles, Ready
  <1> QED BY <1>7, <1>8, <1>9, <1>10, <1>11, <1>12, <1>13

LEMMA AdoptRecords ==
    ASSUME ProjectionInv, AdoptResyncs, lock.modelValue # None
    PROVE  ProjectionInv'
  <1> USE DEF ProjectionInv
  <1>1. op.pc = "adopted" /\ src \in Content /\ dest # None /\ dest # Linked /\ op.who \in Actors
    BY OpCases DEF AdoptResyncs, Typed, Adopting
  <1>2. lock \in Entry /\ lock.channel = "copy" /\ kind # "rendered" /\ (~unseen => dest \in Content)
    BY <1>1 DEF Adopting, Typed
  <1>3. dest \in Content \cup {None, Elsewhere}
    BY <1>1 DEF Typed
  <1>4. PICK v : v = IF dest = src THEN None ELSE lock.modelValue
    OBVIOUS
  <1>5. v \in PolicyModels \cup {None} /\ lock.modelValue \in PolicyModels \cup {None}
    BY <1>2, <1>4, EntryFields
  <1>6. PICK e : e = [lock EXCEPT !.tree = src, !.installed = dest, !.modelValue = v]
    OBVIOUS
  <1>7. /\ e \in Entry /\ e.channel = "copy" /\ e.tree = src /\ e.installed = dest /\ e.modelValue = v
    BY <1>1, <1>2, <1>3, <1>5, <1>6 DEF Entry
  <1>8. PICK sy \in BOOLEAN, who \in Actors : sy = FALSE /\ who = op.who
    BY <1>1
  <1>9. op' = [pc |-> "save", who |-> who, entry |-> e, sync |-> sy]
    BY <1>4, <1>6, <1>8 DEF AdoptResyncs
  <1>10. /\ UNCHANGED world /\ UNCHANGED <<dest, lock, aside, staged, mine, lost, torn>>
         /\ raced' = raced /\ settled' = settled /\ unseen' = FALSE /\ swallowed' = (swallowed \/ unseen)
    BY DEF AdoptResyncs
  <1>11. raced' \in BOOLEAN /\ swallowed' \in BOOLEAN /\ (swallowed => swallowed') /\ settled' = None
    BY <1>1, <1>10 DEF Typed, Syncing, Running
  <1>12. Faithful(e)'
    <2>1. kind' = kind
      BY <1>10 DEF world
    <2>2. ~swallowed' => dest \in Content
      BY <1>2, <1>10
    <2>3. v = None => dest = src
      BY <1>4
    <2> QED BY <1>1, <1>2, <1>7, <2>1, <2>2, <2>3 DEF Faithful, Rendered
  <1>13. ~torn => Attributed(dest, e)
    <2>1. ~torn => (Attributed(dest, lock) /\ src.model \notin PolicyModels)
      BY <1>1, ContentFields DEF ModelsSound, PolicyNotAdopted
    <2> QED BY <1>4, <1>7, <2>1, EntryFields DEF Attributed
  <1>14. Image(e) = dest
    BY <1>7 DEF Image
  <1> QED BY <1>1, <1>7, <1>8, <1>9, <1>10, <1>11, <1>12, <1>13, <1>14, StartKeeps

LEMMA AdoptMaterializes ==
    ASSUME ProjectionInv, AdoptResyncs, lock.modelValue = None
    PROVE  ProjectionInv'
  <1> USE DEF ProjectionInv
  <1>1. op.pc = "adopted" /\ src \in Content /\ op.who \in Actors /\ op.sk \in Content
    BY OpCases DEF AdoptResyncs, Typed
  <1>2. PICK sk \in Content : sk = IF Skill THEN op.sk ELSE src
    BY <1>1
  <1>3. PICK who \in Actors, sy \in BOOLEAN : who = op.who /\ sy = FALSE
    BY <1>1
  <1>4. PICK e : e = Wanted(sk, Pol(who), "copy")
    OBVIOUS
  <1>5. Pol(who) \in Policies \cup {None}
    BY KnownIs
  <1>6. /\ e \in Entry /\ e # None /\ Faithful(e) /\ e.channel = "copy"
        /\ src.model \notin PolicyModels => Attributed(Image(e), e)
    BY <1>1, <1>4, <1>5, WantedIs
  <1>7. ~torn => Attributed(Image(e), e)
    BY <1>1, <1>6, ContentFields DEF ModelsSound, PolicyNotAdopted
  <1>8. PICK q : q = CASE Unchanged(e) -> "save" [] ~Unchanged(e) /\ NeedsBackup(e) -> "backup" [] OTHER -> "clear"
    OBVIOUS
  <1>9. /\ q \in {"backup", "clear", "save"} /\ (q = "save" => Unchanged(e))
        /\ q = "clear" => ~NeedsBackup(e)
    BY <1>8
  <1>10. op' = [pc |-> q, who |-> who, entry |-> e, sync |-> sy]
    BY <1>2, <1>3, <1>4, <1>8 DEF AdoptResyncs
  <1>11. /\ UNCHANGED world /\ UNCHANGED <<dest, lock, aside, staged, mine, lost, torn>>
         /\ raced' = raced /\ settled' = settled /\ unseen' = FALSE /\ swallowed' = swallowed
    BY DEF AdoptResyncs
  <1>12. raced' \in BOOLEAN /\ swallowed' \in BOOLEAN /\ (swallowed => swallowed') /\ settled' = None
    BY <1>1, <1>11 DEF Typed, Syncing, Running
  <1>13. q = "save" => dest = Image(e)
    BY <1>6, <1>9, UnchangedIs
  <1>14. (q = "clear" /\ mine /\ ~swallowed) => (~Skill /\ dest # None /\ dest = e.installed)
    BY <1>1, <1>9, NoBackup
  <1>15. Faithful(e)'
    BY <1>6, <1>11, FaithfulKept DEF world
  <1> QED BY <1>1, <1>3, <1>6, <1>7, <1>9, <1>10, <1>11, <1>12, <1>13, <1>14, <1>15, StartKeeps

-----------------------------------------------------------------------------
(* An operation goes on                                                    *)

\* What the steps of an operation share: it keeps its plan.
LEMMA WorkKeeps ==
    ASSUME ProjectionInv, Working, NEW q \in {"clear", "write", "save"}, op' = [op EXCEPT !.pc = q],
           q = "write" => op.entry # None,
           UNCHANGED world, UNCHANGED <<lock, raced, torn, settled, swallowed>>
    PROVE  /\ op' \in Work /\ op'.pc = q /\ op'.entry = op.entry /\ (op'.sync <=> op.sync)
           /\ OpTyped' /\ Entries' /\ Adopting' /\ settled = None /\ SyncSettles'
           /\ Working' /\ Image(op.entry)' = Image(op.entry)
           /\ (op.sync /\ ~raced) => (op.entry # None /\ Plan(op.who, op.entry)')
  <1> USE DEF ProjectionInv
  <1>1. op' \in Work /\ op'.pc = q /\ op'.who = op.who /\ op'.entry = op.entry /\ (op'.sync <=> op.sync)
    BY WorkNext DEF Working
  <1>2. OpTyped' /\ Working'
    BY <1>1 DEF OpTyped, Working
  <1>3. settled = None
    BY OpCases DEF Syncing, Running
  <1>4. Entries'
    <2>1. kind' = kind /\ (swallowed => swallowed') /\ lock' = lock /\ (torn' <=> torn)
      BY DEF world
    <2>2. Faithful(lock)' /\ Faithful(op.entry)'
      BY <1>1, <2>1, FaithfulKept DEF Entries, Faithful, Rendered
    <2>3. (~torn /\ op.entry # None) => Attributed(Image(op.entry), op.entry)'
      BY <1>1 DEF Attributed, Image, Entries
    <2> QED BY <1>1, <2>1, <2>2, <2>3 DEF Entries
  <1>5. Adopting'
    BY <1>1 DEF Adopting
  <1>6. SyncSettles'
    BY <1>3 DEF SyncSettles
  <1>7. ASSUME op.sync, ~raced PROVE op.entry # None /\ Plan(op.who, op.entry)'
    <2>1. Plan(op.who, op.entry) /\ op.who \in Actors
      BY <1>7, OpCases DEF Syncing
    <2>2. PICK who \in Actors, e \in {op.entry} : who = op.who
      BY <2>1
    <2>3. Plan(who, e)
      BY <2>1, <2>2
    <2>4. Plan(who, e)' /\ e # None
      BY <2>3, PlanKept, PlanEntry
    <2> QED BY <1>1, <2>2, <2>4 DEF Plan, Known, Pol
  <1>8. Image(op.entry)' = Image(op.entry)
    BY <1>1 DEF Image
  <1> QED BY <1>1, <1>2, <1>3, <1>4, <1>5, <1>6, <1>7, <1>8

LEMMA BackupKeeps ==
    ASSUME ProjectionInv, Backup
    PROVE  ProjectionInv'
  <1> USE DEF ProjectionInv
  <1>1. Working /\ op.pc = "backup"
    BY OpCases DEF Backup
  <1>2. /\ mine' = FALSE /\ unseen' = FALSE /\ UNCHANGED world /\ UNCHANGED <<dest, lock, aside, staged, lost, raced, torn, settled, swallowed>>
        /\ op' = [op EXCEPT !.pc = "clear"]
    BY DEF Backup
  <1>3. /\ op'.pc = "clear" /\ OpTyped' /\ Entries' /\ Adopting' /\ settled = None /\ SyncSettles'
        /\ (op.sync /\ ~raced) => Plan(op.who, op.entry)'
        /\ (op'.sync <=> op.sync)
    BY <1>1, <1>2, WorkKeeps
  <1>4. kind' = kind /\ src' = src /\ reg' = reg /\ policy' = policy
    BY <1>2 DEF world
  <1>5. Typed' /\ Edited' /\ NothingLost' /\ Ready'
    BY <1>1, <1>2, <1>3, <1>4 DEF Typed, Edited, NothingLost, Ready
  <1>6. Syncing'
    BY <1>2, <1>3 DEF Syncing
  <1>7. ModelsSound'
    BY <1>1, <1>2, <1>3, <1>4 DEF ModelsSound, PolicyNotAdopted, Attributed
  <1> QED BY <1>3, <1>5, <1>6, <1>7

\* If nothing else moved, the directory read again is what the sync wants.
LEMMA StagedIs ==
    ASSUME Typed, OpTyped, Working, op.entry # None
    PROVE  /\ ~Reread => Staged = Image(op.entry)
           /\ Reread => (Staged = src /\ Skill)
           /\ (Reread /\ Plan(op.who, op.entry)) => Staged = Image(op.entry)
           /\ Staged \in Content \cup {None, Linked, Elsewhere}
  <1>1. ~Reread => Staged = Image(op.entry)
    BY DEF Staged
  <1>2. Reread => (Staged = src /\ Skill)
    BY DEF Staged, Reread
  <1>3. ASSUME Reread, Plan(op.who, op.entry) PROVE Staged = Image(op.entry)
    <2>1. PICK who \in Actors, e \in {op.entry} : who = op.who
      BY OpCases
    <2>2. PICK ch \in {"copy", "link"} : e = Wanted(Known(who), Pol(who), ch)
      BY <1>3, <2>1 DEF Plan
    <2>3. PICK sk, p : sk = Known(who) /\ p = Pol(who)
      OBVIOUS
    <2>4. sk \in Content /\ src \in Content /\ p \in Policies \cup {None}
      BY <1>3, <2>1, <2>3, KnownIs DEF Plan
    <2>5. e.channel = "copy" /\ e.modelValue = None /\ kind # "rendered"
      BY <1>3, <2>1 DEF Reread, Skill
    <2>6. e = CopyEntry(sk, p, ch)
      BY <2>2, <2>3, <2>4, <2>5, WantedIs
    <2>7. e.installed = Install(sk, p) /\ ~NeedsRewrite(p, sk.model)
      BY <2>4, <2>5, <2>6, CopyEntryIs, RewriteIs
    <2>8. e.installed = src
      BY <2>4, <2>5, <2>7, InstallIs DEF Rendered
    <2> QED BY <1>2, <1>3, <2>1, <2>5, <2>8 DEF Image
  <1>4. Image(op.entry) \in Content \cup {None, Linked, Elsewhere}
    BY OpCases, EntryFields DEF Image
  <1>5. src \in Content \cup {None}
    BY DEF Typed
  <1> QED BY <1>1, <1>2, <1>3, <1>4, <1>5

LEMMA ClearKeeps ==
    ASSUME ProjectionInv, Clear
    PROVE  ProjectionInv'
  <1> USE DEF ProjectionInv
  <1>1. Working /\ op.pc = "clear" /\ aside = None /\ staged = None
    BY OpCases DEF Clear, Typed
  <1>2. PICK q : q = IF op.entry = None THEN "save" ELSE "write"
    OBVIOUS
  <1>3. /\ op' = [op EXCEPT !.pc = q] /\ q \in {"clear", "write", "save"}
        /\ q = "write" <=> op.entry # None
        /\ UNCHANGED world /\ UNCHANGED <<lock, raced, unseen, torn, settled, swallowed>>
        /\ IF q = "write" THEN Staged # None /\ staged' = Staged ELSE staged' = staged
    BY <1>2 DEF Clear
  <1>4. /\ op'.pc = q /\ op'.entry = op.entry /\ (op'.sync <=> op.sync)
        /\ OpTyped' /\ Entries' /\ Adopting' /\ settled = None /\ SyncSettles'
        /\ (op.sync /\ ~raced) => (op.entry # None /\ Plan(op.who, op.entry)') /\ Image(op.entry)' = Image(op.entry)
    BY <1>1, <1>3, WorkKeeps
  <1>5. kind' = kind /\ src' = src /\ reg' = reg /\ policy' = policy
    BY <1>3 DEF world
  <1>6. q = "save" => op.entry = None
    BY <1>2
  <1>7. Syncing'
    BY <1>3, <1>4, <1>6 DEF Syncing
  <1>12. Ready'
    <2>1. CASE q # "write"
      BY <1>4, <2>1 DEF Ready
    <2>2. CASE q = "write"
      <3>1. op.entry # None /\ staged' = Staged /\ Staged # None
        BY <1>3, <2>2
      <3>2. (~Skill \/ (op.sync /\ ~raced)) => Staged = Image(op.entry)
        BY <1>1, <3>1, StagedIs DEF Syncing
      <3>3. ~torn => Attributed(Staged, op.entry)
        <4>1. CASE Reread
          <5>1. Staged = src
            BY <1>1, <3>1, <4>1, StagedIs
          <5>2. ~torn => src.model \notin PolicyModels
            BY <3>1, <5>1 DEF ModelsSound, PolicyNotAdopted
          <5> QED BY <5>1, <5>2 DEF Attributed
        <4>2. CASE ~Reread
          BY <1>1, <3>1, <4>2, StagedIs DEF Entries
        <4> QED BY <4>1, <4>2
      <3>4. PICK d : d = Staged
        OBVIOUS
      <3> QED BY <1>3, <1>4, <1>5, <3>1, <3>2, <3>3, <3>4 DEF Ready, Attributed, Skill
    <2> QED BY <2>1, <2>2
  <1>13. staged' \in Content \cup {None, Linked, Elsewhere} /\ (staged' # None => op'.pc = "write")
    BY <1>1, <1>3, <1>4, StagedIs, ProjectionAssumption
  <1>8. \/ Replaced /\ UNCHANGED <<dest, aside, mine, lost>>
        \/ ~Replaced /\ SwappedOut /\ dest' = None /\ aside' = dest /\ UNCHANGED <<mine, lost>>
        \/ ~Replaced /\ ~SwappedOut /\ Destroys(None) /\ UNCHANGED aside
    BY DEF Clear
  <1>9. CASE Replaced /\ UNCHANGED <<dest, aside, mine, lost>>
    <2>1. Typed' /\ NothingLost'
      BY <1>1, <1>3, <1>4, <1>5, <1>9, <1>13 DEF Typed, NothingLost
    <2>2. Edited'
      BY <1>1, <1>3, <1>4, <1>5, <1>9 DEF Edited, AtRisk, Skill
    <2>3. q # "save"
      BY <1>3, <1>6, <1>9 DEF Replaced
    <2>4. ModelsSound'
      BY <1>1, <1>3, <1>4, <1>5, <1>9, <2>3 DEF ModelsSound, PolicyNotAdopted, Attributed
    <2> QED BY <1>4, <1>7, <1>12, <2>1, <2>2, <2>4
  <1>10. CASE ~Replaced /\ SwappedOut /\ dest' = None /\ aside' = dest /\ UNCHANGED <<mine, lost>>
    <2>1. q = "write"
      BY <1>3, <1>10 DEF SwappedOut
    <2>2. Typed' /\ NothingLost'
      BY <1>1, <1>3, <1>4, <1>5, <1>10, <1>13, <2>1 DEF Typed, NothingLost
    <2>3. Edited'
      <3>1. ASSUME mine PROVE dest = AtRisk /\ (~unseen /\ ~swallowed => Replaced)
        BY <1>1, <1>10, <3>1, AtThePath DEF Edited, Replaced
      <3>2. AtRisk' = dest
        BY <1>10 DEF AtRisk
      <3> QED BY <1>3, <1>4, <1>10, <2>1, <3>1, <3>2 DEF Edited
    <2>4. ModelsSound'
      BY <1>1, <1>3, <1>4, <1>5, <1>10, <2>1, ProjectionAssumption DEF ModelsSound, PolicyNotAdopted, Attributed
    <2> QED BY <1>4, <1>7, <1>12, <2>2, <2>3, <2>4
  <1>11. CASE ~Replaced /\ ~SwappedOut /\ Destroys(None) /\ UNCHANGED aside
    <2>1. dest' = None /\ mine' = FALSE /\ aside' = None
      BY <1>1, <1>11 DEF Destroys
    <2>2. (mine /\ ~unseen) => swallowed
      BY <1>1, <1>11 DEF Edited, Replaced
    <2>3. NothingLost' /\ lost' \in BOOLEAN
      BY <1>3, <1>11, <2>2 DEF NothingLost, Destroys, Typed
    <2>4. Typed' /\ Edited'
      BY <1>3, <1>5, <1>13, <2>1, <2>3 DEF Typed, Edited
    <2>5. ModelsSound'
      BY <1>1, <1>3, <1>5, <2>1, ProjectionAssumption DEF ModelsSound, PolicyNotAdopted, Attributed
    <2> QED BY <1>4, <1>7, <1>12, <2>3, <2>4, <2>5
  <1> QED BY <1>8, <1>9, <1>10, <1>11

LEMMA WriteKeeps ==
    ASSUME ProjectionInv, Write
    PROVE  ProjectionInv'
  <1> USE DEF ProjectionInv
  <1>1. /\ Working /\ op.pc = "write" /\ (dest = None \/ Replaced)
        /\ Destroys(staged) /\ staged' = None /\ aside' = None /\ op' = [op EXCEPT !.pc = "save"]
        /\ UNCHANGED world /\ UNCHANGED <<lock, raced, unseen, torn, settled, swallowed>>
    BY OpCases DEF Write
  <1>2. op.entry \in Entry /\ op.entry # None /\ Faithful(op.entry)
    BY <1>1, OpCases, EntryFields DEF Entries
  <1>3. PICK d : d = staged
    OBVIOUS
  <1>4. d \in Content \cup {None, Linked, Elsewhere}
    BY <1>3 DEF Typed
  <1>5. /\ op'.pc = "save" /\ op'.entry = op.entry /\ (op'.sync <=> op.sync)
        /\ OpTyped' /\ Entries' /\ Adopting' /\ settled = None /\ SyncSettles' /\ Image(op.entry)' = Image(op.entry)
        /\ (op.sync /\ ~raced) => Plan(op.who, op.entry)'
    BY <1>1, <1>3, WorkKeeps
  <1>6. kind' = kind /\ src' = src /\ reg' = reg /\ policy' = policy
    BY <1>1 DEF world
  <1>7. dest' = d /\ mine' = FALSE /\ lost' = (lost \/ (mine /\ ~unseen /\ d \notin {dest, aside} \ {None}))
    BY <1>1, <1>3 DEF Destroys
  <1>8. NothingLost'
    <2>1. ASSUME mine, ~unseen, ~swallowed PROVE d \in {dest, aside} \ {None}
      <3>1. ~Skill /\ dest # None /\ dest = op.entry.installed
        BY <1>1, <2>1 DEF Edited
      <3>2. op.entry.channel # "link"
        BY <1>2, <3>1 DEF Faithful, Skill
      <3> QED BY <1>1, <1>3, <3>1, <3>2 DEF Image, Ready
    <2> QED BY <1>1, <1>7, <2>1 DEF NothingLost
  <1>9. Typed'
    BY <1>1, <1>4, <1>6, <1>7 DEF Typed
  <1>10. Edited' /\ Ready'
    BY <1>5, <1>7 DEF Edited, Ready
  <1>11. Syncing'
    <2>1. (op.sync /\ ~raced) => d = Image(op.entry)
      BY <1>1, <1>3 DEF Ready
    <2> QED BY <1>1, <1>5, <1>7, <2>1 DEF Syncing
  <1>12. ModelsSound'
    <2>1. ~torn => Attributed(d, op.entry)
      BY <1>1, <1>3 DEF Ready
    <2> QED BY <1>1, <1>5, <1>6, <1>7, <2>1 DEF ModelsSound, PolicyNotAdopted, Attributed
  <1> QED BY <1>5, <1>8, <1>9, <1>10, <1>11, <1>12

LEMMA SaveKeeps ==
    ASSUME ProjectionInv, Save
    PROVE  ProjectionInv'
  <1> USE DEF ProjectionInv
  <1>1. /\ Working /\ op.pc = "save" /\ aside = None /\ staged = None /\ op.entry \in Entry \cup {None} /\ op.who \in Actors
        /\ lock' = op.entry /\ op' = Idle /\ raced' = FALSE /\ unseen' = FALSE
        /\ UNCHANGED world /\ UNCHANGED <<dest, aside, staged, lost, torn, swallowed>>
        /\ mine' = (mine /\ ((op.entry # None /\ dest = op.entry.installed) => swallowed))
        /\ settled' = IF op.sync /\ ~raced THEN op.who ELSE None
    BY OpCases DEF Save, Typed
  <1>2. kind' = kind /\ src' = src /\ reg' = reg /\ policy' = policy
    BY <1>1 DEF world
  <1>3. op'.pc = "idle" /\ ~Working' /\ OpTyped'
    BY <1>1 DEF Idle, OpTyped, Working, Work
  <1>4. Typed' /\ Adopting' /\ NothingLost' /\ Ready'
    BY <1>1, <1>2, <1>3 DEF Typed, Adopting, NothingLost, Ready
  <1>5. Entries'
    <2>1. Faithful(op.entry)
      BY <1>1 DEF Entries
    <2>2. PICK e : e = op.entry
      OBVIOUS
    <2>3. Faithful(e)'
      BY <1>1, <1>2, <2>1, <2>2, FaithfulKept
    <2> QED BY <1>1, <1>3, <2>2, <2>3 DEF Entries, Faithful, Rendered
  <1>6. Edited'
    <2>1. ASSUME mine PROVE dest = AtRisk /\ AtRisk' = AtRisk /\ dest \in Content
      BY <1>1, <2>1, AtThePath DEF AtRisk
    <2> QED BY <1>1, <1>3, <2>1 DEF Edited
  <1>7. Syncing'
    BY <1>3 DEF Syncing, Running
  <1>8. ModelsSound'
    BY <1>1, <1>2, <1>3, ProjectionAssumption DEF ModelsSound, PolicyNotAdopted, Attributed
  <1>9. SyncSettles'
    <2>1. CASE ~(op.sync /\ ~raced)
      BY <1>1, <2>1 DEF SyncSettles
    <2>2. CASE op.sync /\ ~raced
      <3>1. PICK who \in Actors, e \in {op.entry} : who = op.who
        BY <1>1
      <3>2. Plan(who, e) /\ dest = Image(e)
        BY <1>1, <2>2, <3>1 DEF Syncing
      <3>3. Plan(who, e)' /\ lock' = e /\ dest' = Image(e)' /\ settled' = who
        BY <1>1, <2>2, <3>1, <3>2, PlanKept DEF Image
      <3>4. lock' # None /\ statusFor(who)' = "in-sync"
        BY <1>4, <3>3, PlanIsInSyncNext
      <3> QED BY <3>3, <3>4 DEF SyncSettles, statusFor, Known, Pol
    <2> QED BY <2>1, <2>2
  <1> QED BY <1>3, <1>4, <1>5, <1>6, <1>7, <1>8, <1>9

\* An operation that fails, or whose process ends, between its write and its
\* save is torn.
LEMMA EndKeeps ==
    ASSUME ProjectionInv, Fail \/ Crash
    PROVE  ProjectionInv'
  <1> USE DEF ProjectionInv
  <1>1. /\ Running /\ op' = Idle /\ raced' = FALSE /\ unseen' = FALSE /\ aside' = None /\ staged' = None
        /\ UNCHANGED world /\ UNCHANGED <<lock, lost, settled, swallowed>>
        /\ torn' = (torn \/ (op.pc = "save" /\ op.entry # lock))
        /\ dest' = dest \/ (dest = None /\ dest' = aside)
        /\ mine' => (mine /\ dest' = AtRisk)
        /\ mine' \in BOOLEAN
    <2>1. CASE Fail
      <3>1. (mine' <=> mine) /\ dest' = AtRisk
        BY <2>1 DEF Fail, AtRisk
      <3> QED BY <2>1, <3>1 DEF Fail, Typed
    <2>2. CASE Crash
      BY <2>2 DEF Crash, AtRisk, Typed
    <2> QED BY <2>1, <2>2
  <1>2. kind' = kind /\ src' = src /\ reg' = reg /\ policy' = policy
    BY <1>1 DEF world
  <1>3. op'.pc = "idle" /\ ~Working' /\ OpTyped' /\ settled' = None
    BY <1>1 DEF Idle, OpTyped, Working, Work, Syncing
  <1>4. Typed' /\ Adopting' /\ NothingLost' /\ SyncSettles' /\ Ready'
    BY <1>1, <1>2, <1>3 DEF Typed, Adopting, NothingLost, SyncSettles, Ready
  <1>5. Entries'
    BY <1>1, <1>2, <1>3, FaithfulKept DEF Entries
  <1>6. Edited'
    <2>1. ASSUME mine' PROVE AtRisk' = AtRisk /\ AtRisk \in Content /\ (lock # None => (AtRisk # lock.installed \/ swallowed))
      <3>1. AtRisk \in Content /\ dest' = AtRisk /\ AtRisk # None
        BY <1>1, <2>1, ContentFields DEF Edited
      <3> QED BY <1>1, <2>1, <3>1 DEF Edited, AtRisk
    <2> QED BY <1>1, <1>3, <2>1 DEF Edited
  <1>7. Syncing'
    BY <1>3 DEF Syncing
  <1>8. ModelsSound'
    <2>1. op.pc = "save" => aside = None
      BY DEF Typed
    <2>2. ASSUME ~torn' PROVE ~torn /\ Attributed(dest', lock)
      <3>1. CASE op.pc = "save"
        BY <1>1, <2>1, <2>2, <3>1, ProjectionAssumption DEF ModelsSound, Attributed
      <3>2. CASE op.pc # "save"
        BY <1>1, <2>2, <3>2 DEF ModelsSound, Attributed
      <3> QED BY <1>1, <2>2, <3>1, <3>2
    <2> QED BY <1>1, <1>2, <1>3, <2>2, ProjectionAssumption DEF ModelsSound, PolicyNotAdopted, Attributed
  <1> QED BY <1>3, <1>4, <1>5, <1>6, <1>7, <1>8

-----------------------------------------------------------------------------
(* Everybody else                                                          *)

LEMMA MovesIs ==
    ASSUME Moves
    PROVE  (raced' <=> Running) /\ raced' \in BOOLEAN /\ settled' = None
  <1>1. raced' = (op.pc # "idle")
    BY DEF Moves, Running
  <1>2. CASE op.pc = "idle"
    <2>1. raced' = FALSE
      BY <1>1, <1>2
    <2> QED BY <1>2, <2>1 DEF Moves, Running
  <1>3. CASE op.pc # "idle"
    <2>1. raced' = TRUE
      BY <1>1, <1>3
    <2> QED BY <1>3, <2>1 DEF Moves, Running
  <1> QED BY <1>2, <1>3

LEMMA UserKeeps ==
    ASSUME ProjectionInv, UserEdits
    PROVE  ProjectionInv'
  <1> USE DEF ProjectionInv
  <1>1. /\ (raced' <=> Running) /\ raced' \in BOOLEAN /\ settled' = None
        /\ unseen' = (op.pc \notin {"idle", "backup"})
        /\ UNCHANGED world /\ UNCHANGED <<lock, op, aside, staged, lost, torn, swallowed>>
    BY MovesIs DEF UserEdits
  <1>2. kind' = kind /\ src' = src /\ reg' = reg /\ policy' = policy
    BY <1>1 DEF world
  <1>3. /\ dest' \in Content \cup {None, Elsewhere} /\ mine' \in BOOLEAN
        /\ mine' => (dest' \in Content /\ (lock # None => dest' # lock.installed))
        /\ (dest' \in Content /\ dest'.model \in PolicyModels) => (dest \in Content /\ dest.model = dest'.model)
    <2>1. CASE dest' = None /\ mine' = FALSE
      BY <2>1, ProjectionAssumption
    <2>2. CASE dest' = Elsewhere /\ mine' = FALSE
      BY <2>2, ProjectionAssumption
    <2>3. CASE /\ dest # Linked /\ mine' = (lock = None \/ dest' # lock.installed)
               /\ dest' \in [text : UserTexts, model : UserModels \cup
                                (IF dest = None \/ IsLink(dest) THEN {None} ELSE {dest.model})]
      <3>1. ~(dest = None \/ IsLink(dest)) => dest \in Content
        BY DEF Typed, IsLink
      <3>2. PICK M : M = UserModels \cup (IF dest = None \/ IsLink(dest) THEN {None} ELSE {dest.model})
        OBVIOUS
      <3>3. M \subseteq Models /\ \A m \in M \cap PolicyModels : dest \in Content /\ m = dest.model
        BY <3>1, <3>2, ContentFields, ProjectionAssumption DEF Models
      <3>4. dest' \in [text : UserTexts, model : M]
        BY <2>3, <3>2
      <3> QED BY <2>3, <3>3, <3>4 DEF Content
    <2> QED BY <2>1, <2>2, <2>3 DEF UserEdits
  <1>4. dest' # Linked
    BY <1>3, ProjectionAssumption
  <1>5. Typed' /\ NothingLost' /\ SyncSettles'
    BY <1>1, <1>2, <1>3 DEF Typed, NothingLost, SyncSettles
  <1>12. Ready'
    BY <1>1, <1>2 DEF Ready, Running, Skill, Image, Attributed
  <1>6. OpTyped' /\ (Working' <=> Working)
    BY <1>1 DEF OpTyped, Working, Work
  <1>7. Entries'
    BY <1>1, <1>2, <1>6, FaithfulKept DEF Entries, Faithful, Rendered, Attributed, Image
  <1>8. Adopting'
    BY <1>1, <1>2, <1>4 DEF Adopting
  <1>9. Edited'
    <2>1. mine' => AtRisk' = dest'
      BY <1>3, ContentFields DEF AtRisk
    <2> QED BY <1>1, <1>3, <2>1 DEF Edited
  <1>10. Syncing'
    BY <1>1, <1>6, OpCases DEF Syncing, Running
  <1>11. ModelsSound'
    <2>1. PICK d : d = dest'
      OBVIOUS
    <2>2. ASSUME NEW e, Attributed(dest, e) PROVE Attributed(d, e)
      BY <1>3, <2>1, <2>2 DEF Attributed
    <2> QED BY <1>1, <1>2, <2>1, <2>2 DEF ModelsSound, PolicyNotAdopted, Attributed
  <1> QED BY <1>5, <1>6, <1>7, <1>8, <1>9, <1>10, <1>11, <1>12

LEMMA OthersKeep ==
    ASSUME ProjectionInv, AuthorEdits \/ Refresh \/ PolicyChanges
    PROVE  ProjectionInv'
  <1> USE DEF ProjectionInv
  <1>1. /\ (raced' <=> Running) /\ raced' \in BOOLEAN /\ settled' = None
        /\ UNCHANGED <<kind, dest, lock, op, aside, staged, mine, lost, unseen, torn, swallowed>>
    BY MovesIs DEF AuthorEdits, Refresh, PolicyChanges
  <1>2. /\ src' \in Content \cup {None} /\ reg' \in Content \cup {None} /\ policy' \in Policies
        /\ PolicyNotAdopted => PolicyNotAdopted'
    <2>1. CASE AuthorEdits
      <3>1. ASSUME NEW x \in [text : Texts, model : AuthorModels \cup {None}]
            PROVE  x \in Content /\ x.model \notin PolicyModels
        BY <3>1, ProjectionAssumption DEF Content, Models
      <3>2. src' = None \/ (src' \in Content /\ src'.model \notin PolicyModels)
        BY <2>1, <3>1 DEF AuthorEdits
      <3> QED BY <2>1, <3>2 DEF AuthorEdits, Typed, PolicyNotAdopted
    <2>2. CASE Refresh
      BY <2>2 DEF Refresh, Typed, PolicyNotAdopted
    <2>3. CASE PolicyChanges
      BY <2>3 DEF PolicyChanges, Typed, PolicyNotAdopted
    <2> QED BY <2>1, <2>2, <2>3
  <1>3. Typed' /\ NothingLost' /\ SyncSettles'
    BY <1>1, <1>2 DEF Typed, NothingLost, SyncSettles
  <1>10. Ready'
    BY <1>1 DEF Ready, Running, Skill, Image, Attributed
  <1>4. OpTyped' /\ (Working' <=> Working)
    BY <1>1 DEF OpTyped, Working, Work
  <1>5. Entries'
    BY <1>1, <1>4, FaithfulKept DEF Entries, Faithful, Rendered, Attributed, Image
  <1>6. Adopting'
    BY <1>1 DEF Adopting
  <1>7. Edited'
    BY <1>1 DEF Edited, AtRisk, Skill
  <1>8. Syncing'
    BY <1>1, <1>4, OpCases DEF Syncing, Running
  <1>9. ModelsSound'
    BY <1>1, <1>2 DEF ModelsSound, PolicyNotAdopted, Attributed
  <1> QED BY <1>3, <1>4, <1>5, <1>6, <1>7, <1>8, <1>9, <1>10

-----------------------------------------------------------------------------
(* The invariant                                                           *)

LEMMA InitSound ==
    ASSUME ProjectionInit
    PROVE  ProjectionInv
  <1>1. op.pc = "idle" /\ OpTyped /\ ~Working
    BY DEF ProjectionInit, Idle, OpTyped, Working, Work
  <1>2. ASSUME NEW x \in [text : Texts, model : AuthorModels \cup {None}]
        PROVE  x \in Content /\ x.model \notin PolicyModels
    BY <1>2, ProjectionAssumption DEF Content, Models
  <1>3. Typed
    BY <1>1, <1>2 DEF ProjectionInit, Typed
  <1>4. Entries /\ Adopting /\ Edited /\ Syncing
    BY <1>1 DEF ProjectionInit, Entries, Faithful, Adopting, Edited, Syncing, Running
  <1>5. ModelsSound
    BY <1>1, <1>2, ProjectionAssumption DEF ProjectionInit, ModelsSound, PolicyNotAdopted, Attributed
  <1>6. NothingLost /\ SyncSettles /\ Ready
    BY <1>1 DEF ProjectionInit, NothingLost, SyncSettles, Ready
  <1> QED BY <1>1, <1>3, <1>4, <1>5, <1>6 DEF ProjectionInv

LEMMA StutterKeeps ==
    ASSUME ProjectionInv, UNCHANGED vars
    PROVE  ProjectionInv'
  <1> USE DEF ProjectionInv, vars
  <1>1. Typed' /\ NothingLost' /\ Adopting' /\ Ready'
    BY DEF Typed, NothingLost, Adopting, Ready, Skill, Image, Attributed
  <1>2. OpTyped' /\ (Working' <=> Working)
    BY DEF OpTyped, Working, Work
  <1>3. Entries'
    BY <1>2 DEF Entries, Faithful, Rendered, Attributed, Image
  <1>4. Edited'
    BY DEF Edited, AtRisk, Skill
  <1>5. Syncing'
    <2>1. ASSUME Working, op.sync, ~raced PROVE Plan(op.who, op.entry)'
      <3>1. PICK who, e : who = op.who /\ e = op.entry
        OBVIOUS
      <3>2. Plan(who, e)
        BY <2>1, <3>1 DEF Syncing
      <3>3. Plan(who, e)'
        BY <3>2, PlanKept DEF world
      <3> QED BY <3>1, <3>3 DEF Plan, Known, Pol
    <2>2. Image(op.entry)' = Image(op.entry)
      BY DEF Image
    <2> QED BY <1>2, <2>1, <2>2 DEF Syncing, Running
  <1>6. ModelsSound'
    BY DEF ModelsSound, PolicyNotAdopted, Attributed
  <1>7. SyncSettles'
    BY DEF SyncSettles, Preserved, IsLink, statusFor, Known, Pol, Skill, Drifted, NeedsRewrite, Install, Resolve
  <1> QED BY <1>1, <1>2, <1>3, <1>4, <1>5, <1>6, <1>7

LEMMA NextKeeps ==
    ASSUME ProjectionInv, [Next]_vars
    PROVE  ProjectionInv'
  <1>1. ASSUME NEW who \in Actors,
               \/ \E copy, force \in BOOLEAN : SyncNamed(who, copy, force)
               \/ SyncRecorded(who)
               \/ \E gone \in BOOLEAN : Remove(who, gone)
               \/ Adopt(who)
        PROVE  ProjectionInv'
    BY <1>1, SyncKeeps, RemoveKeeps, AdoptKeeps
  <1>2. CASE AdoptResyncs
    BY <1>2, AdoptRecords, AdoptMaterializes
  <1>3. CASE Backup
    BY <1>3, BackupKeeps
  <1>4. CASE Clear
    BY <1>4, ClearKeeps
  <1>5. CASE Write
    BY <1>5, WriteKeeps
  <1>6. CASE Save
    BY <1>6, SaveKeeps
  <1>7. CASE Fail \/ Crash
    BY <1>7, EndKeeps
  <1>8. CASE UserEdits
    BY <1>8, UserKeeps
  <1>9. CASE AuthorEdits \/ Refresh \/ PolicyChanges
    BY <1>9, OthersKeep
  <1>10. CASE UNCHANGED vars
    BY <1>10, StutterKeeps
  <1> QED BY <1>1, <1>2, <1>3, <1>4, <1>5, <1>6, <1>7, <1>8, <1>9, <1>10 DEF Next

LEMMA InvHolds == Spec => []ProjectionInv
  <1>1. ProjectionInit => ProjectionInv
    BY InitSound
  <1>2. ProjectionInv /\ [Next]_vars => ProjectionInv'
    BY NextKeeps
  <1> QED BY <1>1, <1>2, PTL DEF Spec

\* What a status of in-sync has compared.
LEMMA InSyncIs ==
    ASSUME NEW who, NEW sk, NEW p, sk = Known(who), p = Pol(who), sk # None, statusFor(who) = "in-sync"
    PROVE  /\ dest # None /\ ~Drifted
           /\ lock.channel = "link" => ~NeedsRewrite(p, sk.model)
           /\ lock.channel # "link" => (src = lock.tree /\ (p # None => Install(sk, p) = lock.installed))
  <1>1. dest # None /\ ~Drifted
    BY DEF statusFor
  <1>2. CASE lock.channel = "link"
    BY <1>1, <1>2 DEF statusFor
  <1>3. CASE lock.channel # "link"
    BY <1>1, <1>3 DEF statusFor
  <1> QED BY <1>1, <1>2, <1>3

LEMMA QuietSound ==
    ASSUME ProjectionInv
    PROVE  InSyncIsQuiet
  <1> USE DEF ProjectionInv
  <1> SUFFICES ASSUME lock # None, ~swallowed, NEW who \in Actors,
                      Known(who) # None, statusFor(who) = "in-sync", ~Preserved(Pol(who))
               PROVE  View(dest) = View(Image(Wanted(Known(who), Pol(who),
                                        Channel(lock.channel = "copy" /\ ~lock.reason))))
    BY DEF InSyncIsQuiet
  <1>1. PICK sk, p : sk = Known(who) /\ p = Pol(who)
    OBVIOUS
  <1>2. PICK c : c = (lock.channel = "copy" /\ ~lock.reason)
    OBVIOUS
  <1>3. PICK ch : ch = Channel(c)
    OBVIOUS
  <1>4. PICK e : e = Wanted(sk, p, ch)
    OBVIOUS
  <1>5. ch \in {"copy", "link"} /\ (ch = "link" => kind = "skill")
    BY <1>3 DEF Channel
  <1>6. /\ dest # None /\ ~Drifted
        /\ lock.channel = "link" => ~NeedsRewrite(p, sk.model)
        /\ lock.channel # "link" => (src = lock.tree /\ (p # None => Install(sk, p) = lock.installed))
    BY <1>1, InSyncIs
  <1>7. lock \in Entry /\ lock.channel \in {"copy", "link"} /\ sk \in Content /\ p \in Policies \cup {None}
    BY <1>1, KnownIs, EntryFields DEF Typed
  <1>8. View(dest) = View(Image(e))
    <2>1. CASE lock.channel = "link"
      <3>1. dest = Linked /\ kind = "skill" /\ ~c
        BY <1>2, <1>6, <2>1, DriftedIs DEF Entries, Faithful
      <3>2. ch = "link"
        BY <1>3, <3>1 DEF Channel
      <3>3. e = LinkEntry
        BY <1>4, <1>6, <2>1, <3>2 DEF Wanted
      <3> QED BY <3>1, <3>3, LinkEntryIs DEF Image
    <2>2. CASE lock.channel = "copy"
      <3>1. /\ src \in Content /\ dest \in Content /\ dest = lock.installed
            /\ lock.modelValue = None => dest = Rendered(src)
        BY <1>6, <2>2, DriftedIs DEF Entries, Faithful
      <3>2. p = None => dest = Rendered(src)
        BY <1>1, <1>6, <3>1, ContentFields DEF Preserved
      <3>3. View(dest) = dest /\ View(Linked) = src
        BY <3>1, ContentFields DEF View
      <3>4. p # None => dest = Install(sk, p)
        BY <1>6, <2>2, <3>1
      <3>5. p = None => ~NeedsRewrite(p, sk.model)
        BY DEF NeedsRewrite
      <3>6. dest = Install(sk, p)
        BY <1>7, <3>1, <3>2, <3>4, <3>5, InstallIs
      <3>7. CASE ch = "link" /\ ~NeedsRewrite(p, sk.model)
        <4>1. Rendered(src) = src
          BY <1>5, <3>7 DEF Rendered
        <4>2. dest = src
          BY <1>7, <3>1, <3>6, <3>7, <4>1, InstallIs
        <4>3. Image(e) = Linked
          BY <1>4, <3>7, LinkEntryIs DEF Wanted, Image
        <4> QED BY <3>3, <4>2, <4>3
      <3>8. CASE ~(ch = "link" /\ ~NeedsRewrite(p, sk.model))
        <4>1. e = CopyEntry(sk, p, ch)
          BY <1>4, <3>8 DEF Wanted
        <4>2. Image(e) = Install(sk, p)
          BY <1>7, <3>1, <4>1, CopyEntryIs DEF Image
        <4> QED BY <3>6, <4>2
      <3> QED BY <3>7, <3>8
    <2> QED BY <1>7, <2>1, <2>2
  <1> QED BY <1>1, <1>2, <1>3, <1>4, <1>8

-----------------------------------------------------------------------------
(* Theorems                                                                *)

\* The registry's copy, the projected path, the lockfile's entry and the
\* operation in progress stay of their types, and a copy is renamed away only
\* while copyDirAtomicWith writes another in its place.
THEOREM ProjectionTypeCorrect == Spec => []ProjectionTypeOK
  <1>1. ProjectionInv => ProjectionTypeOK
    BY OpCases DEF ProjectionInv, Typed, Ready, ProjectionTypeOK
  <1> QED BY <1>1, InvHolds, PTL

\* Whatever syncs, forced ones, adopts, unsyncs, failures and crashes come in
\* which order, an edit of the user that was there when the operation last looked
\* at the path is destroyed only after backupProjection or Adopt has kept it,
\* unless an adopt recorded as gridctl's own what came under it.
THEOREM NothingIsLost == Spec => []NothingLost
  <1>1. ProjectionInv => NothingLost
    BY DEF ProjectionInv
  <1> QED BY <1>1, InvHolds, PTL

\* The entry that a sync records is one that statusFor finds in-sync, for every
\* policy, channel and history of the entry, and a copy that a sync leaves alone
\* is not drifted.
THEOREM SyncsSettle == Spec => []SyncSettles
  <1>1. ProjectionInv => SyncSettles
    BY DEF ProjectionInv
  <1> QED BY <1>1, InvHolds, PTL

\* Where statusFor says in-sync, the next sync of the same actor leaves what the
\* client reads as it is, though it may put a link where a copy was.
THEOREM InSyncMeansQuiet == Spec => []InSyncIsQuiet
  <1>1. ProjectionInv => InSyncIsQuiet
    BY QuietSound
  <1> QED BY <1>1, InvHolds, PTL

\* Adopt never writes a model that a policy put into a projection back into the
\* author's copy, unless an operation ended between its write and its save.
THEOREM PoliciesAreNotAdopted == Spec => []PolicyNotAdopted
  <1>1. ProjectionInv => PolicyNotAdopted
    BY DEF ProjectionInv, ModelsSound, PolicyNotAdopted
  <1> QED BY <1>1, InvHolds, PTL
=============================================================================
