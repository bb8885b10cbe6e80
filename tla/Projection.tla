----------------------------- MODULE Projection -----------------------------
(***************************************************************************)
(* One projection of a registry skill (pkg/skillsync) or agent             *)
(* (pkg/agentsync) into a client's directory: the registry's canonical     *)
(* copy, the projected path, and the entry of the projection lockfile      *)
(* (pkg/project) that says what gridctl wrote there.  The daemon and       *)
(* gridctl commands sync, unsync and adopt under a lock between processes; *)
(* meanwhile the user edits the projected path, the author edits the       *)
(* registry and the stack's model policy changes.  An operation is the     *)
(* sequence of its file operations, and may fail or crash at each.         *)
(*                                                                         *)
(* A tree or file is its text and its model key; its hash is itself.       *)
(***************************************************************************)
EXTENDS FiniteSets

CONSTANTS
    Kinds,          \* of "skill", "copied", "agent" and "rendered"
    Texts,          \* what authors write
    UserTexts,      \* what users write in the projected copy
    AuthorModels, UserModels, PolicyModels,
    Policies,       \* the model policies a stack may have
    Linked,         \* a symlink to the registry's directory
    Elsewhere,      \* a symlink to some other place
    None            \* no model key, nothing there, no entry, no policy known

Models == AuthorModels \cup UserModels \cup PolicyModels \cup {None}
Content == [text : Texts \cup UserTexts, model : Models]

VARIABLES
    kind,       \* skill, skill on a client that cannot follow links, agent,
                \* agent whose client has a dialect of its own
    src,        \* the canonical copy on disk, None when it is not active
    reg,        \* the skill in the daemon's registry, as of its last refresh
    policy,     \* the daemon's model policy; commands know none
    dest,       \* the projected path
    lock,       \* its entry in the lockfile
    op,         \* the operation in progress
    aside,      \* the copy renamed away by copyDirAtomicWith
    staged,     \* what is ready beside the path to take its place
    mine,       \* ghost: dest holds an edit of the user that is nowhere else
    lost,       \* ghost: such an edit was destroyed
    raced,      \* ghost: user, author or policy moved during the operation
    unseen,     \* ghost: the user did, after its last look at dest
    torn,       \* ghost: an operation ended between its write and its save
    swallowed,  \* ghost: an adopt recorded as its own what came under it
    settled     \* ghost: the actor whose sync just succeeded

world == <<kind, src, reg, policy>>
vars == <<kind, src, reg, policy, dest, lock, op, aside, staged,
          mine, lost, raced, unseen, torn, swallowed, settled>>

IsLink(d) == d \in {Linked, Elsewhere}

Skill == kind \in {"skill", "copied"}

Entry == [channel : {"copy", "link"}, tree : Content \cup {None}, installed : Content \cup {None, Elsewhere},
          reason : BOOLEAN, modelValue : PolicyModels \cup {None}]
LinkEntry == [channel |-> "link", tree |-> None, installed |-> None,
              reason |-> FALSE, modelValue |-> None]

ASSUME ProjectionAssumption ==
    /\ Kinds \subseteq {"skill", "copied", "agent", "rendered"}
    /\ Texts \cap UserTexts = {} /\ UserModels \cap PolicyModels = {}
    /\ PolicyModels \cap AuthorModels = {} /\ None \notin PolicyModels \cup UserModels
    /\ Linked # Elsewhere /\ None \notin {Linked, Elsewhere} /\ {Linked, Elsewhere} \cap Content = {}
    /\ Policies \subseteq [default : PolicyModels \cup {None}, override : PolicyModels \cup {None}]
    /\ None \notin Content \cup Entry

\* Who acts, with what the registry and the policy are to it.
Actors == {"daemon", "command"}
Pol(who) == IF who = "daemon" THEN policy ELSE None
Known(who) == IF who = "daemon" /\ Skill THEN reg ELSE src

-----------------------------------------------------------------------------
(* What a sync would write                                                 *)

Resolve(p, declared) ==
    CASE p.override # None -> p.override
      [] p.override = None /\ declared # None -> declared
      [] OTHER -> p.default

NeedsRewrite(p, declared) ==
    p # None /\ kind # "rendered" /\ Resolve(p, declared) \notin {None, declared}

\* The bytes: the policy's model is put into the skill in memory, or into the
\* agent on disk; a dialect drops the key.
Install(sk, p) ==
    CASE kind = "rendered" -> [src EXCEPT !.model = None]
      [] NeedsRewrite(p, sk.model) -> [sk EXCEPT !.model = Resolve(p, sk.model)]
      [] OTHER -> src

\* Target.channel, for a skill.
Channel(copy) == IF copy \/ kind # "skill" THEN "copy" ELSE "link"

\* The entry that materialize records for a copy.
CopyEntry(sk, p, ch) ==
    [channel |-> "copy", tree |-> src, installed |-> Install(sk, p),
     reason |-> NeedsRewrite(p, sk.model) /\ ch = "link",
     modelValue |-> IF NeedsRewrite(p, sk.model) THEN Resolve(p, sk.model) ELSE None]

\* The entry for channel ch, which a rewrite turns into a copy.
Wanted(sk, p, ch) ==
    IF ch = "link" /\ ~NeedsRewrite(p, sk.model) THEN LinkEntry ELSE CopyEntry(sk, p, ch)

\* What dest is after the write of entry e.
Image(e) == IF e.channel = "link" THEN Linked ELSE e.installed

\* Mutant: the copy is compared with the source's hash, not the installed one.
DriftedFromSource == CASE dest = None -> FALSE
                       [] dest # None /\ lock.channel = "link" -> dest # Linked
                       [] OTHER -> dest # lock.tree

\* dest is not what the entry says gridctl put there.
Drifted == CASE dest = None -> FALSE
             [] dest # None /\ lock.channel = "link" -> dest # Linked
             [] OTHER -> dest # lock.installed

\* A sync that knows no policy leaves a rewritten copy alone.
Preserved(p) ==
    lock # None /\ p = None /\ lock.modelValue # None /\ dest # None /\ ~IsLink(dest)

\* materialize's verdict.
Refuses(force) == ~force /\ dest # None /\ (lock = None \/ Drifted)
Unchanged(e) ==
    /\ dest # None /\ lock # None
    /\ IF Skill THEN ~Drifted /\ dest = Image(e) /\ lock.channel = e.channel
                     /\ lock.tree = e.tree /\ lock.installed = e.installed
       ELSE dest = e.installed
\* Mutant: only unowned content is backed up.
NeedsBackupUnowned(e) == dest # None /\ ~IsLink(dest) /\ lock = None
NeedsBackup(e) ==
    /\ dest # None /\ ~IsLink(dest)
    /\ lock = None \/ Drifted
    /\ ~Skill => dest # e.installed

\* Mutant: the status does not ask what the policy would write now.
statusForSource(who) ==
    CASE Known(who) = None -> "stale"
      [] Known(who) # None /\ dest = None -> "missing"
      [] Known(who) # None /\ dest # None /\ Drifted -> "drifted"
      [] OTHER -> IF lock.channel = "link" \/ src = lock.tree THEN "in-sync" ELSE "stale"

statusFor(who) ==
    LET sk == Known(who)
        p == Pol(who)
    IN  CASE sk = None -> "stale"
          [] sk # None /\ dest = None -> "missing"
          [] sk # None /\ dest # None /\ Drifted -> "drifted"
          [] sk # None /\ dest # None /\ ~Drifted /\ lock.channel = "link" ->
                IF NeedsRewrite(p, sk.model) THEN "stale" ELSE "in-sync"
          [] OTHER ->
                IF src = lock.tree /\ (p # None => Install(sk, p) = lock.installed)
                THEN "in-sync" ELSE "stale"

-----------------------------------------------------------------------------
(* Operations                                                              *)

Idle == [pc |-> "idle"]
Running == op.pc # "idle"

Begin(o) == op' = o /\ raced' = FALSE /\ unseen' = FALSE /\ settled' = None

\* materialize under the lock, up to its decision: it refuses, leaves a rewritten
\* copy alone, which is a success, records what is there again, or goes on to
\* replace it.
Materialize(who, sk, ch, force) ==
    LET p == Pol(who)
        e == Wanted(sk, p, ch)
    IN  CASE Refuses(force) -> Begin(Idle)
          [] ~Refuses(force) /\ Preserved(p) /\ ~force ->
                op' = Idle /\ raced' = FALSE /\ unseen' = FALSE /\ settled' = who
          [] OTHER ->
                Begin([pc |-> CASE Unchanged(e) -> "save"
                                [] ~Unchanged(e) /\ NeedsBackup(e) -> "backup"
                                [] OTHER -> "clear",
                       who |-> who, entry |-> e, sync |-> TRUE])

\* Sync of a named skill or agent, with and without --copy and --force.
SyncNamed(who, copy, force) ==
    /\ ~Running /\ Known(who) # None /\ src # None
    /\ Materialize(who, Known(who), Channel(copy), force)
    /\ UNCHANGED world /\ UNCHANGED <<dest, lock, aside, staged, mine, lost, torn, swallowed>>

\* Sync without names and the daemon's Reconcile: a recorded projection keeps
\* its channel, unless a policy forced it.
SyncRecorded(who) ==
    /\ ~Running /\ lock # None /\ Known(who) # None /\ src # None
    /\ Materialize(who, Known(who), Channel(lock.channel = "copy" /\ ~lock.reason), FALSE)
    /\ UNCHANGED world /\ UNCHANGED <<dest, lock, aside, staged, mine, lost, torn, swallowed>>

\* removeOne for a source that is gone, and Unsync: back up, remove, save.
Remove(who, gone) ==
    /\ ~Running /\ lock # None /\ (gone => Known(who) = None)
    /\ Begin([pc |-> CASE dest = None -> "save" [] IsLink(dest) -> "clear" [] OTHER -> "backup",
              who |-> who, entry |-> None, sync |-> FALSE])
    /\ UNCHANGED world /\ UNCHANGED <<dest, lock, aside, staged, mine, lost, torn, swallowed>>

\* Mutant: the copy is adopted as it is.
RestoredAsIs == dest

\* The projection as Adopt writes it back: a model key that still holds the
\* policy's value becomes the author's again.
Restored == IF lock.modelValue # None /\ dest.model = lock.modelValue
            THEN [dest EXCEPT !.model = src.model] ELSE dest

\* Adopt writes the edited copy into the registry (the registry's own copy is
\* kept as .pre-<sha>), ...
Adopt(who) ==
    /\ ~Running /\ lock # None /\ lock.channel = "copy" /\ kind # "rendered"
    /\ Known(who) # None /\ src # None /\ dest # None /\ ~IsLink(dest)
    /\ src' = Restored /\ mine' = FALSE
    /\ Begin([pc |-> "adopted", who |-> who, sk |-> Known(who)])
    /\ UNCHANGED <<kind, reg, policy, dest, lock, aside, staged, lost, torn, swallowed>>

\* ... then records what is on disk, whoever wrote it, or syncs the pair again
\* with force.
AdoptResyncs ==
    /\ op.pc = "adopted" /\ src # None
    /\ IF lock.modelValue # None
       THEN dest # None /\ op' = [pc |-> "save", who |-> op.who, sync |-> FALSE,
                   entry |-> [lock EXCEPT !.tree = src, !.installed = dest,
                                          !.modelValue = IF dest = src THEN None ELSE @]]
            /\ swallowed' = (swallowed \/ unseen)
       ELSE LET e == Wanted(IF Skill THEN op.sk ELSE src, Pol(op.who), "copy")
            IN  op' = [pc |-> CASE Unchanged(e) -> "save"
                                [] ~Unchanged(e) /\ NeedsBackup(e) -> "backup"
                                [] OTHER -> "clear",
                       who |-> op.who, entry |-> e, sync |-> FALSE]
                /\ UNCHANGED swallowed
    /\ unseen' = FALSE
    /\ UNCHANGED world /\ UNCHANGED <<dest, lock, aside, staged, mine, lost, raced, torn, settled>>

\* backupProjection.
Backup ==
    /\ op.pc = "backup"
    /\ mine' = FALSE /\ unseen' = FALSE
    /\ op' = [op EXCEPT !.pc = "clear"]
    /\ UNCHANGED world /\ UNCHANGED <<dest, lock, aside, staged, lost, raced, torn, settled, swallowed>>

\* gridctl puts d in the place of what was at dest.
Destroys(d) ==
    /\ dest' = d /\ mine' = FALSE
    /\ lost' = (lost \/ (mine /\ ~unseen /\ d \notin {dest, aside} \ {None}))

\* copyDirAtomicWith reads the registry's directory once more, after its hash
\* was taken for the entry.
Reread == Skill /\ op.entry.channel = "copy" /\ op.entry.modelValue = None
Staged == IF Reread THEN src ELSE Image(op.entry)

\* What is to be there is made ready beside the path, and the path is cleared:
\* removed, or for a copy renamed away.  Agents, and links over links, are
\* replaced by a rename.
Replaced == op.entry # None /\ (~Skill \/ (op.entry.channel = "link" /\ IsLink(dest)))
SwappedOut == op.entry # None /\ op.entry.channel = "copy"

Clear ==
    /\ op.pc = "clear"
    /\ CASE Replaced -> UNCHANGED <<dest, aside, mine, lost>>
         [] ~Replaced /\ SwappedOut -> dest' = None /\ aside' = dest /\ UNCHANGED <<mine, lost>>
         [] OTHER -> Destroys(None) /\ UNCHANGED aside
    /\ IF op.entry = None THEN op' = [op EXCEPT !.pc = "save"] /\ UNCHANGED staged
       ELSE Staged # None /\ op' = [op EXCEPT !.pc = "write"] /\ staged' = Staged
    /\ UNCHANGED world /\ UNCHANGED <<lock, raced, unseen, torn, settled, swallowed>>

\* Mutant: the copy that was renamed away is left there.
WriteLeaves ==
    /\ op.pc = "write" /\ (dest = None \/ Replaced)
    /\ Destroys(staged) /\ staged' = None /\ UNCHANGED aside
    /\ op' = [op EXCEPT !.pc = "save"]
    /\ UNCHANGED world /\ UNCHANGED <<lock, raced, unseen, torn, settled, swallowed>>

\* A rename does not replace a directory that the user has put there meanwhile.
Write ==
    /\ op.pc = "write" /\ (dest = None \/ Replaced)
    /\ Destroys(staged) /\ staged' = None /\ aside' = None
    /\ op' = [op EXCEPT !.pc = "save"]
    /\ UNCHANGED world /\ UNCHANGED <<lock, raced, unseen, torn, settled, swallowed>>

\* persistIfRecorded, or the save that ends Unsync and Adopt.
Save ==
    /\ op.pc = "save"
    /\ lock' = op.entry
    /\ settled' = IF op.sync /\ ~raced THEN op.who ELSE None
    /\ mine' = (mine /\ ((op.entry # None /\ dest = op.entry.installed) => swallowed))
    /\ op' = Idle /\ raced' = FALSE /\ unseen' = FALSE
    /\ UNCHANGED world /\ UNCHANGED <<dest, aside, staged, lost, torn, swallowed>>

\* The operation fails: the lock is released, the entry is not saved.  A copy
\* renamed away is put back, unless something new is there.
Fail ==
    /\ Running /\ op' = Idle /\ raced' = FALSE /\ unseen' = FALSE
    /\ torn' = (torn \/ (op.pc = "save" /\ op.entry # lock))
    /\ aside' = None /\ staged' = None /\ dest' = IF dest = None THEN aside ELSE dest
    /\ UNCHANGED world /\ UNCHANGED <<lock, mine, lost, settled, swallowed>>

\* The process ends: a copy renamed away stays where it is.
Crash ==
    /\ Running /\ op' = Idle /\ raced' = FALSE /\ unseen' = FALSE
    /\ torn' = (torn \/ (op.pc = "save" /\ op.entry # lock))
    /\ aside' = None /\ staged' = None /\ mine' = (mine /\ dest # None)
    /\ UNCHANGED world /\ UNCHANGED <<dest, lock, lost, settled, swallowed>>

-----------------------------------------------------------------------------
(* Everybody else                                                          *)

Moves == raced' = Running /\ settled' = None

\* The user edits, deletes or re-links the projected path.  An edit through
\* the link is an edit of the registry.
UserEdits ==
    /\ \/ /\ dest # Linked
          /\ dest' \in [text : UserTexts, model : UserModels \cup
                           (IF dest = None \/ IsLink(dest) THEN {None} ELSE {dest.model})]
          /\ mine' = (lock = None \/ dest' # lock.installed)
       \/ dest' = None /\ mine' = FALSE
       \/ Skill /\ dest' = Elsewhere /\ mine' = FALSE
    /\ dest' # dest /\ Moves /\ unseen' = (op.pc \notin {"idle", "backup"})
    /\ UNCHANGED world /\ UNCHANGED <<lock, op, aside, staged, lost, torn, swallowed>>

AuthorEdits ==
    /\ \/ src' \in [text : Texts, model : AuthorModels \cup {None}] /\ reg' \in {reg, src'}
       \/ src' = None /\ reg' = None
    /\ ~Skill => reg' = reg
    /\ src' # src /\ Moves
    /\ UNCHANGED <<kind, policy, dest, lock, op, aside, staged, mine, lost, unseen, torn, swallowed>>

Refresh ==
    /\ Skill /\ reg # src /\ reg' = src /\ Moves
    /\ UNCHANGED <<kind, src, policy, dest, lock, op, aside, staged, mine, lost, unseen, torn, swallowed>>

PolicyChanges ==
    /\ policy' \in Policies \ {policy} /\ Moves
    /\ UNCHANGED <<kind, src, reg, dest, lock, op, aside, staged, mine, lost, unseen, torn, swallowed>>

-----------------------------------------------------------------------------
ProjectionInit ==
    /\ kind \in Kinds /\ policy \in Policies
    /\ src \in [text : Texts, model : AuthorModels \cup {None}] /\ reg = IF Skill THEN src ELSE None
    /\ dest = None /\ lock = None /\ op = Idle /\ aside = None /\ staged = None
    /\ mine = FALSE /\ lost = FALSE /\ raced = FALSE /\ unseen = FALSE /\ torn = FALSE
    /\ swallowed = FALSE /\ settled = None

Next ==
    \/ \E who \in Actors :
           \/ \E copy, force \in BOOLEAN : SyncNamed(who, copy, force)
           \/ SyncRecorded(who)
           \/ \E gone \in BOOLEAN : Remove(who, gone)
           \/ Adopt(who)
    \/ AdoptResyncs \/ Backup \/ Clear \/ Write \/ Save \/ Fail \/ Crash
    \/ UserEdits \/ AuthorEdits \/ Refresh \/ PolicyChanges

Spec == ProjectionInit /\ [][Next]_vars
-----------------------------------------------------------------------------
(* Properties                                                              *)

\* Types; and a copy is renamed away only while another is written in its place.
ProjectionTypeOK ==
    /\ kind \in Kinds /\ policy \in Policies
    /\ src \in Content \cup {None} /\ reg \in Content \cup {None}
    /\ dest \in Content \cup {None, Linked, Elsewhere} /\ aside \in Content \cup {None, Linked, Elsewhere}
    /\ lock \in Entry \cup {None}
    /\ op.pc \in {"idle", "adopted", "backup", "clear", "write", "save"}
    /\ aside # None => op.pc = "write"
    /\ staged \in Content \cup {None, Linked, Elsewhere} /\ (staged # None <=> op.pc = "write")
    /\ {mine, lost, raced, unseen, torn, swallowed} \subseteq BOOLEAN /\ settled \in Actors \cup {None}

\* Whatever the order of syncs (forced ones too), adopts, unsyncs, failures and
\* crashes, an edit of the user at the projected path is destroyed only after it
\* was backed up or adopted.  There are two exceptions: an edit made after the
\* operation last looked at the path (the reads of the hash and of the backup),
\* and one made between the two steps of an adopt that records what it finds,
\* which is from then on taken for gridctl's own.
NothingLost == lost => swallowed

\* A sync that succeeded while nothing else moved leaves its actor's status
\* in-sync: hashes recorded under a policy, a forced channel or after an adopt
\* never make gridctl see drift or staleness in what it has just written.  A sync
\* that knows no policy and leaves a rewritten copy alone leaves it in-sync, or
\* stale when the source has moved on, but never drifted or missing.
SyncSettles ==
    settled # None =>
        /\ lock # None
        /\ statusFor(settled) \in IF Preserved(Pol(settled)) THEN {"in-sync", "stale"} ELSE {"in-sync"}

\* What the client reads.
View(d) == IF d = Linked THEN src ELSE d

\* In-sync means what it says: when an actor's status is in-sync, its next sync
\* changes nothing the client sees, though it may change the channel.
InSyncIsQuiet ==
    (~Running /\ lock # None /\ ~swallowed) =>
        \A who \in Actors :
            (Known(who) # None /\ statusFor(who) = "in-sync" /\ ~Preserved(Pol(who))) =>
                View(dest) = View(Image(Wanted(Known(who), Pol(who),
                                   Channel(lock.channel = "copy" /\ ~lock.reason))))

\* No adopt writes a model that the policy chose into the author's copy, unless
\* an operation ended between its write and the save of its entry.
PolicyNotAdopted == (~torn /\ src # None) => src.model \notin PolicyModels
=============================================================================
