------------------------------- MODULE Vault -------------------------------
(***************************************************************************)
(* The variable store of pkg/vault/store.go, as the processes of one       *)
(* machine share it: the daemon, whose HTTP handlers (internal/api/        *)
(* vault.go) work on one Store from many goroutines, and the commands of   *)
(* cmd/gridctl/var.go, each of which loads a Store of its own.  The truth  *)
(* is on disk, in secrets.json or, once locked, in secrets.enc, which has  *)
(* precedence; every Store keeps a copy with a stamp of the file it came   *)
(* from.                                                                   *)
(*                                                                         *)
(* A mutation runs under the file lock "vault" and the Store's mutex, and  *)
(* reaches the disk by one rename, so it is one step; Lock is two, since   *)
(* it renames one file and then removes the other.  A process may crash    *)
(* between any two steps.  Every write of a file gives it a later time of  *)
(* modification, so a stamp is reduced to whether it is the file's.        *)
(***************************************************************************)
EXTENDS FiniteSets

CONSTANTS
    Requests,   \* goroutines of the daemon that serve HTTP requests
    Commands,   \* gridctl var commands, each with a Store of its own
    Daemon,     \* the Store of the daemon
    Keys, Vals, SetNames, Passphrases,
    None        \* no file, no variable, no set, no passphrase

VARIABLES
    plain,      \* the document of secrets.json, or None
    enc,        \* secrets.enc: a document and the passphrase, or None
    mem,        \* the fields of each Store
    pc,         \* where each caller is
    held,       \* the variable a PUT has read before it writes it back
    holder,     \* the caller between the two steps of Lock, which holds the locks
    acked,      \* ghost: the document the acknowledged writes add up to, until lapse
    clear,      \* ghost: no other process locked or restored since the caller looked
    lapse,      \* ghost: whether a write was made blind
    torn        \* ghost: whether a Lock failed to remove secrets.json

files == <<plain, enc>>
ghosts == <<acked, clear, lapse, torn>>
vars == <<plain, enc, mem, pc, held, holder, acked, clear, lapse, torn>>

Callers == Requests \cup Commands
Stores == {Daemon} \cup Commands
StoreOf(c) == IF c \in Requests THEN Daemon ELSE c

Var == [val : Vals, set : SetNames \cup {None}]
Doc == [vars : [Keys -> Var \cup {None}], sets : SUBSET SetNames]
EmptyDoc == [vars |-> [k \in Keys |-> None], sets |-> {}]

ASSUME VaultAssumption ==
    /\ Requests \cap Commands = {} /\ Daemon \notin Commands
    /\ None \notin Vals \cup SetNames \cup Passphrases \cup Callers
    /\ None \notin Doc /\ None \notin [doc : Doc, passphrase : Passphrases]

\* doc, encrypted, locked and passphrase are the Store's; fresh tells whether
\* its mtime and size are those of the file it would read, dirty (ghost)
\* whether doc holds a change that could not be saved.
Memory == [doc : Doc, encrypted : BOOLEAN, locked : BOOLEAN,
           passphrase : Passphrases \cup {None}, fresh : BOOLEAN, dirty : BOOLEAN]
NewStore == [doc |-> EmptyDoc, encrypted |-> FALSE, locked |-> FALSE,
             passphrase |-> None, fresh |-> FALSE, dirty |-> FALSE]

\* What a process that starts now finds.
Stored == CASE enc # None -> enc.doc
            [] enc = None /\ plain # None -> plain
            [] OTHER -> EmptyDoc

-----------------------------------------------------------------------------
(* Reading the files                                                       *)

Load == CASE enc # None -> [NewStore EXCEPT !.encrypted = TRUE, !.locked = TRUE, !.fresh = TRUE]
          [] enc = None /\ plain # None -> [NewStore EXCEPT !.doc = plain, !.fresh = TRUE]
          [] OTHER -> NewStore

\* loadLocked reads secrets.enc.
Keyed(m) == m.encrypted /\ ~m.locked /\ m.passphrase # None

WrongKey(m) == Keyed(m) /\ enc # None /\ enc.passphrase # m.passphrase

\* The file loadLocked reads is missing: memory is kept.
NoFile(m) == IF Keyed(m) THEN enc = None ELSE plain = None

\* stampMtimeLocked, while secrets.enc is e and secrets.json is p.
Stamp(m, e, p) == [m EXCEPT !.fresh = IF m.encrypted THEN e # None ELSE p # None]

\* Mutant: a mutation skips the read when the file has not changed.
loadLockedIfChanged(m) ==
    IF m.fresh \/ NoFile(m) \/ WrongKey(m) THEN m
    ELSE Stamp([m EXCEPT !.doc = IF Keyed(m) THEN enc.doc ELSE plain, !.dirty = FALSE], enc, plain)

loadLocked(m) ==
    IF NoFile(m) \/ WrongKey(m) THEN m
    ELSE Stamp([m EXCEPT !.doc = IF Keyed(m) THEN enc.doc ELSE plain, !.dirty = FALSE], enc, plain)

\* Mutant: a store that another process locked is not marked locked.
reloadIfChangedOpen(m) ==
    CASE enc # None /\ ~m.encrypted -> [Load EXCEPT !.locked = FALSE]
      [] enc = None /\ plain # None /\ m.encrypted ->
            loadLocked([m EXCEPT !.encrypted = FALSE, !.locked = FALSE, !.passphrase = None])
      [] (enc # None \/ plain # None) /\ m.encrypted = (enc # None) ->
            IF m.locked \/ m.fresh THEN m ELSE loadLocked(m)
      [] OTHER -> m

reloadIfChanged(m) ==
    CASE enc # None /\ ~m.encrypted ->
            Load      \* plaintext was locked by another process: drop it
      [] enc # None /\ m.encrypted ->
            IF m.locked \/ m.fresh THEN m ELSE loadLocked(m)
      [] enc = None /\ plain # None /\ m.encrypted ->
            loadLocked([m EXCEPT !.encrypted = FALSE, !.locked = FALSE, !.passphrase = None])
      [] enc = None /\ plain # None /\ ~m.encrypted ->
            IF m.fresh THEN m ELSE loadLocked(m)
      [] OTHER -> m

-----------------------------------------------------------------------------
(* Changing the document: the documents an operation may leave, none if it *)
(* refuses.                                                                *)

\* A variable's set is created with the variable.
WithSet(d, g) == [d EXCEPT !.sets = @ \cup ({g} \ {None})]
Put(d, k, x) == [d EXCEPT !.vars[k] = x]

AfterSet(d, k, v) ==
    {Put(d, k, [val |-> v, set |-> IF d.vars[k] = None THEN None ELSE d.vars[k].set])}
AfterSetVariable(d, k, x) == {WithSet(Put(d, k, x), x.set)}
AfterDelete(d, k) == {Put(d, k, None) : x \in {d.vars[k]} \ {None}}
AfterImport(d, f) ==
    {[vars |-> [k \in Keys |-> IF f[k] = None THEN d.vars[k] ELSE f[k]],
      sets |-> d.sets \cup ({f[k].set : k \in {j \in Keys : f[j] # None}} \ {None})]}
AfterSetSecretSet(d, k, g) ==
    {WithSet(Put(d, k, [x EXCEPT !.set = g]), g) : x \in {d.vars[k]} \ {None}}
AfterCreateSet(d, g) == {[d EXCEPT !.sets = @ \cup {g}] : h \in {g} \ d.sets}
\* Mutant: the variables of a deleted set keep its name.
AfterDeleteSetOnly(d, g) == {[d EXCEPT !.sets = @ \ {g}] : h \in {g} \cap d.sets}

AfterDeleteSet(d, g) ==
    {[vars |-> [k \in Keys |-> IF d.vars[k] # None /\ d.vars[k].set = g
                               THEN [d.vars[k] EXCEPT !.set = None] ELSE d.vars[k]],
      sets |-> d.sets \ {g}] : h \in {g} \cap d.sets}

-----------------------------------------------------------------------------
(* Writing the files                                                       *)

\* Nobody has the mutex of Store s; nobody has the file lock.
MutexFree(s) == holder = None \/ StoreOf(holder) # s
LockFree == holder = None

\* A command ends with its operation, and its Store with it.
Kept(s, m) == IF s = Daemon THEN m ELSE NewStore

\* Writing a file makes every other Store's stamp of it an old one.
Outdate(s, m, encrypted) ==
    [t \in Stores |-> IF t = s THEN m
                      ELSE [mem[t] EXCEPT !.fresh = @ /\ mem[t].encrypted # encrypted]]

\* saveLocked of memory m by the Store s.
saveLocked(s, m) ==
    IF m.encrypted /\ m.passphrase # None
    THEN /\ enc' = [doc |-> m.doc, passphrase |-> m.passphrase]
         /\ mem' = Outdate(s, Kept(s, Stamp(m, enc', plain)), TRUE)
         /\ UNCHANGED plain
    ELSE /\ plain' = m.doc
         /\ mem' = Outdate(s, Kept(s, Stamp(m, enc, plain')), FALSE)
         /\ UNCHANGED enc

Return(c) ==
    /\ pc' = [pc EXCEPT ![c] = "idle"]
    /\ held' = [held EXCEPT ![c] = None]
    /\ clear' = [clear EXCEPT ![c] = TRUE]

\* A mutation by caller c, whose operation turns a document into one of
\* After(document): loadLocked, the change, saveLocked, under both locks.
Mutate(c, After(_), blind) ==
    LET s == StoreOf(c)
        m == loadLocked(mem[s])
    IN  /\ LockFree /\ ~WrongKey(mem[s])
        /\ \E d \in After(m.doc) :
               saveLocked(s, [m EXCEPT !.doc = d, !.dirty = FALSE])
        /\ lapse' = (lapse \/ blind \/ ~clear[c])
        /\ IF lapse' THEN acked' = EmptyDoc ELSE acked' \in After(acked)
        /\ Return(c)
        /\ UNCHANGED <<holder, torn>>

Checked(c) == pc[c] = "checked"

Set(c) ==
    Checked(c) /\ \E k \in Keys, v \in Vals : Mutate(c, LAMBDA d : AfterSet(d, k, v), FALSE)
SetVariable(c) ==
    Checked(c) /\ \E k \in Keys, x \in Var : Mutate(c, LAMBDA d : AfterSetVariable(d, k, x), FALSE)
Delete(c) ==
    Checked(c) /\ \E k \in Keys : Mutate(c, LAMBDA d : AfterDelete(d, k), FALSE)
ImportVariables(c) ==
    Checked(c) /\ \E f \in [Keys -> Var \cup {None}] : Mutate(c, LAMBDA d : AfterImport(d, f), FALSE)
SetSecretSet(c) ==
    Checked(c) /\ \E k \in Keys, g \in SetNames \cup {None} :
                      Mutate(c, LAMBDA d : AfterSetSecretSet(d, k, g), FALSE)
CreateSet(c) ==
    Checked(c) /\ \E g \in SetNames : Mutate(c, LAMBDA d : AfterCreateSet(d, g), FALSE)
DeleteSet(c) ==
    Checked(c) /\ \E g \in SetNames : Mutate(c, LAMBDA d : AfterDeleteSet(d, g), FALSE)

\* A request or command gives up: bad arguments, "not found", the wait for the
\* file lock, or loadLocked that fails or succeeds before an operation refuses.
Refuse(c) ==
    /\ pc[c] \in {"loaded", "checked", "put"} /\ MutexFree(StoreOf(c))
    /\ LET s == StoreOf(c) IN
       \/ mem' = [mem EXCEPT ![s] = Kept(s, @)]
       \/ LockFree /\ mem' = [mem EXCEPT ![s] = Kept(s, loadLocked(@))]
    /\ Return(c)
    /\ UNCHANGED <<plain, enc, holder, acked, lapse, torn>>

\* saveLocked fails after the change: only ImportVariables takes it back.
SaveFails(c) ==
    LET s == StoreOf(c)
        m == loadLocked(mem[s])
    IN  /\ Checked(c) /\ LockFree /\ ~WrongKey(mem[s])
        /\ \E k \in Keys, x \in Var : \E d \in AfterSetVariable(m.doc, k, x) :
               mem' = [mem EXCEPT ![s] = Kept(s, [m EXCEPT !.doc = d, !.dirty = (d # m.doc)])]
        /\ lapse' = (lapse \/ NoFile(mem[s]))
        /\ acked' = IF lapse' THEN EmptyDoc ELSE acked
        /\ Return(c)
        /\ UNCHANGED <<plain, enc, holder, torn>>

-----------------------------------------------------------------------------
(* The daemon's handlers                                                   *)

\* A handler, or a reader such as List and Values: IsLocked, which reloads.
\* A locked store answers 423.
Look(c) ==
    /\ c \in Requests /\ pc[c] = "idle" /\ MutexFree(Daemon)
    /\ mem' = [mem EXCEPT ![Daemon] = reloadIfChanged(@)]
    /\ \/ UNCHANGED pc
       \/ ~mem'[Daemon].locked /\ pc' = [pc EXCEPT ![c] = "checked"]
    /\ UNCHANGED <<plain, enc, held, holder>> /\ UNCHANGED ghosts

\* handleVaultKeyPut: the stored variable, or a new one, is read ...
PutReads(c) ==
    /\ c \in Requests /\ Checked(c) /\ MutexFree(Daemon)
    /\ mem' = [mem EXCEPT ![Daemon] = reloadIfChanged(@)]
    /\ \E k \in Keys :
           held' = [held EXCEPT ![c] = [key |-> k, var |-> mem'[Daemon].doc.vars[k]]]
    /\ pc' = [pc EXCEPT ![c] = "put"]
    /\ UNCHANGED <<plain, enc, holder>> /\ UNCHANGED ghosts

\* ... and, with the fields of the request changed, written back whole.
Changed(x, v, g) ==
    [val |-> IF v = None THEN x.val ELSE v, set |-> IF g = None THEN x.set ELSE g]
PutWrites(c) ==
    /\ pc[c] = "put"
    /\ \E v \in Vals \cup {None}, g \in SetNames \cup {None} :
           LET k == held[c].key
               old == IF held[c].var = None THEN [val |-> v, set |-> None] ELSE held[c].var
           IN  old.val # None /\ Mutate(c, LAMBDA d : AfterSetVariable(d, k, Changed(old, v, g)),
                      loadLocked(mem[Daemon]).doc.vars[k] # held[c].var)

\* Unlock, by a handler that saw the store locked or by a command.
Unlock(c, p) ==
    LET s == StoreOf(c) IN
    /\ LockFree /\ mem[s].locked
    /\ enc # None /\ enc.passphrase = p
    /\ mem' = [mem EXCEPT ![s] = [@ EXCEPT !.doc = enc.doc, !.locked = FALSE,
                                            !.passphrase = p, !.fresh = TRUE, !.dirty = FALSE]]

\* handleVaultUnlock; its IsLocked is a Look.
UnlockRequest(c) ==
    /\ c \in Requests /\ pc[c] = "idle"
    /\ \E p \in Passphrases : Unlock(c, p)
    /\ UNCHANGED <<plain, enc, pc, held, holder>> /\ UNCHANGED ghosts

\* Lock, up to the rename of secrets.enc.
LockWrites(c, p, blind) ==
    LET s == StoreOf(c)
        m == loadLocked(mem[s])
    IN  /\ LockFree /\ ~WrongKey(mem[s])
        /\ enc' = [doc |-> m.doc, passphrase |-> p]
        /\ mem' = Outdate(s, m, TRUE)
        /\ holder' = c /\ pc' = [pc EXCEPT ![c] = "locking"]
        /\ lapse' = (lapse \/ blind)
        /\ acked' = IF lapse' THEN EmptyDoc ELSE acked
        /\ clear' = [x \in Callers |-> pc[x] = "idle" \/ (clear[x] /\ (StoreOf(x) = s \/ enc # None))]
        /\ UNCHANGED <<plain, held, torn>>

\* Mutant: secrets.json is kept.
LockRemovesNothing(c) ==
    LET s == StoreOf(c) IN
    /\ pc[c] = "locking"
    /\ mem' = [mem EXCEPT ![s] = Kept(s, [@ EXCEPT !.encrypted = TRUE, !.locked = FALSE,
                                              !.passphrase = enc.passphrase, !.fresh = TRUE])]
    /\ holder' = None /\ Return(c)
    /\ UNCHANGED <<plain, enc, acked, lapse, torn>>

\* The removal of secrets.json, whose failure is ignored, and the new state.
LockRemoves(c) ==
    LET s == StoreOf(c) IN
    /\ pc[c] = "locking"
    /\ \/ plain' = None /\ UNCHANGED torn
       \/ plain # None /\ UNCHANGED plain /\ torn' = TRUE
    /\ mem' = [mem EXCEPT ![s] = Kept(s, [@ EXCEPT !.encrypted = TRUE, !.locked = FALSE,
                                              !.passphrase = enc.passphrase, !.fresh = TRUE])]
    /\ holder' = None /\ Return(c)
    /\ UNCHANGED <<enc, acked, lapse>>

\* handleVaultLock: Lock, whatever the store's state.
LockRequest(c) ==
    /\ c \in Requests /\ pc[c] = "idle"
    /\ \E p \in Passphrases :
           LockWrites(c, p, mem[Daemon].locked \/ mem[Daemon].encrypted # (enc # None))

-----------------------------------------------------------------------------
(* Commands, crashes and the user                                          *)

\* loadVault.
CommandLoads(c) ==
    /\ c \in Commands /\ pc[c] = "idle"
    /\ mem' = [mem EXCEPT ![c] = Load]
    /\ pc' = [pc EXCEPT ![c] = "loaded"]
    /\ UNCHANGED <<plain, enc, held, holder>> /\ UNCHANGED ghosts

\* ensureUnlocked: IsLocked, and Unlock with the passphrase of the user.
EnsureUnlocked(c) ==
    /\ c \in Commands /\ pc[c] = "loaded"
    /\ \/ /\ mem' = [mem EXCEPT ![c] = reloadIfChanged(@)]
          /\ pc' = [pc EXCEPT ![c] = IF mem'[c].locked THEN "loaded" ELSE "checked"]
       \/ /\ \E p \in Passphrases : Unlock(c, p)
          /\ pc' = [pc EXCEPT ![c] = "checked"]
    /\ clear' = [clear EXCEPT ![c] = TRUE]
    /\ UNCHANGED <<plain, enc, held, holder, acked, lapse, torn>>

\* runVarLock; the passphrase is prompted for after the store is unlocked.
LockCommand(c) ==
    /\ c \in Commands /\ Checked(c)
    /\ \E p \in Passphrases : LockWrites(c, p, ~clear[c])

\* runVarChangePassphrase, given the old passphrase: the key is encrypted anew,
\* the variables are not read, and the command ends.
ChangePassphrase(c) ==
    /\ c \in Commands /\ pc[c] = "loaded" /\ LockFree
    /\ mem[c].encrypted /\ enc # None
    /\ \E p \in Passphrases :
           /\ enc' = [enc EXCEPT !.passphrase = p]
           /\ mem' = Outdate(c, NewStore, TRUE)
    /\ Return(c)
    /\ UNCHANGED <<plain, holder, acked, lapse, torn>>

\* The daemon, or a command, ends at any point, and with it its callers, its
\* memory and its lock.  The daemon starts again with Load and, when the
\* environment has the passphrase, Unlock.
Crash(s) ==
    /\ \E c \in Callers : StoreOf(c) = s /\ (s = Daemon \/ pc[c] # "idle")
    /\ pc' = [c \in Callers |-> IF StoreOf(c) = s THEN "idle" ELSE pc[c]]
    /\ held' = [c \in Callers |-> IF StoreOf(c) = s THEN None ELSE held[c]]
    /\ clear' = [c \in Callers |-> StoreOf(c) = s \/ clear[c]]
    /\ holder' = IF MutexFree(s) THEN holder ELSE None
    /\ torn' = (torn \/ (~MutexFree(s) /\ plain # None))
    /\ mem' = [mem EXCEPT ![s] = Kept(s, Load)]
    /\ UNCHANGED <<plain, enc, acked, lapse>>

\* The user puts a secrets.json back in the place of secrets.enc.
Restore ==
    /\ LockFree /\ enc # None
    /\ enc' = None /\ plain' = enc.doc
    /\ mem' = Outdate(None, NewStore, FALSE)
    /\ clear' = [c \in Callers |-> pc[c] = "idle"]
    /\ UNCHANGED <<pc, held, holder, acked, lapse, torn>>

-----------------------------------------------------------------------------
VaultInit ==
    /\ plain \in {None, EmptyDoc} /\ enc = None
    /\ mem = [s \in Stores |-> IF s = Daemon THEN Load ELSE NewStore]
    /\ pc = [c \in Callers |-> "idle"] /\ held = [c \in Callers |-> None] /\ holder = None
    /\ acked = EmptyDoc /\ clear = [c \in Callers |-> TRUE]
    /\ lapse = FALSE /\ torn = FALSE

Next ==
    \/ \E c \in Callers :
           \/ Set(c) \/ SetVariable(c) \/ Delete(c) \/ ImportVariables(c)
           \/ SetSecretSet(c) \/ CreateSet(c) \/ DeleteSet(c)
           \/ Refuse(c) \/ SaveFails(c)
           \/ Look(c) \/ PutReads(c) \/ PutWrites(c) \/ UnlockRequest(c) \/ LockRequest(c)
           \/ LockRemoves(c)
           \/ CommandLoads(c) \/ EnsureUnlocked(c) \/ LockCommand(c) \/ ChangePassphrase(c)
    \/ \E s \in Stores : Crash(s)
    \/ Restore

Spec == VaultInit /\ [][Next]_vars
-----------------------------------------------------------------------------
(* Properties                                                              *)

\* Types of the two files, of each process's copy of the store, and of what each
\* request carries.
VaultTypeOK ==
    /\ plain \in Doc \cup {None}
    /\ enc \in [doc : Doc, passphrase : Passphrases] \cup {None}
    /\ mem \in [Stores -> Memory]
    /\ pc \in [Callers -> {"idle", "loaded", "checked", "put", "locking"}]
    /\ held \in [Callers -> [key : Keys, var : Var \cup {None}] \cup {None}]
    /\ holder \in Callers \cup {None}
    /\ acked \in Doc /\ clear \in [Callers -> BOOLEAN]
    /\ lapse \in BOOLEAN /\ torn \in BOOLEAN

\* No acknowledged write is lost or undone, and no refused one appears: the
\* file holds exactly what the successful calls of all processes add up to,
\* through locks, unlocks, changes of passphrase, restores and crashes.  The
\* exceptions are the writes the code makes blind: after another process locked
\* or restored the store between a caller's IsLocked and its operation; by the
\* lock handler, which does not look at the store; by a PUT whose variable
\* changed after it was read; and the one a failed first save leaves in memory.
KeptUnlessBlind == ~lapse => Stored = acked

\* reloadIfChanged may trust a stamp: a Store that is unlocked, knows which of
\* the files counts and has its stamp, has its contents (unless its own save
\* has failed).
CacheIsCurrent ==
    \A s \in Stores :
        (mem[s].fresh /\ ~mem[s].locked /\ ~mem[s].dirty /\ mem[s].encrypted = (enc # None))
            => mem[s].doc = Stored

\* Once locked, the store is not left in plaintext beside its encrypted copy,
\* unless the removal failed, was cut short, or a blind write brought it back.
NoPlaintextCopy ==
    (enc # None /\ plain # None) => (lapse \/ torn \/ holder # None)

\* Lock encrypts the store: no variable it holds is lost or changed by a Lock.
LockKeepsVariables ==
    [][\A c \in Callers, k \in Keys :
           (pc[c] # "locking" /\ pc'[c] = "locking" /\ Stored.vars[k] # None)
               => Stored'.vars[k] = Stored.vars[k]]_vars

\* The document in the files is what VariableStore keeps: locks, changes of
\* passphrase, restores, crashes and failed saves leave it alone, and every
\* operation of any process changes it at once, as VariableStore says.
Abstract == INSTANCE VariableStore WITH
    entries <- Stored.vars, sets <- Stored.sets, trusted <- ~lapse

ImplementsVariableStore == Abstract!Spec
=============================================================================
