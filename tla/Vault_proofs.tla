---------------------------- MODULE Vault_proofs ----------------------------
(***************************************************************************)
(* The safety of the variable store, for any requests, commands, variables,*)
(* sets and passphrases, and the proof that it implements VariableStore.   *)
(***************************************************************************)
EXTENDS Vault, TLAPS

\* What a Store's memory m may be.  It knows its mode: a Store that is not locked
\* has the passphrase that it encrypts with.  It is current if its stamp says so.
\* Before the first write there is nothing that it could have read.
Moded(m) == (m.locked => m.encrypted) /\ ((m.encrypted /\ ~m.locked) => m.passphrase # None)
Current(m) == (m.fresh /\ ~m.locked /\ ~m.dirty /\ (m.encrypted <=> enc # None)) => m.doc = Stored
Unread(m) == ~m.fresh /\ ~m.encrypted /\ (~lapse => m.doc = EmptyDoc)
Sound(m) ==
    m \in Memory /\ Moded(m) /\ Current(m) /\ ((enc = None /\ plain = None) => Unread(m))
StoresSound == \A s \in Stores : Sound(mem[s])

\* Between its two steps, Lock has the locks, and its memory is what it wrote.
LockingSound ==
    /\ \A c \in Callers : pc[c] = "locking" <=> holder = c
    /\ holder # None => (enc # None /\ mem[StoreOf(holder)].doc = enc.doc)

\* A caller that has looked, and was not overtaken since, has a Store that knows
\* which file counts and can write it.
Knows(m) == (m.encrypted <=> enc # None) /\ ~m.locked
Looked ==
    ~lapse => \A c \in Callers :
        (pc[c] \in {"checked", "put"} /\ clear[c] /\ MutexFree(StoreOf(c))) => Knows(mem[StoreOf(c)])

\* Who waits for nothing was overtaken by nobody; a PUT carries what it has read.
CallersSound ==
    \A c \in Callers : /\ pc[c] = "idle" => clear[c]
                       /\ pc[c] = "put" => held[c] \in [key : Keys, var : Var \cup {None}]

VaultInv ==
    VaultTypeOK /\ StoresSound /\ LockingSound /\ Looked /\ CallersSound /\ KeptUnlessBlind /\ NoPlaintextCopy

-----------------------------------------------------------------------------
(* Documents                                                               *)

LEMMA EmptyIsDoc == EmptyDoc \in Doc
  BY DEF EmptyDoc, Doc

LEMMA StoredCases ==
    /\ enc # None => Stored = enc.doc
    /\ (enc = None /\ plain # None) => Stored = plain
    /\ (enc = None /\ plain = None) => Stored = EmptyDoc
  BY DEF Stored

LEMMA PutIsDoc ==
    ASSUME NEW d \in Doc, NEW k \in Keys, NEW x \in Var \cup {None}
    PROVE  Put(d, k, x) \in Doc
  BY DEF Put, Doc

LEMMA WithSetIsDoc ==
    ASSUME NEW d \in Doc, NEW g \in SetNames \cup {None}
    PROVE  WithSet(d, g) \in Doc
  BY DEF WithSet, Doc

\* What an operation leaves is a document, and no other.
Determines(A) == \A e, f \in A : e = f /\ e \in Doc

LEMMA SetDetermines ==
    ASSUME NEW d \in Doc, NEW k \in Keys, NEW v \in Vals
    PROVE  Determines(AfterSet(d, k, v))
  <1> DEFINE x == [val |-> v, set |-> IF d.vars[k] = None THEN None ELSE d.vars[k].set]
  <1>1. d.vars[k] \in Var \cup {None}
    BY DEF Doc
  <1>2. x \in Var
    BY <1>1 DEF Var
  <1>3. Put(d, k, x) \in Doc
    <2> HIDE DEF x
    <2> QED BY <1>2, PutIsDoc
  <1> QED BY <1>3 DEF AfterSet, Determines

LEMMA SetVariableDetermines ==
    ASSUME NEW d \in Doc, NEW k \in Keys, NEW x \in Var
    PROVE  Determines(AfterSetVariable(d, k, x))
  <1>1. Put(d, k, x) \in Doc /\ x.set \in SetNames \cup {None}
    BY PutIsDoc DEF Var
  <1> QED BY <1>1, WithSetIsDoc DEF AfterSetVariable, Determines

LEMMA DeleteDetermines ==
    ASSUME NEW d \in Doc, NEW k \in Keys
    PROVE  Determines(AfterDelete(d, k))
  <1>1. Put(d, k, None) \in Doc
    BY PutIsDoc
  <1> QED BY <1>1 DEF AfterDelete, Determines

LEMMA ImportDetermines ==
    ASSUME NEW d \in Doc, NEW f \in [Keys -> Var \cup {None}]
    PROVE  Determines(AfterImport(d, f))
  <1> DEFINE vs == [k \in Keys |-> IF f[k] = None THEN d.vars[k] ELSE f[k]]
             ss == d.sets \cup ({f[k].set : k \in {j \in Keys : f[j] # None}} \ {None})
  <1>1. vs \in [Keys -> Var \cup {None}]
    BY DEF Doc
  <1>2. \A k \in Keys : f[k] # None => f[k].set \in SetNames \cup {None}
    BY DEF Var
  <1>3. ss \in SUBSET SetNames
    BY <1>2 DEF Doc
  <1>4. [vars |-> vs, sets |-> ss] \in Doc
    <2> HIDE DEF vs, ss
    <2> QED BY <1>1, <1>3 DEF Doc
  <1> QED BY <1>4 DEF AfterImport, Determines

LEMMA SetSecretSetDetermines ==
    ASSUME NEW d \in Doc, NEW k \in Keys, NEW g \in SetNames \cup {None}
    PROVE  Determines(AfterSetSecretSet(d, k, g))
  <1>1. d.vars[k] \in Var \cup {None}
    BY DEF Doc
  <1>2. \A x \in Var : [x EXCEPT !.set = g] \in Var
    BY DEF Var
  <1>3. \A x \in Var : WithSet(Put(d, k, [x EXCEPT !.set = g]), g) \in Doc
    <2> SUFFICES ASSUME NEW x \in Var PROVE WithSet(Put(d, k, [x EXCEPT !.set = g]), g) \in Doc
      OBVIOUS
    <2>1. PICK y \in Var : y = [x EXCEPT !.set = g]
      BY <1>2
    <2> QED BY <2>1, PutIsDoc, WithSetIsDoc
  <1> QED BY <1>1, <1>3 DEF AfterSetSecretSet, Determines

LEMMA CreateSetDetermines ==
    ASSUME NEW d \in Doc, NEW g \in SetNames
    PROVE  Determines(AfterCreateSet(d, g))
  <1>1. [d EXCEPT !.sets = @ \cup {g}] \in Doc
    BY DEF Doc
  <1> QED BY <1>1 DEF AfterCreateSet, Determines

LEMMA DeleteSetDetermines ==
    ASSUME NEW d \in Doc, NEW g \in SetNames
    PROVE  Determines(AfterDeleteSet(d, g))
  <1> DEFINE vs == [k \in Keys |-> IF d.vars[k] # None /\ d.vars[k].set = g
                                   THEN [d.vars[k] EXCEPT !.set = None] ELSE d.vars[k]]
             ss == d.sets \ {g}
  <1>1. \A k \in Keys : d.vars[k] \in Var \cup {None}
    BY DEF Doc
  <1>2. \A x \in Var : [x EXCEPT !.set = None] \in Var
    BY DEF Var
  <1>3. vs \in [Keys -> Var \cup {None}]
    BY <1>1, <1>2
  <1>4. ss \in SUBSET SetNames
    BY DEF Doc
  <1>5. [vars |-> vs, sets |-> ss] \in Doc
    <2> HIDE DEF vs, ss
    <2> QED BY <1>3, <1>4 DEF Doc
  <1> QED BY <1>5 DEF AfterDeleteSet, Determines

-----------------------------------------------------------------------------
(* The memory of a Store                                                   *)

LEMMA MemoryFields ==
    ASSUME NEW m \in Memory
    PROVE  /\ m.doc \in Doc /\ m.passphrase \in Passphrases \cup {None}
           /\ m.encrypted \in BOOLEAN /\ m.locked \in BOOLEAN /\ m.fresh \in BOOLEAN /\ m.dirty \in BOOLEAN
  BY DEF Memory

\* Memory with another document.
LEMMA WithDoc ==
    ASSUME NEW m \in Memory, NEW d \in Doc, NEW b \in BOOLEAN, NEW n, n = [m EXCEPT !.doc = d, !.dirty = b]
    PROVE  /\ n \in Memory /\ n.doc = d /\ (n.dirty <=> b) /\ (n.encrypted <=> m.encrypted)
           /\ (n.locked <=> m.locked) /\ n.passphrase = m.passphrase /\ (n.fresh <=> m.fresh)
  BY DEF Memory

\* Memory with another stamp.
LEMMA WithStamp ==
    ASSUME NEW m \in Memory, NEW b \in BOOLEAN, NEW n, n = [m EXCEPT !.fresh = b]
    PROVE  /\ n \in Memory /\ n.doc = m.doc /\ (n.dirty <=> m.dirty) /\ (n.encrypted <=> m.encrypted)
           /\ (n.locked <=> m.locked) /\ n.passphrase = m.passphrase /\ (n.fresh <=> b)
  BY DEF Memory

LEMMA NewStoreIs ==
    /\ NewStore \in Memory /\ NewStore.doc = EmptyDoc /\ ~NewStore.encrypted /\ ~NewStore.locked
    /\ ~NewStore.fresh /\ ~NewStore.dirty
  BY EmptyIsDoc DEF NewStore, Memory

FilesTyped ==
    plain \in Doc \cup {None} /\ enc \in [doc : Doc, passphrase : Passphrases] \cup {None}

LEMMA EncFields ==
    ASSUME FilesTyped, enc # None
    PROVE  enc.doc \in Doc /\ enc.passphrase \in Passphrases /\ enc.passphrase # None
  BY VaultAssumption DEF FilesTyped

LEMMA StoredIsDoc == FilesTyped => Stored \in Doc
  BY StoredCases, EncFields, EmptyIsDoc DEF FilesTyped

LEMMA LoadIs ==
    ASSUME FilesTyped
    PROVE  /\ Load \in Memory /\ ~Load.dirty
           /\ enc # None => (Load.encrypted /\ Load.locked /\ Load.fresh)
           /\ (enc = None /\ plain # None) => (Load.doc = plain /\ ~Load.encrypted /\ ~Load.locked /\ Load.fresh)
           /\ (enc = None /\ plain = None) => Load = NewStore
  <1>1. CASE enc # None
    <2>1. Load = [NewStore EXCEPT !.encrypted = TRUE, !.locked = TRUE, !.fresh = TRUE]
      BY <1>1 DEF Load
    <2> QED BY <1>1, <2>1, EmptyIsDoc DEF NewStore, Memory
  <1>2. CASE enc = None /\ plain # None
    <2>1. Load = [NewStore EXCEPT !.doc = plain, !.fresh = TRUE] /\ plain \in Doc
      BY <1>2 DEF Load, FilesTyped
    <2> QED BY <1>2, <2>1 DEF NewStore, Memory
  <1>3. CASE enc = None /\ plain = None
    <2>1. Load = NewStore
      BY <1>3 DEF Load
    <2> QED BY <1>3, <2>1, NewStoreIs
  <1> QED BY <1>1, <1>2, <1>3

LEMMA NewStoreSound == Sound(NewStore)
  BY NewStoreIs DEF Sound, Moded, Current, Unread

LEMMA LoadSound ==
    ASSUME FilesTyped
    PROVE  Sound(Load) /\ (~Load.locked => Knows(Load))
  BY LoadIs, NewStoreIs, StoredCases DEF Sound, Moded, Current, Unread, Knows

\* What loadLocked leaves alone, and what it reads.
Reads(m, n) ==
    /\ n \in Memory /\ (n.encrypted <=> m.encrypted) /\ (n.locked <=> m.locked) /\ n.passphrase = m.passphrase
    /\ IF NoFile(m) \/ WrongKey(m) THEN n = m
       ELSE /\ n.doc = (IF Keyed(m) THEN enc.doc ELSE plain) /\ ~n.dirty
            /\ n.fresh <=> (IF m.encrypted THEN enc # None ELSE plain # None)

LEMMA loadLockedReads ==
    ASSUME FilesTyped, NEW m \in Memory
    PROVE  Reads(m, loadLocked(m))
  <1>1. CASE NoFile(m) \/ WrongKey(m)
    BY <1>1 DEF loadLocked, Reads
  <1>2. CASE ~(NoFile(m) \/ WrongKey(m))
    <2>1. PICK d \in Doc : d = IF Keyed(m) THEN enc.doc ELSE plain
      BY <1>2, EncFields, MemoryFields DEF NoFile, FilesTyped
    <2>2. PICK w : w = [m EXCEPT !.doc = d, !.dirty = FALSE]
      OBVIOUS
    <2>3. /\ w \in Memory /\ w.doc = d /\ ~w.dirty /\ (w.encrypted <=> m.encrypted)
          /\ (w.locked <=> m.locked) /\ w.passphrase = m.passphrase
      BY <2>2 DEF Memory
    <2>4. PICK b \in BOOLEAN : b = IF w.encrypted THEN enc # None ELSE plain # None
      OBVIOUS
    <2>5. loadLocked(m) = [w EXCEPT !.fresh = b]
      BY <1>2, <2>1, <2>2, <2>4 DEF loadLocked, Stamp
    <2>6. /\ loadLocked(m) \in Memory /\ loadLocked(m).doc = d /\ ~loadLocked(m).dirty
          /\ (loadLocked(m).encrypted <=> m.encrypted) /\ (loadLocked(m).locked <=> m.locked)
          /\ loadLocked(m).passphrase = m.passphrase /\ (loadLocked(m).fresh <=> b)
      BY <2>3, <2>5, WithStamp
    <2>7. b <=> IF m.encrypted THEN enc # None ELSE plain # None
      BY <2>3, <2>4, MemoryFields
    <2> QED BY <1>2, <2>1, <2>6, <2>7 DEF Reads
  <1> QED BY <1>1, <1>2

\* Reading keeps the memory sound; a Store that knows its file reads what is stored.
LEMMA ReadsSound ==
    ASSUME FilesTyped, NEW m, Sound(m), NEW n, Reads(m, n)
    PROVE  /\ Sound(n) /\ (Knows(m) => Knows(n))
           /\ (Knows(m) /\ ~WrongKey(m) /\ ~lapse) => n.doc = Stored
  <1>0. m \in Memory /\ n \in Memory
    BY DEF Sound, Reads
  <1>1. Moded(n) /\ (Knows(m) => Knows(n))
    BY DEF Sound, Reads, Moded, Knows
  <1>2. CASE NoFile(m) \/ WrongKey(m)
    <2>1. n = m
      BY <1>2 DEF Reads
    <2>2. (Knows(m) /\ ~WrongKey(m) /\ ~lapse) => n.doc = Stored
      BY <1>2, <2>1, StoredCases DEF NoFile, Keyed, Knows, Sound, Moded, Unread
    <2> QED BY <1>1, <2>1, <2>2
  <1>3. CASE ~(NoFile(m) \/ WrongKey(m))
    <2>1. n.doc = (IF Keyed(m) THEN enc.doc ELSE plain) /\ ~n.dirty
      BY <1>3 DEF Reads
    <2>2. IF Keyed(m) THEN enc # None ELSE plain # None
      BY <1>3 DEF NoFile
    <2>3. Current(n)
      BY <2>1, <2>2, StoredCases DEF Current, Reads, Sound, Moded, Keyed
    <2>4. (enc = None /\ plain = None) => FALSE
      BY <2>2
    <2>5. (Knows(m) /\ ~WrongKey(m) /\ ~lapse) => n.doc = Stored
      BY <2>1, <2>2, StoredCases DEF Keyed, Knows, Sound, Moded
    <2> QED BY <1>0, <1>1, <2>3, <2>4, <2>5 DEF Sound
  <1> QED BY <1>2, <1>3

\* loadLocked finds a plaintext file where the Store knew an encrypted one.
LEMMA RestoredSound ==
    ASSUME FilesTyped, NEW m \in Memory, enc = None, plain # None, NEW n,
           n = loadLocked([m EXCEPT !.encrypted = FALSE, !.locked = FALSE, !.passphrase = None])
    PROVE  Sound(n) /\ Knows(n)
  <1>1. PICK w : w = [m EXCEPT !.encrypted = FALSE, !.locked = FALSE, !.passphrase = None]
    OBVIOUS
  <1>2. w \in Memory /\ ~w.encrypted /\ ~w.locked
    BY <1>1 DEF Memory
  <1>3. Reads(w, n)
    BY <1>1, <1>2, loadLockedReads
  <1>4. ~NoFile(w) /\ ~WrongKey(w) /\ ~Keyed(w)
    BY <1>2 DEF NoFile, WrongKey, Keyed
  <1>5. n \in Memory /\ ~n.encrypted /\ ~n.locked /\ n.doc = plain
    BY <1>2, <1>3, <1>4 DEF Reads
  <1> QED BY <1>5, StoredCases DEF Sound, Moded, Current, Knows

\* reloadIfChanged leaves a Store that is locked or knows which file counts.
LEMMA ReloadSound ==
    ASSUME FilesTyped, NEW m, Sound(m), NEW n, n = reloadIfChanged(m)
    PROVE  Sound(n) /\ (~n.locked => Knows(n)) /\ (Knows(m) => Knows(n))
  <1>0. m \in Memory /\ (m.encrypted \in BOOLEAN)
    BY MemoryFields DEF Sound
  <1>r. PICK l : l = loadLocked(m)
    OBVIOUS
  <1>l. Sound(l) /\ (Knows(m) => Knows(l)) /\ (l.encrypted <=> m.encrypted) /\ (l.locked <=> m.locked)
    <2>1. Reads(m, l)
      BY <1>0, <1>r, loadLockedReads
    <2> QED BY <2>1, ReadsSound DEF Reads
  <1>1. CASE enc # None /\ ~m.encrypted
    <2>1. n = Load
      BY <1>1 DEF reloadIfChanged
    <2> QED BY <1>1, <2>1, LoadSound DEF Knows
  <1>2. CASE enc # None /\ m.encrypted
    <2>1. n = IF m.locked \/ m.fresh THEN m ELSE l
      BY <1>2, <1>r DEF reloadIfChanged
    <2> QED BY <1>2, <2>1, <1>l DEF Knows
  <1>3. CASE enc = None /\ plain # None /\ m.encrypted
    <2>1. n = loadLocked([m EXCEPT !.encrypted = FALSE, !.locked = FALSE, !.passphrase = None])
      BY <1>3 DEF reloadIfChanged
    <2> QED BY <1>0, <1>3, <2>1, RestoredSound
  <1>4. CASE enc = None /\ plain # None /\ ~m.encrypted
    <2>1. n = IF m.fresh THEN m ELSE l
      BY <1>4, <1>r DEF reloadIfChanged
    <2> QED BY <1>4, <2>1, <1>l DEF Knows
  <1>5. CASE enc = None /\ plain = None
    <2>1. n = m
      BY <1>5 DEF reloadIfChanged
    <2> QED BY <1>5, <2>1 DEF Knows, Sound, Unread
  <1> QED BY <1>0, <1>1, <1>2, <1>3, <1>4, <1>5

LEMMA KeptSound ==
    ASSUME NEW s, NEW m, Sound(m)
    PROVE  Sound(Kept(s, m))
  BY NewStoreSound DEF Kept

LEMMA SoundUnchanged ==
    ASSUME NEW m, Sound(m), UNCHANGED <<plain, enc>>, lapse => lapse'
    PROVE  Sound(m)'
  <1>1. Stored' = Stored
    BY DEF Stored
  <1> QED BY <1>1 DEF Sound, Current, Unread

LEMMA StoreOfIs ==
    ASSUME NEW c \in Callers
    PROVE  StoreOf(c) \in Stores /\ (c \in Requests => StoreOf(c) = Daemon) /\ (c \in Commands => StoreOf(c) = c)
  BY VaultAssumption DEF StoreOf, Callers, Stores

\* A command's Store is its own.
LEMMA CommandAlone ==
    ASSUME NEW c \in Callers, NEW x \in Callers, StoreOf(x) = StoreOf(c), StoreOf(c) # Daemon
    PROVE  x = c
  BY VaultAssumption DEF StoreOf, Callers, Stores

-----------------------------------------------------------------------------
(* Steps that touch the memory of one Store and no file                    *)

Working(c) == pc[c] \in {"checked", "put"} /\ clear[c]

LEMMA MemStepKeeps ==
    ASSUME VaultInv, NEW s \in Stores, MutexFree(s), UNCHANGED <<plain, enc, holder, torn>>,
           NEW n, mem' = [mem EXCEPT ![s] = n], Sound(n)',
           lapse' \in BOOLEAN, lapse => lapse', acked' \in Doc, lapse' \/ acked' = acked,
           pc' \in [Callers -> {"idle", "loaded", "checked", "put", "locking"}],
           held' \in [Callers -> [key : Keys, var : Var \cup {None}] \cup {None}],
           clear' \in [Callers -> BOOLEAN],
           \A c \in Callers : pc'[c] = "locking" <=> pc[c] = "locking",
           ~lapse' => \A c \in Callers : Working(c)' => IF StoreOf(c) = s THEN Knows(n) ELSE Working(c),
           CallersSound'
    PROVE  VaultInv'
  <1>m. mem \in [Stores -> Memory] /\ mem'[s] = n /\ \A t \in Stores : t # s => mem'[t] = mem[t]
    BY DEF VaultInv, VaultTypeOK
  <1>u. Stored' = Stored /\ (Knows(n)' <=> Knows(n))
    BY DEF Stored, Knows
  <1>1. VaultTypeOK'
    <2>1. mem' \in [Stores -> Memory]
      BY <1>m DEF Sound
    <2> QED BY <2>1 DEF VaultInv, VaultTypeOK
  <1>2. StoresSound'
    <2>1. ASSUME NEW t \in Stores PROVE Sound(mem[t])'
      <3>1. CASE t = s
        BY <1>m, <3>1
      <3>2. CASE t # s
        <4>1. PICK m : m = mem[t]
          OBVIOUS
        <4>2. Sound(m)'
          BY <4>1, SoundUnchanged DEF VaultInv, StoresSound
        <4> QED BY <3>2, <4>1, <4>2, <1>m
      <3> QED BY <3>1, <3>2
    <2> QED BY <2>1 DEF StoresSound
  <1>3. LockingSound'
    <2>1. holder # None => (StoreOf(holder) \in Stores /\ StoreOf(holder) # s)
      BY StoreOfIs DEF VaultInv, VaultTypeOK, MutexFree
    <2> QED BY <2>1, <1>m DEF VaultInv, LockingSound
  <1>4. Looked'
    <2> SUFFICES ASSUME ~lapse', NEW c \in Callers, Working(c)', MutexFree(StoreOf(c)) PROVE Knows(mem[StoreOf(c)])'
      BY DEF Looked, Working, MutexFree
    <2>1. CASE StoreOf(c) = s
      BY <2>1, <1>m, <1>u
    <2>2. CASE StoreOf(c) # s
      <3>1. Knows(mem[StoreOf(c)])
        BY <2>2 DEF VaultInv, Looked, Working
      <3> QED BY <2>2, <3>1, <1>m, StoreOfIs DEF Knows
    <2> QED BY <2>1, <2>2
  <1>5. KeptUnlessBlind'
    BY <1>u DEF VaultInv, KeptUnlessBlind
  <1>6. NoPlaintextCopy'
    BY DEF VaultInv, NoPlaintextCopy
  <1> QED BY <1>1, <1>2, <1>3, <1>4, <1>5, <1>6 DEF VaultInv

LEMMA FilesAreTyped == VaultInv => FilesTyped
  BY DEF VaultInv, VaultTypeOK, FilesTyped

LEMMA ReturnTyped ==
    ASSUME VaultInv, NEW c \in Callers, Return(c)
    PROVE  /\ pc' \in [Callers -> {"idle", "loaded", "checked", "put", "locking"}]
           /\ held' \in [Callers -> [key : Keys, var : Var \cup {None}] \cup {None}]
           /\ clear' \in [Callers -> BOOLEAN]
           /\ pc'[c] = "idle" /\ clear'[c]
           /\ \A x \in Callers : x # c => pc'[x] = pc[x] /\ held'[x] = held[x] /\ (clear'[x] <=> clear[x])
           /\ CallersSound'
  BY DEF Return, VaultInv, VaultTypeOK, CallersSound

\* Whoever does not hold the locks of its own Store finds its mutex free.
LEMMA OwnMutexFree ==
    ASSUME VaultInv, NEW c \in Commands, pc[c] # "locking"
    PROVE  MutexFree(c) /\ c \in Stores /\ StoreOf(c) = c /\ c \in Callers /\ c # Daemon
  <1>1. c \in Callers /\ c \in Stores /\ StoreOf(c) = c /\ c # Daemon
    BY StoreOfIs, VaultAssumption DEF Callers, Stores
  <1>2. holder # None => holder \in Callers /\ holder # c
    BY <1>1 DEF VaultInv, VaultTypeOK, LockingSound
  <1>3. MutexFree(c)
    BY <1>1, <1>2, CommandAlone DEF MutexFree
  <1> QED BY <1>1, <1>3

\* A caller ends its operation, and its Store keeps, or reads, what the file holds.
LEMMA ReturnKeeps ==
    ASSUME VaultInv, NEW c \in Callers, pc[c] # "locking", MutexFree(StoreOf(c)), Return(c),
           UNCHANGED <<plain, enc, holder, torn>>,
           NEW n, mem' = [mem EXCEPT ![StoreOf(c)] = Kept(StoreOf(c), n)], Sound(n)',
           Knows(mem[StoreOf(c)]) => Knows(n),
           lapse' \in BOOLEAN, lapse => lapse', acked' \in Doc, lapse' \/ acked' = acked
    PROVE  VaultInv'
  <1> DEFINE s == StoreOf(c)
  <1>1. PICK k : k = Kept(s, n)
    OBVIOUS
  <1>2. Sound(k)'
    <2>1. Sound(NewStore)'
      BY NewStoreIs DEF Sound, Moded, Current, Unread
    <2> QED BY <1>1, <2>1 DEF Kept
  <1>3. \A x \in Callers : pc'[x] = "locking" <=> pc[x] = "locking"
    BY ReturnTyped
  <1>4. ~lapse' => \A x \in Callers : Working(x)' => IF StoreOf(x) = s THEN Knows(k) ELSE Working(x)
    <2> SUFFICES ASSUME ~lapse', NEW x \in Callers, Working(x)' PROVE IF StoreOf(x) = s THEN Knows(k) ELSE Working(x)
      OBVIOUS
    <2>1. x # c /\ Working(x)
      BY ReturnTyped DEF Working
    <2>2. ASSUME StoreOf(x) = s PROVE Knows(k)
      <3>1. s = Daemon
        BY <2>1, <2>2, CommandAlone
      <3>2. Knows(mem[s])
        BY <2>1, <2>2 DEF VaultInv, Looked, Working
      <3> QED BY <1>1, <3>1, <3>2 DEF Kept
    <2> QED BY <2>1, <2>2
  <1>5. mem' = [mem EXCEPT ![s] = k]
    BY <1>1
  <1>6. s \in Stores
    BY StoreOfIs
  <1> HIDE DEF s
  <1>7. MutexFree(s)
    BY DEF s
  <1> QED BY <1>2, <1>3, <1>4, <1>5, <1>6, <1>7, ReturnTyped, MemStepKeeps

LEMMA RefuseKeeps ==
    ASSUME VaultInv, NEW c \in Callers, Refuse(c)
    PROVE  VaultInv'
  <1>1. PICK m : m = mem[StoreOf(c)]
    OBVIOUS
  <1>2. Sound(m) /\ m \in Memory
    BY <1>1, StoreOfIs DEF VaultInv, StoresSound, Sound
  <1>3. PICK l : l = loadLocked(m)
    OBVIOUS
  <1>4. Sound(l) /\ (Knows(m) => Knows(l))
    BY <1>2, <1>3, loadLockedReads, ReadsSound, FilesAreTyped
  <1>5. Sound(m)' /\ Sound(l)'
    BY <1>2, <1>4, SoundUnchanged DEF Refuse
  <1>6. /\ pc[c] # "locking" /\ MutexFree(StoreOf(c)) /\ Return(c)
        /\ UNCHANGED <<plain, enc, holder, torn>>
        /\ lapse' \in BOOLEAN /\ (lapse => lapse') /\ acked' \in Doc /\ (lapse' \/ acked' = acked)
    BY DEF Refuse, VaultInv, VaultTypeOK
  <1>7. CASE mem' = [mem EXCEPT ![StoreOf(c)] = Kept(StoreOf(c), m)]
    BY <1>1, <1>5, <1>6, <1>7, ReturnKeeps
  <1>8. CASE mem' = [mem EXCEPT ![StoreOf(c)] = Kept(StoreOf(c), l)]
    BY <1>1, <1>4, <1>5, <1>6, <1>8, ReturnKeeps
  <1> QED BY <1>1, <1>3, <1>7, <1>8 DEF Refuse

LEMMA SaveFailsKeeps ==
    ASSUME VaultInv, NEW c \in Callers, SaveFails(c)
    PROVE  VaultInv'
  <1>1. PICK m : m = mem[StoreOf(c)]
    OBVIOUS
  <1>2. Sound(m) /\ m \in Memory
    BY <1>1, StoreOfIs DEF VaultInv, StoresSound, Sound
  <1>3. PICK l : l = loadLocked(m)
    OBVIOUS
  <1>4. Sound(l) /\ (Knows(m) => Knows(l)) /\ l \in Memory /\ l.doc \in Doc
    BY <1>2, <1>3, loadLockedReads, ReadsSound, FilesAreTyped, MemoryFields DEF Sound
  <1>r. Reads(m, l)
    BY <1>2, <1>3, loadLockedReads, FilesAreTyped
  <1>w. ~WrongKey(m)
    BY <1>1 DEF SaveFails
  <1>5. PICK k \in Keys, x \in Var : \E d \in AfterSetVariable(loadLocked(mem[StoreOf(c)]).doc, k, x) :
            mem' = [mem EXCEPT ![StoreOf(c)] = Kept(StoreOf(c),
                [loadLocked(mem[StoreOf(c)]) EXCEPT !.doc = d, !.dirty = (d # loadLocked(mem[StoreOf(c)]).doc)])]
    BY DEF SaveFails
  <1>6. PICK d \in AfterSetVariable(loadLocked(mem[StoreOf(c)]).doc, k, x) :
            mem' = [mem EXCEPT ![StoreOf(c)] = Kept(StoreOf(c),
                [loadLocked(mem[StoreOf(c)]) EXCEPT !.doc = d, !.dirty = (d # loadLocked(mem[StoreOf(c)]).doc)])]
    BY <1>5
  <1>l. l = loadLocked(mem[StoreOf(c)])
    BY <1>1, <1>3
  <1>7. d \in Doc
    BY <1>4, <1>6, <1>l, SetVariableDetermines DEF Determines
  <1>9. PICK n : n = [l EXCEPT !.doc = d, !.dirty = (d # l.doc)]
    OBVIOUS
  <1>10. /\ n \in Memory /\ n.doc = d /\ (n.dirty <=> d # l.doc) /\ (n.encrypted <=> l.encrypted)
         /\ (n.locked <=> l.locked) /\ n.passphrase = l.passphrase /\ (n.fresh <=> l.fresh)
    BY <1>4, <1>7, <1>9 DEF Memory
  <1>11. /\ UNCHANGED <<plain, enc, holder, torn>> /\ Return(c) /\ pc[c] # "locking" /\ MutexFree(StoreOf(c))
         /\ lapse' = (lapse \/ NoFile(m)) /\ acked' = IF lapse' THEN EmptyDoc ELSE acked
    BY <1>1 DEF SaveFails, Checked, LockFree, MutexFree
  <1>12. lapse' \in BOOLEAN /\ (lapse => lapse') /\ acked' \in Doc /\ (lapse' \/ acked' = acked)
    BY <1>11, EmptyIsDoc DEF VaultInv, VaultTypeOK
  <1>13. Sound(n)'
    <2>1. Sound(l)'
      BY <1>4, <1>11, <1>12, SoundUnchanged
    <2>2. Current(n)'
      <3>1. CASE NoFile(m)
        <4>1. l = m
          BY <1>r, <3>1 DEF Reads
        <4>2. ~Keyed(m) => plain = None
          BY <3>1 DEF NoFile
        <4>3. Keyed(m) => enc = None
          BY <3>1 DEF NoFile
        <4> QED BY <1>2, <1>10, <1>11, <4>1, <4>2, <4>3 DEF Sound, Moded, Current, Unread, Keyed
      <3>2. CASE ~NoFile(m)
        <4>1. ~l.dirty
          BY <1>r, <1>w, <3>2 DEF Reads
        <4> QED BY <1>10, <2>1, <4>1 DEF Sound, Current
      <3> QED BY <3>1, <3>2
    <2>3. (enc' = None /\ plain' = None) => lapse'
      BY <1>2, <1>11 DEF Sound, Unread, NoFile, Keyed
    <2> QED BY <1>10, <2>1, <2>2, <2>3 DEF Sound, Moded, Unread
  <1>14. Knows(m) => Knows(n)
    BY <1>4, <1>10 DEF Knows
  <1>15. mem' = [mem EXCEPT ![StoreOf(c)] = Kept(StoreOf(c), n)]
    BY <1>6, <1>9, <1>l
  <1> QED BY <1>1, <1>11, <1>12, <1>13, <1>14, <1>15, ReturnKeeps

LEMMA LookKeeps ==
    ASSUME VaultInv, NEW c \in Callers, Look(c)
    PROVE  VaultInv'
  <1>1. PICK m : m = mem[Daemon]
    OBVIOUS
  <1>2. Daemon \in Stores /\ StoreOf(c) = Daemon /\ c \in Requests
    BY StoreOfIs DEF Look, Stores
  <1>3. Sound(m)
    BY <1>1, <1>2 DEF VaultInv, StoresSound
  <1>4. PICK n : n = reloadIfChanged(m)
    OBVIOUS
  <1>5. Sound(n) /\ (~n.locked => Knows(n)) /\ (Knows(m) => Knows(n))
    BY <1>3, <1>4, ReloadSound, FilesAreTyped
  <1>6. mem' = [mem EXCEPT ![Daemon] = n]
    BY <1>1, <1>4 DEF Look
  <1>7. UNCHANGED <<plain, enc, held, holder, acked, clear, lapse, torn>> /\ pc[c] = "idle" /\ MutexFree(Daemon)
    BY DEF Look, ghosts
  <1>8. Sound(n)' /\ mem'[Daemon] = n
    BY <1>2, <1>5, <1>6, <1>7, SoundUnchanged DEF VaultInv, VaultTypeOK
  <1>9. pc' = pc \/ (~n.locked /\ pc' = [pc EXCEPT ![c] = "checked"])
    BY <1>8 DEF Look
  <1>10. /\ pc' \in [Callers -> {"idle", "loaded", "checked", "put", "locking"}]
         /\ \A x \in Callers : (x # c => pc'[x] = pc[x]) /\ (pc'[x] = "locking" <=> pc[x] = "locking")
         /\ pc'[c] = "checked" => ~n.locked
         /\ pc'[c] \in {"idle", "checked"}
    BY <1>7, <1>9 DEF VaultInv, VaultTypeOK
  <1>11. ASSUME ~lapse', NEW x \in Callers, Working(x)'
         PROVE  IF StoreOf(x) = Daemon THEN Knows(n) ELSE Working(x)
    <2>1. CASE x = c
      BY <1>2, <1>5, <1>10, <1>11, <2>1 DEF Working
    <2>2. CASE x # c
      <3>1. Working(x)
        BY <1>7, <1>10, <1>11, <2>2 DEF Working
      <3>2. StoreOf(x) = Daemon => Knows(m)
        BY <1>1, <1>7, <1>11, <3>1 DEF VaultInv, Looked, Working
      <3> QED BY <1>5, <3>1, <3>2
    <2> QED BY <2>1, <2>2
  <1>12. CallersSound'
    BY <1>7, <1>10 DEF CallersSound, VaultInv
  <1>13. /\ lapse' \in BOOLEAN /\ acked' \in Doc /\ (lapse => lapse') /\ (lapse' \/ acked' = acked)
         /\ held' \in [Callers -> [key : Keys, var : Var \cup {None}] \cup {None}] /\ clear' \in [Callers -> BOOLEAN]
         /\ UNCHANGED <<plain, enc, holder, torn>>
    BY <1>7 DEF VaultInv, VaultTypeOK
  <1> QED BY <1>2, <1>6, <1>7, <1>8, <1>10, <1>11, <1>12, <1>13, MemStepKeeps

LEMMA PutReadsKeeps ==
    ASSUME VaultInv, NEW c \in Callers, PutReads(c)
    PROVE  VaultInv'
  <1>1. PICK m : m = mem[Daemon]
    OBVIOUS
  <1>2. Daemon \in Stores /\ StoreOf(c) = Daemon /\ c \in Requests
    BY StoreOfIs DEF PutReads, Stores
  <1>3. Sound(m)
    BY <1>1, <1>2 DEF VaultInv, StoresSound
  <1>4. PICK n : n = reloadIfChanged(m)
    OBVIOUS
  <1>5. Sound(n) /\ (~n.locked => Knows(n)) /\ (Knows(m) => Knows(n))
    BY <1>3, <1>4, ReloadSound, FilesAreTyped
  <1>6. mem' = [mem EXCEPT ![Daemon] = n]
    BY <1>1, <1>4 DEF PutReads
  <1>7. UNCHANGED <<plain, enc, holder, acked, clear, lapse, torn>> /\ pc[c] = "checked" /\ MutexFree(Daemon)
        /\ pc' = [pc EXCEPT ![c] = "put"]
    BY DEF PutReads, Checked, ghosts
  <1>8. Sound(n)' /\ mem'[Daemon] = n
    BY <1>2, <1>5, <1>6, <1>7, SoundUnchanged DEF VaultInv, VaultTypeOK
  <1>9. PICK k \in Keys : held' = [held EXCEPT ![c] = [key |-> k, var |-> n.doc.vars[k]]]
    BY <1>8 DEF PutReads
  <1>10. n.doc.vars[k] \in Var \cup {None}
    BY <1>5, MemoryFields DEF Sound, Doc
  <1>11. /\ held' \in [Callers -> [key : Keys, var : Var \cup {None}] \cup {None}]
         /\ held'[c] \in [key : Keys, var : Var \cup {None}]
         /\ \A x \in Callers : x # c => held'[x] = held[x]
    BY <1>9, <1>10 DEF VaultInv, VaultTypeOK
  <1>12. /\ pc' \in [Callers -> {"idle", "loaded", "checked", "put", "locking"}]
         /\ \A x \in Callers : (x # c => pc'[x] = pc[x]) /\ (pc'[x] = "locking" <=> pc[x] = "locking")
         /\ pc'[c] = "put"
    BY <1>7 DEF VaultInv, VaultTypeOK
  <1>13. ASSUME ~lapse', NEW x \in Callers, Working(x)'
         PROVE  IF StoreOf(x) = Daemon THEN Knows(n) ELSE Working(x)
    <2>1. Working(x)
      BY <1>7, <1>12, <1>13 DEF Working
    <2>2. StoreOf(x) = Daemon => Knows(m)
      BY <1>1, <1>7, <1>13, <2>1 DEF VaultInv, Looked, Working
    <2> QED BY <1>5, <2>1, <2>2
  <1>14. CallersSound'
    BY <1>7, <1>11, <1>12 DEF CallersSound, VaultInv
  <1>15. /\ lapse' \in BOOLEAN /\ acked' \in Doc /\ (lapse => lapse') /\ (lapse' \/ acked' = acked)
         /\ clear' \in [Callers -> BOOLEAN] /\ UNCHANGED <<plain, enc, holder, torn>>
    BY <1>7 DEF VaultInv, VaultTypeOK
  <1> QED BY <1>2, <1>6, <1>7, <1>8, <1>11, <1>12, <1>13, <1>14, <1>15, MemStepKeeps

\* Unlock leaves a Store that has read secrets.enc and knows its passphrase.
LEMMA UnlockSound ==
    ASSUME VaultInv, NEW c \in Callers, NEW p \in Passphrases, Unlock(c, p), UNCHANGED <<plain, enc, lapse>>
    PROVE  \E n : mem' = [mem EXCEPT ![StoreOf(c)] = n] /\ Sound(n)' /\ Knows(n) /\ ~n.locked
  <1>1. PICK m : m = mem[StoreOf(c)]
    OBVIOUS
  <1>2. Sound(m) /\ m \in Memory
    BY <1>1, StoreOfIs DEF VaultInv, StoresSound, Sound
  <1>3. PICK n : n = [m EXCEPT !.doc = enc.doc, !.locked = FALSE, !.passphrase = p, !.fresh = TRUE, !.dirty = FALSE]
    OBVIOUS
  <1>4. enc # None /\ m.locked /\ mem' = [mem EXCEPT ![StoreOf(c)] = n]
    BY <1>1, <1>3 DEF Unlock
  <1>5. enc.doc \in Doc /\ p # None
    BY <1>4, EncFields, FilesAreTyped, VaultAssumption
  <1>6. n \in Memory /\ n.doc = enc.doc /\ ~n.locked /\ n.passphrase = p /\ (n.encrypted <=> m.encrypted)
    BY <1>2, <1>3, <1>5 DEF Memory
  <1>7. Sound(n) /\ Knows(n)
    BY <1>2, <1>4, <1>5, <1>6, StoredCases DEF Sound, Moded, Current, Knows
  <1>8. Sound(n)'
    BY <1>7, SoundUnchanged
  <1> QED BY <1>4, <1>6, <1>7, <1>8

LEMMA UnlockRequestKeeps ==
    ASSUME VaultInv, NEW c \in Callers, UnlockRequest(c)
    PROVE  VaultInv'
  <1>1. UNCHANGED <<plain, enc, pc, held, holder, acked, clear, lapse, torn>> /\ StoreOf(c) = Daemon /\ Daemon \in Stores
    BY StoreOfIs DEF UnlockRequest, ghosts
  <1>2. PICK p \in Passphrases : Unlock(c, p)
    BY DEF UnlockRequest
  <1>3. PICK n : mem' = [mem EXCEPT ![Daemon] = n] /\ Sound(n)' /\ Knows(n)
    BY <1>1, <1>2, UnlockSound
  <1>4. MutexFree(Daemon)
    BY <1>2 DEF Unlock, LockFree, MutexFree
  <1>5. \A x \in Callers : Working(x)' => Working(x)
    BY <1>1 DEF Working
  <1>6. CallersSound'
    BY <1>1 DEF CallersSound, VaultInv
  <1>7. /\ lapse' \in BOOLEAN /\ acked' \in Doc /\ (lapse => lapse') /\ (lapse' \/ acked' = acked)
        /\ pc' \in [Callers -> {"idle", "loaded", "checked", "put", "locking"}]
        /\ held' \in [Callers -> [key : Keys, var : Var \cup {None}] \cup {None}]
        /\ clear' \in [Callers -> BOOLEAN] /\ UNCHANGED <<plain, enc, holder, torn>>
        /\ \A x \in Callers : pc'[x] = "locking" <=> pc[x] = "locking"
    BY <1>1 DEF VaultInv, VaultTypeOK
  <1> QED BY <1>1, <1>3, <1>4, <1>5, <1>6, <1>7, MemStepKeeps

\* A command loads its Store, or looks at it.
LEMMA CommandStepKeeps ==
    ASSUME VaultInv, NEW c \in Commands, pc[c] \in {"idle", "loaded"}, NEW q \in {"loaded", "checked"},
           pc' = [pc EXCEPT ![c] = q],
           UNCHANGED <<plain, enc, held, holder, acked, lapse, torn>>,
           clear' = clear \/ clear' = [clear EXCEPT ![c] = TRUE],
           NEW n, mem' = [mem EXCEPT ![c] = n], Sound(n)', q = "checked" => Knows(n)
    PROVE  VaultInv'
  <1>1. MutexFree(c) /\ c \in Stores /\ StoreOf(c) = c /\ c \in Callers /\ c # Daemon
    BY OwnMutexFree
  <1>2. /\ pc' \in [Callers -> {"idle", "loaded", "checked", "put", "locking"}]
        /\ \A x \in Callers : (x # c => pc'[x] = pc[x]) /\ (pc'[x] = "locking" <=> pc[x] = "locking")
        /\ pc'[c] = q
    BY <1>1 DEF VaultInv, VaultTypeOK
  <1>3. clear' \in [Callers -> BOOLEAN] /\ (\A x \in Callers : x # c => (clear'[x] <=> clear[x]))
    BY DEF VaultInv, VaultTypeOK
  <1>4. ASSUME ~lapse', NEW x \in Callers, Working(x)'
        PROVE  IF StoreOf(x) = c THEN Knows(n) ELSE Working(x)
    <2>1. CASE x = c
      BY <1>1, <1>2, <1>4, <2>1 DEF Working
    <2>2. CASE x # c
      BY <1>1, <1>2, <1>3, <1>4, <2>2, CommandAlone DEF Working
    <2> QED BY <2>1, <2>2
  <1>5. CallersSound'
    BY <1>2, <1>3 DEF CallersSound, VaultInv
  <1>6. /\ lapse' \in BOOLEAN /\ acked' \in Doc /\ (lapse => lapse') /\ (lapse' \/ acked' = acked)
        /\ held' \in [Callers -> [key : Keys, var : Var \cup {None}] \cup {None}]
        /\ UNCHANGED <<plain, enc, holder, torn>>
    BY DEF VaultInv, VaultTypeOK
  <1> QED BY <1>1, <1>2, <1>3, <1>4, <1>5, <1>6, MemStepKeeps

LEMMA CommandLoadsKeeps ==
    ASSUME VaultInv, NEW c \in Callers, CommandLoads(c)
    PROVE  VaultInv'
  <1>1. PICK n : n = Load
    OBVIOUS
  <1>2. UNCHANGED <<plain, enc, held, holder, acked, clear, lapse, torn>> /\ c \in Commands /\ pc[c] = "idle"
        /\ mem' = [mem EXCEPT ![c] = n] /\ pc' = [pc EXCEPT ![c] = "loaded"]
    BY <1>1 DEF CommandLoads, ghosts
  <1>3. Sound(n)'
    BY <1>1, <1>2, LoadSound, FilesAreTyped, SoundUnchanged
  <1> QED BY <1>2, <1>3, CommandStepKeeps

LEMMA EnsureUnlockedKeeps ==
    ASSUME VaultInv, NEW c \in Callers, EnsureUnlocked(c)
    PROVE  VaultInv'
  <1>1. UNCHANGED <<plain, enc, held, holder, acked, lapse, torn>> /\ c \in Commands /\ pc[c] = "loaded"
        /\ clear' = [clear EXCEPT ![c] = TRUE] /\ c \in Stores /\ StoreOf(c) = c
    BY StoreOfIs DEF EnsureUnlocked
  <1>2. CASE /\ mem' = [mem EXCEPT ![c] = reloadIfChanged(@)]
             /\ pc' = [pc EXCEPT ![c] = IF mem'[c].locked THEN "loaded" ELSE "checked"]
    <2>1. PICK n : n = reloadIfChanged(mem[c])
      OBVIOUS
    <2>2. Sound(n) /\ (~n.locked => Knows(n))
      BY <1>1, <2>1, ReloadSound, FilesAreTyped DEF VaultInv, StoresSound
    <2>3. mem' = [mem EXCEPT ![c] = n] /\ mem'[c] = n /\ Sound(n)'
      BY <1>1, <1>2, <2>1, <2>2, SoundUnchanged DEF VaultInv, VaultTypeOK
    <2>4. PICK q \in {"loaded", "checked"} : q = IF n.locked THEN "loaded" ELSE "checked"
      OBVIOUS
    <2>5. pc' = [pc EXCEPT ![c] = q] /\ (q = "checked" => Knows(n))
      BY <1>2, <2>2, <2>3, <2>4
    <2> QED BY <1>1, <2>3, <2>5, CommandStepKeeps
  <1>3. CASE (\E p \in Passphrases : Unlock(c, p)) /\ pc' = [pc EXCEPT ![c] = "checked"]
    <2>1. PICK n : mem' = [mem EXCEPT ![c] = n] /\ Sound(n)' /\ Knows(n)
      BY <1>1, <1>3, UnlockSound
    <2> QED BY <1>1, <1>3, <2>1, CommandStepKeeps
  <1> QED BY <1>2, <1>3 DEF EnsureUnlocked

-----------------------------------------------------------------------------
(* Steps that write a file                                                 *)

\* Memory but for its stamp.
Same(m, n) ==
    /\ n \in Memory /\ n.doc = m.doc /\ n.passphrase = m.passphrase
    /\ (n.encrypted <=> m.encrypted) /\ (n.locked <=> m.locked) /\ (n.dirty <=> m.dirty)

EncWritten(s, n) == mem' = Outdate(s, n, TRUE)
PlainWritten(s, n) == mem' = Outdate(s, n, FALSE)

LEMMA Outdated ==
    ASSUME VaultInv, NEW s, NEW n \in Memory, EncWritten(s, n) \/ PlainWritten(s, n)
    PROVE  /\ mem' \in [Stores -> Memory]
           /\ s \in Stores => mem'[s] = n
           /\ \A t \in Stores : t # s =>
                /\ Same(mem[t], mem'[t])
                /\ EncWritten(s, n) => (mem'[t].fresh <=> (mem[t].fresh /\ ~mem[t].encrypted))
                /\ PlainWritten(s, n) => (mem'[t].fresh <=> (mem[t].fresh /\ mem[t].encrypted))
  <1>1. ASSUME NEW t \in Stores, t # s
        PROVE  /\ Same(mem[t], mem'[t])
               /\ EncWritten(s, n) => (mem'[t].fresh <=> (mem[t].fresh /\ ~mem[t].encrypted))
               /\ PlainWritten(s, n) => (mem'[t].fresh <=> (mem[t].fresh /\ mem[t].encrypted))
    <2>1. PICK m \in Memory : m = mem[t]
      BY DEF VaultInv, VaultTypeOK
    <2>2. ASSUME EncWritten(s, n)
          PROVE  Same(mem[t], mem'[t]) /\ (mem'[t].fresh <=> (mem[t].fresh /\ ~mem[t].encrypted))
      <3>1. mem'[t] = [mem[t] EXCEPT !.fresh = mem[t].fresh /\ mem[t].encrypted # TRUE]
        BY <1>1, <2>2 DEF Outdate, EncWritten, PlainWritten
      <3>2. mem'[t] = [m EXCEPT !.fresh = (m.fresh /\ m.encrypted # TRUE)]
        BY <2>1, <3>1
      <3> QED BY <2>1, <3>2 DEF Memory, Same
    <2>3. ASSUME PlainWritten(s, n)
          PROVE  Same(mem[t], mem'[t]) /\ (mem'[t].fresh <=> (mem[t].fresh /\ mem[t].encrypted))
      <3>1. mem'[t] = [mem[t] EXCEPT !.fresh = mem[t].fresh /\ mem[t].encrypted # FALSE]
        BY <1>1, <2>3 DEF Outdate, EncWritten, PlainWritten
      <3>2. mem'[t] = [m EXCEPT !.fresh = (m.fresh /\ m.encrypted # FALSE)]
        BY <2>1, <3>1
      <3> QED BY <2>1, <3>2 DEF Memory, Same
    <2> QED BY <2>2, <2>3
  <1>2. s \in Stores => mem'[s] = n
    BY DEF Outdate, EncWritten, PlainWritten
  <1>3. mem' \in [Stores -> Memory]
    <2>1. mem' = [t \in Stores |-> mem'[t]]
      BY DEF Outdate, EncWritten, PlainWritten
    <2>2. \A t \in Stores : mem'[t] \in Memory
      BY <1>1, <1>2 DEF Same
    <2> QED BY <2>1, <2>2
  <1> QED BY <1>1, <1>2, <1>3

\* A file that is written outdates every other Store that could take it for its own.
LEMMA OthersSound ==
    ASSUME VaultInv, NEW s, NEW n \in Memory,
           \/ EncWritten(s, n) /\ enc' # None
           \/ PlainWritten(s, n) /\ plain' # None /\ (enc' = enc \/ enc' = None)
    PROVE  \A t \in Stores : t # s => Sound(mem[t])'
  <1> SUFFICES ASSUME NEW t \in Stores, t # s PROVE Sound(mem[t])'
    OBVIOUS
  <1>1. /\ Same(mem[t], mem'[t])
        /\ EncWritten(s, n) => (mem'[t].fresh <=> (mem[t].fresh /\ ~mem[t].encrypted))
        /\ PlainWritten(s, n) => (mem'[t].fresh <=> (mem[t].fresh /\ mem[t].encrypted))
    BY Outdated
  <1>2. Sound(mem[t])
    BY DEF VaultInv, StoresSound
  <1>3. enc' = enc /\ enc # None => Stored' = Stored
    BY DEF Stored
  <1>4. CASE EncWritten(s, n) /\ enc' # None
    BY <1>1, <1>2, <1>4 DEF Sound, Moded, Current, Same
  <1>5. CASE PlainWritten(s, n) /\ plain' # None /\ (enc' = enc \/ enc' = None)
    BY <1>1, <1>2, <1>3, <1>5 DEF Sound, Moded, Current, Same
  <1> QED BY <1>4, <1>5

LEMMA StoredCasesNext ==
    /\ enc' # None => Stored' = enc'.doc
    /\ (enc' = None /\ plain' # None) => Stored' = plain'
  BY DEF Stored

\* The memory of the Store that saves, and of the others.
LEMMA SaveWrites ==
    ASSUME VaultInv, NEW s \in Stores, NEW w \in Memory, Moded(w), saveLocked(s, w)
    PROVE  /\ FilesTyped' /\ StoresSound' /\ mem' \in [Stores -> Memory]
           /\ Knows(w) => /\ Stored' = w.doc /\ (enc' # None <=> enc # None) /\ (enc # None => plain' = plain)
                          /\ s = Daemon => Knows(mem[s])'
                          /\ \A t \in Stores : (t # s /\ Knows(mem[t])) => Knows(mem[t])'
  <1>1. CASE w.encrypted /\ w.passphrase # None
    <2>1. PICK k : k = Stamp(w, enc', plain)
      OBVIOUS
    <2>2. /\ enc' = [doc |-> w.doc, passphrase |-> w.passphrase] /\ plain' = plain
          /\ EncWritten(s, Kept(s, k))
      BY <1>1, <2>1 DEF saveLocked, EncWritten, PlainWritten
    <2>3. w.doc \in Doc /\ w.passphrase \in Passphrases
      BY <1>1, MemoryFields
    <2>4. enc' \in [doc : Doc, passphrase : Passphrases] /\ enc' # None /\ enc'.doc = w.doc
      BY <2>2, <2>3, VaultAssumption
    <2>5. /\ k \in Memory /\ k.doc = w.doc /\ (k.dirty <=> w.dirty) /\ k.encrypted
          /\ (k.locked <=> w.locked) /\ k.passphrase = w.passphrase
      <3>1. k = [w EXCEPT !.fresh = IF w.encrypted THEN enc' # None ELSE plain # None]
        BY <2>1 DEF Stamp
      <3>2. PICK b \in BOOLEAN : b = IF w.encrypted THEN enc' # None ELSE plain # None
        OBVIOUS
      <3>3. k = [w EXCEPT !.fresh = b]
        BY <3>1, <3>2
      <3> QED BY <1>1, <3>3, WithStamp
    <2>6. Sound(k)'
      BY <1>1, <2>4, <2>5, StoredCasesNext DEF Sound, Moded, Current
    <2>7. Sound(NewStore)'
      BY NewStoreIs DEF Sound, Moded, Current, Unread
    <2>8. PICK n : n = Kept(s, k)
      OBVIOUS
    <2>9. Sound(n)' /\ n \in Memory /\ (s = Daemon => n = k)
      BY <2>5, <2>6, <2>7, <2>8, NewStoreIs DEF Kept
    <2>10. EncWritten(s, n)
      BY <2>2, <2>8
    <2>11. mem' \in [Stores -> Memory] /\ mem'[s] = n
           /\ \A t \in Stores : t # s => (mem'[t].encrypted <=> mem[t].encrypted) /\ (mem'[t].locked <=> mem[t].locked)
      BY <2>9, <2>10, Outdated DEF Same
    <2>12. \A t \in Stores : t # s => Sound(mem[t])'
      BY <2>4, <2>9, <2>10, OthersSound
    <2>13. StoresSound'
      <3> SUFFICES ASSUME NEW t \in Stores PROVE Sound(mem[t])'
        BY DEF StoresSound
      <3>1. CASE t = s
        BY <2>9, <2>11, <3>1
      <3>2. CASE t # s
        BY <2>12, <3>2
      <3> QED BY <3>1, <3>2
    <2>14. Knows(w) => enc # None /\ ~w.locked
      BY <1>1 DEF Knows
    <2>15. Knows(w) /\ s = Daemon => Knows(mem[s])'
      BY <2>4, <2>5, <2>9, <2>11, <2>14 DEF Knows
    <2>16. Knows(w) => \A t \in Stores : (t # s /\ Knows(mem[t])) => Knows(mem[t])'
      BY <2>4, <2>11, <2>14 DEF Knows
    <2>17. FilesTyped'
      BY <2>2, <2>4, FilesAreTyped DEF FilesTyped
    <2> QED BY <2>2, <2>4, <2>11, <2>13, <2>14, <2>15, <2>16, <2>17, StoredCasesNext
  <1>2. CASE ~(w.encrypted /\ w.passphrase # None)
    <2>1. PICK k : k = Stamp(w, enc, plain')
      OBVIOUS
    <2>2. plain' = w.doc /\ enc' = enc /\ PlainWritten(s, Kept(s, k))
      BY <1>2, <2>1 DEF saveLocked, EncWritten, PlainWritten
    <2>3. plain' \in Doc /\ plain' # None
      BY <2>2, MemoryFields, VaultAssumption
    <2>5. /\ k \in Memory /\ k.doc = w.doc /\ (k.dirty <=> w.dirty) /\ (k.encrypted <=> w.encrypted)
          /\ (k.locked <=> w.locked) /\ k.passphrase = w.passphrase
      <3>1. k = [w EXCEPT !.fresh = IF w.encrypted THEN enc # None ELSE plain' # None]
        BY <2>1 DEF Stamp
      <3>2. PICK b \in BOOLEAN : b = IF w.encrypted THEN enc # None ELSE plain' # None
        OBVIOUS
      <3>3. k = [w EXCEPT !.fresh = b]
        BY <3>1, <3>2
      <3> QED BY <3>3, WithStamp
    <2>6. Sound(k)'
      BY <1>2, <2>2, <2>3, <2>5, StoredCasesNext DEF Sound, Moded, Current
    <2>7. Sound(NewStore)'
      BY NewStoreIs DEF Sound, Moded, Current, Unread
    <2>8. PICK n : n = Kept(s, k)
      OBVIOUS
    <2>9. Sound(n)' /\ n \in Memory /\ (s = Daemon => n = k)
      BY <2>5, <2>6, <2>7, <2>8, NewStoreIs DEF Kept
    <2>10. PlainWritten(s, n)
      BY <2>2, <2>8
    <2>11. mem' \in [Stores -> Memory] /\ mem'[s] = n
           /\ \A t \in Stores : t # s => (mem'[t].encrypted <=> mem[t].encrypted) /\ (mem'[t].locked <=> mem[t].locked)
      BY <2>9, <2>10, Outdated DEF Same
    <2>12. \A t \in Stores : t # s => Sound(mem[t])'
      BY <2>2, <2>3, <2>9, <2>10, OthersSound
    <2>13. StoresSound'
      <3> SUFFICES ASSUME NEW t \in Stores PROVE Sound(mem[t])'
        BY DEF StoresSound
      <3>1. CASE t = s
        BY <2>9, <2>11, <3>1
      <3>2. CASE t # s
        BY <2>12, <3>2
      <3> QED BY <3>1, <3>2
    <2>14. Knows(w) => enc = None /\ ~w.locked /\ ~w.encrypted
      BY <1>2 DEF Knows, Moded
    <2>15. Knows(w) /\ s = Daemon => Knows(mem[s])'
      BY <2>2, <2>5, <2>9, <2>11, <2>14 DEF Knows
    <2>16. Knows(w) => \A t \in Stores : (t # s /\ Knows(mem[t])) => Knows(mem[t])'
      BY <2>2, <2>11, <2>14 DEF Knows
    <2>17. FilesTyped'
      BY <2>2, <2>3, FilesAreTyped DEF FilesTyped
    <2> QED BY <2>2, <2>3, <2>11, <2>13, <2>14, <2>15, <2>16, <2>17, StoredCasesNext
  <1> QED BY <1>1, <1>2

\* Mutate, for an operation that turns what is read into one of A and what the
\* acknowledged writes add up to into one of B.
Mutates(c, A, B, blind) ==
    /\ LockFree /\ ~WrongKey(mem[StoreOf(c)])
    /\ \E d \in A : saveLocked(StoreOf(c), [loadLocked(mem[StoreOf(c)]) EXCEPT !.doc = d, !.dirty = FALSE])
    /\ lapse' = (lapse \/ blind \/ ~clear[c])
    /\ IF lapse' THEN acked' = EmptyDoc ELSE acked' \in B
    /\ Return(c)
    /\ UNCHANGED <<holder, torn>>

LEMMA MutatesKeeps ==
    ASSUME VaultInv, NEW c \in Callers, pc[c] \in {"checked", "put"},
           NEW A, NEW B, NEW blind, Mutates(c, A, B, blind), Determines(A), Determines(B),
           loadLocked(mem[StoreOf(c)]).doc = acked => A = B
    PROVE  VaultInv'
  <1> DEFINE s == StoreOf(c)
  <1>1. PICK m : m = mem[s]
    OBVIOUS
  <1>2. s \in Stores /\ Sound(m) /\ m \in Memory
    BY <1>1, StoreOfIs DEF VaultInv, StoresSound, Sound
  <1>3. PICK l : l = loadLocked(mem[s])
    OBVIOUS
  <1>r. Reads(m, l)
    BY <1>1, <1>2, <1>3, loadLockedReads, FilesAreTyped
  <1>4. Sound(l) /\ (Knows(m) => Knows(l)) /\ ((Knows(m) /\ ~WrongKey(m) /\ ~lapse) => l.doc = Stored)
    BY <1>2, <1>r, ReadsSound, FilesAreTyped
  <1>5. PICK d \in A : saveLocked(s, [loadLocked(mem[s]) EXCEPT !.doc = d, !.dirty = FALSE])
    BY DEF Mutates
  <1>6. d \in Doc
    BY <1>5 DEF Determines
  <1>7. PICK w : w = [l EXCEPT !.doc = d, !.dirty = FALSE]
    OBVIOUS
  <1>8. /\ w \in Memory /\ w.doc = d /\ (w.encrypted <=> l.encrypted)
        /\ (w.locked <=> l.locked) /\ w.passphrase = l.passphrase
    BY <1>4, <1>6, <1>7 DEF Memory, Sound
  <1>9. saveLocked(s, w) /\ Moded(w) /\ (Knows(l) => Knows(w))
    BY <1>3, <1>4, <1>5, <1>7, <1>8 DEF Moded, Knows, Sound
  <1>10. /\ FilesTyped' /\ StoresSound' /\ mem' \in [Stores -> Memory]
         /\ Knows(w) => /\ Stored' = w.doc /\ (enc' # None <=> enc # None) /\ (enc # None => plain' = plain)
                        /\ s = Daemon => Knows(mem[s])'
                        /\ \A t \in Stores : (t # s /\ Knows(mem[t])) => Knows(mem[t])'
    BY <1>2, <1>8, <1>9, SaveWrites
  <1>11. /\ holder = None /\ ~WrongKey(m) /\ Return(c) /\ holder' = None /\ torn' = torn
         /\ lapse' = (lapse \/ blind \/ ~clear[c])
         /\ IF lapse' THEN acked' = EmptyDoc ELSE acked' \in B
    BY <1>1 DEF Mutates, LockFree
  <1>12. lapse' \in BOOLEAN /\ (~lapse' => ~lapse /\ clear[c])
    BY <1>11 DEF VaultInv, VaultTypeOK
  <1>13. acked' \in Doc
    BY <1>11, EmptyIsDoc DEF Determines
  <1>14. ASSUME ~lapse' PROVE Knows(w) /\ acked' = d
    <2>1. Knows(m)
      BY <1>1, <1>11, <1>12, <1>14 DEF VaultInv, Looked, MutexFree
    <2>2. l.doc = Stored /\ Stored = acked
      BY <1>4, <1>11, <1>12, <1>14, <2>1 DEF VaultInv, KeptUnlessBlind
    <2>3. A = B
      BY <1>3, <2>2
    <2>4. acked' \in A
      BY <1>11, <1>14, <2>3
    <2> QED BY <1>4, <1>5, <1>9, <2>1, <2>4 DEF Determines
  <1> HIDE DEF s
  <1>15. VaultTypeOK'
    BY <1>10, <1>11, <1>12, <1>13, ReturnTyped DEF VaultInv, VaultTypeOK, FilesTyped
  <1>16. LockingSound'
    BY <1>11, ReturnTyped, VaultAssumption DEF VaultInv, LockingSound, Callers
  <1>17. Looked'
    <2> SUFFICES ASSUME ~lapse', NEW x \in Callers, Working(x)' PROVE Knows(mem[StoreOf(x)])'
      BY DEF Looked, Working
    <2>1. x # c /\ Working(x)
      BY <1>11, ReturnTyped DEF Working
    <2>2. Knows(mem[StoreOf(x)]) /\ StoreOf(x) \in Stores
      BY <1>11, <1>12, <2>1, StoreOfIs DEF VaultInv, Looked, Working, MutexFree
    <2>3. CASE StoreOf(x) = s
      BY <1>10, <1>14, <2>1, <2>3, CommandAlone DEF s
    <2>4. CASE StoreOf(x) # s
      BY <1>10, <1>14, <2>2, <2>4
    <2> QED BY <2>3, <2>4
  <1>18. KeptUnlessBlind'
    BY <1>8, <1>10, <1>14 DEF KeptUnlessBlind
  <1>19. NoPlaintextCopy'
    <2> SUFFICES ASSUME ~lapse', enc' # None, plain' # None PROVE torn' \/ holder' # None
      BY DEF NoPlaintextCopy
    <2>1. enc # None /\ plain' = plain
      BY <1>10, <1>14
    <2> QED BY <1>11, <1>12, <2>1 DEF VaultInv, NoPlaintextCopy
  <1> QED BY <1>10, <1>11, <1>15, <1>16, <1>17, <1>18, <1>19, ReturnTyped DEF VaultInv

\* What a caller's Store reads, and what was acknowledged, are documents.
LEMMA ReadsDoc ==
    ASSUME VaultInv, NEW c \in Callers
    PROVE  loadLocked(mem[StoreOf(c)]).doc \in Doc /\ acked \in Doc
  <1>1. PICK m \in Memory : m = mem[StoreOf(c)]
    BY StoreOfIs DEF VaultInv, VaultTypeOK
  <1>2. Reads(m, loadLocked(m))
    BY loadLockedReads, FilesAreTyped
  <1> QED BY <1>1, <1>2, MemoryFields DEF Reads, VaultInv, VaultTypeOK

LEMMA MutationsKeep ==
    ASSUME VaultInv, NEW c \in Callers,
           \/ Set(c) \/ SetVariable(c) \/ Delete(c) \/ ImportVariables(c)
           \/ SetSecretSet(c) \/ CreateSet(c) \/ DeleteSet(c)
    PROVE  VaultInv'
  <1> DEFINE d == loadLocked(mem[StoreOf(c)]).doc
  <1>d. d \in Doc /\ acked \in Doc
    BY ReadsDoc
  <1>p. pc[c] \in {"checked", "put"}
    BY DEF Set, SetVariable, Delete, ImportVariables, SetSecretSet, CreateSet, DeleteSet, Checked
  <1>1. CASE Set(c)
    <2>1. PICK k \in Keys, v \in Vals : Mutates(c, AfterSet(d, k, v), AfterSet(acked, k, v), FALSE)
      BY <1>1 DEF Set, Mutate, Mutates
    <2> HIDE DEF d
    <2>2. Determines(AfterSet(d, k, v)) /\ Determines(AfterSet(acked, k, v))
      BY <1>d, SetDetermines
    <2> QED BY <1>p, <2>1, <2>2, MutatesKeeps DEF d
  <1>2. CASE SetVariable(c)
    <2>1. PICK k \in Keys, x \in Var :
              Mutates(c, AfterSetVariable(d, k, x), AfterSetVariable(acked, k, x), FALSE)
      BY <1>2 DEF SetVariable, Mutate, Mutates
    <2> HIDE DEF d
    <2>2. Determines(AfterSetVariable(d, k, x)) /\ Determines(AfterSetVariable(acked, k, x))
      BY <1>d, SetVariableDetermines
    <2> QED BY <1>p, <2>1, <2>2, MutatesKeeps DEF d
  <1>3. CASE Delete(c)
    <2>1. PICK k \in Keys : Mutates(c, AfterDelete(d, k), AfterDelete(acked, k), FALSE)
      BY <1>3 DEF Delete, Mutate, Mutates
    <2> HIDE DEF d
    <2>2. Determines(AfterDelete(d, k)) /\ Determines(AfterDelete(acked, k))
      BY <1>d, DeleteDetermines
    <2> QED BY <1>p, <2>1, <2>2, MutatesKeeps DEF d
  <1>4. CASE ImportVariables(c)
    <2>1. PICK f \in [Keys -> Var \cup {None}] :
              Mutates(c, AfterImport(d, f), AfterImport(acked, f), FALSE)
      BY <1>4 DEF ImportVariables, Mutate, Mutates
    <2> HIDE DEF d
    <2>2. Determines(AfterImport(d, f)) /\ Determines(AfterImport(acked, f))
      BY <1>d, ImportDetermines
    <2> QED BY <1>p, <2>1, <2>2, MutatesKeeps DEF d
  <1>5. CASE SetSecretSet(c)
    <2>1. PICK k \in Keys, g \in SetNames \cup {None} :
              Mutates(c, AfterSetSecretSet(d, k, g), AfterSetSecretSet(acked, k, g), FALSE)
      BY <1>5 DEF SetSecretSet, Mutate, Mutates
    <2> HIDE DEF d
    <2>2. Determines(AfterSetSecretSet(d, k, g)) /\ Determines(AfterSetSecretSet(acked, k, g))
      BY <1>d, SetSecretSetDetermines
    <2> QED BY <1>p, <2>1, <2>2, MutatesKeeps DEF d
  <1>6. CASE CreateSet(c)
    <2>1. PICK g \in SetNames : Mutates(c, AfterCreateSet(d, g), AfterCreateSet(acked, g), FALSE)
      BY <1>6 DEF CreateSet, Mutate, Mutates
    <2> HIDE DEF d
    <2>2. Determines(AfterCreateSet(d, g)) /\ Determines(AfterCreateSet(acked, g))
      BY <1>d, CreateSetDetermines
    <2> QED BY <1>p, <2>1, <2>2, MutatesKeeps DEF d
  <1>7. CASE DeleteSet(c)
    <2>1. PICK g \in SetNames : Mutates(c, AfterDeleteSet(d, g), AfterDeleteSet(acked, g), FALSE)
      BY <1>7 DEF DeleteSet, Mutate, Mutates
    <2> HIDE DEF d
    <2>2. Determines(AfterDeleteSet(d, g)) /\ Determines(AfterDeleteSet(acked, g))
      BY <1>d, DeleteSetDetermines
    <2> QED BY <1>p, <2>1, <2>2, MutatesKeeps DEF d
  <1> QED BY <1>1, <1>2, <1>3, <1>4, <1>5, <1>6, <1>7

\* A PUT is a SetVariable of the variable that it has read, changed.
LEMMA PutIsSetVariable ==
    ASSUME VaultInv, NEW c \in Callers, PutWrites(c)
    PROVE  \E k \in Keys, x \in Var, blind \in BOOLEAN :
               Mutates(c, AfterSetVariable(loadLocked(mem[StoreOf(c)]).doc, k, x),
                       AfterSetVariable(acked, k, x), blind)
  <1> DEFINE d == loadLocked(mem[StoreOf(c)]).doc
             k == held[c].key
  <1>p. pc[c] = "put"
    BY DEF PutWrites
  <1>h. k \in Keys /\ held[c].var \in Var \cup {None}
    BY <1>p DEF VaultInv, CallersSound
  <1>1. PICK v \in Vals \cup {None}, g \in SetNames \cup {None} :
            LET old == IF held[c].var = None THEN [val |-> v, set |-> None] ELSE held[c].var
            IN  old.val # None /\ Mutate(c, LAMBDA e : AfterSetVariable(e, held[c].key, Changed(old, v, g)),
                      loadLocked(mem[Daemon]).doc.vars[held[c].key] # held[c].var)
    BY DEF PutWrites
  <1> DEFINE old == IF held[c].var = None THEN [val |-> v, set |-> None] ELSE held[c].var
             x == Changed(old, v, g)
  <1>2. old.val # None
        /\ Mutates(c, AfterSetVariable(d, k, x), AfterSetVariable(acked, k, x),
                   loadLocked(mem[Daemon]).doc.vars[k] # held[c].var)
    BY <1>1 DEF Mutate, Mutates
  <1>3. x \in Var
    <2>1. old.val \in Vals /\ old.set \in SetNames \cup {None}
      <3>1. CASE held[c].var = None
        <4>1. old = [val |-> v, set |-> None]
          BY <3>1
        <4> HIDE DEF old
        <4> QED BY <1>2, <4>1
      <3>2. CASE held[c].var # None
        <4>1. old = held[c].var
          BY <3>2
        <4> HIDE DEF old
        <4> QED BY <1>h, <3>2, <4>1 DEF Var
      <3> QED BY <3>1, <3>2
    <2> HIDE DEF old
    <2> QED BY <2>1 DEF Changed, Var
  <1> HIDE DEF d, k, x
  <1> QED BY <1>h, <1>2, <1>3 DEF d

LEMMA PutWritesKeeps ==
    ASSUME VaultInv, NEW c \in Callers, PutWrites(c)
    PROVE  VaultInv'
  <1> DEFINE d == loadLocked(mem[StoreOf(c)]).doc
  <1>d. d \in Doc /\ acked \in Doc
    BY ReadsDoc
  <1>p. pc[c] \in {"checked", "put"}
    BY DEF PutWrites
  <1>1. PICK k \in Keys, x \in Var, blind \in BOOLEAN :
            Mutates(c, AfterSetVariable(d, k, x), AfterSetVariable(acked, k, x), blind)
    BY PutIsSetVariable
  <1> HIDE DEF d
  <1>2. Determines(AfterSetVariable(d, k, x)) /\ Determines(AfterSetVariable(acked, k, x))
    BY <1>d, SetVariableDetermines
  <1> QED BY <1>p, <1>1, <1>2, MutatesKeeps DEF d

-----------------------------------------------------------------------------
(* Lock, and the steps that replace a file                                 *)

LEMMA LockWritesKeeps ==
    ASSUME VaultInv, NEW c \in Callers, pc[c] # "locking", NEW p \in Passphrases, NEW blind,
           LockWrites(c, p, blind), (~blind /\ ~lapse) => Knows(mem[StoreOf(c)])
    PROVE  VaultInv'
  <1> DEFINE s == StoreOf(c)
  <1>1. PICK m : m = mem[s]
    OBVIOUS
  <1>2. s \in Stores /\ Sound(m) /\ m \in Memory
    BY <1>1, StoreOfIs DEF VaultInv, StoresSound, Sound
  <1>3. PICK l : l = loadLocked(m)
    OBVIOUS
  <1>r. Reads(m, l)
    BY <1>2, <1>3, loadLockedReads, FilesAreTyped
  <1>4. /\ Sound(l) /\ (Knows(m) => Knows(l)) /\ ((Knows(m) /\ ~WrongKey(m) /\ ~lapse) => l.doc = Stored)
        /\ l \in Memory /\ l.doc \in Doc
    BY <1>2, <1>r, ReadsSound, FilesAreTyped, MemoryFields DEF Sound
  <1>5. /\ holder = None /\ ~WrongKey(m) /\ holder' = c /\ pc' = [pc EXCEPT ![c] = "locking"]
        /\ lapse' = (lapse \/ blind) /\ acked' = (IF lapse' THEN EmptyDoc ELSE acked)
        /\ plain' = plain /\ held' = held /\ torn' = torn
        /\ clear' = [x \in Callers |-> pc[x] = "idle" \/ (clear[x] /\ (StoreOf(x) = s \/ enc # None))]
    BY <1>1 DEF LockWrites, LockFree
  <1>6. enc' = [doc |-> l.doc, passphrase |-> p] /\ EncWritten(s, l)
    BY <1>1, <1>3 DEF LockWrites, EncWritten
  <1>7. enc' \in [doc : Doc, passphrase : Passphrases] /\ enc' # None /\ enc'.doc = l.doc
    BY <1>4, <1>6, VaultAssumption
  <1>8. /\ mem' \in [Stores -> Memory] /\ mem'[s] = l
        /\ \A t \in Stores : t # s => Same(mem[t], mem'[t])
    BY <1>2, <1>4, <1>6, Outdated
  <1>9. lapse' \in BOOLEAN /\ (~lapse' => ~lapse /\ ~blind)
    BY <1>5 DEF VaultInv, VaultTypeOK
  <1>10. ~lapse' => Stored' = acked'
    <2> SUFFICES ASSUME ~lapse' PROVE Stored' = acked'
      OBVIOUS
    <2>1. Knows(m) /\ acked' = acked
      BY <1>1, <1>5, <1>9
    <2>2. l.doc = Stored /\ Stored = acked
      BY <1>4, <1>5, <1>9, <2>1 DEF VaultInv, KeptUnlessBlind
    <2> QED BY <1>7, <2>1, <2>2, StoredCasesNext
  <1>c. /\ \A x \in Callers : clear'[x] <=> (pc[x] = "idle" \/ (clear[x] /\ (StoreOf(x) = s \/ enc # None)))
        /\ clear' \in [Callers -> BOOLEAN]
    BY <1>5 DEF VaultInv, VaultTypeOK
  <1>p. /\ \A x \in Callers : (x # c => pc'[x] = pc[x]) /\ pc'[c] = "locking"
        /\ pc' \in [Callers -> {"idle", "loaded", "checked", "put", "locking"}]
    BY <1>5 DEF VaultInv, VaultTypeOK
  <1> HIDE DEF s
  <1>11. VaultTypeOK'
    <2>1. acked' \in Doc
      BY <1>5, EmptyIsDoc DEF VaultInv, VaultTypeOK
    <2> QED BY <1>5, <1>7, <1>8, <1>9, <1>c, <1>p, <2>1 DEF VaultInv, VaultTypeOK
  <1>12. StoresSound'
    <2>1. Sound(l)'
      BY <1>4, <1>7, StoredCasesNext DEF Sound, Moded, Current
    <2>2. \A t \in Stores : t # s => Sound(mem[t])'
      BY <1>4, <1>6, <1>7, OthersSound DEF EncWritten
    <2> SUFFICES ASSUME NEW t \in Stores PROVE Sound(mem[t])'
      BY DEF StoresSound
    <2>3. CASE t = s
      BY <1>8, <2>1, <2>3
    <2>4. CASE t # s
      BY <2>2, <2>4
    <2> QED BY <2>3, <2>4
  <1>13. LockingSound'
    <2>1. \A x \in Callers : pc[x] # "locking"
      BY <1>5, VaultAssumption DEF VaultInv, LockingSound
    <2> QED BY <1>5, <1>7, <1>8, <1>p, <2>1 DEF LockingSound, s
  <1>14. Looked'
    <2> SUFFICES ASSUME ~lapse', NEW x \in Callers, Working(x)', MutexFree(StoreOf(x))' PROVE Knows(mem[StoreOf(x)])'
      BY DEF Looked, Working
    <2>1. StoreOf(x) # s /\ x # c /\ holder' # None
      BY <1>5, VaultAssumption DEF MutexFree, s
    <2>2. Working(x) /\ enc # None
      BY <1>c, <1>p, <2>1 DEF Working
    <2>3. Knows(mem[StoreOf(x)]) /\ StoreOf(x) \in Stores
      BY <1>5, <1>9, <2>2, StoreOfIs DEF VaultInv, Looked, Working, MutexFree
    <2> QED BY <1>7, <1>8, <2>1, <2>2, <2>3 DEF Knows, Same
  <1>15. CallersSound'
    BY <1>5, <1>c, <1>p DEF VaultInv, CallersSound
  <1>16. NoPlaintextCopy'
    BY <1>5, VaultAssumption DEF NoPlaintextCopy
  <1> QED BY <1>10, <1>11, <1>12, <1>13, <1>14, <1>15, <1>16 DEF VaultInv, KeptUnlessBlind

LEMMA LocksKeep ==
    ASSUME VaultInv, NEW c \in Callers, LockRequest(c) \/ LockCommand(c)
    PROVE  VaultInv'
  <1>1. CASE LockRequest(c)
    <2>1. PICK p \in Passphrases :
              LockWrites(c, p, mem[Daemon].locked \/ mem[Daemon].encrypted # (enc # None))
      BY <1>1 DEF LockRequest
    <2>2. StoreOf(c) = Daemon /\ pc[c] = "idle" /\ mem[Daemon] \in Memory
      BY <1>1, StoreOfIs DEF LockRequest, VaultInv, VaultTypeOK
    <2>3. ~(mem[Daemon].locked \/ mem[Daemon].encrypted # (enc # None)) => Knows(mem[Daemon])
      BY <2>2, MemoryFields DEF Knows
    <2> QED BY <2>1, <2>2, <2>3, LockWritesKeeps
  <1>2. CASE LockCommand(c)
    <2>1. PICK p \in Passphrases : LockWrites(c, p, ~clear[c])
      BY <1>2 DEF LockCommand
    <2>2. pc[c] = "checked" /\ holder = None
      BY <1>2, <2>1 DEF LockCommand, Checked, LockWrites, LockFree
    <2>3. (clear[c] /\ ~lapse) => Knows(mem[StoreOf(c)])
      BY <2>2 DEF VaultInv, Looked, MutexFree
    <2> QED BY <2>1, <2>2, <2>3, LockWritesKeeps
  <1> QED BY <1>1, <1>2

LEMMA LockRemovesKeeps ==
    ASSUME VaultInv, NEW c \in Callers, LockRemoves(c)
    PROVE  VaultInv'
  <1> DEFINE s == StoreOf(c)
  <1>1. PICK m : m = mem[s]
    OBVIOUS
  <1>2. s \in Stores /\ Sound(m) /\ m \in Memory
    BY <1>1, StoreOfIs DEF VaultInv, StoresSound, Sound
  <1>3. pc[c] = "locking" /\ holder = c /\ enc # None /\ m.doc = enc.doc
    BY <1>1, VaultAssumption DEF LockRemoves, VaultInv, LockingSound, Callers
  <1>4. enc.doc \in Doc /\ enc.passphrase \in Passphrases /\ enc.passphrase # None
    BY <1>3, EncFields, FilesAreTyped
  <1>5. PICK n : n = [m EXCEPT !.encrypted = TRUE, !.locked = FALSE, !.passphrase = enc.passphrase, !.fresh = TRUE]
    OBVIOUS
  <1>6. n \in Memory /\ n.doc = m.doc /\ n.encrypted /\ ~n.locked /\ n.passphrase = enc.passphrase
    BY <1>2, <1>4, <1>5 DEF Memory
  <1>7. /\ holder' = None /\ Return(c) /\ enc' = enc /\ acked' = acked /\ lapse' = lapse
        /\ \/ plain' = None /\ torn' = torn
           \/ plain' = plain /\ torn'
    BY DEF LockRemoves
  <1>8. PICK k : k = Kept(s, n)
    OBVIOUS
  <1>9. mem' = [mem EXCEPT ![s] = k]
    BY <1>1, <1>5, <1>8 DEF LockRemoves
  <1>10. Stored' = Stored
    BY <1>3, <1>7 DEF Stored
  <1>11. Sound(n)' /\ Sound(NewStore)'
    BY <1>3, <1>4, <1>6, <1>7, NewStoreIs, StoredCasesNext DEF Sound, Moded, Current, Unread
  <1>12. Sound(k)' /\ k \in Memory /\ (s = Daemon => k = n)
    BY <1>6, <1>8, <1>11, NewStoreIs DEF Kept
  <1>13. /\ mem' \in [Stores -> Memory] /\ mem'[s] = k
         /\ \A t \in Stores : t # s => mem'[t] = mem[t]
    BY <1>2, <1>9, <1>12 DEF VaultInv, VaultTypeOK
  <1> HIDE DEF s
  <1>14. VaultTypeOK'
    BY <1>7, <1>13, ReturnTyped DEF VaultInv, VaultTypeOK
  <1>15. StoresSound'
    <2> SUFFICES ASSUME NEW t \in Stores, t # s PROVE Sound(mem[t])'
      BY <1>12, <1>13 DEF StoresSound
    <2>1. Sound(mem[t]) /\ mem'[t] = mem[t]
      BY <1>13 DEF VaultInv, StoresSound
    <2> QED BY <1>3, <1>7, <1>10, <2>1 DEF Sound, Moded, Current
  <1>16. LockingSound'
    BY <1>3, <1>7, ReturnTyped, VaultAssumption DEF VaultInv, LockingSound, Callers
  <1>17. Looked'
    <2> SUFFICES ASSUME ~lapse', NEW x \in Callers, Working(x)' PROVE Knows(mem[StoreOf(x)])'
      BY DEF Looked, Working
    <2>1. x # c /\ Working(x) /\ ~lapse
      BY <1>7, ReturnTyped DEF Working
    <2>2. CASE StoreOf(x) = s
      <3>1. s = Daemon
        BY <2>1, <2>2, CommandAlone DEF s
      <3> QED BY <1>3, <1>6, <1>7, <1>12, <1>13, <2>2, <3>1 DEF Knows
    <2>3. CASE StoreOf(x) # s
      <3>1. Knows(mem[StoreOf(x)]) /\ StoreOf(x) \in Stores
        BY <1>3, <2>1, <2>3, StoreOfIs DEF VaultInv, Looked, Working, MutexFree, s
      <3> QED BY <1>7, <1>13, <2>3, <3>1 DEF Knows
    <2> QED BY <2>2, <2>3
  <1>18. CallersSound'
    BY <1>7, ReturnTyped
  <1>19. KeptUnlessBlind'
    BY <1>7, <1>10 DEF VaultInv, KeptUnlessBlind
  <1>20. NoPlaintextCopy'
    BY <1>7 DEF NoPlaintextCopy
  <1> QED BY <1>14, <1>15, <1>16, <1>17, <1>18, <1>19, <1>20 DEF VaultInv

LEMMA ChangePassphraseKeeps ==
    ASSUME VaultInv, NEW c \in Callers, ChangePassphrase(c)
    PROVE  VaultInv'
  <1>1. /\ c \in Commands /\ holder = None /\ enc # None /\ Return(c)
        /\ plain' = plain /\ holder' = holder /\ acked' = acked /\ lapse' = lapse /\ torn' = torn
    BY DEF ChangePassphrase, LockFree
  <1>2. c \in Stores /\ StoreOf(c) = c /\ c # Daemon
    BY <1>1, StoreOfIs, VaultAssumption
  <1>3. PICK p \in Passphrases : enc' = [enc EXCEPT !.passphrase = p] /\ EncWritten(c, NewStore)
    BY DEF ChangePassphrase, EncWritten
  <1>4. enc' \in [doc : Doc, passphrase : Passphrases] /\ enc'.doc = enc.doc
    BY <1>1, <1>3 DEF VaultInv, VaultTypeOK
  <1>5. enc' # None
    BY <1>4, VaultAssumption
  <1>6. Stored' = Stored
    BY <1>1, <1>4, <1>5, StoredCases, StoredCasesNext
  <1>7. /\ mem' \in [Stores -> Memory] /\ mem'[c] = NewStore
        /\ \A t \in Stores : t # c => Same(mem[t], mem'[t])
    BY <1>2, <1>3, NewStoreIs, Outdated
  <1>8. VaultTypeOK'
    BY <1>1, <1>4, <1>7, ReturnTyped DEF VaultInv, VaultTypeOK
  <1>9. StoresSound'
    <2>1. Sound(NewStore)'
      BY NewStoreIs DEF Sound, Moded, Current, Unread
    <2>2. \A t \in Stores : t # c => Sound(mem[t])'
      BY <1>3, <1>5, NewStoreIs, OthersSound
    <2> SUFFICES ASSUME NEW t \in Stores PROVE Sound(mem[t])'
      BY DEF StoresSound
    <2>3. CASE t = c
      BY <1>7, <2>1, <2>3
    <2>4. CASE t # c
      BY <2>2, <2>4
    <2> QED BY <2>3, <2>4
  <1>10. LockingSound'
    BY <1>1, ReturnTyped, VaultAssumption DEF VaultInv, LockingSound, Callers
  <1>11. Looked'
    <2> SUFFICES ASSUME ~lapse', NEW x \in Callers, Working(x)' PROVE Knows(mem[StoreOf(x)])'
      BY DEF Looked, Working
    <2>1. x # c /\ Working(x) /\ ~lapse
      BY <1>1, ReturnTyped DEF Working
    <2>2. Knows(mem[StoreOf(x)]) /\ StoreOf(x) \in Stores /\ StoreOf(x) # c
      BY <1>1, <1>2, <2>1, StoreOfIs, CommandAlone DEF VaultInv, Looked, Working, MutexFree
    <2> QED BY <1>1, <1>5, <1>7, <2>2 DEF Knows, Same
  <1>12. CallersSound'
    BY <1>1, ReturnTyped
  <1>13. KeptUnlessBlind' /\ NoPlaintextCopy'
    BY <1>1, <1>5, <1>6 DEF VaultInv, KeptUnlessBlind, NoPlaintextCopy
  <1> QED BY <1>8, <1>9, <1>10, <1>11, <1>12, <1>13 DEF VaultInv

LEMMA RestoreKeeps ==
    ASSUME VaultInv, Restore
    PROVE  VaultInv'
  <1>1. /\ holder = None /\ enc # None /\ enc' = None /\ plain' = enc.doc
        /\ clear' = [c \in Callers |-> pc[c] = "idle"]
        /\ UNCHANGED <<pc, held, holder, acked, lapse, torn>> /\ PlainWritten(None, NewStore)
    BY DEF Restore, LockFree, PlainWritten
  <1>2. plain' \in Doc /\ plain' # None
    BY <1>1, EncFields, FilesAreTyped, VaultAssumption
  <1>3. Stored' = Stored
    BY <1>1, <1>2, StoredCases, StoredCasesNext
  <1>4. /\ \A c \in Callers : clear'[c] <=> pc[c] = "idle"
        /\ clear' \in [Callers -> BOOLEAN]
    BY <1>1
  <1>5. mem' \in [Stores -> Memory]
    BY <1>1, NewStoreIs, Outdated
  <1>6. VaultTypeOK'
    BY <1>1, <1>2, <1>4, <1>5 DEF VaultInv, VaultTypeOK
  <1>7. StoresSound'
    <2>1. ASSUME NEW t \in Stores PROVE Sound(mem[t])'
      <3>1. CASE t # None
        BY <1>1, <1>2, <3>1, NewStoreIs, OthersSound
      <3>2. CASE t = None
        <4>1. mem'[t] = NewStore
          BY <1>1, <3>2, NewStoreIs, Outdated
        <4> QED BY <4>1, NewStoreIs DEF Sound, Moded, Current, Unread
      <3> QED BY <3>1, <3>2
    <2> QED BY <2>1 DEF StoresSound
  <1>8. LockingSound'
    BY <1>1, VaultAssumption DEF VaultInv, LockingSound
  <1>9. Looked'
    BY <1>1, <1>4 DEF Looked
  <1>10. CallersSound'
    BY <1>1, <1>4 DEF VaultInv, CallersSound
  <1>11. KeptUnlessBlind' /\ NoPlaintextCopy'
    BY <1>1, <1>3 DEF VaultInv, KeptUnlessBlind, NoPlaintextCopy
  <1> QED BY <1>6, <1>7, <1>8, <1>9, <1>10, <1>11 DEF VaultInv

LEMMA CrashKeeps ==
    ASSUME VaultInv, NEW s \in Stores, Crash(s)
    PROVE  VaultInv'
  <1>1. /\ plain' = plain /\ enc' = enc /\ acked' = acked /\ lapse' = lapse
        /\ torn' = (torn \/ (~MutexFree(s) /\ plain # None))
        /\ holder' = IF MutexFree(s) THEN holder ELSE None
        /\ pc' = [c \in Callers |-> IF StoreOf(c) = s THEN "idle" ELSE pc[c]]
        /\ held' = [c \in Callers |-> IF StoreOf(c) = s THEN None ELSE held[c]]
        /\ clear' = [c \in Callers |-> StoreOf(c) = s \/ clear[c]]
    BY DEF Crash
  <1>2. PICK k : k = Kept(s, Load)
    OBVIOUS
  <1>3. mem' = [mem EXCEPT ![s] = k]
    BY <1>2 DEF Crash
  <1>4. Sound(k) /\ k \in Memory
    BY <1>2, LoadSound, NewStoreSound, FilesAreTyped DEF Kept, Sound
  <1>5. /\ mem' \in [Stores -> Memory] /\ mem'[s] = k
        /\ \A t \in Stores : t # s => mem'[t] = mem[t]
    BY <1>3, <1>4 DEF VaultInv, VaultTypeOK
  <1>6. Stored' = Stored
    BY <1>1 DEF Stored
  <1>7. /\ \A c \in Callers : /\ pc'[c] = IF StoreOf(c) = s THEN "idle" ELSE pc[c]
                              /\ held'[c] = IF StoreOf(c) = s THEN None ELSE held[c]
                              /\ clear'[c] <=> (StoreOf(c) = s \/ clear[c])
        /\ pc' \in [Callers -> {"idle", "loaded", "checked", "put", "locking"}]
        /\ held' \in [Callers -> [key : Keys, var : Var \cup {None}] \cup {None}]
        /\ clear' \in [Callers -> BOOLEAN]
    BY <1>1 DEF VaultInv, VaultTypeOK
  <1>8. torn' \in BOOLEAN /\ (torn => torn') /\ holder' \in Callers \cup {None}
    BY <1>1 DEF VaultInv, VaultTypeOK
  <1>9. VaultTypeOK'
    BY <1>1, <1>5, <1>7, <1>8 DEF VaultInv, VaultTypeOK
  <1>10. StoresSound'
    <2>1. ASSUME NEW t \in Stores PROVE Sound(mem[t])'
      <3>1. PICK m : m = mem'[t]
        OBVIOUS
      <3>2. Sound(m)
        BY <1>4, <1>5, <3>1 DEF VaultInv, StoresSound
      <3>3. Sound(m)'
        BY <1>1, <3>2, SoundUnchanged
      <3> QED BY <3>1, <3>3
    <2> QED BY <2>1 DEF StoresSound
  <1>11. LockingSound'
    <2>1. ASSUME NEW c \in Callers PROVE pc'[c] = "locking" <=> holder' = c
      BY <1>1, <1>7, VaultAssumption DEF VaultInv, LockingSound, MutexFree, Callers
    <2>2. ASSUME holder' # None PROVE enc' # None /\ mem'[StoreOf(holder')].doc = enc'.doc
      <3>1. holder' = holder /\ StoreOf(holder) # s /\ StoreOf(holder) \in Stores
        BY <1>1, <2>2, StoreOfIs DEF MutexFree, VaultInv, VaultTypeOK
      <3> QED BY <1>1, <1>5, <2>2, <3>1 DEF VaultInv, LockingSound
    <2>3. StoreOf(holder)' = StoreOf(holder')
      BY DEF StoreOf
    <2> QED BY <2>1, <2>2, <2>3 DEF LockingSound
  <1>12. Looked'
    <2> SUFFICES ASSUME ~lapse', NEW x \in Callers, Working(x)', MutexFree(StoreOf(x))' PROVE Knows(mem[StoreOf(x)])'
      BY DEF Looked, Working
    <2>1. StoreOf(x) # s /\ Working(x) /\ StoreOf(x) \in Stores
      BY <1>7, StoreOfIs DEF Working
    <2>2. MutexFree(StoreOf(x))
      BY <1>1, <2>1 DEF MutexFree
    <2>3. Knows(mem[StoreOf(x)])
      BY <1>1, <2>1, <2>2 DEF VaultInv, Looked, Working
    <2> QED BY <1>1, <1>5, <2>1, <2>3 DEF Knows
  <1>13. CallersSound'
    BY <1>7 DEF VaultInv, CallersSound
  <1>14. KeptUnlessBlind' /\ NoPlaintextCopy'
    BY <1>1, <1>6 DEF VaultInv, KeptUnlessBlind, NoPlaintextCopy
  <1> QED BY <1>9, <1>10, <1>11, <1>12, <1>13, <1>14 DEF VaultInv

-----------------------------------------------------------------------------
LEMMA VaultInitially == VaultInit => VaultInv
  <1> SUFFICES ASSUME VaultInit PROVE VaultInv
    OBVIOUS
  <1>1. /\ plain \in {None, EmptyDoc} /\ enc = None
        /\ mem = [s \in Stores |-> IF s = Daemon THEN Load ELSE NewStore]
        /\ pc = [c \in Callers |-> "idle"] /\ held = [c \in Callers |-> None] /\ holder = None
        /\ acked = EmptyDoc /\ clear = [c \in Callers |-> TRUE]
        /\ lapse = FALSE /\ torn = FALSE
    BY DEF VaultInit
  <1>2. FilesTyped /\ Stored = EmptyDoc
    BY <1>1, EmptyIsDoc, StoredCases DEF FilesTyped
  <1>3. StoresSound /\ mem \in [Stores -> Memory]
    BY <1>1, <1>2, LoadSound, NewStoreSound DEF StoresSound, Sound
  <1>4. VaultTypeOK
    BY <1>1, <1>2, <1>3, EmptyIsDoc DEF VaultTypeOK, FilesTyped
  <1>5. LockingSound /\ Looked /\ CallersSound
    BY <1>1, VaultAssumption DEF LockingSound, Looked, CallersSound, Callers
  <1>6. KeptUnlessBlind /\ NoPlaintextCopy
    BY <1>1, <1>2 DEF KeptUnlessBlind, NoPlaintextCopy
  <1> QED BY <1>3, <1>4, <1>5, <1>6 DEF VaultInv

LEMMA VaultStutters == VaultInv /\ UNCHANGED vars => VaultInv'
  <1> SUFFICES ASSUME VaultInv, UNCHANGED vars PROVE VaultInv'
    OBVIOUS
  <1>1. UNCHANGED <<plain, enc, mem, pc, held, holder, acked, clear, lapse, torn>>
    BY DEF vars
  <1>2. Stored' = Stored
    BY <1>1 DEF Stored
  <1> QED BY <1>1, <1>2 DEF VaultInv, VaultTypeOK, StoresSound, Sound, Moded, Current, Unread, LockingSound,
             Looked, Knows, MutexFree, CallersSound, KeptUnlessBlind, NoPlaintextCopy

LEMMA VaultStep == VaultInv /\ [Next]_vars => VaultInv'
  <1> SUFFICES ASSUME VaultInv, [Next]_vars PROVE VaultInv'
    OBVIOUS
  <1>1. ASSUME NEW c \in Callers,
               \/ Set(c) \/ SetVariable(c) \/ Delete(c) \/ ImportVariables(c)
               \/ SetSecretSet(c) \/ CreateSet(c) \/ DeleteSet(c)
        PROVE  VaultInv'
    BY <1>1, MutationsKeep
  <1>2. ASSUME NEW c \in Callers, Refuse(c) \/ SaveFails(c)
        PROVE  VaultInv'
    BY <1>2, RefuseKeeps, SaveFailsKeeps
  <1>3. ASSUME NEW c \in Callers, Look(c) \/ PutReads(c) \/ PutWrites(c) \/ UnlockRequest(c)
        PROVE  VaultInv'
    BY <1>3, LookKeeps, PutReadsKeeps, PutWritesKeeps, UnlockRequestKeeps
  <1>4. ASSUME NEW c \in Callers, LockRequest(c) \/ LockCommand(c) \/ LockRemoves(c)
        PROVE  VaultInv'
    BY <1>4, LocksKeep, LockRemovesKeeps
  <1>5. ASSUME NEW c \in Callers, CommandLoads(c) \/ EnsureUnlocked(c) \/ ChangePassphrase(c)
        PROVE  VaultInv'
    BY <1>5, CommandLoadsKeeps, EnsureUnlockedKeeps, ChangePassphraseKeeps
  <1>6. ASSUME NEW s \in Stores, Crash(s) PROVE VaultInv'
    BY <1>6, CrashKeeps
  <1>7. CASE Restore
    BY <1>7, RestoreKeeps
  <1>8. CASE UNCHANGED vars
    BY <1>8, VaultStutters
  <1> QED BY <1>1, <1>2, <1>3, <1>4, <1>5, <1>6, <1>7, <1>8 DEF Next

LEMMA VaultAlways == Spec => []VaultInv
  BY VaultInitially, VaultStep, PTL DEF Spec

-----------------------------------------------------------------------------
(* What a reader of the store may rely on                                  *)

\* The types of the files, of every process's memory and of what a request
\* carries (Secret, Store and the handlers of internal/api/vault.go).
THEOREM VaultTypeCorrect == Spec => []VaultTypeOK
  <1>1. VaultInv => VaultTypeOK
    BY DEF VaultInv
  <1> QED BY <1>1, VaultAlways, PTL

\* The reads under the file lock (loadLocked before every change) lose and undo
\* no acknowledged write of any process, however many there are, unless one was
\* made blind.
THEOREM WritesAreKept == Spec => []KeptUnlessBlind
  <1>1. VaultInv => KeptUnlessBlind
    BY DEF VaultInv
  <1> QED BY <1>1, VaultAlways, PTL

\* reloadIfChanged may skip the read when the stamp of the file is the one it
\* keeps: what the Store holds is what the file holds.
THEOREM CachesAreCurrent == Spec => []CacheIsCurrent
  <1>1. VaultInv => CacheIsCurrent
    <2> SUFFICES ASSUME VaultInv, NEW s \in Stores, mem[s].fresh, ~mem[s].locked, ~mem[s].dirty,
                        mem[s].encrypted = (enc # None)
                 PROVE  mem[s].doc = Stored
      BY DEF CacheIsCurrent
    <2>1. Current(mem[s]) /\ mem[s] \in Memory
      BY DEF VaultInv, StoresSound, Sound
    <2>2. mem[s].encrypted <=> enc # None
      BY <2>1, MemoryFields
    <2> QED BY <2>1, <2>2 DEF Current
  <1> QED BY <1>1, VaultAlways, PTL

\* A secrets.json left beside secrets.enc means that Lock is between its two
\* steps, was cut short or failed to remove it, or that a write was made blind.
THEOREM NoPlaintextIsLeft == Spec => []NoPlaintextCopy
  <1>1. VaultInv => NoPlaintextCopy
    BY DEF VaultInv
  <1> QED BY <1>1, VaultAlways, PTL
-----------------------------------------------------------------------------
(* Vault implements VariableStore.  Until the first blind write, what is   *)
(* stored is what the acknowledged writes add up to, before and after      *)
(* every step; so a step of VariableStore is what acked does.              *)

LEMMA StoredNextIsDoc == VaultInv' => Stored' \in Doc
  <1> SUFFICES ASSUME VaultInv' PROVE Stored' \in Doc
    OBVIOUS
  <1>1. plain' \in Doc \cup {None} /\ enc' \in [doc : Doc, passphrase : Passphrases] \cup {None}
    BY DEF VaultInv, VaultTypeOK
  <1>2. Stored' = IF enc' # None THEN enc'.doc ELSE IF plain' # None THEN plain' ELSE EmptyDoc
    BY DEF Stored
  <1> QED BY <1>1, <1>2, EmptyIsDoc

LEMMA StoredIsAcked ==
    ASSUME VaultInv, VaultInv', ~lapse', lapse' \in BOOLEAN, lapse => lapse'
    PROVE  Stored = acked /\ Stored' = acked' /\ Stored \in Doc /\ Stored' \in Doc /\ ~lapse
  <1>1. ~lapse /\ Stored = acked /\ Stored' = acked'
    BY DEF VaultInv, KeptUnlessBlind
  <1>2. acked \in Doc /\ acked' \in Doc
    BY DEF VaultInv, VaultTypeOK
  <1> QED BY <1>1, <1>2

\* A mutation that is not blind turns what is stored into one of the documents
\* that its operation may leave.
LEMMA MutationStores ==
    ASSUME VaultInv, VaultInv', NEW c, NEW A, NEW B, NEW blind, Mutates(c, A, B, blind), ~lapse'
    PROVE  Stored = acked /\ Stored' \in B /\ Stored \in Doc /\ Stored' \in Doc /\ ~lapse
  <1>1. lapse' \in BOOLEAN /\ (lapse => lapse') /\ acked' \in B
    BY DEF Mutates, VaultInv, VaultTypeOK
  <1> QED BY <1>1, StoredIsAcked

\* The fields of a document, as VariableStore names them.
LEMMA DocFields ==
    ASSUME NEW d \in Doc
    PROVE  /\ d = [vars |-> d.vars, sets |-> d.sets] /\ d.sets \in SUBSET SetNames
           /\ d.vars \in [Keys -> Var \cup {None}] /\ d.vars \in Abstract!Entries
  BY DEF Doc, Var, Abstract!Entries, Abstract!Variable

LEMMA SetMaps ==
    ASSUME Stored \in Doc, NEW k \in Keys, NEW v \in Vals, Stored' \in AfterSet(Stored, k, v)
    PROVE  Abstract!Set(k, v)
  BY DocFields DEF AfterSet, Put, Abstract!Set

LEMMA SetVariableMaps ==
    ASSUME Stored \in Doc, NEW k \in Keys, NEW x \in Var, Stored' \in AfterSetVariable(Stored, k, x)
    PROVE  Abstract!SetVariable(k, x)
  <1>1. Stored' = WithSet(Put(Stored, k, x), x.set)
    BY DEF AfterSetVariable
  <1>2. Stored'.vars = [Stored.vars EXCEPT ![k] = x] /\ Stored'.sets = Stored.sets \cup ({x.set} \ {None})
    BY <1>1, DocFields DEF WithSet, Put
  <1> QED BY <1>2 DEF Abstract!SetVariable

LEMMA DeleteMaps ==
    ASSUME Stored \in Doc, NEW k \in Keys, Stored' \in AfterDelete(Stored, k)
    PROVE  Abstract!Delete(k)
  BY DocFields DEF AfterDelete, Put, Abstract!Delete

LEMMA ImportMaps ==
    ASSUME Stored \in Doc, NEW f \in [Keys -> Var \cup {None}], Stored' \in AfterImport(Stored, f)
    PROVE  Abstract!Import(f)
  BY DocFields DEF AfterImport, Abstract!Import

LEMMA AssignMaps ==
    ASSUME Stored \in Doc, NEW k \in Keys, NEW g \in SetNames \cup {None},
           Stored' \in AfterSetSecretSet(Stored, k, g)
    PROVE  Abstract!Assign(k, g)
  <1>1. /\ Stored.vars[k] # None
        /\ Stored' = WithSet(Put(Stored, k, [Stored.vars[k] EXCEPT !.set = g]), g)
    BY DEF AfterSetSecretSet
  <1>2. Stored'.vars = [Stored.vars EXCEPT ![k] = [Stored.vars[k] EXCEPT !.set = g]]
        /\ Stored'.sets = Stored.sets \cup ({g} \ {None})
    BY <1>1, DocFields DEF WithSet, Put
  <1> QED BY <1>1, <1>2 DEF Abstract!Assign

LEMMA CreateSetMaps ==
    ASSUME Stored \in Doc, NEW g \in SetNames, Stored' \in AfterCreateSet(Stored, g)
    PROVE  Abstract!CreateSet(g)
  BY DocFields DEF AfterCreateSet, Abstract!CreateSet

LEMMA DeleteSetMaps ==
    ASSUME Stored \in Doc, NEW g \in SetNames, Stored' \in AfterDeleteSet(Stored, g)
    PROVE  Abstract!DeleteSet(g)
  BY DEF AfterDeleteSet, Abstract!DeleteSet

\* Each mutation is the operation of VariableStore of the same name; a PUT is a
\* SetVariable.
LEMMA MutationsMap ==
    ASSUME VaultInv, VaultInv', ~lapse', NEW c \in Callers,
           \/ Set(c) \/ SetVariable(c) \/ Delete(c) \/ ImportVariables(c)
           \/ SetSecretSet(c) \/ CreateSet(c) \/ DeleteSet(c) \/ PutWrites(c)
    PROVE  Abstract!Operation /\ ~lapse
  <1> DEFINE d == loadLocked(mem[StoreOf(c)]).doc
  <1>0. Var = Abstract!Variable /\ [Keys -> Var \cup {None}] = Abstract!Entries
    BY DEF Var, Abstract!Variable, Abstract!Entries
  <1>1. CASE Set(c)
    <2>1. PICK k \in Keys, v \in Vals : Mutates(c, AfterSet(d, k, v), AfterSet(acked, k, v), FALSE)
      BY <1>1 DEF Set, Mutate, Mutates
    <2>2. Abstract!Set(k, v) /\ ~lapse
      BY <2>1, MutationStores, SetMaps
    <2> QED BY <2>2 DEF Abstract!Operation
  <1>2. CASE SetVariable(c)
    <2>1. PICK k \in Keys, x \in Var :
              Mutates(c, AfterSetVariable(d, k, x), AfterSetVariable(acked, k, x), FALSE)
      BY <1>2 DEF SetVariable, Mutate, Mutates
    <2>2. Abstract!SetVariable(k, x) /\ ~lapse
      BY <2>1, MutationStores, SetVariableMaps
    <2> QED BY <1>0, <2>2 DEF Abstract!Operation
  <1>3. CASE Delete(c)
    <2>1. PICK k \in Keys : Mutates(c, AfterDelete(d, k), AfterDelete(acked, k), FALSE)
      BY <1>3 DEF Delete, Mutate, Mutates
    <2>2. Abstract!Delete(k) /\ ~lapse
      BY <2>1, MutationStores, DeleteMaps
    <2> QED BY <2>2 DEF Abstract!Operation
  <1>4. CASE ImportVariables(c)
    <2>1. PICK f \in [Keys -> Var \cup {None}] :
              Mutates(c, AfterImport(d, f), AfterImport(acked, f), FALSE)
      BY <1>4 DEF ImportVariables, Mutate, Mutates
    <2>2. Abstract!Import(f) /\ ~lapse
      BY <2>1, MutationStores, ImportMaps
    <2> QED BY <1>0, <2>2 DEF Abstract!Operation
  <1>5. CASE SetSecretSet(c)
    <2>1. PICK k \in Keys, g \in SetNames \cup {None} :
              Mutates(c, AfterSetSecretSet(d, k, g), AfterSetSecretSet(acked, k, g), FALSE)
      BY <1>5 DEF SetSecretSet, Mutate, Mutates
    <2>2. Abstract!Assign(k, g) /\ ~lapse
      BY <2>1, MutationStores, AssignMaps
    <2> QED BY <2>2 DEF Abstract!Operation
  <1>6. CASE CreateSet(c)
    <2>1. PICK g \in SetNames : Mutates(c, AfterCreateSet(d, g), AfterCreateSet(acked, g), FALSE)
      BY <1>6 DEF CreateSet, Mutate, Mutates
    <2>2. Abstract!CreateSet(g) /\ ~lapse
      BY <2>1, MutationStores, CreateSetMaps
    <2> QED BY <2>2 DEF Abstract!Operation
  <1>7. CASE DeleteSet(c)
    <2>1. PICK g \in SetNames : Mutates(c, AfterDeleteSet(d, g), AfterDeleteSet(acked, g), FALSE)
      BY <1>7 DEF DeleteSet, Mutate, Mutates
    <2>2. Abstract!DeleteSet(g) /\ ~lapse
      BY <2>1, MutationStores, DeleteSetMaps
    <2> QED BY <2>2 DEF Abstract!Operation
  <1>8. CASE PutWrites(c)
    <2>1. PICK k \in Keys, x \in Var, blind \in BOOLEAN :
              Mutates(c, AfterSetVariable(d, k, x), AfterSetVariable(acked, k, x), blind)
      BY <1>8, PutIsSetVariable
    <2>2. Abstract!SetVariable(k, x) /\ ~lapse
      BY <2>1, MutationStores, SetVariableMaps
    <2> QED BY <1>0, <2>2 DEF Abstract!Operation
  <1> QED BY <1>1, <1>2, <1>3, <1>4, <1>5, <1>6, <1>7, <1>8

\* Whatever else happens adds nothing to the acknowledged writes.
LEMMA OthersMap ==
    ASSUME VaultInv, VaultInv', ~lapse',
           \/ \E c \in Callers :
                 \/ Refuse(c) \/ SaveFails(c) \/ Look(c) \/ PutReads(c) \/ UnlockRequest(c)
                 \/ LockRequest(c) \/ LockRemoves(c) \/ CommandLoads(c) \/ EnsureUnlocked(c)
                 \/ LockCommand(c) \/ ChangePassphrase(c)
           \/ \E s \in Stores : Crash(s)
           \/ Restore \/ UNCHANGED vars
    PROVE  UNCHANGED Abstract!vars
  <1>1. lapse' \in BOOLEAN /\ lapse \in BOOLEAN
    BY DEF VaultInv, VaultTypeOK
  <1>2. (lapse => lapse') /\ acked' = acked
    <2>1. ASSUME NEW c \in Callers, LockRequest(c) \/ LockCommand(c)
          PROVE  (lapse => lapse') /\ acked' = acked
      BY <2>1 DEF LockRequest, LockCommand, LockWrites
    <2>2. ASSUME NEW c \in Callers, SaveFails(c)
          PROVE  (lapse => lapse') /\ acked' = acked
      BY <2>2 DEF SaveFails
    <2>3. ASSUME NEW c \in Callers, Look(c) \/ PutReads(c) \/ UnlockRequest(c) \/ CommandLoads(c)
          PROVE  lapse' = lapse /\ acked' = acked
      BY <2>3 DEF Look, PutReads, UnlockRequest, CommandLoads, ghosts
    <2>4. ASSUME NEW c \in Callers, Refuse(c) \/ LockRemoves(c) \/ EnsureUnlocked(c) \/ ChangePassphrase(c)
          PROVE  lapse' = lapse /\ acked' = acked
      BY <2>4 DEF Refuse, LockRemoves, EnsureUnlocked, ChangePassphrase
    <2>5. ASSUME NEW s \in Stores, Crash(s) PROVE lapse' = lapse /\ acked' = acked
      BY <2>5 DEF Crash
    <2>6. CASE Restore
      BY <2>6 DEF Restore
    <2>7. CASE UNCHANGED vars
      BY <2>7 DEF vars
    <2> QED BY <2>1, <2>2, <2>3, <2>4, <2>5, <2>6, <2>7
  <1>3. Stored' = Stored /\ ~lapse
    BY <1>1, <1>2, StoredIsAcked
  <1> QED BY <1>1, <1>3 DEF Abstract!vars

LEMMA StepMapsToStore == VaultInv /\ VaultInv' /\ [Next]_vars => [Abstract!Next]_(Abstract!vars)
  <1> SUFFICES ASSUME VaultInv, VaultInv', [Next]_vars PROVE [Abstract!Next]_(Abstract!vars)
    OBVIOUS
  <1>1. CASE lapse'
    <2>1. Stored' \in Doc
      BY StoredNextIsDoc
    <2>2. Stored'.vars \in Abstract!Entries /\ Stored'.sets \in SUBSET SetNames
      BY <2>1, DocFields
    <2>3. (~lapse)' = FALSE
      BY <1>1
    <2> QED BY <2>2, <2>3 DEF Abstract!Next, Abstract!Lapse
  <1>2. CASE ~lapse'
    <2>1. ASSUME NEW c \in Callers,
                 \/ Set(c) \/ SetVariable(c) \/ Delete(c) \/ ImportVariables(c)
                 \/ SetSecretSet(c) \/ CreateSet(c) \/ DeleteSet(c) \/ PutWrites(c)
          PROVE  Abstract!Next
      <3>1. Abstract!Operation /\ ~lapse
        BY <1>2, <2>1, MutationsMap
      <3>2. (~lapse)' = (~lapse)
        BY <1>2, <3>1
      <3> QED BY <3>1, <3>2 DEF Abstract!Next
    <2>2. CASE \/ \E c \in Callers :
                     \/ Refuse(c) \/ SaveFails(c) \/ Look(c) \/ PutReads(c) \/ UnlockRequest(c)
                     \/ LockRequest(c) \/ LockRemoves(c) \/ CommandLoads(c) \/ EnsureUnlocked(c)
                     \/ LockCommand(c) \/ ChangePassphrase(c)
               \/ \E s \in Stores : Crash(s)
               \/ Restore \/ UNCHANGED vars
      BY <1>2, <2>2, OthersMap
    <2> QED BY <2>1, <2>2 DEF Next
  <1> QED BY <1>1, <1>2

\* The files, the copies of every process, the locks and the crashes add up to
\* one document (Store of pkg/vault/store.go): every operation of any process
\* changes it at once, and nothing else does, until a write is made blind.
THEOREM RefinesVariableStore == Spec => ImplementsVariableStore
  <1>1. VaultInit => Abstract!Init
    <2> SUFFICES ASSUME VaultInit PROVE Abstract!Init
      OBVIOUS
    <2>1. Stored = EmptyDoc /\ lapse = FALSE
      BY StoredCases DEF VaultInit
    <2> QED BY <2>1 DEF Abstract!Init, EmptyDoc
  <1> QED BY <1>1, StepMapsToStore, VaultAlways, PTL DEF Spec, ImplementsVariableStore, Abstract!Spec
=============================================================================
