--------------------------- MODULE VariableStore ---------------------------
(***************************************************************************)
(* What the variable store promises to all the processes that share it:    *)
(* one document, that each of seven operations changes at once and nothing *)
(* else does.  There are no files, copies, locks, passphrases or crashes.  *)
(* The promise ends with the first write that is made blind.  Vault        *)
(* implements it.                                                          *)
(***************************************************************************)
CONSTANTS Keys, Vals, SetNames, None

VARIABLES
    entries,    \* the variable of each key, or None
    sets,       \* the names of the sets
    trusted     \* no write was made blind

vars == <<entries, sets, trusted>>

Variable == [val : Vals, set : SetNames \cup {None}]
Entries == [Keys -> Variable \cup {None}]

Init ==
    /\ entries = [k \in Keys |-> None]
    /\ sets = {}
    /\ trusted = TRUE

\* A value is given to a variable, which stays in its set.
Set(k, v) ==
    /\ entries' = [entries EXCEPT ![k] =
                      [val |-> v, set |-> IF entries[k] = None THEN None ELSE entries[k].set]]
    /\ UNCHANGED sets

\* A variable is replaced; its set exists from then on.
SetVariable(k, x) ==
    /\ entries' = [entries EXCEPT ![k] = x]
    /\ sets' = sets \cup ({x.set} \ {None})

Delete(k) ==
    /\ entries[k] # None
    /\ entries' = [entries EXCEPT ![k] = None]
    /\ UNCHANGED sets

\* Every variable of f replaces its namesake; their sets exist from then on.
Import(f) ==
    /\ entries' = [k \in Keys |-> IF f[k] = None THEN entries[k] ELSE f[k]]
    /\ sets' = sets \cup ({f[k].set : k \in {j \in Keys : f[j] # None}} \ {None})

\* A variable moves to another set, or to none.
Assign(k, g) ==
    /\ entries[k] # None
    /\ entries' = [entries EXCEPT ![k].set = g]
    /\ sets' = sets \cup ({g} \ {None})

CreateSet(g) ==
    /\ g \notin sets
    /\ sets' = sets \cup {g}
    /\ UNCHANGED entries

\* A set goes; its variables stay, in no set.
DeleteSet(g) ==
    /\ g \in sets
    /\ sets' = sets \ {g}
    /\ entries' = [k \in Keys |-> IF entries[k] # None /\ entries[k].set = g
                                  THEN [entries[k] EXCEPT !.set = None] ELSE entries[k]]

Operation ==
    \/ \E k \in Keys : \/ \E v \in Vals : Set(k, v)
                       \/ \E x \in Variable : SetVariable(k, x)
                       \/ Delete(k)
                       \/ \E g \in SetNames \cup {None} : Assign(k, g)
    \/ \E f \in Entries : Import(f)
    \/ \E g \in SetNames : CreateSet(g) \/ DeleteSet(g)

\* A blind write, and whatever follows it.
Lapse ==
    /\ trusted' = FALSE
    /\ entries' \in Entries
    /\ sets' \in SUBSET SetNames

Next == (trusted /\ Operation /\ UNCHANGED trusted) \/ Lapse

Spec == Init /\ [][Next]_vars
=============================================================================
