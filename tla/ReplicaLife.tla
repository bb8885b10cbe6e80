----------------------------- MODULE ReplicaLife -----------------------------
(***************************************************************************)
(* What an elastic pool promises its callers, whoever scales it: replicas  *)
(* join under fresh ids, in order, and are never heard of again once they  *)
(* are gone; a call is given to a replica that serves at that moment; and  *)
(* a replica goes only after it has left, while no call is on it.  There   *)
(* are no ticks, polls, counters, locks or health.  ReplicaPool implements *)
(* it.                                                                     *)
(***************************************************************************)
EXTENDS Integers

CONSTANTS
    Calls,      \* the goroutines that make calls
    MaxID,      \* bound on the replicas that ever join
    NoID        \* no replica

ReplicaID == 0 .. MaxID - 1

VARIABLES
    state,      \* the phase of each replica's life
    on          \* the replica each call is on, or NoID

vars == <<state, on>>

Phase == {"unborn", "serving", "leaving", "gone"}

Init ==
    /\ state = [r \in ReplicaID |-> "unborn"]
    /\ on = [c \in Calls |-> NoID]

Enter(r, from, to) ==
    /\ state[r] = from
    /\ state' = [state EXCEPT ![r] = to]
    /\ UNCHANGED on

\* Ids are minted in order.
Join(r) == (\A s \in ReplicaID : s < r => state[s] # "unborn") /\ Enter(r, "unborn", "serving")

\* A replica takes no new calls.
Leave(r) == Enter(r, "serving", "leaving")

\* It is wanted after all.
Return(r) == Enter(r, "leaving", "serving")

\* Its client is closed.
Reap(r) == (\A c \in Calls : on[c] # r) /\ Enter(r, "leaving", "gone")

Take(c, r) ==
    /\ on[c] = NoID /\ state[r] = "serving"
    /\ on' = [on EXCEPT ![c] = r]
    /\ UNCHANGED state

Drop(c) ==
    /\ on[c] # NoID
    /\ on' = [on EXCEPT ![c] = NoID]
    /\ UNCHANGED state

Next ==
    \E r \in ReplicaID :
        \/ Join(r) \/ Leave(r) \/ Return(r) \/ Reap(r)
        \/ \E c \in Calls : Take(c, r) \/ Drop(c)

Spec == Init /\ [][Next]_vars
=============================================================================
