---------------------------- MODULE MCReplicaPool ----------------------------
(***************************************************************************)
(* Instances of ReplicaPool for TLC.                                       *)
(***************************************************************************)
EXTENDS ReplicaPool, TLC

\* Calls are interchangeable.
CallSymmetry == Permutations(Calls)

Pol(min, max, warm, idle) ==
    [min |-> min, max |-> max, warm |-> warm, idle |-> idle, target |-> 1]

\* min 1, max 2: load moves the pool between one and two replicas.
Elastic == {Pol(1, 2, 0, FALSE)}

\* An idle-to-zero pool that a reload may turn into one with a warm replica.
ColdOrWarm == {Pol(0, 2, 0, TRUE), Pol(0, 2, 1, TRUE)}

\* A pool of two, which a tick spawns in one go.
Pair == {Pol(2, 2, 0, FALSE)}

\* A pool pinned to one replica.
Single == {Pol(1, 1, 0, FALSE)}
=============================================================================
