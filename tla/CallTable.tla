------------------------------ MODULE CallTable ------------------------------
(***************************************************************************)
(* What a JSON-RPC client over a pipe promises its callers, whatever       *)
(* happens to connections, processes and readers: each goroutine has at    *)
(* most one call under way; a call is settled at most once, by the answer  *)
(* to it or by the news that it is lost, and never after it has returned;  *)
(* numbers of calls are never used again.  StdioRPC implements it.         *)
(***************************************************************************)
EXTENDS Naturals

CONSTANT Threads    \* the goroutines that make calls

VARIABLES
    issued,     \* how many calls were made
    waiting,    \* the number of each goroutine's call, 0 when it has none
    box         \* what each goroutine's call has been told so far

vars == <<issued, waiting, box>>

Init ==
    /\ issued = 0
    /\ waiting = [t \in Threads |-> 0]
    /\ box = [t \in Threads |-> "empty"]

\* A goroutine makes a call.
Begin(t) ==
    /\ waiting[t] = 0
    /\ issued' = issued + 1
    /\ waiting' = [waiting EXCEPT ![t] = issued + 1]
    /\ UNCHANGED box

\* The answer to its call reaches a goroutine.
Answer(t) ==
    /\ waiting[t] # 0 /\ box[t] = "empty"
    /\ box' = [box EXCEPT ![t] = "answer"]
    /\ UNCHANGED <<issued, waiting>>

\* Every call that is not settled is lost.
Lose ==
    /\ box' = [t \in Threads |-> IF waiting[t] # 0 /\ box[t] = "empty" THEN "lost" ELSE box[t]]
    /\ UNCHANGED <<issued, waiting>>

\* A call returns, settled or not.
Finish(t) ==
    /\ waiting[t] # 0
    /\ waiting' = [waiting EXCEPT ![t] = 0]
    /\ box' = [box EXCEPT ![t] = "empty"]
    /\ UNCHANGED issued

Next == Lose \/ \E t \in Threads : Begin(t) \/ Answer(t) \/ Finish(t)

Spec == Init /\ [][Next]_vars
=============================================================================
