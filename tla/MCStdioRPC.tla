----------------------------- MODULE MCStdioRPC -----------------------------
(***************************************************************************)
(* Instances of StdioRPC for TLC.                                          *)
(***************************************************************************)
EXTENDS StdioRPC, TLC

\* Callers are interchangeable.
RPCSymmetry == Permutations(Callers)
=============================================================================
