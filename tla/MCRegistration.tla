--------------------------- MODULE MCRegistration ---------------------------
(***************************************************************************)
(* Instances of Registration for TLC.                                      *)
(***************************************************************************)
EXTENDS Registration, TLC

\* Retry slots and configurations are interchangeable.
RegSymmetry == Permutations(Retries) \cup Permutations(Cfgs)
=============================================================================
