------------------------------ MODULE MCVault ------------------------------
(***************************************************************************)
(* Instances of Vault for TLC.                                             *)
(***************************************************************************)
EXTENDS Vault, TLC

\* Requests are interchangeable, and so are passphrases.
VaultSymmetry == Permutations(Requests) \cup Permutations(Passphrases)

\* A behaviour is not followed past a write that was made blind.
NotLapsed == ~lapse
=============================================================================
