---------------------------- MODULE MCOAuthBroker ----------------------------
(***************************************************************************)
(* Instances of OAuthBroker for TLC.                                       *)
(***************************************************************************)
EXTENDS OAuthBroker, TLC

CONSTANT d1

\* All servers in one gateway.
OneDaemon == [s \in Sources |-> d1]

OAuthSymmetry == Permutations(Sources) \cup Permutations(Flows)

\* A behaviour is not followed past the return of a replaced login, nor while the
\* stored grant is one that may be dead.
Unexcused == ~overtaken /\ (grant # None => grant.login \notin excused)
=============================================================================
