-------------------------- MODULE MCBanEnforcement --------------------------
(***************************************************************************)
(* Instances of BanEnforcement for TLC.                                    *)
(***************************************************************************)
EXTENDS BanEnforcement, TLC

\* Accounts and tags are only compared for equality.
Symmetry == Permutations(Accounts) \cup Permutations(Tags)

=============================================================================
