---------------------------- MODULE MCPlayerPages ---------------------------
(***************************************************************************)
(* Instances of PlayerPages for TLC.                                       *)
(***************************************************************************)
EXTENDS PlayerPages, TLC

\* Servers, accounts and tags are only compared for equality, and no property
\* names one.
Symmetry == Permutations(Servers) \cup Permutations(Accounts) \cup Permutations(Tags)

=============================================================================
