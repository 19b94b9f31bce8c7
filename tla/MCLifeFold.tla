----------------------------- MODULE MCLifeFold -----------------------------
(***************************************************************************)
(* Instances of LifeFold for TLC.                                          *)
(***************************************************************************)
EXTENDS LifeFold, TLC

\* Accounts and tags are only compared for equality, and no property names one.
Symmetry == Permutations(Accounts) \cup Permutations(Tags)

=============================================================================
