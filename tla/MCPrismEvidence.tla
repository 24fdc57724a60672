---------------------------- MODULE MCPrismEvidence ----------------------------
(* The instance of PrismEvidence for TLC. *)
EXTENDS PrismEvidence, TLC

Symmetry == Permutations(Keys) \cup Permutations(Loans)
=============================================================================
