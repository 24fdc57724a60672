-------------------------- MODULE MCCollateralBridge --------------------------
(* The instance of CollateralBridge for TLC. *)
EXTENDS CollateralBridge, TLC

Symmetry == Permutations(Requests)
=============================================================================
