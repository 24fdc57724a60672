------------------------------ MODULE MCEvmVault ------------------------------
(* Instances of EvmVault for TLC. *)
EXTENDS EvmVault, TLC
=============================================================================
