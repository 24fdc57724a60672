----------------------------- MODULE MCPrismCore -----------------------------
(* Instances of PrismCore for TLC. *)
EXTENDS PrismCore

\* Prime is to earn one unit per unit of assets and year, Core two.
UnitApy == [k \in Kinds |-> CASE k = "Prime" -> 1
                              [] k = "Core"  -> 2
                              [] k = "Alpha" -> 0]
=============================================================================
