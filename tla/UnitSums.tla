------------------------------- MODULE UnitSums -------------------------------
(***************************************************************************)
(* The total of a function into the naturals, counted instead of           *)
(* recursively added up: each value n of the function stands for n units,  *)
(* and the total is the number of units.  A total stated so has an update  *)
(* law that follows from the laws of finite cardinality.                   *)
(***************************************************************************)
EXTENDS Naturals, FiniteSets

Units(f) == UNION {{i} \X (1 .. f[i]) : i \in DOMAIN f}

Total(f) == Cardinality(Units(f))
=============================================================================
