-------------------------------- MODULE Totals --------------------------------
(***************************************************************************)
(* The total of a natural-valued function with a finite domain, counted as *)
(* the units the function holds: index i contributes the pairs <<i, 1>> .. *)
(* <<i, f[i]>>.  Counting units instead of folding lets the theorems about *)
(* Cardinality prove how a total changes when the function does, for       *)
(* domains of every size.                                                  *)
(***************************************************************************)
EXTENDS Naturals, FiniteSets

UnitsOf(f, i) == {i} \X (1 .. f[i])

Units(f) == UNION {UnitsOf(f, i) : i \in DOMAIN f}

Total(f) == Cardinality(Units(f))
===============================================================================
