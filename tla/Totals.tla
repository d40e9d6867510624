------------------------------- MODULE Totals -------------------------------
(***************************************************************************)
(* Sums of sizes over sets of rows, as SQL's SUM() forms them, counted unit *)
(* by unit: every element stands for as many units as its size.            *)
(***************************************************************************)
EXTENDS Naturals, FiniteSets

Units(size, x) == {x} \X (1 .. size[x])

\* SELECT COALESCE(SUM(size), 0) over the rows S.
Total(size, S) == Cardinality(UNION {Units(size, x) : x \in S})

=============================================================================
