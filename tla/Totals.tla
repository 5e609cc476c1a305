------------------------------- MODULE Totals -------------------------------
(***************************************************************************)
(* Sums over finite sets, written as the size of a set: the total of       *)
(* amount over S is the number of pairs <<x, i>> with x in S and           *)
(* 1 <= i <= amount[x], the "units" that the members of S contribute.      *)
(* compute_capital_metrics adds up contracts and cents, which are units;   *)
(* said this way a sum needs no recursion, and the theorems about finite   *)
(* sets apply to it.                                                       *)
(***************************************************************************)
EXTENDS Integers, FiniteSets

Units(S, amount) == UNION {{x} \X (1 .. amount[x]) : x \in S}

Total(S, amount) == Cardinality(Units(S, amount))
=============================================================================
