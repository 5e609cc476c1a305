------------------------------- MODULE Values -------------------------------
(* Optional values and the fixed-point arithmetic of the pure modules. A       *)
(* probability, a price or a score is a whole number of ten-thousandths.       *)
EXTENDS Integers, Sequences, FiniteSets, FiniteSetsExt

CONSTANT None   \* Python's None

One == 10000
Percent(n) == n * 100

Present(x) == x # None
Missing(x) == x = None
Clip(x, lo, hi) == Max({lo, Min({hi, x})})

\* The fields of a record that hold a value.
PresentIn(values) == {name \in DOMAIN values : Present(values[name])}

\* The members of a finite set in the order of a relation, from the first to the last.
InOrder(S, before) ==
    LET Place(x) == Cardinality({y \in S : <<y, x>> \in before}) + 1 IN
    [n \in 1 .. Cardinality(S) |-> CHOOSE x \in S : Place(x) = n]

Ascending(S) == InOrder(S, {p \in S \X S : p[1] < p[2]})

\* The sum of f over a set of names.
Total(f, names) == MapThenSumSet(LAMBDA n : f[n], names)
=============================================================================
