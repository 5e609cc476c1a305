------------------------ MODULE MCCalibrationLedger ------------------------
(* Small instances of CalibrationLedger for TLC. *)
EXTENDS CalibrationLedger, TLC

CONSTANTS p1, p2, r1, a1, a2, e1, e2, e3, e4, e5, b1

First == [prereg_id |-> r1, db |-> 1, cutoff |-> 1, base |-> b1, trained_at |-> 2,
          train |-> {e1}, validation |-> {e2}, test |-> {e3}]
\* The same model and test, two more events.
Second == [prereg_id |-> r1, db |-> 2, cutoff |-> 2, base |-> b1, trained_at |-> 2,
           train |-> {e1, e2}, validation |-> {e4, e5}, test |-> {e3}]
Two == {First, Second}

Symmetry == Permutations(Procs) \cup Permutations(Attempts)

Good == [valid |-> TRUE, enough |-> TRUE, ece |-> 1, brier |-> 0]
Flat == [valid |-> TRUE, enough |-> TRUE, ece |-> 0, brier |-> 0]
GoodOrFlat == {Good, Flat}
=============================================================================
