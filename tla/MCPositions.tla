---------------------------- MODULE MCPositions ----------------------------
(***************************************************************************)
(* Small instances of Positions for TLC.                                   *)
(***************************************************************************)
EXTENDS Positions, TLC

CONSTANTS p1, o1, o2, o3, f1, f2, f3

Known(cents) == [status |-> "KNOWN", cents |-> cents]
Estimated(cents) == [status |-> "ESTIMATED", cents |-> cents]
Unknown == [status |-> "UNKNOWN", cents |-> 0]

NoFee == {Known(0)}
SomeFees == {Known(0), Estimated(1), Unknown}
LargeFee == {Known(0), Known(3)}

Symmetry == Permutations(OrderId) \cup Permutations(FillId)

Now == {"now"}
AnyTime == {"now", "before_order", "before_position"}
AnyAdminTarget == OrderStatus
CancelOnly == {"CANCELED"}
=============================================================================
