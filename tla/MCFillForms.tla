---------------------------- MODULE MCFillForms ----------------------------
(***************************************************************************)
(* Small instances of FillForms for TLC.                                   *)
(***************************************************************************)
EXTENDS FillForms, TLC

CONSTANTS p1, i1, o1, o2, x1, f1, f2, u1, u2

Known(cents) == [status |-> "KNOWN", cents |-> cents]
NoFee == {Known(0)}
Now == {"now"}

TwoForms == (f1 :> o1) @@ (f2 :> o2)

=============================================================================
