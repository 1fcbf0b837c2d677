------------------------------ MODULE SafeCell ------------------------------
(***************************************************************************)
(* What a double-buffered store promises: a cell that a save changes at    *)
(* one instant, from the value before to the value being saved, or never;  *)
(* whatever interrupts the save, the cell holds one of the two.            *)
(***************************************************************************)
CONSTANTS Value, NoValue   \* NoValue is not in Value

VARIABLES cell,     \* what a load returns
          pending   \* the value being saved, NoValue when none is

Init == cell = NoValue /\ pending = NoValue

Begin(v) ==
    /\ pending = NoValue
    /\ pending' = v
    /\ UNCHANGED cell

Take ==
    /\ pending # NoValue
    /\ cell' = pending
    /\ UNCHANGED pending

End ==
    /\ pending # NoValue
    /\ pending' = NoValue
    /\ UNCHANGED cell

Next == (\E v \in Value : Begin(v)) \/ Take \/ End

Spec == Init /\ [][Next]_<<cell, pending>>
=============================================================================
