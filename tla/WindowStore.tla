---------------------------- MODULE WindowStore -----------------------------
(***************************************************************************)
(* The slots of the window in the dagstore partition: a save overwrites an *)
(* invalid slot, or else the older one; a load elects the valid slot of    *)
(* the highest generation.  A slot is valid when its CRC is.               *)
(***************************************************************************)
EXTENDS FlashSlots

vars == <<slot, op>>

Valid(i) == Whole(slot[i])

Gen(i) == slot[i].head.gen

(* Faulty variant of MaxGen: the second slot counts when the first is torn. *)
MaxGenOfFirst ==
    CASE Valid(0)              -> Gen(0)
      [] ~Valid(0) /\ Valid(1) -> Gen(1)
      [] ~Valid(0) /\ ~Valid(1) -> 0

MaxGen ==
    CASE Valid(0) /\ Valid(1)   -> IF Gen(0) > Gen(1) THEN Gen(0) ELSE Gen(1)
      [] Valid(0) /\ ~Valid(1)  -> Gen(0)
      [] ~Valid(0) /\ Valid(1)  -> Gen(1)
      [] ~Valid(0) /\ ~Valid(1) -> 0

(* Faulty variant of Target: the newer slot is overwritten. *)
TargetNewer ==
    CASE ~Valid(0)             -> 0
      [] Valid(0) /\ ~Valid(1) -> 1
      [] Valid(0) /\ Valid(1)  -> IF Gen(0) <= Gen(1) THEN 1 ELSE 0

Target ==
    CASE ~Valid(0)             -> 0
      [] Valid(0) /\ ~Valid(1) -> 1
      [] Valid(0) /\ Valid(1)  -> IF Gen(0) <= Gen(1) THEN 0 ELSE 1

(* What a load returns: NoValue when no slot is valid. *)
Loaded ==
    CASE Valid(0) /\ (Valid(1) => Gen(1) <= Gen(0)) -> slot[0].head.val
      [] Valid(1) /\ (Valid(0) => Gen(1) > Gen(0))  -> slot[1].head.val
      [] ~Valid(0) /\ ~Valid(1)                     -> NoValue

Init == slot = [i \in {0, 1} |-> Erased] /\ op = NoOp

Save(v) == Begin(Target, [gen |-> MaxGen + 1, val |-> v])

Next == (\E v \in Value : Save(v)) \/ Step \/ Return \/ Interrupt

Spec == Init /\ [][Next]_vars
-----------------------------------------------------------------------------
(* dag_store.h: "a cut during the write leaves the old slot intact", and the *)
(* next load returns it: to its callers the window is a safe cell, whatever  *)
(* the number of cuts and errors.                                            *)
Cell == INSTANCE SafeCell
            WITH cell <- Loaded,
                 pending <- IF op = NoOp THEN NoValue ELSE op.new.val

IsSafeCell == Cell!Spec

-----------------------------------------------------------------------------
TypeOK ==
    /\ slot \in [{0, 1} -> Slot]
    /\ op \in Op \cup {NoOp}

(* A slot is written in order: what a block holds the ones before it hold.   *)
InOrder ==
    op # NoOp =>
        LET s == slot[op.target]
        IN  /\ op.at \in {"eraseBody", "eraseFoot", "writeHead"} => s.head = Blank
            /\ op.at \in {"eraseFoot", "writeHead", "writeBody"} => s.body = Blank
            /\ op.at \in {"writeHead", "writeBody", "writeFoot"} => s.foot = Blank
            /\ op.at \in {"writeBody", "writeFoot", "done"} => s.head = op.new
            /\ op.at \in {"writeFoot", "done"} => s.body = op.new
            /\ op.at = "done" => s.foot = op.new
(* The slot being programmed is not the one a load elects until it is whole, *)
(* and then it is the newer of the two.                                      *)
Spare ==
    op # NoOp =>
        LET other == 1 - op.target
        IN  /\ Valid(other) => Gen(other) < op.new.gen
            /\ op.at = "eraseHead" /\ Valid(op.target) =>
                  Valid(other) /\ Gen(op.target) < Gen(other)

Distinct == Valid(0) /\ Valid(1) => Gen(0) # Gen(1)

(* All of the above: what every step of a save keeps, torn slots included.   *)
SlotInv == TypeOK /\ InOrder /\ Spare /\ Distinct
=============================================================================
