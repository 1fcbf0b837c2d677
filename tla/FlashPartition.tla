--------------------------- MODULE FlashPartition ---------------------------
(***************************************************************************)
(* The dagstore partition of a device: the slots of the window at its head *)
(* (WindowStore), those of the checkpoint at its tail (CheckpointStore).   *)
(* The two have no sector in common at the sizes the firmware is built     *)
(* with.  The runtime saves under its lock, so that one save at most is    *)
(* under way, and a power cut stops whichever it is.                       *)
(***************************************************************************)
EXTENDS WindowStore

CONSTANTS Currency, NoCurrency,
          InterruptMax      \* bound on the interrupted saves of a checkpoint

ASSUME FlashPartitionAssumption ==
    /\ InterruptMax \in Nat
    /\ NoCurrency \notin Currency
    /\ Blank \notin [gen : Nat, val : Currency]

VARIABLES cslot, cop,       \* the slots of the checkpoint and their save
          ram, member, interrupts, prev, reset

Tail == INSTANCE CheckpointStore
            WITH slot <- cslot, op <- cop, Value <- Currency, NoValue <- NoCurrency

wallet == <<ram, member, interrupts, prev, reset>>

partition == <<slot, op, cslot, cop, wallet>>

PInit == Init /\ Tail!Init

Join(c) == Tail!Join(c) /\ UNCHANGED <<slot, op>>

SaveWindow(v) ==
    /\ cop = NoOp
    /\ Save(v)
    /\ UNCHANGED <<cslot, cop, wallet>>

SaveCheckpoint(gen) ==
    /\ op = NoOp
    /\ Tail!Save(gen)
    /\ UNCHANGED <<slot, op>>

Advance ==
    \/ (Step \/ Return) /\ UNCHANGED <<cslot, cop, wallet>>
    \/ Tail!Progress /\ UNCHANGED <<slot, op>>

(* An error of the backend stops one save; a power cut stops the one there  *)
(* is, and what was adopted in RAM is what a boot adopts from the flash.    *)
Fail ==
    \/ Interrupt /\ UNCHANGED <<cslot, cop, wallet>>
    \/ Tail!Stop /\ UNCHANGED <<slot, op>>

Boot == Tail!PowerCut /\ op' = NoOp /\ UNCHANGED slot

Reset == Tail!Reset /\ op' = NoOp /\ UNCHANGED slot

PNext ==
    \/ \E c \in Currency : Join(c)
    \/ \E v \in Value : SaveWindow(v)
    \/ \E gen \in 1 .. GenMax : SaveCheckpoint(gen)
    \/ Advance \/ Fail \/ Boot \/ Reset

PSpec == PInit /\ [][PNext]_partition

-----------------------------------------------------------------------------
(* A checkpoint whose save returned is what the next boot adopts, even over *)
(* slots that earlier cuts have torn, however windows are saved meanwhile;  *)
(* but for what is left of a time before the record was erased, which may   *)
(* be elected in its place.                                                 *)
SavedIsLoaded == Tail!SavedIsLoaded

(* As long as no save of a checkpoint was interrupted, the cut that comes   *)
(* first finds the previous checkpoint or the new one; again but for such   *)
(* leftovers.                                                               *)
FirstCutHarmless == Tail!FirstCutHarmless
=============================================================================
