-------------------------- MODULE CheckpointStore ---------------------------
(***************************************************************************)
(* The slots of the checkpoint at the tail of the dagstore partition.  The *)
(* generation of a slot is that of the checkpoint, and the slot a save     *)
(* overwrites is elected on the header alone; only a load checks the CRC.  *)
(*                                                                         *)
(* A value is a currency, and a content the one checkpoint of a generation *)
(* of a currency.  A wallet saves what it has just adopted in RAM: a       *)
(* higher generation than the one it sat on.  A boot adopts the elected    *)
(* checkpoint if it is of the currency of the record, and otherwise none:  *)
(* it never looks at the other slot.  Erasing the record (the reset of the *)
(* screens, the wipe of NVS) leaves these slots as they are, so that a     *)
(* checkpoint of a former currency may be elected instead of a saved one.  *)
(***************************************************************************)
EXTENDS FlashSlots

CONSTANT InterruptMax   \* bound on the power cuts and backend errors

VARIABLES ram,          \* generation adopted in RAM, 0 when none is
          member,       \* currency of the record, NoValue without one
          interrupts,   \* how many saves were interrupted
          (*****************************************************************)
          (* Not in the code.                                              *)
          (*****************************************************************)
          prev,         \* what a boot would have adopted when the save began
          reset         \* whether the record was ever erased

vars == <<slot, op, ram, member, interrupts, prev, reset>>

HeadGen(i) == IF slot[i].head = Blank THEN 0 ELSE slot[i].head.gen

(* Faulty variant of Target: the newer slot is overwritten. *)
TargetNewer == IF HeadGen(0) <= HeadGen(1) THEN 1 ELSE 0

Target == IF HeadGen(0) <= HeadGen(1) THEN 0 ELSE 1

(* Faulty variant of Elected: the first whole slot is taken. *)
ElectedFirst ==
    CASE Whole(slot[0])                        -> 0
      [] ~Whole(slot[0]) /\ Whole(slot[1])     -> 1
      [] ~Whole(slot[0]) /\ ~Whole(slot[1])    -> 2

(* The slots are looked at in order: the second must be strictly newer. *)
Elected ==
    CASE Whole(slot[0]) /\ (Whole(slot[1]) => HeadGen(1) <= HeadGen(0)) -> 0
      [] Whole(slot[1]) /\ (Whole(slot[0]) => HeadGen(1) > HeadGen(0))  -> 1
      [] ~Whole(slot[0]) /\ ~Whole(slot[1])                             -> 2

(* What the load returns is of a currency that is no longer the device's.    *)
Shadowed == Elected # 2 /\ slot[Elected].head.val # member

(* What a boot adopts.                                                       *)
Adopted == IF Elected = 2 \/ Shadowed THEN Blank ELSE slot[Elected].head

AdoptedGen == IF Elected = 2 \/ Shadowed THEN 0 ELSE HeadGen(Elected)

Init ==
    /\ slot = [i \in {0, 1} |-> Erased]
    /\ op = NoOp
    /\ ram = 0
    /\ member = NoValue
    /\ interrupts = 0
    /\ prev = Blank
    /\ reset = FALSE

(* Creating a currency or joining one: the record has its descriptor.        *)
Join(c) ==
    /\ op = NoOp
    /\ member = NoValue
    /\ member' = c
    /\ UNCHANGED <<slot, op, ram, interrupts, prev, reset>>

Save(gen) ==
    /\ member # NoValue
    /\ gen > ram
    /\ ram' = gen
    /\ prev' = Adopted
    /\ Begin(Target, [gen |-> gen, val |-> member])
    /\ UNCHANGED <<member, interrupts, reset>>

Progress ==
    /\ (Step /\ UNCHANGED prev) \/ (Return /\ prev' = Blank)
    /\ UNCHANGED <<ram, member, interrupts, reset>>

Interrupted ==
    /\ interrupts < InterruptMax
    /\ interrupts' = interrupts + 1
    /\ Interrupt
    /\ prev' = Blank

(* An error leaves the adoption in RAM; a power cut loses it. *)
Stop ==
    /\ Interrupted
    /\ ram' \in {ram, AdoptedGen}
    /\ UNCHANGED <<member, reset>>

PowerCut ==
    /\ op = NoOp
    /\ ram' = AdoptedGen
    /\ UNCHANGED <<slot, op, member, interrupts, prev, reset>>

(* The record is erased and the device restarts, in the middle of a save or  *)
(* not, as no member of anything.                                            *)
Reset ==
    /\ Interrupted \/ (op = NoOp /\ UNCHANGED <<slot, op, interrupts, prev>>)
    /\ ram' = 0
    /\ member' = NoValue
    /\ reset' = TRUE

Next ==
    \/ \E c \in Value : Join(c)
    \/ \E gen \in 1..GenMax : Save(gen)
    \/ Progress
    \/ Stop
    \/ PowerCut
    \/ Reset

Spec == Init /\ [][Next]_vars

-----------------------------------------------------------------------------
TypeOK ==
    /\ slot \in [{0, 1} -> Slot]
    /\ op \in Op \cup {NoOp}
    /\ ram \in 0..GenMax
    /\ member \in Value \cup {NoValue}
    /\ interrupts \in 0..InterruptMax
    /\ prev \in Content \cup {Blank}
    /\ reset \in BOOLEAN

(* As long as no save was interrupted, the cut that comes first finds what a *)
(* boot would have adopted before, or the new checkpoint; once the record    *)
(* was erased a leftover may be in their place, or an older one come back.   *)
FirstCutHarmless ==
    op # NoOp /\ interrupts = 0 =>
        \/ Adopted \in {prev, op.new}
        \/ reset /\ (Shadowed \/ prev = Blank)

(* A save that returns is what the next boot adopts, even over slots that    *)
(* earlier cuts have torn: no torn slot and no older one is taken instead.   *)
(* Only on a device whose record was once erased may something else be       *)
(* elected: a leftover of another currency, and the boot adopts nothing, or  *)
(* a leftover of this one, of a higher generation.                           *)
SavedIsLoaded ==
    op # NoOp /\ op.at = "done" =>
        \/ Adopted = op.new
        \/ reset /\ (Shadowed \/ AdoptedGen > op.new.gen)
=============================================================================
