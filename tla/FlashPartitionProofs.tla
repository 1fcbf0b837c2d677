------------------------- MODULE FlashPartitionProofs ------------------------
(***************************************************************************)
(* The window and the checkpoint of a device in one partition, for every   *)
(* set of values and currencies, any number of generations, cuts, backend  *)
(* errors and resets.                                                      *)
(*                                                                         *)
(* The window store implements SafeCell, and the head is the window store, *)
(* whatever the tail does.  In the tail of a device that was never reset a *)
(* save has a generation above that of every whole slot, so that it is     *)
(* elected once its last block is there, and every whole slot is of the    *)
(* currency of the record; as long as no save was interrupted, the slot it *)
(* overwrites is not the one a boot adopts.                                *)
(***************************************************************************)
EXTENDS FlashPartition, TLAPS

-----------------------------------------------------------------------------
(* The head by itself: the window store is a safe cell. *)

LEMMA ContentNotBlank == \A c \in Content : c # Blank
BY FlashAssumption DEF Content

LEMMA NoOpIsNoOp == NoOp \notin Op
BY DEF NoOp, Op

LEMMA MaxGenBound ==
    ASSUME TypeOK
    PROVE  /\ MaxGen \in Nat
           /\ \A i \in {0, 1} : Valid(i) => slot[i].head \in Content /\ Gen(i) <= MaxGen
<1>1. ASSUME NEW i \in {0, 1}, Valid(i)
      PROVE  slot[i].head \in Content /\ Gen(i) \in Nat
  BY <1>1 DEF TypeOK, Slot, Valid, Whole, Gen, Content
<1> QED
  BY <1>1, Z3 DEF MaxGen

(* The target of a save is never the slot a load elects.                     *)
LEMMA TargetIsSpare ==
    ASSUME TypeOK, Distinct, Valid(Target)
    PROVE  Target \in {0, 1} /\ Valid(1 - Target) /\ Gen(Target) < Gen(1 - Target)
BY MaxGenBound DEF Target, Distinct, TypeOK, Slot, Content, Gen

LEMMA TargetType == Target \in {0, 1}
BY DEF Target
-----------------------------------------------------------------------------
(* The inductive invariant.                                                  *)

LEMMA SaveKeeps ==
    ASSUME SlotInv, NEW v \in Value, Save(v)
    PROVE  SlotInv'
<1> DEFINE new == [gen |-> MaxGen + 1, val |-> v]
<1>1. TypeOK /\ Distinct /\ slot' = slot
  BY DEF SlotInv, Save, Begin
<1>2. op' = [at |-> "eraseHead", target |-> Target, new |-> new]
  BY DEF Save, Begin
<1>3. new \in Content /\ new.gen = MaxGen + 1 /\ MaxGen \in Nat
  BY <1>1, MaxGenBound DEF Content
<1> HIDE DEF new
<1>4. op' \in Op
  BY <1>1, <1>2, <1>3, TargetType DEF Op, Place
<1>5. /\ op'.at = "eraseHead" /\ op'.target = Target /\ op'.new = new
      /\ Target \in {0, 1} /\ 1 - Target \in {0, 1}
  BY <1>2, TargetType
<1>6. TypeOK'
  BY <1>1, <1>4 DEF TypeOK
<1>7. InOrder'
  BY <1>5 DEF InOrder
<1>8. Distinct'
  BY <1>1 DEF Distinct, Valid, Gen
<1>9. Spare'
  <2>1. Valid(1 - Target) => Gen(1 - Target) < new.gen
    BY <1>1, <1>3, <1>5, MaxGenBound DEF Gen, Content
  <2>2. Valid(Target) => Valid(1 - Target) /\ Gen(Target) < Gen(1 - Target)
    BY <1>1, TargetIsSpare
  <2> QED
    BY <1>1, <1>5, <2>1, <2>2 DEF Spare, Valid, Gen
<1> QED
  BY <1>6, <1>7, <1>8, <1>9 DEF SlotInv

(* The effect of one block on the slot being programmed, and on the other.   *)
LEMMA StepEffect ==
    ASSUME TypeOK, Step
    PROVE  /\ op \in Op /\ op.target \in {0, 1} /\ op.at # "done"
           /\ op.new \in Content /\ op.at \in Place
           /\ slot'[op.target] = Program(slot[op.target], op.at, op.new)
           /\ slot'[1 - op.target] = slot[1 - op.target]
           /\ op'.at = After(op.at) /\ op'.target = op.target
           /\ op'.new = op.new /\ op' # NoOp
           /\ TypeOK'
<1>1. op \in Op /\ op.at # "done"
  BY DEF Step, TypeOK
<1>2. op.target \in {0, 1} /\ op.new \in Content /\ op.at \in Place
  BY <1>1 DEF Op
<1>3. slot' = [slot EXCEPT ![op.target] = Program(slot[op.target], op.at, op.new)]
  BY DEF Step
<1>4. op' = [op EXCEPT !.at = After(op.at)]
  BY DEF Step
<1>5. After(op.at) \in Place
  BY <1>1, <1>2 DEF After, Place
<1>6. op' \in Op
  BY <1>1, <1>4, <1>5 DEF Op
<1>7. slot[op.target] \in Slot
  BY <1>2 DEF TypeOK
<1>8. Program(slot[op.target], op.at, op.new) \in Slot
  <2> DEFINE s == slot[op.target]
             c == op.new
  <2>1. s \in Slot /\ c \in Content
    BY <1>2, <1>7
  <2> HIDE DEF s, c
  <2>2. /\ [s EXCEPT !.head = Blank] \in Slot /\ [s EXCEPT !.head = c] \in Slot
        /\ [s EXCEPT !.body = Blank] \in Slot /\ [s EXCEPT !.body = c] \in Slot
        /\ [s EXCEPT !.foot = Blank] \in Slot /\ [s EXCEPT !.foot = c] \in Slot
    BY <2>1 DEF Slot
  <2>3. Program(s, op.at, c) \in Slot
    BY <1>1, <1>2, <2>2 DEF Program, Place
  <2> QED
    BY <2>3 DEF s, c
<1>9. slot' \in [{0, 1} -> Slot]
  BY <1>2, <1>3, <1>8 DEF TypeOK
<1>10. TypeOK'
  BY <1>6, <1>9 DEF TypeOK
<1>11. op' # NoOp
  BY <1>6, NoOpIsNoOp
<1>12. /\ slot'[op.target] = Program(slot[op.target], op.at, op.new)
       /\ slot'[1 - op.target] = slot[1 - op.target]
  BY <1>2, <1>3 DEF TypeOK
<1>13. op'.at = After(op.at) /\ op'.target = op.target /\ op'.new = op.new
  BY <1>1, <1>4 DEF Op
<1> QED
  BY <1>1, <1>2, <1>10, <1>11, <1>12, <1>13
(* The slot that is programmed is whole after the last block only.           *)
LEMMA StepTorn ==
    ASSUME TypeOK, InOrder, Step
    PROVE  /\ InOrder'
           /\ op.at # "eraseHead" => ~Whole(slot[op.target])
           /\ op.at = "writeFoot" => /\ Whole(slot'[op.target])
                                     /\ slot'[op.target].head = op.new
           /\ op.at # "writeFoot" => ~Whole(slot'[op.target])
<1> DEFINE s == slot[op.target]
           t == slot'[op.target]
           c == op.new
<1>1. /\ s \in Slot /\ t \in Slot /\ c \in Content /\ op # NoOp
      /\ op.at \in Place \ {"done"} /\ t = Program(s, op.at, c)
      /\ op'.at = After(op.at) /\ op'.target = op.target /\ op'.new = c
  BY StepEffect, NoOpIsNoOp DEF TypeOK
<1>2. c # Blank
  BY <1>1, ContentNotBlank
<1>3. /\ op.at \in {"eraseBody", "eraseFoot", "writeHead"} => s.head = Blank
      /\ op.at \in {"eraseFoot", "writeHead", "writeBody"} => s.body = Blank
      /\ op.at \in {"writeHead", "writeBody", "writeFoot"} => s.foot = Blank
      /\ op.at \in {"writeBody", "writeFoot", "done"} => s.head = c
      /\ op.at \in {"writeFoot", "done"} => s.body = c
  BY <1>1 DEF InOrder
<1> HIDE DEF s, t, c
<1>4. /\ op'.at \in {"eraseBody", "eraseFoot", "writeHead"} => t.head = Blank
      /\ op'.at \in {"eraseFoot", "writeHead", "writeBody"} => t.body = Blank
      /\ op'.at \in {"writeHead", "writeBody", "writeFoot"} => t.foot = Blank
      /\ op'.at \in {"writeBody", "writeFoot", "done"} => t.head = c
      /\ op'.at \in {"writeFoot", "done"} => t.body = c
      /\ op'.at = "done" => t.foot = c
  BY <1>1, <1>3 DEF Program, After, Place, Slot
<1>5. InOrder'
  BY <1>1, <1>4 DEF InOrder, t, c
<1>6. op.at # "eraseHead" => ~Whole(s)
  BY <1>1, <1>2, <1>3 DEF Whole, Place
<1>7. op.at = "writeFoot" => Whole(t) /\ t.head = c
  BY <1>1, <1>2, <1>3 DEF Whole, Program, Slot
<1>8. op.at # "writeFoot" => ~Whole(t)
  BY <1>1, <1>2, <1>4 DEF Whole, After, Place
<1> QED
  BY <1>5, <1>6, <1>7, <1>8 DEF s, t, c

LEMMA StepKeeps ==
    ASSUME SlotInv, Step
    PROVE  SlotInv'
<1> DEFINE i == op.target
           other == 1 - op.target
<1>1. TypeOK /\ InOrder /\ Spare /\ Distinct
  BY DEF SlotInv
<1>2. /\ i \in {0, 1} /\ other \in {0, 1} /\ slot'[other] = slot[other]
      /\ op # NoOp /\ op'.at = After(op.at) /\ op.at \in Place \ {"done"}
      /\ op'.target = i /\ op'.new = op.new /\ op.new \in Content
      /\ TypeOK'
  BY <1>1, StepEffect, NoOpIsNoOp
<1>3. /\ InOrder'
      /\ op.at = "writeFoot" => Whole(slot'[i]) /\ slot'[i].head = op.new
      /\ op.at # "writeFoot" => ~Whole(slot'[i])
  BY <1>1, StepTorn
<1>4. Valid(other) => Gen(other) < op.new.gen
  BY <1>1, <1>2 DEF Spare
<1>5. op'.at # "eraseHead"
  BY <1>2 DEF After, Place
<1>6. Spare'
  BY <1>2, <1>4, <1>5 DEF Spare, Valid, Gen
<1>7. Distinct'
  <2>1. CASE op.at = "writeFoot"
    <3>1. Whole(slot'[other]) => slot'[other].head.gen < slot'[i].head.gen
      BY <1>2, <1>3, <1>4, <2>1 DEF Valid, Gen
    <3>2. slot'[i].head.gen \in Nat
      BY <1>2, <1>3, <2>1 DEF Content
    <3>3. Whole(slot'[other]) => slot'[other].head.gen \in Nat
      BY <1>2 DEF TypeOK, Slot, Whole, Content
    <3>4. Whole(slot'[other]) => slot'[other].head.gen # slot'[i].head.gen
      BY <3>1, <3>2, <3>3
    <3> QED
      BY <1>2, <3>4 DEF Distinct, Valid, Gen
  <2>2. CASE op.at # "writeFoot"
    BY <1>2, <1>3, <2>2 DEF Distinct, Valid
  <2> QED
    BY <2>1, <2>2
<1> QED
  BY <1>2, <1>3, <1>6, <1>7 DEF SlotInv

LEMMA StopKeeps ==
    ASSUME SlotInv, Return \/ Interrupt \/ UNCHANGED vars
    PROVE  SlotInv'
<1>1. slot' = slot /\ (op' = NoOp \/ op' = op)
  BY DEF Return, Interrupt, vars
<1> QED
  BY <1>1 DEF SlotInv, TypeOK, InOrder, Spare, Distinct, Valid, Gen

THEOREM SlotInvariance == Spec => []SlotInv
<1>1. Init => SlotInv
  BY DEF Init, SlotInv, TypeOK, Slot, Erased, InOrder, Spare, Distinct, Valid,
         Whole
<1>2. SlotInv /\ [Next]_vars => SlotInv'
  BY SaveKeeps, StepKeeps, StopKeeps DEF Next
<1> QED
  BY <1>1, <1>2, PTL DEF Spec

-----------------------------------------------------------------------------
(* The refinement.                                                           *)

(* A block changes what a load returns only when it completes the new slot.  *)
LEMMA StepRefines ==
    ASSUME SlotInv, Step
    PROVE  /\ Loaded' = Loaded \/ Loaded' = op.new.val
           /\ op # NoOp /\ op' # NoOp /\ op'.new = op.new
<1>1. TypeOK /\ InOrder /\ Spare /\ Distinct /\ SlotInv'
  BY StepKeeps DEF SlotInv
<1>2. PICK i \in {0, 1} : i = op.target
  BY <1>1, StepEffect
<1>3. PICK other \in {0, 1} : other = 1 - i
  OBVIOUS
<1>4. /\ i \in {0, 1} /\ other \in {0, 1} /\ slot'[other] = slot[other]
      /\ op # NoOp /\ op' # NoOp /\ op'.new = op.new /\ op.new \in Content
  BY <1>1, <1>2, <1>3, StepEffect, NoOpIsNoOp
<1>5. /\ op.at # "eraseHead" => ~Valid(i)
      /\ op.at = "writeFoot" => Whole(slot'[i]) /\ slot'[i].head = op.new
      /\ op.at # "writeFoot" => ~Whole(slot'[i])
  BY <1>1, <1>2, StepTorn DEF Valid
<1>6. /\ Valid(other) => Gen(other) < op.new.gen
      /\ op.at = "eraseHead" /\ Valid(i) => Valid(other) /\ Gen(i) < Gen(other)
  BY <1>1, <1>4, <1>2, <1>3 DEF Spare
<1>7. \A j \in {0, 1} : Valid(j) => Gen(j) \in Nat
  BY <1>1 DEF TypeOK, Slot, Valid, Whole, Gen, Content
<1>8. Loaded = IF Valid(other) THEN slot[other].head.val ELSE NoValue
  <2>1. CASE Valid(i)
    <3>1. Valid(other) /\ Gen(i) < Gen(other)
      BY <1>5, <1>6, <2>1
    <3> QED
      BY <1>3, <1>4, <1>7, <2>1, <3>1, Z3 DEF Loaded
  <2>2. CASE ~Valid(i)
    BY <1>3, <1>4, <2>2, Z3 DEF Loaded
  <2> QED
    BY <2>1, <2>2
<1>9. CASE op.at = "writeFoot"
  <2>1. Valid(i)' /\ slot'[i].head.val = op.new.val /\ Gen(i)' = op.new.gen
    BY <1>4, <1>5, <1>9 DEF Valid, Gen
  <2>2. Valid(other)' => Gen(other)' < Gen(i)' /\ Gen(other)' \in Nat
    BY <1>4, <1>6, <1>7, <2>1 DEF Valid, Gen
  <2>3. Gen(i)' \in Nat
    BY <1>4, <2>1 DEF Content
  <2>4. Loaded' = slot'[i].head.val
    BY <1>3, <1>4, <2>1, <2>2, <2>3, Z3 DEF Loaded
  <2> QED
    BY <1>4, <2>1, <2>4
<1>10. CASE op.at # "writeFoot"
  <2>1. ~Valid(i)' /\ Valid(other)' = Valid(other)
    BY <1>4, <1>5, <1>10 DEF Valid
  <2>2. Loaded' = IF Valid(other)' THEN slot'[other].head.val ELSE NoValue
    BY <1>3, <1>4, <2>1, Z3 DEF Loaded
  <2> QED
    BY <1>4, <1>8, <2>1, <2>2
<1> QED
  BY <1>4, <1>9, <1>10

(* The window store implements the safe cell: the initial slots are an empty *)
(* cell, and every step, whatever interrupts it, is a step of the cell.      *)
THEOREM Refinement == Spec => IsSafeCell
<1> DEFINE pend == IF op = NoOp THEN NoValue ELSE op.new.val
<1>1. Init => Cell!Init
  BY DEF Init, Cell!Init, Loaded, Valid, Whole, Erased
<1>2. SlotInv /\ [Next]_vars => [Cell!Next]_<<Loaded, pend>>
  <2>1. SUFFICES ASSUME SlotInv, [Next]_vars
                 PROVE  [Cell!Next]_<<Loaded, pend>>
    OBVIOUS
  <2>2. op # NoOp => op.new.val \in Value /\ op.new.val # NoValue
    BY <2>1, FlashAssumption DEF SlotInv, TypeOK, Op, Content
  <2>3. slot' = slot => Loaded' = Loaded
    BY DEF Loaded, Valid, Gen
  <2>4. ASSUME NEW v \in Value, Save(v) PROVE Cell!Begin(v)
    <3>1. /\ op = NoOp /\ slot' = slot /\ op'.new.val = v
      BY <2>4 DEF Save, Begin
    <3>2. op' # NoOp
      BY <2>1, <2>4, SaveKeeps, NoOpIsNoOp DEF Save, Begin, NoOp
    <3> QED
      BY <2>3, <3>1, <3>2 DEF Cell!Begin
  <2>5. ASSUME Step PROVE Cell!Take \/ UNCHANGED <<Loaded, pend>>
    BY <2>1, <2>2, <2>5, StepRefines DEF Cell!Take
  <2>6. ASSUME Return \/ Interrupt PROVE Cell!End
    BY <2>2, <2>3, <2>6 DEF Return, Interrupt, Cell!End
  <2>7. CASE UNCHANGED vars
    BY <2>3, <2>7 DEF vars
  <2> QED
    BY <2>1, <2>4, <2>5, <2>6, <2>7 DEF Next, Cell!Next
<1>3. Spec => [][Cell!Next]_<<Loaded, pend>>
  BY <1>2, SlotInvariance, PTL DEF Spec
<1>4. Spec => Cell!Init
  BY <1>1, PTL DEF Spec
<1> QED
  BY <1>3, <1>4, PTL DEF IsSafeCell, Cell!Spec

-----------------------------------------------------------------------------
(* The invariant of the tail. *)

(* A slot is written in order. *)
Order(s, o) ==
    /\ o.at \in {"eraseBody", "eraseFoot", "writeHead"} => s.head = Blank
    /\ o.at \in {"eraseFoot", "writeHead", "writeBody"} => s.body = Blank
    /\ o.at \in {"writeHead", "writeBody", "writeFoot"} => s.foot = Blank
    /\ o.at \in {"writeBody", "writeFoot", "done"} => s.head = o.new
    /\ o.at \in {"writeFoot", "done"} => s.body = o.new
    /\ o.at = "done" => s.foot = o.new

Other == 1 - cop.target

CTypes ==
    /\ cslot \in [{0, 1} -> Tail!Slot] /\ cop \in Tail!Op \cup {NoOp}
    /\ ram \in 0 .. GenMax /\ interrupts \in 0 .. InterruptMax
    /\ member \in Currency \cup {NoCurrency}
    /\ prev \in Tail!Content \cup {Blank} /\ reset \in BOOLEAN

COrder == cop # NoOp => Order(cslot[cop.target], cop)

(* What is whole, or being saved, is a checkpoint; a save is of the currency *)
(* of the record.                                                            *)
Dated ==
    /\ \A i \in {0, 1} : Whole(cslot[i]) =>
           0 < cslot[i].head.gen /\ cslot[i].head.gen <= GenMax
    /\ cop # NoOp =>
           0 < cop.new.gen /\ cop.new.gen <= GenMax /\ cop.new.val = member

(* Before any reset a whole slot is of the currency of the record, no newer  *)
(* than what was adopted in RAM, and older than what is being saved.         *)
FirstLife ==
    ~reset =>
        /\ \A i \in {0, 1} : Whole(cslot[i]) =>
               cslot[i].head.val = member /\ cslot[i].head.gen <= ram
        /\ cop # NoOp =>
               /\ cop.new.gen = ram
               /\ Whole(cslot[Other]) => cslot[Other].head.gen < ram

(* What the slot that is not written holds while a save runs, in the terms   *)
(* of what a boot would have adopted before.                                 *)
Kept(s) ==
    \/ s = Erased /\ prev = Blank
    \/ Whole(s) /\ (s.head.val = member => prev = s.head \/ (prev = Blank /\ reset))

(* Without an interruption no slot is torn but the one being written.        *)
Neat ==
    interrupts = 0 =>
        /\ cop = NoOp => \A i \in {0, 1} : cslot[i] = Erased \/ Whole(cslot[i])
        /\ cop # NoOp =>
               /\ Kept(cslot[Other])
               /\ cop.at = "eraseHead" => prev = Tail!Adopted

TailInv == CTypes /\ COrder /\ Dated /\ FirstLife /\ Neat

-----------------------------------------------------------------------------
(* The operators of the tail are those of the head. *)

LEMMA SameSlots ==
    /\ Tail!NoOp = NoOp /\ Tail!Erased = Erased /\ Tail!Place = Place
    /\ \A s : Tail!Whole(s) = Whole(s)
    /\ \A s, at, c : Tail!Program(s, at, c) = Program(s, at, c)
    /\ \A at : Tail!After(at) = After(at)
<1>1. Tail!NoOp = NoOp /\ Tail!Erased = Erased /\ Tail!Place = Place
    BY DEF Tail!NoOp, NoOp, Tail!Erased, Erased, Tail!Place, Place
<1>2. \A s : Tail!Whole(s) = Whole(s)
    BY DEF Tail!Whole, Whole
<1>3. \A s, at, c : Tail!Program(s, at, c) = Program(s, at, c)
    BY DEF Tail!Program, Program
<1>4. \A at : Tail!After(at) = After(at)
    BY DEF Tail!After, After
<1> QED BY <1>1, <1>2, <1>3, <1>4

LEMMA CheckpointNotBlank == \A c \in Tail!Content : c # Blank
BY FlashPartitionAssumption DEF Tail!Content

LEMMA NoSave == NoOp \notin Tail!Op
BY DEF NoOp, Tail!Op

LEMMA WholeIs ==
    ASSUME NEW s \in Tail!Slot, Whole(s)
    PROVE  s.head \in Tail!Content /\ s.head.gen \in Nat /\ s.head.val \in Currency
BY DEF Tail!Slot, Whole, Tail!Content

LEMMA ErasedIs == Erased \in Tail!Slot /\ ~Whole(Erased)
BY DEF Erased, Tail!Slot, Whole

(* A load elects a whole slot than which no whole one is newer.              *)
LEMMA Election ==
    ASSUME CTypes
    PROVE  /\ Tail!Elected \in {0, 1, 2}
           /\ Tail!Elected = 2 => \A i \in {0, 1} : ~Whole(cslot[i])
           /\ Tail!Elected # 2 =>
                 /\ Whole(cslot[Tail!Elected])
                 /\ \A i \in {0, 1} : Whole(cslot[i]) =>
                        cslot[i].head.gen <= cslot[Tail!Elected].head.gen
<1>1. cslot[0] \in Tail!Slot /\ cslot[1] \in Tail!Slot
    BY DEF CTypes
<1>2. \A i \in {0, 1} : Whole(cslot[i]) => /\ Tail!HeadGen(i) = cslot[i].head.gen
                                          /\ cslot[i].head.gen \in Nat
    BY <1>1, WholeIs DEF Tail!HeadGen, Whole
<1>3. CASE ~Whole(cslot[0]) /\ ~Whole(cslot[1])
    <2>1. Tail!Elected = 2
        BY <1>3, SameSlots DEF Tail!Elected
    <2> QED BY <1>3, <2>1
<1>4. CASE Whole(cslot[0]) /\ (Whole(cslot[1]) => Tail!HeadGen(1) <= Tail!HeadGen(0))
    <2>1. Tail!Elected = 0
        BY <1>4, <1>2, SameSlots DEF Tail!Elected
    <2> QED BY <1>2, <1>4, <2>1
<1>5. CASE Whole(cslot[1]) /\ (Whole(cslot[0]) => ~(Tail!HeadGen(1) <= Tail!HeadGen(0)))
    <2>1. Whole(cslot[0]) => Tail!HeadGen(1) > Tail!HeadGen(0)
        BY <1>2, <1>5
    <2>2. Tail!Elected = 1
        BY <1>5, <2>1, SameSlots DEF Tail!Elected
    <2> QED BY <1>2, <1>5, <2>1, <2>2
<1> QED BY <1>3, <1>4, <1>5

(* What a boot makes of it.                                                  *)
LEMMA Adoption ==
    ASSUME CTypes, Dated
    PROVE  /\ Tail!Adopted \in Tail!Content \cup {Blank}
           /\ Tail!AdoptedGen \in 0 .. GenMax
           /\ \A i \in {0, 1} : Whole(cslot[i]) /\ ~Tail!Shadowed =>
                  cslot[i].head.gen <= Tail!AdoptedGen
           /\ FirstLife /\ ~reset => ~Tail!Shadowed
<1> DEFINE e == Tail!Elected
<1>1. /\ e \in {0, 1, 2}
      /\ e = 2 => \A i \in {0, 1} : ~Whole(cslot[i])
      /\ e # 2 => /\ Whole(cslot[e])
                 /\ \A i \in {0, 1} : Whole(cslot[i]) => cslot[i].head.gen <= cslot[e].head.gen
    BY Election
<1>2. e # 2 => /\ e \in {0, 1} /\ cslot[e].head \in Tail!Content
               /\ Tail!HeadGen(e) = cslot[e].head.gen
               /\ cslot[e].head.gen \in 0 .. GenMax
    <2> SUFFICES ASSUME e # 2
                 PROVE  /\ e \in {0, 1} /\ cslot[e].head \in Tail!Content
                        /\ Tail!HeadGen(e) = cslot[e].head.gen
                        /\ cslot[e].head.gen \in 0 .. GenMax
        OBVIOUS
    <2> HIDE DEF e
    <2>1. e \in {0, 1} /\ Whole(cslot[e]) /\ cslot[e] \in Tail!Slot
        BY <1>1 DEF CTypes
    <2>2. cslot[e].head \in Tail!Content /\ cslot[e].head.gen \in Nat
        BY <2>1, WholeIs
    <2>3. cslot[e].head.gen <= GenMax
        BY <2>1 DEF Dated
    <2>4. Tail!HeadGen(e) = cslot[e].head.gen
        BY <2>1 DEF Tail!HeadGen, Whole
    <2> QED BY <2>1, <2>2, <2>3, <2>4, FlashAssumption
<1> HIDE DEF e
<1>3. /\ Tail!Adopted = IF e = 2 \/ Tail!Shadowed THEN Blank ELSE cslot[e].head
      /\ Tail!AdoptedGen = IF e = 2 \/ Tail!Shadowed THEN 0 ELSE Tail!HeadGen(e)
      /\ Tail!Shadowed = (e # 2 /\ cslot[e].head.val # member)
    BY DEF Tail!Adopted, Tail!AdoptedGen, Tail!Shadowed, e
<1>4. FirstLife /\ ~reset => ~Tail!Shadowed
    BY <1>1, <1>2, <1>3 DEF FirstLife
<1>5. Tail!Adopted \in Tail!Content \cup {Blank} /\ Tail!AdoptedGen \in 0 .. GenMax
    BY <1>2, <1>3, FlashAssumption
<1>6. \A i \in {0, 1} : Whole(cslot[i]) /\ ~Tail!Shadowed =>
          cslot[i].head.gen <= Tail!AdoptedGen
    BY <1>1, <1>2, <1>3
<1> QED BY <1>4, <1>5, <1>6

(* It is a matter of the slots and of the record.                            *)
LEMMA SameAdoption ==
    ASSUME cslot' = cslot, member' = member
    PROVE  Tail!Adopted' = Tail!Adopted
BY DEF Tail!Adopted, Tail!Shadowed, Tail!Elected, Tail!HeadGen, Tail!Whole

(* One block of a save. *)
LEMMA Programmed ==
    ASSUME NEW o \in Tail!Op, NEW s \in Tail!Slot, o.at # "done", Order(s, o),
           NEW p, p = [o EXCEPT !.at = After(o.at)], NEW t, t = Program(s, o.at, o.new)
    PROVE  /\ p \in Tail!Op /\ p.at # "eraseHead" /\ p.target = o.target
           /\ p.new = o.new
           /\ t \in Tail!Slot /\ Order(t, p)
           /\ o.at # "eraseHead" => ~Whole(s)
           /\ o.at = "writeFoot" => Whole(t) /\ t.head = o.new
           /\ o.at # "writeFoot" => ~Whole(t)
<1> DEFINE c == o.new
           at == o.at
<1>1. at \in Place \ {"done"} /\ c \in Tail!Content /\ c # Blank
    BY CheckpointNotBlank, SameSlots DEF Tail!Op
<1>2. After(at) \in Place /\ After(at) # "eraseHead"
    BY <1>1 DEF After, Place
<1>3. /\ p \in Tail!Op /\ p.at = After(at) /\ p.target = o.target /\ p.new = c
    BY <1>2, SameSlots DEF Tail!Op
<1>4. /\ at \in {"eraseBody", "eraseFoot", "writeHead"} => s.head = Blank
      /\ at \in {"eraseFoot", "writeHead", "writeBody"} => s.body = Blank
      /\ at \in {"writeHead", "writeBody", "writeFoot"} => s.foot = Blank
      /\ at \in {"writeBody", "writeFoot", "done"} => s.head = c
      /\ at \in {"writeFoot", "done"} => s.body = c
    BY DEF Order
<1> HIDE DEF c, at
<1>5. t = Program(s, at, c)
    BY DEF at, c
<1>6. t \in Tail!Slot
    <2>1. /\ [s EXCEPT !.head = Blank] \in Tail!Slot /\ [s EXCEPT !.head = c] \in Tail!Slot
          /\ [s EXCEPT !.body = Blank] \in Tail!Slot /\ [s EXCEPT !.body = c] \in Tail!Slot
          /\ [s EXCEPT !.foot = Blank] \in Tail!Slot /\ [s EXCEPT !.foot = c] \in Tail!Slot
        BY <1>1 DEF Tail!Slot
    <2> QED BY <1>1, <1>5, <2>1 DEF Program, Place
<1>7. /\ After(at) \in {"eraseBody", "eraseFoot", "writeHead"} => t.head = Blank
      /\ After(at) \in {"eraseFoot", "writeHead", "writeBody"} => t.body = Blank
      /\ After(at) \in {"writeHead", "writeBody", "writeFoot"} => t.foot = Blank
      /\ After(at) \in {"writeBody", "writeFoot", "done"} => t.head = c
      /\ After(at) \in {"writeFoot", "done"} => t.body = c
      /\ After(at) = "done" => t.foot = c
    BY <1>1, <1>4, <1>5 DEF Program, After, Place, Tail!Slot
<1>8. Order(t, p)
    BY <1>3, <1>7 DEF Order
<1>9. at # "eraseHead" => ~Whole(s)
    BY <1>1, <1>4 DEF Whole, Place
<1>10. at = "writeFoot" => Whole(t) /\ t.head = c
    BY <1>1, <1>7 DEF Whole, After
<1>11. at # "writeFoot" => ~Whole(t)
    BY <1>1, <1>7 DEF Whole, After, Place
<1> QED BY <1>2, <1>3, <1>6, <1>8, <1>9, <1>10, <1>11 DEF c, at

-----------------------------------------------------------------------------
(* The steps of the tail. *)

LEMMA TailInit == PInit => TailInv
<1> SUFFICES ASSUME PInit PROVE TailInv
    OBVIOUS
<1>1. /\ cslot = [i \in {0, 1} |-> Erased] /\ cop = NoOp /\ ram = 0 /\ interrupts = 0
      /\ member = NoCurrency /\ prev = Blank /\ reset = FALSE
    BY SameSlots DEF PInit, Tail!Init
<1>2. reset \in BOOLEAN
    BY <1>1, Zenon
<1>3. CTypes
    <2>1. /\ cslot \in [{0, 1} -> Tail!Slot] /\ cop \in Tail!Op \cup {NoOp}
          /\ ram \in 0 .. GenMax /\ interrupts \in 0 .. InterruptMax
        BY <1>1, ErasedIs, FlashAssumption, FlashPartitionAssumption
    <2>2. member \in Currency \cup {NoCurrency} /\ prev \in Tail!Content \cup {Blank}
        BY <1>1
    <2> QED BY <1>2, <2>1, <2>2 DEF CTypes
<1> QED BY <1>1, <1>3, ErasedIs DEF TailInv, COrder, Dated, FirstLife, Neat

LEMMA TailJoin ==
    ASSUME TailInv, NEW c \in Currency, Join(c)
    PROVE  TailInv'
<1>1. CTypes /\ Dated /\ FirstLife /\ Neat
    BY DEF TailInv
<1>2. /\ cop = NoOp /\ member = NoCurrency /\ member' = c
      /\ UNCHANGED <<cslot, cop, ram, interrupts, prev, reset>>
    BY SameSlots DEF Join, Tail!Join
<1>3. ~reset => \A i \in {0, 1} : ~Whole(cslot[i])
    <2> SUFFICES ASSUME ~reset, NEW i \in {0, 1}, Whole(cslot[i]) PROVE FALSE
        OBVIOUS
    <2>1. cslot[i] \in Tail!Slot /\ cslot[i].head.val = NoCurrency
        BY <1>1, <1>2 DEF CTypes, FirstLife
    <2> QED BY <2>1, WholeIs, FlashPartitionAssumption
<1>4. CTypes' /\ COrder' /\ Dated'
    BY <1>1, <1>2 DEF CTypes, COrder, Dated
<1>5. FirstLife' /\ Neat'
    BY <1>1, <1>2, <1>3 DEF FirstLife, Neat
<1> QED BY <1>4, <1>5 DEF TailInv

LEMMA TailSave ==
    ASSUME TailInv, NEW gen \in 1 .. GenMax, SaveCheckpoint(gen)
    PROVE  TailInv'
<1> DEFINE i == Tail!Target
           j == 1 - i
           new == [gen |-> gen, val |-> member]
<1>1. CTypes /\ Dated /\ FirstLife /\ Neat
    BY DEF TailInv
<1>2. /\ cop = NoOp /\ cslot' = cslot /\ gen > ram /\ ram' = gen
      /\ member # NoCurrency /\ prev' = Tail!Adopted
      /\ member' = member /\ interrupts' = interrupts /\ reset' = reset
      /\ cop' = [at |-> "eraseHead", target |-> i, new |-> new]
    BY SameSlots DEF SaveCheckpoint, Tail!Save, Tail!Begin
<1>3. i \in {0, 1} /\ j \in {0, 1} /\ j = 1 - i
    BY DEF Tail!Target
<1>4. /\ new \in Tail!Content /\ new.gen = gen /\ new.val = member
      /\ gen \in Nat /\ 0 < gen /\ gen <= GenMax
    BY <1>1, <1>2 DEF CTypes, Tail!Content
<1>5. \A k \in {0, 1} : /\ cslot[k] \in Tail!Slot
                        /\ Whole(cslot[k]) => /\ Tail!HeadGen(k) = cslot[k].head.gen
                                              /\ cslot[k].head.gen \in Nat
                                              /\ 0 < cslot[k].head.gen
                        /\ cslot[k] = Erased => Tail!HeadGen(k) = 0
    BY <1>1, WholeIs DEF CTypes, Dated, Tail!HeadGen, Whole, Erased
<1>6. Tail!HeadGen(i) <= Tail!HeadGen(j) \/ ~(Tail!HeadGen(j) <= Tail!HeadGen(i))
    BY DEF Tail!Target
<1> HIDE DEF new, i, j
<1>7. /\ cop' \in Tail!Op /\ cop' # NoOp /\ cop'.at = "eraseHead" /\ cop'.target = i
      /\ cop'.new = new
    BY <1>2, <1>3, <1>4, NoSave, SameSlots DEF Tail!Op, Place
<1>8. CTypes'
    BY <1>1, <1>2, <1>4, <1>7, Adoption DEF CTypes
<1>9. COrder'
    BY <1>7 DEF COrder, Order
<1>10. Dated'
    BY <1>1, <1>2, <1>4, <1>7 DEF Dated
<1>11. FirstLife'
    <2> SUFFICES ASSUME ~reset
                 PROVE  /\ \A k \in {0, 1} : Whole(cslot[k]) =>
                               cslot[k].head.val = member /\ cslot[k].head.gen <= gen
                        /\ new.gen = gen
                        /\ Whole(cslot[j]) => cslot[j].head.gen < gen
        BY <1>2, <1>3, <1>7 DEF FirstLife, Other
    <2>1. \A k \in {0, 1} : Whole(cslot[k]) =>
              cslot[k].head.val = member /\ cslot[k].head.gen < gen
        BY <1>1, <1>2, <1>4, <1>5 DEF CTypes, FirstLife
    <2> QED BY <1>3, <1>4, <1>5, <2>1
<1>12. ASSUME interrupts = 0, Whole(cslot[j]), cslot[j].head.val = member
       PROVE  Tail!Adopted = cslot[j].head \/ (Tail!Adopted = Blank /\ reset)
    <2> DEFINE e == Tail!Elected
    <2>1. /\ e \in {0, 1} /\ Whole(cslot[e])
          /\ cslot[j].head.gen <= cslot[e].head.gen
        BY <1>1, <1>3, <1>12, Election
    <2>2. /\ Tail!Shadowed = (cslot[e].head.val # member)
          /\ Tail!Adopted = IF Tail!Shadowed THEN Blank ELSE cslot[e].head
        BY <2>1 DEF Tail!Shadowed, Tail!Adopted
    <2> HIDE DEF e
    <2>3. cslot[e].head.val # member => reset
        BY <1>1, <2>1 DEF FirstLife
    <2>4. CASE e = j
        BY <1>12, <2>2, <2>4
    <2>5. CASE e = i /\ cslot[e].head.val = member
        <3>1. cslot[i].head.gen = cslot[j].head.gen
            BY <1>3, <1>5, <1>6, <1>12, <2>1, <2>5
        <3>2. cslot[i].head \in Tail!Content /\ cslot[j].head \in Tail!Content
            BY <1>3, <1>5, <1>12, <2>1, <2>5, WholeIs
        <3>3. cslot[i].head = cslot[j].head
            BY <1>12, <2>5, <3>1, <3>2 DEF Tail!Content
        <3> QED BY <2>2, <2>5, <3>3
    <2>6. CASE cslot[e].head.val # member
        BY <2>2, <2>3, <2>6
    <2>7. e = i \/ e = j
        BY <1>3, <2>1
    <2> QED BY <2>4, <2>5, <2>6, <2>7
<1>13. Neat'
    <2> SUFFICES ASSUME interrupts = 0
                 PROVE  \/ cslot[j] = Erased /\ Tail!Adopted = Blank
                        \/ /\ Whole(cslot[j])
                           /\ cslot[j].head.val = member =>
                                 \/ Tail!Adopted = cslot[j].head
                                 \/ Tail!Adopted = Blank /\ reset
        BY <1>2, <1>3, <1>7, SameAdoption DEF Neat, Kept, Other
    <2>1. \A k \in {0, 1} : cslot[k] = Erased \/ Whole(cslot[k])
        BY <1>1, <1>2 DEF Neat
    <2>2. CASE cslot[j] = Erased
        <3>1. ~Whole(cslot[i]) /\ ~Whole(cslot[j])
            BY <1>3, <1>5, <1>6, <2>1, <2>2, ErasedIs
        <3>2. \A k \in {0, 1} : ~Whole(cslot[k])
            BY <1>3, <3>1
        <3>3. Tail!Elected = 2
            BY <1>1, <3>2, Election
        <3> QED BY <2>2, <3>3 DEF Tail!Adopted
    <2> QED BY <1>3, <1>12, <2>1, <2>2
<1> QED BY <1>8, <1>9, <1>10, <1>11, <1>13 DEF TailInv

LEMMA TailStep ==
    ASSUME TailInv, Tail!Step, UNCHANGED wallet
    PROVE  TailInv'
<1> DEFINE i == cop.target
           j == 1 - i
<1>1. CTypes /\ COrder /\ Dated /\ FirstLife /\ Neat
    BY DEF TailInv
<1>2. /\ cop # NoOp /\ cop.at # "done"
      /\ cslot' = [cslot EXCEPT ![i] = Program(cslot[i], cop.at, cop.new)]
      /\ cop' = [cop EXCEPT !.at = After(cop.at)]
      /\ UNCHANGED <<ram, member, interrupts, prev, reset>>
    BY SameSlots DEF Tail!Step, wallet
<1>3. /\ cop \in Tail!Op /\ i \in {0, 1} /\ j \in {0, 1} /\ i # j
      /\ cslot[i] \in Tail!Slot /\ cslot[j] \in Tail!Slot /\ cop.new \in Tail!Content
    BY <1>1, <1>2 DEF CTypes, Tail!Op
<1>4. Order(cslot[i], cop)
    BY <1>1, <1>2 DEF COrder
<1>5. cslot'[i] = Program(cslot[i], cop.at, cop.new) /\ cslot'[j] = cslot[j]
    BY <1>1, <1>2, <1>3 DEF CTypes
<1>6. /\ cop' \in Tail!Op /\ cop'.at # "eraseHead" /\ cop'.target = i
      /\ cop'.new = cop.new
      /\ cslot'[i] \in Tail!Slot /\ Order(cslot'[i], cop')
      /\ cop.at = "writeFoot" => Whole(cslot'[i]) /\ cslot'[i].head = cop.new
      /\ cop.at # "writeFoot" => ~Whole(cslot'[i])
    <2>1. PICK o, s, p, t : o = cop /\ s = cslot[i] /\ p = cop' /\ t = cslot'[i]
        OBVIOUS
    <2>2. /\ o \in Tail!Op /\ s \in Tail!Slot /\ o.at # "done" /\ Order(s, o)
          /\ p = [o EXCEPT !.at = After(o.at)] /\ t = Program(s, o.at, o.new)
        BY <1>2, <1>3, <1>4, <1>5, <2>1
    <2>3. /\ p \in Tail!Op /\ p.at # "eraseHead" /\ p.target = o.target
          /\ p.new = o.new
          /\ t \in Tail!Slot /\ Order(t, p)
          /\ o.at = "writeFoot" => Whole(t) /\ t.head = o.new
          /\ o.at # "writeFoot" => ~Whole(t)
        BY <2>2, Programmed
    <2> QED BY <2>1, <2>3
<1>7. cop' # NoOp
    BY <1>6, NoSave
<1> HIDE DEF i, j
<1>8. CTypes'
    BY <1>1, <1>2, <1>3, <1>6 DEF CTypes
<1>9. COrder'
    BY <1>6, <1>7 DEF COrder, i
<1>10. \A k \in {0, 1} : k = i \/ k = j
    BY <1>3 DEF j
<1>11. Other = j /\ Other' = j
    BY <1>6 DEF Other, i, j
<1>12. Whole(cslot'[i]) => cslot'[i].head = cop.new
    BY <1>6
<1>13. Dated'
    BY <1>1, <1>2, <1>3, <1>5, <1>6, <1>7, <1>10, <1>12 DEF Dated
<1>14. FirstLife'
    <2> SUFFICES ASSUME ~reset
                 PROVE  /\ \A k \in {0, 1} : Whole(cslot'[k]) =>
                               cslot'[k].head.val = member /\ cslot'[k].head.gen <= ram
                        /\ cop.new.gen = ram
                        /\ Whole(cslot'[j]) => cslot'[j].head.gen < ram
        BY <1>2, <1>6, <1>11 DEF FirstLife
    <2>1. cop.new.gen = ram /\ cop.new.val = member /\ ram \in Nat
        BY <1>1, <1>2 DEF Dated, FirstLife, CTypes
    <2>2. Whole(cslot'[j]) => cslot'[j].head.val = member /\ cslot'[j].head.gen <= ram
        BY <1>1, <1>3, <1>5 DEF FirstLife
    <2>3. Whole(cslot'[i]) => cslot'[i].head.val = member /\ cslot'[i].head.gen <= ram
        BY <1>12, <2>1
    <2>4. Whole(cslot'[j]) => cslot'[j].head.gen < ram
        BY <1>1, <1>2, <1>5, <1>11 DEF FirstLife
    <2> QED BY <1>10, <2>1, <2>2, <2>3, <2>4
<1>15. Neat'
    BY <1>1, <1>2, <1>5, <1>6, <1>7, <1>11 DEF Neat, Kept
<1> QED BY <1>8, <1>9, <1>13, <1>14, <1>15 DEF TailInv

LEMMA TailReturn ==
    ASSUME TailInv, Tail!Return, prev' = Blank,
           UNCHANGED <<ram, member, interrupts, reset>>
    PROVE  TailInv'
<1>1. CTypes /\ COrder /\ Dated /\ FirstLife /\ Neat
    BY DEF TailInv
<1>2. cop # NoOp /\ cop.at = "done" /\ cop' = NoOp /\ cslot' = cslot
    BY SameSlots DEF Tail!Return
<1>3. cop \in Tail!Op /\ cop.target \in {0, 1} /\ cop.new \in Tail!Content
    BY <1>1, <1>2 DEF CTypes, Tail!Op
<1>4. Whole(cslot[cop.target])
    BY <1>1, <1>2, <1>3, CheckpointNotBlank DEF COrder, Order, Whole
<1>5. \A k \in {0, 1} : k = cop.target \/ k = Other
    BY <1>3 DEF Other
<1>6. interrupts = 0 => \A k \in {0, 1} : cslot[k] = Erased \/ Whole(cslot[k])
    BY <1>1, <1>2, <1>4, <1>5 DEF Neat, Kept
<1>7. CTypes' /\ COrder' /\ Dated' /\ FirstLife' /\ Neat'
    BY <1>1, <1>2, <1>6 DEF CTypes, COrder, Dated, FirstLife, Neat
<1> QED BY <1>7 DEF TailInv

(* A save that is interrupted, whatever becomes of what was adopted in RAM.  *)
LEMMA Interrupted ==
    ASSUME TailInv, Tail!Interrupted
    PROVE  /\ cop' = NoOp /\ cslot' = cslot /\ prev' = Blank
           /\ interrupts' \in 0 .. InterruptMax /\ interrupts' # 0
<1>1. /\ cop' = NoOp /\ cslot' = cslot /\ prev' = Blank
      /\ interrupts < InterruptMax /\ interrupts' = interrupts + 1
    BY SameSlots DEF Tail!Interrupted, Tail!Interrupt
<1>2. interrupts \in 0 .. InterruptMax
    BY DEF TailInv, CTypes
<1> QED BY <1>1, <1>2, FlashPartitionAssumption

LEMMA TailStop ==
    ASSUME TailInv, Tail!Stop
    PROVE  TailInv'
<1>1. CTypes /\ Dated /\ FirstLife
    BY DEF TailInv
<1>2. /\ cop' = NoOp /\ cslot' = cslot /\ prev' = Blank
      /\ interrupts' \in 0 .. InterruptMax /\ interrupts' # 0
      /\ ram' \in {ram, Tail!AdoptedGen} /\ UNCHANGED <<member, reset>>
    BY Interrupted DEF Tail!Stop
<1>3. ram' \in 0 .. GenMax
    BY <1>1, <1>2, Adoption DEF CTypes
<1>4. ~reset => \A k \in {0, 1} : Whole(cslot[k]) => cslot[k].head.gen <= ram'
    BY <1>1, <1>2, Adoption DEF FirstLife
<1>5. CTypes' /\ COrder' /\ Dated' /\ FirstLife' /\ Neat'
    BY <1>1, <1>2, <1>3, <1>4 DEF CTypes, COrder, Dated, FirstLife, Neat
<1> QED BY <1>5 DEF TailInv

LEMMA TailBoot ==
    ASSUME TailInv, Tail!PowerCut
    PROVE  TailInv'
<1>1. CTypes /\ Dated /\ FirstLife /\ Neat
    BY DEF TailInv
<1>2. /\ cop = NoOp /\ UNCHANGED <<cslot, cop, member, interrupts, prev, reset>>
      /\ ram' = Tail!AdoptedGen
    BY SameSlots DEF Tail!PowerCut
<1>3. ram' \in 0 .. GenMax
    BY <1>1, <1>2, Adoption
<1>4. ~reset => \A k \in {0, 1} : Whole(cslot[k]) => cslot[k].head.gen <= ram'
    BY <1>1, <1>2, Adoption
<1>5. CTypes' /\ COrder' /\ Dated' /\ FirstLife' /\ Neat'
    BY <1>1, <1>2, <1>3, <1>4 DEF CTypes, COrder, Dated, FirstLife, Neat
<1> QED BY <1>5 DEF TailInv

LEMMA TailReset ==
    ASSUME TailInv, Tail!Reset
    PROVE  TailInv'
<1>1. CTypes /\ Dated /\ Neat
    BY DEF TailInv
<1>2. ram' = 0 /\ member' = NoCurrency /\ reset' = TRUE
    BY DEF Tail!Reset
<1>3. /\ cop' = NoOp /\ cslot' = cslot /\ prev' \in {prev, Blank}
      /\ interrupts' \in 0 .. InterruptMax
      /\ interrupts' = 0 => interrupts = 0 /\ cop = NoOp
    <2>1. CASE Tail!Interrupted
        BY <2>1, Interrupted
    <2>2. CASE cop = Tail!NoOp /\ UNCHANGED <<cslot, cop, interrupts, prev>>
        BY <1>1, <2>2, SameSlots DEF CTypes
    <2> QED BY <2>1, <2>2 DEF Tail!Reset
<1>4. CTypes' /\ COrder' /\ Dated'
    BY <1>1, <1>2, <1>3, FlashAssumption DEF CTypes, COrder, Dated
<1>5. FirstLife' /\ Neat'
    BY <1>1, <1>2, <1>3 DEF FirstLife, Neat
<1> QED BY <1>4, <1>5 DEF TailInv

LEMMA TailStays ==
    ASSUME TailInv, UNCHANGED <<cslot, cop, wallet>>
    PROVE  TailInv'
<1>1. CTypes /\ COrder /\ Dated /\ FirstLife /\ Neat
    BY DEF TailInv
<1>2. UNCHANGED <<cslot, cop, ram, member, interrupts, prev, reset>>
    BY DEF wallet
<1>3. CTypes' /\ COrder' /\ Dated' /\ FirstLife'
    BY <1>1, <1>2 DEF CTypes, COrder, Dated, FirstLife, Other
<1>4. Neat'
    BY <1>1, <1>2, SameAdoption DEF Neat, Kept, Other
<1> QED BY <1>3, <1>4 DEF TailInv

LEMMA TailInvariance == PSpec => []TailInv
<1>1. TailInv /\ [PNext]_partition => TailInv'
    <2> SUFFICES ASSUME TailInv, [PNext]_partition PROVE TailInv'
        OBVIOUS
    <2>1. CASE \E c \in Currency : Join(c)
        BY <2>1, TailJoin
    <2>2. CASE \E v \in Value : SaveWindow(v)
        BY <2>2, TailStays DEF SaveWindow
    <2>3. CASE \E gen \in 1 .. GenMax : SaveCheckpoint(gen)
        BY <2>3, TailSave
    <2>4. CASE Advance
        BY <2>4, TailStays, TailStep, TailReturn DEF Advance, Tail!Progress, wallet
    <2>5. CASE Fail
        BY <2>5, TailStays, TailStop DEF Fail
    <2>6. CASE Boot
        BY <2>6, TailBoot DEF Boot
    <2>7. CASE Reset
        BY <2>7, TailReset DEF Reset
    <2>8. CASE UNCHANGED partition
        BY <2>8, TailStays DEF partition
    <2> QED BY <2>1, <2>2, <2>3, <2>4, <2>5, <2>6, <2>7, <2>8 DEF PNext
<1> QED BY TailInit, <1>1, PTL DEF PSpec

-----------------------------------------------------------------------------
(* The head of the partition is the window store. *)

LEMMA HeadIsWindowStore == PSpec => Spec
<1>1. PInit => Init
    BY DEF PInit
<1>2. [PNext]_partition => [Next]_vars
    <2> SUFFICES ASSUME PNext \/ UNCHANGED partition PROVE Next \/ UNCHANGED vars
        OBVIOUS
    <2>1. CASE \E c \in Currency : Join(c)
        BY <2>1 DEF Join, vars
    <2>2. CASE \E v \in Value : SaveWindow(v)
        BY <2>2 DEF SaveWindow, Next
    <2>3. CASE \E gen \in 1 .. GenMax : SaveCheckpoint(gen)
        BY <2>3 DEF SaveCheckpoint, vars
    <2>4. CASE Advance
        BY <2>4 DEF Advance, Next, vars
    <2>5. CASE Fail
        BY <2>5 DEF Fail, Next, vars
    <2>6. CASE Boot \/ Reset
        BY <2>6 DEF Boot, Reset, Next, Interrupt, vars
    <2>7. CASE UNCHANGED partition
        BY <2>7 DEF partition, vars
    <2> QED BY <2>1, <2>2, <2>3, <2>4, <2>5, <2>6, <2>7 DEF PNext
<1> QED BY <1>1, <1>2, PTL DEF PSpec, Spec

(* What every step of a save of the window keeps, beside the checkpoints.   *)
THEOREM WindowSlots == PSpec => []SlotInv
BY HeadIsWindowStore, SlotInvariance, PTL

(* The window remains a safe cell in the partition it shares: a cut during a *)
(* save leaves the window before it or the one saved.                       *)
THEOREM WindowIsSafe == PSpec => IsSafeCell
BY HeadIsWindowStore, Refinement, PTL

(* The checkpoint whose save returned is the one the next boot adopts, over *)
(* any slots torn before, any generations and any saves of the window; only *)
(* a leftover of a time before the record was erased may be in its place.   *)
THEOREM CheckpointIsLoaded == PSpec => []SavedIsLoaded
<1>1. TailInv => SavedIsLoaded
    <2> SUFFICES ASSUME TailInv, cop # NoOp, cop.at = "done"
                 PROVE  \/ Tail!Adopted = cop.new
                        \/ reset /\ (Tail!Shadowed \/ Tail!AdoptedGen > cop.new.gen)
        BY SameSlots DEF SavedIsLoaded, Tail!SavedIsLoaded
    <2> DEFINE i == cop.target
               e == Tail!Elected
    <2>1. /\ CTypes /\ Dated /\ FirstLife /\ i \in {0, 1} /\ cop.new \in Tail!Content
          /\ cop.new.val = member /\ cop.new.gen \in Nat
        BY DEF TailInv, CTypes, Dated, Tail!Op, Tail!Content
    <2>2. Whole(cslot[i]) /\ cslot[i].head = cop.new
        BY <2>1, CheckpointNotBlank DEF TailInv, COrder, Order, Whole
    <2>3. e \in {0, 1} /\ Whole(cslot[e]) /\ cop.new.gen <= cslot[e].head.gen
        BY <2>1, <2>2, Election
    <2>4. /\ Tail!Shadowed = (cslot[e].head.val # member)
          /\ Tail!Adopted = IF Tail!Shadowed THEN Blank ELSE cslot[e].head
          /\ Tail!AdoptedGen = IF Tail!Shadowed THEN 0 ELSE cslot[e].head.gen
        BY <2>3 DEF Tail!Shadowed, Tail!Adopted, Tail!AdoptedGen, Tail!HeadGen, Whole
    <2>5. cslot[e].head \in Tail!Content /\ cslot[e].head.gen \in Nat
        BY <2>1, <2>3, WholeIs DEF CTypes
    <2>6. ~reset => e = i
        <3>1. Other \in {0, 1} /\ (e = i \/ e = Other)
            BY <2>1, <2>3 DEF Other
        <3>2. ~reset /\ Whole(cslot[Other]) => cslot[Other].head.gen < cop.new.gen
            BY <2>1 DEF FirstLife
        <3> QED BY <2>1, <2>3, <2>5, <3>1, <3>2
    <2> HIDE DEF e, i
    <2>7. CASE cslot[e].head.val # member
        BY <2>1, <2>2, <2>4, <2>6, <2>7
    <2>8. CASE cslot[e].head.val = member
        <3>1. CASE cslot[e].head.gen = cop.new.gen
            <4>1. cslot[e].head = cop.new
                BY <2>1, <2>5, <2>8, <3>1 DEF Tail!Content
            <4> QED BY <2>4, <2>8, <4>1
        <3>2. CASE cslot[e].head.gen # cop.new.gen
            <4>1. cslot[e].head.gen > cop.new.gen
                BY <2>1, <2>3, <2>5, <3>2
            <4> QED BY <2>2, <2>4, <2>6, <2>8, <3>2, <4>1
        <3> QED BY <3>1, <3>2
    <2> QED BY <2>7, <2>8
<1> QED BY <1>1, TailInvariance, PTL

(* Until a save of a checkpoint was interrupted, a cut at any block of one  *)
(* leaves what a boot would have adopted before it or the one being saved,  *)
(* but for leftovers of a time before the record was erased.                *)
THEOREM FirstCut == PSpec => []FirstCutHarmless
<1>1. TailInv => FirstCutHarmless
    <2> SUFFICES ASSUME TailInv, cop # NoOp, interrupts = 0
                 PROVE  \/ Tail!Adopted \in {prev, cop.new}
                        \/ reset /\ (Tail!Shadowed \/ prev = Blank)
        BY SameSlots DEF FirstCutHarmless, Tail!FirstCutHarmless
    <2> DEFINE i == cop.target
               j == 1 - i
               e == Tail!Elected
    <2>1. /\ CTypes /\ Dated /\ FirstLife /\ i \in {0, 1} /\ j \in {0, 1}
          /\ cop \in Tail!Op /\ cop.new \in Tail!Content /\ cop.new.val = member
        BY DEF TailInv, CTypes, Dated, Tail!Op
    <2>2. Kept(cslot[j]) /\ (cop.at = "eraseHead" => prev = Tail!Adopted)
        BY DEF TailInv, Neat, Other
    <2>3. Whole(cslot[i]) => cop.at = "eraseHead" \/ cslot[i].head = cop.new
        BY <2>1, CheckpointNotBlank, SameSlots
           DEF TailInv, COrder, Order, Whole, Tail!Op, Place
    <2>4. \A k \in {0, 1} : k = i \/ k = j
        BY <2>1
    <2>5. /\ e \in {0, 1, 2}
          /\ e # 2 => Whole(cslot[e])
          /\ e = 2 => \A k \in {0, 1} : ~Whole(cslot[k])
        BY <2>1, Election
    <2>6. /\ Tail!Shadowed = (e # 2 /\ cslot[e].head.val # member)
          /\ Tail!Adopted = IF e = 2 \/ Tail!Shadowed THEN Blank ELSE cslot[e].head
        BY DEF Tail!Shadowed, Tail!Adopted
    <2>7. Tail!Shadowed => reset
        BY <2>1, Adoption
    <2> HIDE DEF i, j, e
    <2>8. CASE e = 2
        <3>1. cslot[j] = Erased /\ prev = Blank
            BY <2>1, <2>2, <2>5, <2>8 DEF Kept
        <3> QED BY <2>6, <2>8, <3>1
    <2>9. CASE Tail!Shadowed
        BY <2>7, <2>9
    <2>10. CASE e = i /\ e # 2
        BY <2>2, <2>3, <2>5, <2>6, <2>9, <2>10
    <2>11. CASE e = j /\ e # 2 /\ ~Tail!Shadowed
        <3>1. Whole(cslot[j]) /\ cslot[j].head.val = member /\ Tail!Adopted = cslot[j].head
            BY <2>5, <2>6, <2>11
        <3>2. prev = cslot[j].head \/ (prev = Blank /\ reset)
            BY <2>2, <3>1, ErasedIs DEF Kept
        <3> QED BY <3>1, <3>2
    <2> QED BY <2>4, <2>5, <2>8, <2>9, <2>10, <2>11
<1> QED BY <1>1, TailInvariance, PTL
=============================================================================
