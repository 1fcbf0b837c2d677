----------------------------- MODULE FlashSlots -----------------------------
(***************************************************************************)
(* Two slots of NOR flash, and the one write that may be under way: a save *)
(* erases the target slot, then writes header, records and footer in that  *)
(* order; a power cut or an I/O error may fall between any two of them.    *)
(*                                                                         *)
(* A block is blank (0xFF) or holds the content it was written with.  The  *)
(* CRC of the footer matches when the three blocks are of the same content *)
(* (the code also rejects a bad magic, version or length: a block is never *)
(* anything but blank or written).                                         *)
(***************************************************************************)
EXTENDS Integers

CONSTANTS Value, NoValue, Blank,
          GenMax   \* bound on the generations

ASSUME FlashAssumption ==
    /\ NoValue \notin Value
    /\ GenMax \in Nat
    /\ Blank \notin [gen : Nat, val : Value]

VARIABLES slot,    \* slot[i]: its header, records and footer
          op       \* the save under way

Content == [gen : Nat, val : Value]

Slot == [head : Content \cup {Blank}, body : Content \cup {Blank},
         foot : Content \cup {Blank}]

NoOp == [at |-> "none"]

Place == {"eraseHead", "eraseBody", "eraseFoot",
          "writeHead", "writeBody", "writeFoot", "done"}

Op == [at : Place, target : {0, 1}, new : Content]

Erased == [head |-> Blank, body |-> Blank, foot |-> Blank]

Whole(s) == s.head # Blank /\ s.body = s.head /\ s.foot = s.head

Begin(target, new) ==
    /\ op = NoOp
    /\ new.gen <= GenMax
    /\ op' = [at |-> "eraseHead", target |-> target, new |-> new]
    /\ UNCHANGED slot

After(place) ==
    CASE place = "eraseHead" -> "eraseBody"
      [] place = "eraseBody" -> "eraseFoot"
      [] place = "eraseFoot" -> "writeHead"
      [] place = "writeHead" -> "writeBody"
      [] place = "writeBody" -> "writeFoot"
      [] place = "writeFoot" -> "done"

Program(s, place, c) ==
    CASE place = "eraseHead" -> [s EXCEPT !.head = Blank]
      [] place = "eraseBody" -> [s EXCEPT !.body = Blank]
      [] place = "eraseFoot" -> [s EXCEPT !.foot = Blank]
      [] place = "writeHead" -> [s EXCEPT !.head = c]
      [] place = "writeBody" -> [s EXCEPT !.body = c]
      [] place = "writeFoot" -> [s EXCEPT !.foot = c]

Step ==
    /\ op # NoOp
    /\ op.at # "done"
    /\ slot' = [slot EXCEPT ![op.target] = Program(@, op.at, op.new)]
    /\ op' = [op EXCEPT !.at = After(@)]

Return ==
    /\ op # NoOp
    /\ op.at = "done"
    /\ op' = NoOp
    /\ UNCHANGED slot

(* The save stops where it is, on an error of the backend or a power cut. *)
Interrupt ==
    /\ op # NoOp
    /\ op' = NoOp
    /\ UNCHANGED slot
=============================================================================
