---------------------------- MODULE ResourcePool ----------------------------
(***************************************************************************)
(* The pool of resource reassemblers (rns_resource.c): as many resources   *)
(* in progress as there are slots, each slot dated by a logical clock of   *)
(* 32 bits that wraps.  The parts of a resource are packets, and carry the *)
(* fields of a piece.                                                      *)
(***************************************************************************)
EXTENDS Reassembly, Integers, Sequences, SequencesExt

CONSTANTS
    PoolSize,
    TickWidth,      \* the clock counts modulo this: 2^32 in the firmware
    TickStart       \* where the clock may stand with every slot free

ASSUME PoolAssumption ==
    /\ PoolSize \in Nat \ {0}
    /\ TickWidth \in Nat \ {0} /\ TickWidth % 2 = 0
    /\ TickStart \subseteq 0 .. TickWidth - 1

VARIABLES
    slots,      \* a partial resource, or Nothing
    lastUsed,   \* the clock when a part last came to the slot
    tick        \* the clock

poolVars == <<slots, lastUsed, tick>>

Slot == 1 .. PoolSize

PoolInit ==
    /\ slots = [s \in Slot |-> Nothing]
    /\ tick \in TickStart
    /\ lastUsed = [s \in Slot |-> tick]

\* (int32_t)(tick - last_used): right for as long as no slot in progress has
\* seen half a turn of the clock.
\* The ages compared without the wrap of the clock.
AgeRaw(s) == tick - lastUsed[s]

Age(s) ==
    LET turn == (tick - lastUsed[s]) % TickWidth
    IN  IF 2 * turn < TickWidth THEN turn ELSE turn - TickWidth

First(S) == CHOOSE s \in S : \A o \in S : s <= o

Matching(part) == {s \in Slot : Same(slots[s], part)}

Free == {s \in Slot : slots[s] = Nothing}

Oldest == {s \in Slot : \A o \in Slot : Age(o) <= Age(s)}

Chosen(part) ==
    IF Matching(part) # {} THEN First(Matching(part))
    ELSE IF Free # {} THEN First(Free)
    ELSE First(Oldest)

\* All the parts are there, and the checksum is that of the resource.
Completes(partial) == Full(partial) /\ Intact(partial)

\* The part goes to its slot.  The slot is freed by completion only: a part that
\* is refused, or a checksum that is wrong, leaves it as it is.
PoolAccept(part) ==
    LET s == Chosen(part)
        partial == IF Refuses(slots[s], part) THEN slots[s] ELSE Put(slots[s], part)
    IN  /\ slots' = [slots EXCEPT ![s] = IF Completes(partial) THEN Nothing ELSE partial]
        /\ tick' = (tick + 1) % TickWidth
        /\ lastUsed' = [lastUsed EXCEPT ![s] = tick']

\* What completes when the part comes.
CompletedBy(part) ==
    LET partial == Put(slots[Chosen(part)], part)
    IN  IF ~Refuses(slots[Chosen(part)], part) /\ Completes(partial) THEN {partial} ELSE {}

=============================================================================
