----------------------------- MODULE LoraModem ------------------------------
(***************************************************************************)
(* The driver of the SX1262 LoRa radio (device_hal_lora_core1262.c): the   *)
(* chip, the mutex its users share, the receiving task and the sending     *)
(* call.                                                                   *)
(*                                                                         *)
(* The chip is half duplex: it listens (rx), sends (tx) or does neither    *)
(* (standby), has one buffer for what it heard and what it will send, and  *)
(* keeps interrupt bits until they are cleared.  A frame that reaches a    *)
(* chip which does not listen is lost.  The receiving task and a sending   *)
(* task take the mutex in turn; the chip and the air go on meanwhile.      *)
(*                                                                         *)
(* Left out: pins, calibration, modulation.  The vendor's library          *)
(* (sx126x/) and the chip are external: a command succeeds, or fails as    *)
(* sx126x_hal.c reports it.                                                *)
(***************************************************************************)
EXTENDS Naturals, Sequences, FiniteSets

CONSTANTS
    Sender,         \* the tasks that send
    Nobody,         \* a free mutex
    RxTask,         \* the task that receives
    Silence,        \* an empty buffer
    Garbage,        \* bytes that are no frame
    LoraQueueMax,   \* frames between the receiving task and its reader
    FaultMax        \* bound on what goes wrong: see faults

ASSUME ModemAssumption ==
    /\ LoraQueueMax \in Nat \ {0}
    /\ FaultMax \in Nat
    /\ {Nobody, RxTask} \cap Sender = {}
    /\ Nobody # RxTask

VARIABLES
    chip,           \* [mode, irq, buffer, own]: own when it holds what was to be sent
    mutex,          \* radio_mutex
    saw,            \* the interrupts the receiving task took with the mutex
    loraQueue,      \* rx_queue
    phase,          \* where each sender is in c1262_send
    faults          \* [commands, others]: commands to this chip that failed so far;
                    \* frames the air spoilt and sendings of ESP-NOW refused

modemVars == <<chip, mutex, saw, loraQueue, phase, faults>>

Awake == [mode |-> "rx", irq |-> {}, buffer |-> Silence, own |-> FALSE]

ModemInit ==
    /\ chip = Awake
    /\ mutex = Nobody
    /\ saw = {}
    /\ loraQueue = << >>
    /\ phase = [t \in Sender |-> "idle"]
    /\ faults = [commands |-> 0, others |-> 0]

Faults == [commands : 0 .. FaultMax, others : 0 .. FaultMax]

MayFail == faults.commands + faults.others < FaultMax

\* A command to the chip fails.
Fault == MayFail /\ faults' = [faults EXCEPT !.commands = @ + 1]

\* Something goes wrong that is not the driver's.
Mishap == MayFail /\ faults' = [faults EXCEPT !.others = @ + 1]

\* A queue that never refuses.
EnqueueAlways(queue, item, max) == Append(queue, item)

Enqueue(queue, item, max) == IF Len(queue) < max THEN Append(queue, item) ELSE queue

\* Bits are cleared by a command whose failure is ignored.
Cleared(cleared, kept) ==
    \/ chip' = cleared /\ UNCHANGED faults
    \/ chip' = kept /\ cleared # kept /\ Fault

-----------------------------------------------------------------------------
(* The chip and the air.                                                   *)

Heard(frame, bits) ==
    /\ chip.mode = "rx"
    /\ chip' = [chip EXCEPT !.irq = @ \cup bits, !.buffer = frame, !.own = FALSE]
    /\ UNCHANGED <<mutex, saw, loraQueue, phase>>

Hear(frame) == Heard(frame, {"rx"}) /\ UNCHANGED faults

\* A frame spoilt on its way: the chip nearly always knows.
HearSpoilt(frame) == Mishap /\ (Heard(frame, {"rx", "crc"}) \/ Heard(frame, {"rx"}))

Miss == chip.mode # "rx" /\ UNCHANGED modemVars

TxEnd ==
    /\ chip.mode = "tx"
    /\ chip' = [chip EXCEPT !.mode = "standby", !.irq = @ \cup {"tx"}]
    /\ UNCHANGED <<mutex, saw, loraQueue, phase, faults>>

-----------------------------------------------------------------------------
(* The receiving task.  It wakes for an interrupt or every 250 ms, looks   *)
(* at the bits under the mutex, and clears those it saw.                   *)

\* The task does not wait for the mutex.
RxLookUnlocked ==
    /\ chip.irq # {}
    /\ mutex' = RxTask
    /\ saw' = chip.irq
    /\ Cleared([chip EXCEPT !.irq = {}], chip)
    /\ UNCHANGED <<loraQueue, phase>>

RxLook ==
    /\ mutex = Nobody
    /\ chip.irq # {}
    /\ mutex' = RxTask
    /\ saw' = chip.irq
    /\ Cleared([chip EXCEPT !.irq = {}], chip)
    /\ UNCHANGED <<loraQueue, phase>>

\* What a read of the length last heard finds: the frame, or one of ours of the
\* same length written over it, or a frame of neither.
Readable == IF chip.own THEN {chip.buffer, Garbage} ELSE {chip.buffer}

Read ==
    IF "rx" \in saw /\ "crc" \notin saw
    THEN \E frame \in Readable : loraQueue' = Enqueue(loraQueue, frame, LoraQueueMax)
    ELSE UNCHANGED loraQueue

RxDone ==
    /\ mutex = RxTask
    /\ mutex' = Nobody
    /\ saw' = {}
    /\ UNCHANGED phase

RxRead == RxDone /\ Read /\ chip' = [chip EXCEPT !.mode = "rx"] /\ UNCHANGED faults

\* A command fails, the read or the one that listens again: nobody is told.
RxFail ==
    /\ RxDone
    /\ Fault
    /\ \/ UNCHANGED loraQueue /\ chip' = [chip EXCEPT !.mode = "rx"]
       \/ Read /\ UNCHANGED chip

-----------------------------------------------------------------------------
(* Sending one frame: standby, write, clear the bits of a sending, send,   *)
(* wait, listen again.                                                     *)

StartTx(t, frame) ==
    /\ phase[t] = "idle"
    /\ mutex = Nobody
    /\ mutex' = t
    /\ phase' = [phase EXCEPT ![t] = "sending"]
    /\ LET sending == [chip EXCEPT !.mode = "tx", !.buffer = frame, !.own = TRUE]
       IN  Cleared([sending EXCEPT !.irq = @ \ {"tx"}], sending)
    /\ UNCHANGED <<saw, loraQueue>>

\* The loop ends on the bit of a sending, or on the pin, which a frame heard and
\* not yet read keeps up.
TxSeen(t) ==
    /\ phase[t] = "sending"
    /\ chip.irq \cap {"tx", "rx"} # {}
    /\ phase' = [phase EXCEPT ![t] = "sent"]
    /\ Cleared([chip EXCEPT !.irq = @ \ {"tx"}], chip)
    /\ UNCHANGED <<mutex, saw, loraQueue>>

Release(t) ==
    /\ mutex = t
    /\ mutex' = Nobody
    /\ phase' = [phase EXCEPT ![t] = "idle"]
    /\ UNCHANGED <<saw, loraQueue>>

\* The sender forgets to listen again.
TxBackDeaf(t) ==
    /\ phase[t] = "sent"
    /\ Release(t)
    /\ UNCHANGED <<chip, faults>>

TxBack(t) ==
    /\ phase[t] = "sent"
    /\ Release(t)
    /\ chip' = [chip EXCEPT !.mode = "rx"]
    /\ UNCHANGED faults

\* The chip is reset; it listens again unless one more command fails.
Recovered ==
    \/ chip' = Awake
    \/ chip' = [Awake EXCEPT !.mode = "standby"]

\* A command fails, or the chip never says it has sent: the caller is told.
TxFail(t) ==
    /\ phase[t] = "sending"
    /\ Fault
    /\ Release(t)
    /\ Recovered

\* Only the return to listening fails: the frame has gone, and no one resets the chip.
TxDeaf(t) ==
    /\ phase[t] = "sent"
    /\ Fault
    /\ Release(t)
    /\ UNCHANGED chip

\* The mutex was not free within five seconds: the caller is told.
TxBusy(t) ==
    /\ phase[t] = "idle"
    /\ mutex # Nobody
    /\ UNCHANGED modemVars

ModemTypeOK(Frame) ==
    /\ chip.mode \in {"rx", "tx", "standby"}
    /\ chip.irq \subseteq {"rx", "crc", "tx"}
    /\ chip.buffer = Silence \/ chip.buffer \in Frame
    /\ mutex \in Sender \cup {Nobody, RxTask}
    /\ saw \subseteq {"rx", "crc", "tx"}
    /\ Len(loraQueue) <= LoraQueueMax
    /\ \A i \in 1 .. Len(loraQueue) : loraQueue[i] = Garbage \/ loraQueue[i] \in Frame
    /\ phase \in [Sender -> {"idle", "sending", "sent"}]
    /\ faults \in Faults

=============================================================================
