----------------------------- MODULE RadioPath ------------------------------
(***************************************************************************)
(* One device between the air and its wallet: ESP-NOW and LoRa bearers     *)
(* (device_hal, rns_iface_*, rns_radio.c), the node that drops duplicates, *)
(* delivers or passes on (rns_node.c, rns_transport_core.c), and the pool  *)
(* that puts resources together (rns_resource.c).                          *)
(*                                                                         *)
(* Two tasks work on it: the radio task reads the bearers and passes on    *)
(* what is not for this device, the core task (app_main_logic.c) takes     *)
(* events and sends.  Each frame a task sends is a step, so frames of both *)
(* tasks mix on the air, as those of two neighbours do.  The announces and *)
(* the tables they fill are in the module Discovery.                       *)
(***************************************************************************)
EXTENDS LoraModem, ResourcePool

CONSTANTS
    Core, Radio,    \* the two tasks that send
    None,           \* no packet
    Carries,        \* what each packet carries, by its name (below)
    Neighbour,
    Sent,           \* what each neighbour sends, and by which bearer
    Own,            \* the packets of the core task
    EspnowQueueMax, EventMax, RingSize, HopMax

ASSUME PathAssumption ==
    /\ {Core, Radio} = Sender
    /\ {EspnowQueueMax, EventMax, RingSize, HopMax} \subseteq Nat \ {0}

Parts == {n \in DOMAIN Carries : Carries[n].kind = "part"}

(* Somebody cut what is sent: a packet takes a frame at least, a resource is  *)
(* cut into as many parts whichever of them one asks, and a part has its      *)
(* place among them.                                                          *)
ASSUME CarriesAssumption ==
    /\ \A name \in DOMAIN Carries : Carries[name].frames \in Nat \ {0}
    /\ \A m, n \in Parts :
        /\ Carries[m].of = Carries[n].of => Carries[m].count = Carries[n].count
        /\ Carries[m].count \in Nat /\ Carries[m].at \in 1 .. Carries[m].count
    /\ \A n \in Neighbour : Sent[n].names \in Seq(DOMAIN Carries)
    /\ Own \subseteq DOMAIN Carries

(* What a slot may hold of the resource of a part: some parts, whole or not.  *)
SomeOf(n) ==
    LET whole == Carries[n].of
        gots == UNION {[D -> {whole, Noise}] : D \in SUBSET (1 .. Carries[n].count)}
    IN  [of : {whole}, count : {Carries[n].count}, got : gots]

(* A slot that is free is told from one in use.                               *)
ASSUME NothingAssumption == \A n \in Parts : Nothing \notin SomeOf(n)

VARIABLES
    air,            \* the frames each neighbour has still to send
    espnowQueue,    \* rx_queue of ESP-NOW
    partial,        \* the reassembler of each bearer
    ring,           \* the packets seen last
    events,         \* the Reticulum queue of the core task
    own,            \* the packets the core task has still to send
    sending,        \* the packet each task is sending, and its next frame
    completed       \* the resources handed to the wallet

pathVars == <<air, espnowQueue, partial, ring, events, own, sending, completed>>
vars == <<modemVars, poolVars, pathVars>>

(***************************************************************************)
(* A packet is named by what it carries, Carries[name]: a part of a        *)
(* resource, or a note (a payment, its answer), the number of frames it    *)
(* takes, and whether it is for this device.  It counts its hops, and may  *)
(* have been changed by the air.                                           *)
(***************************************************************************)
Bearer == {"espnow", "lora"}

Packet(name) == [name |-> name, hops |-> 0, changed |-> FALSE]

Info(packet) == Carries[packet.name]

\* Resources go by LoRa, the rest by ESP-NOW, when the build has both.
BearerOf(packet) == IF Info(packet).kind = "part" THEN "lora" ELSE "espnow"

EspnowFrames(packet) == Cut(packet, Info(packet).frames)
LoraFrames(packet) == Cut(packet, Info(packet).frames)

\* The frames of a neighbour, one packet after the other.
FramesOf(n) ==
    LET frames(name) == IF Sent[n].bearer = "lora" THEN LoraFrames(Packet(name))
                                                   ELSE EspnowFrames(Packet(name))
    IN  FlattenSeq([i \in DOMAIN Sent[n].names |-> frames(Sent[n].names[i])])

\* The identity of a packet for the node: what it carries, not how far it came.
Digest(packet) == [packet EXCEPT !.hops = 0]

\* The packet in the frames put together.
Unpacked(whole) == IF Intact(whole) THEN whole.of ELSE [whole.of EXCEPT !.changed = TRUE]

\* The part of a resource that a packet carries.
PartIn(packet) ==
    LET part == Piece(Info(packet).of, Info(packet).at, Info(packet).count)
    IN  IF packet.changed THEN Changed(part) ELSE part

Idle == [packet |-> None, at |-> 0]

Init ==
    /\ ModemInit
    /\ PoolInit
    /\ air = [n \in Neighbour |-> FramesOf(n)]
    /\ espnowQueue = << >>
    /\ partial = [b \in Bearer |-> Nothing]
    /\ ring = << >>
    /\ events = << >>
    /\ own = Own
    /\ sending = [t \in Sender |-> Idle]
    /\ completed = {}

-----------------------------------------------------------------------------
(* The air.  Frames of one neighbour come in order, and some are lost.     *)

\* The next frame that gets through is the i-th of those n has still to send.
Through(n, i) == air' = [air EXCEPT ![n] = SubSeq(@, i + 1, Len(@))]

LoraAir ==
    /\ \E n \in Neighbour :
        /\ Sent[n].bearer = "lora"
        /\ \E i \in DOMAIN air[n] :
            /\ Through(n, i)
            /\ Hear(air[n][i]) \/ HearSpoilt(Changed(air[n][i])) \/ Miss
    /\ UNCHANGED <<espnowQueue, partial, ring, events, own, sending, completed, poolVars>>

\* The callback of ESP-NOW queues a frame, or drops it when the queue is full.
EspnowAir ==
    /\ \E n \in Neighbour :
        /\ Sent[n].bearer = "espnow"
        /\ \E i \in DOMAIN air[n] :
            /\ Through(n, i)
            /\ espnowQueue' = Enqueue(espnowQueue, air[n][i], EspnowQueueMax)
    /\ UNCHANGED <<partial, ring, events, own, sending, completed, modemVars, poolVars>>

-----------------------------------------------------------------------------
(* Sending, frame by frame; a frame that fails ends its packet.            *)

Begin(t, packet) == sending' = [sending EXCEPT ![t] = [packet |-> packet, at |-> 1]]

FrameOut(t) == Piece(sending[t].packet, sending[t].at, Info(sending[t].packet).frames)

Advance(t) ==
    LET last == sending[t].at >= Info(sending[t].packet).frames
        next == [sending[t] EXCEPT !.at = @ + 1]
    IN  sending' = [sending EXCEPT ![t] = IF last THEN Idle ELSE next]

Abandon(t) == sending' = [sending EXCEPT ![t] = Idle]

Busy(t, b) == sending[t].packet # None /\ BearerOf(sending[t].packet) = b

\* The frame goes, or the driver still has no room after three tries.
EspnowSend(t) ==
    /\ Busy(t, "espnow")
    /\ \/ Advance(t) /\ UNCHANGED modemVars
       \/ Abandon(t) /\ Mishap /\ UNCHANGED <<chip, mutex, saw, loraQueue, phase>>
    /\ UNCHANGED <<air, espnowQueue, partial, ring, events, own, completed, poolVars>>

LoraSend(t) ==
    /\ Busy(t, "lora")
    /\ \/ (StartTx(t, FrameOut(t)) \/ TxSeen(t)) /\ UNCHANGED sending
       \/ TxBack(t) /\ Advance(t)
       \/ (TxFail(t) \/ TxDeaf(t) \/ TxBusy(t)) /\ Abandon(t)
    /\ UNCHANGED <<air, espnowQueue, partial, ring, events, own, completed, poolVars>>

-----------------------------------------------------------------------------
(* The radio task: one frame at a time, ESP-NOW first.                     *)

Remember(packet) ==
    LET seen == Append(ring, Digest(packet))
    IN  ring' = IF Len(seen) > RingSize THEN Tail(seen) ELSE seen

\* A packet for this device is an event of the core task, dropped when there is
\* no room; another goes further unless it has come too far.
Route(packet) ==
    IF Info(packet).mine
    THEN events' = Enqueue(events, packet, EventMax) /\ UNCHANGED sending
    ELSE /\ UNCHANGED events
         /\ IF packet.hops < HopMax
            THEN Begin(Radio, [packet EXCEPT !.hops = @ + 1])
            ELSE UNCHANGED sending

Receive(packet) ==
    IF Digest(packet) \in ToSet(ring)
    THEN UNCHANGED <<ring, events, sending>>
    ELSE Remember(packet) /\ Route(packet)

\* The reassembler of a bearer; a whole that repeats is received again.
Assemble(b, frame) ==
    IF Refuses(partial[b], frame)
    THEN UNCHANGED <<partial, ring, events, sending>>
    ELSE LET whole == Put(partial[b], frame)
         IN  /\ partial' = [partial EXCEPT ![b] = whole]
             /\ IF Full(whole) THEN Receive(Unpacked(whole))
                               ELSE UNCHANGED <<ring, events, sending>>

EspnowReceive(frame) == Assemble("espnow", frame)

LoraReceive(frame) ==
    IF frame = Garbage THEN UNCHANGED <<partial, ring, events, sending>>
                       ELSE Assemble("lora", frame)

PollEspnow ==
    /\ sending[Radio] = Idle
    /\ espnowQueue # << >>
    /\ espnowQueue' = Tail(espnowQueue)
    /\ EspnowReceive(Head(espnowQueue))
    /\ UNCHANGED <<air, own, completed, modemVars, poolVars>>

PollLora ==
    /\ sending[Radio] = Idle
    /\ espnowQueue = << >>
    /\ loraQueue # << >>
    /\ loraQueue' = Tail(loraQueue)
    /\ LoraReceive(Head(loraQueue))
    /\ UNCHANGED <<air, espnowQueue, own, completed, chip, mutex, saw, phase, faults, poolVars>>

-----------------------------------------------------------------------------
(* The core task: an event at a time, and what it sends of its own.        *)

CoreEvent ==
    /\ sending[Core] = Idle
    /\ events # << >>
    /\ events' = Tail(events)
    /\ IF Info(Head(events)).kind = "part"
       THEN /\ completed' = completed \cup CompletedBy(PartIn(Head(events)))
            /\ PoolAccept(PartIn(Head(events)))
       ELSE UNCHANGED <<completed, poolVars>>
    /\ UNCHANGED <<air, espnowQueue, partial, ring, own, sending, modemVars>>

CoreSend ==
    /\ sending[Core] = Idle
    /\ \E name \in own :
        /\ own' = own \ {name}
        /\ Begin(Core, Packet(name))
    /\ UNCHANGED <<air, espnowQueue, partial, ring, events, completed, modemVars, poolVars>>

\* The chip and its receiving task, on their own.
Modem ==
    /\ TxEnd \/ RxLook \/ RxRead \/ RxFail
    /\ UNCHANGED <<pathVars, poolVars>>

Next ==
    \/ LoraAir \/ EspnowAir
    \/ \E t \in Sender : EspnowSend(t) \/ LoraSend(t)
    \/ PollEspnow \/ PollLora
    \/ CoreEvent \/ CoreSend
    \/ Modem

Spec == Init /\ [][Next]_vars

-----------------------------------------------------------------------------
(* Properties.                                                             *)

Packets == [name : DOMAIN Carries, hops : 0 .. HopMax, changed : BOOLEAN]

Frames ==
    LET whole == UNION {ToSet(LoraFrames(p)) : p \in Packets}
    IN  whole \cup {Changed(frame) : frame \in whole}

\* Queues within their bounds, frames and packets that somebody cut, a ring no
\* longer than the table that holds it.
TypeOK ==
    /\ ModemTypeOK(Frames)
    /\ Len(espnowQueue) <= EspnowQueueMax
    /\ Len(events) <= EventMax
    /\ Len(ring) <= RingSize
    /\ ToSet(espnowQueue) \subseteq Frames
    /\ ToSet(events) \cup ToSet(ring) \subseteq Packets
    /\ \A t \in Sender : sending[t] = Idle \/ sending[t].packet \in Packets

OfOneWhole(held) ==
    held # Nothing => \A i \in DOMAIN held.got : held.got[i] \in {held.of, Noise}

\* What a reassembler holds, a bearer's or a slot of the pool, are pieces of one
\* whole or noise of the air, never pieces of two; no two slots put the same
\* resource together; and what reaches the wallet is what its sender cut
\* (same_message, same_resource, the checksum of rns_resource.c).
OneWholeEach ==
    /\ \A b \in Bearer : OfOneWhole(partial[b])
    /\ \A s \in Slot : OfOneWhole(slots[s])
    /\ \A s, o \in Slot :
        slots[s] # Nothing /\ slots[o] # Nothing /\ slots[s].of = slots[o].of => s = o
    /\ \A whole \in completed : Full(whole) /\ Intact(whole)

\* As long as no command to it has failed, whatever the air spoils, the radio listens whenever no task holds it
\* (c1262_send and c1262_rx_task both end by listening again).
IdleListens == mutex = Nobody /\ faults.commands = 0 => chip.mode = "rx"

\* A sending is cut short, though its caller is told it is done, only when a
\* frame was heard and not yet read (the pin is up before the sending starts).
CutOnlyUnread ==
    [][faults'.commands = 0 /\ chip.mode = "tx" /\ chip'.mode = "rx" =>
           "rx" \in chip.irq]_vars

Resources == {Carries[n].of : n \in Parts}

CountOf == [r \in Resources |-> Carries[CHOOSE n \in Parts : Carries[n].of = r].count]

InUse == {s \in Slot : slots[s] # Nothing}

\* The parts that have come since.
Since(s) == (tick - lastUsed[s]) % TickWidth

PartsCome ==
    [r \in Resources |-> UNION {DOMAIN slots[s].got : s \in {o \in InUse : slots[o].of = r}}]

HeardLater ==
    UNION {{<<slots[s].of, slots[o].of>> : o \in {u \in InUse : Since(s) < Since(u)}} :
           s \in InUse}

Lru == INSTANCE LruPool WITH Resource <- Resources, PartCount <- CountOf,
                            got <- PartsCome, later <- HeardLater,
                            done <- {whole.of : whole \in completed}

\* The pool is a cache of the resources heard last, in spite of its clock.
PoolIsLru == Lru!Spec

=============================================================================
