--------------------------- MODULE RadioPathProofs ---------------------------
(***************************************************************************)
(* The radio path of one node: types, the pieces a reassembler may hold,   *)
(* the radio that listens when nobody holds it, the sending cut short, and *)
(* the pool that is a cache of the resources heard last, for any           *)
(* neighbours, packets and queue bounds.                                   *)
(***************************************************************************)
EXTENDS RadioPath, FiniteSetTheorems, WellFoundedInduction, TLAPS

-----------------------------------------------------------------------------
(* Inductions over numbers, with a set in the place of a predicate. *)

(* A set of naturals has a least element. *)
LEMMA Least ==
    ASSUME NEW T \in SUBSET Nat, T # {}
    PROVE  \E m \in T : \A k \in T : m <= k
<1> DEFINE R == {ss \in Nat \X Nat : ss[1] < ss[2]}
<1>1. IsWellFoundedOn(R, Nat)
    BY NatLessThanWellFounded DEF OpToRel
<1>2. PICK m \in T : \A k \in T : ~(<<k, m>> \in R)
    BY <1>1, WFMin
<1>3. \A k \in T : ~(k < m)
    BY <1>2
<1> QED BY <1>3

(* A set that has 0 and passes on from each number to the next. *)
LEMMA UpTo ==
    ASSUME NEW max \in Nat, NEW S \in SUBSET (0 .. max),
           0 \in S, \A i \in S : i < max => i + 1 \in S
    PROVE  S = 0 .. max
<1> SUFFICES ASSUME S # 0 .. max PROVE FALSE
    OBVIOUS
<1> DEFINE T == (0 .. max) \ S
<1>1. PICK m \in T : \A k \in T : m <= k
    <2>1. T \subseteq Nat
        OBVIOUS
    <2>2. \E i \in 0 .. max : i \notin S
        OBVIOUS
    <2> QED BY <2>1, <2>2, Least
<1>2. m \in Nat /\ m <= max /\ m # 0 /\ m - 1 \in 0 .. max
    BY <1>1
<1>3. m - 1 \in S
    BY <1>1, <1>2
<1> QED BY <1>1, <1>2, <1>3

-----------------------------------------------------------------------------
(* The chip and those who share it. *)

Bits == {"rx", "crc", "tx"}

ChipTypes ==
    /\ chip \in [mode : {"rx", "tx", "standby"}, irq : SUBSET Bits,
                 buffer : Frames \cup {Silence}, own : BOOLEAN]
    /\ mutex \in Sender \cup {Nobody, RxTask}
    /\ saw \in SUBSET Bits
    /\ phase \in [Sender -> {"idle", "sending", "sent"}]
    /\ loraQueue \in Seq(Frames \cup {Garbage}) /\ Len(loraQueue) <= LoraQueueMax
    /\ faults \in Faults

(* Who is in the middle of a sending holds the mutex, and only the receiving *)
(* task has bits in hand.                                                    *)
OneAtATime ==
    /\ \A t \in Sender : phase[t] # "idle" <=> mutex = t
    /\ mutex # RxTask => saw = {}

(* A frame heard is still in the buffer, or one of ours over it. *)
HeardIsThere == "rx" \in saw \cup chip.irq => chip.buffer \in Frames

(* Without faults: between two sendings the chip listens, and a sending is   *)
(* seen to end while the chip still sends only for a frame not yet read.     *)
Listens ==
    faults.commands = 0 =>
        /\ mutex \in {Nobody, RxTask} => chip.mode = "rx"
        /\ \A t \in Sender : phase[t] = "sending" /\ chip.mode = "tx" => "tx" \notin chip.irq
        /\ \A t \in Sender : phase[t] = "sent" /\ chip.mode = "tx" => "rx" \in chip.irq

ModemInv == ChipTypes /\ OneAtATime /\ HeardIsThere /\ Listens

CutsUnread == faults'.commands = 0 /\ chip.mode = "tx" /\ chip'.mode = "rx" => "rx" \in chip.irq

LEMMA ModemStart == ASSUME ModemInit PROVE ModemInv
<1>1. ChipTypes
    BY ModemAssumption DEF ModemInit, ChipTypes, Awake, Bits, Faults
<1>2. OneAtATime /\ HeardIsThere /\ Listens
    BY ModemAssumption DEF ModemInit, OneAtATime, HeardIsThere, Listens, Awake
<1> QED BY <1>1, <1>2 DEF ModemInv

LEMMA ModemRests ==
    ASSUME ModemInv, UNCHANGED modemVars
    PROVE  ModemInv' /\ CutsUnread
BY DEF ModemInv, ChipTypes, OneAtATime, HeardIsThere, Listens, modemVars, CutsUnread

LEMMA Failing ==
    ASSUME ModemInv, Fault
    PROVE  faults' \in Faults /\ faults'.commands # 0
BY ModemAssumption DEF ModemInv, ChipTypes, Fault, Faults, MayFail

LEMMA Mishaps ==
    ASSUME ModemInv, Mishap
    PROVE  faults' \in Faults /\ faults'.commands = faults.commands
BY ModemAssumption DEF ModemInv, ChipTypes, Mishap, Faults, MayFail

LEMMA HeardKeeps ==
    ASSUME ModemInv, NEW frame \in Frames, NEW bits \in SUBSET Bits, Heard(frame, bits),
           faults' = faults \/ Mishap
    PROVE  ModemInv' /\ CutsUnread
<1>1. /\ chip.mode = "rx"
      /\ chip' = [chip EXCEPT !.irq = @ \cup bits, !.buffer = frame, !.own = FALSE]
      /\ mutex' = mutex /\ saw' = saw /\ loraQueue' = loraQueue /\ phase' = phase
    BY DEF Heard
<1>2. faults' \in Faults /\ (faults'.commands = 0 => faults.commands = 0)
    BY Mishaps DEF ModemInv, ChipTypes
<1>3. /\ chip'.mode = "rx" /\ chip'.irq = chip.irq \cup bits /\ chip'.buffer = frame
      /\ chip' \in [mode : {"rx", "tx", "standby"}, irq : SUBSET Bits,
                    buffer : Frames \cup {Silence}, own : BOOLEAN]
    BY <1>1 DEF ModemInv, ChipTypes
<1>4. ChipTypes'
    BY <1>1, <1>2, <1>3 DEF ModemInv, ChipTypes
<1>5. OneAtATime' /\ HeardIsThere' /\ Listens' /\ CutsUnread
    BY <1>1, <1>2, <1>3 DEF ModemInv, OneAtATime, HeardIsThere, Listens, CutsUnread
<1> QED BY <1>4, <1>5 DEF ModemInv

LEMMA LoraAirKeeps ==
    ASSUME ModemInv, NEW frame \in Frames, Changed(frame) \in Frames,
           Hear(frame) \/ HearSpoilt(Changed(frame)) \/ Miss
    PROVE  ModemInv' /\ CutsUnread
<1>1. {"rx"} \in SUBSET Bits /\ {"rx", "crc"} \in SUBSET Bits
    BY DEF Bits
<1>2. CASE Hear(frame)
    BY <1>1, <1>2, HeardKeeps DEF Hear
<1>3. CASE HearSpoilt(Changed(frame))
    BY <1>1, <1>3, HeardKeeps DEF HearSpoilt
<1>4. CASE Miss
    BY <1>4, ModemRests DEF Miss
<1> QED BY <1>2, <1>3, <1>4

LEMMA TxEndKeeps ==
    ASSUME ModemInv, TxEnd
    PROVE  ModemInv' /\ CutsUnread
<1>1. /\ chip.mode = "tx"
      /\ chip' = [chip EXCEPT !.mode = "standby", !.irq = @ \cup {"tx"}]
      /\ mutex' = mutex /\ saw' = saw /\ loraQueue' = loraQueue /\ phase' = phase
      /\ faults' = faults
    BY DEF TxEnd
<1>3. /\ chip'.mode = "standby" /\ chip'.irq = chip.irq \cup {"tx"}
      /\ chip'.buffer = chip.buffer
      /\ chip' \in [mode : {"rx", "tx", "standby"}, irq : SUBSET Bits,
                    buffer : Frames \cup {Silence}, own : BOOLEAN]
    BY <1>1 DEF ModemInv, ChipTypes, Bits
<1>4. ChipTypes'
    BY <1>1, <1>3 DEF ModemInv, ChipTypes
<1>5. OneAtATime' /\ HeardIsThere' /\ Listens' /\ CutsUnread
    BY <1>1, <1>3 DEF ModemInv, OneAtATime, HeardIsThere, Listens, CutsUnread
<1> QED BY <1>4, <1>5 DEF ModemInv

LEMMA ClearedIs ==
    ASSUME ModemInv, NEW cleared, NEW kept, Cleared(cleared, kept)
    PROVE  /\ chip' \in {cleared, kept}
           /\ faults' \in Faults
           /\ faults'.commands = 0 => faults.commands = 0 /\ chip' = cleared
BY Failing DEF Cleared, ModemInv, ChipTypes

LEMMA RxLookKeeps ==
    ASSUME ModemInv, RxLook
    PROVE  ModemInv' /\ CutsUnread
<1> DEFINE cleared == [chip EXCEPT !.irq = {}]
<1>1. /\ mutex = Nobody /\ mutex' = RxTask /\ saw' = chip.irq
      /\ loraQueue' = loraQueue /\ phase' = phase
      /\ Cleared(cleared, chip)
    BY DEF RxLook
<1>2. /\ chip' \in {cleared, chip} /\ faults' \in Faults
      /\ faults'.commands = 0 => faults.commands = 0
    BY <1>1, ClearedIs
<1>3. /\ chip'.mode = chip.mode /\ chip'.irq \subseteq chip.irq
      /\ chip'.buffer = chip.buffer
      /\ chip' \in [mode : {"rx", "tx", "standby"}, irq : SUBSET Bits,
                    buffer : Frames \cup {Silence}, own : BOOLEAN]
    BY <1>2 DEF ModemInv, ChipTypes
<1>4. ChipTypes'
    BY <1>1, <1>2, <1>3 DEF ModemInv, ChipTypes
<1>5. OneAtATime' /\ HeardIsThere' /\ Listens' /\ CutsUnread
    BY <1>1, <1>2, <1>3, ModemAssumption
    DEF ModemInv, ChipTypes, OneAtATime, HeardIsThere, Listens, CutsUnread
<1> QED BY <1>4, <1>5 DEF ModemInv

LEMMA EnqueueFits ==
    ASSUME NEW S, NEW queue \in Seq(S), NEW item \in S, NEW max \in Nat, Len(queue) <= max
    PROVE  /\ Enqueue(queue, item, max) \in Seq(S)
           /\ Len(Enqueue(queue, item, max)) <= max
BY DEF Enqueue

LEMMA ReadFits ==
    ASSUME ModemInv, Read
    PROVE  loraQueue' \in Seq(Frames \cup {Garbage}) /\ Len(loraQueue') <= LoraQueueMax
<1>1. CASE "rx" \in saw /\ "crc" \notin saw
    <2>1. PICK frame \in Readable : loraQueue' = Enqueue(loraQueue, frame, LoraQueueMax)
        BY <1>1 DEF Read
    <2>2. frame \in Frames \cup {Garbage}
        BY <1>1 DEF Readable, ModemInv, HeardIsThere
    <2> QED BY <2>1, <2>2, EnqueueFits, ModemAssumption DEF ModemInv, ChipTypes
<1>2. CASE ~("rx" \in saw /\ "crc" \notin saw)
    BY <1>2 DEF Read, ModemInv, ChipTypes
<1> QED BY <1>1, <1>2

LEMMA RxDoneKeeps ==
    ASSUME ModemInv, RxRead \/ RxFail
    PROVE  ModemInv' /\ CutsUnread
<1>1. /\ mutex = RxTask /\ mutex' = Nobody /\ saw' = {} /\ phase' = phase
      /\ chip' \in {chip, [chip EXCEPT !.mode = "rx"]}
    BY DEF RxRead, RxFail, RxDone
<1>2. loraQueue' \in Seq(Frames \cup {Garbage}) /\ Len(loraQueue') <= LoraQueueMax
    BY ReadFits DEF RxRead, RxFail, ModemInv, ChipTypes
<1>3. faults' \in Faults /\ (faults'.commands = 0 => faults.commands = 0 /\ chip'.mode = "rx")
    BY Failing DEF RxRead, RxFail, ModemInv, ChipTypes
<1>4. /\ chip'.irq = chip.irq /\ chip'.buffer = chip.buffer
      /\ chip' \in [mode : {"rx", "tx", "standby"}, irq : SUBSET Bits,
                    buffer : Frames \cup {Silence}, own : BOOLEAN]
    BY <1>1 DEF ModemInv, ChipTypes
<1>5. ChipTypes'
    BY <1>1, <1>2, <1>3, <1>4 DEF ModemInv, ChipTypes
<1>6. OneAtATime' /\ HeardIsThere' /\ Listens' /\ CutsUnread
    BY <1>1, <1>3, <1>4, ModemAssumption
    DEF ModemInv, ChipTypes, OneAtATime, HeardIsThere, Listens, CutsUnread
<1> QED BY <1>5, <1>6 DEF ModemInv

LEMMA StartTxKeeps ==
    ASSUME ModemInv, NEW t \in Sender, NEW frame \in Frames, StartTx(t, frame)
    PROVE  ModemInv' /\ CutsUnread
<1> DEFINE sending1 == [chip EXCEPT !.mode = "tx", !.buffer = frame, !.own = TRUE]
           cleared == [sending1 EXCEPT !.irq = @ \ {"tx"}]
<1>1. /\ phase[t] = "idle" /\ mutex = Nobody /\ mutex' = t
      /\ phase' = [phase EXCEPT ![t] = "sending"]
      /\ saw' = saw /\ loraQueue' = loraQueue
      /\ Cleared(cleared, sending1)
    BY DEF StartTx
<1>2. /\ chip' \in {cleared, sending1} /\ faults' \in Faults
      /\ faults'.commands = 0 => faults.commands = 0 /\ chip' = cleared
    BY <1>1, ClearedIs
<1>3. /\ sending1.mode = "tx" /\ sending1.irq = chip.irq /\ sending1.buffer = frame
      /\ sending1 \in [mode : {"rx", "tx", "standby"}, irq : SUBSET Bits,
                    buffer : Frames \cup {Silence}, own : BOOLEAN]
    BY DEF ModemInv, ChipTypes
<1>4. /\ cleared.mode = "tx" /\ cleared.irq = chip.irq \ {"tx"} /\ cleared.buffer = frame
      /\ cleared \in [mode : {"rx", "tx", "standby"}, irq : SUBSET Bits,
                    buffer : Frames \cup {Silence}, own : BOOLEAN]
    <2> HIDE DEF sending1
    <2> QED BY <1>3
<1> HIDE DEF sending1, cleared
<1>5. /\ chip'.mode = "tx" /\ chip'.buffer = frame
      /\ faults'.commands = 0 => "tx" \notin chip'.irq
    BY <1>2, <1>3, <1>4
<1>6. ChipTypes'
    BY <1>1, <1>2, <1>3, <1>4 DEF ModemInv, ChipTypes
<1>7. OneAtATime'
    BY <1>1, ModemAssumption DEF ModemInv, ChipTypes, OneAtATime
<1>8. HeardIsThere' /\ CutsUnread
    BY <1>5 DEF HeardIsThere, CutsUnread
<1>9. Listens'
    BY <1>1, <1>2, <1>5, ModemAssumption DEF ModemInv, ChipTypes, OneAtATime, Listens
<1> QED BY <1>6, <1>7, <1>8, <1>9 DEF ModemInv

LEMMA TxSeenKeeps ==
    ASSUME ModemInv, NEW t \in Sender, TxSeen(t)
    PROVE  ModemInv' /\ CutsUnread
<1> DEFINE cleared == [chip EXCEPT !.irq = @ \ {"tx"}]
<1>1. /\ phase[t] = "sending" /\ chip.irq \cap {"tx", "rx"} # {}
      /\ phase' = [phase EXCEPT ![t] = "sent"]
      /\ mutex' = mutex /\ saw' = saw /\ loraQueue' = loraQueue
      /\ Cleared(cleared, chip)
    BY DEF TxSeen
<1>2. /\ chip' \in {cleared, chip} /\ faults' \in Faults
      /\ faults'.commands = 0 => faults.commands = 0 /\ chip' = cleared
    BY <1>1, ClearedIs
<1>3. /\ cleared.mode = chip.mode /\ cleared.irq = chip.irq \ {"tx"}
      /\ cleared.buffer = chip.buffer
      /\ cleared \in [mode : {"rx", "tx", "standby"}, irq : SUBSET Bits,
                    buffer : Frames \cup {Silence}, own : BOOLEAN]
    BY DEF ModemInv, ChipTypes
<1> HIDE DEF cleared
<1>5. /\ chip'.mode = chip.mode /\ chip'.buffer = chip.buffer /\ chip'.irq \subseteq chip.irq
      /\ faults'.commands = 0 => faults.commands = 0 /\ chip'.irq = chip.irq \ {"tx"}
    BY <1>2, <1>3
<1>6. ChipTypes'
    BY <1>1, <1>2, <1>3 DEF ModemInv, ChipTypes
<1>7. OneAtATime' /\ HeardIsThere' /\ CutsUnread
    BY <1>1, <1>5 DEF ModemInv, ChipTypes, OneAtATime, HeardIsThere, CutsUnread
<1>8. mutex = t
    BY <1>1 DEF ModemInv, OneAtATime
<1>9. Listens'
    BY <1>1, <1>2, <1>5, <1>8, ModemAssumption DEF ModemInv, ChipTypes, OneAtATime, Listens
<1> QED BY <1>6, <1>7, <1>9 DEF ModemInv

LEMMA ReleaseKeeps ==
    ASSUME ModemInv, NEW t \in Sender, TxBack(t) \/ TxFail(t) \/ TxDeaf(t)
    PROVE  ModemInv' /\ CutsUnread
<1>1. /\ mutex = t /\ mutex' = Nobody /\ phase' = [phase EXCEPT ![t] = "idle"]
      /\ saw' = saw /\ loraQueue' = loraQueue
    BY DEF TxBack, TxFail, TxDeaf, Release
<1>2. /\ \/ chip' \in {chip, [chip EXCEPT !.mode = "rx"]}
         \/ chip'.buffer = Silence /\ chip'.irq = {}
      /\ chip' \in [mode : {"rx", "tx", "standby"}, irq : SUBSET Bits,
                    buffer : Frames \cup {Silence}, own : BOOLEAN]
  <2>1. CASE TxFail(t)
    <3>1. /\ Awake \in [mode : {"rx", "tx", "standby"}, irq : SUBSET Bits,
                       buffer : Frames \cup {Silence}, own : BOOLEAN]
          /\ Awake.buffer = Silence /\ Awake.irq = {}
      BY DEF Awake
    <3>2. chip' \in {Awake, [Awake EXCEPT !.mode = "standby"]}
      BY <2>1 DEF TxFail, Recovered
    <3> QED BY <3>1, <3>2
  <2>2. CASE TxBack(t) \/ TxDeaf(t)
    BY <2>2 DEF TxBack, TxDeaf, ModemInv, ChipTypes
  <2> QED BY <2>1, <2>2
<1>3. /\ faults' \in Faults
      /\ faults'.commands = 0 => /\ faults.commands = 0 /\ phase[t] = "sent"
                        /\ chip' = [chip EXCEPT !.mode = "rx"]
    BY Failing DEF TxBack, TxFail, TxDeaf, ModemInv, ChipTypes
<1>4. /\ \/ chip'.irq = chip.irq /\ chip'.buffer = chip.buffer
         \/ chip'.irq = {}
      /\ faults'.commands = 0 => chip'.mode = "rx"
    BY <1>2, <1>3 DEF ModemInv, ChipTypes
<1>5. ChipTypes'
    BY <1>1, <1>2, <1>3 DEF ModemInv, ChipTypes
<1>6. OneAtATime'
    BY <1>1, ModemAssumption DEF ModemInv, ChipTypes, OneAtATime
<1>7. saw = {}
    BY <1>1, ModemAssumption DEF ModemInv, OneAtATime
<1>8. HeardIsThere'
    BY <1>1, <1>4, <1>7 DEF ModemInv, HeardIsThere
<1>9. Listens'
    BY <1>1, <1>4, <1>6, ModemAssumption DEF Listens, OneAtATime
<1>10. CutsUnread
    BY <1>3 DEF ModemInv, Listens, CutsUnread
<1> QED BY <1>5, <1>6, <1>8, <1>9, <1>10 DEF ModemInv

-----------------------------------------------------------------------------
(* What is cut and put together. *)

(* A frame or a part: its load is its whole, or what the air made of it. *)
Piecewise(piece) == piece.load \in {piece.of, Noise}

(* A reassembler with pieces of one whole, or none. *)
Holds(held) ==
    held # Nothing =>
        /\ held = [of |-> held.of, count |-> held.count, got |-> held.got]
        /\ \A i \in DOMAIN held.got : held.got[i] \in {held.of, Noise}

LEMMA PutHolds ==
    ASSUME NEW held, Holds(held), NEW piece, Piecewise(piece)
    PROVE  /\ Holds(Put(held, piece))
           /\ Put(held, piece).of = piece.of /\ Put(held, piece).count = piece.count
           /\ ~Refuses(held, piece) => OfOneWhole(Put(held, piece))
<1> DEFINE r == Resumed(held, piece)
<1>1. /\ r = [of |-> piece.of, count |-> piece.count, got |-> r.got]
      /\ \A i \in DOMAIN r.got : r.got[i] \in {piece.of, Noise}
    <2>1. CASE Same(held, piece)
        BY <2>1 DEF Resumed, Same, Holds
    <2>2. CASE ~Same(held, piece)
        BY <2>2 DEF Resumed, Start
    <2> QED BY <2>1, <2>2
<1> DEFINE got == [i \in DOMAIN r.got \cup {piece.at} |->
                     IF i \in DOMAIN r.got THEN r.got[i] ELSE piece.load]
<1>2. Put(held, piece) = [r EXCEPT !.got = got]
    BY DEF Put
<1>3. \A i \in DOMAIN got : got[i] \in {piece.of, Noise}
    BY <1>1 DEF Piecewise
<1> HIDE DEF r, got
<1>4. PICK g : g = r.got
    OBVIOUS
<1>5. r = [of |-> piece.of, count |-> piece.count, got |-> g]
    BY <1>1, <1>4
<1>6. Put(held, piece) = [of |-> piece.of, count |-> piece.count, got |-> got]
    BY <1>2, <1>5
<1> QED BY <1>3, <1>6 DEF Holds, OfOneWhole

LEMMA FramesAre ==
    /\ \A f \in Frames : f.of \in Packets /\ Piecewise(f)
    /\ \A p \in Packets : \A i \in 1 .. Info(p).frames :
          /\ Piece(p, i, Info(p).frames) \in Frames
          /\ Changed(Piece(p, i, Info(p).frames)) \in Frames
<1> DEFINE Whole == UNION {ToSet(LoraFrames(p)) : p \in Packets}
<1>1. \A p \in Packets : ToSet(LoraFrames(p)) = {Piece(p, i, Info(p).frames) : i \in 1 .. Info(p).frames}
    BY DEF ToSet, LoraFrames, Cut
<1>2. \A f : f \in Whole <=> \E p \in Packets : \E i \in 1 .. Info(p).frames :
                                 f = Piece(p, i, Info(p).frames)
    BY <1>1
<1>3. Frames = Whole \cup {Changed(f) : f \in Whole}
    BY DEF Frames
<1> HIDE DEF Whole
<1>4. ASSUME NEW f \in Whole
      PROVE  /\ f.of \in Packets /\ Piecewise(f)
             /\ Changed(f).of \in Packets /\ Piecewise(Changed(f))
    <2>1. PICK p \in Packets : \E i \in 1 .. Info(p).frames : f = Piece(p, i, Info(p).frames)
        BY <1>2
    <2>i. PICK i \in 1 .. Info(p).frames : f = Piece(p, i, Info(p).frames)
        BY <2>1
    <2>2. PICK n : n = Info(p).frames
        OBVIOUS
    <2>3. f = [of |-> p, at |-> i, count |-> n, load |-> p]
        BY <2>i, <2>2 DEF Piece
    <2>4. Changed(f) = [of |-> p, at |-> i, count |-> n, load |-> Noise]
        BY <2>3 DEF Changed
    <2> QED BY <2>3, <2>4 DEF Piecewise
<1> QED BY <1>2, <1>3, <1>4

(* Strung together, sequences over a set are a sequence over it. *)
Strung(seqs, f, i) == IF i = 1 THEN seqs[i] ELSE f[i - 1] \o seqs[i]

Strings(seqs, k, f) == f = [i \in 1 .. k |-> Strung(seqs, f, i)]

LEMMA StringsExist ==
    ASSUME NEW seqs, NEW n \in Nat
    PROVE  \E f : Strings(seqs, n, f)
<1> DEFINE K == {k \in 0 .. n : \E f : Strings(seqs, k, f)}
<1>1. 0 \in K
    <2> DEFINE f == [i \in 1 .. 0 |-> 0]
    <2>1. f = [i \in 1 .. 0 |-> Strung(seqs, f, i)]
        OBVIOUS
    <2> HIDE DEF f
    <2>2. Strings(seqs, 0, f)
        BY <2>1, Zenon DEF Strings
    <2>3. 0 \in 0 .. n
        OBVIOUS
    <2> QED BY <2>2, <2>3
<1>2. ASSUME NEW k \in K, k < n
      PROVE  k + 1 \in K
    <2>1. PICK f : Strings(seqs, k, f)
        OBVIOUS
    <2> DEFINE g == [i \in 1 .. k + 1 |-> IF i = k + 1 THEN Strung(seqs, f, k + 1) ELSE f[i]]
    <2>2. k \in Nat /\ k + 1 \in 0 .. n
        BY <1>2
    <2>3. \A i \in 1 .. k : f[i] = Strung(seqs, f, i)
        BY <2>1 DEF Strings
    <2>4. ASSUME NEW i \in 1 .. k + 1
          PROVE  g[i] = Strung(seqs, g, i)
        <3>1. i # 1 => g[i - 1] = f[i - 1]
            BY <2>2
        <3>2. Strung(seqs, g, i) = Strung(seqs, f, i)
            <4> HIDE DEF g
            <4> QED BY <3>1 DEF Strung
        <3>3. CASE i = k + 1
            BY <3>2, <3>3
        <3>4. CASE i # k + 1
            <4>1. i \in 1 .. k /\ g[i] = f[i]
                BY <3>4, <2>2
            <4> HIDE DEF g
            <4> QED BY <4>1, <2>3, <3>2
        <3> QED BY <3>3, <3>4
    <2>5. DOMAIN g = 1 .. k + 1 /\ g = [i \in 1 .. k + 1 |-> g[i]]
        OBVIOUS
    <2> HIDE DEF g
    <2>6. Strings(seqs, k + 1, g)
        <3>1. g = [i \in 1 .. k + 1 |-> Strung(seqs, g, i)]
            BY <2>4, <2>5
        <3> QED BY <3>1, Zenon DEF Strings
    <2> QED BY <2>2, <2>6
<1>3. n \in K
    <2> HIDE DEF K
    <2>1. K \in SUBSET (0 .. n)
        BY DEF K
    <2> QED BY <1>1, <1>2, <2>1, UpTo
<1> QED BY <1>3

LEMMA Flattened ==
    ASSUME NEW S, NEW seqs \in Seq(Seq(S))
    PROVE  FlattenSeq(seqs) \in Seq(S)
<1> DEFINE n == Len(seqs)
<1>0. n \in Nat /\ \A i \in 1 .. n : seqs[i] \in Seq(S)
    OBVIOUS
<1>1. CASE n = 0
    BY <1>1 DEF FlattenSeq
<1>2. CASE n # 0
    <2>1. PICK f : f = CHOOSE h : Strings(seqs, n, h)
        OBVIOUS
    <2>2. Strings(seqs, n, f)
        BY <1>0, <2>1, StringsExist
    <2>3. FlattenSeq(seqs) = f[n]
        BY <1>2, <2>1 DEF FlattenSeq, Strings, Strung
    <2>4. \A i \in 1 .. n : f[i] = Strung(seqs, f, i)
        BY <2>2 DEF Strings
    <2> DEFINE K == {k \in 0 .. n : k = 0 \/ f[k] \in Seq(S)}
    <2>5. 0 \in K
        BY <1>0
    <2>6. ASSUME NEW k \in K, k < n
          PROVE  k + 1 \in K
        <3>1. k + 1 \in 1 .. n /\ k \in Nat /\ (k + 1) - 1 = k
            BY <1>0, <2>6
        <3>2. f[k + 1] = Strung(seqs, f, k + 1) /\ seqs[k + 1] \in Seq(S)
            BY <1>0, <2>4, <3>1
        <3>3. CASE k = 0
            BY <3>1, <3>2, <3>3 DEF Strung
        <3>4. CASE k # 0
            <4>1. f[k] \in Seq(S)
                BY <2>6, <3>4
            <4>2. f[k + 1] = f[k] \o seqs[k + 1]
                <5>1. PICK j : j = k + 1 /\ j - 1 = k /\ j # 1
                    BY <3>1, <3>4
                <5>2. Strung(seqs, f, j) = f[j - 1] \o seqs[j]
                    BY <5>1 DEF Strung
                <5> QED BY <3>2, <5>1, <5>2
            <4>3. PICK u, v : u = f[k] /\ v = seqs[k + 1]
                OBVIOUS
            <4>4. u \o v \in Seq(S)
                <5>1. u \in Seq(S) /\ v \in Seq(S)
                    BY <3>2, <4>1, <4>3
                <5> QED BY <5>1
            <4>5. f[k + 1] \in Seq(S)
                BY <4>2, <4>3, <4>4
            <4>6. k + 1 \in 0 .. n
                BY <1>0, <3>1
            <4> QED BY <4>5, <4>6
        <3> QED BY <3>3, <3>4
    <2>7. n \in K
        <3>1. K \in SUBSET (0 .. n)
            OBVIOUS
        <3> HIDE DEF K
        <3>2. K = 0 .. n
            BY <1>0, <2>5, <2>6, <3>1, UpTo
        <3> QED BY <1>0, <3>2
    <2> QED BY <1>2, <2>3, <2>7
<1> QED BY <1>1, <1>2

(* All that neighbours send. *)
Sendable == UNION {ToSet(LoraFrames(p)) : p \in Packets}

LEMMA SendableAre == \A f \in Sendable : f \in Frames /\ Changed(f) \in Frames
BY DEF Sendable, Frames

LEMMA FramesOfType ==
    ASSUME NEW n \in Neighbour
    PROVE  FramesOf(n) \in Seq(Sendable)
<1> DEFINE names == Sent[n].names
           cuts(name) == IF Sent[n].bearer = "lora" THEN LoraFrames(Packet(name))
                                                    ELSE EspnowFrames(Packet(name))
           seqs == [i \in DOMAIN names |-> cuts(names[i])]
<1>1. names \in Seq(DOMAIN Carries)
    BY CarriesAssumption
<1>2. ASSUME NEW name \in DOMAIN Carries
      PROVE  cuts(name) \in Seq(Sendable)
    <2>1. Packet(name) \in Packets
        <3>1. 0 \in 0 .. HopMax
            BY PathAssumption
        <3> QED BY <3>1 DEF Packet, Packets
    <2>2. PICK p \in Packets : p = Packet(name)
        BY <2>1
    <2>3. cuts(name) = LoraFrames(p)
        BY <2>2 DEF LoraFrames, EspnowFrames
    <2>4. Info(p).frames \in Nat
        BY CarriesAssumption DEF Info, Packets
    <2>5. LoraFrames(p) = [i \in 1 .. Info(p).frames |-> Piece(p, i, Info(p).frames)]
        BY DEF LoraFrames, Cut
    <2>6. \A i \in 1 .. Info(p).frames : LoraFrames(p)[i] \in ToSet(LoraFrames(p))
        BY <2>5 DEF ToSet
    <2>7. \A i \in 1 .. Info(p).frames : LoraFrames(p)[i] \in Sendable
        BY <2>6 DEF Sendable
    <2>8. LoraFrames(p) \in [1 .. Info(p).frames -> Sendable]
        BY <2>5, <2>7
    <2> QED BY <2>3, <2>4, <2>8
<1> HIDE DEF cuts
<1>3. seqs \in Seq(Seq(Sendable))
    <2>1. DOMAIN names = 1 .. Len(names) /\ Len(names) \in Nat
        BY <1>1
    <2>2. \A i \in 1 .. Len(names) : names[i] \in DOMAIN Carries
        BY <1>1
    <2>3. seqs \in [1 .. Len(names) -> Seq(Sendable)]
        BY <1>2, <2>1, <2>2
    <2> QED BY <2>1, <2>3
<1>4. FlattenSeq(seqs) \in Seq(Sendable)
    <2> HIDE DEF seqs
    <2> QED BY <1>3, Flattened
<1> QED BY <1>4 DEF FramesOf, cuts

-----------------------------------------------------------------------------
(* The path: what is queued, seen, sent, put together. *)

Bears(x) ==
    \/ x = Idle
    \/ /\ x = [packet |-> x.packet, at |-> x.at]
       /\ x.packet \in Packets
       /\ x.at \in 1 .. Info(x.packet).frames

AirInv ==
    /\ air \in [Neighbour -> Seq(Sendable)]
    /\ espnowQueue \in Seq(Frames) /\ Len(espnowQueue) <= EspnowQueueMax
    /\ own \subseteq DOMAIN Carries

NodeInv ==
    /\ events \in Seq(Packets) /\ Len(events) <= EventMax
    /\ ring \in Seq(Packets) /\ Len(ring) <= RingSize
    /\ DOMAIN sending = Sender /\ \A t \in Sender : Bears(sending[t])

BearerInv ==
    /\ DOMAIN partial = Bearer
    /\ \A b \in Bearer :
        Holds(partial[b]) /\ (partial[b] # Nothing => partial[b].of \in Packets)

(* A slot is of a resource, by its number of parts too: so no two slots are   *)
(* of one resource.                                                           *)
OfParts(held) ==
    held # Nothing => \E n \in Parts : held.of = Carries[n].of /\ held.count = Carries[n].count

Apart(f) == \A s, o \in Slot : f[s] # Nothing /\ f[o] # Nothing /\ f[s].of = f[o].of => s = o

PoolInv ==
    /\ DOMAIN slots = Slot
    /\ \A s \in Slot : Holds(slots[s]) /\ OfParts(slots[s])
    /\ Apart(slots)
    /\ \A whole \in completed : Full(whole) /\ Intact(whole)

PathInv == AirInv /\ NodeInv /\ BearerInv /\ PoolInv

LEMMA PacketsAre ==
    ASSUME NEW p \in Packets
    PROVE  /\ Digest(p) \in Packets
           /\ p.hops < HopMax => [p EXCEPT !.hops = @ + 1] \in Packets
           /\ [p EXCEPT !.changed = TRUE] \in Packets
           /\ Info([p EXCEPT !.hops = @ + 1]) = Info(p)
           /\ Info(p).frames \in Nat \ {0} /\ p.name \in DOMAIN Carries
<1>1. HopMax \in Nat
    BY PathAssumption
<1>2. p.name \in DOMAIN Carries /\ p.hops \in 0 .. HopMax
    BY DEF Packets
<1>3. Info(p).frames \in Nat \ {0}
    BY <1>2, CarriesAssumption DEF Info
<1>4. /\ Digest(p) \in Packets /\ [p EXCEPT !.changed = TRUE] \in Packets
      /\ [p EXCEPT !.hops = @ + 1].name = p.name
    <2>1. Digest(p) \in Packets
        BY <1>1 DEF Packets, Digest
    <2>2. [p EXCEPT !.changed = TRUE] \in Packets
        BY DEF Packets
    <2>3. [p EXCEPT !.hops = @ + 1].name = p.name
        BY DEF Packets
    <2> QED BY <2>1, <2>2, <2>3
<1>5. p.hops < HopMax => [p EXCEPT !.hops = @ + 1] \in Packets
    BY <1>1 DEF Packets
<1> QED BY <1>2, <1>3, <1>4, <1>5 DEF Info

LEMMA Beginning ==
    ASSUME NodeInv, NEW t \in Sender, NEW p \in Packets, Begin(t, p)
    PROVE  DOMAIN sending' = Sender /\ \A u \in Sender : Bears(sending'[u])
<1> DEFINE x == [packet |-> p, at |-> 1]
<1>1. Bears(x)
    <2>1. Info(p).frames \in Nat \ {0}
        BY PacketsAre
    <2>2. 1 \in 1 .. Info(p).frames
        BY <2>1
    <2> QED BY <2>2 DEF Bears
<1>2. sending' = [sending EXCEPT ![t] = x]
    BY DEF Begin
<1> HIDE DEF x
<1> QED BY <1>1, <1>2 DEF NodeInv

LEMMA Ending ==
    ASSUME NodeInv, NEW t \in Sender, Advance(t) \/ Abandon(t), sending[t].packet # None
    PROVE  DOMAIN sending' = Sender /\ \A u \in Sender : Bears(sending'[u])
<1>1. CASE Abandon(t)
    <2>1. Bears(Idle) /\ sending' = [sending EXCEPT ![t] = Idle]
        BY <1>1 DEF Bears, Abandon
    <2> HIDE DEF Idle
    <2> QED BY <2>1 DEF NodeInv
<1>2. CASE Advance(t)
    <2> DEFINE x == sending[t]
               y == IF x.at >= Info(x.packet).frames THEN Idle ELSE [x EXCEPT !.at = @ + 1]
    <2>1. sending' = [sending EXCEPT ![t] = y]
        BY <1>2 DEF Advance
    <2>2. /\ x = [packet |-> x.packet, at |-> x.at]
          /\ x.packet \in Packets
          /\ x.at \in 1 .. Info(x.packet).frames
        BY DEF NodeInv, Bears, Idle
    <2>3. Bears(y)
        <3>1. PICK p, i : p = x.packet /\ i = x.at
            OBVIOUS
        <3>2. x = [packet |-> p, at |-> i]
            BY <2>2, <3>1
        <3>0. Info(p).frames \in Nat /\ i \in 1 .. Info(p).frames
            <4>1. p \in Packets /\ i \in 1 .. Info(p).frames
                BY <2>2, <3>1
            <4>2. Info(p).frames \in Nat \ {0}
                BY <4>1, PacketsAre
            <4> QED BY <4>1, <4>2
        <3>3. CASE i < Info(p).frames
            <4>1. y = [packet |-> p, at |-> i + 1]
                <5>1. ~(i >= Info(p).frames)
                    BY <3>0, <3>3
                <5>2. [x EXCEPT !.at = @ + 1] = [packet |-> p, at |-> i + 1]
                    BY <3>1, <3>2
                <5> QED BY <3>1, <5>1, <5>2
            <4>2. i + 1 \in 1 .. Info(p).frames
                BY <3>0, <3>3
            <4>3. p \in Packets
                BY <2>2, <3>1
            <4> HIDE DEF y
            <4> QED BY <4>1, <4>2, <4>3 DEF Bears
        <3>4. CASE ~(i < Info(p).frames)
            <4>1. i >= Info(p).frames
                BY <3>0, <3>4
            <4>2. y = Idle
                BY <3>1, <4>1
            <4> QED BY <4>2 DEF Bears
        <3> QED BY <3>3, <3>4
    <2> HIDE DEF y
    <2> QED BY <2>1, <2>3 DEF NodeInv
<1> QED BY <1>1, <1>2

LEMMA ReceiveKeeps ==
    ASSUME NodeInv, NEW packet \in Packets, Receive(packet)
    PROVE  NodeInv'
<1>1. CASE Digest(packet) \in ToSet(ring)
    BY <1>1 DEF Receive, NodeInv
<1>2. CASE Digest(packet) \notin ToSet(ring)
    <2>1. Remember(packet) /\ Route(packet)
        BY <1>2 DEF Receive
    <2>2. ring' \in Seq(Packets) /\ Len(ring') <= RingSize
        <3>1. Digest(packet) \in Packets /\ RingSize \in Nat
            BY PacketsAre, PathAssumption
        <3> QED BY <2>1, <3>1 DEF Remember, NodeInv
    <2>3. CASE Info(packet).mine
        <3>1. EventMax \in Nat
            BY PathAssumption
        <3> QED BY <2>1, <2>2, <2>3, <3>1, EnqueueFits DEF Route, NodeInv
    <2>4. CASE ~Info(packet).mine /\ packet.hops < HopMax
        <3>1. Radio \in Sender
            BY PathAssumption
        <3>2. Begin(Radio, [packet EXCEPT !.hops = @ + 1]) /\ events' = events
            BY <2>1, <2>4 DEF Route
        <3>3. DOMAIN sending' = Sender /\ \A u \in Sender : Bears(sending'[u])
            BY <2>4, <3>1, <3>2, PacketsAre, Beginning
        <3> QED BY <2>2, <3>2, <3>3 DEF NodeInv
    <2>5. CASE ~Info(packet).mine /\ ~(packet.hops < HopMax)
        BY <2>1, <2>2, <2>5 DEF Route, NodeInv
    <2> QED BY <2>3, <2>4, <2>5
<1> QED BY <1>1, <1>2

LEMMA AssembleKeeps ==
    ASSUME NodeInv, BearerInv, NEW b \in Bearer, NEW frame \in Frames, Assemble(b, frame)
    PROVE  NodeInv' /\ BearerInv'
<1>1. CASE Refuses(partial[b], frame)
    BY <1>1 DEF Assemble, NodeInv, BearerInv
<1>2. CASE ~Refuses(partial[b], frame)
    <2>1. PICK whole : whole = Put(partial[b], frame)
        OBVIOUS
    <2>2. Holds(whole) /\ whole.of \in Packets
        BY <2>1, PutHolds, FramesAre DEF BearerInv
    <2>3. /\ partial' = [partial EXCEPT ![b] = whole]
          /\ IF Full(whole) THEN Receive(Unpacked(whole)) ELSE UNCHANGED <<ring, events, sending>>
        BY <1>2, <2>1 DEF Assemble
    <2>4. BearerInv'
        BY <2>2, <2>3 DEF BearerInv
    <2>5. Unpacked(whole) \in Packets
        BY <2>2, PacketsAre DEF Unpacked
    <2>6. NodeInv'
        BY <2>3, <2>5, ReceiveKeeps DEF NodeInv
    <2> QED BY <2>4, <2>6
<1> QED BY <1>1, <1>2

-----------------------------------------------------------------------------
(* Each step keeps the invariant, and cuts no sending short but for a frame   *)
(* not yet read.                                                              *)

RInv == ModemInv /\ PathInv

LEMMA Rest ==
    /\ UNCHANGED <<air, espnowQueue, own>> /\ AirInv => AirInv'
    /\ UNCHANGED <<ring, events, sending>> /\ NodeInv => NodeInv'
    /\ UNCHANGED partial /\ BearerInv => BearerInv'
    /\ UNCHANGED <<poolVars, completed>> /\ PoolInv => PoolInv'
BY DEF AirInv, NodeInv, BearerInv, PoolInv, poolVars, Apart

LEMMA LoraAirStep ==
    ASSUME RInv, LoraAir
    PROVE  RInv' /\ CutsUnread
<1>1. PICK n \in Neighbour : \E i \in DOMAIN air[n] :
            /\ Through(n, i)
            /\ Hear(air[n][i]) \/ HearSpoilt(Changed(air[n][i])) \/ Miss
    BY DEF LoraAir
<1>2. PICK i \in DOMAIN air[n] :
            /\ Through(n, i)
            /\ Hear(air[n][i]) \/ HearSpoilt(Changed(air[n][i])) \/ Miss
    BY <1>1
<1>3. air[n] \in Seq(Sendable) /\ air[n][i] \in Sendable /\ i \in 1 .. Len(air[n])
    BY <1>2 DEF RInv, PathInv, AirInv
<1>4. air[n][i] \in Frames /\ Changed(air[n][i]) \in Frames
    BY <1>3, SendableAre
<1>5. ModemInv' /\ CutsUnread
    BY <1>2, <1>4, LoraAirKeeps DEF RInv
<1>6. AirInv'
    <2>1. PICK s : s = air[n]
        OBVIOUS
    <2>2. SubSeq(s, i + 1, Len(s)) \in Seq(Sendable)
        BY <1>3, <2>1
    <2>3. air' = [air EXCEPT ![n] = SubSeq(s, i + 1, Len(s))]
        BY <1>2, <2>1 DEF Through
    <2>4. air' \in [Neighbour -> Seq(Sendable)]
        BY <2>2, <2>3 DEF RInv, PathInv, AirInv
    <2> QED BY <2>4 DEF LoraAir, RInv, PathInv, AirInv
<1> QED BY <1>5, <1>6, Rest DEF LoraAir, RInv, PathInv

LEMMA EspnowAirStep ==
    ASSUME RInv, EspnowAir
    PROVE  RInv' /\ CutsUnread
<1>1. PICK n \in Neighbour : \E i \in DOMAIN air[n] :
            /\ Through(n, i)
            /\ espnowQueue' = Enqueue(espnowQueue, air[n][i], EspnowQueueMax)
    BY DEF EspnowAir
<1>2. PICK i \in DOMAIN air[n] :
            /\ Through(n, i)
            /\ espnowQueue' = Enqueue(espnowQueue, air[n][i], EspnowQueueMax)
    BY <1>1
<1>3. air[n] \in Seq(Sendable) /\ air[n][i] \in Sendable /\ i \in 1 .. Len(air[n])
    BY <1>2 DEF RInv, PathInv, AirInv
<1>4. air[n][i] \in Frames
    BY <1>3, SendableAre
<1>5. espnowQueue' \in Seq(Frames) /\ Len(espnowQueue') <= EspnowQueueMax
    <2>1. EspnowQueueMax \in Nat
        BY PathAssumption
    <2> QED BY <1>2, <1>4, <2>1, EnqueueFits DEF RInv, PathInv, AirInv
<1>6. AirInv'
    <2>1. PICK s : s = air[n]
        OBVIOUS
    <2>2. SubSeq(s, i + 1, Len(s)) \in Seq(Sendable)
        BY <1>3, <2>1
    <2>3. air' = [air EXCEPT ![n] = SubSeq(s, i + 1, Len(s))]
        BY <1>2, <2>1 DEF Through
    <2>4. air' \in [Neighbour -> Seq(Sendable)]
        BY <2>2, <2>3 DEF RInv, PathInv, AirInv
    <2> QED BY <1>5, <2>4 DEF EspnowAir, RInv, PathInv, AirInv
<1> QED BY <1>6, Rest, ModemRests DEF EspnowAir, RInv, PathInv

LEMMA EspnowSendStep ==
    ASSUME RInv, NEW t \in Sender, EspnowSend(t)
    PROVE  RInv' /\ CutsUnread
<1>1. sending[t].packet # None /\ (Advance(t) \/ Abandon(t))
    BY DEF EspnowSend, Busy
<1>2. DOMAIN sending' = Sender /\ \A u \in Sender : Bears(sending'[u])
    BY <1>1, Ending DEF RInv, PathInv
<1>3. NodeInv'
    BY <1>2 DEF EspnowSend, RInv, PathInv, NodeInv
<1>4. ModemInv' /\ CutsUnread
    <2>1. CASE UNCHANGED modemVars
        BY <2>1, ModemRests DEF RInv
    <2>2. CASE Mishap /\ UNCHANGED <<chip, mutex, saw, loraQueue, phase>>
        <3>1. faults' \in Faults /\ faults'.commands = faults.commands
            BY <2>2, Mishaps DEF RInv
        <3> QED BY <2>2, <3>1 DEF RInv, ModemInv, ChipTypes, OneAtATime, HeardIsThere,
                                  Listens, CutsUnread
    <2> QED BY <2>1, <2>2 DEF EspnowSend
<1> QED BY <1>3, <1>4, Rest DEF EspnowSend, RInv, PathInv

LEMMA LoraSendStep ==
    ASSUME RInv, NEW t \in Sender, LoraSend(t)
    PROVE  RInv' /\ CutsUnread
<1>1. sending[t].packet # None /\ Bears(sending[t])
    BY DEF LoraSend, Busy, RInv, PathInv, NodeInv
<1>2. FrameOut(t) \in Frames
    <2>1. sending[t].packet \in Packets /\ sending[t].at \in 1 .. Info(sending[t].packet).frames
        BY <1>1 DEF Bears, Idle
    <2> QED BY <2>1, FramesAre DEF FrameOut
<1>3. NodeInv'
    <2>1. CASE UNCHANGED sending
        BY <2>1 DEF LoraSend, RInv, PathInv, NodeInv
    <2>2. CASE Advance(t) \/ Abandon(t)
        <3>1. DOMAIN sending' = Sender /\ \A u \in Sender : Bears(sending'[u])
            BY <1>1, <2>2, Ending DEF RInv, PathInv
        <3> QED BY <3>1 DEF LoraSend, RInv, PathInv, NodeInv
    <2> QED BY <2>1, <2>2 DEF LoraSend
<1>4. ModemInv' /\ CutsUnread
    <2>1. CASE StartTx(t, FrameOut(t))
        <3>1. PICK frame \in Frames : frame = FrameOut(t)
            BY <1>2
        <3> QED BY <2>1, <3>1, StartTxKeeps DEF RInv
    <2>2. CASE TxSeen(t)
        BY <2>2, TxSeenKeeps DEF RInv
    <2>3. CASE TxBack(t) \/ TxFail(t) \/ TxDeaf(t)
        BY <2>3, ReleaseKeeps DEF RInv
    <2>4. CASE TxBusy(t)
        BY <2>4, ModemRests DEF RInv, TxBusy
    <2> QED BY <2>1, <2>2, <2>3, <2>4 DEF LoraSend
<1> QED BY <1>3, <1>4, Rest DEF LoraSend, RInv, PathInv

LEMMA PollEspnowStep ==
    ASSUME RInv, PollEspnow
    PROVE  RInv' /\ CutsUnread
<1>1. /\ espnowQueue \in Seq(Frames) /\ espnowQueue # << >>
      /\ espnowQueue' = Tail(espnowQueue) /\ Assemble("espnow", Head(espnowQueue))
    BY DEF PollEspnow, EspnowReceive, RInv, PathInv, AirInv
<1>2. Head(espnowQueue) \in Frames /\ espnowQueue' \in Seq(Frames)
    BY <1>1
<1>3. Len(espnowQueue') <= EspnowQueueMax
    <2>1. EspnowQueueMax \in Nat /\ Len(espnowQueue) <= EspnowQueueMax
        BY PathAssumption DEF RInv, PathInv, AirInv
    <2>2. Len(espnowQueue') = Len(espnowQueue) - 1 /\ Len(espnowQueue) \in Nat
        BY <1>1
    <2> QED BY <2>1, <2>2
<1>4. AirInv'
    BY <1>2, <1>3 DEF PollEspnow, RInv, PathInv, AirInv
<1>5. NodeInv' /\ BearerInv'
    BY <1>1, <1>2, AssembleKeeps DEF RInv, PathInv, Bearer
<1> QED BY <1>4, <1>5, Rest, ModemRests DEF PollEspnow, RInv, PathInv

LEMMA PollLoraStep ==
    ASSUME RInv, PollLora
    PROVE  RInv' /\ CutsUnread
<1>1. /\ loraQueue \in Seq(Frames \cup {Garbage}) /\ loraQueue # << >>
      /\ Len(loraQueue) <= LoraQueueMax
      /\ loraQueue' = Tail(loraQueue) /\ LoraReceive(Head(loraQueue))
    BY DEF PollLora, RInv, ModemInv, ChipTypes
<1>2. Head(loraQueue) \in Frames \cup {Garbage} /\ loraQueue' \in Seq(Frames \cup {Garbage})
    BY <1>1
<1>3. Len(loraQueue') <= LoraQueueMax
    <2>1. Len(loraQueue') = Len(loraQueue) - 1 /\ Len(loraQueue) \in Nat
        BY <1>1
    <2> QED BY <1>1, <2>1, ModemAssumption
<1>4. ModemInv' /\ CutsUnread
    BY <1>2, <1>3 DEF PollLora, RInv, ModemInv, ChipTypes, OneAtATime, HeardIsThere, Listens,
                      CutsUnread
<1>5. NodeInv' /\ BearerInv'
    <2>1. CASE Head(loraQueue) = Garbage
        BY <1>1, <2>1, Rest DEF LoraReceive, RInv, PathInv
    <2>2. CASE Head(loraQueue) # Garbage
        BY <1>1, <1>2, <2>2, AssembleKeeps DEF LoraReceive, RInv, PathInv, Bearer
    <2> QED BY <2>1, <2>2
<1> QED BY <1>4, <1>5, Rest DEF PollLora, RInv, PathInv

LEMMA CoreSendStep ==
    ASSUME RInv, CoreSend
    PROVE  RInv' /\ CutsUnread
<1>1. PICK name \in own : own' = own \ {name} /\ Begin(Core, Packet(name))
    BY DEF CoreSend
<1>2. Packet(name) \in Packets
    <2>1. 0 \in 0 .. HopMax /\ name \in DOMAIN Carries
        BY PathAssumption DEF RInv, PathInv, AirInv
    <2> QED BY <2>1 DEF Packet, Packets
<1>3. DOMAIN sending' = Sender /\ \A u \in Sender : Bears(sending'[u])
    <2>1. PICK p \in Packets : p = Packet(name)
        BY <1>2
    <2> QED BY <1>1, <2>1, PathAssumption, Beginning DEF RInv, PathInv
<1>4. NodeInv' /\ AirInv'
    BY <1>1, <1>3 DEF CoreSend, RInv, PathInv, NodeInv, AirInv
<1> QED BY <1>4, Rest, ModemRests DEF CoreSend, RInv, PathInv

LEMMA ModemStep ==
    ASSUME RInv, Modem
    PROVE  RInv' /\ CutsUnread
<1>1. ModemInv' /\ CutsUnread
    BY TxEndKeeps, RxLookKeeps, RxDoneKeeps DEF Modem, RInv
<1> QED BY <1>1, Rest DEF Modem, pathVars, RInv, PathInv

LEMMA PartInIs ==
    ASSUME NEW p \in Packets, Info(p).kind = "part"
    PROVE  /\ Piecewise(PartIn(p))
           /\ \E n \in Parts : PartIn(p).of = Carries[n].of /\ PartIn(p).count = Carries[n].count
<1>1. p.name \in Parts /\ Info(p) = Carries[p.name]
    BY DEF Packets, Parts, Info
<1>2. PICK o, i, n : o = Info(p).of /\ i = Info(p).at /\ n = Info(p).count
    OBVIOUS
<1> DEFINE part == [of |-> o, at |-> i, count |-> n, load |-> o]
<1>3. PartIn(p) \in {part, [part EXCEPT !.load = Noise]}
    BY <1>2 DEF PartIn, Piece, Changed
<1>4. PartIn(p).of = o /\ PartIn(p).count = n /\ PartIn(p).load \in {o, Noise}
    BY <1>3
<1> QED BY <1>1, <1>2, <1>4 DEF Piecewise

(* A part goes to the slot of its resource, if there is one. *)
LEMMA ChosenMatches ==
    ASSUME NEW part, Matching(part) # {}
    PROVE  Chosen(part) \in Matching(part)
<1>1. PICK S : S = Matching(part)
    OBVIOUS
<1>2. S \in SUBSET Nat /\ S # {}
    BY <1>1, PoolAssumption DEF Matching, Slot
<1>3. \E s \in S : \A o \in S : s <= o
    BY <1>2, Least
<1>4. First(S) \in S
    BY <1>3 DEF First
<1> QED BY <1>1, <1>4 DEF Chosen

LEMMA PoolAcceptKeeps ==
    ASSUME PoolInv, NEW part, Piecewise(part), PoolAccept(part),
           \E n \in Parts : part.of = Carries[n].of /\ part.count = Carries[n].count
    PROVE  /\ DOMAIN slots' = Slot
           /\ \A s \in Slot : Holds(slots'[s]) /\ OfParts(slots'[s])
           /\ Apart(slots')
<1>1. PICK c : c = Chosen(part)
    OBVIOUS
<1>2. PICK kept : kept = IF Refuses(slots[c], part) THEN slots[c] ELSE Put(slots[c], part)
    OBVIOUS
<1>3. slots' = [slots EXCEPT ![c] = IF Completes(kept) THEN Nothing ELSE kept]
    BY <1>1, <1>2, Zenon DEF PoolAccept
<1>4. CASE c \notin Slot
    <2>1. DOMAIN slots' = Slot /\ \A s \in Slot : slots'[s] = slots[s]
        BY <1>3, <1>4 DEF PoolInv
    <2> QED BY <2>1 DEF PoolInv, Apart
<1>5. CASE c \in Slot
    <2>1. Holds(kept) /\ OfParts(kept) /\ (kept = slots[c] \/ kept.of = part.of)
        <3>1. CASE Refuses(slots[c], part)
            BY <1>2, <1>5, <3>1 DEF PoolInv
        <3>2. CASE ~Refuses(slots[c], part)
            <4>1. kept = Put(slots[c], part)
                BY <1>2, <3>2
            <4>2. Holds(kept) /\ kept.of = part.of /\ kept.count = part.count
                BY <1>5, <4>1, PutHolds DEF PoolInv
            <4> QED BY <4>2 DEF OfParts
        <3> QED BY <3>1, <3>2
    <2>2. PICK new : new = IF Completes(kept) THEN Nothing ELSE kept
        OBVIOUS
    <2>3. /\ slots' = [slots EXCEPT ![c] = new]
          /\ Holds(new) /\ OfParts(new)
          /\ new = Nothing \/ new = slots[c] \/ new.of = part.of
        BY <1>3, <2>1, <2>2 DEF Holds, OfParts
    <2>4. ASSUME NEW o \in Slot, slots[o] # Nothing, slots[o].of = part.of
          PROVE  o = c
        <3>1. slots[o].count = part.count
            BY <2>4, CarriesAssumption DEF PoolInv, OfParts, Parts
        <3>2. o \in Matching(part)
            BY <2>4, <3>1 DEF Matching, Same
        <3>3. c \in Matching(part)
            BY <1>1, <3>2, ChosenMatches
        <3> QED BY <2>4, <1>5, <3>3 DEF Matching, Same, PoolInv, Apart
    <2>5. DOMAIN slots' = Slot /\ slots'[c] = new /\ \A s \in Slot \ {c} : slots'[s] = slots[s]
        BY <1>5, <2>3 DEF PoolInv
    <2>6. \A s \in Slot : Holds(slots'[s]) /\ OfParts(slots'[s])
        BY <2>3, <2>5 DEF PoolInv
    <2>7. Apart(slots')
        <3> SUFFICES ASSUME NEW s \in Slot, NEW o \in Slot, slots'[s] # Nothing,
                            slots'[o] # Nothing, slots'[s].of = slots'[o].of, s # o
                     PROVE  FALSE
            BY DEF Apart
        <3>1. CASE s # c /\ o # c
            BY <2>5, <3>1 DEF PoolInv, Apart
        <3>2. ASSUME NEW u \in Slot, u # c, slots[u] # Nothing, new # Nothing,
                     new.of = slots[u].of
              PROVE  FALSE
            BY <1>5, <2>3, <2>4, <3>2 DEF PoolInv, Apart
        <3> QED BY <2>5, <3>1, <3>2
    <2> QED BY <2>5, <2>6, <2>7
<1> QED BY <1>4, <1>5

LEMMA CoreEventStep ==
    ASSUME RInv, CoreEvent
    PROVE  RInv' /\ CutsUnread
<1>1. events \in Seq(Packets) /\ events # << >> /\ events' = Tail(events)
    BY DEF CoreEvent, RInv, PathInv, NodeInv
<1>2. Head(events) \in Packets /\ events' \in Seq(Packets) /\ Len(events') <= Len(events)
    BY <1>1
<1>3. NodeInv'
    <2>1. EventMax \in Nat /\ Len(events) <= EventMax /\ Len(events') \in Nat /\ Len(events) \in Nat
        BY <1>1, <1>2, PathAssumption DEF RInv, PathInv, NodeInv
    <2>2. Len(events') <= EventMax
        BY <1>2, <2>1
    <2> QED BY <1>2, <2>2 DEF CoreEvent, RInv, PathInv, NodeInv
<1>4. PoolInv'
    <2>1. CASE Info(Head(events)).kind = "part"
        <3>1. PICK part : part = PartIn(Head(events))
            OBVIOUS
        <3>2. completed' = completed \cup CompletedBy(part) /\ PoolAccept(part)
            BY <2>1, <3>1 DEF CoreEvent
        <3>3. /\ Piecewise(part)
              /\ \E n \in Parts : part.of = Carries[n].of /\ part.count = Carries[n].count
            BY <1>2, <2>1, <3>1, PartInIs
        <3>4. \A whole \in CompletedBy(part) : Full(whole) /\ Intact(whole)
            BY DEF CompletedBy, Completes
        <3>5. /\ DOMAIN slots' = Slot
              /\ \A s \in Slot : Holds(slots'[s]) /\ OfParts(slots'[s])
              /\ Apart(slots')
            BY <3>2, <3>3, PoolAcceptKeeps DEF RInv, PathInv
        <3> QED BY <3>2, <3>4, <3>5 DEF RInv, PathInv, PoolInv
    <2>2. CASE Info(Head(events)).kind # "part"
        BY <2>2, Rest DEF CoreEvent, RInv, PathInv
    <2> QED BY <2>1, <2>2
<1> QED BY <1>3, <1>4, Rest, ModemRests DEF CoreEvent, RInv, PathInv

-----------------------------------------------------------------------------

LEMMA RInit == Init => RInv
<1> SUFFICES ASSUME Init PROVE RInv
    OBVIOUS
<1>1. ModemInv
    BY ModemStart DEF Init
<1>2. AirInv
    <2>1. air \in [Neighbour -> Seq(Sendable)]
        BY FramesOfType DEF Init
    <2>2. EspnowQueueMax \in Nat
        BY PathAssumption
    <2> QED BY <2>1, <2>2, CarriesAssumption DEF Init, AirInv
<1>3. NodeInv
    <2>1. {EventMax, RingSize} \subseteq Nat
        BY PathAssumption
    <2>2. DOMAIN sending = Sender /\ \A t \in Sender : Bears(sending[t])
        BY DEF Init, Bears
    <2> QED BY <2>1, <2>2 DEF Init, NodeInv
<1>4. BearerInv
    BY DEF Init, BearerInv, Holds
<1>5. PoolInv
    BY DEF Init, PoolInit, PoolInv, Holds, OfParts, Apart
<1> QED BY <1>1, <1>2, <1>3, <1>4, <1>5 DEF RInv, PathInv

LEMMA RNext == RInv /\ [Next]_vars => RInv' /\ CutsUnread
<1> SUFFICES ASSUME RInv, [Next]_vars PROVE RInv' /\ CutsUnread
    OBVIOUS
<1>1. CASE UNCHANGED vars
    BY <1>1, Rest, ModemRests DEF vars, pathVars, RInv, PathInv
<1>2. CASE Next
    BY <1>2, LoraAirStep, EspnowAirStep, EspnowSendStep, LoraSendStep, PollEspnowStep,
       PollLoraStep, CoreEventStep, CoreSendStep, ModemStep DEF Next
<1> QED BY <1>1, <1>2

LEMMA RInvariance == Spec => []RInv
<1>1. RInv /\ [Next]_vars => RInv'
    BY RNext
<1> QED BY <1>1, RInit, PTL DEF Spec

(* Whatever neighbours send, and whatever of it is lost, spoilt or repeated,  *)
(* no queue or ring outgrows its bound, and all that is in them was cut or    *)
(* packed by somebody.                                                        *)
THEOREM TypeCorrect == Spec => []TypeOK
<1>1. RInv => TypeOK
    <2> SUFFICES ASSUME RInv PROVE TypeOK
        OBVIOUS
    <2>1. ModemTypeOK(Frames)
        <3>1. \A i \in 1 .. Len(loraQueue) : loraQueue[i] = Garbage \/ loraQueue[i] \in Frames
            BY DEF RInv, ModemInv, ChipTypes
        <3>2. faults \in Faults
            BY DEF RInv, ModemInv, ChipTypes
        <3> QED BY <3>1, <3>2 DEF RInv, ModemInv, ChipTypes, ModemTypeOK, Bits
    <2>2. ToSet(espnowQueue) \subseteq Frames /\ ToSet(events) \cup ToSet(ring) \subseteq Packets
        BY DEF RInv, PathInv, AirInv, NodeInv, ToSet
    <2>3. \A t \in Sender : sending[t] = Idle \/ sending[t].packet \in Packets
        BY DEF RInv, PathInv, NodeInv, Bears
    <2> QED BY <2>1, <2>2, <2>3 DEF TypeOK, RInv, PathInv, AirInv, NodeInv
<1> QED BY <1>1, RInvariance, PTL

(* However the frames and parts of several neighbours mix, and whichever of   *)
(* them the air changed, a reassembler holds pieces of one whole, a resource  *)
(* has one slot, and what completes is what was cut.                          *)
THEOREM NeverMixed == Spec => []OneWholeEach
<1>1. RInv => OneWholeEach
    <2> SUFFICES ASSUME RInv PROVE OneWholeEach
        OBVIOUS
    <2>1. /\ \A b \in Bearer : OfOneWhole(partial[b])
          /\ \A s \in Slot : OfOneWhole(slots[s])
        BY DEF RInv, PathInv, BearerInv, PoolInv, Holds, OfOneWhole
    <2> QED BY <2>1 DEF RInv, PathInv, PoolInv, Apart, OneWholeEach
<1> QED BY <1>1, RInvariance, PTL

(* Whichever tasks send, and whenever a frame is heard meanwhile, the radio   *)
(* listens when nobody holds it, unless a command failed.                     *)
THEOREM ListensWhenFree == Spec => []IdleListens
<1>1. RInv => IdleListens
    BY DEF RInv, ModemInv, Listens, IdleListens
<1> QED BY <1>1, RInvariance, PTL

(* A sending that its caller takes for done while the chip still sends was    *)
(* taken for done because of a frame heard before it and not yet read.        *)
THEOREM CutShort == Spec => CutOnlyUnread
<1>1. RInv /\ [Next]_vars =>
        [faults'.commands = 0 /\ chip.mode = "tx" /\ chip'.mode = "rx" =>
             "rx" \in chip.irq]_vars
    BY RNext DEF CutsUnread
<1> QED BY <1>1, RInvariance, PTL DEF Spec, CutOnlyUnread

-----------------------------------------------------------------------------
(* The pool as a cache.  Its clock tells the older of two slots for as long  *)
(* as neither has waited for half a turn.                                    *)

Young == \A s \in InUse : 2 * Since(s) < TickWidth

Clock ==
    /\ tick \in 0 .. TickWidth - 1
    /\ lastUsed \in [Slot -> 0 .. TickWidth - 1]
    /\ \A s, o \in InUse : lastUsed[s] = lastUsed[o] => s = o

(* A slot has a part, and is freed by the last one.                          *)
InProgress(held) ==
    held # Nothing =>
        /\ DOMAIN held.got # {}
        /\ DOMAIN held.got \subseteq 1 .. held.count
        /\ ~Completes(held)

CacheInv == PoolInv /\ Clock /\ \A s \in Slot : InProgress(slots[s])

LEMMA Turns ==
    ASSUME NEW w \in Nat \ {0}, NEW a \in 0 .. w - 1, NEW b \in 0 .. w - 1
    PROVE  /\ (a - b) % w = IF b <= a THEN a - b ELSE a - b + w
           /\ (a + 1) % w = IF a + 1 = w THEN 0 ELSE a + 1
OBVIOUS

LEMMA SinceIs ==
    ASSUME Clock, NEW s \in Slot
    PROVE  /\ Since(s) = IF lastUsed[s] <= tick THEN tick - lastUsed[s]
                         ELSE tick - lastUsed[s] + TickWidth
           /\ Since(s) \in 0 .. TickWidth - 1
<1>1. tick \in 0 .. TickWidth - 1 /\ lastUsed[s] \in 0 .. TickWidth - 1
    BY DEF Clock
<1>2. TickWidth \in Nat \ {0}
    BY PoolAssumption
<1>3. Since(s) = IF lastUsed[s] <= tick THEN tick - lastUsed[s]
                 ELSE tick - lastUsed[s] + TickWidth
    BY <1>1, <1>2, Turns DEF Since
<1> QED BY <1>1, <1>2, <1>3

LEMMA SinceApart ==
    ASSUME Clock, NEW s \in InUse, NEW o \in InUse, Since(s) = Since(o)
    PROVE  s = o
<1>1. s \in Slot /\ o \in Slot
    BY DEF InUse
<1>2. /\ tick \in 0 .. TickWidth - 1 /\ TickWidth \in Nat
      /\ lastUsed[s] \in 0 .. TickWidth - 1 /\ lastUsed[o] \in 0 .. TickWidth - 1
    BY <1>1, PoolAssumption DEF Clock
<1>3. lastUsed[s] = lastUsed[o]
    BY <1>1, <1>2, SinceIs
<1> QED BY <1>3 DEF Clock

(* A part comes to another slot: what waits has waited for one part more.    *)
LEMMA SinceNext ==
    ASSUME Clock, NEW s \in InUse, 2 * Since(s) < TickWidth,
           tick' = (tick + 1) % TickWidth, lastUsed'[s] = lastUsed[s]
    PROVE  Since(s)' = Since(s) + 1 /\ lastUsed[s] # tick'
<1>1. s \in Slot
    BY DEF InUse
<1>2. /\ tick \in 0 .. TickWidth - 1 /\ TickWidth \in Nat \ {0} /\ TickWidth % 2 = 0
      /\ lastUsed[s] \in 0 .. TickWidth - 1
    BY <1>1, PoolAssumption DEF Clock
<1>3. tick' = IF tick + 1 = TickWidth THEN 0 ELSE tick + 1
    BY <1>2, Turns
<1>4. tick' \in 0 .. TickWidth - 1
    BY <1>2, <1>3
<1>5. (tick' - lastUsed[s]) % TickWidth
        = IF lastUsed[s] <= tick' THEN tick' - lastUsed[s] ELSE tick' - lastUsed[s] + TickWidth
    BY <1>2, <1>4, Turns
<1>6. Since(s) = IF lastUsed[s] <= tick THEN tick - lastUsed[s]
                 ELSE tick - lastUsed[s] + TickWidth
    BY <1>1, SinceIs
<1>7. TickWidth >= 2
    BY <1>2
<1>8. (tick' - lastUsed[s]) % TickWidth = Since(s) + 1 /\ lastUsed[s] # tick'
    BY <1>2, <1>3, <1>5, <1>6, <1>7
<1> QED BY <1>8 DEF Since

LEMMA FirstIn ==
    ASSUME NEW S \in SUBSET Slot, S # {}
    PROVE  First(S) \in S
<1>1. S \in SUBSET Nat
    BY PoolAssumption DEF Slot
<1>2. \E s \in S : \A o \in S : s <= o
    BY <1>1, Least
<1> QED BY <1>2 DEF First

(* With every slot in use, the one chosen has waited longest.                *)
LEMMA OldestIs ==
    ASSUME Clock, Young, InUse = Slot
    PROVE  /\ First(Oldest) \in Slot
           /\ \A s \in Slot \ {First(Oldest)} : Since(s) < Since(First(Oldest))
<1>1. \A s \in Slot : Age(s) = Since(s) /\ Since(s) \in 0 .. TickWidth - 1
    BY SinceIs DEF Young, Age, Since
<1>2. Oldest # {}
    <2> DEFINE T == {TickWidth - Since(s) : s \in Slot}
    <2>1. TickWidth \in Nat /\ 1 \in Slot
        BY PoolAssumption DEF Slot
    <2>2. T \in SUBSET Nat /\ T # {}
        BY <1>1, <2>1
    <2>3. PICK m \in T : \A k \in T : m <= k
        BY <2>2, Least
    <2>4. PICK s \in Slot : m = TickWidth - Since(s)
        BY <2>3
    <2>5. \A o \in Slot : TickWidth - Since(s) <= TickWidth - Since(o)
        BY <2>3, <2>4
    <2>6. \A o \in Slot : Since(o) <= Since(s)
        BY <1>1, <2>1, <2>5
    <2> QED BY <1>1, <2>6 DEF Oldest
<1>3. First(Oldest) \in Oldest
    BY <1>2, FirstIn DEF Oldest
<1>4. PICK c : c = First(Oldest)
    OBVIOUS
<1>5. c \in Slot /\ \A s \in Slot : Since(s) <= Since(c)
    BY <1>1, <1>3, <1>4 DEF Oldest
<1>6. \A s \in Slot \ {c} : Since(s) # Since(c)
    BY <1>5, SinceApart
<1>7. \A s \in Slot \ {c} : Since(s) < Since(c)
    BY <1>1, <1>5, <1>6
<1> QED BY <1>4, <1>5, <1>7

-----------------------------------------------------------------------------
(* Which resources are in progress.                                          *)

IsPart(part) ==
    /\ part.of \in Resources
    /\ part.count = CountOf[part.of] /\ part.count \in Nat
    /\ part.at \in 1 .. part.count
    /\ Piecewise(part)

LEMMA CountIs ==
    ASSUME NEW n \in Parts
    PROVE  Carries[n].of \in Resources /\ CountOf[Carries[n].of] = Carries[n].count
<1>1. PICK r : r = Carries[n].of
    OBVIOUS
<1>2. r \in Resources
    BY <1>1 DEF Resources
<1>3. PICK m : m = CHOOSE k \in Parts : Carries[k].of = r
    OBVIOUS
<1>4. m \in Parts /\ Carries[m].of = r
    BY <1>1, <1>3
<1>5. Carries[m].count = Carries[n].count
    BY <1>1, <1>4, CarriesAssumption DEF Parts
<1>6. CountOf[r] = Carries[m].count
    BY <1>2, <1>3 DEF CountOf
<1> QED BY <1>1, <1>2, <1>5, <1>6

LEMMA PartInIsPart ==
    ASSUME NEW p \in Packets, Info(p).kind = "part"
    PROVE  IsPart(PartIn(p))
<1>1. p.name \in Parts /\ Info(p) = Carries[p.name]
    BY DEF Packets, Parts, Info
<1>2. PICK o, i, n : o = Info(p).of /\ i = Info(p).at /\ n = Info(p).count
    OBVIOUS
<1> DEFINE part == [of |-> o, at |-> i, count |-> n, load |-> o]
<1>3. PartIn(p) \in {part, [part EXCEPT !.load = Noise]}
    BY <1>2 DEF PartIn, Piece, Changed
<1>4. PartIn(p).of = o /\ PartIn(p).at = i /\ PartIn(p).count = n /\ PartIn(p).load \in {o, Noise}
    BY <1>3
<1>5. n \in Nat /\ i \in 1 .. n
    BY <1>1, <1>2, CarriesAssumption DEF Parts
<1>6. o \in Resources /\ n = CountOf[o]
    BY <1>1, <1>2, CountIs
<1> QED BY <1>4, <1>5, <1>6 DEF IsPart, Piecewise

(* The same of slots as they are and as they will be.                        *)
Using(f) == {s \in Slot : f[s] # Nothing}

Came(f) == [r \in Resources |-> UNION {DOMAIN f[s].got : s \in {o \in Using(f) : f[o].of = r}}]

Ranked(f, age) ==
    UNION {{<<f[s].of, f[o].of>> : o \in {u \in Using(f) : age[s] < age[u]}} : s \in Using(f)}

LEMMA RankedIs ==
    ASSUME NEW f, NEW age, NEW pair
    PROVE  pair \in Ranked(f, age) <=>
             \E s, o \in Using(f) : pair = <<f[s].of, f[o].of>> /\ age[s] < age[o]
BY DEF Ranked

LEMMA TheseAre ==
    /\ InUse = Using(slots) /\ PartsCome = Came(slots)
    /\ HeardLater = Ranked(slots, [s \in Slot |-> Since(s)])
<1>1. InUse = Using(slots)
    BY DEF InUse, Using
<1>2. PartsCome = Came(slots)
    BY <1>1 DEF PartsCome, Came
<1> DEFINE age == [s \in Slot |-> Since(s)]
<1>3. \A s \in InUse : age[s] = Since(s)
    BY DEF InUse
<1> HIDE DEF age
<1>4. HeardLater = Ranked(slots, age)
    BY <1>1, <1>3 DEF HeardLater, Ranked
<1> QED BY <1>1, <1>2, <1>4 DEF age

LEMMA CameIs ==
    ASSUME NEW f, Apart(f), NEW r \in Resources
    PROVE  /\ \A s \in Using(f) : f[s].of = r => Came(f)[r] = DOMAIN f[s].got
           /\ (\A s \in Using(f) : f[s].of # r) => Came(f)[r] = {}
<1>1. Came(f)[r] = UNION {DOMAIN f[s].got : s \in {o \in Using(f) : f[o].of = r}}
    BY DEF Came
<1>2. ASSUME NEW s \in Using(f), f[s].of = r
      PROVE  Came(f)[r] = DOMAIN f[s].got
    <2>1. {o \in Using(f) : f[o].of = r} = {s}
        BY <1>2 DEF Apart, Using
    <2> QED BY <1>1, <2>1
<1>3. ASSUME \A s \in Using(f) : f[s].of # r
      PROVE  Came(f)[r] = {}
    BY <1>1, <1>3
<1> QED BY <1>2, <1>3

LEMMA InUseIs ==
    ASSUME PoolInv, NEW s \in InUse
    PROVE  /\ s \in Slot /\ slots[s] # Nothing
           /\ slots[s].of \in Resources /\ slots[s].count = CountOf[slots[s].of]
           /\ \A o \in InUse : slots[o].of = slots[s].of => o = s
<1>1. s \in Slot /\ slots[s] # Nothing
    BY DEF InUse
<1>2. PICK n \in Parts : slots[s].of = Carries[n].of /\ slots[s].count = Carries[n].count
    BY <1>1 DEF PoolInv, OfParts
<1> QED BY <1>1, <1>2, CountIs DEF PoolInv, Apart, InUse

LEMMA PartsComeIs ==
    ASSUME PoolInv, NEW r \in Resources
    PROVE  /\ \A s \in InUse : slots[s].of = r => PartsCome[r] = DOMAIN slots[s].got
           /\ (\A s \in InUse : slots[s].of # r) => PartsCome[r] = {}
BY TheseAre, CameIs DEF PoolInv

LEMMA OthersAre ==
    ASSUME CacheInv, NEW r \in Resources
    PROVE  Lru!Others(r) = {slots[s].of : s \in {o \in InUse : slots[o].of # r}}
<1>1. PoolInv
    BY DEF CacheInv
<1>2. ASSUME NEW o \in Lru!Others(r)
      PROVE  \E s \in InUse : slots[s].of # r /\ slots[s].of = o
    BY <1>1, <1>2, PartsComeIs DEF Lru!Others
<1>3. ASSUME NEW s \in InUse, slots[s].of # r
      PROVE  slots[s].of \in Lru!Others(r)
    <2>1. s \in Slot /\ slots[s] # Nothing /\ slots[s].of \in Resources
        BY <1>1, InUseIs
    <2>2. PartsCome[slots[s].of] = DOMAIN slots[s].got
        BY <1>1, <2>1, PartsComeIs
    <2>3. DOMAIN slots[s].got # {}
        BY <2>1 DEF CacheInv, InProgress
    <2> QED BY <1>3, <2>1, <2>2, <2>3 DEF Lru!Others
<1> QED BY <1>2, <1>3

LEMMA SameCardinality == \A S : Lru!Cardinality(S) = Cardinality(S)
BY Zenon DEF Lru!Cardinality, Cardinality

(* As many resources as slots.                                               *)
LEMMA OthersCount ==
    ASSUME PoolInv, NEW U \in SUBSET InUse
    PROVE  Cardinality({slots[s].of : s \in U}) < PoolSize <=> U # Slot
<1> DEFINE T == {slots[s].of : s \in U}
           f == [s \in U |-> slots[s].of]
<1>1. U \subseteq Slot
    BY DEF InUse
<1>2. IsFiniteSet(Slot) /\ Cardinality(Slot) = PoolSize /\ PoolSize \in Nat
    <2>1. 1 \in Int /\ PoolSize \in Int /\ PoolSize > 0
        BY PoolAssumption
    <2>2. IsFiniteSet(1 .. PoolSize)
          /\ Cardinality(1 .. PoolSize) = IF 1 > PoolSize THEN 0 ELSE PoolSize - 1 + 1
        BY <2>1, FS_Interval
    <2> QED BY <2>1, <2>2 DEF Slot
<1>3. /\ IsFiniteSet(U) /\ Cardinality(U) <= PoolSize
      /\ Cardinality(U) = PoolSize => U = Slot
    BY <1>1, <1>2, FS_Subset
<1>4. f \in Bijection(U, T)
    <2>1. \A s, o \in U : slots[s].of = slots[o].of => s = o
        BY InUseIs
    <2>2. f \in [U -> T] /\ (\A t \in T : \E s \in U : f[s] = t)
        OBVIOUS
    <2>3. \A s, o \in U : f[s] = f[o] => s = o
        BY <2>1
    <2> HIDE DEF f, T
    <2> QED BY <2>2, <2>3 DEF Bijection, Injection, Surjection, IsInjective
<1>5. Cardinality(T) = Cardinality(U)
    BY <1>3, <1>4, FS_Bijection DEF ExistsBijection
<1>6. Cardinality(U) \in Nat
    BY <1>3, FS_CardinalityType
<1>7. Cardinality(U) < PoolSize <=> U # Slot
    BY <1>2, <1>3, <1>6
<1> QED BY <1>5, <1>7

LEMMA ChosenIs ==
    ASSUME CacheInv, Young, NEW part, IsPart(part), NEW c, c = Chosen(part)
    PROVE  /\ c \in Slot
           /\ \A s \in InUse \ {c} : slots[s].of # part.of
           /\ c \in InUse =>
                \/ slots[c].of = part.of /\ Same(slots[c], part)
                \/ /\ InUse = Slot /\ slots[c].of # part.of /\ ~Same(slots[c], part)
                   /\ \A s \in Slot \ {c} : Since(s) < Since(c)
<1>0. PoolInv /\ Clock
    BY DEF CacheInv
<1>1. ASSUME NEW s \in InUse, slots[s].of = part.of
      PROVE  s \in Matching(part)
    BY <1>0, <1>1, InUseIs DEF IsPart, Matching, Same
<1>2. CASE Matching(part) # {}
    <2>1. c \in Matching(part)
        BY <1>2, ChosenMatches
    <2>2. c \in InUse /\ slots[c].of = part.of /\ Same(slots[c], part)
        BY <2>1 DEF Matching, Same, InUse
    <2>3. \A s \in InUse : slots[s].of = part.of => s = c
        BY <1>0, <2>2, InUseIs
    <2> QED BY <2>2, <2>3 DEF InUse
<1>3. CASE Matching(part) = {} /\ Free # {}
    <2>1. c = First(Free)
        BY <1>3 DEF Chosen
    <2>2. c \in Free
        BY <1>3, <2>1, FirstIn DEF Free
    <2> QED BY <1>1, <1>3, <2>2 DEF Free, InUse
<1>4. CASE Matching(part) = {} /\ Free = {}
    <2>1. c = First(Oldest)
        BY <1>4 DEF Chosen
    <2>2. InUse = Slot
        BY <1>4 DEF Free, InUse
    <2>3. c \in Slot /\ \A s \in Slot \ {c} : Since(s) < Since(c)
        BY <1>0, <2>1, <2>2, OldestIs
    <2>4. \A s \in InUse : slots[s].of # part.of
        BY <1>1, <1>4
    <2> QED BY <2>2, <2>3, <2>4 DEF Same
<1> QED BY <1>2, <1>3, <1>4

LEMMA LaterIs ==
    ASSUME PoolInv, NEW s \in InUse, NEW o \in InUse
    PROVE  <<slots[s].of, slots[o].of>> \in HeardLater <=> Since(s) < Since(o)
<1>1. ASSUME NEW t \in InUse, NEW u \in InUse,
             <<slots[s].of, slots[o].of>> = <<slots[t].of, slots[u].of>>
      PROVE  s = t /\ o = u
    BY <1>1, InUseIs
<1> QED BY <1>1 DEF HeardLater

(* Those that stay are those of the other slots.                             *)
LEMMA StaysIs ==
    ASSUME CacheInv, Young, NEW part, IsPart(part), NEW c, c = Chosen(part)
    PROVE  Lru!Kept(Lru!Others(part.of)) = {slots[s].of : s \in InUse \ {c}}
<1> DEFINE V == {o \in InUse : slots[o].of # part.of}
           T == {slots[s].of : s \in V}
<1>0. PoolInv /\ part.of \in Resources
    BY DEF CacheInv, IsPart
<1>1. Lru!Others(part.of) = T
    BY <1>0, OthersAre
<1>2. Cardinality(T) < PoolSize <=> V # Slot
    <2>1. V \in SUBSET InUse
        OBVIOUS
    <2> QED BY <1>0, <2>1, OthersCount
<1>3. CASE V # Slot
    <2>1. Lru!Kept(T) = T
        BY <1>2, <1>3, SameCardinality DEF Lru!Kept
    <2>2. V = InUse \ {c}
        BY <1>3, ChosenIs DEF InUse
    <2> QED BY <1>1, <2>1, <2>2
<1>4. CASE V = Slot
    <2>1. /\ c \in InUse /\ InUse = Slot
          /\ \A s \in Slot \ {c} : Since(s) < Since(c)
        BY <1>4, ChosenIs DEF InUse
    <2>2. T = {slots[s].of : s \in InUse}
        BY <1>4, <2>1
    <2>3. slots[c].of \in Lru!HeardFirst(T)
        <3>1. \A s \in InUse \ {c} : <<slots[s].of, slots[c].of>> \in HeardLater
            BY <1>0, <2>1, LaterIs
        <3> QED BY <2>1, <2>2, <3>1 DEF Lru!HeardFirst
    <2>4. ASSUME NEW s \in InUse \ {c}
          PROVE  slots[s].of \notin Lru!HeardFirst(T)
        <3>1. Since(c) \in Nat /\ Since(s) \in Nat /\ Since(s) < Since(c)
            BY <2>1, SinceIs DEF CacheInv
        <3>2. <<slots[c].of, slots[s].of>> \notin HeardLater
            BY <1>0, <2>1, <3>1, LaterIs
        <3>3. slots[c].of \in T /\ slots[c].of # slots[s].of
            BY <1>0, <2>1, <2>2, InUseIs
        <3> QED BY <3>2, <3>3 DEF Lru!HeardFirst
    <2>5. Lru!Kept(T) = T \ Lru!HeardFirst(T)
        BY <1>2, <1>4, SameCardinality DEF Lru!Kept
    <2>6. \A s \in InUse \ {c} : slots[s].of # slots[c].of
        BY <1>0, <2>1, InUseIs
    <2>7. Lru!HeardFirst(T) \subseteq T
        BY DEF Lru!HeardFirst
    <2>8. Lru!HeardFirst(T) = {slots[c].of}
        <3>1. ASSUME NEW x \in Lru!HeardFirst(T)
              PROVE  x = slots[c].of
            <4>1. PICK s \in InUse : x = slots[s].of
                BY <2>2, <2>7
            <4> QED BY <2>4, <4>1
        <3> QED BY <2>3, <3>1
    <2>9. T \ {slots[c].of} = {slots[s].of : s \in InUse \ {c}}
        BY <2>2, <2>6
    <2> QED BY <1>1, <2>5, <2>8, <2>9
<1> QED BY <1>3, <1>4

-----------------------------------------------------------------------------
(* A part comes.                                                             *)

LEMMA PutIs ==
    ASSUME NEW held, Holds(held), NEW part, IsPart(part),
           NEW old, old = IF Same(held, part) THEN DOMAIN held.got ELSE {},
           old \subseteq 1 .. part.count
    PROVE  /\ Put(held, part).of = part.of /\ Put(held, part).count = part.count
           /\ DOMAIN Put(held, part).got = old \cup {part.at}
           /\ Put(held, part) # Nothing
<1> DEFINE r == Resumed(held, part)
<1>1. /\ r = [of |-> part.of, count |-> part.count, got |-> r.got]
      /\ DOMAIN r.got = old
      /\ \A i \in DOMAIN r.got : r.got[i] \in {part.of, Noise}
    <2>1. CASE Same(held, part)
        BY <2>1 DEF Resumed, Same, Holds
    <2>2. CASE ~Same(held, part)
        BY <2>2 DEF Resumed, Start
    <2> QED BY <2>1, <2>2
<1> DEFINE got == [i \in DOMAIN r.got \cup {part.at} |->
                     IF i \in DOMAIN r.got THEN r.got[i] ELSE part.load]
<1>2. Put(held, part) = [r EXCEPT !.got = got]
    BY DEF Put
<1>3. got \in [old \cup {part.at} -> {part.of, Noise}]
    BY <1>1 DEF IsPart, Piecewise
<1>4. DOMAIN got = old \cup {part.at}
    BY <1>3
<1> HIDE DEF r, got
<1>5. PICK g : g = r.got
    OBVIOUS
<1>6. r = [of |-> part.of, count |-> part.count, got |-> g]
    BY <1>1, <1>5
<1>7. Put(held, part) = [of |-> part.of, count |-> part.count, got |-> got]
    BY <1>2, <1>6
<1>8. PICK n \in Parts : Carries[n].of = part.of
    BY DEF IsPart, Resources
<1>9. Carries[n].count = part.count
    BY <1>8, CountIs DEF IsPart
<1>10. old \cup {part.at} \in SUBSET (1 .. part.count)
    BY DEF IsPart
<1>11. Put(held, part) \in SomeOf(n)
    BY <1>3, <1>7, <1>8, <1>9, <1>10 DEF SomeOf
<1>12. Put(held, part) # Nothing
    BY <1>11, NothingAssumption
<1> QED BY <1>4, <1>7, <1>12

LEMMA FullIs ==
    ASSUME NEW held, held.count \in Nat, DOMAIN held.got \subseteq 1 .. held.count
    PROVE  Full(held) => DOMAIN held.got = 1 .. held.count
<1> DEFINE D == 1 .. held.count
<1>1. IsFiniteSet(D) /\ Cardinality(D) = held.count
    <2>1. 1 \in Int /\ held.count \in Int
        OBVIOUS
    <2>2. IsFiniteSet(D) /\ Cardinality(D) = IF 1 > held.count THEN 0 ELSE held.count - 1 + 1
        BY <2>1, FS_Interval
    <2> QED BY <2>2
<1>2. DOMAIN held.got \in SUBSET D /\ (Cardinality(D) = Cardinality(DOMAIN held.got) => D = DOMAIN held.got)
    BY <1>1, FS_Subset
<1> QED BY <1>1, <1>2 DEF Full

(* What the step does to the slots.                                          *)
Comes(part, c) ==
    /\ DOMAIN slots' = Slot
    /\ \A s \in Slot \ {c} : slots'[s] = slots[s] /\ lastUsed'[s] = lastUsed[s]
    /\ lastUsed'[c] = tick' /\ tick' = (tick + 1) % TickWidth
    /\ tick' \in 0 .. TickWidth - 1 /\ lastUsed' \in [Slot -> 0 .. TickWidth - 1]
    /\ \/ /\ slots'[c] = Nothing
          /\ {whole.of : whole \in CompletedBy(part)} = {part.of}
          /\ PartsCome[part.of] \cup {part.at} = 1 .. part.count
       \/ /\ slots'[c] # Nothing
          /\ slots'[c].of = part.of
          /\ DOMAIN slots'[c].got = PartsCome[part.of] \cup {part.at}
          /\ CompletedBy(part) = {}
    /\ InProgress(slots'[c])

LEMMA AcceptComes ==
    ASSUME CacheInv, Young, NEW part, IsPart(part), PoolAccept(part), NEW c, c = Chosen(part)
    PROVE  Comes(part, c)
<1> DEFINE held == slots[c]
           put == Put(held, part)
           kept == IF Refuses(held, part) THEN held ELSE put
           old == IF Same(held, part) THEN DOMAIN held.got ELSE {}
<1>0. PoolInv /\ part.of \in Resources /\ part.count \in Nat /\ part.at \in 1 .. part.count
    BY DEF CacheInv, IsPart
<1>1. c \in Slot /\ Holds(held) /\ InProgress(held)
    BY <1>0, ChosenIs DEF CacheInv, PoolInv
<1>2. /\ slots' = [slots EXCEPT ![c] = IF Completes(kept) THEN Nothing ELSE kept]
      /\ tick' = (tick + 1) % TickWidth
      /\ lastUsed' = [lastUsed EXCEPT ![c] = tick']
    BY DEF PoolAccept
<1>3. old = PartsCome[part.of] /\ old \subseteq 1 .. part.count
    <2>1. CASE Same(held, part)
        <3>1. c \in InUse /\ held.of = part.of /\ held.count = part.count
            BY <1>1, <2>1 DEF Same, InUse
        <3> QED BY <1>0, <1>1, <2>1, <3>1, PartsComeIs DEF InProgress, InUse
    <2>2. CASE ~Same(held, part)
        <3>1. \A s \in InUse : slots[s].of # part.of
            BY <2>2, ChosenIs
        <3> QED BY <1>0, <2>2, <3>1, PartsComeIs
    <2> QED BY <2>1, <2>2
<1>4. /\ put.of = part.of /\ put.count = part.count /\ put # Nothing
      /\ DOMAIN put.got = old \cup {part.at}
    <2> HIDE DEF old
    <2>1. old = IF Same(held, part) THEN DOMAIN held.got ELSE {}
        BY DEF old
    <2>2. Holds(held) /\ old \subseteq 1 .. part.count
        BY <1>1, <1>3
    <2> HIDE DEF held, kept
    <2>3. PICK h, o : h = held /\ o = old
        OBVIOUS
    <2>4. /\ Put(h, part).of = part.of /\ Put(h, part).count = part.count
          /\ DOMAIN Put(h, part).got = o \cup {part.at}
          /\ Put(h, part) # Nothing
        <3>1. o = IF Same(h, part) THEN DOMAIN h.got ELSE {}
            BY <2>1, <2>3
        <3>2. Holds(h) /\ o \subseteq 1 .. part.count
            BY <2>2, <2>3
        <3> QED BY <3>1, <3>2, PutIs
    <2> QED BY <2>3, <2>4
<1>5. /\ DOMAIN slots' = Slot /\ slots'[c] = IF Completes(kept) THEN Nothing ELSE kept
      /\ lastUsed'[c] = tick'
      /\ \A s \in Slot \ {c} : slots'[s] = slots[s] /\ lastUsed'[s] = lastUsed[s]
      /\ tick' \in 0 .. TickWidth - 1 /\ lastUsed' \in [Slot -> 0 .. TickWidth - 1]
    <2>1. tick' \in 0 .. TickWidth - 1
        <3>1. tick \in 0 .. TickWidth - 1 /\ TickWidth \in Nat \ {0}
            BY PoolAssumption DEF CacheInv, Clock
        <3>2. tick' = IF tick + 1 = TickWidth THEN 0 ELSE tick + 1
            BY <1>2, <3>1, Turns
        <3> QED BY <3>1, <3>2
    <2> QED BY <1>1, <1>2, <2>1 DEF CacheInv, PoolInv, Clock
<1> DEFINE Ends == /\ slots'[c] = Nothing
                   /\ {whole.of : whole \in CompletedBy(part)} = {part.of}
                   /\ PartsCome[part.of] \cup {part.at} = 1 .. part.count
           Stays == /\ slots'[c] # Nothing
                    /\ slots'[c].of = part.of
                    /\ DOMAIN slots'[c].got = PartsCome[part.of] \cup {part.at}
                    /\ CompletedBy(part) = {}
<1>6. CASE Refuses(held, part)
    <2>1. /\ kept = held /\ held # Nothing /\ held.of = part.of
          /\ part.at \in DOMAIN held.got /\ Same(held, part)
        BY <1>6 DEF Refuses, Same
    <2>2. ~Completes(held)
        BY <1>1, <2>1 DEF InProgress
    <2>3. slots'[c] = held
        BY <1>5, <2>1, <2>2
    <2>4. CompletedBy(part) = {}
        BY <1>6 DEF CompletedBy
    <2>5. DOMAIN held.got = PartsCome[part.of] \cup {part.at}
        BY <1>3, <2>1
    <2>6. Stays /\ InProgress(slots'[c])
        BY <1>1, <2>1, <2>3, <2>4, <2>5
    <2> HIDE DEF Stays, kept, held
    <2> QED BY <1>2, <1>5, <2>6 DEF Comes, Stays
<1>7. CASE ~Refuses(held, part)
    <2>1. kept = put
        BY <1>7
    <2>2. CompletedBy(part) = IF Completes(put) THEN {put} ELSE {}
        BY <1>7 DEF CompletedBy
    <2>3. DOMAIN put.got \subseteq 1 .. put.count /\ put.count \in Nat /\ DOMAIN put.got # {}
        BY <1>0, <1>3, <1>4
    <2>4. CASE Completes(put)
        <3>1. DOMAIN put.got = 1 .. put.count
            BY <2>3, <2>4, FullIs DEF Completes
        <3>2. Ends /\ InProgress(slots'[c])
            <4>1. slots'[c] = Nothing
                BY <1>5, <2>1, <2>4
            <4>2. {whole.of : whole \in CompletedBy(part)} = {put.of}
                BY <2>2, <2>4
            <4> QED BY <1>3, <1>4, <3>1, <4>1, <4>2 DEF InProgress
        <3> HIDE DEF Ends, kept, held
        <3> QED BY <1>2, <1>5, <3>2 DEF Comes, Ends
    <2>5. CASE ~Completes(put)
        <3>1. slots'[c] = put /\ CompletedBy(part) = {}
            BY <1>5, <2>1, <2>2, <2>5
        <3>2. Stays /\ InProgress(slots'[c])
            BY <1>3, <1>4, <2>3, <2>5, <3>1 DEF InProgress
        <3> HIDE DEF Stays, kept, held
        <3> QED BY <1>2, <1>5, <3>2 DEF Comes, Stays
    <2> QED BY <2>4, <2>5
<1> QED BY <1>6, <1>7

LEMMA ComesKeeps ==
    ASSUME CacheInv, Young, PoolInv', NEW part, NEW c \in Slot, Comes(part, c)
    PROVE  CacheInv'
<1>1. /\ tick' \in 0 .. TickWidth - 1 /\ lastUsed' \in [Slot -> 0 .. TickWidth - 1]
      /\ lastUsed'[c] = tick' /\ tick' = (tick + 1) % TickWidth
      /\ \A s \in Slot \ {c} : slots'[s] = slots[s] /\ lastUsed'[s] = lastUsed[s]
      /\ InProgress(slots'[c])
    BY DEF Comes
<1>2. Clock
    BY DEF CacheInv
<1>3. \A s \in InUse' \ {c} : s \in InUse /\ s \in Slot \ {c}
    BY <1>1 DEF InUse
<1>4. ASSUME NEW s \in InUse' \ {c}
      PROVE  lastUsed'[s] # tick' /\ lastUsed'[s] = lastUsed[s]
    <2>1. s \in InUse /\ 2 * Since(s) < TickWidth /\ lastUsed'[s] = lastUsed[s]
        BY <1>1, <1>3 DEF Young
    <2> QED BY <1>1, <1>2, <2>1, SinceNext
<1>5. ASSUME NEW s \in InUse', NEW o \in InUse', lastUsed'[s] = lastUsed'[o]
      PROVE  s = o
    BY <1>1, <1>2, <1>3, <1>4, <1>5 DEF Clock
<1>6. Clock'
    BY <1>1, <1>5 DEF Clock
<1>7. \A s \in Slot : InProgress(slots[s])
    BY DEF CacheInv
<1>8. \A s \in Slot : InProgress(slots'[s])
    BY <1>1, <1>7
<1>9. \A s \in Slot : InProgress(slots[s])'
    BY <1>8 DEF InProgress, Completes, Full, Intact
<1> QED BY <1>6, <1>9 DEF CacheInv

(* A part is heard or delivered, as the cache would.                         *)
LEMMA ComesRefines ==
    ASSUME CacheInv, Young, PoolInv', NEW part, IsPart(part), NEW c, c = Chosen(part),
           Comes(part, c), completed' = completed \cup CompletedBy(part)
    PROVE  Lru!Hear(part.of, part.at) \/ Lru!Deliver(part.of, part.at)
<1> DEFINE K == InUse \ {c}
           kept == Lru!Kept(Lru!Others(part.of))
           done == {whole.of : whole \in completed}
           age == [s \in Slot |-> Since(s)']
<1>0. /\ PoolInv /\ Clock /\ Apart(slots') /\ c \in Slot
      /\ part.of \in Resources /\ part.count = CountOf[part.of]
    BY ChosenIs DEF CacheInv, PoolInv, IsPart
<1>1. kept = {slots[s].of : s \in K}
    BY StaysIs
<1>2. \A s \in K : /\ s \in Slot \ {c} /\ s \in InUse /\ slots[s] # Nothing
                    /\ slots'[s] = slots[s] /\ slots[s].of \in Resources
                    /\ slots[s].of # part.of
    BY <1>0, InUseIs, ChosenIs DEF Comes
<1>3. \A s \in Using(slots') : s = c \/ s \in K
    BY DEF Comes, Using, InUse
<1>4. K \subseteq Using(slots')
    BY <1>2 DEF Using
<1>5. PartsCome' = Came(slots')
    BY DEF PartsCome, InUse, Came, Using
<1>6. HeardLater' = Ranked(slots', age)
    <2>1. \A s \in Using(slots') : age[s] = Since(s)'
        BY DEF Using
    <2>2. InUse' = Using(slots')
        BY DEF InUse, Using
    <2> HIDE DEF age
    <2> QED BY <2>1, <2>2 DEF HeardLater, Ranked
<1>7. /\ age[c] = 0
      /\ \A s \in K : Since(s) \in Nat /\ age[s] = Since(s) + 1
    <2>1. age[c] = 0
        <3>1. age[c] = (tick' - tick') % TickWidth
            BY <1>0 DEF Since, Comes
        <3>2. TickWidth \in Nat \ {0} /\ tick' \in 0 .. TickWidth - 1
            BY PoolAssumption DEF Comes
        <3>3. \A t \in 0 .. TickWidth - 1 : (t - t) % TickWidth = 0
            BY <3>2, Turns
        <3> QED BY <3>1, <3>2, <3>3
    <2>2. ASSUME NEW s \in K
          PROVE  Since(s) \in Nat /\ Since(s)' = Since(s) + 1
        <3>1. s \in Slot /\ s \in InUse /\ lastUsed'[s] = lastUsed[s] /\ tick' = (tick + 1) % TickWidth
            BY <1>2 DEF Comes
        <3>2. 2 * Since(s) < TickWidth
            BY <3>1 DEF Young
        <3> QED BY <1>0, <3>1, <3>2, SinceNext, SinceIs
    <2> QED BY <1>2, <2>1, <2>2
<1>8. ASSUME NEW o \in Resources \ {part.of}
      PROVE  PartsCome'[o] = IF o \in kept THEN PartsCome[o] ELSE {}
    <2>1. CASE o \in kept
        <3>1. PICK s \in K : o = slots[s].of
            BY <1>1, <2>1
        <3>2. PartsCome[o] = DOMAIN slots[s].got
            BY <1>0, <1>2, <3>1, PartsComeIs
        <3>3. Came(slots')[o] = DOMAIN slots'[s].got
            BY <1>0, <1>2, <1>4, <3>1, CameIs
        <3> QED BY <1>2, <1>5, <2>1, <3>2, <3>3
    <2>2. CASE o \notin kept
        <3>1. \A s \in Using(slots') : slots'[s].of # o
            BY <1>1, <1>2, <1>3, <2>2 DEF Comes, Using
        <3>2. Came(slots')[o] = {}
            BY <1>0, <3>1, CameIs
        <3> QED BY <1>5, <2>2, <3>2
    <2> QED BY <2>1, <2>2
<1>9. ASSUME NEW s \in K, NEW o \in K
      PROVE  /\ <<slots[s].of, slots[o].of>> \in HeardLater <=> age[s] < age[o]
    BY <1>0, <1>2, <1>7, LaterIs
<1> HIDE DEF kept, K, age
<1>10. CASE slots'[c] = Nothing
    <2>1. /\ {whole.of : whole \in CompletedBy(part)} = {part.of}
          /\ PartsCome[part.of] \cup {part.at} = 1 .. CountOf[part.of]
        BY <1>0, <1>10 DEF Comes
    <2>2. Using(slots') = K
        BY <1>3, <1>4, <1>10 DEF Using
    <2>3. PartsCome'[part.of] = {}
        <3>1. \A s \in Using(slots') : slots'[s].of # part.of
            BY <1>2, <2>2
        <3> QED BY <1>0, <1>5, <3>1, CameIs
    <2>4. PartsCome' = [o \in Resources |-> IF o = part.of THEN {}
                                            ELSE IF o \in kept THEN PartsCome[o] ELSE {}]
        BY <1>5, <1>8, <2>3 DEF Came
    <2>5. HeardLater' = HeardLater \cap (kept \X kept)
        <3>1. ASSUME NEW pair \in HeardLater'
              PROVE  pair \in HeardLater \cap (kept \X kept)
            BY <1>1, <1>2, <1>6, <1>9, <2>2, RankedIs
        <3>2. ASSUME NEW pair \in HeardLater \cap (kept \X kept)
              PROVE  pair \in HeardLater'
            <4>1. PICK s \in K, o \in K : pair = <<slots[s].of, slots[o].of>>
                BY <1>1
            <4>2. age[s] < age[o]
                BY <1>9, <4>1
            <4> QED BY <1>2, <1>6, <2>2, <4>1, <4>2, RankedIs
        <3> QED BY <3>1, <3>2
    <2>6. done' = done \cup {part.of}
        BY <2>1
    <2>7. Lru!Deliver(part.of, part.at)
        BY <2>1, <2>4, <2>5, <2>6 DEF Lru!Deliver, Lru!Keep, kept
    <2> QED BY <2>7
<1>11. CASE slots'[c] # Nothing
    <2>1. /\ slots'[c].of = part.of /\ CompletedBy(part) = {}
          /\ DOMAIN slots'[c].got = PartsCome[part.of] \cup {part.at}
        BY <1>11 DEF Comes
    <2>2. Using(slots') = K \cup {c}
        BY <1>0, <1>3, <1>4, <1>11 DEF Using
    <2>3. PartsCome'[part.of] = PartsCome[part.of] \cup {part.at}
        BY <1>0, <1>5, <2>1, <2>2, CameIs
    <2>4. PartsCome' = [o \in Resources |-> IF o = part.of THEN PartsCome[part.of] \cup {part.at}
                                            ELSE IF o \in kept THEN PartsCome[o] ELSE {}]
        BY <1>5, <1>8, <2>3 DEF Came
    <2>5. HeardLater' = (HeardLater \cap (kept \X kept)) \cup ({part.of} \X kept)
        <3>1. ASSUME NEW pair \in HeardLater'
              PROVE  pair \in (HeardLater \cap (kept \X kept)) \cup ({part.of} \X kept)
            <4>1. PICK s \in K \cup {c}, o \in K \cup {c} :
                    pair = <<slots'[s].of, slots'[o].of>> /\ age[s] < age[o]
                BY <1>6, <2>2, RankedIs
            <4>2. o # c
                BY <1>7, <4>1
            <4>3. CASE s = c
                BY <1>1, <1>2, <2>1, <4>1, <4>2, <4>3
            <4>4. CASE s # c
                BY <1>1, <1>2, <1>9, <4>1, <4>2, <4>4
            <4> QED BY <4>3, <4>4
        <3>2. ASSUME NEW pair \in HeardLater \cap (kept \X kept)
              PROVE  pair \in HeardLater'
            <4>1. PICK s \in K, o \in K : pair = <<slots[s].of, slots[o].of>>
                BY <1>1
            <4>2. age[s] < age[o]
                BY <1>9, <4>1
            <4> QED BY <1>2, <1>6, <2>2, <4>1, <4>2, RankedIs
        <3>3. ASSUME NEW pair \in {part.of} \X kept
              PROVE  pair \in HeardLater'
            <4>1. PICK o \in K : pair = <<part.of, slots[o].of>>
                BY <1>1
            <4>2. age[c] < age[o]
                BY <1>7
            <4> QED BY <1>0, <1>2, <1>6, <2>1, <2>2, <4>1, <4>2, RankedIs
        <3> QED BY <3>1, <3>2, <3>3
    <2>6. done' = done
        BY <2>1
    <2>7. Lru!Hear(part.of, part.at)
        BY <2>4, <2>5, <2>6 DEF Lru!Hear, Lru!Keep, kept
    <2> QED BY <2>7
<1> QED BY <1>10, <1>11

LEMMA CacheStart ==
    ASSUME Init
    PROVE  CacheInv /\ Lru!Init
<1>1. PoolInv
    BY RInit DEF RInv, PathInv
<1>2. InUse = {}
    BY DEF Init, PoolInit, InUse
<1>3. tick \in 0 .. TickWidth - 1 /\ lastUsed = [s \in Slot |-> tick]
    BY PoolAssumption DEF Init, PoolInit
<1>4. CacheInv
    BY <1>1, <1>2, <1>3 DEF CacheInv, Clock, InProgress, InUse
<1>5. PartsCome = [r \in Resources |-> {}] /\ HeardLater = {}
    BY <1>2 DEF PartsCome, HeardLater
<1>6. {whole.of : whole \in completed} = {}
    BY DEF Init
<1> QED BY <1>4, <1>5, <1>6 DEF Lru!Init

LEMMA PoolRests ==
    ASSUME CacheInv, UNCHANGED <<poolVars, completed>>
    PROVE  /\ CacheInv'
           /\ UNCHANGED <<PartsCome, HeardLater, {whole.of : whole \in completed}>>
<1>1. slots' = slots /\ lastUsed' = lastUsed /\ tick' = tick /\ completed' = completed
    BY DEF poolVars
<1>2. CacheInv'
    BY <1>1 DEF CacheInv, PoolInv, Holds, OfParts, Apart, Clock, InUse, InProgress, Completes,
                Full, Intact
<1> QED BY <1>1, <1>2 DEF PartsCome, HeardLater, InUse, Since

LEMMA CacheNext ==
    ASSUME RInv, RInv', CacheInv, Young, [Next]_vars
    PROVE  /\ CacheInv'
           /\ [Lru!Next]_<<PartsCome, HeardLater, {whole.of : whole \in completed}>>
<1>1. CASE UNCHANGED <<poolVars, completed>>
    BY <1>1, PoolRests
<1>2. CASE CoreEvent /\ Info(Head(events)).kind = "part"
    <2>1. Head(events) \in Packets
        BY <1>2 DEF CoreEvent, RInv, PathInv, NodeInv
    <2>2. PICK part, c : part = PartIn(Head(events)) /\ c = Chosen(part)
        OBVIOUS
    <2>3. IsPart(part)
        BY <1>2, <2>1, <2>2, PartInIsPart
    <2>4. completed' = completed \cup CompletedBy(part) /\ PoolAccept(part)
        BY <1>2, <2>2 DEF CoreEvent
    <2>5. PoolInv'
        BY DEF RInv, PathInv
    <2>6. Comes(part, c) /\ c \in Slot
        BY <2>2, <2>3, <2>4, AcceptComes, ChosenIs
    <2>7. CacheInv'
        BY <2>5, <2>6, ComesKeeps
    <2>8. Lru!Hear(part.of, part.at) \/ Lru!Deliver(part.of, part.at)
        BY <2>2, <2>3, <2>4, <2>5, <2>6, ComesRefines
    <2>9. part.of \in Resources /\ part.at \in 1 .. CountOf[part.of]
        BY <2>3 DEF IsPart
    <2> QED BY <2>7, <2>8, <2>9 DEF Lru!Next
<1>3. CASE Next /\ ~(CoreEvent /\ Info(Head(events)).kind = "part")
    BY <1>1, <1>3 DEF Next, LoraAir, EspnowAir, EspnowSend, LoraSend, PollEspnow, PollLora,
                      CoreEvent, CoreSend, Modem, pathVars
<1>4. CASE UNCHANGED vars
    BY <1>1, <1>4 DEF vars, pathVars
<1> QED BY <1>2, <1>3, <1>4

(* The pool of reassemblers (rns_resource.c) is a cache of the resources      *)
(* heard last, though its clock of 32 bits wraps, while no resource in        *)
(* progress has waited for half a turn of it, which is 2^31 parts.            *)
THEOREM PoolIsCache == Spec /\ []Young => PoolIsLru
<1>1. Init => CacheInv /\ Lru!Init
    BY CacheStart
<1>2. RInv /\ RInv' /\ CacheInv /\ Young /\ [Next]_vars
        => /\ CacheInv'
           /\ [Lru!Next]_<<PartsCome, HeardLater, {whole.of : whole \in completed}>>
    BY CacheNext
<1> QED BY <1>1, <1>2, RInvariance, PTL DEF Spec, PoolIsLru, Lru!Spec
=============================================================================
