-------------------------- MODULE DeviceBootProofs --------------------------
(***************************************************************************)
(* The record of a device through its boots, for every set of keys, every  *)
(* bound on numbers and mishaps, with or without failing reads and writes: *)
(* the last copy of a key and the witness of an older schema are not lost, *)
(* a wallet runs as its flash says, and no number is signed twice.         *)
(*                                                                         *)
(* The counter is never behind, because flash is written before a payment  *)
(* exists: what a key has signed is below the number in flash, and below   *)
(* both numbers in RAM while the record is in use.                         *)
(***************************************************************************)
EXTENDS DeviceBoot, WellFoundedInduction, TLAPS

-----------------------------------------------------------------------------
(* The invariant. *)

Nvs == [state : Blob \cup {NoBlob}, backup : Blob \cup {NoBlob}]

Held == [kind : {"credit", "pay", "heard"}, by : Identity \cup {None, Ghost},
         seq : 0 .. SeqMax, new : BOOLEAN]

Device == [at : Step, open : BOOLEAN, ready : BOOLEAN, me : Identity \cup {None, Ghost},
           rec : Record, seq : 1 .. SeqMax + 1, member : BOOLEAN, dag : SUBSET Held,
           dirty : BOOLEAN, status : {"OK", "LEGACY", "CORRUPT", "ERROR"}]

Types ==
    /\ nvs \in Nvs
    /\ window = None \/ window \in SUBSET Held
    /\ dev \in Device
    /\ born \in SUBSET Identity
    /\ spent \in [Identity -> 1 .. SeqMax + 1]

(* A key nobody has drawn has signed nothing; the record in flash is not    *)
(* behind what its key has signed.                                          *)
KeyBook ==
    /\ \A i \in Identity \ born : spent[i] = 1
    /\ nvs.state.rec.id \in born \cup {None}
    /\ nvs.state # NoBlob => nvs.state.rec.id # None
    /\ nvs.state.rec.id # None => spent[nvs.state.rec.id] <= nvs.state.rec.seq

Early == {"off", "nvs", "load", "archive", "convert", "giveUp", "create"}

(* What a step of the boot knows from the steps before it.                  *)
Stages ==
    /\ dev.at \in Early => ~dev.ready /\ dev.status = "OK"
    /\ dev.at \in {"alias", "credit"} => dev.ready
    /\ dev.at \in {"archive", "convert"} => nvs.state.form = "v2"
    /\ dev.at = "convert" => nvs.backup # NoBlob
    /\ dev.at = "create" => nvs.state = NoBlob

(* A record in use is the one in flash, and its copy in RAM is not behind.  *)
Owner ==
    dev.ready =>
        /\ dev.status = "OK"
        /\ nvs.state.form = "v3"
        /\ nvs.state.rec.id = dev.me /\ dev.rec.id = dev.me /\ dev.me \in Identity
        /\ dev.member => nvs.state.rec.desc = "signed" /\ dev.rec.desc = "signed"
        /\ spent[dev.me] <= dev.seq /\ spent[dev.me] <= dev.rec.seq

IInv == Types /\ KeyBook /\ Stages /\ Owner

(* What no step but a reset and a wipe may do. *)
NoKeyLost == Kept \subseteq KeptNext

NoWitnessLost ==
    /\ nvs.backup # NoBlob => nvs'.backup = nvs.backup
    /\ Probe(nvs) \in {"LEGACY", "CORRUPT"} /\ nvs'.state # nvs.state
          => nvs.state.form = "v2" /\ nvs.backup # NoBlob

-----------------------------------------------------------------------------
(* The counter above a window. *)

(* A set of naturals has a least element. *)
LEMMA Least ==
    ASSUME NEW T \in SUBSET Nat, T # {}
    PROVE  \E m \in T : \A k \in T : m <= k
<1> DEFINE R == {ss \in Nat \X Nat : ss[1] < ss[2]}
<1>1. IsWellFoundedOn(R, Nat)
    BY NatLessThanWellFounded DEF OpToRel
<1>2. PICK m \in T : \A k \in T : ~(<<k, m>> \in R)
    BY <1>1, WFMin
<1>3. \A k \in T : ~(k < m)
    BY <1>2
<1> QED BY <1>3

(* A set of numbers below a bound has a highest. *)
LEMMA Highest ==
    ASSUME NEW max \in Nat, NEW S \in SUBSET (0 .. max), S # {}
    PROVE  \E n \in S : \A m \in S : m <= n
<1> DEFINE T == {max - n : n \in S}
<1>1. T \in SUBSET Nat /\ T # {}
    <2>1. \A n \in S : max - n \in Nat
        OBVIOUS
    <2>2. PICK n \in S : TRUE
        OBVIOUS
    <2>3. max - n \in T
        OBVIOUS
    <2> QED BY <2>1, <2>3
<1> HIDE DEF T
<1>2. PICK k \in T : \A m \in T : k <= m
    BY <1>1, Least
<1>3. PICK n \in S : k = max - n
    BY <1>2 DEF T
<1>4. \A m \in S : max - n <= max - m
    BY <1>2, <1>3 DEF T
<1>5. \A m \in S : m <= n
    BY <1>4
<1> QED BY <1>5

LEMMA RaisedIs ==
    ASSUME NEW d \in SUBSET Held, NEW i, NEW seq \in 1 .. SeqMax + 1
    PROVE  Raised(d, i, seq) \in 1 .. SeqMax + 1 /\ seq <= Raised(d, i, seq)
<1> DEFINE above == {t.seq + 1 : t \in {u \in d : u.kind = "pay" /\ u.by = i}} \cup {seq}
<1>1. \A t \in d : t.seq + 1 \in 0 .. SeqMax + 1
    BY RecordStoreAssumption DEF Held
<1>2. above \in SUBSET (0 .. SeqMax + 1) /\ seq \in above
    BY <1>1, RecordStoreAssumption
<1>3. Raised(d, i, seq) = CHOOSE n \in above : \A m \in above : m <= n
    BY DEF Raised
<1> HIDE DEF above
<1>4. \E n \in above : \A m \in above : m <= n
    <2>1. SeqMax + 1 \in Nat /\ above # {}
        BY <1>2, RecordStoreAssumption
    <2> QED BY <1>2, <2>1, Highest
<1>5. Raised(d, i, seq) \in above /\ \A m \in above : m <= Raised(d, i, seq)
    BY <1>3, <1>4
<1>6. Raised(d, i, seq) \in 0 .. SeqMax + 1 /\ seq <= Raised(d, i, seq)
    BY <1>2, <1>5
<1> QED BY <1>6, RecordStoreAssumption

-----------------------------------------------------------------------------
(* Records and blobs. *)

LEMMA NoBlobIs == NoBlob.rec.id = None /\ NoBlob.form = "none" /\ NoBlob \notin Blob
BY DEF NoBlob, Blank, Blob, Form

LEMMA BlobIs ==
    ASSUME NEW b \in Blob \cup {NoBlob}
    PROVE  /\ b.rec \in Record
           /\ b.form # "none" => b \in Blob
           /\ b.form = "none" => b = NoBlob
<1>1. CASE b \in Blob
    BY <1>1 DEF Blob, Form
<1>2. CASE b = NoBlob
    <2>1. Blank \in Record
        BY RecordStoreAssumption DEF Blank, Record, Descriptor
    <2> QED BY <1>2, <2>1 DEF NoBlob
<1> QED BY <1>1, <1>2

LEMMA WriteIs ==
    ASSUME NEW m \in Nvs, NEW b \in Blob \cup {NoBlob}, NEW w \in Write(m, "state", b)
    PROVE  /\ w.nvs \in Nvs
           /\ w.nvs.backup = m.backup
           /\ w.nvs.state = m.state \/ w.nvs.state = b
           /\ w.ok => w.nvs.state = b
<1> DEFINE written == [m EXCEPT !.state = b]
<1>1. written \in Nvs /\ written.backup = m.backup /\ written.state = b
    BY DEF Nvs
<1>2. \/ w = Result(written, TRUE) \/ w = Result(m, FALSE) \/ w = Result(written, FALSE)
    BY DEF Write
<1> HIDE DEF written
<1>3. \/ w.nvs = written
      \/ w.nvs = m /\ ~w.ok
    BY <1>2 DEF Result
<1> QED BY <1>1, <1>3

LEMMA BackupIs ==
    ASSUME NEW m \in Nvs, NEW w \in Write(m, "backup", m.state)
    PROVE  /\ w.nvs \in Nvs
           /\ w.nvs.state = m.state
           /\ w.nvs.backup = m.backup \/ w.nvs.backup = m.state
           /\ w.ok => w.nvs.backup = m.state
<1> DEFINE written == [m EXCEPT !.backup = m.state]
<1>1. written \in Nvs /\ written.state = m.state /\ written.backup = m.state
    BY DEF Nvs
<1>2. \/ w = Result(written, TRUE) \/ w = Result(m, FALSE) \/ w = Result(written, FALSE)
    BY DEF Write
<1> HIDE DEF written
<1>3. \/ w.nvs = written
      \/ w.nvs = m /\ ~w.ok
    BY <1>2 DEF Result
<1> QED BY <1>1, <1>3

LEMMA ArchiveIs ==
    ASSUME NEW m \in Nvs, NEW w \in Archive(m)
    PROVE  /\ w.nvs \in Nvs
           /\ w.nvs.state = m.state
           /\ m.backup # NoBlob => w.nvs.backup = m.backup
           /\ w.ok => w.nvs.backup # NoBlob
<1>1. CASE m.backup # NoBlob
    <2>1. w = Result(m, TRUE) \/ w = Result(m, FALSE)
        BY <1>1 DEF Archive
    <2> QED BY <1>1, <2>1 DEF Result
<1>2. CASE m.backup = NoBlob /\ (m.state = NoBlob \/ m.state.form = "huge")
    <2>1. w = Result(m, FALSE)
        BY <1>2 DEF Archive
    <2> QED BY <1>2, <2>1 DEF Result
<1>3. CASE m.backup = NoBlob /\ ~(m.state = NoBlob \/ m.state.form = "huge")
    <2>1. w \in Write(m, "backup", m.state)
        BY <1>3 DEF Archive
    <2> QED BY <1>3, <2>1, BackupIs
<1> QED BY <1>1, <1>2, <1>3

LEMMA EncodeIs ==
    ASSUME NEW r \in Record
    PROVE  Encode(r) \in Blob /\ Encode(r).form = "v3" /\ Encode(r).rec = r
BY DEF Encode, Blob, Form

(* The fields a caller sets. *)
LEMMA FieldsSet ==
    ASSUME NEW r \in Record
    PROVE  /\ WithAlias(r) \in Record /\ WithAlias(r).id = r.id /\ WithAlias(r).seq = r.seq
           /\ WithAlias(r).desc = r.desc
           /\ WithPin(r) \in Record /\ WithPin(r).id = r.id /\ WithPin(r).seq = r.seq
           /\ WithPin(r).desc = r.desc
           /\ WithCredit(r) \in Record /\ WithCredit(r).id = r.id /\ WithCredit(r).seq = r.seq
           /\ WithCredit(r).desc = r.desc
           /\ WithDescriptor(r) \in Record /\ WithDescriptor(r).id = r.id
           /\ WithDescriptor(r).seq = r.seq /\ WithDescriptor(r).desc = "signed"
<1>1. /\ WithAlias(r) \in Record /\ WithAlias(r).id = r.id /\ WithAlias(r).seq = r.seq
      /\ WithAlias(r).desc = r.desc
    BY DEF WithAlias, Record
<1>2. /\ WithPin(r) \in Record /\ WithPin(r).id = r.id /\ WithPin(r).seq = r.seq
      /\ WithPin(r).desc = r.desc
    BY DEF WithPin, Record
<1>3. /\ WithCredit(r) \in Record /\ WithCredit(r).id = r.id /\ WithCredit(r).seq = r.seq
      /\ WithCredit(r).desc = r.desc
    BY DEF WithCredit, Record
<1>4. /\ WithDescriptor(r) \in Record /\ WithDescriptor(r).id = r.id
      /\ WithDescriptor(r).seq = r.seq /\ WithDescriptor(r).desc = "signed"
    BY DEF WithDescriptor, Record, Descriptor
<1> QED BY <1>1, <1>2, <1>3, <1>4

(* A write of the record in use. *)
LEMMA OwnerSaves ==
    ASSUME IInv, dev.ready, NEW r \in Record, r.id = dev.me, NEW w \in Save(nvs, r), nvs' = w.nvs
    PROVE  /\ nvs' \in Nvs /\ NoKeyLost /\ NoWitnessLost
           /\ nvs'.state.form = "v3" /\ nvs'.state.rec.id = dev.me
           /\ nvs'.state = nvs.state \/ nvs'.state.rec = r
           /\ w.ok => nvs'.state.rec = r
<1>1. nvs \in Nvs /\ nvs.state.form = "v3" /\ nvs.state.rec.id = dev.me
    BY DEF IInv, Types, Owner
<1>2. Encode(r) \in Blob /\ Encode(r).form = "v3" /\ Encode(r).rec = r
    BY EncodeIs
<1>3. /\ nvs' \in Nvs /\ nvs'.backup = nvs.backup
      /\ nvs'.state = nvs.state \/ nvs'.state = Encode(r)
      /\ w.ok => nvs'.state = Encode(r)
    BY <1>1, <1>2, WriteIs DEF Save
<1>4. NoKeyLost
    BY <1>1, <1>2, <1>3 DEF NoKeyLost, Kept, KeptNext
<1>5. NoWitnessLost
    BY <1>1, <1>3 DEF NoWitnessLost, Probe, Readable
<1> QED BY <1>1, <1>2, <1>3, <1>4, <1>5

LEMMA NvsStays ==
    ASSUME nvs' = nvs
    PROVE  NoKeyLost /\ NoWitnessLost
BY DEF NoKeyLost, NoWitnessLost, Kept, KeptNext

-----------------------------------------------------------------------------
(* The device. *)

LEMMA DevOn ==
    ASSUME dev \in Device, NEW s \in Step, On(s)
    PROVE  /\ dev' \in Device /\ dev'.at = s
           /\ dev'.ready = dev.ready /\ dev'.me = dev.me /\ dev'.rec = dev.rec
           /\ dev'.seq = dev.seq /\ dev'.member = dev.member /\ dev'.status = dev.status
BY DEF Device, On

LEMMA DevLess ==
    ASSUME dev \in Device, NEW probe, WithoutRecord(probe)
    PROVE  dev' \in Device /\ dev'.at = "window" /\ ~dev'.ready
<1>1. Blank \in Record
    BY RecordStoreAssumption DEF Blank, Record, Descriptor
<1>2. Status(probe) \in {"OK", "LEGACY", "CORRUPT", "ERROR"}
    BY DEF Status
<1> QED BY <1>1, <1>2 DEF WithoutRecord, Device, Step

LEMMA DevUse ==
    ASSUME dev \in Device, NEW r \in Record, r.id # None, Use(r)
    PROVE  /\ dev' \in Device /\ dev'.at = "alias" /\ dev'.ready
           /\ dev'.me = r.id /\ dev'.rec = r /\ dev'.status = dev.status
           /\ dev'.seq = IF r.seq = 0 THEN 1 ELSE r.seq
           /\ dev'.member => r.desc = "signed"
<1> DEFINE seq == IF r.seq = 0 THEN 1 ELSE r.seq
           member == Member(r)
<1>1. seq \in 1 .. SeqMax + 1 /\ r.id \in Identity \cup {None, Ghost}
    BY RecordStoreAssumption DEF Record
<1>2. member \in BOOLEAN /\ (member => r.desc = "signed")
    BY DEF Member, Decodes, Verified
<1>3. dev' = [dev EXCEPT !.at = "alias", !.ready = TRUE, !.me = r.id, !.rec = r,
                         !.seq = seq, !.member = member]
    BY DEF Use
<1> HIDE DEF seq, member
<1>4. /\ dev' \in Device /\ dev'.at = "alias" /\ dev'.ready
      /\ dev'.me = r.id /\ dev'.rec = r /\ dev'.status = dev.status
      /\ dev'.seq = seq /\ dev'.member = member
    BY <1>1, <1>2, <1>3 DEF Device, Step
<1> QED BY <1>2, <1>4 DEF seq

LEMMA BookStays ==
    ASSUME IInv, UNCHANGED <<born, spent>>, nvs'.state.rec = nvs.state.rec,
           nvs'.state # NoBlob => nvs.state # NoBlob
    PROVE  KeyBook'
BY DEF IInv, KeyBook

(* A step that ends the use of the record for this boot. *)
LEMMA Unready ==
    ASSUME IInv, nvs' \in Nvs, dev' \in Device, ~dev'.ready, dev'.at = "window",
           UNCHANGED <<window, spent>>, born' \in SUBSET Identity, KeyBook'
    PROVE  IInv'
<1>1. Types'
    BY DEF IInv, Types
<1>2. Stages' /\ Owner'
    BY DEF Stages, Owner, Early
<1> QED BY <1>1, <1>2 DEF IInv

(* A step that takes a record in use, which is in flash by then. *)
LEMMA Taken ==
    ASSUME IInv, dev.at \in Early, NEW r \in Record, Use(r), nvs' \in Nvs,
           nvs'.state.form = "v3", nvs'.state.rec = r,
           UNCHANGED <<window, spent>>, born' \in SUBSET Identity, KeyBook'
    PROVE  IInv'
<1>1. nvs'.state # NoBlob /\ r.id # None /\ r.id \in Identity
    BY NoBlobIs DEF KeyBook, Record
<1>2. /\ dev' \in Device /\ dev'.at = "alias" /\ dev'.ready
      /\ dev'.me = r.id /\ dev'.rec = r /\ dev'.status = dev.status
      /\ dev'.seq = IF r.seq = 0 THEN 1 ELSE r.seq
      /\ dev'.member => r.desc = "signed"
    BY <1>1, DevUse DEF IInv, Types
<1>3. spent[r.id] \in 1 .. SeqMax + 1 /\ spent[r.id] <= r.seq
    BY <1>1 DEF IInv, Types, KeyBook
<1>4. dev.status = "OK"
    BY DEF IInv, Stages
<1>5. Types'
    BY <1>2 DEF IInv, Types
<1>6. Stages'
    BY <1>2 DEF Stages, Early
<1>7. r.seq \in Nat /\ spent[r.id] <= dev'.seq
    BY <1>2, <1>3, RecordStoreAssumption DEF Record
<1>8. Owner'
    BY <1>1, <1>2, <1>3, <1>4, <1>7 DEF Owner
<1> QED BY <1>5, <1>6, <1>8 DEF IInv

(* The numbers a save of the record in use leaves in flash. *)
LEMMA SavedBook ==
    ASSUME IInv, dev.ready, NEW r \in Record, r.id = dev.me, spent[dev.me] <= r.seq,
           NEW w \in Save(nvs, r), nvs' = w.nvs, UNCHANGED <<born, spent>>
    PROVE  KeyBook'
<1>1. /\ nvs'.state.rec.id = dev.me
      /\ nvs'.state = nvs.state \/ nvs'.state.rec = r
    BY OwnerSaves
<1>2. dev.me # None /\ dev.me \in born
    BY RecordStoreAssumption DEF IInv, Owner, KeyBook
<1> QED BY <1>1, <1>2 DEF IInv, KeyBook

-----------------------------------------------------------------------------
(* The steps of a boot. *)

LEMMA InitInv == Init => IInv
<1> SUFFICES ASSUME Init PROVE IInv
    OBVIOUS
<1>1. Blank \in Record /\ Off \in Device /\ ~Off.ready /\ Off.at = "off" /\ Off.status = "OK"
    BY RecordStoreAssumption DEF Off, Device, Step, Blank, Record, Descriptor
<1>2. PICK i \in Identity, r \in OldRecord, form \in Form \cup {"none"} :
          /\ r.id = i
          /\ spent = [j \in Identity |->
                          IF j = i /\ form # "none" THEN r.seq ELSE 1]
          /\ nvs = [state |-> IF form = "none" THEN NoBlob ELSE [form |-> form, rec |-> r],
                    backup |-> NoBlob]
          /\ born = IF form = "none" THEN {} ELSE {i}
          /\ window \in IF form = "none" THEN {None} ELSE {None, {Credit(i)}}
    BY DEF Init
<1>3. r \in Record /\ r.seq \in 1 .. SeqMax + 1
    <2>1. PICK j \in Identity, s \in 1 .. SeqMax + 1, a \in BOOLEAN, d \in Descriptor :
              r = [id |-> j, seq |-> s, named |-> a, pin |-> FALSE, credit |-> TRUE, desc |-> d]
        BY DEF OldRecord
    <2>2. s \in 0 .. SeqMax + 1
        BY RecordStoreAssumption
    <2> QED BY <2>1, <2>2 DEF Record
<1>4. dev = Off
    BY DEF Init
<1>5. nvs \in Nvs
    BY <1>2, <1>3 DEF Nvs, Blob
<1>6. Credit(i) \in Held
    BY RecordStoreAssumption DEF Credit, Held
<1>7. spent \in [Identity -> 1 .. SeqMax + 1]
    BY <1>2, <1>3, RecordStoreAssumption
<1>8. Types
    BY <1>1, <1>2, <1>4, <1>5, <1>6, <1>7 DEF Types
<1>9. KeyBook
    BY <1>2, <1>3, <1>4, NoBlobIs, RecordStoreAssumption DEF KeyBook
<1>10. Stages /\ Owner
    BY <1>1, <1>4 DEF Stages, Owner
<1> QED BY <1>8, <1>9, <1>10 DEF IInv

LEMMA PowerOnInv ==
    ASSUME IInv, PowerOn
    PROVE  IInv' /\ NoKeyLost /\ NoWitnessLost
<1>1. /\ dev' \in Device /\ dev'.at = "nvs"
      /\ dev'.ready = dev.ready /\ dev'.status = dev.status
    BY DevOn DEF IInv, Types, PowerOn, Step
<1>2. ~dev.ready /\ dev.status = "OK"
    BY DEF IInv, Stages, Early, PowerOn
<1>3. KeyBook' /\ NoKeyLost /\ NoWitnessLost
    BY BookStays, NvsStays DEF PowerOn
<1>4. Types' /\ Stages' /\ Owner'
    BY <1>1, <1>2 DEF IInv, Types, Stages, Owner, PowerOn
<1> QED BY <1>3, <1>4 DEF IInv

(* The device of a NVS that could be opened. *)
LEMMA Opened ==
    ASSUME dev \in Device, dev' = [dev EXCEPT !.at = "load", !.open = TRUE]
    PROVE  dev' \in Device /\ dev'.at = "load" /\ dev'.ready = dev.ready /\ dev'.status = dev.status
BY DEF Device, Step

LEMMA OpenNvsInv ==
    ASSUME IInv, OpenNvs
    PROVE  IInv' /\ NoKeyLost /\ NoWitnessLost
<1>1. dev.at = "nvs" /\ ~dev.ready /\ dev.status = "OK" /\ dev \in Device
    BY DEF IInv, Types, Stages, Early, OpenNvs
<1>2. KeyBook' /\ NoKeyLost /\ NoWitnessLost
    BY BookStays, NvsStays DEF OpenNvs
<1>3. CASE WithoutRecord("ERROR")
    BY <1>1, <1>2, <1>3, DevLess, Unready DEF IInv, Types, OpenNvs
<1>4. CASE dev' = [dev EXCEPT !.at = "load", !.open = TRUE]
    <2>1. dev' \in Device /\ dev'.at = "load" /\ ~dev'.ready /\ dev'.status = "OK"
        BY <1>1, <1>4, Opened
    <2>2. Types' /\ Stages' /\ Owner'
        BY <2>1 DEF IInv, Types, Stages, Owner, OpenNvs
    <2> QED BY <1>2, <2>2 DEF IInv
<1> QED BY <1>3, <1>4 DEF OpenNvs

LEMMA WipeNvsInv ==
    ASSUME IInv, WipeNvs
    PROVE  IInv'
<1>1. dev.at = "nvs" /\ ~dev.ready /\ dev.status = "OK" /\ dev \in Device
    BY DEF IInv, Types, Stages, Early, WipeNvs
<1>2. nvs' \in Nvs /\ nvs'.state = NoBlob
    BY DEF WipeNvs, Wiped, Nvs
<1>3. KeyBook'
    BY <1>2, NoBlobIs DEF IInv, KeyBook, WipeNvs
<1>4. CASE WithoutRecord("ERROR")
    BY <1>1, <1>2, <1>3, <1>4, DevLess, Unready DEF IInv, Types, WipeNvs
<1>5. CASE dev' = [dev EXCEPT !.at = "load", !.open = TRUE]
    <2>1. dev' \in Device /\ dev'.at = "load" /\ ~dev'.ready /\ dev'.status = "OK"
        BY <1>1, <1>5, Opened
    <2>2. Types' /\ Stages' /\ Owner'
        BY <1>2, <2>1 DEF IInv, Types, Stages, Owner, WipeNvs
    <2> QED BY <1>3, <2>2 DEF IInv
<1> QED BY <1>4, <1>5 DEF WipeNvs

LEMMA LoadInv ==
    ASSUME IInv, Load
    PROVE  IInv' /\ NoKeyLost /\ NoWitnessLost
<1>1. dev.at = "load" /\ ~dev.ready /\ dev.status = "OK" /\ dev \in Device /\ nvs \in Nvs
    BY DEF IInv, Types, Stages, Early, Load
<1>2. KeyBook' /\ NoKeyLost /\ NoWitnessLost
    BY BookStays, NvsStays DEF Load
<1>3. nvs.state.rec \in Record
    BY <1>1, BlobIs DEF Nvs
<1>4. UNCHANGED <<nvs, window, born, spent>> /\ born' \in SUBSET Identity
    BY DEF Load, IInv, Types
<1>5. CASE Probe(nvs) = "OK" /\ Use(nvs.state.rec)
    <2>1. nvs.state.form = "v3"
        BY <1>5 DEF Probe, Readable
    <2> QED BY <1>1, <1>2, <1>3, <1>4, <1>5, <2>1, Taken DEF Early
<1>6. ASSUME NEW s \in {"create", "archive", "giveUp"}, On(s),
             s = "create" => nvs.state = NoBlob,
             s = "archive" => nvs.state.form = "v2"
      PROVE  IInv' /\ NoKeyLost /\ NoWitnessLost
    <2>1. dev' \in Device /\ dev'.at = s /\ ~dev'.ready /\ dev'.status = "OK"
        BY <1>1, <1>6, DevOn DEF Step
    <2>2. Types' /\ Stages' /\ Owner'
        BY <1>4, <1>6, <2>1 DEF IInv, Types, Stages, Owner, Early
    <2> QED BY <1>2, <2>2 DEF IInv
<1>7. CASE Probe(nvs) = "EMPTY" /\ On("create")
    <2>1. nvs.state = NoBlob
        BY <1>7 DEF Probe
    <2> QED BY <1>6, <1>7, <2>1
<1>8. CASE Probe(nvs) = "LEGACY" /\ On(IF Converts(nvs.state) THEN "archive" ELSE "giveUp")
    BY <1>6, <1>8 DEF Converts
<1>9. CASE Probe(nvs) = "CORRUPT" /\ On("giveUp")
    BY <1>6, <1>9
<1>10. CASE WithoutRecord("ERROR")
    BY <1>1, <1>2, <1>4, <1>10, DevLess, Unready
<1> QED BY <1>5, <1>7, <1>8, <1>9, <1>10 DEF Load

LEMMA GiveUpInv ==
    ASSUME IInv, GiveUp
    PROVE  IInv' /\ NoKeyLost /\ NoWitnessLost
<1>1. dev \in Device /\ nvs \in Nvs
    BY DEF IInv, Types
<1>2. PICK w \in Archive(nvs) : nvs' = w.nvs
    BY DEF GiveUp
<1>3. nvs' \in Nvs /\ nvs'.state = nvs.state /\ (nvs.backup # NoBlob => nvs'.backup = nvs.backup)
    BY <1>1, <1>2, ArchiveIs
<1>4. KeyBook'
    BY <1>3, BookStays DEF GiveUp
<1>5. dev' \in Device /\ ~dev'.ready /\ dev'.at = "window"
    BY <1>1, DevLess DEF GiveUp
<1>6. IInv'
    BY <1>3, <1>4, <1>5, Unready DEF GiveUp, IInv, Types
<1> QED BY <1>3, <1>6, NoBlobIs DEF NoKeyLost, NoWitnessLost, Kept, KeptNext

LEMMA ArchiveOldInv ==
    ASSUME IInv, ArchiveOld
    PROVE  IInv' /\ NoKeyLost /\ NoWitnessLost
<1>1. /\ dev.at = "archive" /\ ~dev.ready /\ dev.status = "OK" /\ nvs.state.form = "v2"
      /\ dev \in Device /\ nvs \in Nvs
    BY DEF IInv, Types, Stages, Early, ArchiveOld
<1>2. PICK w \in Archive(nvs) :
          /\ nvs' = w.nvs
          /\ IF w.ok THEN On("convert") ELSE WithoutRecord("LEGACY")
    BY DEF ArchiveOld
<1>3. /\ nvs' \in Nvs /\ nvs'.state = nvs.state
      /\ nvs.backup # NoBlob => nvs'.backup = nvs.backup
      /\ w.ok => nvs'.backup # NoBlob
    BY <1>1, <1>2, ArchiveIs
<1>4. KeyBook'
    BY <1>3, BookStays DEF ArchiveOld
<1>5. NoKeyLost /\ NoWitnessLost
    BY <1>3, NoBlobIs DEF NoKeyLost, NoWitnessLost, Kept, KeptNext
<1>6. CASE w.ok
    <2>1. dev' \in Device /\ dev'.at = "convert" /\ ~dev'.ready /\ dev'.status = "OK"
        BY <1>1, <1>2, <1>6, DevOn DEF Step
    <2>2. Types' /\ Stages' /\ Owner'
        BY <1>1, <1>3, <1>6, <2>1 DEF IInv, Types, Stages, Owner, Early, ArchiveOld
    <2> QED BY <1>4, <1>5, <2>2 DEF IInv
<1>7. CASE ~w.ok
    <2>1. dev' \in Device /\ ~dev'.ready /\ dev'.at = "window"
        BY <1>1, <1>2, <1>7, DevLess
    <2>2. IInv'
        BY <1>3, <1>4, <2>1, Unready DEF ArchiveOld, IInv, Types
    <2> QED BY <1>5, <2>2
<1> QED BY <1>6, <1>7

LEMMA ConvertInv ==
    ASSUME IInv, Convert
    PROVE  IInv' /\ NoKeyLost /\ NoWitnessLost
<1> DEFINE r == nvs.state.rec
<1>1. /\ dev.at = "convert" /\ nvs.state.form = "v2" /\ nvs.backup # NoBlob
      /\ dev \in Device /\ nvs \in Nvs /\ nvs.state # NoBlob
    BY NoBlobIs DEF IInv, Types, Stages, Convert
<1>2. r \in Record
    BY <1>1, BlobIs DEF Nvs
<1>3. PICK w \in Save(nvs, r) :
          /\ nvs' = w.nvs
          /\ IF w.ok THEN Use(r) ELSE WithoutRecord("LEGACY")
    BY DEF Convert
<1>4. Encode(r) \in Blob /\ Encode(r).form = "v3" /\ Encode(r).rec = r
    BY <1>2, EncodeIs
<1>5. /\ nvs' \in Nvs /\ nvs'.backup = nvs.backup
      /\ nvs'.state = nvs.state \/ nvs'.state = Encode(r)
      /\ w.ok => nvs'.state = Encode(r)
    BY <1>1, <1>3, <1>4, WriteIs DEF Save
<1>6. nvs'.state.rec = r
    BY <1>4, <1>5
<1>7. KeyBook'
    BY <1>1, <1>6, BookStays DEF Convert
<1>8. NoKeyLost /\ NoWitnessLost
    BY <1>1, <1>5, <1>6 DEF NoKeyLost, NoWitnessLost, Kept, KeptNext
<1>9. UNCHANGED <<window, spent>> /\ born' \in SUBSET Identity
    BY DEF Convert, IInv, Types
<1>10. CASE w.ok
    <2>1. nvs'.state.form = "v3" /\ Use(r)
        BY <1>3, <1>4, <1>5, <1>10
    <2>2. IInv'
        BY <1>1, <1>2, <1>5, <1>6, <1>7, <1>9, <2>1, Taken DEF Early
    <2> QED BY <1>8, <2>2
<1>11. CASE ~w.ok
    BY <1>1, <1>3, <1>5, <1>7, <1>8, <1>9, <1>11, DevLess, Unready
<1> QED BY <1>10, <1>11

LEMMA CreateInv ==
    ASSUME IInv, Create
    PROVE  IInv' /\ NoKeyLost /\ NoWitnessLost
<1>1. dev.at = "create" /\ nvs.state = NoBlob /\ dev \in Device /\ nvs \in Nvs
    BY DEF IInv, Types, Stages, Create
<1>2. PICK i \in Identity \ born :
          LET r == [WithAlias(WithIdentity(Blank, i)) EXCEPT !.seq = 1]
          IN  /\ born' = born \cup {i}
              /\ \E w \in Save(nvs, r) :
                    /\ nvs' = w.nvs
                    /\ IF w.ok THEN Use(r) ELSE WithoutRecord("ERROR")
    BY DEF Create
<1> DEFINE r == [WithAlias(WithIdentity(Blank, i)) EXCEPT !.seq = 1]
<1>3. r \in Record /\ r.id = i /\ r.seq = 1
    <2>1. Blank \in Record
        BY RecordStoreAssumption DEF Blank, Record, Descriptor
    <2>2. WithIdentity(Blank, i) \in Record /\ WithIdentity(Blank, i).id = i
        BY <2>1 DEF WithIdentity, Record
    <2>3. WithAlias(WithIdentity(Blank, i)) \in Record /\ WithAlias(WithIdentity(Blank, i)).id = i
        BY <2>2, FieldsSet
    <2>4. 1 \in 0 .. SeqMax + 1
        BY RecordStoreAssumption
    <2> QED BY <2>3, <2>4 DEF Record
<1>4. born' = born \cup {i}
    BY <1>2
<1>5. PICK w \in Save(nvs, r) :
          /\ nvs' = w.nvs
          /\ IF w.ok THEN Use(r) ELSE WithoutRecord("ERROR")
    BY <1>2
<1> HIDE DEF r
<1>6. Encode(r) \in Blob /\ Encode(r).form = "v3" /\ Encode(r).rec = r
    BY <1>3, EncodeIs
<1>7. /\ nvs' \in Nvs /\ nvs'.backup = nvs.backup
      /\ nvs'.state = NoBlob \/ nvs'.state = Encode(r)
      /\ w.ok => nvs'.state = Encode(r)
    BY <1>1, <1>5, <1>6, WriteIs DEF Save
<1>8. i \in Identity /\ i # None /\ spent[i] = 1
    BY RecordStoreAssumption DEF IInv, KeyBook
<1>9. /\ UNCHANGED <<window, spent>> /\ born' \in SUBSET Identity
      /\ \A j \in Identity \ born' : spent[j] = 1
    BY <1>4, <1>8 DEF Create, IInv, Types, KeyBook
<1>10. KeyBook'
    <2>1. nvs'.state.rec.id \in born' \cup {None}
        BY <1>3, <1>4, <1>6, <1>7, NoBlobIs
    <2>2. nvs'.state # NoBlob => nvs'.state.rec.id # None
        BY <1>3, <1>6, <1>7, <1>8
    <2>3. nvs'.state.rec.id # None => spent'[nvs'.state.rec.id] <= nvs'.state.rec.seq
        BY <1>3, <1>6, <1>7, <1>8, <1>9, NoBlobIs
    <2> QED BY <1>9, <2>1, <2>2, <2>3 DEF KeyBook
<1>11. NoKeyLost /\ NoWitnessLost
    <2>1. Probe(nvs) = "EMPTY"
        BY <1>1, NoBlobIs DEF Probe, Readable, Legacy
    <2> QED BY <1>1, <1>7, <2>1, NoBlobIs DEF NoKeyLost, NoWitnessLost, Kept, KeptNext
<1>12. CASE w.ok
    <2>1. nvs'.state.form = "v3" /\ nvs'.state.rec = r /\ Use(r)
        BY <1>5, <1>6, <1>7, <1>12
    <2>2. IInv'
        BY <1>1, <1>3, <1>7, <1>9, <1>10, <2>1, Taken DEF Early
    <2> QED BY <1>11, <2>2
<1>13. CASE ~w.ok
    BY <1>1, <1>5, <1>7, <1>9, <1>10, <1>11, <1>13, DevLess, Unready
<1> QED BY <1>12, <1>13

LEMMA EnsureAliasInv ==
    ASSUME IInv, EnsureAlias
    PROVE  IInv' /\ NoKeyLost /\ NoWitnessLost
<1> DEFINE r == WithAlias(dev.rec)
           at == IF dev.member THEN "window" ELSE "credit"
<1>1. dev.at = "alias" /\ dev.ready /\ dev \in Device /\ nvs \in Nvs /\ dev.rec \in Record
    BY DEF IInv, Types, Stages, EnsureAlias, Device
<1>2. r \in Record /\ r.id = dev.rec.id /\ r.seq = dev.rec.seq /\ r.desc = dev.rec.desc
    BY <1>1, FieldsSet
<1>3. at \in {"window", "credit"} /\ dev' = [dev EXCEPT !.rec = r, !.at = at]
    BY DEF EnsureAlias
<1> HIDE DEF r, at
<1>4. /\ dev' \in Device /\ dev'.at = at /\ dev'.rec = r
      /\ dev'.ready = dev.ready /\ dev'.me = dev.me /\ dev'.seq = dev.seq
      /\ dev'.member = dev.member /\ dev'.status = dev.status
    BY <1>1, <1>2, <1>3 DEF Device, Step
<1>5. r.id = dev.me /\ spent[dev.me] <= r.seq
    BY <1>1, <1>2 DEF IInv, Owner
<1>6. /\ nvs' \in Nvs /\ KeyBook' /\ NoKeyLost /\ NoWitnessLost
      /\ nvs'.state.form = "v3" /\ nvs'.state.rec.id = dev.me
      /\ nvs'.state = nvs.state \/ nvs'.state.rec = r
    <2>1. CASE nvs' = nvs
        BY <1>1, <2>1, NvsStays, BookStays DEF IInv, Owner, EnsureAlias
    <2>2. CASE \E w \in Save(nvs, r) : nvs' = w.nvs
        BY <1>1, <1>2, <1>5, <2>2, OwnerSaves, SavedBook DEF EnsureAlias
    <2> QED BY <2>1, <2>2 DEF EnsureAlias, r
<1>7. dev.member => nvs'.state.rec.desc = "signed"
    BY <1>1, <1>2, <1>6 DEF IInv, Owner
<1>8. Types' /\ Stages' /\ Owner'
    BY <1>1, <1>2, <1>3, <1>4, <1>5, <1>6, <1>7
    DEF IInv, Types, Stages, Owner, Early, EnsureAlias
<1> QED BY <1>6, <1>8 DEF IInv

LEMMA BootCreditInv ==
    ASSUME IInv, BootCredit
    PROVE  IInv' /\ NoKeyLost /\ NoWitnessLost
<1> DEFINE dag == dev.dag \cup {Credit(dev.me)}
<1>1. /\ dev.at = "credit" /\ dev.ready /\ dev \in Device /\ nvs \in Nvs
      /\ dev.rec \in Record /\ dev.me \in Identity
    BY DEF IInv, Types, Stages, Owner, BootCredit, Device
<1>2. dag \in SUBSET Held
    <2>1. 0 \in 0 .. SeqMax
        BY RecordStoreAssumption
    <2>2. Credit(dev.me) \in Held
        BY <1>1, <2>1 DEF Held, Credit
    <2>3. dev.dag \in SUBSET Held
        BY <1>1 DEF Device
    <2> QED BY <2>2, <2>3
<1>3. PICK at \in {"window", "dead"}, r \in {dev.rec, WithCredit(dev.rec)} :
          /\ dev' = [dev EXCEPT !.at = at, !.rec = r, !.dag = dag]
          /\ nvs' = nvs \/ \E w \in Save(nvs, r) : nvs' = w.nvs
    <2>1. CASE dev.rec.credit
        <3>1. dev' = [dev EXCEPT !.at = "window", !.rec = dev.rec, !.dag = dag] /\ nvs' = nvs
            BY <1>1, <2>1 DEF BootCredit, Device
        <3> QED BY <3>1
    <2>2. CASE ~dev.rec.credit
        <3>1. PICK w \in Save(nvs, WithCredit(dev.rec)) :
                  /\ nvs' = w.nvs
                  /\ dev' = [dev EXCEPT !.at = IF w.ok THEN "window" ELSE "dead",
                                        !.rec = WithCredit(@),
                                        !.dag = @ \cup {Credit(dev.me)}]
            BY <2>2 DEF BootCredit
        <3>2. dev' = [dev EXCEPT !.at = IF w.ok THEN "window" ELSE "dead",
                                 !.rec = WithCredit(dev.rec), !.dag = dag]
            BY <3>1
        <3> QED BY <3>1, <3>2
    <2> QED BY <2>1, <2>2
<1> HIDE DEF dag
<1>4. r \in Record /\ r.id = dev.rec.id /\ r.seq = dev.rec.seq /\ r.desc = dev.rec.desc
    BY <1>1, <1>3, FieldsSet
<1>5. /\ dev' \in Device /\ dev'.at = at /\ dev'.rec = r
      /\ dev'.ready = dev.ready /\ dev'.me = dev.me /\ dev'.seq = dev.seq
      /\ dev'.member = dev.member /\ dev'.status = dev.status
    BY <1>1, <1>2, <1>3, <1>4 DEF Device, Step
<1>6. r.id = dev.me /\ spent[dev.me] <= r.seq
    BY <1>1, <1>4 DEF IInv, Owner
<1>7. /\ nvs' \in Nvs /\ KeyBook' /\ NoKeyLost /\ NoWitnessLost
      /\ nvs'.state.form = "v3" /\ nvs'.state.rec.id = dev.me
      /\ nvs'.state = nvs.state \/ nvs'.state.rec = r
    <2>1. CASE nvs' = nvs
        BY <1>1, <2>1, NvsStays, BookStays DEF IInv, Owner, BootCredit
    <2>2. CASE \E w \in Save(nvs, r) : nvs' = w.nvs
        BY <1>1, <1>4, <1>6, <2>2, OwnerSaves, SavedBook DEF BootCredit
    <2> QED BY <1>3, <2>1, <2>2
<1>8. dev.member => nvs'.state.rec.desc = "signed"
    BY <1>1, <1>4, <1>7 DEF IInv, Owner
<1>9. Types' /\ Stages' /\ Owner'
    BY <1>1, <1>3, <1>4, <1>5, <1>6, <1>7, <1>8
    DEF IInv, Types, Stages, Owner, Early, BootCredit
<1> QED BY <1>7, <1>9 DEF IInv

LEMMA LoadWindowInv ==
    ASSUME IInv, LoadWindow
    PROVE  IInv' /\ NoKeyLost /\ NoWitnessLost
<1>1. /\ dev.at = "window" /\ dev \in Device /\ dev.seq \in 1 .. SeqMax + 1
      /\ window # None => window \in SUBSET Held
    BY DEF IInv, Types, LoadWindow, Device
<1>2. KeyBook' /\ NoKeyLost /\ NoWitnessLost
    BY BookStays, NvsStays DEF LoadWindow
<1>3. PICK d \in SUBSET Held, n \in 1 .. SeqMax + 1 :
          /\ dev.seq <= n
          /\ dev' = [dev EXCEPT !.at = "running", !.dag = d, !.seq = n]
          /\ window' = None \/ window' \in SUBSET Held
    <2>1. CASE /\ window # None
               /\ LET clean == IF dev.member THEN {t \in window : t.new} ELSE window
                  IN  /\ dev' = [dev EXCEPT !.at = "running", !.dag = clean,
                                            !.seq = Raised(clean, dev.me, dev.seq)]
                      /\ window' \in {window, clean}
        <3> DEFINE clean == IF dev.member THEN {t \in window : t.new} ELSE window
        <3>1. clean \in SUBSET Held
            BY <1>1, <2>1
        <3> HIDE DEF clean
        <3>2. /\ Raised(clean, dev.me, dev.seq) \in 1 .. SeqMax + 1
              /\ dev.seq <= Raised(clean, dev.me, dev.seq)
            BY <1>1, <3>1, RaisedIs
        <3>3. window' = None \/ window' \in SUBSET Held
            BY <1>1, <2>1, <3>1 DEF clean
        <3>4. dev' = [dev EXCEPT !.at = "running", !.dag = clean,
                                 !.seq = Raised(clean, dev.me, dev.seq)]
            BY <2>1 DEF clean
        <3> QED BY <3>1, <3>2, <3>3, <3>4
    <2>2. CASE dev' = [dev EXCEPT !.at = "running"] /\ UNCHANGED window
        <3>1. dev' = [dev EXCEPT !.at = "running", !.dag = dev.dag, !.seq = dev.seq]
            BY <1>1, <2>2 DEF Device
        <3>2. dev.dag \in SUBSET Held /\ dev.seq <= dev.seq
            BY <1>1, RecordStoreAssumption DEF Device
        <3> QED BY <1>1, <2>2, <3>1, <3>2
    <2>3. CASE dev' = [dev EXCEPT !.at = "running", !.dag = {}] /\ UNCHANGED window
        <3>1. dev' = [dev EXCEPT !.at = "running", !.dag = {}, !.seq = dev.seq]
            BY <1>1, <2>3 DEF Device
        <3>2. dev.seq <= dev.seq
            BY <1>1, RecordStoreAssumption
        <3> QED BY <1>1, <2>3, <3>1, <3>2
    <2> QED BY <2>1, <2>2, <2>3 DEF LoadWindow
<1>4. /\ dev' \in Device /\ dev'.at = "running" /\ dev'.seq = n /\ dev'.rec = dev.rec
      /\ dev'.ready = dev.ready /\ dev'.me = dev.me
      /\ dev'.member = dev.member /\ dev'.status = dev.status
    BY <1>1, <1>3 DEF Device, Step
<1>5. dev.ready => spent[dev.me] <= n
    <2> SUFFICES ASSUME dev.ready PROVE spent[dev.me] <= n
        OBVIOUS
    <2>1. spent[dev.me] \in 1 .. SeqMax + 1 /\ spent[dev.me] <= dev.seq
        BY DEF IInv, Types, Owner
    <2> QED BY <1>1, <1>3, <2>1, RecordStoreAssumption
<1>6. Types' /\ Stages'
    BY <1>3, <1>4 DEF IInv, Types, Stages, Early, LoadWindow
<1>7. Owner'
    BY <1>4, <1>5 DEF IInv, Owner, LoadWindow
<1> QED BY <1>2, <1>6, <1>7 DEF IInv

-----------------------------------------------------------------------------
(* The running device. *)

LEMMA PayInv ==
    ASSUME IInv, Pay
    PROVE  IInv' /\ NoKeyLost /\ NoWitnessLost
<1> DEFINE seq == dev.seq + 1
           t == Payment(dev.me, dev.seq, dev.member)
           r == Persisted(seq)
<1>1. /\ dev.at = "running" /\ dev.ready /\ dev \in Device /\ nvs \in Nvs
      /\ dev.rec \in Record /\ dev.me \in Identity /\ dev.rec.id = dev.me
      /\ dev.seq \in 1 .. SeqMax
    BY RecordStoreAssumption DEF IInv, Types, Owner, Pay, Running, Device
<1>2. PICK w \in Save(nvs, r) :
          /\ nvs' = w.nvs
          /\ IF w.ok
             THEN /\ dev' = [dev EXCEPT !.seq = seq, !.rec = r,
                                        !.dag = @ \cup {t}, !.dirty = TRUE]
                  /\ spent' = [spent EXCEPT ![dev.me] = IF seq > @ THEN seq ELSE @]
             ELSE /\ dev' = [dev EXCEPT !.rec = r]
                  /\ UNCHANGED spent
    BY DEF Pay
<1>3. seq \in 1 .. SeqMax + 1 /\ seq \in 0 .. SeqMax + 1
    BY <1>1, RecordStoreAssumption
<1>4. r \in Record /\ r.id = dev.me /\ r.seq = seq /\ r.desc = dev.rec.desc
    <2> HIDE DEF seq
    <2> QED BY <1>1, <1>3 DEF Persisted, Record
<1>5. dev.dag \cup {t} \in SUBSET Held
    <2>1. dev.seq \in 0 .. SeqMax /\ dev.member \in BOOLEAN /\ dev.dag \in SUBSET Held
        BY <1>1, RecordStoreAssumption DEF Device
    <2>2. t \in Held
        BY <1>1, <2>1 DEF Payment, Held
    <2> QED BY <2>1, <2>2
<1>6. spent[dev.me] \in 1 .. SeqMax + 1 /\ spent[dev.me] <= dev.seq /\ spent[dev.me] <= seq
    BY <1>1, RecordStoreAssumption DEF IInv, Types, Owner
<1>7. /\ nvs' \in Nvs /\ NoKeyLost /\ NoWitnessLost
      /\ nvs'.state.form = "v3" /\ nvs'.state.rec.id = dev.me
      /\ nvs'.state = nvs.state \/ nvs'.state.rec = r
      /\ w.ok => nvs'.state.rec = r
    BY <1>1, <1>2, <1>4, OwnerSaves
<1>8. UNCHANGED <<window, born>> /\ dev.me \in born /\ dev.me # None
    BY <1>1, RecordStoreAssumption DEF Pay, IInv, Owner, KeyBook
<1>9. dev.member => nvs'.state.rec.desc = "signed"
    BY <1>1, <1>4, <1>7 DEF IInv, Owner
<1> HIDE DEF r, t, seq
<1>10. CASE w.ok
    <2>1. dev' = [dev EXCEPT !.seq = seq, !.rec = r, !.dag = dev.dag \cup {t}, !.dirty = TRUE]
        BY <1>2, <1>10
    <2>2. /\ dev' \in Device /\ dev'.at = dev.at /\ dev'.seq = seq /\ dev'.rec = r
          /\ dev'.ready = dev.ready /\ dev'.me = dev.me
          /\ dev'.member = dev.member /\ dev'.status = dev.status
        BY <1>1, <1>3, <1>4, <1>5, <2>1 DEF Device, Step
    <2>3. /\ spent' \in [Identity -> 1 .. SeqMax + 1]
          /\ spent'[dev.me] <= seq
          /\ \A i \in Identity : i # dev.me => spent'[i] = spent[i]
        <3>1. spent \in [Identity -> 1 .. SeqMax + 1]
            BY DEF IInv, Types
        <3> QED BY <1>1, <1>2, <1>3, <1>6, <1>10, <3>1, RecordStoreAssumption
    <2>4. KeyBook'
        <3>1. \A i \in Identity \ born' : spent'[i] = 1
            BY <1>8, <2>3 DEF IInv, KeyBook
        <3>2. nvs'.state.rec = r
            BY <1>7, <1>10
        <3> QED BY <1>4, <1>8, <2>3, <3>1, <3>2 DEF KeyBook
    <2>5. Types' /\ Stages' /\ Owner'
        BY <1>1, <1>4, <1>7, <1>8, <1>9, <2>2, <2>3 DEF IInv, Types, Stages, Owner, Early
    <2> QED BY <1>7, <2>4, <2>5 DEF IInv
<1>11. CASE ~w.ok
    <2>1. dev' = [dev EXCEPT !.rec = r] /\ UNCHANGED spent
        BY <1>2, <1>11
    <2>2. /\ dev' \in Device /\ dev'.at = dev.at /\ dev'.seq = dev.seq /\ dev'.rec = r
          /\ dev'.ready = dev.ready /\ dev'.me = dev.me
          /\ dev'.member = dev.member /\ dev'.status = dev.status
        BY <1>1, <1>4, <2>1 DEF Device
    <2>3. KeyBook'
        BY <1>1, <1>2, <1>4, <1>6, <1>8, <2>1, SavedBook
    <2>4. Types' /\ Stages' /\ Owner'
        BY <1>1, <1>4, <1>6, <1>7, <1>8, <1>9, <2>1, <2>2 DEF IInv, Types, Stages, Owner, Early
    <2> QED BY <1>7, <2>3, <2>4 DEF IInv
<1> QED BY <1>10, <1>11

LEMMA SetPinInv ==
    ASSUME IInv, SetPin
    PROVE  IInv' /\ NoKeyLost /\ NoWitnessLost
<1> DEFINE r == WithPin(dev.rec)
<1>1. /\ dev.at = "running" /\ dev.ready /\ dev \in Device /\ nvs \in Nvs /\ dev.rec \in Record
      /\ dev.rec.id = dev.me
    BY DEF IInv, Types, Owner, SetPin, Running, Device
<1>2. r \in Record /\ r.id = dev.me /\ r.seq = dev.rec.seq /\ r.desc = dev.rec.desc
    BY <1>1, FieldsSet
<1>3. PICK w \in Save(nvs, r) : nvs' = w.nvs
    BY DEF SetPin
<1>4. dev' = [dev EXCEPT !.rec = r]
    BY DEF SetPin
<1> HIDE DEF r
<1>5. /\ dev' \in Device /\ dev'.at = dev.at /\ dev'.seq = dev.seq /\ dev'.rec = r
      /\ dev'.ready = dev.ready /\ dev'.me = dev.me
      /\ dev'.member = dev.member /\ dev'.status = dev.status
    BY <1>1, <1>2, <1>4 DEF Device
<1>6. spent[dev.me] <= r.seq
    BY <1>1, <1>2 DEF IInv, Owner
<1>7. /\ nvs' \in Nvs /\ KeyBook' /\ NoKeyLost /\ NoWitnessLost
      /\ nvs'.state.form = "v3" /\ nvs'.state.rec.id = dev.me
      /\ nvs'.state = nvs.state \/ nvs'.state.rec = r
    BY <1>1, <1>2, <1>3, <1>6, OwnerSaves, SavedBook DEF SetPin
<1>8. dev.member => nvs'.state.rec.desc = "signed"
    BY <1>1, <1>2, <1>7 DEF IInv, Owner
<1>9. Types' /\ Stages' /\ Owner'
    BY <1>1, <1>2, <1>5, <1>6, <1>7, <1>8 DEF IInv, Types, Stages, Owner, Early, SetPin
<1> QED BY <1>7, <1>9 DEF IInv

LEMMA ImportInv ==
    ASSUME IInv, Import
    PROVE  IInv' /\ NoKeyLost /\ NoWitnessLost
<1> DEFINE r == WithDescriptor(dev.rec)
           dag == {t \in dev.dag : t.new}
           dirty == dev.dirty \/ \E t \in dev.dag : ~t.new
<1>1. /\ dev.at = "running" /\ dev.ready /\ dev \in Device /\ nvs \in Nvs /\ dev.rec \in Record
      /\ dev.rec.id = dev.me /\ ~dev.member
    BY DEF IInv, Types, Owner, Import, Running, Device
<1>2. r \in Record /\ r.id = dev.me /\ r.seq = dev.rec.seq /\ r.desc = "signed"
    BY <1>1, FieldsSet
<1>3. PICK w \in Save(nvs, r) : nvs' = w.nvs /\ dev' = IF w.ok THEN Adopted(dev.dag) ELSE dev
    BY DEF Import
<1>4. Adopted(dev.dag) = [dev EXCEPT !.rec = r, !.member = TRUE, !.dag = dag, !.dirty = dirty]
    BY DEF Adopted
<1>5. dag \in SUBSET Held /\ dirty \in BOOLEAN
    BY <1>1 DEF Device
<1> HIDE DEF r, dag, dirty
<1>6. spent[dev.me] <= r.seq
    BY <1>1, <1>2 DEF IInv, Owner
<1>7. /\ nvs' \in Nvs /\ KeyBook' /\ NoKeyLost /\ NoWitnessLost
      /\ nvs'.state.form = "v3" /\ nvs'.state.rec.id = dev.me
      /\ w.ok => nvs'.state.rec = r
    BY <1>1, <1>2, <1>3, <1>6, OwnerSaves, SavedBook DEF Import
<1>8. CASE w.ok
    <2>1. /\ dev' \in Device /\ dev'.at = dev.at /\ dev'.seq = dev.seq /\ dev'.rec = r
          /\ dev'.ready = dev.ready /\ dev'.me = dev.me /\ dev'.status = dev.status
        BY <1>1, <1>2, <1>3, <1>4, <1>5, <1>8 DEF Device
    <2>2. Types' /\ Stages' /\ Owner'
        BY <1>1, <1>2, <1>6, <1>7, <1>8, <2>1 DEF IInv, Types, Stages, Owner, Early, Import
    <2> QED BY <1>7, <2>2 DEF IInv
<1>9. CASE ~w.ok
    <2>1. Types' /\ Stages' /\ Owner'
        BY <1>1, <1>3, <1>7, <1>9 DEF IInv, Types, Stages, Owner, Early, Import
    <2> QED BY <1>7, <2>1 DEF IInv
<1> QED BY <1>8, <1>9

LEMMA HearInv ==
    ASSUME IInv, Hear
    PROVE  IInv' /\ NoKeyLost /\ NoWitnessLost
<1> DEFINE dag == dev.dag \cup {Heard}
<1>1. dev.at = "running" /\ dev \in Device
    BY DEF IInv, Types, Hear, Running
<1>2. dag \in SUBSET Held
    <2>1. 0 \in 0 .. SeqMax
        BY RecordStoreAssumption
    <2>2. Heard \in Held
        BY <2>1 DEF Heard, Held
    <2>3. dev.dag \in SUBSET Held
        BY <1>1 DEF Device
    <2> QED BY <2>2, <2>3
<1>3. dev' = [dev EXCEPT !.dag = dag, !.dirty = TRUE]
    BY DEF Hear
<1> HIDE DEF dag
<1>4. /\ dev' \in Device /\ dev'.at = dev.at /\ dev'.seq = dev.seq /\ dev'.rec = dev.rec
      /\ dev'.ready = dev.ready /\ dev'.me = dev.me
      /\ dev'.member = dev.member /\ dev'.status = dev.status
    BY <1>1, <1>2, <1>3 DEF Device
<1>5. KeyBook' /\ NoKeyLost /\ NoWitnessLost
    BY BookStays, NvsStays DEF Hear
<1>6. Types' /\ Stages' /\ Owner'
    BY <1>1, <1>4 DEF IInv, Types, Stages, Owner, Early, Hear
<1> QED BY <1>5, <1>6 DEF IInv

LEMMA FlushWindowInv ==
    ASSUME IInv, FlushWindow
    PROVE  IInv' /\ NoKeyLost /\ NoWitnessLost
<1>1. dev.at = "running" /\ dev \in Device /\ dev.dag \in SUBSET Held
    BY DEF IInv, Types, FlushWindow, Running, Device
<1>2. /\ dev' \in Device /\ dev'.at = dev.at /\ dev'.seq = dev.seq /\ dev'.rec = dev.rec
      /\ dev'.ready = dev.ready /\ dev'.me = dev.me
      /\ dev'.member = dev.member /\ dev'.status = dev.status
    BY <1>1 DEF Device, FlushWindow
<1>3. KeyBook' /\ NoKeyLost /\ NoWitnessLost
    BY BookStays, NvsStays DEF FlushWindow
<1>4. Types' /\ Stages' /\ Owner'
    BY <1>1, <1>2 DEF IInv, Types, Stages, Owner, Early, FlushWindow
<1> QED BY <1>3, <1>4 DEF IInv

(* The device at rest. *)
LEMMA OffIs ==
    Off \in Device /\ ~Off.ready /\ Off.at = "off" /\ Off.status = "OK"
<1>1. Blank \in Record
    BY RecordStoreAssumption DEF Blank, Record, Descriptor
<1> QED BY <1>1, RecordStoreAssumption DEF Off, Device, Step

LEMMA ResetInv ==
    ASSUME IInv, Reset
    PROVE  IInv'
<1>1. dev.at = "running" /\ dev \in Device /\ ~dev.ready /\ nvs \in Nvs
    BY DEF IInv, Types, Owner, Reset, Running
<1>2. PICK w \in Erase(nvs) : nvs' = w.nvs /\ dev' = IF w.ok THEN Off ELSE dev
    BY DEF Reset
<1>3. nvs' \in Nvs /\ (nvs'.state = nvs.state \/ nvs'.state = NoBlob)
    BY <1>1, <1>2, WriteIs DEF Erase
<1>4. KeyBook'
    <2>1. CASE nvs'.state = nvs.state
        BY <2>1, BookStays DEF Reset
    <2>2. CASE nvs'.state = NoBlob
        BY <2>2, NoBlobIs DEF IInv, KeyBook, Reset
    <2> QED BY <1>3, <2>1, <2>2
<1>5. Types'
    BY <1>1, <1>2, <1>3, OffIs DEF IInv, Types, Reset
<1>6. Stages' /\ Owner'
    BY <1>1, <1>2, OffIs DEF Stages, Owner, Early
<1> QED BY <1>4, <1>5, <1>6 DEF IInv

-----------------------------------------------------------------------------
(* Around the device. *)

LEMMA PowerCutInv ==
    ASSUME IInv, PowerCut
    PROVE  IInv' /\ NoKeyLost /\ NoWitnessLost
<1>1. KeyBook' /\ NoKeyLost /\ NoWitnessLost
    BY BookStays, NvsStays DEF PowerCut
<1>2. Types' /\ Stages' /\ Owner'
    BY OffIs DEF IInv, Types, Stages, Owner, Early, PowerCut
<1> QED BY <1>1, <1>2 DEF IInv

LEMMA ReflashInv ==
    ASSUME IInv, Reflash
    PROVE  IInv' /\ NoKeyLost /\ NoWitnessLost
<1>1. dev.at = "off" /\ ~dev.ready /\ dev.status = "OK" /\ nvs \in Nvs /\ nvs.state.form = "v3"
    BY DEF IInv, Types, Stages, Early, Reflash
<1>2. PICK form \in {"future", "damaged"} : nvs' = [nvs EXCEPT !.state.form = form]
    BY DEF Reflash
<1>3. nvs.state \in Blob
    BY <1>1, NoBlobIs DEF Nvs
<1>4. /\ nvs'.state = [nvs.state EXCEPT !.form = form] /\ nvs'.backup = nvs.backup
      /\ nvs' = [nvs EXCEPT !.state = nvs'.state]
    BY <1>1, <1>2 DEF Nvs
<1>5. nvs'.state \in Blob /\ nvs'.state.rec = nvs.state.rec
    BY <1>3, <1>4 DEF Blob, Form
<1>6. nvs' \in Nvs
    BY <1>1, <1>4, <1>5 DEF Nvs
<1>7. KeyBook'
    BY <1>1, <1>5, BookStays, NoBlobIs DEF Reflash
<1>8. NoKeyLost
    BY <1>4, <1>5 DEF NoKeyLost, Kept, KeptNext
<1>9. NoWitnessLost
    BY <1>1, <1>4 DEF NoWitnessLost, Probe, Readable
<1>10. Types' /\ Stages' /\ Owner'
    BY <1>1, <1>6 DEF IInv, Types, Stages, Owner, Early, Reflash
<1> QED BY <1>7, <1>8, <1>9, <1>10 DEF IInv

-----------------------------------------------------------------------------
(* Every step, and the theorems. *)

LEMMA NextInv ==
    ASSUME IInv, [Next]_vars
    PROVE  /\ IInv'
           /\ Reset \/ WipeNvs \/ (NoKeyLost /\ NoWitnessLost)
<1>1. CASE Boot
    BY <1>1, PowerOnInv, OpenNvsInv, WipeNvsInv, LoadInv, GiveUpInv, ArchiveOldInv, ConvertInv,
       CreateInv, EnsureAliasInv, BootCreditInv, LoadWindowInv DEF Boot
<1>2. CASE Run
    BY <1>2, PayInv, SetPinInv, ImportInv, HearInv, FlushWindowInv DEF Run
<1>3. CASE Reset
    BY <1>3, ResetInv
<1>4. CASE PowerCut
    BY <1>4, PowerCutInv
<1>5. CASE Reflash
    BY <1>5, ReflashInv
<1>6. CASE UNCHANGED vars
    <2>1. IInv' = IInv
        BY <1>6 DEF vars, IInv, Types, KeyBook, Stages, Owner
    <2> QED BY <1>6, <2>1, NvsStays DEF vars
<1> QED BY <1>1, <1>2, <1>3, <1>4, <1>5, <1>6 DEF Next

LEMMA Invariance == Spec => []IInv
<1>1. IInv /\ [Next]_vars => IInv'
    BY NextInv
<1> QED BY InitInv, <1>1, PTL DEF Spec

(* NVS, the window partition, the device and the numbers spent keep their  *)
(* shape, whatever fails.                                                   *)
THEOREM TypeCorrect == Spec => []TypeOK
<1>1. IInv => TypeOK
    <2> SUFFICES ASSUME IInv PROVE TypeOK
        OBVIOUS
    <2>1. dev.at \in Step /\ dev.rec \in Record /\ dev.seq \in 1 .. SeqMax + 1
          /\ dev.me \in Identity \cup {None, Ghost}
        BY DEF IInv, Types, Device
    <2>2. window = None \/ \A t \in window : t.by \in Identity \cup {None, Ghost}
        BY DEF IInv, Types, Held
    <2> QED BY <2>1, <2>2 DEF TypeOK, IInv, Types, Nvs
<1> QED BY <1>1, Invariance, PTL

(* A wallet that runs on its record runs under the key its flash holds, and *)
(* as a member only of a currency its flash holds the descriptor of.        *)
THEOREM Stored == Spec => []RunsAsStored
<1>1. IInv => RunsAsStored
    BY DEF IInv, Owner, RunsAsStored
<1> QED BY <1>1, Invariance, PTL

(* After any boots, failed writes and losses of the window, a wallet never *)
(* runs with a counter below a number its key has signed with.              *)
THEOREM NumbersAhead == Spec => []CounterAhead
<1>1. IInv => CounterAhead
    BY DEF IInv, Owner, CounterAhead
<1> QED BY <1>1, Invariance, PTL

(* No step but the user's reset and the wipe of a NVS that does not open   *)
(* loses the last copy of a key, in whatever form it is kept.               *)
THEOREM NoKeyIsLost == Spec => KeysSurvive
<1>1. IInv /\ [Next]_vars => [Reset \/ WipeNvs \/ Kept \subseteq KeptNext]_vars
    BY NextInv DEF NoKeyLost
<1> QED BY <1>1, Invariance, PTL DEF Spec, KeysSurvive

(* What this firmware cannot read is left in place, but for a struct of    *)
(* schema 2 that has a witness; and a witness is never replaced.            *)
THEOREM NoWitnessIsLost == Spec => WitnessKept
<1>1. IInv /\ [Next]_vars =>
          [\/ Reset
           \/ WipeNvs
           \/ /\ nvs.backup # NoBlob => nvs'.backup = nvs.backup
              /\ Probe(nvs) \in {"LEGACY", "CORRUPT"} /\ nvs'.state # nvs.state
                    => nvs.state.form = "v2" /\ nvs.backup # NoBlob]_vars
    BY NextInv DEF NoWitnessLost
<1> QED BY <1>1, Invariance, PTL DEF Spec, WitnessKept

=============================================================================
