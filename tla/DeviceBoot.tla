----------------------------- MODULE DeviceBoot -----------------------------
(***************************************************************************)
(* The life of one device through its boots: the record that makes it a    *)
(* wallet is loaded, migrated, archived or created, the boot credit of the *)
(* fallback currency minted or restored, the window read back from its own *)
(* partition, and the running device saves the record for a payment, a PIN *)
(* or a currency it joins.  Any write may fail and the power may go        *)
(* between any two of them.                                                *)
(*                                                                         *)
(* The window is the set of transactions of the ledger modules, reduced to *)
(* boot credits, payments of one's own and what is heard; whether a window *)
(* survives a power cut is FlashPartition's business, and what a member    *)
(* does with a checkpoint is MeshLedger's.                                 *)
(***************************************************************************)
EXTENDS RecordStore

CONSTANTS
    Ghost,          \* the identity of a device without a record, never saved
    Mishaps         \* bound: times NVS is wiped or another firmware rewrites it

ASSUME DeviceBootAssumption == Ghost \notin Identity \cup {None} /\ Mishaps \in Nat

VARIABLES
    nvs,        \* record and backup
    window,     \* what the window partition holds, None before a first save
    dev,        \* the device in RAM
    born,       \* identities drawn so far
    spent,      \* spent[i]: sequence numbers below it may have been used by i
    left        \* what is left of Mishaps

vars == <<nvs, window, dev, born, spent, left>>

(* A boot is a sequence of steps; "running" is what it comes to, and "dead" *)
(* what it returns to when the boot credit cannot be set up.                *)
Step == {"off", "nvs", "load", "archive", "convert", "giveUp", "create", "alias",
         "credit", "window", "running", "dead"}

Credit(i) == [kind |-> "credit", by |-> i, seq |-> 0, new |-> FALSE]

Payment(i, n, new) == [kind |-> "pay", by |-> i, seq |-> n, new |-> new]

Heard == [kind |-> "heard", by |-> None, seq |-> 0, new |-> FALSE]

(* open: NVS could be opened; ready: the record is in use.  seq is the     *)
(* counter of the wallet, rec the copy of the record, which lags behind it. *)
(* status is what the screens say of the storage.                          *)
Off == [at |-> "off", open |-> FALSE, ready |-> FALSE, me |-> None, rec |-> Blank, seq |-> 1,
        member |-> FALSE, dag |-> {}, dirty |-> FALSE, status |-> "OK"]

On(at) == dev' = [dev EXCEPT !.at = at]

OldRecord ==
    {[id |-> i, seq |-> s, named |-> a, pin |-> FALSE, credit |-> TRUE, desc |-> d] :
        i \in Identity, s \in 1 .. SeqMax + 1, a \in BOOLEAN, d \in Descriptor}

(* A device leaves the factory with nothing, or was run by an earlier      *)
(* firmware, which saved a window too or did not.                          *)
Init ==
    /\ \E i \in Identity, r \in OldRecord, form \in Form \cup {"none"} :
          /\ r.id = i
          /\ nvs = [state |-> IF form = "none" THEN NoBlob ELSE [form |-> form, rec |-> r],
                    backup |-> NoBlob]
          /\ born = IF form = "none" THEN {} ELSE {i}
          /\ window \in IF form = "none" THEN {None} ELSE {None, {Credit(i)}}
          /\ spent = [j \in Identity |->
                          IF j = i /\ form # "none" THEN r.seq ELSE 1]
    /\ dev = Off
    /\ left = Mishaps

-----------------------------------------------------------------------------
(* Booting. *)

PowerOn ==
    /\ dev.at = "off"
    /\ On("nvs")
    /\ UNCHANGED <<nvs, window, born, spent, left>>

(* What the screens say of the storage: a probe that found the record sound *)
(* before a later step failed is an error like any other.                   *)
Status(probe) == IF probe \in {"LEGACY", "CORRUPT"} THEN probe ELSE "ERROR"

(* A device that cannot use its record runs for the mesh, under an identity *)
(* of its own that it does not save, and its screens say so.                *)
WithoutRecord(probe) ==
    dev' = [dev EXCEPT !.at = "window", !.ready = FALSE, !.me = Ghost, !.rec = Blank,
                       !.status = Status(probe)]

OpenNvs ==
    /\ dev.at = "nvs"
    /\ \E w \in Open(nvs) :
          IF w.ok THEN dev' = [dev EXCEPT !.at = "load", !.open = TRUE]
          ELSE WithoutRecord("ERROR")
    /\ UNCHANGED <<nvs, window, born, spent, left>>

WipeNvs ==
    /\ dev.at = "nvs" /\ left > 0
    /\ left' = left - 1
    /\ nvs' = Wiped
    /\ \E w \in Open(Wiped) :
          IF w.ok THEN dev' = [dev EXCEPT !.at = "load", !.open = TRUE]
          ELSE WithoutRecord("ERROR")
    /\ UNCHANGED <<window, born, spent>>

(* The descriptor of the record is a blob to the storage: its map may not   *)
(* decode, and its body may not be what its founder signed.                 *)
Decodes(r) == r.desc \in {"signed", "forged"}

Verified(r) == r.desc = "signed"

(* The rules of the descriptor, or those of the fallback currency if there  *)
(* is none that can be used.                                                *)
Member(r) == Decodes(r) /\ Verified(r)

(* The record as it is loaded. *)
Use(r) ==
    dev' = [dev EXCEPT !.at = "alias", !.ready = TRUE, !.me = r.id, !.rec = r,
                       !.seq = IF r.seq = 0 THEN 1 ELSE r.seq,
                       !.member = Member(r)]

Load ==
    /\ dev.at = "load"
    /\ \/ Probe(nvs) = "OK" /\ Use(nvs.state.rec)
       \/ Probe(nvs) = "EMPTY" /\ On("create")
       \/ Probe(nvs) = "LEGACY" /\ On(IF Converts(nvs.state) THEN "archive" ELSE "giveUp")
       \/ Probe(nvs) = "CORRUPT" /\ On("giveUp")
       \/ IoFails /\ WithoutRecord("ERROR")
    /\ UNCHANGED <<nvs, window, born, spent, left>>

(* What cannot be read is archived if that can be done, and left in place. *)
GiveUp ==
    /\ dev.at = "giveUp"
    /\ \E w \in Archive(nvs) : nvs' = w.nvs
    /\ WithoutRecord(IF nvs.state.form = "v2bad" THEN "CORRUPT" ELSE Probe(nvs))
    /\ UNCHANGED <<window, born, spent, left>>

(* Faulty variant of ArchiveOld: an archive that fails does not stop it. *)
ArchiveOldAnyway ==
    /\ dev.at = "archive"
    /\ \E w \in Archive(nvs) : nvs' = w.nvs
    /\ On("convert")
    /\ UNCHANGED <<window, born, spent, left>>

(* A struct of schema 2 is converted once a witness is in the backup. *)
ArchiveOld ==
    /\ dev.at = "archive"
    /\ \E w \in Archive(nvs) :
          /\ nvs' = w.nvs
          /\ IF w.ok THEN On("convert") ELSE WithoutRecord("LEGACY")
    /\ UNCHANGED <<window, born, spent, left>>

Convert ==
    /\ dev.at = "convert"
    /\ \E w \in Save(nvs, nvs.state.rec) :
          /\ nvs' = w.nvs
          /\ IF w.ok THEN Use(nvs.state.rec) ELSE WithoutRecord("LEGACY")
    /\ UNCHANGED <<window, born, spent, left>>

Create ==
    /\ dev.at = "create"
    /\ \E i \in Identity \ born :
          LET r == [WithAlias(WithIdentity(Blank, i)) EXCEPT !.seq = 1]
          IN  /\ born' = born \cup {i}
              /\ \E w \in Save(nvs, r) :
                    /\ nvs' = w.nvs
                    /\ IF w.ok THEN Use(r) ELSE WithoutRecord("ERROR")
    /\ UNCHANGED <<window, spent, left>>

(* A record without a name is given one; it is used even if it is not saved. *)
EnsureAlias ==
    /\ dev.at = "alias"
    /\ IF dev.rec.named THEN UNCHANGED nvs
       ELSE \E w \in Save(nvs, WithAlias(dev.rec)) : nvs' = w.nvs
    /\ dev' = [dev EXCEPT !.rec = WithAlias(@), !.at = IF dev.member THEN "window" ELSE "credit"]
    /\ UNCHANGED <<window, born, spent, left>>

(* The boot credit: minted and saved once, restored from then on.  A boot  *)
(* that cannot save it stops there.                                        *)
BootCredit ==
    /\ dev.at = "credit"
    /\ \/ /\ dev.rec.credit
          /\ dev' = [dev EXCEPT !.at = "window", !.dag = @ \cup {Credit(dev.me)}]
          /\ UNCHANGED nvs
       \/ /\ ~dev.rec.credit
          /\ \E w \in Save(nvs, WithCredit(dev.rec)) :
                /\ nvs' = w.nvs
                /\ dev' = [dev EXCEPT !.at = IF w.ok THEN "window" ELSE "dead",
                                      !.rec = WithCredit(@),
                                      !.dag = @ \cup {Credit(dev.me)}]
    /\ UNCHANGED <<window, born, spent, left>>

(* Faulty variant of Raised: a number is skipped at every boot. *)
RaisedTwice(d, i, seq) ==
    LET above == {t.seq + 2 : t \in {u \in d : u.kind = "pay" /\ u.by = i}} \cup {seq}
    IN  CHOOSE n \in above : \A m \in above : m <= n

(* next_seq above every number of one's own in a window. *)
Raised(d, i, seq) ==
    LET above == {t.seq + 1 : t \in {u \in d : u.kind = "pay" /\ u.by = i}} \cup {seq}
    IN  CHOOSE n \in above : \A m \in above : m <= n

(* The window found in flash replaces the one in RAM, boot credit included; *)
(* a member cleans it of other registries, and saves it if that changed it. *)
LoadWindow ==
    /\ dev.at = "window"
    /\ \/ /\ window # None
          /\ LET clean == IF dev.member THEN {t \in window : t.new} ELSE window
             IN  /\ dev' = [dev EXCEPT !.at = "running", !.dag = clean,
                                       !.seq = Raised(clean, dev.me, dev.seq)]
                 /\ window' \in {window, clean}
       \/ /\ window = None \/ IoFails
          /\ dev' = [dev EXCEPT !.at = "running"]
          /\ UNCHANGED window
       \/ /\ window # None /\ IoFails
          /\ dev' = [dev EXCEPT !.at = "running", !.dag = {}]
          /\ UNCHANGED window
    /\ UNCHANGED <<nvs, born, spent, left>>

-----------------------------------------------------------------------------
(* Running. *)

Running == dev.at = "running"

(* Faulty variant of Persisted: the counter is left out of the save. *)
PersistedStale(seq) == dev.rec

(* The copy of the record a payment or a receipt saves. *)
Persisted(seq) == [dev.rec EXCEPT !.seq = seq]

(* A payment takes a number, saves the counter, and only then commits; the *)
(* number is given back if the save fails, and the copy keeps the new one. *)
Pay ==
    /\ Running /\ dev.ready /\ dev.seq <= SeqMax
    /\ dev.member \/ Credit(dev.me) \in dev.dag
    /\ LET seq == dev.seq + 1
           t == Payment(dev.me, dev.seq, dev.member)
       IN  \E w \in Save(nvs, Persisted(seq)) :
              /\ nvs' = w.nvs
              /\ IF w.ok
                 THEN /\ dev' = [dev EXCEPT !.seq = seq, !.rec = Persisted(seq),
                                            !.dag = @ \cup {t}, !.dirty = TRUE]
                      /\ spent' = [spent EXCEPT ![dev.me] = IF seq > @ THEN seq ELSE @]
                 ELSE /\ dev' = [dev EXCEPT !.rec = Persisted(seq)]
                      /\ UNCHANGED spent
    /\ UNCHANGED <<window, born, left>>

(* The PIN stays in the copy of the record when its save fails. *)
SetPin ==
    /\ Running /\ dev.ready
    /\ \E w \in Save(nvs, WithPin(dev.rec)) : nvs' = w.nvs
    /\ dev' = [dev EXCEPT !.rec = WithPin(@)]
    /\ UNCHANGED <<window, born, spent, left>>

Adopted(d) == [dev EXCEPT !.rec = WithDescriptor(@), !.member = TRUE,
                          !.dag = {t \in d : t.new},
                          !.dirty = @ \/ \E t \in d : ~t.new]

(* Faulty variant of Import: the rules apply before the save, and stay. *)
ImportFirst ==
    /\ Running /\ dev.ready /\ ~dev.member
    /\ \E w \in Save(nvs, WithDescriptor(dev.rec)) : nvs' = w.nvs
    /\ dev' = Adopted(dev.dag)
    /\ UNCHANGED <<window, born, spent, left>>

(* Create a currency or join one: the descriptor is saved before its rules *)
(* apply, and the copy of the record is put back if the save fails.        *)
Import ==
    /\ Running /\ dev.ready /\ ~dev.member
    /\ \E w \in Save(nvs, WithDescriptor(dev.rec)) :
          nvs' = w.nvs /\ dev' = IF w.ok THEN Adopted(dev.dag) ELSE dev
    /\ UNCHANGED <<window, born, spent, left>>

(* In the fallback currency anything heard is kept; a member refuses what  *)
(* is not of its currency.                                                 *)
Hear ==
    /\ Running /\ ~dev.member /\ Heard \notin dev.dag
    /\ dev' = [dev EXCEPT !.dag = @ \cup {Heard}, !.dirty = TRUE]
    /\ UNCHANGED <<nvs, window, born, spent, left>>

FlushWindow ==
    /\ Running /\ dev.dirty
    /\ window' = dev.dag
    /\ dev' = [dev EXCEPT !.dirty = FALSE]
    /\ UNCHANGED <<nvs, born, spent, left>>

(* The button is there when the storage is in trouble, and works if NVS was *)
(* opened.  The record alone is erased, and the device restarts.            *)
Reset ==
    /\ Running /\ dev.open /\ dev.status # "OK"
    /\ \E w \in Erase(nvs) : nvs' = w.nvs /\ dev' = IF w.ok THEN Off ELSE dev
    /\ UNCHANGED <<window, born, spent, left>>

-----------------------------------------------------------------------------
(* Around the device. *)

PowerCut ==
    /\ dev.at # "off"
    /\ dev' = Off
    /\ UNCHANGED <<nvs, window, born, spent, left>>

(* A later firmware ran on the device and kept its record in a schema of its *)
(* own, or damaged it.                                                       *)
Reflash ==
    /\ dev.at = "off" /\ left > 0 /\ nvs.state.form = "v3"
    /\ left' = left - 1
    /\ \E form \in {"future", "damaged"} : nvs' = [nvs EXCEPT !.state.form = form]
    /\ UNCHANGED <<window, dev, born, spent>>

Boot == \/ PowerOn \/ OpenNvs \/ WipeNvs \/ Load \/ GiveUp \/ ArchiveOld \/ Convert
        \/ Create \/ EnsureAlias \/ BootCredit \/ LoadWindow

Run == Pay \/ SetPin \/ Import \/ Hear \/ FlushWindow

Next == Boot \/ Run \/ Reset \/ PowerCut \/ Reflash

Spec == Init /\ [][Next]_vars

-----------------------------------------------------------------------------
(* Every variable keeps its shape. *)
TypeOK ==
    /\ nvs \in [state : Blob \cup {NoBlob}, backup : Blob \cup {NoBlob}]
    /\ window = None \/ \A t \in window : t.by \in Identity \cup {None, Ghost}
    /\ dev.at \in Step /\ dev.rec \in Record /\ dev.seq \in 1 .. SeqMax + 1
    /\ dev.me \in Identity \cup {None, Ghost}
    /\ born \subseteq Identity
    /\ spent \in [Identity -> 1 .. SeqMax + 1]

(* The identities some blob in NVS was made from. *)
Kept == {nvs.state.rec.id, nvs.backup.rec.id} \ {None}

KeptNext == {nvs'.state.rec.id, nvs'.backup.rec.id} \ {None}

(* No boot, save, migration or archive loses the last copy of a key: only  *)
(* the user's reset and the wipe of a full NVS can.                        *)
KeysSurvive == [][Reset \/ WipeNvs \/ Kept \subseteq KeptNext]_vars

(* What this firmware cannot read is never written over, and a struct of   *)
(* schema 2 only with a witness in the backup; the first witness stays.    *)
WitnessKept ==
    [][\/ Reset
       \/ WipeNvs
       \/ /\ nvs.backup # NoBlob => nvs'.backup = nvs.backup
          /\ Probe(nvs) \in {"LEGACY", "CORRUPT"} /\ nvs'.state # nvs.state
                => nvs.state.form = "v2" /\ nvs.backup # NoBlob]_vars

(* A wallet that runs on its record is the one its flash will boot again:  *)
(* same key, and a member only if the descriptor is saved.  Faults and     *)
(* power cuts may leave flash ahead of RAM, never behind.                  *)
RunsAsStored ==
    Running /\ dev.ready =>
        /\ nvs.state.form = "v3" /\ nvs.state.rec.id = dev.me
        /\ dev.member => nvs.state.rec.desc = "signed"

(* Whatever was saved, restored, converted or lost of the window in        *)
(* between, a wallet never runs with a counter below a number its key has  *)
(* already signed with.                                                    *)
CounterAhead == Running /\ dev.ready => spent[dev.me] <= dev.seq

=============================================================================
