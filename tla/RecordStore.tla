---------------------------- MODULE RecordStore ----------------------------
(***************************************************************************)
(* The wallet record in the NVS of a device, and its one backup: what the  *)
(* blob found at boot is worth, how a record is saved, archived, converted *)
(* from the frozen struct of schema 2, and erased.                         *)
(*                                                                         *)
(* A blob is told apart by what the reader makes of it: "v3" decodes and   *)
(* validates, "v2" is a struct that converts and validates, "v2bad" one    *)
(* that does not, "v1" and "future" have a sound prefix and another        *)
(* schema, "damaged" fails the prefix, the map or a hash, and "huge" is    *)
(* beyond the size that is ever read.  The record a blob was made from is  *)
(* kept with it whatever the reader makes of it.                           *)
(***************************************************************************)
EXTENDS Naturals

CONSTANTS
    Identity,   \* private keys a device may draw
    None,       \* no identity, no descriptor
    SeqMax,     \* bound: sequence numbers spent
    IoFails     \* whether a read or a write of NVS may report an error

ASSUME RecordStoreAssumption ==
    None \notin Identity /\ SeqMax \in Nat /\ IoFails \in BOOLEAN

Form == {"v1", "v2", "v2bad", "v3", "future", "damaged", "huge"}

(* What is made of the descriptor a record holds, if it holds one. *)
Descriptor == {None, "signed", "forged", "unreadable"}

Record == [id : Identity \cup {None}, seq : 0 .. SeqMax + 1, named : BOOLEAN,
           pin : BOOLEAN, credit : BOOLEAN, desc : Descriptor]

Blob == [form : Form, rec : Record]

Blank == [id |-> None, seq |-> 0, named |-> FALSE, pin |-> FALSE, credit |-> FALSE,
          desc |-> None]

NoBlob == [form |-> "none", rec |-> Blank]

(* What an operation leaves in NVS, and whether it reports success. *)
Result(nvs, ok) == [nvs |-> nvs, ok |-> ok]

-----------------------------------------------------------------------------
(* The fields a caller sets in the copy of the record it holds; none of    *)
(* them is in NVS before the record is saved.                              *)
WithIdentity(r, i) == [r EXCEPT !.id = i]

WithAlias(r) == [r EXCEPT !.named = TRUE]

WithPin(r) == [r EXCEPT !.pin = TRUE]

WithCredit(r) == [r EXCEPT !.credit = TRUE]

WithDescriptor(r) == [r EXCEPT !.desc = "signed"]

(* A blob is replaced as a whole.  An error may be reported with the old   *)
(* blob still there, or, if it comes from the commit, with the new one.    *)
Write(nvs, key, blob) ==
    LET written == [nvs EXCEPT ![key] = blob]
    IN  {Result(written, TRUE)}
        \cup (IF IoFails THEN {Result(nvs, FALSE), Result(written, FALSE)} ELSE {})

(* The map holds the fields that are present; one that is absent reads back *)
(* as its default.                                                          *)
Encode(r) == [form |-> "v3", rec |-> r]

Save(nvs, r) == Write(nvs, "state", Encode(r))

Erase(nvs) == Write(nvs, "state", NoBlob)

(* What the reader of this firmware decodes and validates. *)
Readable(b) == b.form = "v3"

(* What it converts, if what comes out of the struct validates. *)
Converts(b) == b.form = "v2"

(* What has a sound prefix and another schema. *)
Legacy(b) == b.form \in {"v1", "v2", "v2bad", "future"}

(* Faulty variant of Probe: a schema nothing converts is taken for nothing. *)
ProbeNaive(nvs) ==
    IF Readable(nvs.state) THEN "OK"
    ELSE IF Converts(nvs.state) THEN "LEGACY"
    ELSE IF nvs.state = NoBlob \/ Legacy(nvs.state) THEN "EMPTY"
    ELSE "CORRUPT"

(* The verdict of a load that could read. *)
Probe(nvs) ==
    IF Readable(nvs.state) THEN "OK"
    ELSE IF Legacy(nvs.state) THEN "LEGACY"
    ELSE IF nvs.state = NoBlob THEN "EMPTY"
    ELSE "CORRUPT"

(* Faulty variant of Archive: the latest witness replaces the first. *)
ArchiveAgain(nvs) ==
    IF nvs.state = NoBlob \/ nvs.state.form = "huge" THEN {Result(nvs, FALSE)}
    ELSE Write(nvs, "backup", nvs.state)

(* The first witness is kept for good; a blob too big to be copied whole is *)
(* refused.                                                                 *)
Archive(nvs) ==
    IF nvs.backup # NoBlob
    THEN {Result(nvs, TRUE)} \cup (IF IoFails THEN {Result(nvs, FALSE)} ELSE {})
    ELSE IF nvs.state = NoBlob \/ nvs.state.form = "huge" THEN {Result(nvs, FALSE)}
    ELSE Write(nvs, "backup", nvs.state)

(* Opening NVS.  No page left, or a format of another IDF: the partition is *)
(* erased, record and backup together, and opened again.                    *)
Open(nvs) == {Result(nvs, TRUE)} \cup (IF IoFails THEN {Result(nvs, FALSE)} ELSE {})

Wiped == [state |-> NoBlob, backup |-> NoBlob]

=============================================================================
