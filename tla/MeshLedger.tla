----------------------------- MODULE MeshLedger -----------------------------
(***************************************************************************)
(* The replicated ledger of one currency: every wallet keeps a window of   *)
(* transactions and the last checkpoint of the founder in RAM, a copy of   *)
(* both and its next sequence number in flash, and exchanges transactions  *)
(* and checkpoints with the others over a radio that may lose, delay,      *)
(* duplicate and reorder them.  A wallet may lose power at any moment.     *)
(*                                                                         *)
(* One runtime lock serialises the handlers of a wallet.  A handler that   *)
(* writes to flash between two changes of state is split at each write, so *)
(* that a power cut can fall between any two of them: job[n] is what the   *)
(* handler that holds the lock still has to do, "idle" when it is free.    *)
(*                                                                         *)
(* Before it joins, a wallet runs the hard-coded fallback registry: it     *)
(* holds its boot credit and ingests anything.  Payments and checkpoints   *)
(* of the fallback registry are left out.                                  *)
(***************************************************************************)
EXTENDS Ledger

CONSTANTS
    Amount,       \* amounts a holder or the founder may type in
    SeqMax,       \* UINT32_MAX for the sequence counter
    FlashFails,   \* whether a flash write may report an error
    PowerFails    \* whether a wallet may lose power

ASSUME MeshAssumption ==
    /\ Amount \subseteq Nat
    /\ SeqMax \in Nat
    /\ FlashFails \in BOOLEAN
    /\ PowerFails \in BOOLEAN

VARIABLES
    dag,      \* dag[n]: window and adopted checkpoint, in RAM
    nextSeq,  \* nextSeq[n]: wallet->next_seq, in RAM
    dirty,    \* dirty[n]: the window changed since it was last saved
    job,      \* job[n]: what the handler holding the lock has left to do
    flash,    \* flash[n]: what survives a power cut
    wire,     \* transactions that have left their author
    cuts      \* checkpoints the founder has broadcast

vars == <<dag, nextSeq, dirty, job, flash, wire, cuts>>

Step == {"idle", "commit", "flush", "saveCheckpoint", "saveWindow", "send"}

Job == [step : Step, tx : Tx \cup {NoTx}, emit : BOOLEAN]

Idle == [step |-> "idle", tx |-> NoTx, emit |-> FALSE]

-----------------------------------------------------------------------------
BootCredit(n) == Mint(n, n, 1, 0, Fallback, GenesisRef)

(* Faulty variant of ClaimDue: the directory of the checkpoint is not read. *)
ClaimDueAgain(n, d) ==
    /\ InitialCredit # 0
    /\ \A t \in d.win : ~(t.type = "CLAIM" /\ t.from = n)
    /\ ValidateTx(d, Claim(n)) = "OK"
    /\ MergeVerdict(d.win, Claim(n)) = "OK"

(* The initial credit is claimed once: the ledger itself is the guard. *)
ClaimDue(n, d) ==
    /\ InitialCredit # 0
    /\ ~Listed(d.cp, n)
    /\ \A t \in d.win : ~(t.type = "CLAIM" /\ t.from = n)
    /\ ValidateTx(d, Claim(n)) = "OK"
    /\ MergeVerdict(d.win, Claim(n)) = "OK"

WithClaim(n, d) ==
    IF ClaimDue(n, d) THEN [d EXCEPT !.win = @ \cup {Claim(n)}] ELSE d

(* A forced flush follows a claim. *)
JobAfterClaim(n, d) ==
    IF ClaimDue(n, d)
    THEN [step |-> "flush", tx |-> Claim(n), emit |-> FALSE] ELSE Idle

(* next_seq raised above the floor of one's own account. *)
AboveFloor(n, cp, seq) ==
    IF Listed(cp, n) /\ cp.dir[n].floor >= seq THEN cp.dir[n].floor + 1 ELSE seq

-----------------------------------------------------------------------------
Init ==
    /\ dag = [n \in Account |-> [win |-> {BootCredit(n)}, cp |-> NoCheckpoint]]
    /\ nextSeq = [n \in Account |-> 1]
    /\ dirty = [n \in Account |-> FALSE]
    /\ job = [n \in Account |-> Idle]
    /\ flash = [n \in Account |->
                   [seq |-> 1, win |-> {BootCredit(n)}, cp |-> NoCheckpoint,
                    anchored |-> FALSE]]
    /\ wire = {BootCredit(n) : n \in Account}
    /\ cuts = {}

Free(n) == job[n] = Idle

Anchored(n) == flash[n].anchored

(* Create the currency, or join it once its founder offers the descriptor: *)
(* the descriptor is saved, the window cleaned, the initial credit claimed. *)
Join(n) ==
    LET clean == PurgeForeign(dag[n])
    IN  /\ Free(n)
        /\ ~Anchored(n)
        /\ n = Founder \/ Anchored(Founder)
        /\ flash' = [flash EXCEPT ![n].anchored = TRUE]
        /\ dag' = [dag EXCEPT ![n] = WithClaim(n, clean)]
        /\ dirty' = [dirty EXCEPT ![n] = @ \/ clean # dag[n] \/ ClaimDue(n, clean)]
        /\ job' = [job EXCEPT ![n] = JobAfterClaim(n, clean)]
        /\ UNCHANGED <<nextSeq, wire, cuts>>

(* Faulty variant of Begin: an error of the save is ignored. *)
BeginUnsaved(n, t) ==
    /\ Free(n)
    /\ Anchored(n)
    /\ nextSeq[n] < SeqMax
    /\ ShapeValid(t)
    /\ ValidateTx(dag[n], t) = "OK"
    /\ nextSeq' = [nextSeq EXCEPT ![n] = @ + 1]
    /\ \/ flash' = [flash EXCEPT ![n].seq = nextSeq[n] + 1]
       \/ FlashFails /\ UNCHANGED flash
    /\ job' = [job EXCEPT ![n] = [step |-> "commit", tx |-> t, emit |-> FALSE]]
    /\ UNCHANGED <<dag, dirty, wire, cuts>>

(* A transaction of one's own: the sequence number it takes is made durable *)
(* before the transaction exists anywhere.  A refusal, or a save that       *)
(* reports an error, gives the number back in RAM; the record it reports on *)
(* may be in flash all the same.                                            *)
Begin(n, t) ==
    /\ Free(n)
    /\ Anchored(n)
    /\ nextSeq[n] < SeqMax
    /\ ShapeValid(t)
    /\ ValidateTx(dag[n], t) = "OK"
    /\ flash' = [flash EXCEPT ![n].seq = nextSeq[n] + 1]
    /\ \/ /\ nextSeq' = [nextSeq EXCEPT ![n] = @ + 1]
          /\ job' = [job EXCEPT ![n] = [step |-> "commit", tx |-> t, emit |-> FALSE]]
       \/ FlashFails /\ UNCHANGED <<nextSeq, job>>
    /\ UNCHANGED <<dag, dirty, wire, cuts>>

Pay(n, to, amount, ref) ==
    /\ to # n
    /\ IsMember(dag[n], to)
    /\ Begin(n, Transfer(n, to, amount, nextSeq[n], ref))

CreditMember(n, to, amount, ref) ==
    /\ IsMintAuthority(n)
    /\ IsMember(dag[n], to)
    /\ Begin(n, Mint(n, to, amount, nextSeq[n], Currency, ref))

(* The merge that follows.  When the window refuses it the number is spent. *)
Commit(n) ==
    LET t == job[n].tx
        accepted == MergeVerdict(dag[n].win, t) = "OK"
    IN  /\ job[n].step = "commit"
        /\ dag' = [dag EXCEPT ![n].win = Merge(@, t)]
        /\ dirty' = [dirty EXCEPT ![n] = @ \/ accepted]
        /\ job' = [job EXCEPT ![n] = IF accepted THEN [@ EXCEPT !.step = "flush"]
                                     ELSE Idle]
        /\ UNCHANGED <<nextSeq, flash, wire, cuts>>

-----------------------------------------------------------------------------
(* Once its window is saved a handler sends what it wrote, if anything. *)
AfterSave(n) ==
    IF job[n].tx = NoTx /\ ~job[n].emit THEN Idle ELSE [job[n] EXCEPT !.step = "send"]

(* The transaction and the cut go out, and the lock is released. *)
Send(n) ==
    /\ job[n].step = "send"
    /\ job' = [job EXCEPT ![n] = Idle]
    /\ wire' = wire \cup ({job[n].tx} \ {NoTx})
    /\ cuts' = IF job[n].emit THEN cuts \cup {dag[n].cp} ELSE cuts
    /\ UNCHANGED <<dag, nextSeq, dirty, flash>>

(* Replace the horizon in RAM and raise next_seq; the saves come next.  The *)
(* raised number is saved too, and a failure to do so is ignored.           *)
AdoptAndRaise(n, cp, emit) ==
    LET raised == AboveFloor(n, cp, nextSeq[n])
    IN  /\ dag' = [dag EXCEPT ![n] = Adopt(@, cp)]
        /\ nextSeq' = [nextSeq EXCEPT ![n] = raised]
        /\ \/ flash' = [flash EXCEPT ![n].seq =
                            IF raised # nextSeq[n] THEN raised ELSE @]
           \/ FlashFails /\ UNCHANGED flash
        /\ job' = [job EXCEPT ![n].step = "saveCheckpoint", ![n].emit = emit]
        /\ UNCHANGED <<dirty, wire, cuts>>

EmissionDue(n) ==
    /\ Anchored(n)
    /\ IsMintAuthority(n)
    /\ NeedsCheckpoint(dag[n])
    /\ CanBuildCheckpoint(dag[n])

(* Faulty variant of Emit: the cut is broadcast before it is saved. *)
EmitBeforeSave(n) ==
    /\ job[n].step \in {"idle", "flush"}
    /\ EmissionDue(n)
    /\ dag' = [dag EXCEPT ![n] = Adopt(@, Checkpoint(dag[n]))]
    /\ job' = [job EXCEPT ![n].step = "saveCheckpoint", ![n].emit = FALSE]
    /\ cuts' = cuts \cup {Checkpoint(dag[n])}
    /\ UNCHANGED <<nextSeq, flash, dirty, wire>>

(* A flush: the founder first looks whether the window is due for a cut. *)
Emit(n) ==
    /\ job[n].step \in {"idle", "flush"}
    /\ EmissionDue(n)
    /\ AdoptAndRaise(n, Checkpoint(dag[n]), TRUE)

FlushWindow(n) ==
    /\ job[n].step \in {"idle", "flush"}
    /\ ~EmissionDue(n)
    /\ dirty[n]
    /\ \/ /\ flash' = [flash EXCEPT ![n].win = dag[n].win]
          /\ dirty' = [dirty EXCEPT ![n] = FALSE]
       \/ FlashFails /\ UNCHANGED <<flash, dirty>>
    /\ job' = [job EXCEPT ![n] = AfterSave(n)]
    /\ UNCHANGED <<dag, nextSeq, wire, cuts>>

(* A checkpoint heard from any peer: only a higher generation is adopted. *)
ReceiveCheckpoint(n, cp) ==
    /\ Free(n)
    /\ Anchored(n)
    /\ cp.gen > dag[n].cp.gen
    /\ AdoptAndRaise(n, cp, FALSE)

SaveCheckpoint(n) ==
    /\ job[n].step = "saveCheckpoint"
    /\ \/ flash' = [flash EXCEPT ![n].cp = dag[n].cp]
       \/ FlashFails /\ UNCHANGED flash
    /\ job' = [job EXCEPT ![n].step = "saveWindow"]
    /\ UNCHANGED <<dag, nextSeq, dirty, wire, cuts>>

SaveWindow(n) ==
    /\ job[n].step = "saveWindow"
    /\ \/ flash' = [flash EXCEPT ![n].win = dag[n].win]
       \/ FlashFails /\ UNCHANGED flash
    /\ dirty' = [dirty EXCEPT ![n] = FALSE]
    /\ job' = [job EXCEPT ![n] = AfterSave(n)]
    /\ UNCHANGED <<dag, nextSeq, wire, cuts>>

-----------------------------------------------------------------------------
(* A transaction heard from any peer, in a batch or in a payment packet: a *)
(* member lets in what passes the gate, an unanchored wallet anything.  A   *)
(* payment packet is also checked against the payer's balance first, which  *)
(* only narrows when this step may happen.                                  *)
Receive(n, t) ==
    /\ Free(n)
    /\ Anchored(n) => IngestCheck(dag[n], t) = "OK"
    /\ MergeVerdict(dag[n].win, t) = "OK"
    /\ dag' = [dag EXCEPT ![n].win = Merge(@, t)]
    /\ dirty' = [dirty EXCEPT ![n] = TRUE]
    /\ UNCHANGED <<nextSeq, job, flash, wire, cuts>>

(* A peer that is behind is answered with the checkpoint one sits on; a peer *)
(* that differs, with the window.                                           *)
PushCheckpoint(n) ==
    /\ Free(n)
    /\ dag[n].cp.gen # 0
    /\ dag[n].cp \notin cuts
    /\ cuts' = cuts \cup {dag[n].cp}
    /\ UNCHANGED <<dag, nextSeq, dirty, job, flash, wire>>

ServeBatch(n) ==
    /\ Free(n)
    /\ ~(dag[n].win \subseteq wire)
    /\ wire' = wire \cup dag[n].win
    /\ UNCHANGED <<dag, nextSeq, dirty, job, flash, cuts>>

(* Power cut and boot.  The window, then the checkpoint, are read back; the *)
(* counter is raised above every own number they show; a member that has    *)
(* not claimed does so.  Should the save of the purged window fail, the next *)
(* boot purges it again.                                                    *)
OwnSeqs(n, win) == {t.seq : t \in {u \in win : u.type # "CLAIM" /\ u.from = n}}

Stored(n) == [win |-> flash[n].win, cp |-> NoCheckpoint]

Cleaned(n) == IF Anchored(n) THEN PurgeForeign(Stored(n)) ELSE Stored(n)

Restored(n) ==
    IF Anchored(n) THEN Adopt(Cleaned(n), flash[n].cp) ELSE Cleaned(n)

RestoredSeq(n) ==
    LET fromWindow == SetMax({flash[n].seq}
                               \cup {s + 1 : s \in OwnSeqs(n, Cleaned(n).win)})
    IN  AboveFloor(n, Restored(n).cp, fromWindow)

Restart(n) ==
    LET claims == Anchored(n) /\ ClaimDue(n, Restored(n))
    IN  /\ PowerFails
        /\ dag' = [dag EXCEPT ![n] =
                       IF claims THEN WithClaim(n, Restored(n)) ELSE Restored(n)]
        /\ nextSeq' = [nextSeq EXCEPT ![n] = RestoredSeq(n)]
        /\ dirty' = [dirty EXCEPT ![n] = claims]
        /\ job' = [job EXCEPT ![n] =
                       IF claims THEN JobAfterClaim(n, Restored(n)) ELSE Idle]
        /\ flash' = [flash EXCEPT ![n].win = Cleaned(n).win]
        /\ UNCHANGED <<wire, cuts>>

-----------------------------------------------------------------------------
Next ==
    \E n \in Account :
        \/ Join(n)
        \/ \E to \in Account, amount \in Amount, ref \in Ref :
              Pay(n, to, amount, ref) \/ CreditMember(n, to, amount, ref)
        \/ Commit(n)
        \/ Emit(n)
        \/ FlushWindow(n)
        \/ \E cp \in cuts : ReceiveCheckpoint(n, cp)
        \/ SaveCheckpoint(n)
        \/ SaveWindow(n)
        \/ Send(n)
        \/ \E t \in wire : Receive(n, t)
        \/ PushCheckpoint(n)
        \/ ServeBatch(n)
        \/ Restart(n)

Spec == Init /\ [][Next]_vars

-----------------------------------------------------------------------------
TypeOK ==
    /\ dag \in [Account -> Dag]
    /\ nextSeq \in [Account -> Nat]
    /\ dirty \in [Account -> BOOLEAN]
    /\ job \in [Account -> Job]
    /\ flash \in [Account -> [seq : Nat, win : SUBSET Tx, cp : Horizon,
                             anchored : BOOLEAN]]
    /\ wire \subseteq Tx
    /\ cuts \subseteq Horizon

(* Every transaction that exists somewhere, a dead horizon included. *)
Existing ==
    wire \cup (UNION {dag[n].win \cup flash[n].win : n \in Account})
         \cup {job[n].tx : n \in {m \in Account : job[m].tx # NoTx}}
         \cup (UNION {dag[n].cp.horizon \cup flash[n].cp.horizon : n \in Account})
         \cup (UNION {cp.horizon : cp \in cuts})

(* payment_engine.c persists next_seq before the merge "so that after a    *)
(* reboot the number is never used for another transaction": whatever power *)
(* cuts and cuts of the ledger do, one (account, number) names one          *)
(* transaction, in every window, on the radio and in every past horizon.    *)
SeqNeverReused == \A t, u \in Existing : SameSlot(t, u) => t = u

(* A window never holds a transaction the adopted checkpoint already        *)
(* counted: neither what the gate lets in, nor what a wallet commits itself *)
(* without the gate, nor what a boot reads back, is below the floor.        *)
HorizonClean == \A n \in Account : Clean(dag[n])

(* The generation is the identity of a horizon: two checkpoints broadcast   *)
(* with the same generation are the same, over every power cut of the       *)
(* founder; otherwise peers that adopted different ones never agree again.  *)
OneCheckpointPerGeneration ==
    \A c, d \in cuts : c.gen = d.gen => c = d

(* A transaction is refounded by at most one checkpoint, and once it is, it *)
(* is in no window that sits on it: it is never counted twice.              *)
CountedOnce ==
    /\ \A c, d \in cuts : c # d => c.horizon \cap d.horizon = {}
    /\ \A c \in cuts, n \in Account :
          c.gen <= dag[n].cp.gen => c.horizon \cap dag[n].win = {}

(* currency.c: no member is counted twice by the walk of the screens, once  *)
(* in the directory of the checkpoint and once by a CLAIM of the window.    *)
MembersCountedOnce == \A n, a \in Account : WalkCount(dag[n], a) <= 1

(* The books balance: the sums behind the balances of a member's window,     *)
(* fees included and some of them below zero, come to what was minted into   *)
(* it; and the balances it shows, which get_balance clamps at zero, come to  *)
(* that and to what is overdrawn (BalanceMax apart).  get_balance and        *)
(* total_minted walk the window with rules of their own for mints, claims,   *)
(* fees and the refounded state; a payment creates and destroys nothing.     *)
BooksBalance ==
    \A n \in Account :
        LET minted       == TotalMinted(dag[n])
            Held(a)      == RawBalance(dag[n], a)
            Shown(a)     == Balance(dag[n], a)
            Overdrawn(a) == IF Held(a) < 0 THEN -Held(a) ELSE 0
        IN  Anchored(n) =>
                /\ MapThenSumSet(Held, Account) = minted
                /\ \/ MapThenSumSet(Shown, Account)
                         = minted + MapThenSumSet(Overdrawn, Account)
                   \/ \E a \in Account : Held(a) > BalanceMax

-----------------------------------------------------------------------------
(***************************************************************************)
(* Why SeqNeverReused and HorizonClean hold: what every step preserves.    *)
(***************************************************************************)

(* A number is spent, in RAM and in flash, before a transaction carries it. *)
(* The two transactions that bear number 0 are always the same ones.        *)
Spent(t) ==
    \/ t = BootCredit(t.from)
    \/ t = Claim(t.from)
    \/ /\ t.cur = Currency /\ t.type # "CLAIM"
       /\ 1 <= t.seq
       /\ t.seq < nextSeq[t.from]
       /\ t.seq < flash[t.from].seq

NumbersSpent ==
    /\ \A n \in Account : nextSeq[n] >= 1 /\ flash[n].seq >= 1
    /\ \A t \in Existing : Spent(t)

(* A wallet's counter is above its own floor, so that what it commits       *)
(* without the gate is too; before it joins it sits on no checkpoint.       *)
Ahead(n) ==
    /\ Listed(dag[n].cp, n) => dag[n].cp.dir[n].floor < nextSeq[n]
    /\ job[n].step = "commit" =>
          job[n].tx \in Tx /\ ~BelowFloor(dag[n].cp, job[n].tx)
    /\ ~Anchored(n) => dag[n].cp.gen = 0 /\ flash[n].cp.gen = 0

FloorPassed == \A n \in Account : Ahead(n)

IInv ==
    /\ TypeOK
    /\ NumbersSpent
    /\ SeqNeverReused
    /\ FloorPassed
    /\ HorizonClean
=============================================================================
