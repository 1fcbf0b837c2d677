--------------------------- MODULE PaymentExchange ---------------------------
(***************************************************************************)
(* A payment between two wallets: the payer commits its transaction, saves *)
(* it and sends it in a packet; the payee judges the packet, answers with  *)
(* an ACK or a REJECT, or holds it while the payer's funds may still be on *)
(* their way through the synchronisation of windows.                       *)
(*                                                                         *)
(* Packets stay in the air for ever: they may be lost, late, repeated and  *)
(* overtaken.  A wallet may lose power between two handlers; what happens  *)
(* between the flash writes of one handler is in MeshLedger.  Nobody cuts  *)
(* the ledger here.  Both timeouts of the code are 30 s after an event;    *)
(* "late" says that they have passed, in whatever order.                   *)
(***************************************************************************)
EXTENDS Ledger

CONSTANTS
    Amount,       \* amounts a holder may type in
    SeqMax,       \* UINT32_MAX for the sequence counter
    HeldMax,      \* MESHPAY_APP_HELD_PAYMENTS_MAX
    PowerFails    \* whether a wallet may lose power

ASSUME PaymentAssumption ==
    /\ Amount \subseteq Nat
    /\ SeqMax \in Nat
    /\ HeldMax \in Nat
    /\ PowerFails \in BOOLEAN

VARIABLES
    dag,        \* dag[n]: window in RAM
    saved,      \* saved[n]: window in flash
    nextSeq,    \* nextSeq[n]: the counter, in RAM and in flash
    pending,    \* pending[n]: own payment whose receipt is awaited
    held,       \* held[n]: slots of the payments held for revalidation
    air,        \* packets that have been sent
    confirmed   \* confirmed[n]: own payments the screen called confirmed

vars == <<dag, saved, nextSeq, pending, held, air, confirmed>>

Empty == [tx |-> NoTx, late |-> FALSE]

Slot == [tx : Tx, late : BOOLEAN] \cup {Empty}

Waiting(t) == [tx |-> t, late |-> FALSE]

Packet == [kind : {"TX", "ACK", "REJECT"}, tx : Tx]

Payment(t) == [kind |-> "TX", tx |-> t]

Ack(t) == [kind |-> "ACK", tx |-> t]

Nack(t) == [kind |-> "REJECT", tx |-> t]

(* Every member knows of its own claim only. *)
Init ==
    /\ dag = [n \in Account |->
                 [win |-> IF n = Founder THEN {} ELSE {Claim(n)}, cp |-> NoCheckpoint]]
    /\ saved = [n \in Account |-> dag[n].win]
    /\ nextSeq = [n \in Account |-> 1]
    /\ pending = [n \in Account |-> Empty]
    /\ held = [n \in Account |-> [i \in 1..HeldMax |-> Empty]]
    /\ air = {}
    /\ confirmed = [n \in Account |-> {}]

-----------------------------------------------------------------------------
(* The payee.  "w" is what a handler of one wallet works on: its window,    *)
(* its held payments and what it has sent so far.                           *)

Local(n) == [dag |-> dag[n], held |-> held[n], sent |-> {}]

Become(n, w) ==
    /\ dag' = [dag EXCEPT ![n] = w.dag]
    /\ held' = [held EXCEPT ![n] = w.held]
    /\ air' = air \cup w.sent

(* Faulty variant of PaymentVerdict: whether it fits in the window is not seen. *)
PaymentVerdictUnmerged(d, t) ==
    LET gate == IngestCheck(d, t)
    IN  IF gate # "OK" THEN gate ELSE ValidateTx(d, t)

(* The gate, then the funds, then the window. *)
PaymentVerdict(d, t) ==
    LET gate == IngestCheck(d, t)
        funds == ValidateTx(d, t)
    IN  IF gate # "OK" THEN gate
        ELSE IF funds # "OK" THEN funds
        ELSE MergeVerdict(d.win, t)

Received == {"OK", "DUPLICATE"}

(* The payer's credit, or its claim, may not have come yet. *)
Transient == {"INSUFFICIENT", "UNKNOWN_MEMBER"}

Accept(w, t) ==
    [w EXCEPT !.dag.win = Merge(@, t), !.sent = @ \cup {Ack(t)}]

Refuse(w, t) == [w EXCEPT !.sent = @ \cup {Nack(t)}]

(* Faulty variant of RetrySlot: the deadline is not looked at. *)
RetrySlotForever(w, i) ==
    LET t == w.held[i].tx
        verdict == PaymentVerdict(w.dag, t)
    IN  IF t = NoTx \/ verdict \in Transient THEN w
        ELSE [(IF verdict \in Received THEN Accept(w, t) ELSE Refuse(w, t))
                EXCEPT !.held[i] = Empty]

(* A held payment is judged again: received, still held, or refused. *)
RetrySlot(w, i) ==
    LET t == w.held[i].tx
        verdict == PaymentVerdict(w.dag, t)
    IN  IF t = NoTx \/ (verdict \in Transient /\ ~w.held[i].late) THEN w
        ELSE [(IF verdict \in Received THEN Accept(w, t) ELSE Refuse(w, t))
                EXCEPT !.held[i] = Empty]

(* Slot after slot.  The outcome is the one element of a set. *)
Retried(w) ==
    LET upTo[i \in 0..HeldMax] ==
            IF i = 0 THEN {w} ELSE {RetrySlot(x, i) : x \in upTo[i - 1]}
    IN  upTo[HeldMax]

FreeSlots(w) == {i \in 1..HeldMax : w.held[i] = Empty}

FirstOf(S) == CHOOSE i \in S : \A j \in S : i <= j

Hold(w, t) == [w EXCEPT !.held[FirstOf(FreeSlots(w))] = Waiting(t)]

Judge(w, t) ==
    LET verdict == PaymentVerdict(w.dag, t)
    IN  IF verdict \in Received THEN Accept(w, t)
        ELSE IF verdict \in Transient /\ FreeSlots(w) # {} THEN Hold(w, t)
        ELSE Refuse(w, t)

(* A wallet looks at the payments sent to its own destination only. *)
Addressed(n, t) == t.to = n

(* Every event of the radio task starts with the held payments. *)
HearPayment(n, t) ==
    /\ Payment(t) \in air
    /\ Addressed(n, t)
    /\ \E w \in Retried(Local(n)) : Become(n, Judge(w, t))
    /\ UNCHANGED <<saved, nextSeq, pending, confirmed>>

(* Any other event of the radio task. *)
Tick(n) ==
    /\ \E w \in Retried(Local(n)) : Become(n, w)
    /\ UNCHANGED <<saved, nextSeq, pending, confirmed>>

(* A batch of m's transactions, in one step (see OrderIrrelevant of         *)
(* ApplyBatch); when it brings something the held payments are judged once  *)
(* more.  A batch that overflows the window is left out.                    *)
HearBatch(n, m, batch) ==
    /\ \E before \in Retried(Local(n)) :
          LET merged == WithBatch(before.dag, batch)
          IN  /\ merged # before.dag
              /\ Cardinality(merged.win) <= WindowMax
              /\ \E after \in Retried([before EXCEPT !.dag = merged]) : Become(n, after)
    /\ UNCHANGED <<saved, nextSeq, pending, confirmed>>

-----------------------------------------------------------------------------
(* The payer. *)

(* Faulty variant of Pay: the window is not saved before the packet leaves. *)
PayUnsaved(n, to, amount, ref) ==
    LET t == Transfer(n, to, amount, nextSeq[n], ref)
    IN  /\ to # n
        /\ IsMember(dag[n], to)
        /\ nextSeq[n] < SeqMax
        /\ ShapeValid(t)
        /\ ValidateTx(dag[n], t) = "OK"
        /\ MergeVerdict(dag[n].win, t) = "OK"
        /\ nextSeq' = [nextSeq EXCEPT ![n] = @ + 1]
        /\ dag' = [dag EXCEPT ![n].win = @ \cup {t}]
        /\ pending' = [pending EXCEPT ![n] = Waiting(t)]
        /\ air' = air \cup {Payment(t)}
        /\ UNCHANGED <<saved, held, confirmed>>

(* A payment is committed, saved and sent; the receipt of an earlier one is *)
(* no longer awaited.  When the window is full the number is spent.         *)
Pay(n, to, amount, ref) ==
    LET t == Transfer(n, to, amount, nextSeq[n], ref)
    IN  /\ to # n
        /\ IsMember(dag[n], to)
        /\ nextSeq[n] < SeqMax
        /\ ShapeValid(t)
        /\ ValidateTx(dag[n], t) = "OK"
        /\ nextSeq' = [nextSeq EXCEPT ![n] = @ + 1]
        /\ IF MergeVerdict(dag[n].win, t) = "OK"
           THEN /\ dag' = [dag EXCEPT ![n].win = @ \cup {t}]
                /\ saved' = [saved EXCEPT ![n] = dag[n].win \cup {t}]
                /\ pending' = [pending EXCEPT ![n] = Waiting(t)]
                /\ air' = air \cup {Payment(t)}
           ELSE /\ pending' = [pending EXCEPT ![n] = IF @.late THEN Empty ELSE @]
                /\ UNCHANGED <<dag, saved, air>>
        /\ UNCHANGED <<held, confirmed>>

(* A payment that cannot be built, or sealed for its payee, gives its       *)
(* number back; an overdue receipt has been given up first.                 *)
PayInVain(n) ==
    /\ pending' = [pending EXCEPT ![n] = IF @.late THEN Empty ELSE @]
    /\ UNCHANGED <<dag, saved, nextSeq, held, air, confirmed>>

(* An answer, by its form, to a payment of one's own. *)
ReceiptFor(n, p) == p.kind \in {"ACK", "REJECT"} /\ p.tx.from = n

(* Faulty variant of HearReceipt: any ACK confirms the payment awaited. *)
HearAnyReceipt(n, p) ==
    /\ p \in air
    /\ ReceiptFor(n, p)
    /\ pending[n] # Empty
    /\ pending' = [pending EXCEPT ![n] = Empty]
    /\ confirmed' = IF p.kind = "ACK"
                    THEN [confirmed EXCEPT ![n] = @ \cup {pending[n].tx}] ELSE confirmed
    /\ \E w \in Retried(Local(n)) : Become(n, w)
    /\ UNCHANGED <<saved, nextSeq>>

(* The receipt of the awaited payment; of any other it changes nothing. *)
HearReceipt(n, p) ==
    /\ p \in air
    /\ ReceiptFor(n, p)
    /\ pending[n].tx = p.tx
    /\ pending' = [pending EXCEPT ![n] = Empty]
    /\ confirmed' = IF p.kind = "ACK"
                    THEN [confirmed EXCEPT ![n] = @ \cup {p.tx}] ELSE confirmed
    /\ \E w \in Retried(Local(n)) : Become(n, w)
    /\ UNCHANGED <<saved, nextSeq>>

(* Faulty variant of Refresh: the time of sending is kept. *)
RefreshHalf(n) ==
    /\ pending' = [pending EXCEPT ![n].tx = IF pending[n].late THEN NoTx ELSE @]
    /\ \E flush \in BOOLEAN :
          saved' = IF flush THEN [saved EXCEPT ![n] = dag[n].win] ELSE saved
    /\ UNCHANGED <<dag, nextSeq, held, air, confirmed>>

(* The screen refreshes: an overdue receipt is no longer awaited, and the    *)
(* window is saved unless it was a short time ago.                          *)
Refresh(n) ==
    /\ pending' = [pending EXCEPT ![n] = IF @.late THEN Empty ELSE @]
    /\ \E flush \in BOOLEAN :
          saved' = IF flush THEN [saved EXCEPT ![n] = dag[n].win] ELSE saved
    /\ UNCHANGED <<dag, nextSeq, held, air, confirmed>>

(* The periodic summary saves the window, unless it was a short time ago. *)
Summarise(n) ==
    /\ saved' = [saved EXCEPT ![n] = dag[n].win]
    /\ UNCHANGED <<dag, nextSeq, pending, held, air, confirmed>>

-----------------------------------------------------------------------------
(* Time and power. *)

ReceiptOverdue(n) ==
    /\ pending[n] # Empty
    /\ pending' = [pending EXCEPT ![n].late = TRUE]
    /\ UNCHANGED <<dag, saved, nextSeq, held, air, confirmed>>

HoldOverdue(n, i) ==
    /\ held[n][i] # Empty
    /\ held' = [held EXCEPT ![n][i].late = TRUE]
    /\ UNCHANGED <<dag, saved, nextSeq, pending, air, confirmed>>

Restart(n) ==
    /\ PowerFails
    /\ dag' = [dag EXCEPT ![n].win = saved[n]]
    /\ pending' = [pending EXCEPT ![n] = Empty]
    /\ held' = [held EXCEPT ![n] = [i \in 1..HeldMax |-> Empty]]
    /\ UNCHANGED <<saved, nextSeq, air, confirmed>>

Next ==
    \E n \in Account :
        \/ \E to \in Account, amount \in Amount, ref \in Ref : Pay(n, to, amount, ref)
        \/ \E p \in air : HearPayment(n, p.tx) \/ HearReceipt(n, p)
        \/ \E m \in Account : \E batch \in SUBSET dag[m].win : HearBatch(n, m, batch)
        \/ PayInVain(n)
        \/ Tick(n)
        \/ Refresh(n)
        \/ Summarise(n)
        \/ ReceiptOverdue(n)
        \/ \E i \in 1..HeldMax : HoldOverdue(n, i)
        \/ Restart(n)

(* The radio task keeps receiving events (its own summaries at least), and  *)
(* time passes.                                                             *)
Fairness ==
    \A n \in Account :
        /\ WF_vars(Tick(n))
        /\ \A i \in 1..HeldMax : WF_vars(HoldOverdue(n, i))

Spec == Init /\ [][Next]_vars /\ Fairness

-----------------------------------------------------------------------------
TypeOK ==
    /\ dag \in [Account -> Dag]
    /\ saved \in [Account -> SUBSET Tx]
    /\ nextSeq \in [Account -> Nat]
    /\ pending \in [Account -> Slot]
    /\ held \in [Account -> [1..HeldMax -> Slot]]
    /\ air \subseteq Packet
    /\ confirmed \in [Account -> SUBSET Tx]

(* Every transaction that has left a wallet, or may after a power cut. *)
Everything ==
    [win |-> {p.tx : p \in air} \cup (UNION {dag[n].win \cup saved[n] : n \in Account}),
     cp |-> NoCheckpoint]

(* "The protection against double spending is ensured by validate_tx, which *)
(* reads the DAG updated at each commit" (payment_engine.c): over every     *)
(* power cut, what a member has put on the radio never exceeds what it was  *)
(* given, whoever adds it all up.                                           *)
NoOverdraft == \A n \in Account : RawBalance(Everything, n) >= 0

(* A payment the screen calls confirmed is in flash at the payer's and was  *)
(* in the payee's window: no power cut of the payee can make it untrue.     *)
ConfirmedIsPaid ==
    \A n \in Account : \A t \in confirmed[n] :
        t \in saved[n] /\ Ack(t) \in air

(* When the ACK leaves, the payee's window holds the payment. *)
AckMeansReceived ==
    [][\A p \in air' \ air : p.kind = "ACK" => p.tx \in dag'[p.tx.to].win]_vars

Holding(n, t) == \E i \in 1..HeldMax : held[n][i].tx = t

PaymentsTo(n) ==
    {Transfer(from, n, amount, seq, ref) :
        from \in Account \ {n}, amount \in Amount, seq \in 1..SeqMax - 1, ref \in Ref}

(* A payment that is held does not stay so: it is answered, or a power cut  *)
(* of the payee forgets it.                                                 *)
HeldIsAnswered ==
    \A n \in Account : \A t \in PaymentsTo(n) :
        Holding(n, t) ~> (~Holding(n, t) \/ Ack(t) \in air \/ Nack(t) \in air)

=============================================================================
