---------------------------- MODULE PaymentProofs ----------------------------
(***************************************************************************)
(* A confirmed payment is paid, and acknowledged only if it was received,  *)
(* for every set of members, every number of slots for held payments, and  *)
(* any losses, repetitions, timeouts and power cuts.                       *)
(*                                                                         *)
(* Whatever a handler of n does, it hands on a window that only grew,      *)
(* payments held that are n's own, and ACKs of payments that window has    *)
(* ("Fits").  The retry of the held payments takes the slots one by one:   *)
(* what holds of every outcome after one slot holds after the next.        *)
(*                                                                         *)
(* Nobody overdraws: every payment known anywhere is in its payer's flash  *)
(* ("FundInv"), where a member has never spent more than it was given.     *)
(*                                                                         *)
(* A batch of a peer is taken in here at once, and by the code one         *)
(* transaction at a time, in passes (ApplyBatch): whatever its order, the  *)
(* passes end with the same window ("CallInv", "BatchAtOnce").             *)
(***************************************************************************)
EXTENDS PaymentExchange, ApplyBatch, LedgerProofs

-----------------------------------------------------------------------------
(* The outcomes after each slot. *)

Round(w, f, i) == IF i = 0 THEN {w} ELSE {RetrySlot(x, i) : x \in f[i - 1]}

Rounds(w, k, f) == f = [i \in 0 .. k |-> Round(w, f, i)]

LEMMA RoundsExist ==
    ASSUME NEW w
    PROVE  \E f : Rounds(w, HeldMax, f)
<1> DEFINE S == {k \in 0 .. HeldMax : \E f : Rounds(w, k, f)}
<1>0. HeldMax \in Nat
    BY PaymentAssumption
<1>1. 0 \in S
    <2> DEFINE f == [i \in 0 .. 0 |-> {w}]
    <2>1. f = [i \in 0 .. 0 |-> Round(w, f, i)]
        BY DEF Round
    <2> QED BY <2>1, <1>0 DEF Rounds
<1>2. ASSUME NEW k \in S, k < HeldMax
      PROVE  k + 1 \in S
    <2>1. PICK f : Rounds(w, k, f)
        OBVIOUS
    <2> DEFINE g == [i \in 0 .. k + 1 |-> IF i = k + 1 THEN {RetrySlot(x, k + 1) : x \in f[k]}
                                          ELSE f[i]]
    <2>2. k \in Nat /\ k + 1 \in 0 .. HeldMax
        BY <1>0, <1>2
    <2>3. \A i \in 0 .. k : f[i] = Round(w, f, i)
        BY <2>1 DEF Rounds
    <2>4. ASSUME NEW i \in 0 .. k + 1
          PROVE  g[i] = Round(w, g, i)
        <3>1. CASE i = k + 1
            <4>1. g[i - 1] = f[k] /\ i # 0
                BY <3>1, <2>2
            <4> QED BY <3>1, <4>1 DEF Round
        <3>2. CASE i # k + 1
            <4>1. i \in 0 .. k /\ g[i] = f[i]
                BY <3>2, <2>2
            <4>2. i # 0 => g[i - 1] = f[i - 1]
                BY <4>1, <2>2
            <4> HIDE DEF g
            <4> QED BY <4>1, <4>2, <2>3 DEF Round
        <3> QED BY <3>1, <3>2
    <2>5. g = [i \in 0 .. k + 1 |-> Round(w, g, i)]
        BY <2>4
    <2>6. Rounds(w, k + 1, g)
        BY <2>5 DEF Rounds
    <2> QED BY <2>2, <2>6
<1>3. HeldMax \in S
    <2> HIDE DEF S
    <2>1. S \in SUBSET (0 .. HeldMax)
        BY DEF S
    <2> QED BY <1>0, <1>1, <1>2, <2>1, UpTo
<1> QED BY <1>3

LEMMA RetriedRounds ==
    ASSUME NEW w
    PROVE  \E f : Rounds(w, HeldMax, f) /\ Retried(w) = f[HeldMax]
<1> DEFINE F == CHOOSE f : f = [i \in 0 .. HeldMax |->
                        IF i = 0 THEN {w} ELSE {RetrySlot(x, i) : x \in f[i - 1]}]
<1>1. Retried(w) = F[HeldMax]
    BY DEF Retried
<1>2. F = CHOOSE f : Rounds(w, HeldMax, f)
    BY DEF Rounds, Round
<1>3. Rounds(w, HeldMax, F)
    BY <1>2, RoundsExist
<1> QED BY <1>1, <1>3

-----------------------------------------------------------------------------
(* What a handler of n works on, when its window was "win" before. *)

Work == [dag : Dag, held : [1 .. HeldMax -> Slot], sent : SUBSET Packet]

Mine(n, slots) == \A i \in 1 .. HeldMax : slots[i].tx = NoTx \/ slots[i].tx.to = n

Truthful(n, w) == \A p \in w.sent : p.kind = "ACK" => p.tx.to = n /\ p.tx \in w.dag.win

Fits(n, win, w) ==
    /\ w \in Work
    /\ win \subseteq w.dag.win
    /\ Mine(n, w.held)
    /\ Truthful(n, w)

LEMMA NoTxIsNone == NoTx \notin Tx /\ Empty \in Slot
<1>1. \A t \in Tx : t.type \in TxType
    BY DEF Tx
<1>2. NoTx.type \notin TxType
    BY DEF NoTx, TxType
<1> QED BY <1>1, <1>2 DEF Slot

LEMMA SlotIsTx ==
    ASSUME NEW s \in Slot
    PROVE  /\ s.tx = NoTx \/ s.tx \in Tx
           /\ s.tx = NoTx => s = Empty
           /\ s.late \in BOOLEAN
<1>1. CASE s \in [tx : Tx, late : BOOLEAN]
    BY <1>1, NoTxIsNone
<1>2. CASE s = Empty
    BY <1>2 DEF Empty
<1> QED BY <1>1, <1>2 DEF Slot

LEMMA VerdictKnown ==
    ASSUME NEW d \in Dag, NEW t \in Tx, PaymentVerdict(d, t) \in Received
    PROVE  /\ PaymentVerdict(d, t) = MergeVerdict(d.win, t)
           /\ t \in Merge(d.win, t)
<1>1. IngestCheck(d, t) \notin Received \ {"OK"}
    BY DEF IngestCheck, Received, Tx, TxType
<1>2. ValidateTx(d, t) \notin Received \ {"OK"}
    BY DEF ValidateTx, Received, Tx, TxType
<1>3. PaymentVerdict(d, t) = MergeVerdict(d.win, t)
    BY <1>1, <1>2 DEF PaymentVerdict
<1>4. MergeVerdict(d.win, t) = "OK" \/ t \in d.win
    BY <1>3 DEF MergeVerdict, Received
<1> QED BY <1>3, <1>4 DEF Merge

LEMMA MergeGrows ==
    ASSUME NEW win \in SUBSET Tx, NEW t \in Tx
    PROVE  win \subseteq Merge(win, t) /\ Merge(win, t) \in SUBSET Tx
BY DEF Merge

LEMMA WorkIs ==
    ASSUME NEW w \in Work
    PROVE  /\ w = [dag |-> w.dag, held |-> w.held, sent |-> w.sent]
           /\ w.dag \in Dag /\ w.held \in [1 .. HeldMax -> Slot] /\ w.sent \in SUBSET Packet
           /\ w.dag = [win |-> w.dag.win, cp |-> w.dag.cp]
           /\ w.dag.win \in SUBSET Tx /\ w.dag.cp \in Horizon
BY DEF Work, Dag

LEMMA AcceptIs ==
    ASSUME NEW w, NEW d, NEW h, NEW s, NEW t, w = [dag |-> d, held |-> h, sent |-> s]
    PROVE  Accept(w, t) = [dag |-> [d EXCEPT !.win = Merge(d.win, t)], held |-> h,
                           sent |-> s \cup {Ack(t)}]
<1> DEFINE m == Merge(w.dag.win, t)
           z == w.sent \cup {Ack(t)}
           x == [w EXCEPT !.dag.win = m]
<1>1. Accept(w, t) = [w EXCEPT !.dag.win = m, !.sent = z]
    BY Zenon DEF Accept
<1>2. m = Merge(d.win, t) /\ z = s \cup {Ack(t)}
    OBVIOUS
<1> HIDE DEF m, z
<1>3. x = [dag |-> [d EXCEPT !.win = m], held |-> h, sent |-> s]
    OBVIOUS
<1>4. Accept(w, t) = [x EXCEPT !.sent = z]
    BY <1>1
<1> HIDE DEF x
<1> QED BY <1>2, <1>3, <1>4

LEMMA RefuseIs ==
    ASSUME NEW w, NEW d, NEW h, NEW s, NEW t, w = [dag |-> d, held |-> h, sent |-> s]
    PROVE  Refuse(w, t) = [dag |-> d, held |-> h, sent |-> s \cup {Nack(t)}]
BY DEF Refuse

LEMMA AcceptFits ==
    ASSUME NEW n, NEW win, NEW w, Fits(n, win, w), NEW t \in Tx, t.to = n,
           PaymentVerdict(w.dag, t) \in Received
    PROVE  Fits(n, win, Accept(w, t)) /\ Accept(w, t).held = w.held
<1> DEFINE new == [win |-> Merge(w.dag.win, t), cp |-> w.dag.cp]
           x == [dag |-> new, held |-> w.held, sent |-> w.sent \cup {Ack(t)}]
<1>1. w \in Work
    BY DEF Fits
<1>2. [w.dag EXCEPT !.win = Merge(w.dag.win, t)] = new
    <2> DEFINE m == Merge(w.dag.win, t)
    <2>1. w.dag = [win |-> w.dag.win, cp |-> w.dag.cp]
        BY <1>1, WorkIs
    <2> HIDE DEF m
    <2>2. [w.dag EXCEPT !.win = m] = [win |-> m, cp |-> w.dag.cp]
        BY <2>1
    <2> QED BY <2>2 DEF m
<1>3. Accept(w, t) = x
    <2>1. w = [dag |-> w.dag, held |-> w.held, sent |-> w.sent]
        BY <1>1, WorkIs
    <2>2. Accept(w, t) = [dag |-> [w.dag EXCEPT !.win = Merge(w.dag.win, t)], held |-> w.held,
                          sent |-> w.sent \cup {Ack(t)}]
        BY <2>1, AcceptIs
    <2> QED BY <1>2, <2>2, Zenon
<1>4. w.dag.win \subseteq new.win /\ new \in Dag /\ t \in new.win
    BY <1>1, WorkIs, MergeGrows, VerdictKnown DEF Dag
<1>5. Ack(t) \in Packet /\ Ack(t).tx = t
    BY DEF Ack, Packet
<1> HIDE DEF new
<1>6. x \in Work
    BY <1>1, <1>4, <1>5, WorkIs DEF Work
<1>7. Truthful(n, x)
    BY <1>4, <1>5 DEF Truthful, Fits
<1>8. win \subseteq x.dag.win /\ Mine(n, x.held)
    BY <1>4 DEF Fits
<1> QED BY <1>3, <1>6, <1>7, <1>8 DEF Fits

LEMMA RefuseFits ==
    ASSUME NEW n, NEW win, NEW w, Fits(n, win, w), NEW t \in Tx
    PROVE  Fits(n, win, Refuse(w, t)) /\ Refuse(w, t).held = w.held
<1> DEFINE x == [dag |-> w.dag, held |-> w.held, sent |-> w.sent \cup {Nack(t)}]
<1>1. Nack(t) \in Packet /\ Nack(t).kind # "ACK"
    BY DEF Nack, Packet
<1>2. w \in Work
    BY DEF Fits
<1>3. Refuse(w, t) = x
    <2>1. w = [dag |-> w.dag, held |-> w.held, sent |-> w.sent]
        BY <1>2, WorkIs
    <2> QED BY <2>1, RefuseIs
<1>4. x \in Work
    BY <1>1, <1>2, WorkIs DEF Work
<1>5. Truthful(n, x) /\ win \subseteq x.dag.win /\ Mine(n, x.held)
    BY <1>1 DEF Fits, Truthful
<1> QED BY <1>3, <1>4, <1>5 DEF Fits

(* A slot that is filled or emptied. *)
LEMMA SlotFits ==
    ASSUME NEW n, NEW win, NEW w, Fits(n, win, w), NEW i \in 1 .. HeldMax,
           NEW s \in Slot, s.tx = NoTx \/ s.tx.to = n
    PROVE  Fits(n, win, [w EXCEPT !.held[i] = s])
<1> DEFINE x == [w EXCEPT !.held[i] = s]
<1>1. x = [dag |-> w.dag, held |-> [w.held EXCEPT ![i] = s], sent |-> w.sent]
    BY DEF Fits, Work
<1>2. w.held \in [1 .. HeldMax -> Slot] /\ [w.held EXCEPT ![i] = s] \in [1 .. HeldMax -> Slot]
    BY DEF Fits, Work
<1>3. x.dag = w.dag /\ x.sent = w.sent /\ x.held = [w.held EXCEPT ![i] = s]
    BY <1>1
<1>4. x \in Work
    BY <1>1, <1>2 DEF Fits, Work
<1>5. Mine(n, x.held)
    BY <1>2, <1>3 DEF Mine, Fits
<1> HIDE DEF x
<1>6. Fits(n, win, x)
    BY <1>3, <1>4, <1>5 DEF Fits, Truthful
<1> QED BY <1>6 DEF x

LEMMA RetrySlotFits ==
    ASSUME NEW n, NEW win, NEW w, Fits(n, win, w), NEW i \in 1 .. HeldMax
    PROVE  Fits(n, win, RetrySlot(w, i))
<1> DEFINE t == w.held[i].tx
           verdict == PaymentVerdict(w.dag, t)
           kept == t = NoTx \/ (verdict \in Transient /\ ~w.held[i].late)
<1>1. w.held[i] \in Slot
    BY DEF Fits, Work
<1>2. CASE kept
    BY <1>2 DEF RetrySlot
<1>3. CASE ~kept
    <2>1. t \in Tx /\ t.to = n
        BY <1>1, <1>3, SlotIsTx DEF Fits, Mine
    <2>2. Empty \in Slot /\ Empty.tx = NoTx
        BY NoTxIsNone DEF Empty
    <2>3. CASE verdict \in Received
        <3>1. RetrySlot(w, i) = [Accept(w, t) EXCEPT !.held[i] = Empty]
            BY <1>3, <2>3 DEF RetrySlot
        <3> HIDE DEF t
        <3> QED BY <2>1, <2>2, <2>3, <3>1, AcceptFits, SlotFits
    <2>4. CASE verdict \notin Received
        <3>1. RetrySlot(w, i) = [Refuse(w, t) EXCEPT !.held[i] = Empty]
            BY <1>3, <2>4 DEF RetrySlot
        <3> HIDE DEF t
        <3> QED BY <2>1, <2>2, <3>1, RefuseFits, SlotFits
    <2> QED BY <2>3, <2>4
<1> QED BY <1>2, <1>3

LEMMA RetriedFits ==
    ASSUME NEW n, NEW win, NEW w, Fits(n, win, w), NEW x \in Retried(w)
    PROVE  Fits(n, win, x)
<1>0. HeldMax \in Nat
    BY PaymentAssumption
<1>1. PICK f : Rounds(w, HeldMax, f) /\ Retried(w) = f[HeldMax]
    BY RetriedRounds
<1>2. \A i \in 0 .. HeldMax : f[i] = Round(w, f, i)
    BY <1>1 DEF Rounds
<1> DEFINE S == {i \in 0 .. HeldMax : \A y \in f[i] : Fits(n, win, y)}
<1>3. 0 \in S
    <2>1. 0 \in 0 .. HeldMax
        BY <1>0
    <2>2. f[0] = {w}
        BY <1>2, <2>1 DEF Round
    <2> QED BY <2>1, <2>2
<1>4. ASSUME NEW i \in S, i < HeldMax
      PROVE  i + 1 \in S
    <2>1. i + 1 \in 1 .. HeldMax /\ (i + 1) - 1 = i
        BY <1>0, <1>4
    <2>2. f[i + 1] = {RetrySlot(y, i + 1) : y \in f[i]}
        <3>1. f[i + 1] = Round(w, f, i + 1) /\ i + 1 # 0
            BY <1>0, <1>2, <2>1
        <3> HIDE DEF S
        <3> QED BY <2>1, <3>1 DEF Round
    <2>3. ASSUME NEW y \in f[i]
          PROVE  Fits(n, win, RetrySlot(y, i + 1))
        BY <2>1, RetrySlotFits
    <2> QED BY <2>1, <2>2, <2>3
<1>5. HeldMax \in S
    <2> HIDE DEF S
    <2>1. S \in SUBSET (0 .. HeldMax)
        BY DEF S
    <2> QED BY <1>0, <1>3, <1>4, <2>1, UpTo
<1> QED BY <1>1, <1>5

LEMMA JudgeFits ==
    ASSUME NEW n, NEW win, NEW w, Fits(n, win, w), NEW t \in Tx, t.to = n
    PROVE  Fits(n, win, Judge(w, t))
<1> DEFINE verdict == PaymentVerdict(w.dag, t)
<1>1. CASE verdict \in Received
    BY <1>1, AcceptFits DEF Judge
<1>2. CASE verdict \notin Received /\ verdict \in Transient /\ FreeSlots(w) # {}
    <2>1. Judge(w, t) = [w EXCEPT !.held[FirstOf(FreeSlots(w))] = Waiting(t)]
        BY <1>2 DEF Judge, Hold
    <2>2. FirstOf(FreeSlots(w)) \in 1 .. HeldMax
        <3>1. FreeSlots(w) \subseteq Nat /\ FreeSlots(w) # {}
            BY <1>2, PaymentAssumption DEF FreeSlots
        <3>2. \E i \in FreeSlots(w) : \A j \in FreeSlots(w) : i <= j
            BY <3>1, Least
        <3>3. FirstOf(FreeSlots(w)) \in FreeSlots(w)
            BY <3>2 DEF FirstOf
        <3> QED BY <3>3 DEF FreeSlots
    <2>3. Waiting(t) \in Slot /\ Waiting(t).tx = t
        BY DEF Waiting, Slot
    <2> QED BY <2>1, <2>2, <2>3, SlotFits
<1>3. CASE verdict \notin Received /\ ~(verdict \in Transient /\ FreeSlots(w) # {})
    BY <1>3, RefuseFits DEF Judge
<1> QED BY <1>1, <1>2, <1>3

-----------------------------------------------------------------------------
(* The invariant. *)

Saved == \A n \in Account : saved[n] \subseteq dag[n].win

Awaited == \A n \in Account : pending[n].tx = NoTx \/ pending[n].tx \in saved[n]

HeldMine == \A n \in Account : Mine(n, held[n])

IInv == TypeOK /\ Saved /\ Awaited /\ HeldMine /\ ConfirmedIsPaid

(* What a handler that hears something does, whatever it heard. *)
Heard ==
    /\ dag' \in [Account -> Dag]
    /\ held' \in [Account -> [1 .. HeldMax -> Slot]]
    /\ air' \subseteq Packet /\ air \subseteq air'
    /\ \A n \in Account : dag[n].win \subseteq dag'[n].win /\ Mine(n, held'[n])

AcksTrue == \A p \in air' \ air : p.kind = "ACK" => p.tx \in dag'[p.tx.to].win

LEMMA LocalFits ==
    ASSUME IInv, NEW n \in Account
    PROVE  Fits(n, dag[n].win, Local(n))
<1> DEFINE x == [dag |-> dag[n], held |-> held[n], sent |-> {}]
<1>1. x \in Work
    BY DEF IInv, TypeOK, Work
<1>2. Mine(n, x.held) /\ Truthful(n, x)
    BY DEF IInv, HeldMine, Truthful
<1> QED BY <1>1, <1>2 DEF Local, Fits

LEMMA BecomeHeard ==
    ASSUME IInv, NEW n \in Account, NEW w, Fits(n, dag[n].win, w), Become(n, w)
    PROVE  Heard /\ AcksTrue
<1>1. w \in Work /\ w.dag \in Dag /\ w.held \in [1 .. HeldMax -> Slot]
      /\ w.sent \subseteq Packet
    BY WorkIs DEF Fits
<1>2. /\ dag' = [dag EXCEPT ![n] = w.dag]
      /\ held' = [held EXCEPT ![n] = w.held]
      /\ air' = air \cup w.sent
    BY DEF Become
<1>3. dag \in [Account -> Dag] /\ held \in [Account -> [1 .. HeldMax -> Slot]]
      /\ air \subseteq Packet
    BY DEF IInv, TypeOK
<1>4. dag'[n] = w.dag /\ held'[n] = w.held
      /\ \A m \in Account \ {n} : dag'[m] = dag[m] /\ held'[m] = held[m]
    BY <1>2, <1>3
<1>5. dag' \in [Account -> Dag] /\ held' \in [Account -> [1 .. HeldMax -> Slot]]
    BY <1>1, <1>2, <1>3
<1>6. \A m \in Account : dag[m].win \subseteq dag'[m].win /\ Mine(m, held'[m])
    BY <1>4 DEF Fits, IInv, HeldMine
<1>7. AcksTrue
    BY <1>2, <1>4 DEF AcksTrue, Fits, Truthful
<1> QED BY <1>1, <1>2, <1>3, <1>5, <1>6, <1>7 DEF Heard

LEMMA BatchFits ==
    ASSUME NEW n, NEW win, NEW w, Fits(n, win, w), NEW brought \in SUBSET Tx
    PROVE  Fits(n, win, [w EXCEPT !.dag = WithBatch(w.dag, brought)])
<1> DEFINE more == {t \in brought :
                        IngestCheck([w.dag EXCEPT !.win = @ \cup
                            {u \in brought : u.type = "CLAIM" /\ IngestCheck(w.dag, u) = "OK"}], t)
                          = "OK"}
           d == [win |-> w.dag.win \cup more, cp |-> w.dag.cp]
           x == [dag |-> d, held |-> w.held, sent |-> w.sent]
<1>1. w \in Work
    BY DEF Fits
<1>2. WithBatch(w.dag, brought) = [w.dag EXCEPT !.win = @ \cup more]
    BY Zenon DEF WithBatch
<1>3. more \subseteq Tx
    OBVIOUS
<1> HIDE DEF more
<1>4. [w.dag EXCEPT !.win = @ \cup more] = d
    <2>1. w.dag = [win |-> w.dag.win, cp |-> w.dag.cp]
        BY <1>1, WorkIs
    <2> QED BY <2>1
<1>5. d \in Dag
    BY <1>1, <1>3, WorkIs DEF Dag
<1>6. [w EXCEPT !.dag = d] = x
    <2>1. w = [dag |-> w.dag, held |-> w.held, sent |-> w.sent]
        BY <1>1, WorkIs
    <2> HIDE DEF d
    <2> QED BY <2>1
<1>7. x \in Work
    BY <1>1, <1>5, WorkIs DEF Work
<1>8. win \subseteq x.dag.win /\ Mine(n, x.held) /\ Truthful(n, x)
    BY DEF Fits, Truthful
<1> QED BY <1>2, <1>4, <1>6, <1>7, <1>8 DEF Fits

-----------------------------------------------------------------------------
(* What the actions do to the invariant: a handler that hears something may *)
(* only add, a write of the window saves what is in RAM, and what is        *)
(* awaited was saved.                                                       *)

LEMMA Kept ==
    ASSUME IInv, Heard,
           saved' \in [Account -> SUBSET Tx],
           \A n \in Account : saved[n] \subseteq saved'[n] /\ saved'[n] \subseteq dag'[n].win,
           nextSeq' \in [Account -> Nat],
           pending' \in [Account -> Slot],
           \A n \in Account : pending'[n].tx = NoTx \/ pending'[n].tx \in saved'[n],
           confirmed' \in [Account -> SUBSET Tx],
           \A n \in Account : \A t \in confirmed'[n] \ confirmed[n] :
               t \in saved'[n] /\ Ack(t) \in air'
    PROVE  IInv'
<1>1. TypeOK'
    BY DEF Heard, TypeOK
<1>2. Saved' /\ Awaited' /\ HeldMine'
    BY DEF Heard, Saved, Awaited, HeldMine
<1>3. ConfirmedIsPaid'
    <2> SUFFICES ASSUME NEW n \in Account, NEW t \in confirmed'[n]
                 PROVE  t \in saved'[n] /\ Ack(t) \in air'
        BY DEF ConfirmedIsPaid
    <2>1. t \in confirmed[n] => t \in saved[n] /\ Ack(t) \in air
        BY DEF IInv, ConfirmedIsPaid
    <2> QED BY <2>1 DEF Heard
<1> QED BY <1>1, <1>2, <1>3 DEF IInv

LEMMA NothingHeard ==
    ASSUME IInv, UNCHANGED <<dag, held, air>>
    PROVE  Heard /\ AcksTrue
BY DEF IInv, TypeOK, HeldMine, Heard, AcksTrue

(* Handlers that leave the payer's side alone. *)
LEMMA PayeeKeeps ==
    ASSUME IInv, Heard, UNCHANGED <<saved, nextSeq, pending, confirmed>>
    PROVE  IInv'
<1>1. \A n \in Account : saved'[n] \subseteq dag'[n].win
    BY DEF IInv, Saved, Heard
<1>2. /\ saved' \in [Account -> SUBSET Tx] /\ nextSeq' \in [Account -> Nat]
      /\ pending' \in [Account -> Slot] /\ confirmed' \in [Account -> SUBSET Tx]
    BY DEF IInv, TypeOK
<1>3. \A n \in Account : pending'[n].tx = NoTx \/ pending'[n].tx \in saved'[n]
    BY DEF IInv, Awaited
<1> QED BY <1>1, <1>2, <1>3, Kept

LEMMA HearPaymentStep ==
    ASSUME IInv, NEW n \in Account, NEW t, HearPayment(n, t)
    PROVE  IInv' /\ AcksTrue
<1>1. t \in Tx /\ t.to = n
    BY DEF HearPayment, Payment, Addressed, IInv, TypeOK, Packet
<1>2. PICK w \in Retried(Local(n)) : Become(n, Judge(w, t))
    BY DEF HearPayment
<1>3. Fits(n, dag[n].win, Judge(w, t))
    BY <1>1, LocalFits, RetriedFits, JudgeFits
<1>4. Heard /\ AcksTrue
    BY <1>2, <1>3, BecomeHeard
<1> QED BY <1>4, PayeeKeeps DEF HearPayment

LEMMA TickStep ==
    ASSUME IInv, NEW n \in Account, Tick(n)
    PROVE  IInv' /\ AcksTrue
<1>1. PICK w \in Retried(Local(n)) : Become(n, w)
    BY DEF Tick
<1>2. Fits(n, dag[n].win, w)
    BY LocalFits, RetriedFits
<1>3. Heard /\ AcksTrue
    BY <1>1, <1>2, BecomeHeard
<1> QED BY <1>3, PayeeKeeps DEF Tick

LEMMA HearBatchStep ==
    ASSUME IInv, NEW n \in Account, NEW m \in Account, NEW brought \in SUBSET dag[m].win,
           HearBatch(n, m, brought)
    PROVE  IInv' /\ AcksTrue
<1>1. brought \in SUBSET Tx
    BY DEF IInv, TypeOK, Dag
<1>2. PICK before \in Retried(Local(n)) :
          \E after \in Retried([before EXCEPT !.dag = WithBatch(before.dag, brought)]) :
              Become(n, after)
    BY DEF HearBatch
<1>3. PICK after \in Retried([before EXCEPT !.dag = WithBatch(before.dag, brought)]) :
          Become(n, after)
    BY <1>2
<1>4. Fits(n, dag[n].win, [before EXCEPT !.dag = WithBatch(before.dag, brought)])
    BY <1>1, LocalFits, RetriedFits, BatchFits
<1>5. Fits(n, dag[n].win, after)
    BY <1>4, RetriedFits
<1>6. Heard /\ AcksTrue
    BY <1>3, <1>5, BecomeHeard
<1> QED BY <1>6, PayeeKeeps DEF HearBatch

LEMMA HearReceiptStep ==
    ASSUME IInv, NEW n \in Account, NEW p, HearReceipt(n, p)
    PROVE  IInv' /\ AcksTrue
<1>1. p \in Packet /\ p.tx \in Tx /\ p \in air /\ pending[n].tx = p.tx
    BY DEF HearReceipt, IInv, TypeOK, Packet
<1>2. PICK w \in Retried(Local(n)) : Become(n, w)
    BY DEF HearReceipt
<1>3. Fits(n, dag[n].win, w)
    BY LocalFits, RetriedFits
<1>4. Heard /\ AcksTrue
    BY <1>2, <1>3, BecomeHeard
<1>5. p.tx \in saved[n]
    BY <1>1, NoTxIsNone DEF IInv, Awaited
<1>6. saved' = saved /\ nextSeq' = nextSeq /\ pending' = [pending EXCEPT ![n] = Empty]
    BY DEF HearReceipt
<1>7. /\ confirmed' \in [Account -> SUBSET Tx]
      /\ \A m \in Account : \A t \in confirmed'[m] \ confirmed[m] :
            t \in saved'[m] /\ Ack(t) \in air'
    <2>1. CASE p.kind = "ACK"
        <3>1. confirmed' = [confirmed EXCEPT ![n] = @ \cup {p.tx}]
            BY <2>1 DEF HearReceipt
        <3>2. Ack(p.tx) = p
            BY <1>1, <2>1 DEF Ack, Packet
        <3>3. confirmed \in [Account -> SUBSET Tx]
            BY DEF IInv, TypeOK
        <3> QED BY <1>1, <1>4, <1>5, <1>6, <3>1, <3>2, <3>3 DEF Heard
    <2>2. CASE p.kind # "ACK"
        <3>1. confirmed' = confirmed
            BY <2>2 DEF HearReceipt
        <3> QED BY <3>1 DEF IInv, TypeOK
    <2> QED BY <2>1, <2>2
<1>8. /\ pending' \in [Account -> Slot]
      /\ \A m \in Account : pending'[m].tx = NoTx \/ pending'[m].tx \in saved'[m]
    <2>1. Empty \in Slot /\ Empty.tx = NoTx
        BY NoTxIsNone DEF Empty
    <2>2. pending \in [Account -> Slot]
        BY DEF IInv, TypeOK
    <2> QED BY <1>6, <2>1, <2>2 DEF IInv, Awaited
<1>9. /\ saved' \in [Account -> SUBSET Tx] /\ nextSeq' \in [Account -> Nat]
      /\ \A m \in Account : saved[m] \subseteq saved'[m] /\ saved'[m] \subseteq dag'[m].win
    BY <1>4, <1>6 DEF IInv, TypeOK, Saved, Heard
<1> QED BY <1>4, <1>7, <1>8, <1>9, Kept

LEMMA ClearedPending ==
    ASSUME IInv, NEW n \in Account,
           pending' = [pending EXCEPT ![n] = IF @.late THEN Empty ELSE @],
           \A m \in Account : saved[m] \subseteq saved'[m]
    PROVE  /\ pending' \in [Account -> Slot]
           /\ \A m \in Account : pending'[m].tx = NoTx \/ pending'[m].tx \in saved'[m]
<1>1. Empty \in Slot /\ Empty.tx = NoTx
    BY NoTxIsNone DEF Empty
<1>2. pending \in [Account -> Slot]
    BY DEF IInv, TypeOK
<1> QED BY <1>1, <1>2 DEF IInv, Awaited

LEMMA PayStep ==
    ASSUME IInv, NEW n \in Account, NEW to \in Account, NEW amount \in Amount, NEW ref \in Ref,
           Pay(n, to, amount, ref)
    PROVE  IInv' /\ AcksTrue
<1> DEFINE t == Transfer(n, to, amount, nextSeq[n], ref)
<1>1. t \in Tx
    <2>1. amount \in Nat /\ nextSeq[n] \in Nat /\ TransferFee \in Nat
        BY PaymentAssumption, LedgerAssumption DEF IInv, TypeOK
    <2> QED BY <2>1 DEF Transfer, Tx, TxType
<1> HIDE DEF t
<1>2. /\ dag \in [Account -> Dag] /\ saved \in [Account -> SUBSET Tx]
      /\ pending \in [Account -> Slot] /\ air \subseteq Packet
      /\ nextSeq \in [Account -> Nat] /\ confirmed \in [Account -> SUBSET Tx]
    BY DEF IInv, TypeOK
<1>3. nextSeq' = [nextSeq EXCEPT ![n] = @ + 1] /\ held' = held /\ confirmed' = confirmed
    BY DEF Pay
<1>4. CASE MergeVerdict(dag[n].win, t) = "OK"
    <2>1. /\ dag' = [dag EXCEPT ![n].win = @ \cup {t}]
          /\ saved' = [saved EXCEPT ![n] = dag[n].win \cup {t}]
          /\ pending' = [pending EXCEPT ![n] = Waiting(t)]
          /\ air' = air \cup {Payment(t)}
        BY <1>4 DEF Pay, t
    <2> DEFINE d == [win |-> dag[n].win \cup {t}, cp |-> dag[n].cp]
    <2>2. dag' = [dag EXCEPT ![n] = d]
        <3>1. dag[n] = [win |-> dag[n].win, cp |-> dag[n].cp]
            BY <1>2 DEF Dag
        <3>2. [dag[n] EXCEPT !.win = @ \cup {t}] = d
            BY <3>1
        <3> QED BY <2>1, <3>2, Zenon
    <2>3. d \in Dag
        BY <1>1, <1>2 DEF Dag
    <2>4. /\ dag'[n].win = dag[n].win \cup {t}
          /\ \A m \in Account \ {n} : dag'[m] = dag[m]
          /\ dag' \in [Account -> Dag]
        BY <1>2, <2>2, <2>3
    <2>5. Payment(t) \in Packet /\ Payment(t).kind # "ACK"
        BY <1>1 DEF Payment, Packet
    <2>6. Heard /\ AcksTrue
        BY <1>2, <1>3, <2>1, <2>4, <2>5 DEF Heard, AcksTrue, IInv, TypeOK, HeldMine
    <2>7. /\ saved'[n] = dag[n].win \cup {t} /\ \A m \in Account \ {n} : saved'[m] = saved[m]
          /\ saved' \in [Account -> SUBSET Tx]
        BY <1>1, <1>2, <2>1 DEF Dag
    <2>8. \A m \in Account : saved[m] \subseteq saved'[m] /\ saved'[m] \subseteq dag'[m].win
        BY <2>4, <2>7 DEF IInv, Saved
    <2>9. /\ pending' \in [Account -> Slot]
          /\ \A m \in Account : pending'[m].tx = NoTx \/ pending'[m].tx \in saved'[m]
        <3>1. Waiting(t) \in Slot /\ Waiting(t).tx = t
            BY <1>1 DEF Waiting, Slot
        <3> QED BY <1>2, <2>1, <2>7, <3>1 DEF IInv, Awaited
    <2>10. nextSeq' \in [Account -> Nat]
        BY <1>2, <1>3
    <2> QED BY <1>2, <1>3, <2>6, <2>7, <2>8, <2>9, <2>10, Kept
<1>5. CASE MergeVerdict(dag[n].win, t) # "OK"
    <2>1. /\ pending' = [pending EXCEPT ![n] = IF @.late THEN Empty ELSE @]
          /\ UNCHANGED <<dag, saved, air>>
        BY <1>5 DEF Pay, t
    <2>2. Heard /\ AcksTrue
        BY <1>3, <2>1, NothingHeard
    <2>3. \A m \in Account : saved[m] \subseteq saved'[m] /\ saved'[m] \subseteq dag'[m].win
        BY <2>1 DEF IInv, Saved
    <2>4. /\ pending' \in [Account -> Slot]
          /\ \A m \in Account : pending'[m].tx = NoTx \/ pending'[m].tx \in saved'[m]
        BY <2>1, <2>3, ClearedPending
    <2>5. nextSeq' \in [Account -> Nat] /\ saved' \in [Account -> SUBSET Tx]
        BY <1>2, <1>3, <2>1
    <2> QED BY <1>2, <1>3, <2>2, <2>3, <2>4, <2>5, Kept
<1> QED BY <1>4, <1>5

LEMMA PayInVainStep ==
    ASSUME IInv, NEW n \in Account, PayInVain(n)
    PROVE  IInv' /\ AcksTrue
<1>1. Heard /\ AcksTrue
    BY NothingHeard DEF PayInVain
<1>2. \A m \in Account : saved[m] \subseteq saved'[m] /\ saved'[m] \subseteq dag'[m].win
    BY DEF PayInVain, IInv, Saved
<1>3. /\ pending' \in [Account -> Slot]
      /\ \A m \in Account : pending'[m].tx = NoTx \/ pending'[m].tx \in saved'[m]
    BY <1>2, ClearedPending DEF PayInVain
<1>4. /\ saved' \in [Account -> SUBSET Tx] /\ nextSeq' \in [Account -> Nat]
      /\ confirmed' \in [Account -> SUBSET Tx] /\ confirmed' = confirmed
    BY DEF PayInVain, IInv, TypeOK
<1> QED BY <1>1, <1>2, <1>3, <1>4, Kept

LEMMA RefreshStep ==
    ASSUME IInv, NEW n \in Account, Refresh(n)
    PROVE  IInv' /\ AcksTrue
<1>1. Heard /\ AcksTrue
    BY NothingHeard DEF Refresh
<1>2. \/ saved' = [saved EXCEPT ![n] = dag[n].win]
      \/ saved' = saved
    BY DEF Refresh
<1>3. dag \in [Account -> Dag] /\ saved \in [Account -> SUBSET Tx] /\ dag[n].win \in SUBSET Tx
    BY DEF IInv, TypeOK, Dag
<1>4. \A m \in Account : saved[m] \subseteq saved'[m] /\ saved'[m] \subseteq dag'[m].win
    BY <1>2, <1>3 DEF Refresh, IInv, Saved
<1>5. /\ pending' \in [Account -> Slot]
      /\ \A m \in Account : pending'[m].tx = NoTx \/ pending'[m].tx \in saved'[m]
    BY <1>4, ClearedPending DEF Refresh
<1>6. saved' \in [Account -> SUBSET Tx]
    BY <1>2, <1>3
<1>7. /\ nextSeq' \in [Account -> Nat]
      /\ confirmed' \in [Account -> SUBSET Tx] /\ confirmed' = confirmed
    BY DEF Refresh, IInv, TypeOK
<1> QED BY <1>1, <1>4, <1>5, <1>6, <1>7, Kept

LEMMA SummariseStep ==
    ASSUME IInv, NEW n \in Account, Summarise(n)
    PROVE  IInv' /\ AcksTrue
<1>1. Heard /\ AcksTrue
    BY NothingHeard DEF Summarise
<1>2. saved' = [saved EXCEPT ![n] = dag[n].win]
    BY DEF Summarise
<1>3. dag \in [Account -> Dag] /\ saved \in [Account -> SUBSET Tx] /\ dag[n].win \in SUBSET Tx
    BY DEF IInv, TypeOK, Dag
<1>4. \A m \in Account : saved[m] \subseteq saved'[m] /\ saved'[m] \subseteq dag'[m].win
    BY <1>2, <1>3 DEF Summarise, IInv, Saved
<1>5. /\ pending' \in [Account -> Slot] /\ nextSeq' \in [Account -> Nat]
      /\ confirmed' \in [Account -> SUBSET Tx] /\ confirmed' = confirmed
      /\ saved' \in [Account -> SUBSET Tx]
    BY <1>2, <1>3 DEF Summarise, IInv, TypeOK
<1>6. \A m \in Account : pending'[m].tx = NoTx \/ pending'[m].tx \in saved'[m]
    BY <1>4 DEF Summarise, IInv, Awaited
<1> QED BY <1>1, <1>4, <1>5, <1>6, Kept

LEMMA LateIs ==
    ASSUME NEW q \in [tx : Tx, late : BOOLEAN], NEW b
    PROVE  [q EXCEPT !.late = b] = [tx |-> q.tx, late |-> b]
OBVIOUS

LEMMA ReceiptOverdueStep ==
    ASSUME IInv, NEW n \in Account, ReceiptOverdue(n)
    PROVE  IInv' /\ AcksTrue
<1>1. Heard /\ AcksTrue
    BY NothingHeard DEF ReceiptOverdue
<1>2. pending \in [Account -> Slot] /\ pending[n] # Empty
    BY DEF ReceiptOverdue, IInv, TypeOK
<1>3. pending[n] \in [tx : Tx, late : BOOLEAN]
    BY <1>2 DEF Slot
<1> DEFINE s == [tx |-> pending[n].tx, late |-> TRUE]
<1>4. pending' = [pending EXCEPT ![n] = s]
    <2>1. [pending[n] EXCEPT !.late = TRUE] = s
        BY <1>3, LateIs, Zenon
    <2> QED BY <2>1, Zenon DEF ReceiptOverdue
<1>5. s \in Slot
    BY <1>3 DEF Slot
<1>6. /\ saved' \in [Account -> SUBSET Tx] /\ nextSeq' \in [Account -> Nat]
      /\ confirmed' \in [Account -> SUBSET Tx] /\ confirmed' = confirmed
      /\ \A m \in Account : saved[m] \subseteq saved'[m] /\ saved'[m] \subseteq dag'[m].win
    BY DEF ReceiptOverdue, IInv, TypeOK, Saved
<1>7. /\ pending' \in [Account -> Slot]
      /\ \A m \in Account : pending'[m].tx = NoTx \/ pending'[m].tx \in saved'[m]
    BY <1>2, <1>4, <1>5, <1>6 DEF IInv, Awaited
<1> QED BY <1>1, <1>6, <1>7, Kept

LEMMA HoldOverdueStep ==
    ASSUME IInv, NEW n \in Account, NEW i \in 1 .. HeldMax, HoldOverdue(n, i)
    PROVE  IInv' /\ AcksTrue
<1>1. held \in [Account -> [1 .. HeldMax -> Slot]] /\ held[n][i] # Empty
    BY DEF HoldOverdue, IInv, TypeOK
<1>2. held[n][i] \in [tx : Tx, late : BOOLEAN]
    BY <1>1 DEF Slot
<1> DEFINE s == [tx |-> held[n][i].tx, late |-> TRUE]
<1>3. held' = [held EXCEPT ![n] = [held[n] EXCEPT ![i] = s]]
    <2>1. [held[n][i] EXCEPT !.late = TRUE] = s
        BY <1>2, LateIs, Zenon
    <2>2. held' = [held EXCEPT ![n] = [held[n] EXCEPT ![i] = [held[n][i] EXCEPT !.late = TRUE]]]
        BY Zenon DEF HoldOverdue
    <2> QED BY <2>1, <2>2, Zenon
<1>4. s \in Slot
    BY <1>2 DEF Slot
<1> HIDE DEF s
<1>5. held' \in [Account -> [1 .. HeldMax -> Slot]]
    BY <1>1, <1>3, <1>4
<1>6. \A m \in Account : Mine(m, held'[m])
    <2>1. s.tx = held[n][i].tx
        BY DEF s
    <2> QED BY <1>1, <1>3, <2>1 DEF IInv, HeldMine, Mine
<1>7. Heard /\ AcksTrue
    BY <1>5, <1>6 DEF HoldOverdue, IInv, TypeOK, Heard, AcksTrue
<1> QED BY <1>7, PayeeKeeps DEF HoldOverdue

(* Power: RAM is what flash holds, and nothing is awaited or held.          *)
LEMMA RestartStep ==
    ASSUME IInv, NEW n \in Account, Restart(n)
    PROVE  IInv' /\ AcksTrue
<1>1. /\ dag \in [Account -> Dag] /\ saved \in [Account -> SUBSET Tx]
      /\ pending \in [Account -> Slot] /\ held \in [Account -> [1 .. HeldMax -> Slot]]
    BY DEF IInv, TypeOK
<1> DEFINE d == [win |-> saved[n], cp |-> dag[n].cp]
           h == [i \in 1 .. HeldMax |-> Empty]
<1>2. dag' = [dag EXCEPT ![n] = d]
    <2>1. dag[n] = [win |-> dag[n].win, cp |-> dag[n].cp]
        BY <1>1 DEF Dag
    <2>2. [dag[n] EXCEPT !.win = saved[n]] = d
        BY <2>1
    <2> QED BY <2>2, Zenon DEF Restart
<1>3. d \in Dag
    BY <1>1 DEF Dag
<1>4. Empty \in Slot /\ Empty.tx = NoTx
    BY NoTxIsNone DEF Empty
<1>5. /\ held' = [held EXCEPT ![n] = h] /\ pending' = [pending EXCEPT ![n] = Empty]
      /\ UNCHANGED <<saved, nextSeq, air, confirmed>>
    BY DEF Restart
<1>6. h \in [1 .. HeldMax -> Slot] /\ Mine(n, h)
    BY <1>4 DEF Mine
<1> HIDE DEF h
<1>7. TypeOK'
    BY <1>1, <1>2, <1>3, <1>4, <1>5, <1>6 DEF IInv, TypeOK
<1>8. Saved'
    BY <1>1, <1>2, <1>5 DEF IInv, Saved
<1>9. Awaited' /\ HeldMine'
    BY <1>1, <1>4, <1>5, <1>6 DEF IInv, Awaited, HeldMine
<1>10. ConfirmedIsPaid' /\ AcksTrue
    BY <1>5 DEF IInv, ConfirmedIsPaid, AcksTrue
<1> QED BY <1>7, <1>8, <1>9, <1>10 DEF IInv

-----------------------------------------------------------------------------
LEMMA InitInv ==
    ASSUME Init
    PROVE  IInv
<1>1. \A n \in Account : Claim(n) \in Tx
    BY LedgerAssumption DEF Claim, Tx, TxType
<1>2. NoCheckpoint \in Horizon
    <2>1. NoEntry \in Entry
        BY LedgerAssumption DEF NoEntry, Entry
    <2> QED BY <2>1 DEF NoCheckpoint, Horizon
<1>3. Empty \in Slot /\ Empty.tx = NoTx
    BY NoTxIsNone DEF Empty
<1>4. \A n \in Account : dag[n] = [win |-> IF n = Founder THEN {} ELSE {Claim(n)},
                                   cp |-> NoCheckpoint]
    BY DEF Init
<1>5. dag \in [Account -> Dag]
    <2>1. ASSUME NEW n \in Account
          PROVE  dag[n] \in Dag
        <3> DEFINE w == IF n = Founder THEN {} ELSE {Claim(n)}
        <3>1. w \in SUBSET Tx
            BY <1>1
        <3>2. dag[n] = [win |-> w, cp |-> NoCheckpoint]
            BY <1>4
        <3> HIDE DEF w
        <3> QED BY <1>2, <3>1, <3>2 DEF Dag
    <2> QED BY <2>1 DEF Init
<1>6. saved \in [Account -> SUBSET Tx] /\ Saved
    BY <1>5 DEF Init, Dag, Saved
<1>7. TypeOK
    BY <1>3, <1>5, <1>6 DEF Init, TypeOK
<1>8. Awaited /\ HeldMine /\ ConfirmedIsPaid
    BY <1>3 DEF Init, Awaited, HeldMine, Mine, ConfirmedIsPaid
<1> QED BY <1>6, <1>7, <1>8 DEF IInv

LEMMA Step ==
    ASSUME IInv, [Next]_vars
    PROVE  IInv' /\ AcksTrue
<1>1. ASSUME NEW n \in Account, NEW to \in Account, NEW amount \in Amount, NEW ref \in Ref,
             Pay(n, to, amount, ref)
      PROVE  IInv' /\ AcksTrue
    BY <1>1, PayStep
<1>2. ASSUME NEW n \in Account, NEW p \in air, HearPayment(n, p.tx)
      PROVE  IInv' /\ AcksTrue
    BY <1>2, HearPaymentStep
<1>3. ASSUME NEW n \in Account, NEW p \in air, HearReceipt(n, p)
      PROVE  IInv' /\ AcksTrue
    BY <1>3, HearReceiptStep
<1>4. ASSUME NEW n \in Account, NEW m \in Account, NEW brought \in SUBSET dag[m].win,
             HearBatch(n, m, brought)
      PROVE  IInv' /\ AcksTrue
    BY <1>4, HearBatchStep
<1>5. ASSUME NEW n \in Account, NEW i \in 1 .. HeldMax, HoldOverdue(n, i)
      PROVE  IInv' /\ AcksTrue
    BY <1>5, HoldOverdueStep
<1>6. ASSUME NEW n \in Account,
             \/ PayInVain(n) \/ Tick(n) \/ Refresh(n) \/ Summarise(n)
             \/ ReceiptOverdue(n) \/ Restart(n)
      PROVE  IInv' /\ AcksTrue
    BY <1>6, PayInVainStep, TickStep, RefreshStep, SummariseStep, ReceiptOverdueStep, RestartStep
<1>7. CASE UNCHANGED vars
    BY <1>7, NothingHeard, PayeeKeeps DEF vars
<1> QED BY <1>1, <1>2, <1>3, <1>4, <1>5, <1>6, <1>7 DEF Next

(* Every variable of the exchange keeps its type, for any number of members, *)
(* held payments and amounts.                                               *)
THEOREM TypeCorrect == Spec => []TypeOK
<1>1. Init => IInv
    BY InitInv
<1>2. IInv /\ [Next]_vars => IInv'
    BY Step
<1>3. IInv => TypeOK
    BY DEF IInv
<1> QED BY <1>1, <1>2, <1>3, PTL DEF Spec

(* A payment the screen calls confirmed is in the payer's flash, and its    *)
(* payee has acknowledged it, over lost, late and repeated packets, power   *)
(* cuts and held payments.                                                  *)
THEOREM Confirmed == Spec => []ConfirmedIsPaid
<1>1. Init => IInv
    BY InitInv
<1>2. IInv /\ [Next]_vars => IInv'
    BY Step
<1>3. IInv => ConfirmedIsPaid
    BY DEF IInv
<1> QED BY <1>1, <1>2, <1>3, PTL DEF Spec

(* No ACK leaves before the payment is in the payee's window, whichever     *)
(* path it takes: heard, held and judged again, or brought by a batch.      *)
THEOREM Acknowledged == Spec => AckMeansReceived
<1>1. Init => IInv
    BY InitInv
<1>2. IInv /\ [Next]_vars => IInv'
    BY Step
<1>3. IInv /\ [Next]_vars => [\A p \in air' \ air : p.kind = "ACK" => p.tx \in dag'[p.tx.to].win]_vars
    BY Step DEF AcksTrue
<1> QED BY <1>1, <1>2, <1>3, PTL DEF Spec, AckMeansReceived

-----------------------------------------------------------------------------
(* The funds: all that was ever on the radio, and all that anyone holds. *)

Aired == {p.tx : p \in air}

Known == Everything.win

(* A payment is in the payer's flash before the radio has it, so what is   *)
(* known anywhere overdraws nobody whose flash does not: more transactions *)
(* that are not one's own payments make nobody poorer.  No claim is made   *)
(* but the members' own, which carry their keys.                           *)
FundInv ==
    /\ IsFiniteSet(Known)
    /\ \A n \in Account : dag[n].cp = NoCheckpoint
    /\ \A n \in Account, i \in 1 .. HeldMax : held[n][i].tx \in Aired \cup {NoTx}
    /\ \A t \in Known : t.type = "TRANSFER" => t \in saved[t.from]
    /\ Keyed(Known)
    /\ \A n \in Account : RawBalance(Flat(saved[n]), n) >= 0

LEMMA KnownMember ==
    ASSUME NEW t
    PROVE  t \in Known <=> t \in Aired \/ \E n \in Account : t \in dag[n].win \/ t \in saved[n]
BY DEF Known, Everything, Aired

LEMMA KnownMemberNext ==
    ASSUME NEW t
    PROVE  t \in Known' <=> t \in Aired' \/ \E n \in Account : t \in dag'[n].win \/ t \in saved'[n]
BY DEF Known, Everything, Aired

LEMMA KnownType ==
    ASSUME IInv
    PROVE  Known \subseteq Tx
<1>1. /\ \A n \in Account : dag[n].win \subseteq Tx /\ saved[n] \subseteq Tx
      /\ Aired \subseteq Tx
    BY DEF IInv, TypeOK, Dag, Aired, Packet
<1> QED BY <1>1, KnownMember

(* A handler that works on nothing but what is in windows, and sends and    *)
(* holds nothing but what is on the radio.                                  *)
Aware(A, K, w) ==
    /\ w.dag.cp = NoCheckpoint
    /\ w.dag.win \subseteq K
    /\ \A i \in 1 .. HeldMax : w.held[i].tx \in A \cup {NoTx}
    /\ \A p \in w.sent : p.tx \in A

LEMMA AcceptAware ==
    ASSUME NEW A, NEW K, NEW w \in Work, Aware(A, K, w), NEW t \in A, A \subseteq K
    PROVE  Aware(A, K, Accept(w, t)) /\ Accept(w, t).held = w.held
<1> DEFINE m == Merge(w.dag.win, t)
           x == [dag |-> [win |-> m, cp |-> w.dag.cp], held |-> w.held,
                 sent |-> w.sent \cup {Ack(t)}]
<1>1. Accept(w, t) = x
    <2>1. Accept(w, t) = [dag |-> [w.dag EXCEPT !.win = m], held |-> w.held,
                          sent |-> w.sent \cup {Ack(t)}]
        <3>1. w = [dag |-> w.dag, held |-> w.held, sent |-> w.sent]
            BY WorkIs
        <3> QED BY <3>1, AcceptIs
    <2>2. w.dag = [win |-> w.dag.win, cp |-> w.dag.cp]
        BY WorkIs
    <2> HIDE DEF m
    <2>3. [w.dag EXCEPT !.win = m] = [win |-> m, cp |-> w.dag.cp]
        BY <2>2
    <2> QED BY <2>1, <2>3, Zenon
<1>2. m \subseteq K
    BY DEF Merge, Aware
<1>3. Ack(t).tx = t
    BY DEF Ack
<1> HIDE DEF m
<1>4. Aware(A, K, x) /\ x.held = w.held
    BY <1>2, <1>3 DEF Aware
<1> QED BY <1>1, <1>4

LEMMA RefuseAware ==
    ASSUME NEW A, NEW K, NEW w \in Work, Aware(A, K, w), NEW t \in A
    PROVE  Aware(A, K, Refuse(w, t)) /\ Refuse(w, t).held = w.held
<1> DEFINE x == [dag |-> w.dag, held |-> w.held, sent |-> w.sent \cup {Nack(t)}]
<1>1. Refuse(w, t) = x
    <2>1. w = [dag |-> w.dag, held |-> w.held, sent |-> w.sent]
        BY WorkIs
    <2> QED BY <2>1, RefuseIs
<1>2. Nack(t).tx = t
    BY DEF Nack
<1>3. Aware(A, K, x) /\ x.held = w.held
    BY <1>2 DEF Aware
<1> QED BY <1>1, <1>3

LEMMA SlotAware ==
    ASSUME NEW A, NEW K, NEW w \in Work, Aware(A, K, w), NEW i \in 1 .. HeldMax,
           NEW s, s.tx \in A \cup {NoTx}
    PROVE  Aware(A, K, [w EXCEPT !.held[i] = s])
<1> DEFINE h == [w.held EXCEPT ![i] = s]
           x == [dag |-> w.dag, held |-> h, sent |-> w.sent]
<1>1. [w EXCEPT !.held[i] = s] = x
    BY DEF Work
<1>2. \A j \in 1 .. HeldMax : h[j].tx \in A \cup {NoTx}
    BY WorkIs DEF Aware
<1> HIDE DEF h
<1>3. Aware(A, K, x)
    BY <1>2 DEF Aware
<1> QED BY <1>1, <1>3

LEMMA RetrySlotAware ==
    ASSUME NEW n, NEW win, NEW A, NEW K, A \subseteq K, NEW w, Fits(n, win, w),
           Aware(A, K, w), NEW i \in 1 .. HeldMax
    PROVE  Aware(A, K, RetrySlot(w, i))
<1> DEFINE t == w.held[i].tx
           verdict == PaymentVerdict(w.dag, t)
           kept == t = NoTx \/ (verdict \in Transient /\ ~w.held[i].late)
<1>1. w \in Work /\ w.held[i] \in Slot
    BY DEF Fits, Work
<1>2. CASE kept
    BY <1>2 DEF RetrySlot
<1>3. CASE ~kept
    <2>1. t \in A /\ t \in Tx /\ t.to = n
        BY <1>1, <1>3, SlotIsTx DEF Aware, Fits, Mine
    <2>2. Empty.tx = NoTx
        BY DEF Empty
    <2>3. CASE verdict \in Received
        <3>1. RetrySlot(w, i) = [Accept(w, t) EXCEPT !.held[i] = Empty]
            BY <1>3, <2>3 DEF RetrySlot
        <3>2. Accept(w, t) \in Work
            BY <2>1, <2>3, AcceptFits DEF Fits
        <3> HIDE DEF t
        <3>3. Aware(A, K, Accept(w, t))
            BY <1>1, <2>1, AcceptAware
        <3> QED BY <2>2, <3>1, <3>2, <3>3, SlotAware
    <2>4. CASE verdict \notin Received
        <3>1. RetrySlot(w, i) = [Refuse(w, t) EXCEPT !.held[i] = Empty]
            BY <1>3, <2>4 DEF RetrySlot
        <3>2. Refuse(w, t) \in Work
            BY <2>1, RefuseFits DEF Fits
        <3> HIDE DEF t
        <3>3. Aware(A, K, Refuse(w, t))
            BY <1>1, <2>1, RefuseAware
        <3> QED BY <2>2, <3>1, <3>2, <3>3, SlotAware
    <2> QED BY <2>3, <2>4
<1> QED BY <1>2, <1>3

LEMMA RetriedAware ==
    ASSUME NEW n, NEW win, NEW A, NEW K, A \subseteq K, NEW w, Fits(n, win, w),
           Aware(A, K, w), NEW x \in Retried(w)
    PROVE  Aware(A, K, x)
<1>0. HeldMax \in Nat
    BY PaymentAssumption
<1>1. PICK f : Rounds(w, HeldMax, f) /\ Retried(w) = f[HeldMax]
    BY RetriedRounds
<1>2. \A i \in 0 .. HeldMax : f[i] = Round(w, f, i)
    BY <1>1 DEF Rounds
<1> DEFINE S == {i \in 0 .. HeldMax : \A y \in f[i] : Fits(n, win, y) /\ Aware(A, K, y)}
<1>3. 0 \in S
    <2>1. 0 \in 0 .. HeldMax
        BY <1>0
    <2>2. f[0] = {w}
        BY <1>2, <2>1 DEF Round
    <2> QED BY <2>1, <2>2
<1>4. ASSUME NEW i \in S, i < HeldMax
      PROVE  i + 1 \in S
    <2>1. i + 1 \in 1 .. HeldMax /\ (i + 1) - 1 = i
        BY <1>0, <1>4
    <2>2. f[i + 1] = {RetrySlot(y, i + 1) : y \in f[i]}
        <3>1. f[i + 1] = Round(w, f, i + 1) /\ i + 1 # 0
            BY <1>0, <1>2, <2>1
        <3> HIDE DEF S
        <3> QED BY <2>1, <3>1 DEF Round
    <2>3. ASSUME NEW y \in f[i]
          PROVE  Fits(n, win, RetrySlot(y, i + 1)) /\ Aware(A, K, RetrySlot(y, i + 1))
        BY <2>1, RetrySlotFits, RetrySlotAware
    <2> QED BY <2>1, <2>2, <2>3
<1>5. HeldMax \in S
    <2> HIDE DEF S
    <2>1. S \in SUBSET (0 .. HeldMax)
        BY DEF S
    <2> QED BY <1>0, <1>3, <1>4, <2>1, UpTo
<1> QED BY <1>1, <1>5

LEMMA JudgeAware ==
    ASSUME NEW A, NEW K, A \subseteq K, NEW w \in Work, Aware(A, K, w), NEW t \in A
    PROVE  Aware(A, K, Judge(w, t))
<1> DEFINE verdict == PaymentVerdict(w.dag, t)
<1>1. CASE verdict \in Received
    BY <1>1, AcceptAware DEF Judge
<1>2. CASE verdict \notin Received /\ verdict \in Transient /\ FreeSlots(w) # {}
    <2>1. Judge(w, t) = [w EXCEPT !.held[FirstOf(FreeSlots(w))] = Waiting(t)]
        BY <1>2 DEF Judge, Hold
    <2>2. FirstOf(FreeSlots(w)) \in 1 .. HeldMax
        <3>1. FreeSlots(w) \subseteq Nat /\ FreeSlots(w) # {}
            BY <1>2, PaymentAssumption DEF FreeSlots
        <3>2. \E i \in FreeSlots(w) : \A j \in FreeSlots(w) : i <= j
            BY <3>1, Least
        <3>3. FirstOf(FreeSlots(w)) \in FreeSlots(w)
            BY <3>2 DEF FirstOf
        <3> QED BY <3>3 DEF FreeSlots
    <2>3. Waiting(t).tx = t
        BY DEF Waiting
    <2> QED BY <2>1, <2>2, <2>3, SlotAware
<1>3. CASE verdict \notin Received /\ ~(verdict \in Transient /\ FreeSlots(w) # {})
    BY <1>3, RefuseAware DEF Judge
<1> QED BY <1>1, <1>2, <1>3

LEMMA BatchAware ==
    ASSUME NEW A, NEW K, NEW w \in Work, Aware(A, K, w), NEW brought \in SUBSET K
    PROVE  Aware(A, K, [w EXCEPT !.dag = WithBatch(w.dag, brought)])
<1> DEFINE more == {t \in brought :
                        IngestCheck([w.dag EXCEPT !.win = @ \cup
                            {u \in brought : u.type = "CLAIM" /\ IngestCheck(w.dag, u) = "OK"}], t)
                          = "OK"}
           d == [win |-> w.dag.win \cup more, cp |-> w.dag.cp]
           x == [dag |-> d, held |-> w.held, sent |-> w.sent]
<1>1. WithBatch(w.dag, brought) = [w.dag EXCEPT !.win = @ \cup more]
    BY Zenon DEF WithBatch
<1>2. more \subseteq K
    OBVIOUS
<1> HIDE DEF more
<1>3. [w.dag EXCEPT !.win = @ \cup more] = d
    <2>1. PICK v, c : w.dag = [win |-> v, cp |-> c]
        BY WorkIs
    <2> QED BY <2>1
<1>4. [w EXCEPT !.dag = d] = x
    <2>1. w = [dag |-> w.dag, held |-> w.held, sent |-> w.sent]
        BY WorkIs
    <2> HIDE DEF d
    <2> QED BY <2>1
<1>5. Aware(A, K, x)
    BY <1>2 DEF Aware
<1> QED BY <1>1, <1>3, <1>4, <1>5

-----------------------------------------------------------------------------
(* Steps of the payee, and saves of a window: nothing new is anywhere. *)

LEMMA FundKept ==
    ASSUME IInv, FundInv, Known' \subseteq Known,
           \A n \in Account : dag'[n].cp = NoCheckpoint,
           \A n \in Account, i \in 1 .. HeldMax : held'[n][i].tx \in Aired' \cup {NoTx},
           \A n \in Account : saved[n] \subseteq saved'[n]
    PROVE  FundInv'
<1>0. Known \subseteq Tx
    BY KnownType
<1>1. IsFiniteSet(Known')
    <2>1. PICK u, v : u = Known' /\ v = Known
        OBVIOUS
    <2>2. u \in SUBSET v /\ IsFiniteSet(v)
        BY <2>1 DEF FundInv
    <2>3. IsFiniteSet(u)
        BY <2>2, FS_Subset
    <2> QED BY <2>1, <2>3
<1>2. ASSUME NEW t \in Known', t.type = "TRANSFER"
      PROVE  t \in saved'[t.from]
    <2>1. t \in saved[t.from] /\ t.from \in Account
        BY <1>0, <1>2 DEF FundInv, Tx
    <2> QED BY <2>1
<1>3. ASSUME NEW n \in Account
      PROVE  RawBalance(Flat(saved'[n]), n) >= 0
    <2>1. PICK big, small : big = saved'[n] /\ small = saved[n]
        OBVIOUS
    <2>2. big \subseteq Known /\ small \subseteq big
        BY <2>1, KnownMemberNext
    <2>3. big \in SUBSET Tx /\ IsFiniteSet(big) /\ small \in SUBSET Tx /\ IsFiniteSet(small)
        <3>1. IsFiniteSet(Known)
            BY DEF FundInv
        <3> QED BY <1>0, <2>2, <3>1, FS_Subset
    <2>4. \A t \in big \ small : ~(t.type = "TRANSFER" /\ t.from = n)
        BY <2>1, <2>2 DEF FundInv
    <2>5. RawBalance(Flat(small), n) <= RawBalance(Flat(big), n)
        BY <2>2, <2>3, <2>4, Richer
    <2>6. RawBalance(Flat(small), n) >= 0
        BY <2>1 DEF FundInv
    <2>7. RawBalance(Flat(small), n) \in Int /\ RawBalance(Flat(big), n) \in Int
        BY <2>3, FlatBalance
    <2>8. RawBalance(Flat(big), n) >= 0
        BY <2>5, <2>6, <2>7
    <2> QED BY <2>1, <2>8
<1>4. \A t \in Known' : ClaimValid(t) => t.key = t.from
    BY DEF FundInv, Keyed
<1> QED BY <1>1, <1>2, <1>3, <1>4 DEF FundInv, Keyed

LEMMA LocalAware ==
    ASSUME IInv, FundInv, NEW n \in Account
    PROVE  Aware(Aired, Known, Local(n)) /\ Aired \subseteq Known
<1>1. Aired \subseteq Known /\ dag[n].win \subseteq Known
    BY KnownMember
<1> QED BY <1>1 DEF Aware, Local, FundInv

LEMMA BecomeFunds ==
    ASSUME IInv, FundInv, NEW n \in Account, NEW w \in Work, Aware(Aired, Known, w),
           Become(n, w), saved' = saved
    PROVE  FundInv'
<1>1. /\ dag' = [dag EXCEPT ![n] = w.dag]
      /\ held' = [held EXCEPT ![n] = w.held]
      /\ air' = air \cup w.sent
    BY DEF Become
<1>2. dag \in [Account -> Dag] /\ held \in [Account -> [1 .. HeldMax -> Slot]]
    BY DEF IInv, TypeOK
<1>3. Aired' = Aired
    BY <1>1 DEF Aired, Aware
<1>4. Known' \subseteq Known
    <2> SUFFICES ASSUME NEW t \in Known' PROVE t \in Known
        OBVIOUS
    <2>1. t \in Aired \/ \E m \in Account : t \in dag'[m].win \/ t \in saved[m]
        BY <1>3, KnownMemberNext
    <2>2. \A m \in Account : dag'[m].win \subseteq Known
        <3> TAKE m \in Account
        <3>1. dag[m].win \subseteq Known
            BY KnownMember
        <3> QED BY <1>1, <1>2, <3>1 DEF Aware
    <2> QED BY <2>1, <2>2, KnownMember
<1>5. \A m \in Account : dag'[m].cp = NoCheckpoint
    BY <1>1, <1>2 DEF FundInv, Aware
<1>6. \A m \in Account, i \in 1 .. HeldMax : held'[m][i].tx \in Aired' \cup {NoTx}
    BY <1>1, <1>2, <1>3 DEF FundInv, Aware
<1> QED BY <1>4, <1>5, <1>6, FundKept

LEMMA HearPaymentFunds ==
    ASSUME IInv, FundInv, NEW n \in Account, NEW t, HearPayment(n, t)
    PROVE  FundInv'
<1>1. t \in Tx /\ t.to = n /\ t \in Aired
    BY DEF HearPayment, Payment, Addressed, IInv, TypeOK, Packet, Aired
<1>2. PICK w \in Retried(Local(n)) : Become(n, Judge(w, t))
    BY DEF HearPayment
<1>3. Fits(n, dag[n].win, w)
    BY LocalFits, RetriedFits
<1>4. Aware(Aired, Known, w) /\ Aired \subseteq Known
    BY LocalFits, LocalAware, RetriedAware
<1>5. w \in Work /\ Judge(w, t) \in Work
    BY <1>1, <1>3, JudgeFits DEF Fits
<1>6. Aware(Aired, Known, Judge(w, t))
    BY <1>1, <1>4, <1>5, JudgeAware
<1> QED BY <1>2, <1>5, <1>6, BecomeFunds DEF HearPayment

LEMMA RetriedFunds ==
    ASSUME IInv, FundInv, NEW n \in Account, NEW w \in Retried(Local(n)), Become(n, w),
           saved' = saved
    PROVE  FundInv'
<1>1. Fits(n, dag[n].win, w)
    BY LocalFits, RetriedFits
<1>2. Aware(Aired, Known, w)
    BY LocalFits, LocalAware, RetriedAware
<1> QED BY <1>1, <1>2, BecomeFunds DEF Fits

LEMMA HearBatchFunds ==
    ASSUME IInv, FundInv, NEW n \in Account, NEW m \in Account,
           NEW brought \in SUBSET dag[m].win, HearBatch(n, m, brought)
    PROVE  FundInv'
<1>1. brought \in SUBSET Tx /\ brought \in SUBSET Known
    BY KnownMember DEF IInv, TypeOK, Dag
<1>2. PICK before \in Retried(Local(n)) :
          \E after \in Retried([before EXCEPT !.dag = WithBatch(before.dag, brought)]) :
              Become(n, after)
    BY DEF HearBatch
<1>3. PICK after \in Retried([before EXCEPT !.dag = WithBatch(before.dag, brought)]) :
          Become(n, after)
    BY <1>2
<1>4. Fits(n, dag[n].win, before) /\ Aware(Aired, Known, before)
    BY LocalFits, RetriedFits, LocalAware, RetriedAware
<1>5. PICK x : x = [before EXCEPT !.dag = WithBatch(before.dag, brought)]
    OBVIOUS
<1>6. Fits(n, dag[n].win, x)
    BY <1>1, <1>4, <1>5, BatchFits
<1>7. Aware(Aired, Known, x)
    BY <1>1, <1>4, <1>5, BatchAware DEF Fits
<1>8. Fits(n, dag[n].win, after)
    BY <1>3, <1>5, <1>6, RetriedFits
<1>9. Aware(Aired, Known, after)
    BY <1>3, <1>5, <1>6, <1>7, LocalAware, RetriedAware
<1> QED BY <1>3, <1>8, <1>9, BecomeFunds DEF Fits, HearBatch

(* A payment: its funds were in the window it joins, and goes to flash with. *)
LEMMA PayFunds ==
    ASSUME IInv, FundInv, NEW n \in Account, NEW to \in Account, NEW amount \in Amount,
           NEW ref \in Ref, Pay(n, to, amount, ref)
    PROVE  FundInv'
<1> DEFINE t == Transfer(n, to, amount, nextSeq[n], ref)
           win == dag[n].win
<1>1. t \in Tx /\ t.type = "TRANSFER" /\ t.from = n /\ t.to = to /\ t.cur = Currency
    <2>1. amount \in Nat /\ nextSeq[n] \in Nat /\ TransferFee \in Nat
        BY PaymentAssumption, LedgerAssumption DEF IInv, TypeOK
    <2> QED BY <2>1 DEF Transfer, Tx, TxType
<1>2. /\ dag \in [Account -> Dag] /\ saved \in [Account -> SUBSET Tx] /\ win \in SUBSET Tx
    BY DEF IInv, TypeOK, Dag
<1>3. to # n /\ ShapeValid(t) /\ ValidateTx(dag[n], t) = "OK" /\ held' = held
    BY DEF Pay
<1> HIDE DEF t
<1>4. CASE MergeVerdict(win, t) # "OK"
    <2>1. UNCHANGED <<dag, saved, air>>
        BY <1>4 DEF Pay, t
    <2>2. Known' = Known /\ Aired' = Aired
        BY <2>1 DEF Known, Everything, Aired
    <2> QED BY <1>3, <2>1, <2>2 DEF FundInv, Keyed
<1>5. CASE MergeVerdict(win, t) = "OK"
    <2>1. /\ dag' = [dag EXCEPT ![n].win = @ \cup {t}]
          /\ saved' = [saved EXCEPT ![n] = win \cup {t}]
          /\ air' = air \cup {Payment(t)}
        BY <1>5 DEF Pay, t
    <2>2. t \notin win
        BY <1>5 DEF MergeVerdict
    <2>3. /\ dag'[n].win = win \cup {t} /\ dag'[n].cp = dag[n].cp
          /\ saved'[n] = win \cup {t}
          /\ \A m \in Account \ {n} : dag'[m] = dag[m] /\ saved'[m] = saved[m]
        BY <1>2, <2>1 DEF Dag
    <2>4. Aired' = Aired \cup {t}
        <3>1. Payment(t).tx = t
            BY DEF Payment
        <3> QED BY <2>1, <3>1 DEF Aired
    <2>5. Known' \subseteq Known \cup {t}
        <3> SUFFICES ASSUME NEW u \in Known', u # t PROVE u \in Known
            OBVIOUS
        <3>1. u \in Aired' \/ \E m \in Account : u \in dag'[m].win \/ u \in saved'[m]
            BY KnownMemberNext
        <3>2. u \in Aired \/ \E m \in Account : u \in dag[m].win \/ u \in saved[m]
            BY <2>3, <2>4, <3>1
        <3> QED BY <3>2, KnownMember
    <2>6. IsFiniteSet(Known')
        <3>1. IsFiniteSet(Known \cup {t})
            BY FS_AddElement DEF FundInv
        <3>2. PICK u, v : u = Known' /\ v = Known \cup {t}
            OBVIOUS
        <3>3. u \in SUBSET v /\ IsFiniteSet(v)
            BY <2>5, <3>1, <3>2
        <3>4. IsFiniteSet(u)
            BY <3>3, FS_Subset
        <3> QED BY <3>2, <3>4
    <2>7. \A m \in Account : dag'[m].cp = NoCheckpoint
        BY <2>3 DEF FundInv
    <2>8. \A m \in Account, i \in 1 .. HeldMax : held'[m][i].tx \in Aired' \cup {NoTx}
        BY <1>3, <2>4 DEF FundInv
    <2>9. ASSUME NEW u \in Known', u.type = "TRANSFER"
          PROVE  u \in saved'[u.from]
        <3>1. CASE u = t
            BY <1>1, <2>3, <3>1
        <3>2. CASE u # t
            <4>1. u \in saved[u.from] /\ u.from \in Account
                BY <2>5, <2>9, <3>2, KnownType DEF FundInv, Tx
            <4>2. saved[u.from] \subseteq dag[u.from].win
                BY <4>1 DEF IInv, Saved
            <4> QED BY <2>3, <4>1, <4>2
        <3> QED BY <3>1, <3>2
    <2>10. RawBalance(Flat(win \cup {t}), n) >= 0
        <3>1. IsFiniteSet(win) /\ win \subseteq Known
            BY KnownMember, FS_Subset DEF FundInv
        <3>2. dag[n] = Flat(win)
            BY <1>2 DEF Flat, Dag, FundInv
        <3>3. t.amount \in Nat \ {0} /\ t.fee \in Nat
            BY <1>1, <1>3 DEF Tx, ShapeValid
        <3>4. PICK r \in Int : r = RawBalance(Flat(win), n)
            BY <1>2, <3>1, FlatBalance
        <3>5. ~(t.amount + t.fee > Clamp(r))
            <4>1. ~(t.amount + t.fee > Balance(Flat(win), n))
                BY <1>1, <1>3, <3>2, Zenon DEF ValidateTx
            <4> QED BY <3>4, <4>1 DEF Balance
        <3>6. t.amount + t.fee <= r
            <4>1. BalanceMax \in Nat
                BY LedgerAssumption
            <4> QED BY <3>3, <3>4, <3>5, <4>1 DEF Clamp
        <3>7. Effect(t, n) >= -(t.amount + t.fee) /\ Effect(t, n) \in Int
            BY <1>1, <1>3, <3>3 DEF Effect
        <3>8. RawBalance(Flat(win \cup {t}), n) = r + Effect(t, n)
            BY <1>1, <1>2, <2>2, <3>1, <3>4, OneMore
        <3> QED BY <3>3, <3>4, <3>6, <3>7, <3>8
    <2>11. \A m \in Account : RawBalance(Flat(saved'[m]), m) >= 0
        BY <2>3, <2>10 DEF FundInv
    <2>12. \A u \in Known' : ClaimValid(u) => u.key = u.from
        BY <1>1, <2>5 DEF FundInv, Keyed, ClaimValid
    <2> QED BY <2>6, <2>7, <2>8, <2>9, <2>11, <2>12 DEF FundInv, Keyed
<1> QED BY <1>4, <1>5

LEMMA SavesFund ==
    ASSUME IInv, FundInv, NEW n \in Account,
           saved' = [saved EXCEPT ![n] = dag[n].win] \/ saved' = saved,
           UNCHANGED <<dag, held, air>>
    PROVE  FundInv'
<1>1. saved \in [Account -> SUBSET Tx] /\ \A m \in Account : saved[m] \subseteq dag[m].win
    BY DEF IInv, TypeOK, Saved
<1>2. \A m \in Account : saved'[m] \in {saved[m], dag[m].win}
    BY <1>1
<1>3. \A m \in Account : saved[m] \subseteq saved'[m]
    BY <1>1, <1>2
<1>4. Aired' = Aired
    BY DEF Aired
<1>5. Known' \subseteq Known
    BY <1>2, <1>4, KnownMember, KnownMemberNext
<1>6. /\ \A m \in Account : dag'[m].cp = NoCheckpoint
      /\ \A m \in Account, i \in 1 .. HeldMax : held'[m][i].tx \in Aired' \cup {NoTx}
    BY <1>4 DEF FundInv
<1> QED BY <1>3, <1>5, <1>6, FundKept

LEMMA HoldOverdueFunds ==
    ASSUME IInv, FundInv, NEW n \in Account, NEW i \in 1 .. HeldMax, HoldOverdue(n, i)
    PROVE  FundInv'
<1>1. held \in [Account -> [1 .. HeldMax -> Slot]] /\ held[n][i] # Empty
      /\ held[n][i] \in Slot
    BY DEF HoldOverdue, IInv, TypeOK
<1>2. held[n][i] \in [tx : Tx, late : BOOLEAN]
    BY <1>1 DEF Slot
<1>3. held' = [held EXCEPT ![n] = [held[n] EXCEPT ![i] = [held[n][i] EXCEPT !.late = TRUE]]]
    BY Zenon DEF HoldOverdue
<1>4. [held[n][i] EXCEPT !.late = TRUE].tx = held[n][i].tx
    BY <1>2, LateIs
<1>5. \A m \in Account, j \in 1 .. HeldMax : held'[m][j].tx = held[m][j].tx
    <2> DEFINE s == [held[n][i] EXCEPT !.late = TRUE]
    <2> HIDE DEF s
    <2>1. held' = [held EXCEPT ![n] = [held[n] EXCEPT ![i] = s]] /\ s.tx = held[n][i].tx
        BY <1>3, <1>4 DEF s
    <2> QED BY <1>1, <2>1
<1>6. dag' = dag /\ saved' = saved /\ air' = air
    BY DEF HoldOverdue
<1>7. Aired' = Aired /\ Known' = Known
    BY <1>6 DEF Aired, Known, Everything
<1> QED BY <1>5, <1>6, <1>7 DEF FundInv, Keyed

LEMMA RestartFunds ==
    ASSUME IInv, FundInv, NEW n \in Account, Restart(n)
    PROVE  FundInv'
<1>1. dag \in [Account -> Dag] /\ held \in [Account -> [1 .. HeldMax -> Slot]]
    BY DEF IInv, TypeOK
<1>2. /\ dag' = [dag EXCEPT ![n].win = saved[n]]
      /\ held' = [held EXCEPT ![n] = [i \in 1 .. HeldMax |-> Empty]]
      /\ saved' = saved /\ air' = air
    BY DEF Restart
<1>3. /\ dag'[n].win = saved[n] /\ dag'[n].cp = dag[n].cp
      /\ \A m \in Account \ {n} : dag'[m] = dag[m]
    BY <1>1, <1>2 DEF Dag
<1>4. Aired' = Aired
    BY <1>2 DEF Aired
<1>5. Known' \subseteq Known
    <2> SUFFICES ASSUME NEW t \in Known' PROVE t \in Known
        OBVIOUS
    <2>1. t \in Aired \/ \E m \in Account : t \in dag'[m].win \/ t \in saved[m]
        BY <1>2, <1>4, KnownMemberNext
    <2>2. \A m \in Account : dag'[m].win = saved[m] \/ dag'[m].win = dag[m].win
        BY <1>3
    <2> QED BY <2>1, <2>2, KnownMember
<1>6. \A m \in Account : dag'[m].cp = NoCheckpoint
    BY <1>3 DEF FundInv
<1>7. \A m \in Account, i \in 1 .. HeldMax : held'[m][i].tx \in Aired' \cup {NoTx}
    <2>1. Empty.tx = NoTx
        BY DEF Empty
    <2> QED BY <1>1, <1>2, <1>4, <2>1 DEF FundInv
<1> QED BY <1>2, <1>5, <1>6, <1>7, FundKept

LEMMA InitFund ==
    ASSUME Init
    PROVE  FundInv
<1> DEFINE Claims == {Claim(n) : n \in Account}
           f == [n \in Account |-> Claim(n)]
<1>1. IsFiniteSet(Claims)
    <2>1. f \in Surjection(Account, Claims)
        BY DEF Surjection
    <2> QED BY <2>1, FS_Surjection, FiniteAccounts
<1>2. /\ \A n \in Account : /\ dag[n].win \subseteq Claims /\ saved[n] = dag[n].win
                            /\ dag[n].win \subseteq {Claim(n)}
                            /\ dag[n].cp = NoCheckpoint
      /\ air = {}
    BY DEF Init
<1>3. Aired = {}
    BY <1>2 DEF Aired
<1>4. Known \subseteq Claims
    BY <1>2, <1>3, KnownMember
<1>5. IsFiniteSet(Known)
    BY <1>1, <1>4, FS_Subset
<1>6. \A n \in Account : Claim(n) \in Tx /\ Claim(n).type # "TRANSFER"
    BY LedgerAssumption DEF Claim, Tx, TxType
<1>7. \A t \in Known : t.type # "TRANSFER"
    BY <1>4, <1>6
<1>8. \A n \in Account, i \in 1 .. HeldMax : held[n][i].tx = NoTx
    BY DEF Init, Empty
<1>9. ASSUME NEW n \in Account
      PROVE  RawBalance(Flat(saved[n]), n) >= 0
    <2>1. PICK win : win = saved[n]
        OBVIOUS
    <2>2. win \in SUBSET Tx /\ IsFiniteSet(win) /\ \A t \in win : t.type # "TRANSFER"
        BY <1>1, <1>2, <1>6, <2>1, FS_Subset
    <2>3. {} \in SUBSET win /\ IsFiniteSet({}) /\ {} \in SUBSET Tx
        BY FS_EmptySet
    <2>4. RawBalance(Flat({}), n) <= RawBalance(Flat(win), n)
        BY <2>2, <2>3, Richer
    <2>5. Registry(Flat({})) = {}
        BY DEF Registry, Flat
    <2>6. RawBalance(Flat({}), n) = 0
        BY <2>3, <2>5, FlatBalance, SumEmpty
    <2>7. RawBalance(Flat(win), n) \in Int
        BY <2>2, FlatBalance
    <2> QED BY <2>1, <2>4, <2>6, <2>7
<1>10. \A t \in Known : t.key = t.from
    BY <1>4 DEF Claim
<1> QED BY <1>2, <1>5, <1>7, <1>8, <1>9, <1>10 DEF FundInv, Keyed

LEMMA FundStep ==
    ASSUME IInv, FundInv, [Next]_vars
    PROVE  FundInv'
<1>1. ASSUME NEW n \in Account, NEW to \in Account, NEW amount \in Amount, NEW ref \in Ref,
             Pay(n, to, amount, ref)
      PROVE  FundInv'
    BY <1>1, PayFunds
<1>2. ASSUME NEW n \in Account, NEW p \in air, HearPayment(n, p.tx)
      PROVE  FundInv'
    BY <1>2, HearPaymentFunds
<1>3. ASSUME NEW n \in Account, NEW p \in air, HearReceipt(n, p)
      PROVE  FundInv'
    BY <1>3, RetriedFunds DEF HearReceipt
<1>4. ASSUME NEW n \in Account, NEW m \in Account, NEW brought \in SUBSET dag[m].win,
             HearBatch(n, m, brought)
      PROVE  FundInv'
    BY <1>4, HearBatchFunds
<1>5. ASSUME NEW n \in Account, NEW i \in 1 .. HeldMax, HoldOverdue(n, i)
      PROVE  FundInv'
    BY <1>5, HoldOverdueFunds
<1>6. ASSUME NEW n \in Account, Tick(n)
      PROVE  FundInv'
    BY <1>6, RetriedFunds DEF Tick
<1>7. ASSUME NEW n \in Account, Refresh(n) \/ Summarise(n)
      PROVE  FundInv'
    <2>1. saved' = [saved EXCEPT ![n] = dag[n].win] \/ saved' = saved
        BY <1>7 DEF Refresh, Summarise
    <2>2. UNCHANGED <<dag, held, air>>
        BY <1>7 DEF Refresh, Summarise
    <2> QED BY <2>1, <2>2, SavesFund
<1>8. ASSUME NEW n \in Account, Restart(n)
      PROVE  FundInv'
    BY <1>8, RestartFunds
<1>9. ASSUME UNCHANGED <<dag, saved, held, air>>
      PROVE  FundInv'
    BY <1>9 DEF FundInv, Known, Everything, Aired, Keyed
<1>10. ASSUME NEW n \in Account, PayInVain(n) \/ ReceiptOverdue(n)
       PROVE  FundInv'
    BY <1>9, <1>10 DEF PayInVain, ReceiptOverdue
<1>11. CASE UNCHANGED vars
    BY <1>9, <1>11 DEF vars
<1> QED BY <1>1, <1>2, <1>3, <1>4, <1>5, <1>6, <1>7, <1>8, <1>10, <1>11 DEF Next

(* Whatever is lost, repeated, held, judged again or cut off, all that was   *)
(* ever put on the radio or stored anywhere, taken together, overdraws no    *)
(* member.                                                                   *)
THEOREM Solvent == Spec => []NoOverdraft
<1>1. Init => IInv /\ FundInv
    BY InitInv, InitFund
<1>2. IInv /\ FundInv /\ [Next]_vars => IInv' /\ FundInv'
    BY Step, FundStep
<1>3. IInv /\ FundInv => NoOverdraft
    <2> SUFFICES ASSUME IInv, FundInv, NEW n \in Account
                 PROVE  RawBalance(Everything, n) >= 0
        BY DEF NoOverdraft
    <2>1. PICK big, small : big = Known /\ small = saved[n]
        OBVIOUS
    <2>2. Everything = Flat(big)
        BY <2>1 DEF Known, Everything, Flat
    <2>3. big \in SUBSET Tx /\ IsFiniteSet(big) /\ small \in SUBSET big
        BY <2>1, KnownType, KnownMember DEF FundInv
    <2>4. \A t \in big \ small : ~(t.type = "TRANSFER" /\ t.from = n)
        BY <2>1 DEF FundInv
    <2>5. RawBalance(Flat(small), n) <= RawBalance(Flat(big), n)
        BY <2>3, <2>4, Richer
    <2>6. RawBalance(Flat(small), n) >= 0
        BY <2>1 DEF FundInv
    <2>7. RawBalance(Flat(small), n) \in Int /\ RawBalance(Flat(big), n) \in Int
        BY <2>3, FS_Subset, FlatBalance
    <2> QED BY <2>2, <2>5, <2>6, <2>7
<1> QED BY <1>1, <1>2, <1>3, PTL DEF Spec

-----------------------------------------------------------------------------
(* The passes over a batch.  The gate's verdict on a transfer can change    *)
(* once, when the claim of its payer is merged: the key of a known member   *)
(* never changes as a keyed window grows.                                   *)

(* A keyed window gives every member the key of its account.                 *)
LEMMA KeyOfMember ==
    ASSUME NEW d \in Dag, Keyed(d.win), NEW a \in Account
    PROVE  MemberKey(d, a) =
               IF IsMintAuthority(a) THEN Founder
               ELSE IF Listed(d.cp, a) /\ d.cp.dir[a].key # NoKey THEN d.cp.dir[a].key
               ELSE IF \E t \in d.win : ClaimValid(t) /\ t.from = a THEN a ELSE NoKey
<1>1. d.win \in SUBSET Tx
    BY DEF Dag
<1>2. ASSUME NEW t \in d.win, ClaimValid(t)
      PROVE  t.key = t.from /\ t.key # NoKey
    BY <1>1, <1>2, LedgerAssumption DEF Keyed, Tx
<1> DEFINE P(t) == ClaimValid(t) /\ t.from = a /\ t.key # NoKey
<1>3. (\E t \in d.win : ClaimValid(t) /\ t.from = a) <=> \E t \in d.win : P(t)
    BY <1>2
<1>4. (\E t \in d.win : P(t)) => (CHOOSE t \in d.win : P(t)).key = a
    <2>1. SUFFICES ASSUME \E t \in d.win : P(t)
                   PROVE  (CHOOSE t \in d.win : P(t)).key = a
        OBVIOUS
    <2>2. PICK c : c = CHOOSE t \in d.win : P(t)
        OBVIOUS
    <2>3. c \in d.win /\ P(c)
        BY <2>1, <2>2
    <2> QED BY <1>2, <2>2, <2>3
<1>5. MemberKey(d, a) =
          CASE IsMintAuthority(a) -> Founder
            [] ~IsMintAuthority(a) /\ Listed(d.cp, a) /\ d.cp.dir[a].key # NoKey ->
                  d.cp.dir[a].key
            [] OTHER -> IF \E t \in d.win : P(t) THEN (CHOOSE t \in d.win : P(t)).key ELSE NoKey
    BY DEF MemberKey
<1> HIDE DEF P
<1> QED BY <1>3, <1>4, <1>5

(* What the gate says depends on the window only through the claims in it,  *)
(* and is definitive unless it is that the payer is not known.              *)
LEMMA GateAlone ==
    ASSUME NEW d, NEW e, d.cp = e.cp, NEW t \in Tx, t.type # "TRANSFER"
    PROVE  IngestCheck(e, t) = IngestCheck(d, t) /\ IngestCheck(d, t) # "UNKNOWN_MEMBER"
BY DEF IngestCheck, Tx, TxType

LEMMA GateGrows ==
    ASSUME NEW d \in Dag, NEW e \in Dag, Keyed(d.win), Keyed(e.win), d.cp = e.cp,
           \A c \in d.win : ClaimValid(c) => c \in e.win,
           NEW t \in Tx, IngestCheck(d, t) # "UNKNOWN_MEMBER"
    PROVE  IngestCheck(e, t) = IngestCheck(d, t)
<1>1. CASE t.type # "TRANSFER"
    BY <1>1, GateAlone
<1>2. CASE t.type = "TRANSFER"
    <2>1. t.from \in Account
        BY DEF Tx
    <2>2. MemberKey(d, t.from) # NoKey => MemberKey(e, t.from) = MemberKey(d, t.from)
        BY <2>1, KeyOfMember
    <2>3. CASE t.cur # Currency \/ BelowFloor(d.cp, t) \/ t.fee # TransferFee
        BY <1>2, <2>3 DEF IngestCheck
    <2>4. CASE ~(t.cur # Currency \/ BelowFloor(d.cp, t) \/ t.fee # TransferFee)
        <3>1. MemberKey(d, t.from) # NoKey
            BY <1>2, <2>4 DEF IngestCheck
        <3> QED BY <1>2, <2>2, <2>4, <3>1 DEF IngestCheck
    <2> QED BY <2>3, <2>4
<1> QED BY <1>1, <1>2

(* What the gate of the call is, before a step and after it.                 *)
LEMMA GateIs ==
    ASSUME NEW t \in Tx
    PROVE  /\ Gate(t) \in {"ACCEPT", "RETRY", "REJECT"}
           /\ Gate(t) = "ACCEPT" <=> ~anchored \/ IngestCheck(now, t) = "OK"
           /\ Gate(t) = "RETRY" <=> anchored /\ IngestCheck(now, t) = "UNKNOWN_MEMBER"
<1>1. PICK v : v = IngestCheck(now, t)
    OBVIOUS
<1>2. Gate(t) = CASE ~anchored \/ v = "OK" -> "ACCEPT"
                  [] anchored /\ v = "UNKNOWN_MEMBER" -> "RETRY"
                  [] OTHER -> "REJECT"
    BY <1>1 DEF Gate
<1> QED BY <1>1, <1>2

LEMMA GateIsNext ==
    ASSUME NEW t \in Tx
    PROVE  /\ Gate(t)' \in {"ACCEPT", "RETRY", "REJECT"}
           /\ Gate(t)' = "ACCEPT" <=> ~anchored' \/ IngestCheck(now', t) = "OK"
           /\ Gate(t)' = "RETRY" <=> anchored' /\ IngestCheck(now', t) = "UNKNOWN_MEMBER"
<1>1. PICK v : v = IngestCheck(now', t)
    OBVIOUS
<1>2. Gate(t)' = CASE ~anchored' \/ v = "OK" -> "ACCEPT"
                   [] anchored' /\ v = "UNKNOWN_MEMBER" -> "RETRY"
                   [] OTHER -> "REJECT"
    BY <1>1 DEF Gate
<1> QED BY <1>1, <1>2

LEMMA GateKept ==
    ASSUME now' = now, anchored' = anchored, NEW t \in Tx
    PROVE  Gate(t)' = Gate(t)
BY GateIs, GateIsNext

(* The gate accepts the claims that carry the key of their account.          *)
LEMMA AcceptedKeyed ==
    ASSUME NEW d, NEW t \in Tx, IngestCheck(d, t) = "OK", ClaimValid(t)
    PROVE  t.key = t.from
BY DEF IngestCheck, ClaimValid, Tx, TxType

LEMMA VerdictOK ==
    ASSUME NEW win, NEW t
    PROVE  /\ MergeVerdict(win, t) = "OK" => t \notin win
           /\ MergeVerdict(win, t) = "DUPLICATE" => t \in win
           /\ MergeVerdict(win, t) = "FULL" => Cardinality(win) >= WindowMax
           /\ MergeVerdict(win, t) = "OK" => Merge(win, t) = win \cup {t}
BY DEF MergeVerdict, Merge

-----------------------------------------------------------------------------
In(s) == {i \in DOMAIN batch : state[i] = s}

States == {"PENDING", "DONE", "SKIPPED", "RETRY"}

CallType ==
    /\ batch \in Seq(Tx)
    /\ start \in Dag /\ IsFiniteSet(start.win) /\ Keyed(start.win)
    /\ now \in Dag /\ now.cp = start.cp
    /\ anchored \in BOOLEAN
    /\ state \in [DOMAIN batch -> States]
    /\ pass \in Nat
    /\ pos \in 1 .. Len(batch) + 1
    /\ progress \in BOOLEAN
    /\ counts \in [merged : Nat, foreign : Nat, invalid : Nat]

(* What the window has gained, and what was counted.                         *)
Counted ==
    /\ now.win = start.win \cup {batch[i] : i \in In("DONE")}
    /\ counts.merged = Cardinality(now.win \ start.win)
    /\ result # "OK" => counts.foreign + counts.invalid = Cardinality(In("SKIPPED"))
    /\ result = "OK" => /\ counts.foreign + counts.invalid
                             = Cardinality(In("SKIPPED")) + Cardinality(In("RETRY"))
                        /\ dirty <=> counts.merged > 0

Seen(i) == pass > 0 \/ i < pos

(* What was settled stays so as the window grows.                            *)
Judged ==
    /\ anchored => Keyed(now.win)
    /\ \A i \in DOMAIN batch :
        /\ state[i] = "DONE" => ~Foreign(batch[i]) /\ Gate(batch[i]) = "ACCEPT"
        /\ state[i] = "SKIPPED" => Foreign(batch[i]) \/ Gate(batch[i]) = "REJECT"
        /\ state[i] = "PENDING" /\ Seen(i) => Cardinality(now.win) >= WindowMax
        /\ state[i] = "RETRY" => batch[i].type = "TRANSFER"
        /\ state[i] = "RETRY" /\ i < pos /\ ~progress => Gate(batch[i]) = "RETRY"

(* A pass that merged something has settled one more.                        *)
Progressing ==
    /\ pass + (IF progress THEN 1 ELSE 0) <= Cardinality(In("DONE"))
    /\ result = "OK" => pos > Len(batch) /\ (progress => pass + 1 >= Len(batch))

CallInv == CallType /\ Counted /\ Judged /\ Progressing

LEMMA BatchIndex ==
    ASSUME CallType
    PROVE  /\ Len(batch) \in Nat /\ DOMAIN batch = 1 .. Len(batch)
           /\ \A i \in DOMAIN batch : batch[i] \in Tx
BY DEF CallType

LEMMA InFinite ==
    ASSUME CallType, NEW s
    PROVE  /\ IsFiniteSet(In(s)) /\ Cardinality(In(s)) \in Nat
           /\ Cardinality(In(s)) <= Len(batch)
           /\ Cardinality(In(s)) = Len(batch) => In(s) = DOMAIN batch
<1>1. Len(batch) \in Nat /\ DOMAIN batch = 1 .. Len(batch)
    BY BatchIndex
<1>2. IsFiniteSet(1 .. Len(batch)) /\ Cardinality(1 .. Len(batch)) = Len(batch)
    <2>1. 1 \in Int /\ Len(batch) \in Int
        BY <1>1
    <2>2. /\ IsFiniteSet(1 .. Len(batch))
          /\ Cardinality(1 .. Len(batch)) = IF 1 > Len(batch) THEN 0 ELSE Len(batch) - 1 + 1
        BY <2>1, FS_Interval
    <2> QED BY <1>1, <2>2
<1>3. In(s) \in SUBSET (1 .. Len(batch))
    BY <1>1 DEF In
<1> HIDE DEF In
<1>4. /\ IsFiniteSet(In(s)) /\ Cardinality(In(s)) <= Len(batch)
      /\ Cardinality(In(s)) = Len(batch) => In(s) = 1 .. Len(batch)
    BY <1>2, <1>3, FS_Subset
<1>5. Cardinality(In(s)) \in Nat
    BY <1>4, FS_CardinalityType
<1> QED BY <1>1, <1>4, <1>5

LEMMA DisjointSizes ==
    ASSUME NEW S, NEW T, IsFiniteSet(S), IsFiniteSet(T), S \cap T = {}
    PROVE  /\ IsFiniteSet(S \cup T)
           /\ Cardinality(S \cup T) = Cardinality(S) + Cardinality(T)
<1>1. Cardinality(S \cap T) = 0
    BY FS_EmptySet
<1>2. /\ IsFiniteSet(S \cup T)
      /\ Cardinality(S \cup T) = Cardinality(S) + Cardinality(T) - Cardinality(S \cap T)
    BY FS_Union
<1>3. Cardinality(S) \in Nat /\ Cardinality(T) \in Nat
    BY FS_CardinalityType
<1> QED BY <1>1, <1>2, <1>3

LEMMA GainedFinite ==
    ASSUME NEW b, NEW D, IsFiniteSet(D)
    PROVE  /\ IsFiniteSet({b[i] : i \in D})
           /\ Cardinality({b[i] : i \in D}) <= Cardinality(D)
<1> DEFINE T == {b[i] : i \in D}
           f == [i \in D |-> b[i]]
<1>1. f \in Surjection(D, T)
    BY DEF Surjection
<1> HIDE DEF T, f
<1>2. IsFiniteSet(T) /\ Cardinality(T) <= Cardinality(D)
    BY <1>1, FS_Surjection
<1> QED BY <1>2 DEF T

LEMMA WindowFinite ==
    ASSUME CallType, Counted
    PROVE  /\ IsFiniteSet(now.win) /\ Cardinality(now.win) \in Nat
           /\ IsFiniteSet(now.win \ start.win)
           /\ counts.merged <= Cardinality(In("DONE"))
<1> DEFINE D == In("DONE")
           gained == {batch[i] : i \in D}
           win == now.win
           old == start.win
<1>1. IsFiniteSet(D) /\ Cardinality(D) \in Nat
    BY InFinite
<1>2. win = old \cup gained /\ IsFiniteSet(old) /\ counts.merged = Cardinality(win \ old)
    BY DEF CallType, Counted
<1> HIDE DEF D, win, old
<1>3. IsFiniteSet(gained) /\ Cardinality(gained) <= Cardinality(D)
    BY <1>1, GainedFinite
<1> HIDE DEF gained
<1>4. IsFiniteSet(win)
    BY <1>2, <1>3, FS_Union
<1>5. win \ old \in SUBSET gained
    BY <1>2
<1>6. IsFiniteSet(win \ old) /\ Cardinality(win \ old) <= Cardinality(gained)
    BY <1>3, <1>5, FS_Subset
<1>7. Cardinality(win) \in Nat /\ Cardinality(gained) \in Nat /\ Cardinality(win \ old) \in Nat
    BY <1>3, <1>4, <1>6, FS_CardinalityType
<1> QED BY <1>1, <1>2, <1>3, <1>4, <1>6, <1>7 DEF D, win, old

-----------------------------------------------------------------------------
(* What settling one transaction does to the loop.                           *)
LEMMA SettleIn ==
    ASSUME CallType, Unsettled, NEW s \in States, Settle(s)
    PROVE  /\ pos \in DOMAIN batch /\ batch' = batch /\ pos' = pos + 1
           /\ pos' \in 1 .. Len(batch') + 1
           /\ state[pos] \notin {"DONE", "SKIPPED"}
           /\ state' \in [DOMAIN batch -> States] /\ state'[pos] = s
           /\ \A i \in DOMAIN batch : i # pos => state'[i] = state[i]
<1>1. Len(batch) \in Nat /\ DOMAIN batch = 1 .. Len(batch)
    BY BatchIndex
<1>2. pos \in DOMAIN batch
    BY <1>1 DEF CallType, Unsettled
<1>3. batch' = batch /\ pos' = pos + 1 /\ state' = [state EXCEPT ![pos] = s]
    BY DEF Settle, settings
<1>4. pos' \in 1 .. Len(batch) + 1
    BY <1>1, <1>2, <1>3
<1>5. state \in [DOMAIN batch -> States]
    BY DEF CallType
<1> QED BY <1>2, <1>3, <1>4, <1>5 DEF Unsettled, Settled

LEMMA SettleCounts ==
    ASSUME CallType, Unsettled, NEW s \in States, Settle(s), NEW u \in {"DONE", "SKIPPED"}
    PROVE  /\ In(u)' = IF s = u THEN In(u) \cup {pos} ELSE In(u)
           /\ Cardinality(In(u)') = Cardinality(In(u)) + (IF s = u THEN 1 ELSE 0)
<1>1. IsFiniteSet(In(u)) /\ Cardinality(In(u)) \in Nat
    BY InFinite
<1>2. pos \notin In(u)
    BY SettleIn DEF In
<1>3. In(u)' = IF s = u THEN In(u) \cup {pos} ELSE In(u)
    BY SettleIn DEF In
<1> HIDE DEF In
<1>4. Cardinality(In(u) \cup {pos}) = Cardinality(In(u)) + 1
    BY <1>1, <1>2, FS_AddElement
<1> QED BY <1>1, <1>3, <1>4

(* A transaction is settled and the window stays as it is.                   *)
LEMMA QuietKeeps ==
    ASSUME CallInv, Unsettled, NEW s \in States, Settle(s),
           now' = now, progress' = progress,
           counts' \in [merged : Nat, foreign : Nat, invalid : Nat],
           counts'.merged = counts.merged,
           counts'.foreign + counts'.invalid
               = counts.foreign + counts.invalid + (IF s = "SKIPPED" THEN 1 ELSE 0),
           s = "DONE" => ~Foreign(Current) /\ Gate(Current) = "ACCEPT" /\ Current \in now.win,
           s = "SKIPPED" => Foreign(Current) \/ Gate(Current) = "REJECT",
           s = "PENDING" => Cardinality(now.win) >= WindowMax,
           s = "RETRY" => Gate(Current) = "RETRY"
    PROVE  CallInv'
<1>0. CallType /\ Counted /\ Judged /\ Progressing
    BY DEF CallInv
<1>1. /\ start' = start /\ anchored' = anchored /\ batch' = batch /\ pass' = pass
      /\ result' = result /\ result = "running"
    BY DEF Settle, settings, Unsettled
<1>2. /\ pos \in DOMAIN batch /\ pos' = pos + 1 /\ pos' \in 1 .. Len(batch') + 1
      /\ state' \in [DOMAIN batch -> States] /\ state'[pos] = s
      /\ \A i \in DOMAIN batch : i # pos => state'[i] = state[i]
    BY <1>0, SettleIn
<1>3. /\ \A i \in DOMAIN batch : batch[i] \in Tx
      /\ DOMAIN batch \subseteq Nat
    BY <1>0, BatchIndex
<1>4. CallType'
    BY <1>0, <1>1, <1>2 DEF CallType
<1>5. Counted'
    <2>1. now.win = start.win \cup {batch[i] : i \in In("DONE")'}
        <3>1. In("DONE")' = IF s = "DONE" THEN In("DONE") \cup {pos} ELSE In("DONE")
            BY <1>0, SettleCounts
        <3>2. s = "DONE" => batch[pos] \in now.win
            BY DEF Current
        <3>3. now.win = start.win \cup {batch[i] : i \in In("DONE")}
            BY <1>0 DEF Counted
        <3> QED BY <3>1, <3>2, <3>3
    <2>2. Cardinality(In("SKIPPED")') = Cardinality(In("SKIPPED")) + (IF s = "SKIPPED" THEN 1 ELSE 0)
        BY <1>0, SettleCounts
    <2>3. counts.foreign + counts.invalid = Cardinality(In("SKIPPED"))
        BY <1>0, <1>1 DEF Counted
    <2>4. counts'.foreign + counts'.invalid = Cardinality(In("SKIPPED")')
        BY <2>2, <2>3
    <2>5. counts'.merged = Cardinality(now'.win \ start'.win)
        BY <1>0, <1>1 DEF Counted
    <2> QED BY <1>1, <2>1, <2>4, <2>5 DEF Counted
<1>6. Judged'
    <2>1. anchored' => Keyed(now'.win)
        BY <1>0, <1>1 DEF Judged
    <2>2. ASSUME NEW i \in DOMAIN batch
          PROVE  /\ state'[i] = "DONE" => ~Foreign(batch[i])' /\ Gate(batch[i])' = "ACCEPT"
                 /\ state'[i] = "SKIPPED" => Foreign(batch[i])' \/ Gate(batch[i])' = "REJECT"
                 /\ state'[i] = "PENDING" /\ Seen(i)' => Cardinality(now'.win) >= WindowMax
                 /\ state'[i] = "RETRY" => batch[i].type = "TRANSFER"
                 /\ state'[i] = "RETRY" /\ i < pos' /\ ~progress' => Gate(batch[i])' = "RETRY"
        <3>1. Gate(batch[i])' = Gate(batch[i]) /\ Foreign(batch[i])' = Foreign(batch[i])
            BY <1>1, <1>3, GateKept DEF Foreign
        <3>2. CASE i = pos
            <4>1. Current = batch[i]
                BY <3>2 DEF Current
            <4>2. Gate(batch[i]) = "RETRY" => batch[i].type = "TRANSFER"
                BY <1>3, GateIs, GateAlone
            <4> QED BY <1>2, <3>1, <3>2, <4>1, <4>2
        <3>3. CASE i # pos
            <4>1. state'[i] = state[i] /\ (i < pos' => i < pos) /\ (Seen(i)' => Seen(i))
                BY <1>1, <1>2, <1>3, <3>3 DEF Seen
            <4> QED BY <1>0, <3>1, <4>1 DEF Judged
        <3> QED BY <3>2, <3>3
    <2> QED BY <1>1, <2>1, <2>2 DEF Judged
<1>7. Progressing'
    <2>1. Cardinality(In("DONE")') = Cardinality(In("DONE")) + (IF s = "DONE" THEN 1 ELSE 0)
        BY <1>0, SettleCounts
    <2>2. Cardinality(In("DONE")) \in Nat
        BY <1>0, InFinite
    <2> QED BY <1>0, <1>1, <2>1, <2>2 DEF Progressing, CallType
<1> QED BY <1>4, <1>5, <1>6, <1>7 DEF CallInv

(* A transaction is merged.                                                  *)
LEMMA MergeKeeps ==
    ASSUME CallInv, MergeIn
    PROVE  CallInv'
<1> DEFINE t == batch[pos]
<1>0. CallType /\ Counted /\ Judged /\ Progressing
    BY DEF CallInv
<1>1. /\ Unsettled /\ "DONE" \in States /\ Settle("DONE") /\ progress' = TRUE
      /\ counts' = [counts EXCEPT !.merged = @ + 1]
      /\ ~Foreign(t) /\ Gate(t) = "ACCEPT" /\ MergeVerdict(now.win, t) = "OK"
      /\ now' = [now EXCEPT !.win = Merge(@, t)]
    BY DEF MergeIn, Accepted, Examining, Current, States
<1>2. /\ start' = start /\ anchored' = anchored /\ batch' = batch /\ pass' = pass
      /\ result' = result /\ result = "running"
    BY <1>1 DEF Settle, settings, Unsettled
<1>3. /\ pos \in DOMAIN batch /\ pos' = pos + 1 /\ pos' \in 1 .. Len(batch') + 1
      /\ state' \in [DOMAIN batch -> States] /\ state'[pos] = "DONE"
      /\ \A i \in DOMAIN batch : i # pos => state'[i] = state[i]
    BY <1>0, <1>1, SettleIn
<1>4. /\ \A i \in DOMAIN batch : batch[i] \in Tx
      /\ DOMAIN batch \subseteq Nat
    BY <1>0, BatchIndex
<1>5. t \in Tx
    BY <1>3, <1>4
<1> HIDE DEF t
<1>6. t \notin now.win /\ Merge(now.win, t) = now.win \cup {t}
    BY <1>1, VerdictOK
<1>7. now' \in Dag /\ now'.win = now.win \cup {t} /\ now'.cp = now.cp
    <2>1. now = [win |-> now.win, cp |-> now.cp] /\ now.win \in SUBSET Tx /\ now.cp \in Horizon
        BY <1>0 DEF CallType, Dag
    <2> QED BY <1>1, <1>5, <1>6, <2>1 DEF Dag
<1>8. CallType'
    <2>1. counts' \in [merged : Nat, foreign : Nat, invalid : Nat]
        BY <1>0, <1>1 DEF CallType
    <2> QED BY <1>0, <1>1, <1>2, <1>3, <1>7, <2>1 DEF CallType
<1>9. Counted'
    <2>1. In("DONE")' = In("DONE") \cup {pos}
        BY <1>0, <1>1, SettleCounts
    <2>2. now.win = start.win \cup {batch[i] : i \in In("DONE")}
        BY <1>0 DEF Counted
    <2>3. now'.win = start.win \cup {batch[i] : i \in In("DONE")'}
        BY <1>7, <2>1, <2>2 DEF t
    <2>4. Cardinality(In("SKIPPED")') = Cardinality(In("SKIPPED"))
        <3>1. /\ Cardinality(In("SKIPPED")')
                   = Cardinality(In("SKIPPED")) + (IF "DONE" = "SKIPPED" THEN 1 ELSE 0)
              /\ Cardinality(In("SKIPPED")) \in Nat
            BY <1>0, <1>1, SettleCounts, InFinite
        <3> QED BY <3>1
    <2>5. /\ counts'.merged = counts.merged + 1
          /\ counts'.foreign = counts.foreign /\ counts'.invalid = counts.invalid
        BY <1>0, <1>1 DEF CallType
    <2>6. Cardinality(now'.win \ start.win) = counts.merged + 1
        <3> DEFINE g == now.win \ start.win
        <3>1. IsFiniteSet(g) /\ counts.merged = Cardinality(g)
            BY <1>0, WindowFinite DEF Counted
        <3>2. now'.win \ start.win = g \cup {t} /\ t \notin g
            BY <1>6, <1>7, <2>2
        <3> HIDE DEF g
        <3>3. Cardinality(g \cup {t}) = Cardinality(g) + 1
            BY <3>1, <3>2, FS_AddElement
        <3> QED BY <3>1, <3>2, <3>3
    <2>7. counts.foreign + counts.invalid = Cardinality(In("SKIPPED"))
        BY <1>0, <1>2 DEF Counted
    <2> QED BY <1>2, <2>3, <2>4, <2>5, <2>6, <2>7 DEF Counted
<1>10. Judged'
    <2>1. anchored' => Keyed(now'.win)
        <3>1. anchored => IngestCheck(now, t) = "OK" /\ Keyed(now.win)
            BY <1>0, <1>1, <1>5, GateIs DEF Judged
        <3>2. anchored /\ ClaimValid(t) => t.key = t.from
            BY <1>5, <3>1, AcceptedKeyed
        <3> QED BY <1>2, <1>7, <3>1, <3>2 DEF Keyed
    <2>2. ASSUME NEW u \in Tx, Gate(u) # "RETRY"
          PROVE  Gate(u)' = Gate(u)
        <3>1. CASE ~anchored
            BY <1>2, <3>1, GateIs, GateIsNext
        <3>2. CASE anchored
            <4>1. IngestCheck(now, u) # "UNKNOWN_MEMBER"
                BY <2>2, <3>2, GateIs
            <4>2. /\ now \in Dag /\ Keyed(now.win) /\ Keyed(now'.win)
                  /\ \A c \in now.win : ClaimValid(c) => c \in now'.win
                BY <1>0, <1>2, <1>7, <2>1, <3>2 DEF CallType, Judged
            <4>3. IngestCheck(now', u) = IngestCheck(now, u)
                BY <1>7, <4>1, <4>2, GateGrows
            <4> QED BY <1>2, <4>1, <4>3, GateIs, GateIsNext
        <3> QED BY <3>1, <3>2
    <2>3. Cardinality(now.win) >= WindowMax => Cardinality(now'.win) >= WindowMax
        <3>1. Cardinality(now'.win) = Cardinality(now.win) + 1 /\ Cardinality(now.win) \in Nat
            BY <1>0, <1>6, <1>7, WindowFinite, FS_AddElement
        <3> QED BY <3>1, LedgerAssumption
    <2>4. ASSUME NEW i \in DOMAIN batch
          PROVE  /\ state'[i] = "DONE" => ~Foreign(batch[i])' /\ Gate(batch[i])' = "ACCEPT"
                 /\ state'[i] = "SKIPPED" => Foreign(batch[i])' \/ Gate(batch[i])' = "REJECT"
                 /\ state'[i] = "PENDING" /\ Seen(i)' => Cardinality(now'.win) >= WindowMax
                 /\ state'[i] = "RETRY" => batch[i].type = "TRANSFER"
        <3>1. Foreign(batch[i])' = Foreign(batch[i])
            BY <1>2 DEF Foreign
        <3>2. Gate(batch[i]) # "RETRY" => Gate(batch[i])' = Gate(batch[i])
            BY <1>2, <1>4, <2>2
        <3>3. CASE i = pos
            BY <1>1, <1>3, <3>1, <3>2, <3>3 DEF t
        <3>4. CASE i # pos
            <4>1. state'[i] = state[i] /\ (Seen(i)' => Seen(i))
                BY <1>2, <1>3, <1>4, <3>4 DEF Seen
            <4> QED BY <1>0, <2>3, <3>1, <3>2, <4>1 DEF Judged
        <3> QED BY <3>3, <3>4
    <2> QED BY <1>1, <1>2, <2>1, <2>4 DEF Judged
<1>11. Progressing'
    <2>1. Cardinality(In("DONE")') = Cardinality(In("DONE")) + 1
        BY <1>0, <1>1, SettleCounts
    <2>2. Cardinality(In("DONE")) \in Nat
        BY <1>0, InFinite
    <2> QED BY <1>0, <1>1, <1>2, <2>1, <2>2 DEF Progressing, CallType
<1> QED BY <1>8, <1>9, <1>10, <1>11 DEF CallInv

(* A step that touches neither the window nor what is settled.               *)
LEMMA PassingKeeps ==
    ASSUME CallInv, now' = now, state' = state, UNCHANGED settings,
           pos' \in 1 .. Len(batch) + 1, pass' \in Nat, progress' \in BOOLEAN,
           counts' = counts, result = "running", result' # "OK",
           \A i \in DOMAIN batch : Seen(i)' => Seen(i) \/ state[i] # "PENDING",
           \A i \in DOMAIN batch : i < pos' /\ ~progress' /\ state[i] = "RETRY" => i < pos /\ ~progress,
           pass' + (IF progress' THEN 1 ELSE 0) <= Cardinality(In("DONE"))
    PROVE  CallInv'
<1>0. CallType /\ Counted /\ Judged /\ Progressing
    BY DEF CallInv
<1>1. start' = start /\ anchored' = anchored /\ batch' = batch
    BY DEF settings
<1>2. CallType'
    BY <1>0, <1>1 DEF CallType
<1>3. \A u : In(u)' = In(u)
    BY <1>1 DEF In
<1>4. Counted'
    BY <1>0, <1>1, <1>3 DEF Counted
<1>5. \A i \in DOMAIN batch : /\ Gate(batch[i])' = Gate(batch[i])
                              /\ Foreign(batch[i])' = Foreign(batch[i])
    BY <1>0, <1>1, BatchIndex, GateKept DEF Foreign
<1>6. Judged'
    BY <1>0, <1>1, <1>5 DEF Judged
<1>7. Progressing'
    BY <1>1, <1>3 DEF Progressing
<1> QED BY <1>2, <1>4, <1>6, <1>7 DEF CallInv

LEMMA QuietStep ==
    ASSUME CallInv, SkipForeign \/ Reject \/ Retry \/ KnowAlready \/ NoRoom
    PROVE  CallInv'
<1>0. CallType
    BY DEF CallInv
<1>1. counts \in [merged : Nat, foreign : Nat, invalid : Nat]
    BY <1>0 DEF CallType
<1>2. {"DONE", "SKIPPED", "RETRY", "PENDING"} \subseteq States
    BY DEF States
<1>3. CASE SkipForeign
    <2>1. /\ Unsettled /\ Settle("SKIPPED") /\ now' = now /\ progress' = progress
          /\ counts' = [counts EXCEPT !.foreign = @ + 1] /\ Foreign(Current)
        BY <1>3 DEF SkipForeign, Examining
    <2>2. /\ counts' \in [merged : Nat, foreign : Nat, invalid : Nat]
          /\ counts'.merged = counts.merged
          /\ counts'.foreign + counts'.invalid = counts.foreign + counts.invalid + 1
        BY <1>1, <2>1
    <2> QED BY <1>2, <2>1, <2>2, QuietKeeps
<1>4. CASE Reject
    <2>1. /\ Unsettled /\ Settle("SKIPPED") /\ now' = now /\ progress' = progress
          /\ counts' = [counts EXCEPT !.invalid = @ + 1] /\ Gate(Current) = "REJECT"
        BY <1>4 DEF Reject, Examining
    <2>2. /\ counts' \in [merged : Nat, foreign : Nat, invalid : Nat]
          /\ counts'.merged = counts.merged
          /\ counts'.foreign + counts'.invalid = counts.foreign + counts.invalid + 1
        BY <1>1, <2>1
    <2> QED BY <1>2, <2>1, <2>2, QuietKeeps
<1>5. counts.foreign + counts.invalid + 0 = counts.foreign + counts.invalid
    BY <1>1
<1>6. CASE Retry
    <2>1. /\ Unsettled /\ Settle("RETRY") /\ now' = now /\ progress' = progress
          /\ counts' = counts /\ Gate(Current) = "RETRY"
        BY <1>6 DEF Retry, Examining
    <2> QED BY <1>1, <1>2, <1>5, <2>1, QuietKeeps
<1>7. CASE KnowAlready
    <2>1. /\ Unsettled /\ Settle("DONE") /\ now' = now /\ progress' = progress
          /\ counts' = counts /\ ~Foreign(Current) /\ Gate(Current) = "ACCEPT"
          /\ MergeVerdict(now.win, Current) = "DUPLICATE"
        BY <1>7 DEF KnowAlready, Accepted, Examining
    <2>2. Current \in now.win
        BY <2>1, VerdictOK
    <2> QED BY <1>1, <1>2, <1>5, <2>1, <2>2, QuietKeeps
<1>8. CASE NoRoom
    <2>1. /\ Unsettled /\ Settle("PENDING") /\ now' = now /\ progress' = progress
          /\ counts' = counts /\ MergeVerdict(now.win, Current) = "FULL"
        BY <1>8 DEF NoRoom, Accepted, Examining
    <2>2. Cardinality(now.win) >= WindowMax
        BY <2>1, VerdictOK
    <2> QED BY <1>1, <1>2, <1>5, <2>1, <2>2, QuietKeeps
<1> QED BY <1>3, <1>4, <1>6, <1>7, <1>8

LEMMA PassingStep ==
    ASSUME CallInv, PassOver \/ FailDecode \/ Fail \/ NextPass
    PROVE  CallInv'
<1>0. CallType /\ Judged /\ Progressing
    BY DEF CallInv
<1>1. Len(batch) \in Nat /\ DOMAIN batch = 1 .. Len(batch) /\ pos \in Nat /\ pass \in Nat
    BY <1>0, BatchIndex DEF CallType
<1>2. Cardinality(In("DONE")) \in Nat
    BY <1>0, InFinite
<1>3. pass + (IF progress THEN 1 ELSE 0) <= Cardinality(In("DONE"))
    BY <1>0 DEF Progressing
<1>4. CASE PassOver
    <2>1. /\ result = "running" /\ result' = result /\ Settled(pos) /\ pos' = pos + 1
          /\ now' = now /\ state' = state /\ pass' = pass /\ progress' = progress
          /\ counts' = counts /\ UNCHANGED settings /\ pos <= Len(batch)
        BY <1>4 DEF PassOver
    <2>2. pos' \in 1 .. Len(batch) + 1
        BY <1>0, <1>1, <2>1 DEF CallType
    <2>3. \A i \in DOMAIN batch : Seen(i)' => Seen(i) \/ state[i] # "PENDING"
        BY <1>1, <2>1 DEF Seen, Settled
    <2>4. \A i \in DOMAIN batch : i < pos' /\ ~progress' /\ state[i] = "RETRY" => i < pos /\ ~progress
        BY <1>1, <2>1 DEF Settled
    <2> QED BY <1>0, <1>3, <2>1, <2>2, <2>3, <2>4, PassingKeeps DEF CallType
<1>5. CASE FailDecode \/ Fail
    <2>1. /\ result = "running" /\ result' # "OK" /\ UNCHANGED settings
          /\ now' = now /\ state' = state /\ pass' = pass /\ progress' = progress
          /\ counts' = counts /\ pos' = pos
        BY <1>5 DEF FailDecode, Fail, Accepted, Examining, Unsettled
    <2>2. pos' \in 1 .. Len(batch) + 1 /\ pass' \in Nat /\ progress' \in BOOLEAN
        BY <1>0, <2>1 DEF CallType
    <2>3. \A i \in DOMAIN batch : Seen(i)' => Seen(i) \/ state[i] # "PENDING"
        BY <2>1 DEF Seen
    <2>4. \A i \in DOMAIN batch : i < pos' /\ ~progress' /\ state[i] = "RETRY" => i < pos /\ ~progress
        BY <2>1
    <2> QED BY <1>3, <2>1, <2>2, <2>3, <2>4, PassingKeeps
<1>6. CASE NextPass
    <2>1. /\ result = "running" /\ result' = result /\ pos > Len(batch) /\ progress
          /\ now' = now /\ state' = state /\ pass' = pass + 1 /\ progress' = FALSE /\ pos' = 1
          /\ counts' = counts /\ UNCHANGED settings
        BY <1>6 DEF NextPass
    <2>2. pos' \in 1 .. Len(batch) + 1 /\ pass' \in Nat /\ progress' \in BOOLEAN
        <3>1. Len(batch) + 1 \in Nat /\ 1 <= Len(batch) + 1 /\ pass + 1 \in Nat
            BY <1>1
        <3>2. pos' \in 1 .. Len(batch) + 1
            BY <2>1, <3>1
        <3>3. progress' \in BOOLEAN
            BY <2>1, Zenon
        <3> QED BY <2>1, <3>1, <3>2, <3>3, Zenon
    <2>3. \A i \in DOMAIN batch : Seen(i)' => Seen(i) \/ state[i] # "PENDING"
        BY <1>1, <2>1 DEF Seen
    <2>4. \A i \in DOMAIN batch : i < pos' /\ ~progress' /\ state[i] = "RETRY" => i < pos /\ ~progress
        BY <1>1, <2>1
    <2>5. pass' + (IF progress' THEN 1 ELSE 0) <= Cardinality(In("DONE"))
        BY <1>1, <1>2, <1>3, <2>1
    <2> QED BY <2>1, <2>2, <2>3, <2>4, <2>5, PassingKeeps
<1> QED BY <1>4, <1>5, <1>6

LEMMA FinishKeeps ==
    ASSUME CallInv, Finish
    PROVE  CallInv'
<1>0. CallType /\ Counted /\ Judged /\ Progressing
    BY DEF CallInv
<1>1. /\ result = "running" /\ result' = "OK" /\ pos > Len(batch)
      /\ ~progress \/ pass + 1 >= Len(batch)
      /\ counts' = [counts EXCEPT !.invalid = @ + Cardinality(In("RETRY"))]
      /\ dirty' = (counts.merged > 0)
      /\ now' = now /\ state' = state /\ pass' = pass /\ progress' = progress /\ pos' = pos
      /\ start' = start /\ anchored' = anchored /\ batch' = batch
    BY DEF Finish, settings, In
<1>2. Cardinality(In("RETRY")) \in Nat /\ Cardinality(In("SKIPPED")) \in Nat
    BY <1>0, InFinite
<1>3. /\ counts' \in [merged : Nat, foreign : Nat, invalid : Nat]
      /\ counts'.merged = counts.merged
      /\ counts'.foreign + counts'.invalid
             = counts.foreign + counts.invalid + Cardinality(In("RETRY"))
    <2>1. counts \in [merged : Nat, foreign : Nat, invalid : Nat]
        BY <1>0 DEF CallType
    <2> QED BY <1>1, <1>2, <2>1
<1>4. CallType'
    BY <1>0, <1>1, <1>3 DEF CallType
<1>5. \A u : In(u)' = In(u)
    BY <1>1 DEF In
<1>6. Counted'
    <2>1. counts.foreign + counts.invalid = Cardinality(In("SKIPPED"))
        BY <1>0, <1>1 DEF Counted
    <2>2. counts'.foreign + counts'.invalid = Cardinality(In("SKIPPED")) + Cardinality(In("RETRY"))
        BY <1>3, <2>1
    <2>3. dirty' <=> counts'.merged > 0
        BY <1>1, <1>3
    <2> QED BY <1>0, <1>1, <1>3, <1>5, <2>2, <2>3 DEF Counted
<1>7. \A i \in DOMAIN batch : /\ Gate(batch[i])' = Gate(batch[i])
                              /\ Foreign(batch[i])' = Foreign(batch[i])
    BY <1>0, <1>1, BatchIndex, GateKept DEF Foreign
<1>8. Judged'
    BY <1>0, <1>1, <1>7 DEF Judged, Seen
<1>9. Progressing'
    BY <1>0, <1>1, <1>5 DEF Progressing
<1> QED BY <1>4, <1>6, <1>8, <1>9 DEF CallInv

LEMMA CallInit == Call => CallInv
<1> SUFFICES ASSUME Call PROVE CallInv
    OBVIOUS
<1>1. /\ now \in Windows /\ start = now /\ anchored \in BOOLEAN /\ batch \in Batches
      /\ state = [i \in DOMAIN batch |-> "PENDING"] /\ pass = 0 /\ pos = 1 /\ progress = FALSE
      /\ counts = [merged |-> 0, foreign |-> 0, invalid |-> 0] /\ result = "running"
    BY DEF Call
<1>2. now \in Dag /\ IsFiniteSet(now.win) /\ Keyed(now.win) /\ batch \in Seq(Tx)
    BY <1>1, BatchAssumption
<1>3. CallType
    <2>1. Len(batch) \in Nat
        BY <1>2
    <2>2. pos \in 1 .. Len(batch) + 1
        BY <1>1, <2>1
    <2> QED BY <1>1, <1>2, <2>2 DEF CallType, States
<1>4. In("DONE") = {} /\ In("SKIPPED") = {}
    BY <1>1 DEF In
<1>5. Counted
    <2>1. now.win \ start.win = {}
        BY <1>1
    <2> QED BY <1>1, <1>4, <2>1, FS_EmptySet DEF Counted
<1>6. DOMAIN batch = 1 .. Len(batch) /\ Len(batch) \in Nat
    BY <1>3, BatchIndex
<1>7. Judged
    BY <1>1, <1>2, <1>6 DEF Judged, Seen
<1>8. Progressing
    BY <1>1, <1>4, FS_EmptySet DEF Progressing
<1> QED BY <1>3, <1>5, <1>7, <1>8 DEF CallInv

LEMMA CallStep == CallInv /\ [Loop]_locals => CallInv'
<1> SUFFICES ASSUME CallInv, [Loop]_locals
             PROVE  CallInv'
    OBVIOUS
<1>1. CASE UNCHANGED locals
    <2>1. /\ start' = start /\ now' = now /\ anchored' = anchored /\ batch' = batch
          /\ state' = state /\ pass' = pass /\ pos' = pos /\ progress' = progress
          /\ counts' = counts /\ result' = result /\ dirty' = dirty
        BY <1>1 DEF locals
    <2>2. CallType /\ Counted /\ Judged /\ Progressing
        BY DEF CallInv
    <2>3. \A u : In(u)' = In(u)
        BY <2>1 DEF In
    <2>4. \A i \in DOMAIN batch : /\ Gate(batch[i])' = Gate(batch[i])
                                  /\ Foreign(batch[i])' = Foreign(batch[i])
        BY <2>1, <2>2, BatchIndex, GateKept DEF Foreign
    <2>5. CallType'
        BY <2>1, <2>2 DEF CallType
    <2>6. Counted'
        BY <2>1, <2>2, <2>3 DEF Counted
    <2>7. Judged'
        BY <2>1, <2>2, <2>4 DEF Judged, Seen
    <2>8. Progressing'
        BY <2>1, <2>2, <2>3 DEF Progressing
    <2> QED BY <2>5, <2>6, <2>7, <2>8 DEF CallInv
<1>2. CASE Loop
    BY <1>2, QuietStep, PassingStep, MergeKeeps, FinishKeeps DEF Loop, Examine
<1> QED BY <1>1, <1>2

LEMMA CallInvariance == Applying => []CallInv
BY CallInit, CallStep, PTL DEF Applying

(* What is left where the call succeeded.                                    *)
LEMMA Left ==
    ASSUME CallInv, result = "OK", NEW i \in DOMAIN batch
    PROVE  \/ state[i] = "DONE" /\ batch[i] \in now.win /\ ~Foreign(batch[i])
              /\ Gate(batch[i]) = "ACCEPT"
           \/ state[i] = "SKIPPED" /\ (Foreign(batch[i]) \/ Gate(batch[i]) = "REJECT")
           \/ state[i] = "PENDING" /\ Cardinality(now.win) >= WindowMax
           \/ state[i] = "RETRY" /\ Gate(batch[i]) = "RETRY"
<1>0. CallType /\ Counted /\ Judged /\ Progressing
    BY DEF CallInv
<1>1. Len(batch) \in Nat /\ DOMAIN batch = 1 .. Len(batch)
    BY <1>0, BatchIndex
<1>2. i < pos /\ state[i] \in States
    BY <1>0, <1>1 DEF Progressing, CallType
<1>3. CASE state[i] = "RETRY" /\ progress
    <2>1. Cardinality(In("DONE")) \in Nat /\ Cardinality(In("DONE")) <= Len(batch)
        BY <1>0, InFinite
    <2>2. pass + 1 <= Cardinality(In("DONE")) /\ pass + 1 >= Len(batch) /\ pass \in Nat
        BY <1>0, <1>3 DEF Progressing, CallType
    <2>3. Cardinality(In("DONE")) = Len(batch)
        BY <1>1, <2>1, <2>2
    <2>4. In("DONE") = DOMAIN batch
        BY <1>0, <2>3, InFinite
    <2>5. state[i] = "DONE"
        BY <2>4 DEF In
    <2> QED BY <1>3, <2>5
<1>4. CASE state[i] = "DONE"
    <2>1. batch[i] \in now.win
        BY <1>0, <1>4 DEF Counted, In
    <2> QED BY <1>0, <1>4, <2>1 DEF Judged
<1>5. CASE state[i] # "DONE" /\ ~(state[i] = "RETRY" /\ progress)
    BY <1>0, <1>2, <1>5 DEF Judged, States, Seen
<1> QED BY <1>3, <1>4, <1>5

(* dag_sync.c, the loop over the passes: whatever the batch, a call that     *)
(* returns has left nothing behind that the window would take now.           *)
THEOREM BatchExhausted == Applying => []NothingLeftBehind
<1>1. CallInv => NothingLeftBehind
    <2> SUFFICES ASSUME CallInv, result = "OK", NEW i \in DOMAIN batch,
                        ~Foreign(batch[i]), Gate(batch[i]) = "ACCEPT"
                 PROVE  MergeVerdict(now.win, batch[i]) # "OK"
        BY DEF NothingLeftBehind
    <2>1. batch[i] \in now.win \/ Cardinality(now.win) >= WindowMax
        BY Left
    <2> QED BY <2>1 DEF MergeVerdict
<1> QED BY <1>1, CallInvariance, PTL

(* ... and the counts it returns are those of what it did to the window.     *)
THEOREM BatchCounted == Applying => []CountsExact
<1>1. CallInv => CountsExact
    <2> SUFFICES ASSUME CallInv, result = "OK"
                 PROVE  /\ counts.merged = Cardinality(now.win \ start.win)
                        /\ dirty <=> now.win # start.win
                        /\ counts.merged + counts.foreign + counts.invalid <= Len(batch)
                        /\ now.win = start.win \cup {batch[i] : i \in In("DONE")}
        BY DEF CountsExact, In
    <2>0. CallType /\ Counted
        BY DEF CallInv
    <2>1. /\ counts.merged = Cardinality(now.win \ start.win)
          /\ now.win = start.win \cup {batch[i] : i \in In("DONE")}
          /\ counts.foreign + counts.invalid = Cardinality(In("SKIPPED")) + Cardinality(In("RETRY"))
          /\ dirty <=> counts.merged > 0
        BY <2>0 DEF Counted
    <2>2. dirty <=> now.win # start.win
        <3>1. IsFiniteSet(now.win \ start.win)
            BY <2>0, WindowFinite
        <3>2. Cardinality(now.win \ start.win) = 0 <=> now.win \ start.win = {}
            BY <3>1, FS_EmptySet
        <3>3. counts.merged \in Nat
            BY <2>0 DEF CallType
        <3>4. now.win \ start.win = {} <=> now.win = start.win
            BY <2>1
        <3> QED BY <2>1, <3>2, <3>3, <3>4
    <2>3. counts.merged + counts.foreign + counts.invalid <= Len(batch)
        <3> DEFINE D == In("DONE")
                   S == In("SKIPPED")
                   R == In("RETRY")
        <3>1. /\ IsFiniteSet(D) /\ IsFiniteSet(S) /\ IsFiniteSet(R)
              /\ Cardinality(D) \in Nat /\ Cardinality(S) \in Nat /\ Cardinality(R) \in Nat
            BY <2>0, InFinite
        <3>2. D \cap S = {} /\ (D \cup S) \cap R = {} /\ (D \cup S) \cup R \in SUBSET (1 .. Len(batch))
            BY <2>0, BatchIndex DEF In
        <3>3. counts.merged <= Cardinality(D)
            BY <2>0, WindowFinite
        <3>4. counts \in [merged : Nat, foreign : Nat, invalid : Nat] /\ Len(batch) \in Nat
            BY <2>0, BatchIndex DEF CallType
        <3> HIDE DEF D, S, R
        <3>5. IsFiniteSet(D \cup S) /\ Cardinality(D \cup S) = Cardinality(D) + Cardinality(S)
            BY <3>1, <3>2, DisjointSizes
        <3>6. /\ IsFiniteSet((D \cup S) \cup R)
              /\ Cardinality((D \cup S) \cup R) = Cardinality(D \cup S) + Cardinality(R)
            BY <3>1, <3>2, <3>5, DisjointSizes
        <3>7. IsFiniteSet(1 .. Len(batch)) /\ Cardinality(1 .. Len(batch)) = Len(batch)
            <4>1. 1 \in Int /\ Len(batch) \in Int
                BY <3>4
            <4>2. /\ IsFiniteSet(1 .. Len(batch))
                  /\ Cardinality(1 .. Len(batch)) = IF 1 > Len(batch) THEN 0 ELSE Len(batch) - 1 + 1
                BY <4>1, FS_Interval
            <4> QED BY <3>4, <4>2
        <3>8. Cardinality((D \cup S) \cup R) <= Len(batch)
            BY <3>2, <3>7, FS_Subset
        <3>9. counts.foreign + counts.invalid = Cardinality(S) + Cardinality(R)
            BY <2>1 DEF S, R
        <3> QED BY <3>1, <3>3, <3>4, <3>5, <3>6, <3>8, <3>9
    <2> QED BY <2>1, <2>2, <2>3
<1> QED BY <1>1, CallInvariance, PTL

-----------------------------------------------------------------------------
(* A claim of the batch that the gate takes is settled alike in every window, *)
(* and so the claims of the window at the end are those of the reference.    *)
Over == [start EXCEPT !.win = @ \cup {t \in Contents : t.type = "CLAIM" /\ IngestCheck(start, t) = "OK"}]

LEMMA OverIs ==
    ASSUME CallType
    PROVE  /\ Over \in Dag /\ Over.cp = start.cp /\ Keyed(Over.win)
           /\ \A t : t \in Over.win <=> \/ t \in start.win
                                        \/ t \in Contents /\ t.type = "CLAIM" /\ IngestCheck(start, t) = "OK"
           /\ Contents \in SUBSET Tx
<1> DEFINE more == {t \in Contents : t.type = "CLAIM" /\ IngestCheck(start, t) = "OK"}
<1>1. Contents \in SUBSET Tx
    BY BatchIndex DEF Contents
<1>2. start = [win |-> start.win, cp |-> start.cp] /\ start.win \in SUBSET Tx
      /\ start.cp \in Horizon /\ Keyed(start.win)
    BY DEF CallType, Dag
<1>3. more \in SUBSET Tx
    BY <1>1
<1>4. \A t \in more : ClaimValid(t) => t.key = t.from
    BY <1>1, AcceptedKeyed
<1>5. Over = [start EXCEPT !.win = @ \cup more]
    BY DEF Over
<1>6. \A t : t \in more <=> t \in Contents /\ t.type = "CLAIM" /\ IngestCheck(start, t) = "OK"
    OBVIOUS
<1> HIDE DEF more
<1>7. Over = [win |-> start.win \cup more, cp |-> start.cp]
    BY <1>2, <1>5
<1> QED BY <1>1, <1>2, <1>3, <1>4, <1>6, <1>7 DEF Dag, Keyed

LEMMA ReferenceIs ==
    ASSUME CallType
    PROVE  /\ Reference.cp = start.cp /\ Reference \in Dag
           /\ anchored => \A t : t \in Reference.win <=>
                              \/ t \in start.win
                              \/ t \in Contents /\ IngestCheck(Over, t) = "OK"
           /\ ~anchored => Reference.win = start.win \cup Contents
<1> DEFINE more == {t \in Contents : IngestCheck(Over, t) = "OK"}
<1>1. Contents \in SUBSET Tx
    BY OverIs
<1>2. start = [win |-> start.win, cp |-> start.cp] /\ start.win \in SUBSET Tx
      /\ start.cp \in Horizon
    BY DEF CallType, Dag
<1>3. Reference = IF anchored THEN [start EXCEPT !.win = @ \cup more]
                              ELSE [start EXCEPT !.win = @ \cup Contents]
    BY Zenon DEF Reference, WithBatch, Over
<1>4. \A t : t \in more <=> t \in Contents /\ IngestCheck(Over, t) = "OK"
    OBVIOUS
<1>5. more \in SUBSET Tx
    BY <1>1
<1> HIDE DEF more
<1>6. Reference = IF anchored THEN [win |-> start.win \cup more, cp |-> start.cp]
                              ELSE [win |-> start.win \cup Contents, cp |-> start.cp]
    BY <1>2, <1>3
<1> QED BY <1>1, <1>2, <1>4, <1>5, <1>6 DEF Dag

(* What was accepted is in the reference.                                    *)
LEMMA NothingMore ==
    ASSUME CallInv
    PROVE  now.win \subseteq Reference.win
<1>0. CallType /\ Counted /\ Judged
    BY DEF CallInv
<1>1. \A i \in DOMAIN batch : batch[i] \in Tx /\ batch[i] \in Contents
    BY <1>0, BatchIndex DEF Contents
<1>2. now.win = start.win \cup {batch[i] : i \in In("DONE")} /\ In("DONE") \subseteq DOMAIN batch
    BY <1>0 DEF Counted, In
<1>3. CASE ~anchored
    BY <1>0, <1>1, <1>2, <1>3, ReferenceIs
<1>4. CASE anchored
    <2>1. now \in Dag /\ now.cp = start.cp /\ Keyed(now.win) /\ start \in Dag
        BY <1>0, <1>4 DEF CallType, Judged
    <2>2. ASSUME NEW i \in In("DONE")
          PROVE  IngestCheck(now, batch[i]) = "OK"
        BY <1>0, <1>1, <1>2, <1>4, <2>2, GateIs DEF In, Judged
    <2>3. ASSUME NEW c \in now.win, ClaimValid(c)
          PROVE  c \in Over.win
        <3>1. CASE c \in start.win
            BY <1>0, <3>1, OverIs
        <3>2. CASE c \notin start.win
            <4>1. PICK i \in In("DONE") : c = batch[i]
                BY <1>2, <3>2
            <4>2. c \in Tx /\ c \in Contents /\ c.type = "CLAIM" /\ IngestCheck(now, c) = "OK"
                BY <1>1, <1>2, <2>2, <2>3, <4>1 DEF ClaimValid
            <4>3. IngestCheck(start, c) = "OK"
                BY <2>1, <4>2, GateAlone
            <4> QED BY <1>0, <4>2, <4>3, OverIs
        <3> QED BY <3>1, <3>2
    <2>4. ASSUME NEW i \in In("DONE")
          PROVE  batch[i] \in Reference.win
        <3>1. batch[i] \in Tx /\ batch[i] \in Contents /\ IngestCheck(now, batch[i]) = "OK"
            BY <1>1, <1>2, <2>2, <2>4
        <3>2. Over \in Dag /\ Keyed(Over.win) /\ Over.cp = now.cp
            BY <1>0, <2>1, OverIs
        <3>3. IngestCheck(Over, batch[i]) = IngestCheck(now, batch[i])
            BY <2>1, <2>3, <3>1, <3>2, GateGrows
        <3> QED BY <1>0, <1>4, <3>1, <3>3, ReferenceIs
    <2> QED BY <1>0, <1>2, <1>4, <2>4, ReferenceIs
<1> QED BY <1>3, <1>4

(* Where the window has room, what the reference has was accepted.           *)
LEMMA NothingLess ==
    ASSUME CallInv, result = "OK", IsFiniteSet(Reference.win),
           Cardinality(Reference.win) <= WindowMax
    PROVE  Reference.win \subseteq now.win
<1>0. CallType /\ Counted /\ Judged
    BY DEF CallInv
<1>1. \A i \in DOMAIN batch : batch[i] \in Tx /\ batch[i] \in Contents
    BY <1>0, BatchIndex DEF Contents
<1>2. start.win \subseteq now.win
    BY <1>0 DEF Counted
<1>3. ASSUME NEW t \in Reference.win, t \notin now.win
      PROVE  Cardinality(now.win) < WindowMax
    <2> DEFINE w == now.win
               r == Reference.win
    <2>1. w \in SUBSET r /\ w # r /\ IsFiniteSet(r) /\ Cardinality(r) <= WindowMax
        BY <1>3, NothingMore
    <2> HIDE DEF w, r
    <2>2. Cardinality(w) <= Cardinality(r) /\ Cardinality(r) # Cardinality(w) /\ IsFiniteSet(w)
        BY <2>1, FS_Subset
    <2>3. Cardinality(w) \in Nat /\ Cardinality(r) \in Nat
        BY <2>1, <2>2, FS_CardinalityType
    <2>4. Cardinality(w) < WindowMax
        BY <2>1, <2>2, <2>3, LedgerAssumption
    <2> QED BY <2>4 DEF w
<1>4. ASSUME NEW t \in Contents, t \in Reference.win, t \notin now.win
      PROVE  /\ t \in Tx
             /\ Foreign(t) \/ Gate(t) = "REJECT" \/ Gate(t) = "RETRY"
    <2>1. PICK i \in DOMAIN batch : t = batch[i]
        BY DEF Contents
    <2>2. ~(Cardinality(now.win) >= WindowMax)
        <3>1. Cardinality(now.win) < WindowMax /\ Cardinality(now.win) \in Nat
            BY <1>0, <1>3, <1>4, WindowFinite
        <3> QED BY <3>1, LedgerAssumption
    <2> QED BY <1>1, <1>4, <2>1, <2>2, Left
<1>5. CASE ~anchored
    <2>1. ASSUME NEW t \in Reference.win, t \notin now.win
          PROVE  FALSE
        <3>1. t \in Contents
            BY <1>0, <1>2, <1>5, <2>1, ReferenceIs
        <3>2. t \in Tx /\ (Foreign(t) \/ Gate(t) = "REJECT" \/ Gate(t) = "RETRY")
            BY <1>4, <2>1, <3>1
        <3> QED BY <1>5, <3>2, GateIs DEF Foreign
    <2> QED BY <2>1
<1>6. CASE anchored
    <2>1. /\ now \in Dag /\ now.cp = start.cp /\ Keyed(now.win) /\ start \in Dag
          /\ Over \in Dag /\ Over.cp = start.cp /\ Keyed(Over.win)
        BY <1>0, <1>6, OverIs DEF CallType, Judged
    <2>2. ASSUME NEW t \in Reference.win, t \notin now.win
          PROVE  /\ t \in Contents /\ t \in Tx /\ IngestCheck(Over, t) = "OK"
                 /\ t.cur = Currency /\ IngestCheck(now, t) # "OK"
                 /\ Gate(t) = "REJECT" \/ Gate(t) = "RETRY"
        <3>1. t \in Contents /\ IngestCheck(Over, t) = "OK"
            BY <1>0, <1>2, <1>6, <2>2, ReferenceIs
        <3>2. t \in Tx /\ (Foreign(t) \/ Gate(t) = "REJECT" \/ Gate(t) = "RETRY")
            BY <1>4, <2>2, <3>1
        <3>3. t.cur = Currency
            BY <3>1 DEF IngestCheck
        <3>4. Gate(t) = "REJECT" \/ Gate(t) = "RETRY"
            BY <3>2, <3>3 DEF Foreign
        <3>5. IngestCheck(now, t) # "OK"
            BY <1>6, <3>2, <3>4, GateIs
        <3> QED BY <3>1, <3>2, <3>3, <3>4, <3>5
    <2>3. Over.win \subseteq now.win
        <3>1. SUFFICES ASSUME NEW c \in Over.win, c \notin now.win
                       PROVE  FALSE
            OBVIOUS
        <3>2. c \in Contents /\ c.type = "CLAIM" /\ IngestCheck(start, c) = "OK"
            BY <1>0, <1>2, <3>1, OverIs
        <3>3. c \in Tx
            BY <1>0, <3>2, OverIs
        <3>4. IngestCheck(Over, c) = "OK" /\ IngestCheck(now, c) = "OK"
            BY <2>1, <3>2, <3>3, GateAlone
        <3>5. c \in Reference.win
            BY <1>0, <1>6, <3>2, <3>4, ReferenceIs
        <3> QED BY <2>2, <3>1, <3>4, <3>5
    <2>4. ASSUME NEW t \in Reference.win, t \notin now.win
          PROVE  FALSE
        <3>1. t \in Tx /\ IngestCheck(Over, t) = "OK" /\ IngestCheck(now, t) # "OK"
            BY <2>2, <2>4
        <3>2. IngestCheck(now, t) = IngestCheck(Over, t)
            <4>1. IngestCheck(Over, t) # "UNKNOWN_MEMBER" /\ Over.cp = now.cp
                  /\ \A c \in Over.win : ClaimValid(c) => c \in now.win
                BY <2>1, <2>3, <3>1
            <4> QED BY <2>1, <3>1, <4>1, GateGrows
        <3> QED BY <3>1, <3>2
    <2> QED BY <2>4
<1> QED BY <1>5, <1>6

LEMMA ReferenceFinite ==
    ASSUME CallType
    PROVE  IsFiniteSet(Reference.win)
<1> DEFINE D == DOMAIN batch
           r == Reference.win
           old == start.win
<1>1. IsFiniteSet(D)
    <2>1. Len(batch) \in Nat /\ D = 1 .. Len(batch)
        BY BatchIndex
    <2>2. 1 \in Int /\ Len(batch) \in Int
        BY <2>1
    <2> QED BY <2>1, <2>2, FS_Interval
<1>2. IsFiniteSet(Contents)
    BY <1>1, GainedFinite DEF Contents
<1>3. IsFiniteSet(old) /\ r \in SUBSET (old \cup Contents)
    BY ReferenceIs DEF CallType
<1> HIDE DEF D, r, old
<1>4. IsFiniteSet(r)
    BY <1>2, <1>3, FS_Union, FS_Subset
<1> QED BY <1>4 DEF r

(* dag_sync.c: the order of a batch is irrelevant.  What the passes make of  *)
(* it, one transaction at a time, is what PaymentExchange takes in at once,  *)
(* as long as the window has room for it.                                    *)
THEOREM BatchAtOnce == Applying => []OrderIrrelevant
<1>1. CallInv => OrderIrrelevant
    <2> SUFFICES ASSUME CallInv, result = "OK", Cardinality(Reference.win) <= WindowMax
                 PROVE  now = Reference
        BY DEF OrderIrrelevant
    <2>0. CallType
        BY DEF CallInv
    <2>1. now.win = Reference.win
        BY <2>0, NothingMore, NothingLess, ReferenceFinite
    <2>2. now \in Dag /\ Reference \in Dag /\ now.cp = Reference.cp
        BY <2>0, ReferenceIs DEF CallType
    <2> QED BY <2>1, <2>2 DEF Dag
<1> QED BY <1>1, CallInvariance, PTL

(* app_main_logic.c:1504, dag_sync.c:449: every window of the exchange of    *)
(* payments, however it came about, is one the passes may start from: an     *)
(* array whose claims carry the keys of their accounts.                      *)
Keeping == \A n \in Account : dag[n] \in Dag /\ IsFiniteSet(dag[n].win) /\ Keyed(dag[n].win)

(* What ApplyBatch assumes of the windows (BatchAssumption) holds of every   *)
(* wallet, whatever was lost, repeated, held or cut off; taking a batch in   *)
(* at once, as HearBatch does, is then what the code does transaction by     *)
(* transaction (BatchAtOnce).                                                *)
THEOREM WindowsFit == Spec => []Keeping
<1>1. Init => IInv /\ FundInv
    BY InitInv, InitFund
<1>2. IInv /\ FundInv /\ [Next]_vars => IInv' /\ FundInv'
    BY Step, FundStep
<1>3. IInv /\ FundInv => Keeping
    <2> SUFFICES ASSUME IInv, FundInv, NEW n \in Account
                 PROVE  dag[n] \in Dag /\ IsFiniteSet(dag[n].win) /\ Keyed(dag[n].win)
        BY DEF Keeping
    <2>1. PICK win, all : win = dag[n].win /\ all = Known
        OBVIOUS
    <2>2. win \in SUBSET all /\ IsFiniteSet(all) /\ Keyed(all)
        BY <2>1, KnownMember DEF FundInv
    <2>3. IsFiniteSet(win) /\ Keyed(win)
        BY <2>2, FS_Subset DEF Keyed
    <2> QED BY <2>1, <2>3 DEF IInv, TypeOK
<1> QED BY <1>1, <1>2, <1>3, PTL DEF Spec

=============================================================================
