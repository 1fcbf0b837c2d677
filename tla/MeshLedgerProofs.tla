-------------------------- MODULE MeshLedgerProofs --------------------------
(***************************************************************************)
(* What MeshLedger keeps, for every set of wallets and every constant, with *)
(* power cuts and flash errors: one lemma per operation shows that it keeps *)
(* the inductive invariant IInv, NextKeeps assembles them, and the theorems *)
(* follow.  The books of every wallet balance: BooksInv adds that what a    *)
(* wallet holds is finite and that its genesis state lists nobody.          *)
(***************************************************************************)
EXTENDS MeshLedger, LedgerProofs

LessThan == {p \in Nat \X Nat : p[1] < p[2]}

(* A bounded nonempty set of numbers has the maximum SetMax chooses. *)
LEMMA SetMaxOfBounded ==
    ASSUME NEW S \in SUBSET Nat, S # {}, NEW B \in Nat, \A x \in S : x <= B
    PROVE  SetMax(S) \in S /\ \A y \in S : y <= SetMax(S)
<1> DEFINE Bound == {k \in Nat : \A x \in S : x <= k}
<1>1. IsWellFoundedOn(LessThan, Nat)
  BY NatLessThanWellFounded DEF OpToRel, LessThan, IsWellFoundedOn
<1>2. PICK m \in Bound : \A y \in Bound : <<y, m>> \notin LessThan
  BY <1>1, WFMin
<1>3. m \in S
  <2>1. SUFFICES ASSUME m \notin S PROVE FALSE
    OBVIOUS
  <2>2. \A x \in S : x <= m - 1
    BY <2>1
  <2>3. m - 1 \in Bound
    <3>1. PICK x \in S : x <= m - 1
      BY <2>2
    <3> QED
      BY <2>2, <3>1
  <2>4. <<m - 1, m>> \in LessThan
    BY <2>3 DEF LessThan
  <2> QED
    BY <1>2, <2>3, <2>4
<1> QED
  BY <1>3 DEF SetMax
-----------------------------------------------------------------------------
(* The types of what the pure rules return. *)

LEMMA NoCheckpointType == NoCheckpoint \in Horizon
BY LedgerAssumption DEF NoCheckpoint, Horizon, Entry, NoEntry

LEMMA WrittenTypes ==
    ASSUME NEW n \in Account
    PROVE  Claim(n) \in Tx /\ BootCredit(n) \in Tx
BY LedgerAssumption DEF Claim, BootCredit, Mint, Tx, TxType

LEMMA TransferMintTypes ==
    ASSUME NEW n \in Account, NEW to \in Account, NEW amount \in Nat,
           NEW seq \in Nat, NEW ref \in Ref
    PROVE  /\ Transfer(n, to, amount, seq, ref) \in Tx
           /\ Mint(n, to, amount, seq, Currency, ref) \in Tx
BY LedgerAssumption DEF Transfer, Mint, Tx, TxType

LEMMA AboveFloorType ==
    ASSUME NEW n \in Account, NEW cp \in Horizon, NEW seq \in Nat
    PROVE  /\ AboveFloor(n, cp, seq) \in Nat
           /\ AboveFloor(n, cp, seq) >= seq
           /\ Listed(cp, n) => cp.dir[n].floor < AboveFloor(n, cp, seq)
BY DEF AboveFloor, Horizon, Entry

LEMMA AdoptType ==
    ASSUME NEW d \in Dag, NEW cp \in Horizon
    PROVE  /\ Adopt(d, cp) \in Dag
           /\ Adopt(d, cp).win \subseteq d.win
           /\ Adopt(d, cp).cp \in {d.cp, cp}
BY DEF Adopt, Dag

(* What adoption leaves in a window is above the floors it adopts. *)
LEMMA AdoptClean ==
    ASSUME NEW d \in Dag, NEW cp \in Horizon,
           Clean(d)
    PROVE  Clean(Adopt(d, cp))
BY DEF Adopt, Dag, Clean

LEMMA WithClaimType ==
    ASSUME NEW n \in Account, NEW d \in Dag
    PROVE  /\ WithClaim(n, d) \in Dag
           /\ WithClaim(n, d).win \subseteq d.win \cup {Claim(n)}
           /\ WithClaim(n, d).cp = d.cp
           /\ JobAfterClaim(n, d) \in Job
           /\ JobAfterClaim(n, d).tx \in {NoTx, Claim(n)}
           /\ JobAfterClaim(n, d).step # "commit"
BY WrittenTypes DEF WithClaim, Dag, JobAfterClaim, Job, Idle, Step

LEMMA WithClaimClean ==
    ASSUME NEW n \in Account, NEW d \in Dag,
           Clean(d)
    PROVE  Clean(WithClaim(n, d))
<1>1. CASE ~ClaimDue(n, d)
  BY <1>1 DEF WithClaim
<1>2. CASE ClaimDue(n, d)
  <2>1. ~Listed(d.cp, n) /\ Claim(n).from = n
    BY <1>2 DEF ClaimDue, Claim
  <2>2. ~BelowFloor(d.cp, Claim(n))
    BY <2>1 DEF BelowFloor
  <2> QED
    BY <1>2, <2>2 DEF WithClaim, Dag, Clean
<1> QED
  BY <1>1, <1>2

LEMMA MemberKeyType ==
    ASSUME NEW d \in Dag, NEW a \in Account
    PROVE  MemberKey(d, a) \in Account \cup {NoKey}
<1> DEFINE Claimed(t) == ClaimValid(t) /\ t.from = a /\ t.key # NoKey
<1> DEFINE Chosen == CHOOSE t \in d.win : Claimed(t)
<1>1. ASSUME \E t \in d.win : Claimed(t)
      PROVE  Chosen.key \in Account \cup {NoKey}
  <2> HIDE DEF Claimed
  <2>1. Chosen \in d.win
    BY <1>1
  <2> QED
    BY <2>1 DEF Dag, Tx
<1>2. d.cp.dir[a].key \in Account \cup {NoKey}
  BY DEF Dag, Horizon, Entry
<1> QED
  BY <1>1, <1>2, LedgerAssumption DEF MemberKey, IsMintAuthority

LEMMA BalanceType ==
    ASSUME NEW d, NEW a
    PROVE  Balance(d, a) \in 0..BalanceMax
<1> DEFINE x == RawBalance(d, a)
<1>1. Clamp(x) \in 0..BalanceMax
  <2> HIDE DEF x
  <2> QED
    BY LedgerAssumption DEF Clamp
<1> QED
  BY <1>1 DEF Balance
(* The floors of a cut are numbers when the numbers of the window are       *)
(* bounded, account by account.                                             *)
LEMMA NewFloorType ==
    ASSUME NEW d \in Dag, NEW a \in Account,
           NEW B \in Nat, \A t \in d.win : t.from = a => t.seq <= B
    PROVE  NewFloor(d, a) \in Nat
<1> DEFINE base == IF Listed(d.cp, a) THEN d.cp.dir[a].floor ELSE 0
<1> DEFINE Seqs == {t.seq : t \in {u \in Registry(d) : u.from = a}}
<1> DEFINE S == {base} \cup Seqs
<1>1. base \in Nat
  BY DEF Dag, Horizon, Entry
<1>2. Seqs \in SUBSET Nat
  BY DEF Dag, Registry, Tx
<1>3. \A x \in Seqs : x <= B
  BY DEF Registry
<1>4. PICK C \in Nat : C >= base /\ C >= B
  <2>1. CASE base >= B
    BY <1>1, <2>1
  <2>2. CASE ~(base >= B)
    BY <1>1, <2>2
  <2> QED
    BY <2>1, <2>2
<1> HIDE DEF base, Seqs
<1>5. S \in SUBSET Nat /\ S # {} /\ \A x \in S : x <= C
  BY <1>1, <1>2, <1>3, <1>4
<1> HIDE DEF S
<1>6. SetMax(S) \in S
  BY <1>5, SetMaxOfBounded
<1>7. SetMax(S) \in Nat
  BY <1>5, <1>6
<1> QED
  BY <1>7 DEF NewFloor, S, base, Seqs

LEMMA CheckpointType ==
    ASSUME NEW d \in Dag,
           \A a \in Account :
               \E B \in Nat : \A t \in d.win : t.from = a => t.seq <= B
    PROVE  /\ Checkpoint(d) \in Horizon
           /\ Checkpoint(d).gen = d.cp.gen + 1
           /\ Checkpoint(d).horizon = d.win
<1>1. ASSUME NEW a \in Account PROVE EntryOf(d, a) \in Entry
  <2>1. NewFloor(d, a) \in Nat
    BY NewFloorType
  <2>2. Balance(d, a) \in 0..BalanceMax
    BY BalanceType
  <2>3. (IF IsMintAuthority(a) THEN NoKey ELSE MemberKey(d, a))
            \in Account \cup {NoKey}
    BY MemberKeyType
  <2> QED
    BY <2>1, <2>2, <2>3 DEF EntryOf, Entry
<1>2. NoEntry \in Entry
  BY LedgerAssumption DEF NoEntry, Entry
<1>3. CheckpointAccounts(d) \in SUBSET Account
  BY LedgerAssumption DEF CheckpointAccounts, Dag, Horizon, Registry, Tx
<1>4. d.cp.gen \in Nat /\ d.win \in SUBSET Tx
  BY DEF Dag, Horizon
<1> HIDE DEF Entry
<1> QED
  BY <1>1, <1>2, <1>3, <1>4 DEF Checkpoint, Horizon

(* The gate refuses what the adopted checkpoint has counted.                *)
LEMMA IngestRejectsCounted ==
    ASSUME NEW d, NEW t, IngestCheck(d, t) = "OK"
    PROVE  ~BelowFloor(d.cp, t)
<1>1. SUFFICES ASSUME BelowFloor(d.cp, t) PROVE IngestCheck(d, t) # "OK"
  OBVIOUS
<1>2. IngestCheck(d, t) \in {"WRONG_ID", "REPLAY"}
  BY <1>1 DEF IngestCheck
<1> QED
  BY <1>2

-----------------------------------------------------------------------------
(* What it is for a transaction to exist somewhere, before a step and after. *)

LEMMA ExistingMember ==
    ASSUME NEW t
    PROVE  t \in Existing <=>
             \/ t \in wire
             \/ \E n \in Account :
                  \/ t \in dag[n].win \/ t \in flash[n].win
                  \/ t = job[n].tx /\ t # NoTx
                  \/ t \in dag[n].cp.horizon \/ t \in flash[n].cp.horizon
             \/ \E cp \in cuts : t \in cp.horizon
<1> DEFINE Windows == UNION {dag[n].win \cup flash[n].win : n \in Account}
           Jobs == {job[n].tx : n \in {m \in Account : job[m].tx # NoTx}}
           Horizons == UNION {dag[n].cp.horizon \cup flash[n].cp.horizon :
                                n \in Account}
           Cuts == UNION {cp.horizon : cp \in cuts}
<1>1. t \in Windows <=>
        \E n \in Account : t \in dag[n].win \/ t \in flash[n].win
  OBVIOUS
<1>2. t \in Jobs <=> \E n \in Account : t = job[n].tx /\ t # NoTx
  OBVIOUS
<1>3. t \in Horizons <=>
        \E n \in Account : t \in dag[n].cp.horizon \/ t \in flash[n].cp.horizon
  OBVIOUS
<1>4. t \in Cuts <=> \E cp \in cuts : t \in cp.horizon
  OBVIOUS
<1>5. t \in Existing <=> t \in wire \/ t \in Windows \/ t \in Jobs
                          \/ t \in Horizons \/ t \in Cuts
  BY DEF Existing
<1> HIDE DEF Windows, Jobs, Horizons, Cuts
<1> QED
  BY <1>1, <1>2, <1>3, <1>4, <1>5

LEMMA ExistingMemberNext ==
    ASSUME NEW t
    PROVE  t \in Existing' <=>
             \/ t \in wire'
             \/ \E n \in Account :
                  \/ t \in dag'[n].win \/ t \in flash'[n].win
                  \/ t = job'[n].tx /\ t # NoTx
                  \/ t \in dag'[n].cp.horizon \/ t \in flash'[n].cp.horizon
             \/ \E cp \in cuts' : t \in cp.horizon
<1> DEFINE Windows == UNION {dag'[n].win \cup flash'[n].win : n \in Account}
           Jobs == {job'[n].tx : n \in {m \in Account : job'[m].tx # NoTx}}
           Horizons == UNION {dag'[n].cp.horizon \cup flash'[n].cp.horizon :
                                n \in Account}
           Cuts == UNION {cp.horizon : cp \in cuts'}
<1>1. t \in Windows <=>
        \E n \in Account : t \in dag'[n].win \/ t \in flash'[n].win
  OBVIOUS
<1>2. t \in Jobs <=> \E n \in Account : t = job'[n].tx /\ t # NoTx
  OBVIOUS
<1>3. t \in Horizons <=>
        \E n \in Account : t \in dag'[n].cp.horizon \/ t \in flash'[n].cp.horizon
  OBVIOUS
<1>4. t \in Cuts <=> \E cp \in cuts' : t \in cp.horizon
  OBVIOUS
<1>5. t \in Existing' <=> t \in wire' \/ t \in Windows \/ t \in Jobs
                          \/ t \in Horizons \/ t \in Cuts
  BY DEF Existing
<1> HIDE DEF Windows, Jobs, Horizons, Cuts
<1> QED
  BY <1>1, <1>2, <1>3, <1>4, <1>5

LEMMA ExistingType ==
    ASSUME TypeOK
    PROVE  Existing \subseteq Tx
BY ExistingMember DEF TypeOK, Dag, Horizon, Job
-----------------------------------------------------------------------------
(* The numbers: what a step that spends none, and a step that spends one,   *)
(* leave true.                                                              *)

AlwaysTheSame == {BootCredit(n) : n \in Account} \cup {Claim(n) : n \in Account}

CountersKept(n) ==
    /\ nextSeq'[n] >= nextSeq[n] \/ nextSeq'[n] >= flash[n].seq
    /\ flash'[n].seq >= flash[n].seq \/ flash'[n].seq >= nextSeq[n]

LEMMA SameSlotSameTx ==
    ASSUME NEW t \in AlwaysTheSame, NEW u \in Tx, SameSlot(t, u),
           \/ u = BootCredit(u.from)
           \/ u = Claim(u.from)
           \/ u.cur = Currency /\ 1 <= u.seq
    PROVE  t = u
BY LedgerAssumption
   DEF AlwaysTheSame, SameSlot, BootCredit, Claim, Mint, Tx

LEMMA SpentInvariant ==
    ASSUME TypeOK, NumbersSpent, SeqNeverReused, TypeOK',
           Existing' \subseteq Existing \cup AlwaysTheSame,
           \A n \in Account : CountersKept(n)
    PROVE  NumbersSpent' /\ SeqNeverReused'
<1>1. \A n \in Account : nextSeq'[n] >= 1 /\ flash'[n].seq >= 1
  BY DEF TypeOK, NumbersSpent, CountersKept
<1>2. ASSUME NEW t \in Existing' PROVE Spent(t)'
  <2>1. CASE t \in AlwaysTheSame
    BY <2>1 DEF AlwaysTheSame, Spent, BootCredit, Claim, Mint
  <2>2. CASE t \in Existing
    <3>1. Spent(t) /\ t \in Tx
      BY <2>2, ExistingType DEF NumbersSpent
    <3>2. t.from \in Account /\ t.seq \in Nat
      BY <3>1 DEF Tx
    <3>3. CountersKept(t.from)
      BY <3>2
    <3> QED
      BY <3>1, <3>2, <3>3 DEF Spent, CountersKept, TypeOK
  <2> QED
    BY <2>1, <2>2
<1>3. ASSUME NEW t \in Existing', NEW u \in Existing', SameSlot(t, u)
      PROVE  t = u
  <2>1. t \in Tx /\ u \in Tx
    BY ExistingType, WrittenTypes DEF AlwaysTheSame
  <2>2. SameSlot(u, t)
    BY <1>3 DEF SameSlot
  <2>3. CASE t \in Existing /\ u \in Existing
    BY <1>3, <2>3 DEF SeqNeverReused
  <2>4. CASE t \in AlwaysTheSame
    BY <1>2, <1>3, <2>1, <2>4, SameSlotSameTx DEF Spent
  <2>5. CASE u \in AlwaysTheSame
    BY <1>2, <2>1, <2>2, <2>5, SameSlotSameTx DEF Spent
  <2> QED
    BY <2>3, <2>4, <2>5
<1> QED
  BY <1>1, <1>2, <1>3 DEF NumbersSpent, SeqNeverReused
LEMMA NewNumber ==
    ASSUME TypeOK, NumbersSpent, SeqNeverReused, TypeOK',
           NEW n \in Account, NEW new \in Tx,
           new.from = n, new.cur = Currency, new.seq = nextSeq[n], new.type # "CLAIM",
           Existing' \subseteq Existing \cup {new},
           nextSeq'[n] = nextSeq[n] + 1, flash'[n].seq = nextSeq[n] + 1,
           \A m \in Account \ {n} : nextSeq'[m] = nextSeq[m] /\ flash'[m] = flash[m]
    PROVE  NumbersSpent' /\ SeqNeverReused'
<1>1. \A m \in Account : nextSeq'[m] >= 1 /\ flash'[m].seq >= 1
  BY DEF TypeOK, NumbersSpent
<1>2. ASSUME NEW t \in Existing
      PROVE  t \in Tx /\ Spent(t) /\ Spent(t)' /\ ~SameSlot(t, new)
  <2>1. Spent(t) /\ t \in Tx
    BY ExistingType DEF NumbersSpent
  <2>2. t.from \in Account /\ t.seq \in Nat
    BY <2>1 DEF Tx
  <2>3. nextSeq[n] \in Nat /\ nextSeq[n] >= 1
    BY DEF TypeOK, NumbersSpent
  <2>4. Spent(t)'
    BY <2>1, <2>2, <2>3 DEF Spent
  <2>5. ~SameSlot(t, new)
    <3>1. CASE t = BootCredit(t.from)
      BY <3>1, LedgerAssumption DEF SameSlot, BootCredit, Mint
    <3>2. CASE t = Claim(t.from)
      BY <3>2, <2>3 DEF SameSlot, Claim
    <3>3. CASE t.seq < nextSeq[t.from]
      BY <3>3, <2>2, <2>3 DEF SameSlot
    <3> QED
      BY <2>1, <3>1, <3>2, <3>3 DEF Spent
  <2> QED
    BY <2>1, <2>4, <2>5
<1>3. Spent(new)'
  BY DEF Spent, TypeOK, NumbersSpent
<1>4. \A t, u \in Existing' : SameSlot(t, u) => t = u
  <2>1. SUFFICES ASSUME NEW t \in Existing', NEW u \in Existing', SameSlot(t, u)
                 PROVE  t = u
    OBVIOUS
  <2>2. SameSlot(u, t)
    BY <2>1 DEF SameSlot
  <2>3. CASE t \in Existing /\ u \in Existing
    BY <2>1, <2>3 DEF SeqNeverReused
  <2>4. CASE t \in Existing /\ u = new
    BY <1>2, <2>1, <2>4
  <2>5. CASE t = new /\ u \in Existing
    BY <1>2, <2>2, <2>5
  <2> QED
    BY <2>3, <2>4, <2>5
<1> QED
  BY <1>1, <1>2, <1>3, <1>4 DEF NumbersSpent, SeqNeverReused

-----------------------------------------------------------------------------
(* A step of one wallet leaves the others alone.                            *)

OthersAlone(n) ==
    \A m \in Account \ {n} :
        dag'[m] = dag[m] /\ nextSeq'[m] = nextSeq[m]
        /\ job'[m] = job[m] /\ flash'[m] = flash[m]

LEMMA ExistingAfter ==
    ASSUME NEW n \in Account, OthersAlone(n), NEW X,
           wire' \subseteq Existing \cup X,
           dag'[n].win \subseteq Existing \cup X,
           flash'[n].win \subseteq Existing \cup X,
           dag'[n].cp.horizon \subseteq Existing \cup X,
           flash'[n].cp.horizon \subseteq Existing \cup X,
           job'[n].tx \in Existing \cup X \cup {NoTx},
           \A cp \in cuts' : cp.horizon \subseteq Existing \cup X
    PROVE  Existing' \subseteq Existing \cup X
<1>1. SUFFICES ASSUME NEW t \in Existing', t \notin X PROVE t \in Existing
  OBVIOUS
<1>2. CASE t \in wire'
  BY <1>1, <1>2
<1>3. ASSUME NEW cp \in cuts', t \in cp.horizon PROVE t \in Existing
  BY <1>1, <1>3
<1>4. ASSUME NEW m \in Account,
             \/ t \in dag'[m].win \/ t \in flash'[m].win
             \/ t = job'[m].tx /\ t # NoTx
             \/ t \in dag'[m].cp.horizon \/ t \in flash'[m].cp.horizon
      PROVE  t \in Existing
  <2>1. CASE m = n
    BY <1>1, <1>4, <2>1
  <2>2. CASE m # n
    <3>1. /\ dag'[m] = dag[m] /\ job'[m] = job[m] /\ flash'[m] = flash[m]
      BY <2>2 DEF OthersAlone
    <3> QED
      BY <1>4, <3>1, ExistingMember
  <2> QED
    BY <2>1, <2>2
<1> QED
  BY <1>1, <1>2, <1>3, <1>4, ExistingMemberNext

LEMMA HorizonAfter ==
    ASSUME FloorPassed, HorizonClean, NEW n \in Account, OthersAlone(n),
           Ahead(n)', Clean(dag'[n])
    PROVE  FloorPassed' /\ HorizonClean'
<1>1. ASSUME NEW m \in Account PROVE Ahead(m)' /\ Clean(dag'[m])
  <2>1. CASE m = n
    BY <2>1
  <2>2. CASE m # n
    BY <2>2 DEF OthersAlone, FloorPassed, HorizonClean, Ahead, Anchored
  <2> QED
    BY <2>1, <2>2
<1> QED
  BY <1>1 DEF FloorPassed, HorizonClean

(* What is left to show of a step that spends no number.                    *)
LEMMA StepSpendingNone ==
    ASSUME IInv, TypeOK', NEW n \in Account, OthersAlone(n),
           wire' \subseteq Existing \cup AlwaysTheSame,
           dag'[n].win \subseteq Existing \cup AlwaysTheSame,
           flash'[n].win \subseteq Existing \cup AlwaysTheSame,
           dag'[n].cp.horizon \subseteq Existing \cup AlwaysTheSame,
           flash'[n].cp.horizon \subseteq Existing \cup AlwaysTheSame,
           job'[n].tx \in Existing \cup AlwaysTheSame \cup {NoTx},
           \A cp \in cuts' : cp.horizon \subseteq Existing \cup AlwaysTheSame,
           CountersKept(n), Ahead(n)', Clean(dag'[n])
    PROVE  IInv'
<1>1. Existing' \subseteq Existing \cup AlwaysTheSame
  BY ExistingAfter
<1>2. \A m \in Account : CountersKept(m)
  BY DEF OthersAlone, CountersKept, IInv, TypeOK
<1>3. NumbersSpent' /\ SeqNeverReused'
  BY <1>1, <1>2, SpentInvariant DEF IInv
<1>4. FloorPassed' /\ HorizonClean'
  BY HorizonAfter DEF IInv
<1> QED
  BY <1>3, <1>4 DEF IInv
LEMMA PartsExist ==
    ASSUME NEW n \in Account
    PROVE  /\ wire \subseteq Existing
           /\ dag[n].win \subseteq Existing
           /\ flash[n].win \subseteq Existing
           /\ dag[n].cp.horizon \subseteq Existing
           /\ flash[n].cp.horizon \subseteq Existing
           /\ job[n].tx \in Existing \cup {NoTx}
           /\ \A cp \in cuts : cp.horizon \subseteq Existing
BY ExistingMember

-----------------------------------------------------------------------------
(* One lemma per operation of a wallet.                                     *)

LEMMA JoinKeeps ==
    ASSUME IInv, NEW n \in Account, Join(n)
    PROVE  IInv'
<1> DEFINE clean == PurgeForeign(dag[n])
<1>1. TypeOK /\ Ahead(n) /\ Clean(dag[n])
  BY DEF IInv, FloorPassed, HorizonClean
<1>2. /\ clean \in Dag /\ clean.cp = dag[n].cp /\ clean.win \subseteq dag[n].win
      /\ Clean(clean)
  BY <1>1 DEF TypeOK, PurgeForeign, Dag, Clean
<1>3. /\ dag' = [dag EXCEPT ![n] = WithClaim(n, clean)]
      /\ job' = [job EXCEPT ![n] = JobAfterClaim(n, clean)]
      /\ flash' = [flash EXCEPT ![n].anchored = TRUE]
      /\ dirty' = [dirty EXCEPT ![n] = @ \/ clean # dag[n] \/ ClaimDue(n, clean)]
      /\ UNCHANGED <<nextSeq, wire, cuts>>
  BY DEF Join
<1>4. /\ WithClaim(n, clean) \in Dag
      /\ WithClaim(n, clean).win \subseteq clean.win \cup {Claim(n)}
      /\ WithClaim(n, clean).cp = clean.cp
      /\ JobAfterClaim(n, clean) \in Job
      /\ JobAfterClaim(n, clean).tx \in {NoTx, Claim(n)}
      /\ JobAfterClaim(n, clean).step # "commit"
      /\ Clean(WithClaim(n, clean))
  BY <1>2, WithClaimType, WithClaimClean
<1> HIDE DEF clean
<1>5. dirty' \in [Account -> BOOLEAN]
  BY <1>1, <1>3 DEF TypeOK
<1>6. /\ dag'[n] = WithClaim(n, clean) /\ job'[n] = JobAfterClaim(n, clean)
      /\ flash'[n].anchored = TRUE /\ flash'[n].win = flash[n].win
      /\ flash'[n].cp = flash[n].cp /\ flash'[n].seq = flash[n].seq
      /\ nextSeq'[n] = nextSeq[n]
  BY <1>1, <1>3 DEF TypeOK
<1>7. TypeOK'
  <2>1. dag' \in [Account -> Dag] /\ job' \in [Account -> Job]
    BY <1>1, <1>3, <1>4 DEF TypeOK
  <2>2. flash' \in [Account -> [seq : Nat, win : SUBSET Tx, cp : Horizon,
                               anchored : BOOLEAN]]
    BY <1>1, <1>3 DEF TypeOK
  <2> QED
    BY <1>1, <1>3, <1>5, <2>1, <2>2 DEF TypeOK
<1>8. OthersAlone(n)
  BY <1>1, <1>3 DEF TypeOK, OthersAlone
<1>9. Claim(n) \in AlwaysTheSame
  BY DEF AlwaysTheSame
<1>10. CountersKept(n)
  BY <1>1, <1>6 DEF CountersKept, TypeOK
<1>11. Ahead(n)'
  BY <1>1, <1>2, <1>4, <1>6 DEF Ahead, Anchored
<1>12. /\ dag'[n].win \subseteq Existing \cup AlwaysTheSame
       /\ dag'[n].cp.horizon \subseteq Existing \cup AlwaysTheSame
       /\ job'[n].tx \in Existing \cup AlwaysTheSame \cup {NoTx}
  BY <1>2, <1>4, <1>6, <1>9, PartsExist
<1> QED
  BY <1>3, <1>4, <1>6, <1>7, <1>8, <1>10, <1>11, <1>12, PartsExist,
     StepSpendingNone

(* The counter was saved, although the save reported an error. *)
GivenBack(n, t) == Begin(n, t) /\ UNCHANGED <<nextSeq, job>>

Taken(n, t) ==
    /\ Begin(n, t)
    /\ nextSeq' = [nextSeq EXCEPT ![n] = @ + 1]
    /\ job' = [job EXCEPT ![n] = [step |-> "commit", tx |-> t, emit |-> FALSE]]

LEMMA GivenBackKeeps ==
    ASSUME IInv, NEW n \in Account, NEW new, GivenBack(n, new)
    PROVE  IInv'
<1>1. TypeOK /\ Ahead(n) /\ Clean(dag[n])
  BY DEF IInv, FloorPassed, HorizonClean
<1>2. /\ dag' = dag /\ wire' = wire /\ cuts' = cuts /\ dirty' = dirty
      /\ nextSeq' = nextSeq /\ job' = job
      /\ flash' = [flash EXCEPT ![n].seq = nextSeq[n] + 1]
  BY DEF GivenBack, Begin
<1>3. TypeOK'
  BY <1>1, <1>2 DEF TypeOK
<1>4. OthersAlone(n)
  BY <1>1, <1>2 DEF TypeOK, OthersAlone
<1>5. /\ flash'[n].seq = nextSeq[n] + 1 /\ nextSeq[n] \in Nat
      /\ flash'[n].win = flash[n].win /\ flash'[n].cp = flash[n].cp
      /\ flash'[n].anchored = flash[n].anchored
  BY <1>1, <1>2 DEF TypeOK
<1>6. CountersKept(n)
  BY <1>2, <1>5 DEF CountersKept
<1>7. Ahead(n)' /\ Clean(dag'[n])
  BY <1>1, <1>2, <1>5 DEF Ahead, Anchored
<1>8. \A cp \in cuts : cp.horizon \subseteq Existing
  BY DEF Existing
<1> QED
  BY <1>2, <1>3, <1>4, <1>5, <1>6, <1>7, <1>8, PartsExist, StepSpendingNone

LEMMA TakenKeeps ==
    ASSUME IInv, NEW n \in Account, NEW new \in Tx, Taken(n, new),
           new.from = n, new.cur = Currency, new.seq = nextSeq[n], new.type # "CLAIM"
    PROVE  IInv'
<1>1. TypeOK /\ Ahead(n) /\ Clean(dag[n])
  BY DEF IInv, FloorPassed, HorizonClean
<1> DEFINE j == [step |-> "commit", tx |-> new, emit |-> FALSE]
<1>2. /\ dag' = dag /\ wire' = wire /\ cuts' = cuts /\ dirty' = dirty
      /\ nextSeq' = [nextSeq EXCEPT ![n] = @ + 1]
      /\ flash' = [flash EXCEPT ![n].seq = nextSeq[n] + 1]
      /\ job' = [job EXCEPT ![n] = j]
      /\ Anchored(n)
  BY DEF Taken, Begin
<1>3. j \in Job /\ j.step = "commit" /\ j.tx = new
  BY DEF Job, Step
<1> HIDE DEF j
<1>4. TypeOK'
  BY <1>1, <1>2, <1>3 DEF TypeOK
<1>5. OthersAlone(n)
  BY <1>1, <1>2 DEF TypeOK, OthersAlone
<1>6. /\ nextSeq'[n] = nextSeq[n] + 1 /\ flash'[n].seq = nextSeq[n] + 1
      /\ flash'[n].win = flash[n].win /\ flash'[n].cp = flash[n].cp
      /\ flash'[n].anchored = flash[n].anchored
      /\ job'[n] = j /\ dag'[n] = dag[n]
  BY <1>1, <1>2 DEF TypeOK
<1>7. Existing' \subseteq Existing \cup {new}
  BY <1>2, <1>3, <1>5, <1>6, PartsExist, ExistingAfter
<1>8. NumbersSpent' /\ SeqNeverReused'
  BY <1>4, <1>5, <1>6, <1>7, NewNumber DEF IInv, OthersAlone
<1>9. Ahead(n)'
  <2>1. nextSeq[n] \in Nat /\ dag[n].cp \in Horizon
    BY <1>1 DEF TypeOK, Dag
  <2>2. Listed(dag[n].cp, n) => dag[n].cp.dir[n].floor \in Nat
    BY <2>1 DEF Horizon, Entry
  <2>3. ~BelowFloor(dag[n].cp, new)
    BY <1>1, <2>1, <2>2 DEF Ahead, BelowFloor
  <2> QED
    BY <1>1, <1>2, <1>3, <1>6, <2>1, <2>2, <2>3 DEF Ahead, Anchored
<1> QED
  BY <1>1, <1>4, <1>5, <1>6, <1>8, <1>9, HorizonAfter DEF IInv

LEMMA BeginKeeps ==
    ASSUME IInv, NEW n \in Account, NEW new \in Tx, Begin(n, new),
           new.from = n, new.cur = Currency, new.seq = nextSeq[n], new.type # "CLAIM"
    PROVE  IInv'
<1>1. GivenBack(n, new) \/ Taken(n, new)
  BY DEF Begin, GivenBack, Taken
<1> QED
  BY <1>1, GivenBackKeeps, TakenKeeps

LEMMA PayKeeps ==
    ASSUME IInv, NEW n \in Account, NEW to \in Account, NEW amount \in Amount,
           NEW ref \in Ref, Pay(n, to, amount, ref)
    PROVE  IInv'
<1> DEFINE new == Transfer(n, to, amount, nextSeq[n], ref)
<1>1. nextSeq[n] \in Nat /\ amount \in Nat
  BY MeshAssumption DEF IInv, TypeOK
<1>2. new \in Tx
  BY <1>1, TransferMintTypes
<1>3. new.from = n /\ new.cur = Currency /\ new.seq = nextSeq[n] /\ new.type # "CLAIM"
  BY DEF Transfer
<1>4. Begin(n, new)
  BY DEF Pay
<1> HIDE DEF new
<1> QED
  BY <1>2, <1>3, <1>4, BeginKeeps

LEMMA CreditMemberKeeps ==
    ASSUME IInv, NEW n \in Account, NEW to \in Account, NEW amount \in Amount,
           NEW ref \in Ref, CreditMember(n, to, amount, ref)
    PROVE  IInv'
<1> DEFINE new == Mint(n, to, amount, nextSeq[n], Currency, ref)
<1>1. nextSeq[n] \in Nat /\ amount \in Nat
  BY MeshAssumption DEF IInv, TypeOK
<1>2. new \in Tx
  BY <1>1, TransferMintTypes
<1>3. new.from = n /\ new.cur = Currency /\ new.seq = nextSeq[n] /\ new.type # "CLAIM"
  BY DEF Mint
<1>4. Begin(n, new)
  BY DEF CreditMember
<1> HIDE DEF new
<1> QED
  BY <1>2, <1>3, <1>4, BeginKeeps

LEMMA CommitKeeps ==
    ASSUME IInv, NEW n \in Account, Commit(n)
    PROVE  IInv'
<1> DEFINE t == job[n].tx
           accepted == MergeVerdict(dag[n].win, t) = "OK"
           j == IF accepted THEN [job[n] EXCEPT !.step = "flush"] ELSE Idle
           w == Merge(dag[n].win, t)
<1>1. TypeOK /\ Ahead(n) /\ Clean(dag[n]) /\ job[n].step = "commit"
  BY DEF IInv, FloorPassed, HorizonClean, Commit
<1>2. t \in Tx /\ ~BelowFloor(dag[n].cp, t)
  BY <1>1 DEF Ahead
<1>3. /\ dag' = [dag EXCEPT ![n].win = w]
      /\ dirty' = [dirty EXCEPT ![n] = @ \/ accepted]
      /\ job' = [job EXCEPT ![n] = j]
      /\ nextSeq' = nextSeq /\ flash' = flash /\ wire' = wire /\ cuts' = cuts
  BY DEF Commit
<1>4. w \subseteq dag[n].win \cup {t}
  BY DEF Merge
<1>5. j \in Job /\ j.step # "commit" /\ j.tx \in {NoTx, t}
  BY <1>1 DEF TypeOK, Job, Idle, Step
<1>6. dirty' \in [Account -> BOOLEAN]
  BY <1>1, <1>3 DEF TypeOK
<1>7. t \in Existing
  BY <1>2, PartsExist, ExistingMember DEF NoTx, Tx
<1> HIDE DEF t, w, j, accepted
<1>8. /\ dag'[n].win = w /\ dag'[n].cp = dag[n].cp /\ job'[n] = j
  BY <1>1, <1>3 DEF TypeOK, Dag
<1>9. TypeOK'
  <2>1. dag' \in [Account -> Dag]
    <3>1. w \subseteq Tx
      BY <1>1, <1>2, <1>4 DEF TypeOK, Dag
    <3> QED
      BY <1>1, <1>3, <3>1 DEF TypeOK, Dag
  <2>2. job' \in [Account -> Job]
    BY <1>1, <1>3, <1>5 DEF TypeOK
  <2> QED
    BY <1>1, <1>3, <1>6, <2>1, <2>2 DEF TypeOK
<1>10. OthersAlone(n)
  BY <1>1, <1>3 DEF TypeOK, OthersAlone
<1>11. Clean(dag'[n])
  BY <1>1, <1>2, <1>4, <1>8 DEF Clean
<1>12. Ahead(n)'
  BY <1>1, <1>3, <1>5, <1>8 DEF Ahead, Anchored
<1>13. CountersKept(n)
  BY <1>1, <1>3 DEF TypeOK, CountersKept
<1> QED
  BY <1>3, <1>4, <1>5, <1>7, <1>8, <1>9, <1>10, <1>11, <1>12, <1>13, PartsExist,
     StepSpendingNone
(* Adopting a checkpoint whose horizon exists already: one heard, or the     *)
(* one the founder has just cut from its own window.                         *)
LEMMA AdoptAndRaiseKeeps ==
    ASSUME IInv, NEW n \in Account, NEW cp \in Horizon, NEW e \in BOOLEAN,
           cp.horizon \subseteq Existing, Anchored(n),
           AdoptAndRaise(n, cp, e)
    PROVE  IInv'
<1> DEFINE raised == AboveFloor(n, cp, nextSeq[n])
           d == Adopt(dag[n], cp)
<1>1. TypeOK /\ Ahead(n) /\ Clean(dag[n])
  BY DEF IInv, FloorPassed, HorizonClean
<1>2. dag[n] \in Dag /\ nextSeq[n] \in Nat
  BY <1>1 DEF TypeOK
<1>3. /\ raised \in Nat /\ raised >= nextSeq[n]
      /\ Listed(cp, n) => cp.dir[n].floor < raised
  BY <1>2, AboveFloorType
<1>4. /\ d \in Dag /\ d.win \subseteq dag[n].win /\ d.cp \in {dag[n].cp, cp}
      /\ Clean(d)
  BY <1>1, <1>2, AdoptType, AdoptClean
<1>5. /\ dag' = [dag EXCEPT ![n] = d]
      /\ nextSeq' = [nextSeq EXCEPT ![n] = raised]
      /\ \/ flash' = [flash EXCEPT ![n].seq =
                          IF raised # nextSeq[n] THEN raised ELSE @]
         \/ flash' = flash
      /\ job' = [job EXCEPT ![n].step = "saveCheckpoint", ![n].emit = e]
      /\ dirty' = dirty /\ wire' = wire /\ cuts' = cuts
  BY DEF AdoptAndRaise
<1> HIDE DEF raised, d
<1>6. /\ dag'[n] = d /\ nextSeq'[n] = raised
      /\ job'[n].step = "saveCheckpoint" /\ job'[n].tx = job[n].tx
  BY <1>1, <1>5 DEF TypeOK, Job
<1>7. /\ flash'[n].win = flash[n].win /\ flash'[n].cp = flash[n].cp
      /\ flash'[n].anchored = flash[n].anchored
      /\ flash'[n].seq \in {flash[n].seq, raised}
  BY <1>1, <1>5 DEF TypeOK
<1>8. TypeOK'
  <2>1. flash' \in [Account -> [seq : Nat, win : SUBSET Tx, cp : Horizon,
                               anchored : BOOLEAN]]
    <3>1. flash \in [Account -> [seq : Nat, win : SUBSET Tx, cp : Horizon, anchored : BOOLEAN]]
      BY <1>1 DEF TypeOK
    <3>2. PICK seq \in Nat : flash' = [flash EXCEPT ![n].seq = seq] \/ flash' = flash
      <4>1. IF raised # nextSeq[n] THEN raised \in Nat ELSE flash[n].seq \in Nat
        BY <1>3, <3>1
      <4> QED
        BY <1>3, <1>5, <4>1
    <3> QED
      BY <3>1, <3>2
  <2>2. job' \in [Account -> Job]
    <3>1. job \in [Account -> Job]
      BY <1>1 DEF TypeOK
    <3> QED
      BY <1>5, <3>1 DEF Job, Step
  <2> QED
    BY <1>1, <1>3, <1>4, <1>5, <2>1, <2>2 DEF TypeOK
<1>9. OthersAlone(n)
  BY <1>1, <1>5 DEF TypeOK, OthersAlone
<1>10. CountersKept(n)
  BY <1>1, <1>3, <1>6, <1>7 DEF TypeOK, CountersKept
<1>11. Ahead(n)'
  <2>1. Listed(dag[n].cp, n) => dag[n].cp.dir[n].floor < raised
    BY <1>1, <1>2, <1>3 DEF Ahead, Dag, Horizon, Entry
  <2> QED
    BY <1>3, <1>4, <1>6, <1>7, <2>1 DEF Ahead, Anchored
<1>12. dag'[n].win \subseteq Existing /\ dag'[n].cp.horizon \subseteq Existing
  BY <1>4, <1>6, PartsExist
<1> QED
  BY <1>4, <1>5, <1>6, <1>7, <1>8, <1>9, <1>10, <1>11, <1>12, PartsExist,
     StepSpendingNone

LEMMA EmitKeeps ==
    ASSUME IInv, NEW n \in Account, Emit(n)
    PROVE  IInv'
<1>1. TypeOK /\ NumbersSpent /\ dag[n] \in Dag
  BY DEF IInv, TypeOK
<1>2. ASSUME NEW a \in Account
      PROVE  \E B \in Nat : \A t \in dag[n].win : t.from = a => t.seq <= B
  <2>1. nextSeq[a] \in Nat
    BY <1>1 DEF TypeOK
  <2>2. ASSUME NEW t \in dag[n].win, t.from = a PROVE t.seq <= nextSeq[a]
    <3>1. Spent(t) /\ t \in Tx
      BY <1>1, PartsExist, ExistingType DEF NumbersSpent
    <3>2. t.seq \in Nat
      BY <3>1 DEF Tx
    <3>3. t = BootCredit(t.from) \/ t = Claim(t.from) => t.seq = 0
      BY DEF BootCredit, Claim, Mint
    <3> QED
      BY <2>1, <2>2, <3>1, <3>2, <3>3 DEF Spent
  <2> QED
    BY <2>1, <2>2
<1>3. Checkpoint(dag[n]) \in Horizon /\ Checkpoint(dag[n]).horizon = dag[n].win
  BY <1>1, <1>2, CheckpointType
<1>4. Checkpoint(dag[n]).horizon \subseteq Existing
  BY <1>3, PartsExist
<1>5. Anchored(n) /\ AdoptAndRaise(n, Checkpoint(dag[n]), TRUE)
  BY DEF Emit, EmissionDue
<1> QED
  BY <1>3, <1>4, <1>5, AdoptAndRaiseKeeps

LEMMA ReceiveCheckpointKeeps ==
    ASSUME IInv, NEW n \in Account, NEW cp \in cuts, ReceiveCheckpoint(n, cp)
    PROVE  IInv'
<1>1. cp \in Horizon
  BY DEF IInv, TypeOK
<1>2. cp.horizon \subseteq Existing
  BY PartsExist
<1>3. Anchored(n) /\ AdoptAndRaise(n, cp, FALSE)
  BY DEF ReceiveCheckpoint
<1> QED
  BY <1>1, <1>2, <1>3, AdoptAndRaiseKeeps

LEMMA SaveCheckpointKeeps ==
    ASSUME IInv, NEW n \in Account, SaveCheckpoint(n)
    PROVE  IInv'
<1>1. TypeOK /\ Ahead(n) /\ Clean(dag[n])
  BY DEF IInv, FloorPassed, HorizonClean
<1>2. /\ \/ flash' = [flash EXCEPT ![n].cp = dag[n].cp]
         \/ flash' = flash
      /\ job' = [job EXCEPT ![n].step = "saveWindow"]
      /\ dag' = dag /\ nextSeq' = nextSeq /\ dirty' = dirty
      /\ wire' = wire /\ cuts' = cuts
  BY DEF SaveCheckpoint
<1>3. /\ job'[n].step = "saveWindow" /\ job'[n].tx = job[n].tx
      /\ flash'[n].win = flash[n].win /\ flash'[n].seq = flash[n].seq
      /\ flash'[n].anchored = flash[n].anchored
      /\ flash'[n].cp \in {flash[n].cp, dag[n].cp}
  BY <1>1, <1>2 DEF TypeOK, Job
<1>4. TypeOK'
  <2>1. flash' \in [Account -> [seq : Nat, win : SUBSET Tx, cp : Horizon,
                               anchored : BOOLEAN]]
    <3>1. /\ flash \in [Account -> [seq : Nat, win : SUBSET Tx, cp : Horizon, anchored : BOOLEAN]]
          /\ dag[n].cp \in Horizon
      BY <1>1 DEF TypeOK, Dag
    <3> QED
      BY <1>2, <3>1
  <2>2. job' \in [Account -> Job]
    <3>1. job \in [Account -> Job]
      BY <1>1 DEF TypeOK
    <3> QED
      BY <1>2, <3>1 DEF Job, Step
  <2> QED
    BY <1>1, <1>2, <2>1, <2>2 DEF TypeOK
<1>5. OthersAlone(n)
  BY <1>1, <1>2 DEF TypeOK, OthersAlone
<1>6. CountersKept(n)
  BY <1>1, <1>2, <1>3 DEF TypeOK, CountersKept
<1>7. Ahead(n)'
  BY <1>1, <1>2, <1>3 DEF Ahead, Anchored
<1> QED
  BY <1>1, <1>2, <1>3, <1>4, <1>5, <1>6, <1>7, PartsExist, StepSpendingNone
(* The window is saved, or not, and the handler has only to send.            *)
LEMMA WindowSavedKeeps ==
    ASSUME IInv, NEW n \in Account, job' = [job EXCEPT ![n] = AfterSave(n)],
           \/ flash' = [flash EXCEPT ![n].win = dag[n].win]
           \/ flash' = flash,
           dirty' = [dirty EXCEPT ![n] = FALSE] \/ dirty' = dirty,
           dag' = dag, nextSeq' = nextSeq, wire' = wire, cuts' = cuts
    PROVE  IInv'
<1>1. TypeOK /\ Ahead(n) /\ Clean(dag[n])
  BY DEF IInv, FloorPassed, HorizonClean
<1>2. /\ AfterSave(n) \in Job
      /\ AfterSave(n).step # "commit"
      /\ AfterSave(n).tx = job[n].tx
  BY <1>1 DEF TypeOK, AfterSave, Idle, Job, Step
<1>3. /\ job'[n] = AfterSave(n)
      /\ flash'[n].seq = flash[n].seq /\ flash'[n].cp = flash[n].cp
      /\ flash'[n].anchored = flash[n].anchored
      /\ flash'[n].win \in {flash[n].win, dag[n].win}
  BY <1>1 DEF TypeOK
<1>4. TypeOK'
  <2>1. flash' \in [Account -> [seq : Nat, win : SUBSET Tx, cp : Horizon,
                               anchored : BOOLEAN]]
    BY <1>1 DEF TypeOK, Dag
  <2>2. job' \in [Account -> Job]
    BY <1>1, <1>2 DEF TypeOK
  <2>3. dirty' \in [Account -> BOOLEAN]
    BY <1>1 DEF TypeOK
  <2> QED
    BY <1>1, <2>1, <2>2, <2>3 DEF TypeOK
<1>5. OthersAlone(n)
  BY <1>1 DEF TypeOK, OthersAlone
<1>6. CountersKept(n)
  BY <1>1, <1>3 DEF TypeOK, CountersKept
<1>7. Ahead(n)'
  BY <1>1, <1>2, <1>3 DEF Ahead, Anchored
<1> QED
  BY <1>1, <1>2, <1>3, <1>4, <1>5, <1>6, <1>7, PartsExist, StepSpendingNone

(* What the handler wrote is sent and the lock released.                     *)
LEMMA SendKeeps ==
    ASSUME IInv, NEW n \in Account, Send(n)
    PROVE  IInv'
<1>1. TypeOK /\ Ahead(n) /\ Clean(dag[n])
  BY DEF IInv, FloorPassed, HorizonClean
<1>2. /\ job' = [job EXCEPT ![n] = Idle]
      /\ wire' = wire \cup ({job[n].tx} \ {NoTx})
      /\ cuts' = cuts \/ cuts' = cuts \cup {dag[n].cp}
      /\ dag' = dag /\ nextSeq' = nextSeq /\ dirty' = dirty /\ flash' = flash
  BY DEF Send
<1>3. Idle \in Job /\ Idle.step # "commit" /\ Idle.tx = NoTx
  BY DEF Idle, Job, Step
<1>4. job'[n] = Idle
  BY <1>1, <1>2 DEF TypeOK
<1>5. TypeOK'
  <2>1. job' \in [Account -> Job]
    BY <1>1, <1>2, <1>3 DEF TypeOK
  <2>2. wire' \subseteq Tx
    BY <1>1, <1>2 DEF TypeOK, Job
  <2>3. cuts' \subseteq Horizon
    BY <1>1, <1>2 DEF TypeOK, Dag
  <2> QED
    BY <1>1, <1>2, <2>1, <2>2, <2>3 DEF TypeOK
<1>6. OthersAlone(n)
  BY <1>1, <1>2 DEF TypeOK, OthersAlone
<1>7. CountersKept(n)
  BY <1>1, <1>2, <1>4 DEF TypeOK, CountersKept
<1>8. Ahead(n)'
  BY <1>1, <1>2, <1>3, <1>4 DEF Ahead, Anchored
<1>9. wire' \subseteq Existing
  BY <1>2, PartsExist
<1>10. \A cp \in cuts' : cp.horizon \subseteq Existing
  BY <1>2, PartsExist
<1> QED
  BY <1>1, <1>2, <1>3, <1>4, <1>5, <1>6, <1>7, <1>8, <1>9, <1>10, PartsExist,
     StepSpendingNone

LEMMA FlushWindowKeeps ==
    ASSUME IInv, NEW n \in Account, FlushWindow(n)
    PROVE  IInv'
BY WindowSavedKeeps DEF FlushWindow

LEMMA SaveWindowKeeps ==
    ASSUME IInv, NEW n \in Account, SaveWindow(n)
    PROVE  IInv'
BY WindowSavedKeeps DEF SaveWindow

(* A member lets in what the gate accepts; an unanchored wallet sits on no   *)
(* checkpoint that could have counted anything.                              *)
LEMMA ReceiveKeeps ==
    ASSUME IInv, NEW n \in Account, NEW t \in wire, Receive(n, t)
    PROVE  IInv'
<1> DEFINE w == Merge(dag[n].win, t)
<1>1. TypeOK /\ Ahead(n) /\ Clean(dag[n]) /\ t \in Tx
  BY DEF IInv, FloorPassed, HorizonClean, TypeOK
<1>2. /\ dag' = [dag EXCEPT ![n].win = w]
      /\ dirty' = [dirty EXCEPT ![n] = TRUE]
      /\ nextSeq' = nextSeq /\ job' = job /\ flash' = flash
      /\ wire' = wire /\ cuts' = cuts
  BY DEF Receive
<1>3. w \subseteq dag[n].win \cup {t}
  BY DEF Merge
<1>4. ~BelowFloor(dag[n].cp, t)
  <2>1. CASE Anchored(n)
    <3>1. IngestCheck(dag[n], t) = "OK"
      BY <2>1 DEF Receive
    <3> QED
      BY <3>1, IngestRejectsCounted
  <2>2. CASE ~Anchored(n)
    BY <1>1, <2>2 DEF Ahead, BelowFloor, Listed
  <2> QED
    BY <2>1, <2>2
<1> HIDE DEF w
<1>5. dag'[n].win = w /\ dag'[n].cp = dag[n].cp
  BY <1>1, <1>2 DEF TypeOK, Dag
<1>6. TypeOK'
  <2>1. w \subseteq Tx
    BY <1>1, <1>3 DEF TypeOK, Dag
  <2>2. dag' \in [Account -> Dag]
    BY <1>1, <1>2, <2>1 DEF TypeOK, Dag
  <2> QED
    BY <1>1, <1>2, <2>2 DEF TypeOK
<1>7. OthersAlone(n)
  BY <1>1, <1>2 DEF TypeOK, OthersAlone
<1>8. CountersKept(n)
  BY <1>1, <1>2 DEF TypeOK, CountersKept
<1>9. Clean(dag'[n])
  BY <1>1, <1>3, <1>4, <1>5 DEF Clean
<1>10. Ahead(n)'
  BY <1>1, <1>2, <1>5 DEF Ahead, Anchored
<1>11. dag'[n].win \subseteq Existing
  BY <1>3, <1>5, PartsExist
<1> QED
  BY <1>2, <1>5, <1>6, <1>7, <1>8, <1>9, <1>10, <1>11, PartsExist,
     StepSpendingNone

LEMMA PushCheckpointKeeps ==
    ASSUME IInv, NEW n \in Account, PushCheckpoint(n)
    PROVE  IInv'
<1>1. TypeOK /\ Ahead(n) /\ Clean(dag[n])
  BY DEF IInv, FloorPassed, HorizonClean
<1>2. /\ cuts' = cuts \cup {dag[n].cp} /\ dag' = dag /\ nextSeq' = nextSeq
      /\ dirty' = dirty /\ job' = job /\ flash' = flash /\ wire' = wire
  BY DEF PushCheckpoint
<1>3. TypeOK'
  BY <1>1, <1>2 DEF TypeOK, Dag
<1>4. OthersAlone(n) /\ CountersKept(n) /\ Ahead(n)' /\ Clean(dag'[n])
  BY <1>1, <1>2 DEF OthersAlone, CountersKept, TypeOK, Ahead, Anchored
<1>5. \A cp \in cuts' : cp.horizon \subseteq Existing
  BY <1>2, PartsExist
<1> QED
  BY <1>2, <1>3, <1>4, <1>5, PartsExist, StepSpendingNone

LEMMA ServeBatchKeeps ==
    ASSUME IInv, NEW n \in Account, ServeBatch(n)
    PROVE  IInv'
<1>1. TypeOK /\ Ahead(n) /\ Clean(dag[n])
  BY DEF IInv, FloorPassed, HorizonClean
<1>2. /\ wire' = wire \cup dag[n].win /\ dag' = dag /\ nextSeq' = nextSeq
      /\ dirty' = dirty /\ job' = job /\ flash' = flash /\ cuts' = cuts
  BY DEF ServeBatch
<1>3. TypeOK'
  BY <1>1, <1>2 DEF TypeOK, Dag
<1>4. OthersAlone(n) /\ CountersKept(n) /\ Ahead(n)' /\ Clean(dag'[n])
  BY <1>1, <1>2 DEF OthersAlone, CountersKept, TypeOK, Ahead, Anchored
<1>5. wire' \subseteq Existing
  BY <1>2, PartsExist
<1> QED
  BY <1>2, <1>3, <1>4, <1>5, PartsExist, StepSpendingNone
(* What a boot reads back.                                                   *)
LEMMA RestoredType ==
    ASSUME TypeOK, NEW n \in Account
    PROVE  /\ Cleaned(n) \in Dag /\ Cleaned(n).win \subseteq flash[n].win
           /\ Restored(n) \in Dag /\ Restored(n).win \subseteq flash[n].win
           /\ Restored(n).cp \in {NoCheckpoint, flash[n].cp}
           /\ ~Anchored(n) => Restored(n).cp = NoCheckpoint
           /\ Clean(Restored(n))
<1>1. flash[n].win \subseteq Tx /\ flash[n].cp \in Horizon
  BY DEF TypeOK
<1>2. Stored(n) \in Dag /\ Stored(n).win = flash[n].win /\ Stored(n).cp = NoCheckpoint
  BY <1>1, NoCheckpointType DEF Stored, Dag
<1>3. /\ Cleaned(n) \in Dag /\ Cleaned(n).win \subseteq flash[n].win
      /\ Cleaned(n).cp = NoCheckpoint
  <2>1. /\ PurgeForeign(Stored(n)) \in Dag
        /\ PurgeForeign(Stored(n)).win \subseteq Stored(n).win
        /\ PurgeForeign(Stored(n)).cp = Stored(n).cp
    BY <1>2 DEF PurgeForeign, Dag
  <2> QED
    BY <1>2, <2>1 DEF Cleaned
<1>4. Clean(Cleaned(n))
  BY <1>3 DEF Clean, BelowFloor, Listed, NoCheckpoint
<1>5. /\ Adopt(Cleaned(n), flash[n].cp) \in Dag
      /\ Adopt(Cleaned(n), flash[n].cp).win \subseteq Cleaned(n).win
      /\ Adopt(Cleaned(n), flash[n].cp).cp \in {Cleaned(n).cp, flash[n].cp}
      /\ Clean(Adopt(Cleaned(n), flash[n].cp))
  BY <1>1, <1>3, <1>4, AdoptType, AdoptClean
<1> QED
  BY <1>3, <1>4, <1>5 DEF Restored

(* The counter a boot restores is above every number ever spent.             *)
LEMMA RestoredSeqType ==
    ASSUME TypeOK, NumbersSpent, NEW n \in Account
    PROVE  /\ RestoredSeq(n) \in Nat
           /\ RestoredSeq(n) >= flash[n].seq
           /\ Listed(Restored(n).cp, n) =>
                 Restored(n).cp.dir[n].floor < RestoredSeq(n)
<1> DEFINE Own == {s + 1 : s \in OwnSeqs(n, Cleaned(n).win)}
           S == {flash[n].seq} \cup Own
<1>1. flash[n].seq \in Nat /\ flash[n].seq >= 1
  BY DEF TypeOK, NumbersSpent
<1>2. ASSUME NEW s \in OwnSeqs(n, Cleaned(n).win)
      PROVE  s \in Nat /\ s + 1 <= flash[n].seq
  <2>1. PICK t \in Cleaned(n).win : t.from = n /\ s = t.seq
    BY DEF OwnSeqs
  <2>2. t \in Existing
    BY RestoredType, PartsExist
  <2>3. Spent(t) /\ t \in Tx
    BY <2>2, ExistingType DEF NumbersSpent
  <2>4. t.seq \in Nat
    BY <2>3 DEF Tx
  <2>5. t = BootCredit(t.from) \/ t = Claim(t.from) => t.seq = 0
    BY DEF BootCredit, Claim, Mint
  <2> QED
    BY <1>1, <2>1, <2>3, <2>4, <2>5 DEF Spent
<1>3. Own \in SUBSET Nat /\ \A x \in Own : x <= flash[n].seq
  BY <1>2
<1> HIDE DEF Own
<1>4. S \in SUBSET Nat /\ S # {} /\ \A x \in S : x <= flash[n].seq
  <2>1. ASSUME NEW x \in S PROVE x \in Nat /\ x <= flash[n].seq
    <3>1. CASE x = flash[n].seq
      BY <1>1, <3>1
    <3>2. CASE x \in Own
      BY <1>3, <3>2
    <3> QED
      BY <2>1, <3>1, <3>2
  <2> QED
    BY <2>1
<1>5. flash[n].seq \in S
  OBVIOUS
<1> HIDE DEF S
<1>6. SetMax(S) \in S /\ \A y \in S : y <= SetMax(S)
  BY <1>1, <1>4, SetMaxOfBounded
<1>7. SetMax(S) \in Nat /\ SetMax(S) >= flash[n].seq
  BY <1>4, <1>5, <1>6
<1>8. Restored(n).cp \in Horizon
  BY RestoredType DEF Dag
<1>9. RestoredSeq(n) = AboveFloor(n, Restored(n).cp, SetMax(S))
  BY DEF RestoredSeq, S, Own
<1> HIDE DEF S
<1> QED
  BY <1>1, <1>7, <1>8, <1>9, AboveFloorType

LEMMA RestartKeeps ==
    ASSUME IInv, NEW n \in Account, Restart(n)
    PROVE  IInv'
<1> DEFINE claims == Anchored(n) /\ ClaimDue(n, Restored(n))
           d == IF claims THEN WithClaim(n, Restored(n)) ELSE Restored(n)
           j == IF claims THEN JobAfterClaim(n, Restored(n)) ELSE Idle
<1>1. TypeOK /\ NumbersSpent /\ Ahead(n)
  BY DEF IInv, FloorPassed
<1>2. /\ dag' = [dag EXCEPT ![n] = d]
      /\ nextSeq' = [nextSeq EXCEPT ![n] = RestoredSeq(n)]
      /\ dirty' = [dirty EXCEPT ![n] = claims]
      /\ job' = [job EXCEPT ![n] = j]
      /\ flash' = [flash EXCEPT ![n].win = Cleaned(n).win]
      /\ wire' = wire /\ cuts' = cuts
  BY DEF Restart
<1>3. /\ d \in Dag /\ Clean(d) /\ d.cp = Restored(n).cp
      /\ d.win \subseteq flash[n].win \cup {Claim(n)}
  BY <1>1, RestoredType, WithClaimType, WithClaimClean
<1>4. j \in Job /\ j.step # "commit" /\ j.tx \in {NoTx, Claim(n)}
  BY <1>1, RestoredType, WithClaimType DEF Idle, Job, Step
<1>5. claims \in BOOLEAN
  BY <1>1 DEF Anchored, TypeOK
<1> HIDE DEF claims, d, j
<1>6. /\ dag'[n] = d /\ nextSeq'[n] = RestoredSeq(n) /\ job'[n] = j
      /\ flash'[n].win = Cleaned(n).win /\ flash'[n].seq = flash[n].seq
      /\ flash'[n].cp = flash[n].cp /\ flash'[n].anchored = flash[n].anchored
  BY <1>1, <1>2 DEF TypeOK
<1>7. /\ RestoredSeq(n) \in Nat /\ RestoredSeq(n) >= flash[n].seq
      /\ Listed(d.cp, n) => d.cp.dir[n].floor < RestoredSeq(n)
  BY <1>1, <1>3, RestoredSeqType
<1>8. TypeOK'
  <2>1. Cleaned(n).win \subseteq Tx
    BY <1>1, RestoredType DEF Dag
  <2>2. flash' \in [Account -> [seq : Nat, win : SUBSET Tx, cp : Horizon,
                               anchored : BOOLEAN]]
    BY <1>1, <1>2, <2>1 DEF TypeOK
  <2> QED
    BY <1>1, <1>2, <1>3, <1>4, <1>5, <1>7, <2>2 DEF TypeOK
<1>9. OthersAlone(n)
  BY <1>1, <1>2 DEF TypeOK, OthersAlone
<1>10. CountersKept(n)
  BY <1>1, <1>6, <1>7 DEF TypeOK, CountersKept
<1>11. Ahead(n)'
  <2>1. ~Anchored(n) => d.cp.gen = 0
    BY <1>1, <1>3, RestoredType DEF NoCheckpoint
  <2> QED
    BY <1>1, <1>4, <1>6, <1>7, <2>1 DEF Ahead, Anchored
<1>12. Claim(n) \in AlwaysTheSame
  BY DEF AlwaysTheSame
<1>13. d.cp.horizon \subseteq Existing
  BY <1>1, <1>3, RestoredType, PartsExist DEF NoCheckpoint
<1>14. /\ dag'[n].win \subseteq Existing \cup AlwaysTheSame
       /\ flash'[n].win \subseteq Existing
       /\ job'[n].tx \in Existing \cup AlwaysTheSame \cup {NoTx}
  BY <1>1, <1>3, <1>4, <1>6, <1>12, RestoredType, PartsExist
<1> QED
  BY <1>2, <1>3, <1>6, <1>8, <1>9, <1>10, <1>11, <1>13, <1>14, PartsExist,
     StepSpendingNone
-----------------------------------------------------------------------------
(* A wallet that has just been built holds its boot credit and nothing else. *)
LEMMA InitEstablishes == Init => IInv
<1>1. SUFFICES ASSUME Init PROVE IInv
  OBVIOUS
<1>2. Idle \in Job /\ Idle.tx = NoTx /\ Idle.step # "commit"
  BY DEF Idle, Job, Step
<1>3. TypeOK
  <2>1. \A n \in Account : BootCredit(n) \in Tx
    BY WrittenTypes
  <2> QED
    BY <1>1, <1>2, <2>1, NoCheckpointType DEF Init, TypeOK, Dag
<1>4. \A t \in Existing : \E n \in Account : t = BootCredit(n)
  <2>1. SUFFICES ASSUME NEW t \in Existing
                 PROVE  \E n \in Account : t = BootCredit(n)
    OBVIOUS
  <2>2. /\ wire = {BootCredit(n) : n \in Account} /\ cuts = {}
        /\ \A n \in Account :
              /\ dag[n].win = {BootCredit(n)} /\ flash[n].win = {BootCredit(n)}
              /\ dag[n].cp.horizon = {} /\ flash[n].cp.horizon = {}
              /\ job[n].tx = NoTx
    BY <1>1, <1>2 DEF Init, NoCheckpoint
  <2> QED
    BY <2>1, <2>2, ExistingMember
<1>5. \A n \in Account : BootCredit(n).from = n
  BY DEF BootCredit, Mint
<1>6. NumbersSpent
  BY <1>1, <1>4, <1>5 DEF Init, NumbersSpent, Spent
<1>7. SeqNeverReused
  BY <1>4, <1>5 DEF SeqNeverReused, SameSlot
<1>8. ASSUME NEW n \in Account PROVE Ahead(n) /\ Clean(dag[n])
  <2>1. /\ dag[n].cp = NoCheckpoint /\ flash[n].cp = NoCheckpoint
        /\ job[n] = Idle
    BY <1>1 DEF Init
  <2> QED
    BY <1>2, <2>1 DEF Ahead, Clean, BelowFloor, Listed, NoCheckpoint
<1> QED
  BY <1>3, <1>6, <1>7, <1>8 DEF IInv, FloorPassed, HorizonClean

LEMMA NextKeeps == IInv /\ [Next]_vars => IInv'
<1>1. SUFFICES ASSUME IInv, [Next]_vars PROVE IInv'
  OBVIOUS
<1>2. CASE UNCHANGED vars
  <2>1. /\ dag' = dag /\ nextSeq' = nextSeq /\ dirty' = dirty /\ job' = job
        /\ flash' = flash /\ wire' = wire /\ cuts' = cuts
    BY <1>2 DEF vars
  <2>2. TypeOK'
    BY <1>1, <2>1 DEF IInv, TypeOK
  <2>3. Existing' = Existing
    BY <2>1 DEF Existing
  <2>4. NumbersSpent' /\ SeqNeverReused'
    BY <1>1, <2>1, <2>3 DEF IInv, NumbersSpent, Spent, SeqNeverReused
  <2>5. FloorPassed' /\ HorizonClean'
    BY <1>1, <2>1 DEF IInv, FloorPassed, Ahead, Anchored, HorizonClean
  <2> QED
    BY <2>2, <2>4, <2>5 DEF IInv
<1>3. CASE Next
  <2>1. PICK n \in Account :
          \/ Join(n)
          \/ \E to \in Account, amount \in Amount, ref \in Ref :
                Pay(n, to, amount, ref) \/ CreditMember(n, to, amount, ref)
          \/ Commit(n)
          \/ Emit(n)
          \/ FlushWindow(n)
          \/ \E cp \in cuts : ReceiveCheckpoint(n, cp)
          \/ SaveCheckpoint(n)
          \/ SaveWindow(n)
          \/ Send(n)
          \/ \E t \in wire : Receive(n, t)
          \/ PushCheckpoint(n)
          \/ ServeBatch(n)
          \/ Restart(n)
    BY <1>3, Zenon DEF Next
  <2>2. CASE Join(n)
    BY <1>1, <2>2, JoinKeeps
  <2>3. ASSUME NEW to \in Account, NEW amount \in Amount, NEW ref \in Ref,
               Pay(n, to, amount, ref) \/ CreditMember(n, to, amount, ref)
        PROVE  IInv'
    BY <1>1, <2>3, PayKeeps, CreditMemberKeeps
  <2>4. CASE Commit(n)
    BY <1>1, <2>4, CommitKeeps
  <2>5. CASE Emit(n)
    BY <1>1, <2>5, EmitKeeps
  <2>6. CASE FlushWindow(n)
    BY <1>1, <2>6, FlushWindowKeeps
  <2>7. ASSUME NEW cp \in cuts, ReceiveCheckpoint(n, cp) PROVE IInv'
    BY <1>1, <2>7, ReceiveCheckpointKeeps
  <2>8. CASE SaveCheckpoint(n)
    BY <1>1, <2>8, SaveCheckpointKeeps
  <2>9. CASE SaveWindow(n)
    BY <1>1, <2>9, SaveWindowKeeps
  <2>14. CASE Send(n)
    BY <1>1, <2>14, SendKeeps
  <2>10. ASSUME NEW t \in wire, Receive(n, t) PROVE IInv'
    BY <1>1, <2>10, ReceiveKeeps
  <2>11. CASE PushCheckpoint(n)
    BY <1>1, <2>11, PushCheckpointKeeps
  <2>12. CASE ServeBatch(n)
    BY <1>1, <2>12, ServeBatchKeeps
  <2>13. CASE Restart(n)
    BY <1>1, <2>13, RestartKeeps
  <2> QED
    BY <2>1, <2>2, <2>3, <2>4, <2>5, <2>6, <2>7, <2>8, <2>9, <2>10, <2>11,
       <2>12, <2>13, <2>14
<1> QED
  BY <1>1, <1>2, <1>3

THEOREM Invariance == Spec => []IInv
BY InitEstablishes, NextKeeps, PTL DEF Spec

(* Every reachable state is well typed: in particular every floor a cut      *)
(* computes, the maximum of a set of numbers, is a number.                   *)
THEOREM TypeCorrect == Spec => []TypeOK
<1>1. IInv => TypeOK
  BY DEF IInv
<1> QED
  BY <1>1, Invariance, PTL

(* Whatever the number of wallets, the size of the window, the power cuts    *)
(* and the flash errors, no sequence number is ever on two transactions.     *)
THEOREM NoNumberTwice == Spec => []SeqNeverReused
<1>1. IInv => SeqNeverReused
  BY DEF IInv
<1> QED
  BY <1>1, Invariance, PTL

(* Whatever a wallet receives, commits, adopts or reads back at boot, it     *)
(* never holds a transaction that the checkpoint it sits on has counted.     *)
THEOREM WindowAboveHorizon == Spec => []HorizonClean
<1>1. IInv => HorizonClean
  BY DEF IInv
<1> QED
  BY <1>1, Invariance, PTL

(* Whatever wallets claim, refound, purge and read back, the walk of the     *)
(* screens meets nobody twice: a claim below a directory that lists its      *)
(* author would be below the horizon, and there is one claim per account.    *)
THEOREM EachMemberOnce == Spec => []MembersCountedOnce
<1>1. IInv => MembersCountedOnce
  <2> SUFFICES ASSUME IInv, NEW n \in Account, NEW a \in Account
               PROVE  WalkCount(dag[n], a) <= 1
    BY DEF MembersCountedOnce
  <2> DEFINE claims == {t \in dag[n].win : ClaimValid(t) /\ t.from = a}
  <2>1. /\ dag[n] \in Dag /\ Clean(dag[n])
        /\ \A t \in dag[n].win : Spent(t)
    BY DEF IInv, TypeOK, HorizonClean, NumbersSpent, Existing
  <2>2. claims \subseteq {Claim(a)}
    BY <2>1 DEF Spent, ClaimValid, BootCredit, Mint
  <2>3. claims = {} \/ claims = {Claim(a)}
    BY <2>2
  <2>4. claims # {} => ~Listed(dag[n].cp, a)
    <3>1. Listed(dag[n].cp, a) => dag[n].cp.dir[a].floor \in Nat
      BY <2>1 DEF Dag, Horizon, Entry
    <3>2. Claim(a).from = a /\ Claim(a).seq = 0
      BY DEF Claim
    <3> QED
      BY <2>1, <2>3, <3>1, <3>2 DEF Clean, BelowFloor
  <2>5. Cardinality(claims) = IF claims = {} THEN 0 ELSE 1
    BY <2>3, FS_EmptySet, FS_Singleton
  <2>6. (\E t \in dag[n].win : ClaimValid(t) /\ t.from = a) <=> claims # {}
    OBVIOUS
  <2> HIDE DEF claims
  <2> QED
    BY <2>4, <2>5, <2>6 DEF WalkCount, claims
<1> QED
  BY <1>1, Invariance, PTL

-----------------------------------------------------------------------------
(* The books. *)

(* What a wallet holds is finite, and its genesis state lists nobody. *)
BooksInv ==
    /\ \A n \in Account :
          /\ IsFiniteSet(dag[n].win) /\ IsFiniteSet(flash[n].win)
          /\ Sound(dag[n].cp) /\ Sound(flash[n].cp)
    /\ \A c \in cuts : Sound(c)

(* A step adds one transaction to one window, or builds a checkpoint. *)
Gains(n) ==
    /\ OthersAlone(n)
    /\ \E t : dag'[n].win \subseteq dag[n].win \cup flash[n].win \cup {t}
    /\ flash'[n].win \subseteq dag[n].win \cup flash[n].win
    /\ \/ dag'[n].cp \in cuts \cup {dag[n].cp, flash[n].cp, NoCheckpoint}
       \/ dag'[n].cp.gen # 0
    /\ flash'[n].cp \in {dag[n].cp, flash[n].cp}
    /\ cuts' \subseteq cuts \cup {dag[n].cp}

LEMMA GainsKeep ==
    ASSUME BooksInv, NEW n \in Account, Gains(n)
    PROVE  BooksInv'
<1>1. IsFiniteSet(dag'[n].win) /\ IsFiniteSet(flash'[n].win)
  <2>1. IsFiniteSet(dag[n].win \cup flash[n].win)
    BY FS_Union DEF BooksInv
  <2>2. PICK t : dag'[n].win \subseteq dag[n].win \cup flash[n].win \cup {t}
    BY DEF Gains
  <2>3. IsFiniteSet((dag[n].win \cup flash[n].win) \cup {t})
    BY <2>1, FS_AddElement
  <2>4. PICK u, v, o, p : u = dag'[n].win /\ v = flash'[n].win
                          /\ o = (dag[n].win \cup flash[n].win) \cup {t}
                          /\ p = dag[n].win \cup flash[n].win
    OBVIOUS
  <2>5. u \in SUBSET o /\ IsFiniteSet(o) /\ v \in SUBSET p /\ IsFiniteSet(p)
    BY <2>1, <2>2, <2>3, <2>4 DEF Gains
  <2>6. IsFiniteSet(u) /\ IsFiniteSet(v)
    BY <2>5, FS_Subset
  <2> QED BY <2>4, <2>6
<1>2. Sound(dag'[n].cp) /\ Sound(flash'[n].cp)
  BY DEF Gains, BooksInv, Sound, NoCheckpoint
<1>3. \A c \in cuts' : Sound(c)
  BY DEF Gains, BooksInv
<1>4. \A m \in Account \ {n} : dag'[m] = dag[m] /\ flash'[m] = flash[m]
  BY DEF Gains, OthersAlone
<1> QED BY <1>1, <1>2, <1>3, <1>4 DEF BooksInv

LEMMA NextGains ==
    ASSUME IInv, NEW n \in Account,
           \/ Join(n)
           \/ \E to \in Account, amount \in Amount, ref \in Ref :
                 Pay(n, to, amount, ref) \/ CreditMember(n, to, amount, ref)
           \/ Commit(n)
           \/ Emit(n)
           \/ FlushWindow(n)
           \/ \E cp \in cuts : ReceiveCheckpoint(n, cp)
           \/ SaveCheckpoint(n)
           \/ SaveWindow(n)
           \/ Send(n)
           \/ \E t \in wire : Receive(n, t)
           \/ PushCheckpoint(n)
           \/ ServeBatch(n)
           \/ Restart(n)
    PROVE  Gains(n)
<1>0. TypeOK /\ Ahead(n) /\ dag[n] \in Dag /\ dag[n].cp.gen \in Nat
  BY DEF IInv, FloorPassed, TypeOK, Dag, Horizon
<1>1. CASE Join(n)
  <2> DEFINE clean == PurgeForeign(dag[n])
  <2>1. /\ dag' = [dag EXCEPT ![n] = WithClaim(n, clean)]
        /\ flash' = [flash EXCEPT ![n].anchored = TRUE]
        /\ job' = [job EXCEPT ![n] = JobAfterClaim(n, clean)]
        /\ nextSeq' = nextSeq /\ cuts' = cuts
    BY <1>1 DEF Join
  <2>2. clean \in Dag /\ clean.win \subseteq dag[n].win /\ clean.cp = dag[n].cp
    BY <1>0 DEF PurgeForeign, Dag
  <2>3. /\ WithClaim(n, clean).win \subseteq clean.win \cup {Claim(n)}
        /\ WithClaim(n, clean).cp = clean.cp
    BY <2>2, WithClaimType
  <2> HIDE DEF clean
  <2>4. /\ dag'[n].win \subseteq dag[n].win \cup flash[n].win \cup {Claim(n)}
        /\ dag'[n].cp = dag[n].cp
        /\ flash'[n].win = flash[n].win /\ flash'[n].cp = flash[n].cp
    BY <1>0, <2>1, <2>2, <2>3 DEF TypeOK
  <2>5. OthersAlone(n)
    BY <1>0, <2>1 DEF TypeOK, OthersAlone
  <2> QED BY <2>1, <2>4, <2>5 DEF Gains
<1>2. ASSUME NEW t, Begin(n, t) PROVE Gains(n)
  <2>1. /\ dag' = dag /\ cuts' = cuts
        /\ flash' = [flash EXCEPT ![n].seq = nextSeq[n] + 1]
        /\ \A m \in Account \ {n} : nextSeq'[m] = nextSeq[m] /\ job'[m] = job[m]
    BY <1>0, <1>2 DEF Begin, TypeOK
  <2> QED BY <1>0, <2>1 DEF TypeOK, Gains, OthersAlone
<1>3. CASE Commit(n)
  <2>1. /\ dag' = [dag EXCEPT ![n].win = Merge(@, job[n].tx)]
        /\ flash' = flash /\ cuts' = cuts /\ nextSeq' = nextSeq
        /\ \A m \in Account \ {n} : job'[m] = job[m]
    BY <1>0, <1>3 DEF Commit, TypeOK
  <2>2. Merge(dag[n].win, job[n].tx) \subseteq dag[n].win \cup {job[n].tx}
    BY DEF Merge
  <2>3. /\ dag'[n].win \subseteq dag[n].win \cup flash[n].win \cup {job[n].tx}
        /\ dag'[n].cp = dag[n].cp
    BY <1>0, <2>1, <2>2 DEF TypeOK, Dag
  <2>4. OthersAlone(n)
    BY <1>0, <2>1 DEF TypeOK, OthersAlone
  <2> QED BY <2>1, <2>3, <2>4 DEF Gains
<1>4. ASSUME NEW cp, NEW e, AdoptAndRaise(n, cp, e), cp \in cuts \/ cp.gen # 0
      PROVE  Gains(n)
  <2>1. /\ dag' = [dag EXCEPT ![n] = Adopt(@, cp)] /\ cuts' = cuts
        /\ \A m \in Account \ {n} : nextSeq'[m] = nextSeq[m] /\ job'[m] = job[m]
        /\ \A m \in Account \ {n} : flash'[m] = flash[m]
        /\ flash'[n].win = flash[n].win /\ flash'[n].cp = flash[n].cp
    BY <1>0, <1>4 DEF AdoptAndRaise, TypeOK
  <2>2. /\ Adopt(dag[n], cp).win \subseteq dag[n].win
        /\ Adopt(dag[n], cp).cp \in {dag[n].cp, cp}
    BY DEF Adopt
  <2> QED BY <1>0, <1>4, <2>1, <2>2 DEF TypeOK, Gains, OthersAlone
<1>5. CASE Emit(n)
  <2>1. Checkpoint(dag[n]).gen # 0
    BY <1>0 DEF Checkpoint
  <2> QED BY <1>4, <1>5, <2>1 DEF Emit
<1>6. ASSUME NEW cp \in cuts, ReceiveCheckpoint(n, cp) PROVE Gains(n)
  BY <1>4, <1>6 DEF ReceiveCheckpoint
<1>7. CASE FlushWindow(n) \/ SaveWindow(n)
  <2>1. /\ dag' = dag /\ cuts' = cuts /\ nextSeq' = nextSeq
        /\ flash' = flash \/ flash' = [flash EXCEPT ![n].win = dag[n].win]
        /\ \A m \in Account \ {n} : job'[m] = job[m]
    BY <1>0, <1>7 DEF FlushWindow, SaveWindow, TypeOK
  <2> QED BY <1>0, <2>1 DEF TypeOK, Gains, OthersAlone
<1>8. CASE SaveCheckpoint(n)
  <2>1. /\ dag' = dag /\ cuts' = cuts /\ nextSeq' = nextSeq
        /\ flash' = flash \/ flash' = [flash EXCEPT ![n].cp = dag[n].cp]
        /\ \A m \in Account \ {n} : job'[m] = job[m]
    BY <1>0, <1>8 DEF SaveCheckpoint, TypeOK
  <2> QED BY <1>0, <2>1 DEF TypeOK, Gains, OthersAlone
<1>9. CASE Send(n) \/ PushCheckpoint(n) \/ ServeBatch(n)
  <2>1. /\ dag' = dag /\ flash' = flash /\ nextSeq' = nextSeq
        /\ cuts' \subseteq cuts \cup {dag[n].cp}
        /\ \A m \in Account \ {n} : job'[m] = job[m]
    BY <1>0, <1>9 DEF Send, PushCheckpoint, ServeBatch, TypeOK
  <2> QED BY <1>0, <2>1 DEF TypeOK, Gains, OthersAlone
<1>10. ASSUME NEW t \in wire, Receive(n, t) PROVE Gains(n)
  <2>1. /\ dag' = [dag EXCEPT ![n].win = Merge(@, t)]
        /\ flash' = flash /\ cuts' = cuts /\ nextSeq' = nextSeq /\ job' = job
    BY <1>10 DEF Receive
  <2>2. Merge(dag[n].win, t) \subseteq dag[n].win \cup {t}
    BY DEF Merge
  <2>3. /\ dag'[n].win \subseteq dag[n].win \cup flash[n].win \cup {t}
        /\ dag'[n].cp = dag[n].cp
    BY <1>0, <2>1, <2>2 DEF TypeOK, Dag
  <2>4. OthersAlone(n)
    BY <1>0, <2>1 DEF TypeOK, OthersAlone
  <2> QED BY <2>1, <2>3, <2>4 DEF Gains
<1>11. CASE Restart(n)
  <2> DEFINE d == IF Anchored(n) /\ ClaimDue(n, Restored(n))
                  THEN WithClaim(n, Restored(n)) ELSE Restored(n)
  <2>1. /\ dag' = [dag EXCEPT ![n] = d] /\ cuts' = cuts
        /\ flash' = [flash EXCEPT ![n].win = Cleaned(n).win]
        /\ \A m \in Account \ {n} : nextSeq'[m] = nextSeq[m] /\ job'[m] = job[m]
    BY <1>0, <1>11 DEF Restart, TypeOK
  <2>2. /\ Restored(n) \in Dag /\ Restored(n).win \subseteq flash[n].win
        /\ Cleaned(n).win \subseteq flash[n].win
        /\ Restored(n).cp \in {NoCheckpoint, flash[n].cp}
    BY <1>0, RestoredType
  <2>3. d.cp = Restored(n).cp /\ d.win \subseteq flash[n].win \cup {Claim(n)}
    BY <2>2, WithClaimType
  <2> HIDE DEF d
  <2>4. /\ dag'[n].win \subseteq dag[n].win \cup flash[n].win \cup {Claim(n)}
        /\ dag'[n].cp \in {NoCheckpoint, flash[n].cp}
        /\ flash'[n].win \subseteq flash[n].win /\ flash'[n].cp = flash[n].cp
    BY <1>0, <2>1, <2>2, <2>3 DEF TypeOK
  <2>5. OthersAlone(n)
    BY <1>0, <2>1 DEF TypeOK, OthersAlone
  <2> QED BY <2>1, <2>4, <2>5 DEF Gains
<1>12. ASSUME NEW to \in Account, NEW amount \in Amount, NEW ref \in Ref,
              Pay(n, to, amount, ref) \/ CreditMember(n, to, amount, ref)
       PROVE  Gains(n)
  BY <1>2, <1>12 DEF Pay, CreditMember
<1> HIDE DEF Gains
<1> QED
  BY <1>1, <1>3, <1>5, <1>6, <1>7, <1>8, <1>9, <1>10, <1>11, <1>12

LEMMA BooksInvariance == Spec => [](IInv /\ BooksInv)
<1>1. Init => BooksInv
  <2>1. SUFFICES ASSUME Init PROVE BooksInv
    OBVIOUS
  <2>2. \A n \in Account : /\ dag[n].win = {BootCredit(n)} /\ dag[n].cp = NoCheckpoint
                           /\ flash[n].win = {BootCredit(n)} /\ flash[n].cp = NoCheckpoint
    BY <2>1 DEF Init
  <2>3. cuts = {} /\ Sound(NoCheckpoint)
    BY <2>1 DEF Init, Sound, NoCheckpoint
  <2>4. \A n \in Account : IsFiniteSet({BootCredit(n)})
    BY FS_Singleton
  <2> QED BY <2>2, <2>3, <2>4 DEF BooksInv
<1>2. IInv /\ BooksInv /\ [Next]_vars => BooksInv'
  <2>1. SUFFICES ASSUME IInv, BooksInv, [Next]_vars PROVE BooksInv'
    OBVIOUS
  <2>2. CASE UNCHANGED vars
    BY <2>1, <2>2 DEF BooksInv, vars
  <2>3. CASE Next
    <3>1. PICK n \in Account : Gains(n)
      BY <2>1, <2>3, NextGains, Zenon DEF Next
    <3> QED BY <2>1, <3>1, GainsKeep
  <2> QED BY <2>1, <2>2, <2>3
<1> QED BY <1>1, <1>2, Invariance, PTL DEF Spec

(* The part of a sum below zero, and the sum as it is shown.                 *)
LEMMA ShownIs ==
    ASSUME NEW x \in Int, x <= BalanceMax, NEW o, o = IF x < 0 THEN -x ELSE 0
    PROVE  o \in Int /\ Clamp(x) = x + o
BY LedgerAssumption DEF Clamp

(* Whatever is lost, repeated, cut, adopted, purged or read back, the sums   *)
(* of a wallet for all the accounts add up to the supply it computes: a fee  *)
(* goes to the founder, a checkpoint refounds what it drops.  The balances   *)
(* shown exceed the supply by what is overdrawn, and by nothing else.        *)
THEOREM BooksBalanced == Spec => []BooksBalance
<1>1. IInv /\ BooksInv => BooksBalance
  <2>1. SUFFICES ASSUME IInv, BooksInv, NEW n \in Account
                 PROVE  LET Held(a)      == RawBalance(dag[n], a)
                            Shown(a)     == Balance(dag[n], a)
                            Overdrawn(a) == IF Held(a) < 0 THEN -Held(a) ELSE 0
                        IN  /\ MapThenSumSet(Held, Account) = TotalMinted(dag[n])
                            /\ \/ MapThenSumSet(Shown, Account)
                                     = TotalMinted(dag[n]) + MapThenSumSet(Overdrawn, Account)
                               \/ \E a \in Account : Held(a) > BalanceMax
    BY DEF BooksBalance
  <2>2. dag[n] \in Dag /\ IsFiniteSet(dag[n].win) /\ Sound(dag[n].cp)
    BY <2>1 DEF IInv, BooksInv, TypeOK
  <2> DEFINE d == dag[n]
             Held(a)      == RawBalance(d, a)
             Shown(a)     == Balance(d, a)
             Overdrawn(a) == IF Held(a) < 0 THEN -Held(a) ELSE 0
             raw  == [a \in Account |-> RawBalance(d, a)]
             show == [a \in Account |-> Balance(d, a)]
             over == [a \in Account |-> IF RawBalance(d, a) < 0 THEN -RawBalance(d, a) ELSE 0]
  <2>3. Sum(raw, Account) = TotalMinted(d)
    BY <2>2, Balanced, FiniteAccounts
  <2>4. ASSUME ~\E a \in Account : RawBalance(d, a) > BalanceMax
        PROVE  Sum(show, Account) = TotalMinted(d) + Sum(over, Account)
    <3>1. ASSUME NEW a \in Account
          PROVE  /\ raw[a] \in Int /\ over[a] \in Int
                 /\ show[a] = raw[a] + over[a]
      <4>1. RawBalance(d, a) \in Int
        BY <2>2, RawBalanceType
      <4> DEFINE x == RawBalance(d, a)
      <4>2. show[a] = Clamp(x) /\ raw[a] = x /\ over[a] = IF x < 0 THEN -x ELSE 0
        BY DEF Balance
      <4>3. x \in Int /\ x <= BalanceMax
        BY <2>4, <4>1, LedgerAssumption
      <4> HIDE DEF x, show, raw, over
      <4> QED BY <4>2, <4>3, ShownIs
    <3> HIDE DEF raw, show, over
    <3>2. Sum(show, Account) = Sum(raw, Account) + Sum(over, Account)
      BY <3>1, SumPlus, FiniteAccounts
    <3> QED BY <2>3, <3>2
  <2>5. MapThenSumSet(Held, Account) = Sum(raw, Account)
    <3> DEFINE Fold(F) == F = [s \in SUBSET Account |->
                                 IF s = {} THEN 0
                                 ELSE LET x == CHOOSE y \in s : TRUE
                                      IN  RawBalance(d, x) + F[s \ {x}]]
    <3>1. ASSUME NEW F PROVE Fold(F) <=> Weighs(raw, Account, F)
      BY DEF Weighs
    <3>2. (CHOOSE F : Fold(F)) = (CHOOSE F : Weighs(raw, Account, F))
      <4> HIDE DEF Fold, raw
      <4> QED BY <3>1
    <3> QED BY <3>2 DEF Sum, MapThenSumSet, MapThenFoldSet
  <2>6. MapThenSumSet(Shown, Account) = Sum(show, Account)
    <3> DEFINE Fold(F) == F = [s \in SUBSET Account |->
                                 IF s = {} THEN 0
                                 ELSE LET x == CHOOSE y \in s : TRUE
                                      IN  Balance(d, x) + F[s \ {x}]]
    <3>1. ASSUME NEW F PROVE Fold(F) <=> Weighs(show, Account, F)
      BY DEF Weighs
    <3>2. (CHOOSE F : Fold(F)) = (CHOOSE F : Weighs(show, Account, F))
      <4> HIDE DEF Fold, show
      <4> QED BY <3>1
    <3> QED BY <3>2 DEF Sum, MapThenSumSet, MapThenFoldSet
  <2>7. MapThenSumSet(Overdrawn, Account) = Sum(over, Account)
    <3> DEFINE Fold(F) == F = [s \in SUBSET Account |->
                                 IF s = {} THEN 0
                                 ELSE LET x == CHOOSE y \in s : TRUE
                                      IN  (IF RawBalance(d, x) < 0 THEN -RawBalance(d, x)
                                           ELSE 0) + F[s \ {x}]]
    <3>1. ASSUME NEW F PROVE Fold(F) <=> Weighs(over, Account, F)
      BY DEF Weighs
    <3>2. (CHOOSE F : Fold(F)) = (CHOOSE F : Weighs(over, Account, F))
      <4> HIDE DEF Fold, over
      <4> QED BY <3>1
    <3> QED BY <3>2 DEF Sum, MapThenSumSet, MapThenFoldSet
  <2> HIDE DEF raw, show, over
  <2> QED BY <2>3, <2>4, <2>5, <2>6, <2>7
<1> QED BY <1>1, BooksInvariance, PTL

-----------------------------------------------------------------------------
(* The checkpoints of a currency whose founder's flash writes what it is      *)
(* told: one per generation, and no transaction counted by two of them, over  *)
(* losses, repetitions and power cuts.                                        *)

(* The invariant. *)

(* The checkpoints there are: broadcast, or the founder's own. *)
Known == cuts \cup {dag[Founder].cp, flash[Founder].cp}

(* The founder broadcasts what it has saved; only while it saves one is it  *)
(* ahead of its flash.                                                      *)
FounderLeads ==
    /\ job[Founder].step = "saveCheckpoint" => flash[Founder].cp.gen < dag[Founder].cp.gen
    /\ job[Founder].step # "saveCheckpoint" => dag[Founder].cp = flash[Founder].cp
    /\ job[Founder].emit => dag[Founder].cp.gen # 0
    /\ flash[Founder].cp.gen = 0 => flash[Founder].cp = NoCheckpoint
    /\ \A c \in cuts : /\ c.gen # 0 /\ c.gen <= flash[Founder].cp.gen
                       /\ c.gen = flash[Founder].cp.gen => c = flash[Founder].cp

(* The others sit on what was broadcast, and broadcast nothing new. *)
Follows(n) ==
    /\ dag[n].cp \in cuts \cup {NoCheckpoint}
    /\ flash[n].cp \in cuts \cup {NoCheckpoint}
    /\ ~job[n].emit

OthersFollow == \A n \in Account \ {Founder} : Follows(n)

(* What a checkpoint refounds is below its floors and those of later ones. *)
Covers(c, d) == \A t \in c.horizon : BelowFloor(d, t)

FloorsGrow == \A c, d \in Known : c.gen <= d.gen => Covers(c, d)

HorizonsApart == \A c, d \in Known : c # d => c.horizon \cap d.horizon = {}

(* The window the founder cuts is of one registry. *)
OwnRegistry ==
    /\ Anchored(Founder) => \A t \in dag[Founder].win : t.cur = Currency
    /\ job[Founder].step = "commit" => Anchored(Founder) /\ job[Founder].tx.cur = Currency

CutInv ==
    /\ FounderLeads
    /\ OthersFollow
    /\ OneCheckpointPerGeneration
    /\ FloorsGrow
    /\ HorizonsApart
    /\ OwnRegistry

-----------------------------------------------------------------------------
(* A cut is above what it cuts, and above the floors it inherits. *)

LEMMA NewFloorBounds ==
    ASSUME NEW d \in Dag, NEW a \in Account,
           NEW B \in Nat, \A t \in d.win : t.from = a => t.seq <= B
    PROVE  /\ NewFloor(d, a) \in Nat
           /\ Listed(d.cp, a) => d.cp.dir[a].floor <= NewFloor(d, a)
           /\ \A t \in Registry(d) : t.from = a => t.seq <= NewFloor(d, a)
<1> DEFINE base == IF Listed(d.cp, a) THEN d.cp.dir[a].floor ELSE 0
           Seqs == {t.seq : t \in {u \in Registry(d) : u.from = a}}
           S == {base} \cup Seqs
<1>1. base \in Nat
  BY DEF Dag, Horizon, Entry
<1>2. Seqs \in SUBSET Nat
  BY DEF Dag, Registry, Tx
<1>3. \A x \in Seqs : x <= B
  BY DEF Registry
<1>4. Listed(d.cp, a) => base = d.cp.dir[a].floor
  OBVIOUS
<1>5. \A t \in Registry(d) : t.from = a => t.seq \in Seqs
  OBVIOUS
<1>6. NewFloor(d, a) = SetMax(S)
  BY DEF NewFloor
<1> HIDE DEF base, Seqs
<1>7. PICK C \in Nat : C >= base /\ C >= B
  <2>1. CASE base >= B
    BY <1>1, <2>1
  <2>2. CASE ~(base >= B)
    BY <1>1, <2>2
  <2> QED
    BY <2>1, <2>2
<1>8. S \in SUBSET Nat /\ S # {} /\ \A x \in S : x <= C
  BY <1>1, <1>2, <1>3, <1>7
<1>9. base \in S /\ Seqs \subseteq S
  OBVIOUS
<1> HIDE DEF S
<1>10. SetMax(S) \in S /\ \A y \in S : y <= SetMax(S)
  BY <1>8, SetMaxOfBounded
<1> QED
  BY <1>4, <1>5, <1>6, <1>8, <1>9, <1>10

LEMMA CutCovers ==
    ASSUME NEW d \in Dag, \A t \in d.win : t.cur = Currency,
           \A a \in Account :
               \E B \in Nat : \A t \in d.win : t.from = a => t.seq <= B
    PROVE  /\ \A t \in Tx : BelowFloor(d.cp, t) => BelowFloor(Checkpoint(d), t)
           /\ \A t \in d.win : BelowFloor(Checkpoint(d), t)
<1> DEFINE c == Checkpoint(d)
<1>1. /\ c.gen = d.cp.gen + 1 /\ c.accounts = CheckpointAccounts(d)
      /\ \A a \in Account : a \in c.accounts => c.dir[a].floor = NewFloor(d, a)
  BY DEF Checkpoint, EntryOf
<1>2. c.gen # 0 /\ d.win \subseteq Tx
  BY <1>1 DEF Dag, Horizon
<1>3. \A a \in Account : Listed(d.cp, a) => a \in c.accounts
  BY <1>1 DEF Listed, CheckpointAccounts
<1>4. \A t \in d.win : t \in Registry(d) /\ t.from \in c.accounts
  BY <1>1 DEF Registry, CheckpointAccounts
<1> HIDE DEF c
<1>5. ASSUME NEW t \in Tx, BelowFloor(d.cp, t) PROVE BelowFloor(c, t)
  <2>1. t.from \in Account /\ t.seq \in Nat /\ Listed(d.cp, t.from)
    BY <1>5 DEF Tx, BelowFloor
  <2>2. d.cp.dir[t.from].floor \in Nat
    BY <2>1 DEF Dag, Horizon, Entry
  <2>3. NewFloor(d, t.from) \in Nat /\ d.cp.dir[t.from].floor <= NewFloor(d, t.from)
    BY <2>1, NewFloorBounds
  <2> QED
    BY <1>1, <1>2, <1>3, <1>5, <2>1, <2>2, <2>3 DEF BelowFloor, Listed
<1>6. ASSUME NEW t \in d.win PROVE BelowFloor(c, t)
  <2>1. t.from \in Account /\ t.seq \in Nat
    BY <1>2 DEF Tx
  <2>2. t.seq <= NewFloor(d, t.from)
    BY <1>4, <2>1, NewFloorBounds
  <2> QED
    BY <1>1, <1>2, <1>4, <2>1, <2>2 DEF BelowFloor, Listed
<1> QED
  BY <1>5, <1>6 DEF c

-----------------------------------------------------------------------------
(* What is the same for several operations. *)

(* A step that touches no checkpoint, and starts no broadcast. *)
Quiet(n) ==
    /\ OthersAlone(n) /\ cuts' = cuts
    /\ dag'[n].cp = dag[n].cp /\ flash'[n].cp = flash[n].cp
    /\ job'[n].emit => job[n].emit
    /\ job'[n].step = "saveCheckpoint" <=> job[n].step = "saveCheckpoint"

LEMMA QuietKeeps ==
    ASSUME CutInv, NEW n \in Account, Quiet(n), OwnRegistry'
    PROVE  CutInv'
<1>1. \A m \in Account : /\ dag'[m].cp = dag[m].cp /\ flash'[m].cp = flash[m].cp
                         /\ job'[m].emit => job[m].emit
                         /\ job'[m].step = "saveCheckpoint" <=> job[m].step = "saveCheckpoint"
  BY DEF Quiet, OthersAlone
<1>2. cuts' = cuts /\ Founder \in Account
  BY LedgerAssumption DEF Quiet
<1>3. Known' = Known
  BY <1>1, <1>2 DEF Known
<1>4. FounderLeads'
  BY <1>1, <1>2 DEF CutInv, FounderLeads
<1>5. OthersFollow'
  BY <1>1, <1>2 DEF CutInv, OthersFollow, Follows
<1>6. OneCheckpointPerGeneration'
  BY <1>2 DEF CutInv, OneCheckpointPerGeneration
<1>7. FloorsGrow' /\ HorizonsApart'
  BY <1>3 DEF CutInv, FloorsGrow, HorizonsApart
<1> QED
  BY <1>4, <1>5, <1>6, <1>7 DEF CutInv

(* The window and the transaction at hand of the founder are left alone. *)
LEMMA RegistryAlone ==
    ASSUME CutInv, dag'[Founder].win \subseteq dag[Founder].win,
           flash'[Founder].anchored = flash[Founder].anchored,
           job'[Founder].step = "commit" =>
               job[Founder].step = "commit" /\ job'[Founder].tx = job[Founder].tx
    PROVE  OwnRegistry'
BY DEF CutInv, OwnRegistry, Anchored

LEMMA KnownFewer ==
    ASSUME CutInv, Known' \subseteq Known
    PROVE  FloorsGrow' /\ HorizonsApart'
BY DEF CutInv, FloorsGrow, HorizonsApart

(* Every checkpoint the founder knows of is as old as its own, or older. *)
LEMMA KnownBelow ==
    ASSUME TypeOK, CutInv, job[Founder].step # "saveCheckpoint"
    PROVE  \A c \in Known : /\ c \in Horizon /\ c.gen <= dag[Founder].cp.gen
                            /\ Covers(c, dag[Founder].cp)
<1>1. dag[Founder].cp \in Horizon /\ flash[Founder].cp = dag[Founder].cp /\ cuts \subseteq Horizon
  BY LedgerAssumption DEF TypeOK, CutInv, FounderLeads, Dag
<1>2. \A c \in Known : c \in Horizon /\ c.gen <= dag[Founder].cp.gen
  <2>1. dag[Founder].cp.gen \in Nat
    BY <1>1 DEF Horizon
  <2> QED
    BY <1>1, <2>1 DEF Known, CutInv, FounderLeads
<1> QED
  BY <1>2 DEF Known, CutInv, FloorsGrow

-----------------------------------------------------------------------------
(* The operations that touch no checkpoint. *)

LEMMA JoinQuiet ==
    ASSUME TypeOK, CutInv, NEW n \in Account, Join(n)
    PROVE  CutInv'
<1> DEFINE clean == PurgeForeign(dag[n])
<1>1. /\ dag' = [dag EXCEPT ![n] = WithClaim(n, clean)]
      /\ job' = [job EXCEPT ![n] = JobAfterClaim(n, clean)]
      /\ flash' = [flash EXCEPT ![n].anchored = TRUE]
      /\ cuts' = cuts /\ job[n] = Idle
  BY DEF Join, Free
<1>2. /\ clean \in Dag /\ clean.cp = dag[n].cp
      /\ \A t \in clean.win : t.cur = Currency
  BY DEF TypeOK, PurgeForeign, Dag
<1>3. /\ WithClaim(n, clean).cp = clean.cp
      /\ WithClaim(n, clean).win \subseteq clean.win \cup {Claim(n)}
      /\ JobAfterClaim(n, clean).step \notin {"commit", "saveCheckpoint"}
      /\ ~JobAfterClaim(n, clean).emit
  BY <1>2, WithClaimType DEF JobAfterClaim, Idle
<1> HIDE DEF clean
<1>4. /\ dag'[n].cp = dag[n].cp
      /\ \A t \in dag'[n].win : t.cur = Currency
      /\ job'[n] = JobAfterClaim(n, clean)
      /\ flash'[n].cp = flash[n].cp
  BY <1>1, <1>2, <1>3 DEF TypeOK, Claim
<1>5. OthersAlone(n)
  <2>1. nextSeq' = nextSeq
    BY DEF Join
  <2> QED
    BY <1>1, <2>1 DEF TypeOK, OthersAlone
<1>6. Quiet(n)
  BY <1>1, <1>3, <1>4, <1>5 DEF Quiet, Idle
<1>7. OwnRegistry'
  BY <1>3, <1>4, <1>5, LedgerAssumption DEF CutInv, OwnRegistry, OthersAlone, Anchored
<1> QED
  BY <1>6, <1>7, QuietKeeps

LEMMA BeginQuiet ==
    ASSUME TypeOK, CutInv, NEW n \in Account, NEW new, Begin(n, new), new.cur = Currency
    PROVE  CutInv'
<1> DEFINE j == [step |-> "commit", tx |-> new, emit |-> FALSE]
<1>1. /\ dag' = dag /\ cuts' = cuts /\ Anchored(n) /\ job[n] = Idle
      /\ flash' = [flash EXCEPT ![n].seq = nextSeq[n] + 1]
      /\ \/ nextSeq' = [nextSeq EXCEPT ![n] = @ + 1] /\ job' = [job EXCEPT ![n] = j]
         \/ nextSeq' = nextSeq /\ job' = job
  BY DEF Begin, Free
<1>2. /\ \/ job'[n].step = "commit" /\ job'[n].tx = new /\ ~job'[n].emit
         \/ job'[n] = Idle
      /\ flash'[n].cp = flash[n].cp /\ flash'[n].anchored = flash[n].anchored
  BY <1>1 DEF TypeOK
<1>3. OthersAlone(n)
  BY <1>1 DEF TypeOK, OthersAlone
<1>4. Quiet(n)
  BY <1>1, <1>2, <1>3 DEF Quiet, Idle
<1>5. OwnRegistry'
  BY <1>1, <1>2, <1>3, LedgerAssumption DEF CutInv, OwnRegistry, OthersAlone, Anchored
<1> QED
  BY <1>4, <1>5, QuietKeeps

LEMMA CommitQuiet ==
    ASSUME TypeOK, CutInv, NEW n \in Account, Commit(n)
    PROVE  CutInv'
<1> DEFINE t == job[n].tx
           j == IF MergeVerdict(dag[n].win, t) = "OK"
                THEN [job[n] EXCEPT !.step = "flush"] ELSE Idle
           w == Merge(dag[n].win, t)
<1>1. /\ dag' = [dag EXCEPT ![n].win = w]
      /\ job' = [job EXCEPT ![n] = j]
      /\ nextSeq' = nextSeq /\ flash' = flash /\ cuts' = cuts
      /\ job[n].step = "commit"
  BY DEF Commit
<1>2. w \subseteq dag[n].win \cup {t}
  BY DEF Merge
<1>3. j.step \notin {"commit", "saveCheckpoint"} /\ (j.emit => job[n].emit)
  BY DEF TypeOK, Job, Idle
<1> HIDE DEF j, w
<1>4. dag'[n].win = w /\ dag'[n].cp = dag[n].cp /\ job'[n] = j
  BY <1>1 DEF TypeOK, Dag
<1>5. OthersAlone(n)
  BY <1>1 DEF TypeOK, OthersAlone
<1>6. Quiet(n)
  BY <1>1, <1>3, <1>4, <1>5 DEF Quiet
<1>7. OwnRegistry'
  BY <1>1, <1>2, <1>3, <1>4, <1>5, LedgerAssumption
     DEF CutInv, OwnRegistry, OthersAlone, Anchored
<1> QED
  BY <1>6, <1>7, QuietKeeps

LEMMA ReceiveQuiet ==
    ASSUME TypeOK, CutInv, NEW n \in Account, NEW t \in wire, Receive(n, t)
    PROVE  CutInv'
<1>1. /\ dag' = [dag EXCEPT ![n].win = Merge(@, t)]
      /\ nextSeq' = nextSeq /\ job' = job /\ flash' = flash /\ cuts' = cuts
      /\ Anchored(n) => t.cur = Currency
  BY DEF Receive, IngestCheck
<1>2. /\ dag'[n].win \subseteq dag[n].win \cup {t} /\ dag'[n].cp = dag[n].cp
  BY <1>1 DEF TypeOK, Dag, Merge
<1>3. OthersAlone(n)
  BY <1>1 DEF TypeOK, OthersAlone
<1>4. Quiet(n)
  BY <1>1, <1>2, <1>3 DEF Quiet
<1>5. OwnRegistry'
  BY <1>1, <1>2, <1>3, LedgerAssumption DEF CutInv, OwnRegistry, OthersAlone, Anchored
<1> QED
  BY <1>4, <1>5, QuietKeeps

(* The window is saved, or not, and the handler has at most to send. *)
LEMMA SavedQuiet ==
    ASSUME TypeOK, CutInv, NEW n \in Account,
           job[n].step \notin {"commit", "saveCheckpoint"},
           dag' = dag, nextSeq' = nextSeq, cuts' = cuts,
           job' = [job EXCEPT ![n] = AfterSave(n)],
           \/ flash' = [flash EXCEPT ![n].win = dag[n].win]
           \/ flash' = flash
    PROVE  CutInv'
<1>1. /\ job'[n].step \notin {"commit", "saveCheckpoint"} /\ (job'[n].emit => job[n].emit)
      /\ flash'[n].cp = flash[n].cp /\ flash'[n].anchored = flash[n].anchored
  BY DEF TypeOK, Job, AfterSave, Idle
<1>2. OthersAlone(n)
  BY DEF TypeOK, OthersAlone
<1>3. Quiet(n)
  BY <1>1, <1>2 DEF Quiet
<1>4. OwnRegistry'
  BY <1>1, <1>2, LedgerAssumption, RegistryAlone DEF OthersAlone
<1> QED
  BY <1>3, <1>4, QuietKeeps

LEMMA FlushWindowQuiet ==
    ASSUME TypeOK, CutInv, NEW n \in Account, FlushWindow(n)
    PROVE  CutInv'
<1>1. /\ job[n].step \notin {"commit", "saveCheckpoint"}
      /\ dag' = dag /\ nextSeq' = nextSeq /\ cuts' = cuts
      /\ job' = [job EXCEPT ![n] = AfterSave(n)]
      /\ flash' = [flash EXCEPT ![n].win = dag[n].win] \/ flash' = flash
  BY DEF FlushWindow
<1> QED
  BY <1>1, SavedQuiet

LEMMA SaveWindowQuiet ==
    ASSUME TypeOK, CutInv, NEW n \in Account, SaveWindow(n)
    PROVE  CutInv'
<1>1. /\ job[n].step \notin {"commit", "saveCheckpoint"}
      /\ dag' = dag /\ nextSeq' = nextSeq /\ cuts' = cuts
      /\ job' = [job EXCEPT ![n] = AfterSave(n)]
      /\ flash' = [flash EXCEPT ![n].win = dag[n].win] \/ flash' = flash
  BY DEF SaveWindow
<1> QED
  BY <1>1, SavedQuiet

-----------------------------------------------------------------------------
(* The operations that adopt, save or broadcast a checkpoint. *)

(* What adoption does to the wallet that adopts. *)
LEMMA AdoptingStep ==
    ASSUME TypeOK, NEW n \in Account, NEW cp \in Horizon, NEW e \in BOOLEAN,
           cp.gen > dag[n].cp.gen, AdoptAndRaise(n, cp, e)
    PROVE  /\ OthersAlone(n) /\ cuts' = cuts
           /\ dag'[n].cp = cp /\ dag'[n].win \subseteq dag[n].win
           /\ flash'[n].cp = flash[n].cp /\ flash'[n].anchored = flash[n].anchored
           /\ job'[n].step = "saveCheckpoint" /\ job'[n].emit = e
<1> DEFINE raised == AboveFloor(n, cp, nextSeq[n])
           d == Adopt(dag[n], cp)
<1>1. /\ dag' = [dag EXCEPT ![n] = d]
      /\ nextSeq' = [nextSeq EXCEPT ![n] = raised]
      /\ \/ flash' = [flash EXCEPT ![n].seq =
                          IF raised # nextSeq[n] THEN raised ELSE @]
         \/ flash' = flash
      /\ job' = [job EXCEPT ![n].step = "saveCheckpoint", ![n].emit = e]
      /\ cuts' = cuts
  BY DEF AdoptAndRaise
<1>2. d.cp = cp /\ d.win \subseteq dag[n].win
  BY DEF Adopt
<1> HIDE DEF raised, d
<1>3. OthersAlone(n)
  BY <1>1 DEF TypeOK, OthersAlone
<1>4. dag'[n] = d /\ job'[n].step = "saveCheckpoint" /\ job'[n].emit = e
  BY <1>1 DEF TypeOK, Job
<1>5. flash'[n].cp = flash[n].cp /\ flash'[n].anchored = flash[n].anchored
  BY <1>1 DEF TypeOK
<1> QED
  BY <1>1, <1>2, <1>3, <1>4, <1>5

LEMMA EmitCuts ==
    ASSUME IInv, CutInv, NEW n \in Account, Emit(n)
    PROVE  CutInv'
<1> DEFINE cp == Checkpoint(dag[n])
           d == dag[n]
<1>1. /\ n = Founder /\ Anchored(n) /\ AdoptAndRaise(n, cp, TRUE)
      /\ job[n].step # "saveCheckpoint"
  BY DEF Emit, EmissionDue, IsMintAuthority
<1>2. TypeOK /\ NumbersSpent /\ d \in Dag /\ Clean(d)
  BY DEF IInv, TypeOK, HorizonClean
<1>3. \A t \in d.win : t.cur = Currency
  BY <1>1 DEF CutInv, OwnRegistry
<1>4. ASSUME NEW a \in Account
      PROVE  \E B \in Nat : \A t \in d.win : t.from = a => t.seq <= B
  <2>1. nextSeq[a] \in Nat
    BY <1>2 DEF TypeOK
  <2>2. ASSUME NEW t \in d.win, t.from = a PROVE t.seq <= nextSeq[a]
    <3>1. Spent(t) /\ t \in Tx
      BY <1>2, PartsExist, ExistingType DEF NumbersSpent
    <3>2. t.seq \in Nat
      BY <3>1 DEF Tx
    <3>3. t = BootCredit(t.from) \/ t = Claim(t.from) => t.seq = 0
      BY DEF BootCredit, Claim, Mint
    <3> QED
      BY <2>1, <2>2, <3>1, <3>2, <3>3 DEF Spent
  <2> QED
    BY <2>1, <2>2
<1>5. /\ cp \in Horizon /\ cp.gen = d.cp.gen + 1 /\ cp.horizon = d.win
  BY <1>2, <1>4, CheckpointType
<1>6. /\ \A t \in Tx : BelowFloor(d.cp, t) => BelowFloor(cp, t)
      /\ \A t \in d.win : BelowFloor(cp, t)
  BY <1>2, <1>3, <1>4, CutCovers
<1>7. d.cp.gen \in Nat /\ cp.gen > d.cp.gen
  BY <1>2, <1>5 DEF Dag, Horizon
<1> HIDE DEF cp
<1>8. /\ OthersAlone(n) /\ cuts' = cuts
      /\ dag'[n].cp = cp /\ dag'[n].win \subseteq d.win
      /\ flash'[n].cp = flash[n].cp /\ flash'[n].anchored = flash[n].anchored
      /\ job'[n].step = "saveCheckpoint" /\ job'[n].emit = TRUE
  BY <1>1, <1>2, <1>5, <1>7, AdoptingStep
<1>9. \A c \in Known : c \in Horizon /\ c.gen <= d.cp.gen /\ Covers(c, d.cp)
  BY <1>1, <1>2, KnownBelow
<1>10. Known' \subseteq Known \cup {cp}
  BY <1>1, <1>8 DEF Known
<1>11. FounderLeads'
  BY <1>1, <1>5, <1>7, <1>8 DEF CutInv, FounderLeads
<1>12. OthersFollow'
  BY <1>1, <1>8 DEF CutInv, OthersFollow, Follows, OthersAlone
<1>13. OneCheckpointPerGeneration'
  BY <1>8 DEF CutInv, OneCheckpointPerGeneration
<1>14. \A c \in Known : /\ Covers(c, cp) /\ ~(cp.gen <= c.gen)
                        /\ c.horizon \cap cp.horizon = {}
  <2>1. SUFFICES ASSUME NEW c \in Known
                 PROVE  /\ Covers(c, cp) /\ ~(cp.gen <= c.gen)
                        /\ c.horizon \cap cp.horizon = {}
    OBVIOUS
  <2>2. c.horizon \subseteq Tx /\ c.gen \in Nat
    BY <1>9 DEF Horizon
  <2>3. Covers(c, cp)
    BY <1>6, <1>9, <2>2 DEF Covers
  <2>4. c.horizon \cap cp.horizon = {}
    BY <1>2, <1>5, <1>9 DEF Covers, Clean
  <2> QED
    BY <1>5, <1>7, <1>9, <2>2, <2>3, <2>4
<1>15. Covers(cp, cp)
  BY <1>5, <1>6 DEF Covers
<1>16. FloorsGrow'
  BY <1>10, <1>14, <1>15 DEF CutInv, FloorsGrow
<1>17. HorizonsApart'
  BY <1>10, <1>14 DEF CutInv, HorizonsApart
<1>18. OwnRegistry'
  BY <1>1, <1>8, RegistryAlone
<1> QED
  BY <1>11, <1>12, <1>13, <1>16, <1>17, <1>18 DEF CutInv

LEMMA ReceiveCheckpointCuts ==
    ASSUME TypeOK, CutInv, NEW n \in Account, NEW cp \in cuts, ReceiveCheckpoint(n, cp)
    PROVE  CutInv'
<1>1. /\ cp \in Horizon /\ cp.gen > dag[n].cp.gen /\ AdoptAndRaise(n, cp, FALSE)
      /\ job[n].step = "idle"
  <2>1. cp \in Horizon
    BY DEF TypeOK
  <2>2. job[n].step = "idle"
    BY DEF ReceiveCheckpoint, Free, Idle
  <2> QED
    BY <2>1, <2>2 DEF ReceiveCheckpoint
<1>2. n # Founder
  <2>1. SUFFICES ASSUME n = Founder PROVE FALSE
    OBVIOUS
  <2>2. cp.gen <= dag[n].cp.gen
    BY <1>1, <2>1 DEF CutInv, FounderLeads
  <2>3. cp.gen \in Nat /\ dag[n].cp.gen \in Nat
    BY <1>1 DEF TypeOK, Dag, Horizon
  <2> QED
    BY <1>1, <2>2, <2>3
<1>3. /\ OthersAlone(n) /\ cuts' = cuts
      /\ dag'[n].cp = cp /\ dag'[n].win \subseteq dag[n].win
      /\ flash'[n].cp = flash[n].cp /\ job'[n].emit = FALSE
  BY <1>1, AdoptingStep
<1>4. /\ dag'[Founder] = dag[Founder] /\ job'[Founder] = job[Founder]
      /\ flash'[Founder] = flash[Founder]
  BY <1>2, <1>3, LedgerAssumption DEF OthersAlone
<1>5. FounderLeads'
  BY <1>3, <1>4 DEF CutInv, FounderLeads
<1>6. OthersFollow'
  BY <1>3 DEF CutInv, OthersFollow, Follows, OthersAlone
<1>7. OneCheckpointPerGeneration'
  BY <1>3 DEF CutInv, OneCheckpointPerGeneration
<1>8. FloorsGrow' /\ HorizonsApart'
  BY <1>3, <1>4, KnownFewer DEF Known
<1>9. OwnRegistry'
  BY <1>4, RegistryAlone
<1> QED
  BY <1>5, <1>6, <1>7, <1>8, <1>9 DEF CutInv

(* The only step that needs a flash that writes what it is told. *)
LEMMA SaveCheckpointCuts ==
    ASSUME TypeOK, CutInv, ~FlashFails, NEW n \in Account, SaveCheckpoint(n)
    PROVE  CutInv'
<1>1. /\ flash' = [flash EXCEPT ![n].cp = dag[n].cp]
      /\ job' = [job EXCEPT ![n].step = "saveWindow"]
      /\ job[n].step = "saveCheckpoint"
      /\ dag' = dag /\ nextSeq' = nextSeq /\ cuts' = cuts
  BY DEF SaveCheckpoint
<1>2. /\ flash'[n].cp = dag[n].cp /\ flash'[n].anchored = flash[n].anchored
      /\ job'[n].step = "saveWindow" /\ job'[n].emit = job[n].emit
  BY <1>1 DEF TypeOK, Job
<1>3. OthersAlone(n)
  BY <1>1 DEF TypeOK, OthersAlone
<1>4. /\ dag[Founder].cp.gen \in Nat /\ flash[Founder].cp.gen \in Nat
      /\ \A c \in cuts : c.gen \in Nat
  BY LedgerAssumption DEF TypeOK, Dag, Horizon
<1>5. FounderLeads'
  <2>1. CASE n = Founder
    BY <1>1, <1>2, <1>4, <2>1 DEF CutInv, FounderLeads
  <2>2. CASE n # Founder
    BY <1>1, <1>3, <2>2, LedgerAssumption DEF CutInv, FounderLeads, OthersAlone
  <2> QED
    BY <2>1, <2>2
<1>6. OthersFollow'
  BY <1>1, <1>2, <1>3 DEF CutInv, OthersFollow, Follows, OthersAlone
<1>7. OneCheckpointPerGeneration'
  BY <1>1 DEF CutInv, OneCheckpointPerGeneration
<1>8. FloorsGrow' /\ HorizonsApart'
  <2>1. flash'[Founder].cp \in {flash[Founder].cp, dag[Founder].cp}
    BY <1>2, <1>3, LedgerAssumption DEF OthersAlone
  <2> QED
    BY <1>1, <2>1, KnownFewer DEF Known
<1>9. OwnRegistry'
  BY <1>1, <1>2, <1>3, LedgerAssumption, RegistryAlone DEF OthersAlone
<1> QED
  BY <1>5, <1>6, <1>7, <1>8, <1>9 DEF CutInv

(* What goes out is in the founder's flash, or was out already. *)
LEMMA BroadcastCuts ==
    ASSUME TypeOK, CutInv, NEW n \in Account,
           job[n].step \notin {"commit", "saveCheckpoint"},
           \/ cuts' = cuts
           \/ cuts' = cuts \cup {dag[n].cp} /\ dag[n].cp.gen # 0,
           job' = job \/ job' = [job EXCEPT ![n] = Idle],
           dag' = dag, flash' = flash
    PROVE  CutInv'
<1>1. \A m \in Account : /\ job'[m] = job[m] \/ (m = n /\ job'[m] = Idle)
  BY DEF TypeOK
<1>2. Idle.step = "idle" /\ ~Idle.emit
  BY DEF Idle
<1>3. cuts' \subseteq cuts \cup {flash[Founder].cp} /\ cuts \subseteq cuts'
  BY DEF CutInv, FounderLeads, OthersFollow, Follows, NoCheckpoint
<1>4. flash[Founder].cp \in cuts' => flash[Founder].cp.gen # 0
  BY DEF CutInv, FounderLeads
<1>5. flash[Founder].cp.gen \in Nat
  BY LedgerAssumption DEF TypeOK, Horizon
<1>6. FounderLeads'
  BY <1>1, <1>2, <1>3, <1>4, <1>5, LedgerAssumption DEF CutInv, FounderLeads
<1>7. OthersFollow'
  BY <1>1, <1>2, <1>3 DEF CutInv, OthersFollow, Follows
<1>8. OneCheckpointPerGeneration'
  BY <1>3 DEF CutInv, FounderLeads, OneCheckpointPerGeneration
<1>9. FloorsGrow' /\ HorizonsApart'
  BY <1>3, KnownFewer DEF Known
<1>10. OwnRegistry'
  BY <1>1, <1>2, LedgerAssumption, RegistryAlone
<1> QED
  BY <1>6, <1>7, <1>8, <1>9, <1>10 DEF CutInv

LEMMA SendCuts ==
    ASSUME TypeOK, CutInv, NEW n \in Account, Send(n)
    PROVE  CutInv'
<1>1. /\ job[n].step = "send" /\ job' = [job EXCEPT ![n] = Idle]
      /\ cuts' = IF job[n].emit THEN cuts \cup {dag[n].cp} ELSE cuts
      /\ dag' = dag /\ flash' = flash
  BY DEF Send
<1>2. job[n].emit => dag[n].cp.gen # 0
  BY DEF CutInv, FounderLeads, OthersFollow, Follows
<1> QED
  BY <1>1, <1>2, BroadcastCuts

LEMMA PushCheckpointCuts ==
    ASSUME TypeOK, CutInv, NEW n \in Account, PushCheckpoint(n)
    PROVE  CutInv'
<1>1. /\ job[n].step = "idle" /\ job' = job /\ dag[n].cp.gen # 0
      /\ cuts' = cuts \cup {dag[n].cp} /\ dag' = dag /\ flash' = flash
  BY DEF PushCheckpoint, Free, Idle
<1> QED
  BY <1>1, BroadcastCuts

LEMMA ServeBatchCuts ==
    ASSUME TypeOK, CutInv, NEW n \in Account, ServeBatch(n)
    PROVE  CutInv'
<1>1. /\ job[n].step = "idle" /\ job' = job /\ cuts' = cuts /\ dag' = dag /\ flash' = flash
  BY DEF ServeBatch, Free, Idle
<1> QED
  BY <1>1, BroadcastCuts

LEMMA RestartCuts ==
    ASSUME IInv, CutInv, NEW n \in Account, Restart(n)
    PROVE  CutInv'
<1> DEFINE claims == Anchored(n) /\ ClaimDue(n, Restored(n))
           d == IF claims THEN WithClaim(n, Restored(n)) ELSE Restored(n)
           j == IF claims THEN JobAfterClaim(n, Restored(n)) ELSE Idle
<1>1. TypeOK /\ Ahead(n)
  BY DEF IInv, FloorPassed
<1>2. /\ dag' = [dag EXCEPT ![n] = d]
      /\ nextSeq' = [nextSeq EXCEPT ![n] = RestoredSeq(n)]
      /\ job' = [job EXCEPT ![n] = j]
      /\ flash' = [flash EXCEPT ![n].win = Cleaned(n).win]
      /\ cuts' = cuts
  BY DEF Restart
<1>3. d.cp = Restored(n).cp /\ d.win \subseteq Restored(n).win \cup {Claim(n)}
  BY <1>1, RestoredType, WithClaimType
<1>4. j.step \notin {"commit", "saveCheckpoint"} /\ ~j.emit
  BY DEF JobAfterClaim, Idle
<1>5. Restored(n).cp = IF flash[n].cp.gen = 0 THEN NoCheckpoint ELSE flash[n].cp
  <2>1. Cleaned(n).cp = NoCheckpoint
    BY DEF Cleaned, Stored, PurgeForeign
  <2>2. flash[n].cp.gen \in Nat
    BY <1>1 DEF TypeOK, Horizon
  <2>3. ~Anchored(n) => flash[n].cp.gen = 0 /\ Restored(n).cp = NoCheckpoint
    BY <1>1, RestoredType DEF Ahead
  <2>4. Anchored(n) => Restored(n) = Adopt(Cleaned(n), flash[n].cp)
    BY DEF Restored
  <2> QED
    BY <2>1, <2>2, <2>3, <2>4 DEF Adopt, NoCheckpoint
<1>6. Anchored(n) => \A t \in Restored(n).win : t.cur = Currency
  <2>1. SUFFICES ASSUME Anchored(n) PROVE \A t \in Restored(n).win : t.cur = Currency
    OBVIOUS
  <2>2. \A t \in Cleaned(n).win : t.cur = Currency
    BY <2>1 DEF Cleaned, Stored, PurgeForeign
  <2>3. Restored(n).win \subseteq Cleaned(n).win
    BY <2>1 DEF Restored, Adopt
  <2> QED
    BY <2>2, <2>3
<1> HIDE DEF claims, d, j
<1>7. /\ dag'[n] = d /\ job'[n] = j /\ flash'[n].cp = flash[n].cp
      /\ flash'[n].anchored = flash[n].anchored
  BY <1>1, <1>2 DEF TypeOK
<1>8. OthersAlone(n)
  BY <1>1, <1>2 DEF TypeOK, OthersAlone
<1>9. /\ n = Founder => dag'[n].cp = flash[n].cp
      /\ n # Founder => dag'[n].cp \in {flash[n].cp, NoCheckpoint}
  BY <1>3, <1>5, <1>7 DEF CutInv, FounderLeads
<1>10. FounderLeads'
  <2>1. CASE n = Founder
    BY <1>2, <1>4, <1>7, <1>9, <2>1 DEF CutInv, FounderLeads
  <2>2. CASE n # Founder
    BY <1>2, <1>8, <2>2, LedgerAssumption DEF CutInv, FounderLeads, OthersAlone
  <2> QED
    BY <2>1, <2>2
<1>11. OthersFollow'
  BY <1>2, <1>4, <1>7, <1>8, <1>9 DEF CutInv, OthersFollow, Follows, OthersAlone
<1>12. OneCheckpointPerGeneration'
  BY <1>2 DEF CutInv, OneCheckpointPerGeneration
<1>13. FloorsGrow' /\ HorizonsApart'
  <2>1. /\ dag'[Founder].cp \in {dag[Founder].cp, flash[Founder].cp}
        /\ flash'[Founder].cp = flash[Founder].cp
    BY <1>7, <1>8, <1>9, LedgerAssumption DEF OthersAlone
  <2> QED
    BY <1>2, <2>1, KnownFewer DEF Known
<1>14. OwnRegistry'
  <2>1. Claim(n).cur = Currency
    BY DEF Claim
  <2> QED
    BY <1>3, <1>4, <1>6, <1>7, <1>8, <2>1, LedgerAssumption
       DEF CutInv, OwnRegistry, OthersAlone, Anchored
<1> QED
  BY <1>10, <1>11, <1>12, <1>13, <1>14 DEF CutInv

-----------------------------------------------------------------------------
LEMMA CutInit == Init => CutInv
<1>1. SUFFICES ASSUME Init PROVE CutInv
  OBVIOUS
<1>2. /\ \A n \in Account : /\ dag[n].cp = NoCheckpoint /\ flash[n].cp = NoCheckpoint
                            /\ job[n] = Idle /\ ~flash[n].anchored
      /\ cuts = {} /\ Founder \in Account
  BY <1>1, LedgerAssumption DEF Init
<1>3. NoCheckpoint.gen = 0 /\ NoCheckpoint.horizon = {} /\ Idle.step = "idle" /\ ~Idle.emit
  BY DEF NoCheckpoint, Idle
<1>4. Known = {NoCheckpoint}
  BY <1>2 DEF Known
<1>5. FounderLeads /\ OthersFollow /\ OneCheckpointPerGeneration /\ OwnRegistry
  BY <1>2, <1>3 DEF FounderLeads, OthersFollow, Follows, OneCheckpointPerGeneration,
                    OwnRegistry, Anchored
<1>6. FloorsGrow /\ HorizonsApart
  BY <1>3, <1>4 DEF FloorsGrow, HorizonsApart, Covers
<1> QED
  BY <1>5, <1>6 DEF CutInv

LEMMA CutNext ==
    ASSUME ~FlashFails, IInv, CutInv, [Next]_vars
    PROVE  CutInv'
<1>1. TypeOK
  BY DEF IInv
<1>2. CASE UNCHANGED vars
  <2>1. PICK n \in Account : n = Founder
    BY LedgerAssumption
  <2>2. OthersAlone(n) /\ Quiet(n) /\ OwnRegistry'
    BY <1>2 DEF vars, OthersAlone, Quiet, CutInv, OwnRegistry, Anchored
  <2> QED
    BY <2>2, QuietKeeps
<1>3. CASE Next
  <2>1. PICK n \in Account :
          \/ Join(n)
          \/ \E to \in Account, amount \in Amount, ref \in Ref :
                Pay(n, to, amount, ref) \/ CreditMember(n, to, amount, ref)
          \/ Commit(n)
          \/ Emit(n)
          \/ FlushWindow(n)
          \/ \E cp \in cuts : ReceiveCheckpoint(n, cp)
          \/ SaveCheckpoint(n)
          \/ SaveWindow(n)
          \/ Send(n)
          \/ \E t \in wire : Receive(n, t)
          \/ PushCheckpoint(n)
          \/ ServeBatch(n)
          \/ Restart(n)
    BY <1>3, Zenon DEF Next
  <2>2. CASE Join(n)
    BY <1>1, <2>2, JoinQuiet
  <2>3. ASSUME NEW to \in Account, NEW amount \in Amount, NEW ref \in Ref,
               Pay(n, to, amount, ref) \/ CreditMember(n, to, amount, ref)
        PROVE  CutInv'
    <3>1. PICK t : Begin(n, t) /\ t.cur = Currency
      BY <2>3 DEF Pay, CreditMember, Transfer, Mint
    <3> QED
      BY <1>1, <3>1, BeginQuiet
  <2>4. CASE Commit(n)
    BY <1>1, <2>4, CommitQuiet
  <2>5. CASE Emit(n)
    BY <2>5, EmitCuts
  <2>6. CASE FlushWindow(n)
    BY <1>1, <2>6, FlushWindowQuiet
  <2>7. ASSUME NEW cp \in cuts, ReceiveCheckpoint(n, cp) PROVE CutInv'
    BY <1>1, <2>7, ReceiveCheckpointCuts
  <2>8. CASE SaveCheckpoint(n)
    BY <1>1, <2>8, SaveCheckpointCuts
  <2>9. CASE SaveWindow(n)
    BY <1>1, <2>9, SaveWindowQuiet
  <2>10. CASE Send(n)
    BY <1>1, <2>10, SendCuts
  <2>11. ASSUME NEW t \in wire, Receive(n, t) PROVE CutInv'
    BY <1>1, <2>11, ReceiveQuiet
  <2>12. CASE PushCheckpoint(n)
    BY <1>1, <2>12, PushCheckpointCuts
  <2>13. CASE ServeBatch(n)
    BY <1>1, <2>13, ServeBatchCuts
  <2>14. CASE Restart(n)
    BY <2>14, RestartCuts
  <2> QED
    BY <2>1, <2>2, <2>3, <2>4, <2>5, <2>6, <2>7, <2>8, <2>9, <2>10, <2>11,
       <2>12, <2>13, <2>14
<1> QED
  BY <1>2, <1>3

LEMMA CutInvariance == ASSUME ~FlashFails PROVE Spec => [](IInv /\ CutInv)
<1>1. IInv /\ CutInv /\ [Next]_vars => CutInv'
  BY CutNext
<1> QED
  BY <1>1, CutInit, Invariance, PTL DEF Spec

(* As long as no write to flash fails, whatever power cuts, losses and        *)
(* repetitions there are, two checkpoints of one generation are one: the      *)
(* founder saves a cut before it broadcasts it, and boots on what it saved.   *)
THEOREM OneCheckpoint == ASSUME ~FlashFails PROVE Spec => []OneCheckpointPerGeneration
<1>1. CutInv => OneCheckpointPerGeneration
  BY DEF CutInv
<1> QED
  BY <1>1, CutInvariance, PTL

(* Under the same assumption no transaction is refounded by two checkpoints,  *)
(* nor is in the window of a wallet that sits on one that refounded it: it is *)
(* counted once, whoever hears it, when, and after which cut.                 *)
THEOREM NothingCountedTwice == ASSUME ~FlashFails PROVE Spec => []CountedOnce
<1>1. IInv /\ CutInv => CountedOnce
  <2>1. SUFFICES ASSUME IInv, CutInv PROVE CountedOnce
    OBVIOUS
  <2>2. \A c, d \in cuts : c # d => c.horizon \cap d.horizon = {}
    BY <2>1 DEF CutInv, HorizonsApart, Known
  <2>3. ASSUME NEW c \in cuts, NEW n \in Account, c.gen <= dag[n].cp.gen
        PROVE  c.horizon \cap dag[n].win = {}
    <3>1. dag[n].cp \in Known
      <4>1. CASE n = Founder
        BY <4>1 DEF Known
      <4>2. CASE n # Founder
        <5>1. c.gen # 0 /\ c.gen \in Nat
          BY <2>1 DEF CutInv, FounderLeads, IInv, TypeOK, Horizon
        <5>2. dag[n].cp # NoCheckpoint
          BY <2>3, <5>1 DEF NoCheckpoint
        <5> QED
          BY <2>1, <4>2, <5>2 DEF Known, CutInv, OthersFollow, Follows
      <4> QED
        BY <4>1, <4>2
    <3>2. Covers(c, dag[n].cp)
      BY <2>1, <2>3, <3>1 DEF CutInv, FloorsGrow, Known
    <3> QED
      BY <2>1, <3>2 DEF Covers, IInv, HorizonClean, Clean
  <2> QED
    BY <2>2, <2>3 DEF CountedOnce
<1> QED
  BY <1>1, CutInvariance, PTL
=============================================================================
