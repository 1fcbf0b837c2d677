------------------------------- MODULE Ledger -------------------------------
(***************************************************************************)
(* The pure accounting rules shared by every wallet: what a transaction    *)
(* is, what a window (the "DAG") accepts, what the registry says about a   *)
(* membership, a balance and a supply, and how the founder re-founds the   *)
(* ledger in a checkpoint.  Everything here is a function of               *)
(*                                                                         *)
(*     dag = [win |-> set of transactions, cp |-> adopted checkpoint]      *)
(*                                                                         *)
(* and of one currency configuration anchored on a signed descriptor.      *)
(*                                                                         *)
(* Abstractions.  A transaction is a record and the record is its id (the  *)
(* code hashes the same fields); "ref" stands for the other hashed fields, *)
(* the parents and the timestamp, which no rule below reads.  A public key *)
(* is the account it binds to, and a signature is the key that made it.    *)
(* The window is a set: its array order is never part of a verdict.  The   *)
(* digest of a window is the window.                                       *)
(***************************************************************************)
EXTENDS Integers, FiniteSets, FiniteSetsExt

CONSTANTS
    Account,        \* wallet destinations (hashes) of the devices
    Founder,        \* the only mint authority of the currency
    Currency,       \* id of the currency anchored by the descriptor
    Fallback,       \* id of the hard-coded registry used before anchoring
    Ref,            \* parents and timestamp of a transaction
    GenesisRef,     \* no parent, timestamp 0
    NoKey,          \* an all-zero public key field
    InitialCredit,  \* amount of a CLAIM
    TransferFee,
    MaxSupply,      \* 0: no ceiling
    WindowMax,      \* MESHPAY_DAG_MAX_TRANSACTIONS
    Threshold,      \* MESHPAY_DAG_CHECKPOINT_THRESHOLD
    MaxAccounts,    \* MESHPAY_CHECKPOINT_MAX_ACCOUNTS
    BalanceMax      \* UINT32_MAX

ASSUME LedgerAssumption ==
    /\ Founder \in Account
    /\ Currency # Fallback
    /\ GenesisRef \in Ref
    /\ NoKey \notin Account
    /\ InitialCredit \in Nat
    /\ TransferFee \in Nat
    /\ MaxSupply \in Nat
    /\ WindowMax \in Nat \ {0}
    /\ Threshold \in 1..WindowMax
    /\ MaxAccounts \in Nat \ {0}
    /\ BalanceMax \in Nat

(* The devices of a network are finitely many: sums over them are defined. *)
ASSUME FiniteAccounts == IsFiniteSet(Account)

TxType == {"TRANSFER", "MINT", "CLAIM"}

Tx == [type : TxType, from : Account, to : Account,
       amount : Nat, fee : Nat, seq : Nat,
       cur : {Currency, Fallback},
       key : Account \cup {NoKey},      \* member_public, CLAIM only
       signer : Account, ref : Ref]

(***************************************************************************)
(* A checkpoint: what the founder signs.  "accounts" are those of its      *)
(* table and "dir" their entries; generation 0 is the genesis state, where *)
(* nothing was re-founded.  "horizon", the window that was cut, is not in  *)
(* the code: only properties read it.                                      *)
(***************************************************************************)
Entry == [balance : 0..BalanceMax, floor : Nat, key : Account \cup {NoKey}]

NoEntry == [balance |-> 0, floor |-> 0, key |-> NoKey]

Horizon == [gen : Nat, horizon : SUBSET Tx,
            accounts : SUBSET Account, dir : [Account -> Entry]]

NoCheckpoint == [gen |-> 0, horizon |-> {}, accounts |-> {},
                 dir |-> [a \in Account |-> NoEntry]]

Dag == [win : SUBSET Tx, cp : Horizon]

Listed(cp, a) == cp.gen # 0 /\ a \in cp.accounts

-----------------------------------------------------------------------------
(* The transactions a wallet writes. *)

NoTx == [type |-> "NONE"]

Transfer(n, to, amount, seq, ref) ==
    [type |-> "TRANSFER", from |-> n, to |-> to, amount |-> amount,
     fee |-> TransferFee, seq |-> seq, cur |-> Currency, key |-> NoKey,
     signer |-> n, ref |-> ref]

Mint(n, to, amount, seq, cur, ref) ==
    [type |-> "MINT", from |-> n, to |-> to, amount |-> amount,
     fee |-> 0, seq |-> seq, cur |-> cur, key |-> NoKey,
     signer |-> n, ref |-> ref]

(* A claim has no parent and timestamp 0, so that it is always the same one. *)
Claim(n) ==
    [type |-> "CLAIM", from |-> n, to |-> n, amount |-> InitialCredit,
     fee |-> 0, seq |-> 0, cur |-> Currency, key |-> n,
     signer |-> n, ref |-> GenesisRef]

-----------------------------------------------------------------------------
(* What a window accepts. *)

Reflexive(t) == t.from = t.to

ShapeValid(t) ==
    /\ t.amount # 0
    /\ t.type = "TRANSFER" => t.fee < t.amount
    /\ t.type = "MINT" => t.fee = 0
    /\ t.type = "CLAIM" => t.fee = 0 /\ Reflexive(t) /\ t.seq = 0

(* One (from, seq) per registry: the slot a double spend would take twice. *)
SameSlot(t, u) == t.seq = u.seq /\ t.cur = u.cur /\ t.from = u.from

MergeVerdict(win, t) ==
    CASE ~ShapeValid(t)                           -> "INVALID"
      [] ShapeValid(t) /\ Cardinality(win) >= WindowMax -> "FULL"
      [] OTHER -> IF t \in win THEN "DUPLICATE"
                  ELSE IF \E u \in win : SameSlot(u, t) THEN "CONFLICT"
                  ELSE "OK"

Merge(win, t) == IF MergeVerdict(win, t) = "OK" THEN win \cup {t} ELSE win

(* Faulty variant of BelowFloor: the boundary is missed. *)
BelowFloorStrict(cp, t) == Listed(cp, t.from) /\ t.seq < cp.dir[t.from].floor

BelowFloor(cp, t) == Listed(cp, t.from) /\ t.seq <= cp.dir[t.from].floor

Clean(dag) == \A t \in dag.win : ~BelowFloor(dag.cp, t)

(* Adoption replaces the checkpoint and cuts what it re-founded.            *)
Adopt(dag, cp) ==
    IF cp.gen > dag.cp.gen
    THEN [win |-> {t \in dag.win : ~BelowFloor(cp, t)}, cp |-> cp]
    ELSE dag

PurgeForeign(dag) == [dag EXCEPT !.win = {t \in @ : t.cur = Currency}]

-----------------------------------------------------------------------------
(* What the registry says. *)

Registry(dag) == {t \in dag.win : t.cur = Currency}

IsMintAuthority(a) == a = Founder

(* A CLAIM of another amount credits nothing and gives no membership. *)
ClaimValid(t) ==
    /\ t.type = "CLAIM"
    /\ t.cur = Currency
    /\ Reflexive(t)
    /\ t.amount = InitialCredit

TotalMinted(dag) ==
    LET Refounded(a) == dag.cp.dir[a].balance
        Minted(t) ==
            IF \/ t.type = "MINT" /\ IsMintAuthority(t.from)
               \/ ClaimValid(t)
            THEN t.amount ELSE 0
    IN  MapThenSumSet(Refounded, dag.cp.accounts)
          + MapThenSumSet(Minted, Registry(dag))

(* Faulty variant of Effect: the fee goes to nobody. *)
EffectFeeLost(t, a) ==
    CASE t.type = "MINT" ->
            IF IsMintAuthority(t.from) /\ t.to = a THEN t.amount ELSE 0
      [] t.type = "CLAIM" ->
            IF ClaimValid(t) /\ t.to = a THEN t.amount ELSE 0
      [] t.type = "TRANSFER" ->
            (IF t.to = a THEN t.amount ELSE 0)
            - (IF t.from = a THEN t.amount + t.fee ELSE 0)

(* What one transaction of the registry does to one account. *)
Effect(t, a) ==
    CASE t.type = "MINT" ->
            IF IsMintAuthority(t.from) /\ t.to = a THEN t.amount ELSE 0
      [] t.type = "CLAIM" ->
            IF ClaimValid(t) /\ t.to = a THEN t.amount ELSE 0
      [] t.type = "TRANSFER" ->
            (IF t.to = a THEN t.amount ELSE 0)
            - (IF t.from = a THEN t.amount + t.fee ELSE 0)
            + (IF a = Founder THEN t.fee ELSE 0)

RawBalance(dag, a) ==
    LET EffectOnA(t) == Effect(t, a)
    IN  (IF Listed(dag.cp, a) THEN dag.cp.dir[a].balance ELSE 0)
          + MapThenSumSet(EffectOnA, Registry(dag))

Clamp(x) == IF x \in 0..BalanceMax THEN x ELSE IF x < 0 THEN 0 ELSE BalanceMax

Balance(dag, a) == Clamp(RawBalance(dag, a))

(* The key of a member, NoKey when the account has published none. *)
MemberKey(dag, a) ==
    CASE IsMintAuthority(a) -> Founder
      [] ~IsMintAuthority(a) /\ Listed(dag.cp, a) /\ dag.cp.dir[a].key # NoKey ->
            dag.cp.dir[a].key
      [] OTHER ->
            IF \E t \in dag.win : ClaimValid(t) /\ t.from = a /\ t.key # NoKey
            THEN (CHOOSE t \in dag.win :
                      ClaimValid(t) /\ t.from = a /\ t.key # NoKey).key
            ELSE NoKey

IsMember(dag, a) ==
    \/ IsMintAuthority(a)
    \/ Listed(dag.cp, a) /\ dag.cp.dir[a].key # NoKey
    \/ \E t \in dag.win : ClaimValid(t) /\ t.from = a

(* The stateful rules, applied to a transaction one creates or is paid with. *)
UnderCeiling(dag, t) == MaxSupply > 0 => TotalMinted(dag) + t.amount <= MaxSupply

ValidateTx(dag, t) ==
    CASE t.cur # Currency -> "WRONG_ID"
      [] t.cur = Currency /\ t.type = "MINT" ->
            IF ~IsMintAuthority(t.from) THEN "NOT_AUTHORITY"
            ELSE IF t.signer # Founder THEN "BAD_SIGNATURE"
            ELSE IF ~UnderCeiling(dag, t) THEN "SUPPLY_EXCEEDED" ELSE "OK"
      [] t.cur = Currency /\ t.type = "CLAIM" ->
            IF ~Reflexive(t) THEN "INVALID"
            ELSE IF t.amount # InitialCredit THEN "BAD_AMOUNT"
            ELSE IF ~UnderCeiling(dag, t) THEN "SUPPLY_EXCEEDED" ELSE "OK"
      [] t.cur = Currency /\ t.type = "TRANSFER" ->
            IF t.fee # TransferFee THEN "BAD_FEE"
            ELSE IF t.amount + t.fee > Balance(dag, t.from) THEN "INSUFFICIENT"
            ELSE "OK"

(* Faulty variant of IngestCheck: what was re-founded is let in again. *)
IngestUngated(dag, t) ==
    CASE t.cur # Currency -> "WRONG_ID"
      [] OTHER ->
            CASE t.type = "MINT" ->
                    IF ~IsMintAuthority(t.from) THEN "NOT_AUTHORITY"
                    ELSE IF t.signer # Founder THEN "BAD_SIGNATURE" ELSE "OK"
              [] t.type = "CLAIM" ->
                    IF ~Reflexive(t) \/ t.seq # 0 THEN "INVALID"
                    ELSE IF t.amount # InitialCredit THEN "BAD_AMOUNT"
                    ELSE IF t.key # t.from \/ t.signer # t.key
                         THEN "BAD_SIGNATURE" ELSE "OK"
              [] t.type = "TRANSFER" ->
                    IF t.fee # TransferFee THEN "BAD_FEE"
                    ELSE IF MemberKey(dag, t.from) = NoKey THEN "UNKNOWN_MEMBER"
                    ELSE IF t.signer # MemberKey(dag, t.from)
                         THEN "BAD_SIGNATURE" ELSE "OK"

(* The stateless rules every ingestion path applies: never a balance. *)
IngestCheck(dag, t) ==
    CASE t.cur # Currency -> "WRONG_ID"
      [] t.cur = Currency /\ BelowFloor(dag.cp, t) -> "REPLAY"
      [] OTHER ->
            CASE t.type = "MINT" ->
                    IF ~IsMintAuthority(t.from) THEN "NOT_AUTHORITY"
                    ELSE IF t.signer # Founder THEN "BAD_SIGNATURE" ELSE "OK"
              [] t.type = "CLAIM" ->
                    IF ~Reflexive(t) \/ t.seq # 0 THEN "INVALID"
                    ELSE IF t.amount # InitialCredit THEN "BAD_AMOUNT"
                    ELSE IF t.key # t.from \/ t.signer # t.key
                         THEN "BAD_SIGNATURE" ELSE "OK"
              [] t.type = "TRANSFER" ->
                    IF t.fee # TransferFee THEN "BAD_FEE"
                    ELSE IF MemberKey(dag, t.from) = NoKey THEN "UNKNOWN_MEMBER"
                    ELSE IF t.signer # MemberKey(dag, t.from)
                         THEN "BAD_SIGNATURE" ELSE "OK"

(* What a batch brings, in whatever order it lists its transactions: its     *)
(* claims, and what the gate accepts of it over those claims.               *)
WithBatch(dag, batch) ==
    LET claims == {t \in batch : t.type = "CLAIM" /\ IngestCheck(dag, t) = "OK"}
        over == [dag EXCEPT !.win = @ \cup claims]
    IN  [dag EXCEPT !.win = @ \cup {t \in batch : IngestCheck(over, t) = "OK"}]

(* The claims of a window carry the key of their account. *)
Keyed(win) == \A t \in win : ClaimValid(t) => t.key = t.from

-----------------------------------------------------------------------------
(* What the founder re-founds. *)

SetMax(S) == CHOOSE x \in S : \A y \in S : y <= x

CheckpointAccounts(dag) ==
    (IF dag.cp.gen # 0 THEN dag.cp.accounts ELSE {})
      \cup {Founder}
      \cup UNION {{t.from, t.to} : t \in Registry(dag)}

(* Faulty variant of NewFloor: one too low. *)
NewFloorLow(dag, a) ==
    SetMax({IF Listed(dag.cp, a) THEN dag.cp.dir[a].floor ELSE 0}
             \cup {t.seq : t \in {u \in Registry(dag) : u.from = a}}) - 1

(* The floor of an account: the inherited one, raised to every seq seen. *)
NewFloor(dag, a) ==
    SetMax({IF Listed(dag.cp, a) THEN dag.cp.dir[a].floor ELSE 0}
             \cup {t.seq : t \in {u \in Registry(dag) : u.from = a}})

EntryOf(dag, a) ==
    [balance |-> Balance(dag, a),
     floor   |-> NewFloor(dag, a),
     key     |-> IF IsMintAuthority(a) THEN NoKey ELSE MemberKey(dag, a)]

Checkpoint(dag) ==
    [gen      |-> dag.cp.gen + 1,
     horizon  |-> dag.win,
     accounts |-> CheckpointAccounts(dag),
     dir      |-> [a \in Account |-> IF a \in CheckpointAccounts(dag)
                                     THEN EntryOf(dag, a) ELSE NoEntry]]

NeedsCheckpoint(dag) == Cardinality(dag.win) >= Threshold

CanBuildCheckpoint(dag) == Cardinality(CheckpointAccounts(dag)) <= MaxAccounts

(* Members in the order the screens walk them, as a count per account: the *)
(* directory, the CLAIMs of the window, the founder without a CLAIM.       *)
WalkCount(dag, a) ==
    (IF Listed(dag.cp, a) /\ dag.cp.dir[a].key # NoKey /\ ~IsMintAuthority(a)
     THEN 1 ELSE 0)
    + Cardinality({t \in dag.win : ClaimValid(t) /\ t.from = a})
    + (IF IsMintAuthority(a) /\ ~\E t \in dag.win : ClaimValid(t) /\ t.from = a
       THEN 1 ELSE 0)
=============================================================================
