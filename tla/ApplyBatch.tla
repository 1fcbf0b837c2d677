----------------------------- MODULE ApplyBatch -----------------------------
(***************************************************************************)
(* How a wallet takes in a batch of a peer's transactions: passes over the *)
(* batch as long as a pass merged something, because the gate may refuse a *)
(* transfer until the claim of its payer, later in the batch, is merged.   *)
(* The handler then marks the window dirty.                                *)
(*                                                                         *)
(* The batch is the sequence of its transactions as their encodings say    *)
(* them: a peer of an earlier firmware encodes claims without a key, which *)
(* the decoder refuses.  The length checks on the bytes are left out.      *)
(*                                                                         *)
(* The behaviours are those of one call: Call, then its Loop.              *)
(***************************************************************************)
EXTENDS Ledger, Sequences

CONSTANTS
    Batches,   \* batches a peer may send, in any order of its own window
    Windows    \* windows and checkpoints the wallet may be in

(* A window is an array, and the claims in it carry the key of their        *)
(* account: no wallet writes another.                                       *)
ASSUME BatchAssumption ==
    /\ Batches \subseteq Seq(Tx)
    /\ Windows \subseteq {d \in Dag : IsFiniteSet(d.win) /\ Keyed(d.win)}

VARIABLES
    start,      \* the window and checkpoint when the batch arrived
    now,        \* the window and checkpoint now
    anchored,   \* whether the wallet has a descriptor
    batch,
    state,      \* what is settled of each transaction of the batch
    pass, pos,  \* pass under way, and transaction under examination
    progress,   \* whether this pass merged something
    counts,     \* merged, foreign and invalid transactions so far
    result,     \* what the call returned
    dirty       \* the window has to be saved

locals == <<start, now, anchored, batch, state, pass, pos, progress, counts,
            result, dirty>>

settings == <<start, anchored, batch>>

(* What the codec lets through, in both directions: the shape of a          *)
(* transaction, and a key in a claim and nowhere else.                      *)
WellFormed(t) == ShapeValid(t) /\ (t.key # NoKey <=> t.type = "CLAIM")

Call ==
    /\ now \in Windows
    /\ start = now
    /\ anchored \in BOOLEAN
    /\ batch \in Batches
    /\ state = [i \in DOMAIN batch |-> "PENDING"]
    /\ pass = 0
    /\ pos = 1
    /\ progress = FALSE
    /\ counts = [merged |-> 0, foreign |-> 0, invalid |-> 0]
    /\ result = "running"
    /\ dirty = FALSE

(* The gate of the runtime; without a descriptor there is none. *)
Gate(t) ==
    LET verdict == IngestCheck(now, t)
    IN  CASE ~anchored \/ verdict = "OK" -> "ACCEPT"
          [] anchored /\ verdict = "UNKNOWN_MEMBER" -> "RETRY"
          [] OTHER -> "REJECT"

Settled(i) == state[i] \in {"DONE", "SKIPPED"}

Foreign(t) == anchored /\ t.cur # Currency

Current == batch[pos]

(* The pass is at a transaction that still has to be looked at... *)
Unsettled ==
    /\ result = "running"
    /\ pos <= Len(batch)
    /\ ~Settled(pos)

(* ... which is decoded again. *)
Decoded(t) == WellFormed(t)

Examining == Unsettled /\ Decoded(Current)

Settle(s) ==
    /\ state' = [state EXCEPT ![pos] = s]
    /\ pos' = pos + 1
    /\ UNCHANGED <<settings, pass, result, dirty>>

PassOver ==
    /\ result = "running"
    /\ pos <= Len(batch)
    /\ Settled(pos)
    /\ pos' = pos + 1
    /\ UNCHANGED <<settings, now, state, pass, progress, counts, result, dirty>>

SkipForeign ==
    /\ Examining
    /\ Foreign(Current)
    /\ counts' = [counts EXCEPT !.foreign = @ + 1]
    /\ Settle("SKIPPED")
    /\ UNCHANGED <<now, progress>>

Reject ==
    /\ Examining
    /\ ~Foreign(Current)
    /\ Gate(Current) = "REJECT"
    /\ counts' = [counts EXCEPT !.invalid = @ + 1]
    /\ Settle("SKIPPED")
    /\ UNCHANGED <<now, progress>>

(* Faulty variant of Retry: a transient refusal is a definitive one. *)
RetryNever ==
    /\ Examining
    /\ ~Foreign(Current)
    /\ Gate(Current) = "RETRY"
    /\ Settle("SKIPPED")
    /\ counts' = [counts EXCEPT !.invalid = @ + 1]
    /\ UNCHANGED <<now, progress>>

Retry ==
    /\ Examining
    /\ ~Foreign(Current)
    /\ Gate(Current) = "RETRY"
    /\ Settle("RETRY")
    /\ UNCHANGED <<now, progress, counts>>

Accepted(verdicts) ==
    /\ Examining
    /\ ~Foreign(Current)
    /\ Gate(Current) = "ACCEPT"
    /\ MergeVerdict(now.win, Current) \in verdicts

(* Faulty variant of MergeIn: the pass does not know it made progress. *)
MergeQuietly ==
    /\ Accepted({"OK"})
    /\ now' = [now EXCEPT !.win = Merge(@, Current)]
    /\ counts' = [counts EXCEPT !.merged = @ + 1]
    /\ Settle("DONE")
    /\ UNCHANGED progress

MergeIn ==
    /\ Accepted({"OK"})
    /\ now' = [now EXCEPT !.win = Merge(@, Current)]
    /\ counts' = [counts EXCEPT !.merged = @ + 1]
    /\ progress' = TRUE
    /\ Settle("DONE")

(* Faulty variant of KnowAlready: a duplicate counts as merged. *)
KnowAgain ==
    /\ Accepted({"DUPLICATE"})
    /\ counts' = [counts EXCEPT !.merged = @ + 1]
    /\ Settle("DONE")
    /\ UNCHANGED <<now, progress>>

KnowAlready ==
    /\ Accepted({"DUPLICATE"})
    /\ Settle("DONE")
    /\ UNCHANGED <<now, progress, counts>>

NoRoom ==
    /\ Accepted({"FULL"})
    /\ Settle("PENDING")
    /\ UNCHANGED <<now, progress, counts>>

(* An encoding that is refused ends the call, whatever follows it. *)
FailDecode ==
    /\ Unsettled
    /\ ~Decoded(Current)
    /\ result' = "INVALID_ARG"
    /\ UNCHANGED <<settings, now, state, pass, pos, progress, counts, dirty>>

(* A double spend ends the call too. *)
Fail ==
    /\ Accepted({"CONFLICT", "INVALID"})
    /\ result' = "INVALID_STATE"
    /\ UNCHANGED <<settings, now, state, pass, pos, progress, counts, dirty>>

Examine ==
    \/ FailDecode
    \/ SkipForeign
    \/ Reject
    \/ Retry
    \/ MergeIn
    \/ KnowAlready
    \/ NoRoom
    \/ Fail

NextPass ==
    /\ result = "running"
    /\ pos > Len(batch)
    /\ progress
    /\ pass + 1 < Len(batch)
    /\ pass' = pass + 1
    /\ pos' = 1
    /\ progress' = FALSE
    /\ UNCHANGED <<settings, now, state, counts, result, dirty>>

(* What is still refused for want of a claim is counted as invalid. *)
Finish ==
    /\ result = "running"
    /\ pos > Len(batch)
    /\ ~progress \/ pass + 1 >= Len(batch)
    /\ result' = "OK"
    /\ counts' = [counts EXCEPT
                     !.invalid = @ + Cardinality({i \in DOMAIN batch : state[i] = "RETRY"})]
    /\ dirty' = (counts.merged > 0)
    /\ UNCHANGED <<settings, now, state, pass, pos, progress>>

Loop == PassOver \/ Examine \/ NextPass \/ Finish

Applying == Call /\ [][Loop]_locals

-----------------------------------------------------------------------------
(* What a batch is worth, whatever its order: all of it where there is no   *)
(* gate, and otherwise what PaymentExchange takes in at once.               *)
Contents == {batch[i] : i \in DOMAIN batch}

Reference ==
    IF anchored THEN WithBatch(start, Contents)
    ELSE [start EXCEPT !.win = @ \cup Contents]

(* dag_sync.c: a batch may list a child before its parent and a transfer    *)
(* before the claim of its payer; the passes make the order irrelevant. As  *)
(* long as the window has room, the batch brings what the reference says,   *)
(* nothing less and nothing more.                                           *)
OrderIrrelevant ==
    result = "OK" /\ Cardinality(Reference.win) <= WindowMax => now = Reference

(* A batch that was applied leaves nothing behind it that the window would  *)
(* take now, even when the window has filled up on the way.                 *)
NothingLeftBehind ==
    result = "OK" =>
        \A i \in DOMAIN batch :
            LET t == batch[i]
            IN  ~Foreign(t) /\ Gate(t) = "ACCEPT" => MergeVerdict(now.win, t) # "OK"

(* The count of merged transactions, on which the handler marks the window  *)
(* dirty and retries the held payments, is the growth of the window; and    *)
(* every transaction of the batch is counted once or was known or too many. *)
CountsExact ==
    result = "OK" =>
        /\ counts.merged = Cardinality(now.win \ start.win)
        /\ dirty <=> now.win # start.win
        /\ counts.merged + counts.foreign + counts.invalid <= Len(batch)
        /\ now.win = start.win \cup {batch[i] : i \in {j \in DOMAIN batch : state[j] = "DONE"}}

=============================================================================
