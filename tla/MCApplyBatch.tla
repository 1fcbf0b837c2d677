---------------------------- MODULE MCApplyBatch ----------------------------
(***************************************************************************)
(* A founder f and two members, what they have written, and every window   *)
(* and batch a wallet may meet with it.                                    *)
(***************************************************************************)
EXTENDS ApplyBatch

CONSTANTS f, a, b,    \* the founder and two members
          g,          \* the one value of the parents and timestamp
          BatchMax    \* bound on the length of a batch

(* The third one is a number used again after the record of the wallet was  *)
(* lost, the last two the boot credit of a wallet that has no currency yet  *)
(* and a claim as earlier firmwares encode it.                              *)
Universe ==
    {Claim(a), Transfer(a, b, 1, 1, g), Transfer(a, b, 2, 1, g),
     Claim(b), Transfer(b, a, 1, 1, g), Mint(f, a, 1, 1, Currency, g), Mint(b, b, 1, 0, Fallback, g),
     [Claim(b) EXCEPT !.key = NoKey]}

(* A batch comes out of one window: it lists nothing twice, nor two        *)
(* transactions of one number.                                             *)
MCBatches ==
    UNION {{s \in [1..k -> Universe] :
               \A i, j \in 1..k : i # j => ~SameSlot(s[i], s[j])} : k \in 1..BatchMax}

(* A claimed and paid b, and the founder cut. *)
FirstCut ==
    [gen |-> 1, horizon |-> {Claim(a), Transfer(a, b, 1, 1, g)}, accounts |-> {f, a, b},
     dir |-> [n \in Account |->
                 CASE n = f -> NoEntry
                   [] n = a -> [balance |-> 1, floor |-> 1, key |-> a]
                   [] n = b -> [balance |-> 1, floor |-> 0, key |-> NoKey]]]

MCWindows ==
    {[win |-> w, cp |-> NoCheckpoint] :
        w \in {{}, {Claim(a)}, {Claim(a), Transfer(a, b, 1, 1, g)},
               {Claim(b)}, {Mint(b, b, 1, 0, Fallback, g)}}}
    \cup {[win |-> w, cp |-> FirstCut] : w \in {{}, {Mint(f, a, 1, 1, Currency, g)}}}
=============================================================================
