----------------------------- MODULE MCDagSync -----------------------------
(* DagSync for TLC: two wallets in reach of each other. *)
EXTENDS DagSync

CONSTANTS f, a

Near == [n \in Node |-> Node \ {n}]

Few == [n \in Node |-> IF n = f THEN 1 ELSE 2]

One == [n \in Node |-> 1]

=============================================================================
