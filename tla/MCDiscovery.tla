---------------------------- MODULE MCDiscovery -----------------------------
(***************************************************************************)
(* Discovery for TLC: three nodes in a line.  The middle one has known x,  *)
(* which is away, and one of its neighbours: its table is full,            *)
(* and that neighbour is the oldest in its table of answers.               *)
(***************************************************************************)
EXTENDS Discovery, TLC

CONSTANTS n1, n2, n3, x

Line == (n1 :> {n2}) @@ (n2 :> {n1, n3}) @@ (n3 :> {n2})

Before == (n1 :> <<n2>>) @@ (n2 :> <<n1, x>>) @@ (n3 :> << >>)

=============================================================================
