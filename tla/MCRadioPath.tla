---------------------------- MODULE MCRadioPath -----------------------------
(***************************************************************************)
(* RadioPath for TLC: three resources for this device and two slots, one   *)
(* that completes in two parts, one of which a part never comes, one of a  *)
(* single part; a note of two frames to pass on by ESP-NOW, and a part of  *)
(* our own in two frames of LoRa.                                          *)
(***************************************************************************)
EXTENDS RadioPath

CONSTANTS a1, a2, b2, c1, d1, e1, n1, n2, n3

Part(r, i, n, frames, mine) ==
    [kind |-> "part", of |-> r, at |-> i, count |-> n, frames |-> frames, mine |-> mine]

Contents ==
    (a1 :> Part("a", 1, 2, 2, TRUE)) @@ (a2 :> Part("a", 2, 2, 1, TRUE)) @@
    (b2 :> Part("b", 2, 2, 1, TRUE)) @@ (c1 :> Part("c", 1, 1, 1, TRUE)) @@
    (d1 :> Part("d", 1, 1, 1, FALSE)) @@ (e1 :> [Part("e", 1, 1, 1, FALSE) EXCEPT !.kind = "note"])

Sendings ==
    (n1 :> [bearer |-> "lora", names |-> <<a1>>]) @@
    (n2 :> [bearer |-> "lora", names |-> <<a2>>]) @@
    (n3 :> [bearer |-> "espnow", names |-> <<b2, c1, e1>>])

=============================================================================
