----------------------------- MODULE Reassembly -----------------------------
(***************************************************************************)
(* Cutting something long into numbered pieces and putting it together     *)
(* again.  The firmware does it three times, with the same rules: a packet *)
(* into ESP-NOW frames (rns_iface_espnow.c), a packet into LoRa frames     *)
(* (rns_iface_lora.c), a batch of transactions into resource packets       *)
(* (rns_resource.c).                                                       *)
(*                                                                         *)
(* A piece names the whole it is cut from (the hash that every piece       *)
(* carries), its place, the number of pieces, and its load: the whole it   *)
(* was cut from, or Noise once the air has changed what it carries without *)
(* the radio noticing.                                                     *)
(***************************************************************************)
EXTENDS Naturals, FiniteSets

CONSTANTS
    Noise,      \* a load changed on its way
    Nothing     \* an inactive reassembler

Piece(whole, i, n) == [of |-> whole, at |-> i, count |-> n, load |-> whole]

\* The pieces of a whole, in order, each with the number of all.
Cut(whole, n) == [i \in 1 .. n |-> Piece(whole, i, n)]

Changed(piece) == [piece EXCEPT !.load = Noise]

(***************************************************************************)
(* A reassembler holds the pieces of one whole.  A piece of another whole  *)
(* (another hash, or another number of pieces) makes it start again.       *)
(***************************************************************************)
\* Pieces told apart by their number only.
SameCount(partial, piece) == partial # Nothing /\ partial.count = piece.count

Same(partial, piece) ==
    /\ partial # Nothing
    /\ partial.count = piece.count
    /\ partial.of = piece.of

Start(piece) == [of |-> piece.of, count |-> piece.count, got |-> << >>]

Resumed(partial, piece) == IF Same(partial, piece) THEN partial ELSE Start(piece)

\* A place already filled keeps its first load; another load there is an error.
Refuses(partial, piece) ==
    /\ Same(partial, piece)
    /\ piece.at \in DOMAIN partial.got
    /\ partial.got[piece.at] # piece.load

Put(partial, piece) ==
    LET got == Resumed(partial, piece).got
        load(i) == IF i \in DOMAIN got THEN got[i] ELSE piece.load
    IN  [Resumed(partial, piece) EXCEPT !.got = [i \in DOMAIN got \cup {piece.at} |-> load(i)]]

Full(partial) == Cardinality(DOMAIN partial.got) = partial.count

\* The loads are those the whole was cut into.
Intact(partial) == \A i \in DOMAIN partial.got : partial.got[i] = partial.of

=============================================================================
