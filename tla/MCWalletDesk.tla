---------------------------- MODULE MCWalletDesk ----------------------------
(***************************************************************************)
(* Model values for WalletDesk.                                            *)
(***************************************************************************)
EXTENDS WalletDesk, TLC

CONSTANTS p, q,     \* the other wallets
          c, d      \* the currencies that can be joined

(* What a state can still do: the fields of a screen that is entered        *)
(* through a reset of them count on that screen only, a window counts while *)
(* it is open, and of the messages those that a property names.             *)
Listing == ui.screen = "JOIN" \/ task.defer.kind = "JOIN_DISCOVERED"

Told3 == {"STORAGE_ERROR", "ALREADY_MEMBER", "JOIN_EXPIRED"}

LiveUi ==
    LET wizard == ui.screen = "CREATE"
    IN [ui EXCEPT !.named = @ /\ wizard, !.field = IF wizard THEN @ ELSE 0,
                  !.found = IF Listing THEN @ ELSE <<>>, !.choice = IF Listing THEN @ ELSE 0,
                  !.feedback = IF @ \in Told3 THEN @ ELSE "NONE"]

LiveRt ==
    [rt EXCEPT !.found = IF Listing THEN @ ELSE <<>>,
               !.left = IF Armed THEN @ ELSE 0, !.openLeft = IF rt.open THEN @ ELSE 0]

LiveAsked == IF Armed \/ task.defer.kind = "JOIN_DISCOVERED" THEN asked ELSE None

LiveTask == [task EXCEPT !.list = IF Listing THEN @ ELSE <<>>]

Live == <<board, LiveUi, glass, LiveRt, heard, members, core, LiveTask, LiveAsked, pressed /\ ui.broken>>

(* Nothing tells one peer from another, nor one currency from another. *)
Alike == Permutations(Peer) \cup Permutations(Code)

(* Peers appear once the wallet has a currency, and enter the directory of  *)
(* a founder, or of a Waveshare, which is never one.                        *)
PeersLater ==
    /\ heard' # <<>> => rt'.member # None
    /\ members' # <<>> => rt'.member = Own \/ board = "waveshare"

=============================================================================
