--------------------------- MODULE WalletScreens ---------------------------
(***************************************************************************)
(* The screens of the wallet (components/ui): a record, the operations     *)
(* that change it, and the view that is built from it.  No operation of    *)
(* this module touches anything but that record.                           *)
(*                                                                         *)
(* Abstractions.  An amount is typed or it is not, an entry is what was    *)
(* typed (a PIN, the code of a currency, or something that is neither), a  *)
(* label is the account or the currency it names, and the wizard keeps     *)
(* whether its name is filled and on which of its fields the cursor is.    *)
(* Of the feedbacks those that name a cause are kept apart, the others are *)
(* "OTHER".  The screens LOCKED and DAG_MONITOR are left out: nothing in   *)
(* the firmware locks the screens, and the monitor is another image.       *)
(***************************************************************************)
EXTENDS Integers, Sequences

CONSTANTS
    None,           \* nobody, nothing typed, no currency
    Code,           \* the invitation codes a user can type
    FieldMax        \* bound: last field of the wizard

ASSUME WalletScreensAssumption == FieldMax \in Nat \ {0}

Screen == {"SETUP_PIN", "HOME", "PAYEE", "PAY", "RECEIVE", "HISTORY", "NETWORK",
           "CURRENCY_MENU", "JOIN", "FOUNDER_CODE", "CREATE", "JOIN_CODE", "CREDIT"}

Feedback == {"NONE", "OTHER", "STORAGE_ERROR", "ALREADY_MEMBER", "JOIN_EXPIRED"}

Fresh(pin, broken) ==
    [screen |-> IF pin THEN "HOME" ELSE "SETUP_PIN", feedback |-> "NONE", hasPin |-> pin,
     draft |-> FALSE, entry |-> None, field |-> 0, named |-> FALSE,
     payee |-> None, peers |-> 0, peer |-> 0,
     credited |-> None, members |-> 0, member |-> 0,
     found |-> <<>>, choice |-> 0,
     join |-> "IDLE", founder |-> FALSE, broken |-> broken, resetArmed |-> FALSE]

-----------------------------------------------------------------------------
(* Moving between screens. *)

(* Mutant: leaving a screen does not disarm the reset. *)
NavKeepsArmed(ui, screen) ==
    IF ui.hasPin \/ screen = "SETUP_PIN" THEN [ui EXCEPT !.screen = screen, !.feedback = "NONE"]
    ELSE ui

Nav(ui, screen) ==
    IF ui.hasPin \/ screen = "SETUP_PIN"
    THEN [ui EXCEPT !.screen = screen, !.feedback = "NONE", !.resetArmed = FALSE]
    ELSE ui

WizardBegin(ui) ==
    IF ui.hasPin
    THEN [ui EXCEPT !.field = 0, !.named = FALSE, !.screen = "CREATE", !.feedback = "NONE"]
    ELSE ui

ClearEntry(ui) == [ui EXCEPT !.draft = FALSE, !.entry = None]

-----------------------------------------------------------------------------
(* Typing. *)

(* What the keyboard adds on the current screen: a digit of an amount or of *)
(* a PIN, a code, the name of a currency.                                   *)
TypedName(ui) == IF ui.field = 0 THEN [ui EXCEPT !.named = TRUE] ELSE ui

TypedEntry(ui) ==
    CASE ui.screen = "SETUP_PIN" -> {[ui EXCEPT !.entry = "pin"]}
      [] ui.screen \in {"PAY", "CREDIT"} -> {[ui EXCEPT !.draft = TRUE]}
      [] ui.screen = "JOIN_CODE" -> {[ui EXCEPT !.entry = c] : c \in Code \cup {"bad"}}
      [] OTHER -> {}

Typed(ui) ==
    IF ui.screen = "CREATE" THEN {TypedName(ui)}
    ELSE IF TypedEntry(ui) = {} THEN {ui}
    ELSE {[new EXCEPT !.feedback = "NONE"] : new \in TypedEntry(ui)}

Backspace(ui) ==
    CASE ui.screen \in {"SETUP_PIN", "JOIN_CODE"} -> [ui EXCEPT !.entry = None]
      [] ui.screen \in {"PAY", "CREDIT"} -> [ui EXCEPT !.draft = FALSE]
      [] ui.screen = "CREATE" /\ ui.field = 0 -> [ui EXCEPT !.named = FALSE]
      [] OTHER -> ui

NextField(ui) ==
    IF ui.screen = "CREATE" /\ ui.field < FieldMax THEN [ui EXCEPT !.field = @ + 1] ELSE ui

PrevField(ui) ==
    IF ui.screen = "CREATE" /\ ui.field > 0 THEN [ui EXCEPT !.field = @ - 1] ELSE ui

-----------------------------------------------------------------------------
(* Lists that the firmware pushes into the screens, and their cursors. *)

SetPaymentPeer(ui, account, index, count) ==
    [ui EXCEPT !.peers = count, !.payee = account, !.peer = IF count = 0 THEN 0 ELSE index % count]

SetCreditMember(ui, account, index, count) ==
    [ui EXCEPT !.members = count, !.credited = account,
               !.member = IF count = 0 THEN 0 ELSE index % count]

SetDiscovered(ui, list) ==
    [ui EXCEPT !.found = list,
               !.choice = IF list = <<>> THEN 0
                          ELSE IF @ >= Len(list) THEN Len(list) - 1 ELSE @]

NextPeer(ui) == [ui EXCEPT !.peer = (@ + 1) % ui.peers, !.feedback = "NONE"]

NextMember(ui) == [ui EXCEPT !.member = (@ + 1) % ui.members, !.feedback = "NONE"]

NextDiscovered(ui) ==
    IF ui.found = <<>> THEN ui ELSE [ui EXCEPT !.choice = (@ + 1) % Len(ui.found)]

-----------------------------------------------------------------------------
(* Outcomes that other tasks report. *)

OnPinResult(ui, success) ==
    IF success
    THEN [ClearEntry(ui) EXCEPT !.hasPin = TRUE, !.screen = "HOME", !.feedback = "NONE"]
    ELSE [ui EXCEPT !.feedback = "OTHER"]

(* A payment that is sent, received or acknowledged moves the screen; one  *)
(* that is refused leaves it.                                              *)
OnPaymentFeedback(ui, what) ==
    [ui EXCEPT !.feedback = "OTHER",
               !.screen = CASE what = "SENT" -> "PAY"
                            [] what = "RECEIVED" -> "RECEIVE"
                            [] what = "ACKED" -> "HISTORY"
                            [] OTHER -> @]

OnCreditSent(ui) == [ui EXCEPT !.feedback = "OTHER", !.screen = "CREDIT"]

OnActionFailed(ui, cause) == [ui EXCEPT !.feedback = cause]

(* The first press arms the reset, the second one confirms it. *)
ResetRequest(ui) == IF ui.broken THEN [ui EXCEPT !.resetArmed = ~@] ELSE ui

ResetConfirmed(ui) == ui.broken /\ ui.resetArmed

-----------------------------------------------------------------------------
(* The view: the buttons of a screen in their order, and what the screen    *)
(* names.                                                                   *)

CurrencyButtons(ui) ==
    CASE ui.screen = "CURRENCY_MENU" ->
            IF ui.join = "MEMBER"
            THEN (IF ui.founder THEN <<"CREDIT">> ELSE <<>>) \o <<"SHOW_CODE", "HOME">>
            ELSE (IF ui.join = "IDLE" THEN <<"CREATE", "JOIN">> ELSE <<>>) \o <<"HOME">>
      [] ui.screen = "JOIN" ->
            (IF ui.found = <<>> THEN <<>> ELSE <<"CONFIRM", "NEXT_DISCOVERED">>)
            \o <<"JOIN_CODE", "HOME">>
      [] ui.screen = "JOIN_CODE" -> <<"CONFIRM", "BACKSPACE", "CLEAR", "HOME">>
      [] ui.screen = "FOUNDER_CODE" -> <<"HOME">>
      [] ui.screen = "CREDIT" -> <<"CONFIRM", "NEXT_MEMBER", "BACKSPACE", "HOME">>
      [] ui.screen = "CREATE" -> <<"PREV_FIELD", "NEXT_FIELD", "CONFIRM", "HOME">>

InfoButtons(ui) ==
    CASE ui.screen = "RECEIVE" -> <<"HOME", "PAY", "HISTORY", "NETWORK">>
      [] ui.screen = "HISTORY" -> <<"HOME", "PAY">>
      [] ui.screen = "NETWORK" ->
            (IF ui.broken THEN <<"STORAGE_RESET">> ELSE <<>>) \o <<"HOME", "CURRENCY">>
      [] OTHER -> CurrencyButtons(ui)

Buttons(ui) ==
    CASE ui.screen = "SETUP_PIN" -> <<"CONFIRM", "BACKSPACE">>
      [] ui.screen = "HOME" -> <<"PAY", "RECEIVE", "HISTORY", "NETWORK">>
      [] ui.screen = "PAYEE" -> <<"CONFIRM", "NEXT_PEER", "HOME">>
      [] ui.screen = "PAY" -> <<"CONFIRM", "BACKSPACE", "PAY", "CLEAR">>
      [] OTHER -> InfoButtons(ui)

(* Whether the screen has something to confirm. *)
ConfirmEnabled(ui) ==
    CASE ui.screen = "SETUP_PIN" -> ui.entry = "pin"
      [] ui.screen = "PAYEE" -> ui.peers > 0
      [] ui.screen = "PAY" -> ui.draft /\ ui.peers > 0
      [] ui.screen = "CREDIT" -> ui.draft /\ ui.members > 0
      [] ui.screen = "JOIN" -> ui.found # <<>>
      [] ui.screen = "JOIN_CODE" -> ui.entry # None
      [] ui.screen = "CREATE" -> ui.named
      [] OTHER -> FALSE

(* The currency the list of discovered ones points at. *)
Chosen(ui) == IF ui.found = <<>> THEN None ELSE ui.found[ui.choice + 1]

View(ui) ==
    [screen |-> ui.screen,
     target |-> CASE ui.screen \in {"PAYEE", "PAY"} -> ui.payee
                  [] ui.screen = "CREDIT" -> ui.credited
                  [] ui.screen = "JOIN" -> Chosen(ui)
                  [] ui.screen = "JOIN_CODE" -> ui.entry
                  [] OTHER -> None]

=============================================================================
