----------------------------- MODULE WalletDesk -----------------------------
(***************************************************************************)
(* A wallet seen from its user: the UI task (keys, taps, deferred actions, *)
(* synchronisation, drawing) beside the radio and core tasks, which share  *)
(* the screens and the join machine with it under one lock.  Each action   *)
(* below is one critical section; between two of them any other task may   *)
(* run.                                                                    *)
(*                                                                         *)
(* Two boards have such a task.  A T-Deck has keys beside its buttons; a   *)
(* Waveshare has a keypad on its glass, no text and so neither codes nor a *)
(* currency of its own, and looks its lists up again at each tap.          *)
(*                                                                         *)
(* Abstractions.  Payments exist for members only.  A member of a currency *)
(* is announced or not, in the directory or not, and the directory may     *)
(* list its members in any order (a checkpoint may be adopted at any       *)
(* time).  The lock may be refused to the UI task for 200 ms at any of its *)
(* attempts with a timeout, so that several presses may follow each other  *)
(* without a drawing.  A write of the wallet record may fail.  Codes and   *)
(* currencies are the same values.                                         *)
(***************************************************************************)
EXTENDS WalletScreens, FiniteSets

CONSTANTS
    Peer,           \* the other wallets
    Own,            \* the currency this wallet can create
    Window,         \* bound: ticks of a join or discovery window
    QueueMax,       \* bound: events the core queue holds
    FoundMax        \* MESHPAY_APP_DISCOVERED_MAX

ASSUME WalletDeskAssumption ==
    /\ Window \in Nat \ {0} /\ QueueMax \in Nat \ {0} /\ FoundMax \in Nat \ {0}
    /\ None \notin {"CREATE", "JOIN_CODE", "DISCOVER", "JOIN_DISCOVERED", "SHOW_CODE", "RESET", "TELL"}
    /\ None \notin Peer /\ None \notin Code /\ Own \notin Code \cup {None} /\ Peer \cap Code = {}

VARIABLES
    board,      \* which of the two boards this is
    ui,         \* the screens
    glass,      \* what the user reads: the view drawn last, unless a press followed
    rt,         \* the join machine of the runtime
    heard,      \* announced peers, in the order of their slots
    members,    \* members of the currency other than this wallet, in directory order
    core,       \* events posted to the core queue
    task,       \* where the UI task is, its deferred action and its snapshot
    asked,      \* the currency the user asked to join last
    pressed     \* whether the last button pressed was the reset of the storage

vars == <<board, ui, glass, rt, heard, members, core, task, asked, pressed>>

Board == {"tdeck", "waveshare"}

Member == rt.member # None

Founder == rt.member = Own

NoDefer == [kind |-> None, arg |-> None]

Idle == [at |-> "poll", defer |-> NoDefer, js |-> "IDLE", list |-> <<>>]

Blank == [screen |-> None, target |-> None]

Runtime(broken) ==
    [member |-> None, stored |-> ~broken, anchor |-> None, left |-> 0,
     open |-> FALSE, openLeft |-> 0, found |-> <<>>]

Init ==
    /\ board \in Board
    /\ \E broken \in BOOLEAN :
          ui = Fresh(FALSE, broken) /\ rt = Runtime(broken)
    /\ glass = Blank /\ heard = <<>> /\ members = <<>> /\ core = <<>>
    /\ task = Idle /\ asked = None /\ pressed = FALSE

-----------------------------------------------------------------------------
(* Lists the screens show. *)

IsMember(p) == \E i \in DOMAIN members : members[i] = p

(* Announced peers that can be paid: those of the directory once the wallet *)
(* has a currency.                                                          *)
Payees ==
    LET Paid[i \in 0 .. Len(heard)] ==
            IF i = 0 THEN <<>>
            ELSE IF IsMember(heard[i]) THEN Append(Paid[i - 1], heard[i]) ELSE Paid[i - 1]
    IN  IF Member THEN Paid[Len(heard)] ELSE heard

At(list, i) == IF i < Len(list) THEN list[i + 1] ELSE list[1]

RefreshPayee(u) ==
    IF Payees = <<>> THEN SetPaymentPeer(u, None, 0, 0)
    ELSE SetPaymentPeer(u, At(Payees, u.peer), IF u.peer < Len(Payees) THEN u.peer ELSE 0,
                        Len(Payees))

RefreshCredited(u) ==
    IF members = <<>> THEN SetCreditMember(u, None, 0, 0)
    ELSE SetCreditMember(u, At(members, u.member),
                         IF u.member < Len(members) THEN u.member ELSE 0, Len(members))

(* Whatever draws looks up the lists its screen shows. *)
Refreshed(u) ==
    IF u.screen = "CREDIT" THEN RefreshCredited(RefreshPayee(u)) ELSE RefreshPayee(u)

-----------------------------------------------------------------------------
(* The join machine.  Each operation takes the lock by itself. *)

Armed == rt.anchor # None

JoinState(r) ==
    IF r.member # None THEN "MEMBER" ELSE IF r.anchor # None THEN "ARMED" ELSE "IDLE"

(* An armed join whose window is over is closed, and the screen says so. *)
Expired(r, u) ==
    IF r.anchor # None /\ r.left = 0
    THEN [rt |-> [r EXCEPT !.anchor = None], ui |-> OnActionFailed(u, "JOIN_EXPIRED")]
    ELSE [rt |-> r, ui |-> u]

(* Mutant: a code typed during a discovery leaves it open. *)
ArmJoinOpen(c) == [rt EXCEPT !.anchor = c, !.left = Window]

ArmJoin(c) == [rt EXCEPT !.anchor = c, !.left = Window, !.open = FALSE]

ArmDiscovery == [rt EXCEPT !.open = TRUE, !.openLeft = Window, !.found = <<>>, !.anchor = None]

(* A discovery that is over is noticed when the next DISCOVER is due. *)
EmitDiscover(r) == IF r.open /\ r.openLeft = 0 THEN [r EXCEPT !.open = FALSE] ELSE r

Imported(r, c) == [r EXCEPT !.member = c]

(* Mutant: the list shows the currency heard last first. *)
OfferedFirst(r, c) ==
    IF r.member # None THEN {r}
    ELSE IF r.open THEN {[r EXCEPT !.found = <<c>> \o @]}
    ELSE {r}

(* An OFFER that is heard: collected while the discovery is open, imported *)
(* if it is the one a code asked for.  The record is saved before anything *)
(* changes, and a save that fails leaves the join armed.                   *)
Offered(r, c) ==
    IF r.member # None THEN {r}
    ELSE IF r.open
    THEN {IF r.openLeft = 0 THEN [r EXCEPT !.open = FALSE]
          ELSE IF (\E i \in DOMAIN r.found : r.found[i] = c) \/ Len(r.found) = FoundMax THEN r
          ELSE [r EXCEPT !.found = Append(@, c)]}
    ELSE IF r.anchor = c /\ r.stored THEN {r, [Imported(r, c) EXCEPT !.anchor = None]}
    ELSE {r}

(* Mutant: the state of the storage is not looked at. *)
RefusalBlind(err) == IF err = "INVALID_STATE" THEN "ALREADY_MEMBER" ELSE "OTHER"

(* INVALID_STATE means two things, and the state of the storage decides    *)
(* which one is shown.                                                     *)
Refusal(err) ==
    IF err = "INVALID_STATE" THEN IF ui.broken THEN "STORAGE_ERROR" ELSE "ALREADY_MEMBER"
    ELSE "OTHER"

-----------------------------------------------------------------------------
(* The user.  A press acts on the current screens, not on what was drawn.  *)

(* The keyboard reaches the buttons of a menu by their rank, and on every  *)
(* screen CONFIRM, BACKSPACE and the two roles of TAB; a tap reaches the   *)
(* buttons of the screen.                                                  *)
InputScreen == {"SETUP_PIN", "PAY", "JOIN_CODE", "CREATE", "CREDIT"}

OnButton == {Buttons(ui)[i] : i \in DOMAIN Buttons(ui)}

OnKeys == {"CONFIRM", "BACKSPACE", IF ui.screen = "CREDIT" THEN "NEXT_MEMBER" ELSE "NEXT_FIELD"}
          \cup (IF ui.screen \in {"PAY", "CREDIT"} THEN {"HOME"} ELSE {})
          \cup (IF ui.screen \in InputScreen THEN {"TYPE"} ELSE OnButton)

(* The Waveshare: the screens a press acts on have just been looked up. *)
Touched == IF board = "tdeck" THEN ui ELSE Refreshed(ui)

KeypadScreen == {"SETUP_PIN", "PAY", "CREDIT"}

OnKeypad == {"TYPE", "BACKSPACE"} \cup (IF ConfirmEnabled(Touched) THEN {"CONFIRM"} ELSE {})

(* The soft keys under a keypad; elsewhere the buttons, but for those that *)
(* lead to a text.                                                         *)
OnSoftKeys ==
    CASE ui.screen = "PAY" -> {"HOME", "PAY"}
      [] ui.screen = "CREDIT" -> {"HOME", "NEXT_MEMBER"}
      [] ui.screen = "SETUP_PIN" -> {}
      [] OTHER -> OnButton \ {"JOIN_CODE", "CREATE"}

Reached ==
    IF board = "tdeck" THEN OnKeys \cup OnButton
    ELSE OnSoftKeys \cup (IF ui.screen \in KeypadScreen THEN OnKeypad ELSE {})

Pressed(a, defer) ==
    /\ task.at = "poll"
    /\ a \in Reached
    /\ pressed' = IF a \in OnButton THEN a = "STORAGE_RESET" ELSE pressed
    /\ glass' = Blank
    /\ task' = [task EXCEPT !.defer = defer]

(* What the user means when he presses: what the glass names, unless he has *)
(* pressed since it was drawn or it names nothing.                          *)
Named == glass.target # None

Meant == IF Named THEN glass.target ELSE View(ui).target

(* Buttons that only change the screens. *)
PressPlain(a) ==
    /\ Pressed(a, NoDefer)
    /\ \E u \in {Touched} :
        CASE a = "HOME" -> ui' = Nav(ClearEntry(u), "HOME")
          [] a = "PAY" ->
                ui' = Nav(RefreshPayee(IF u.screen = "PAY" THEN u ELSE ClearEntry(u)), "PAYEE")
          [] a \in {"RECEIVE", "HISTORY", "NETWORK"} -> ui' = Nav(u, a)
          [] a = "CURRENCY" -> ui' = Nav(u, "CURRENCY_MENU")
          [] a = "CREATE" -> ui' = WizardBegin(u)
          [] a = "JOIN_CODE" -> ui' = Nav(ClearEntry(u), "JOIN_CODE")
          [] a = "NEXT_DISCOVERED" -> ui' = NextDiscovered(u)
          [] a = "NEXT_PEER" -> ui' = IF u.peers = 0 THEN u ELSE RefreshPayee(NextPeer(u))
          [] a = "CREDIT" -> ui' = Nav(RefreshCredited(ClearEntry(u)), "CREDIT")
          [] a = "NEXT_MEMBER" ->
                ui' = RefreshCredited(IF u.members = 0 THEN u ELSE NextMember(u))
          [] a = "NEXT_FIELD" -> ui' = NextField(u)
          [] a = "PREV_FIELD" -> ui' = PrevField(u)
          [] a = "BACKSPACE" -> ui' = Backspace(u)
          [] a = "CLEAR" -> ui' = ClearEntry(u)
          [] a = "TYPE" -> ui' \in Typed(u)
          [] OTHER -> FALSE
    /\ UNCHANGED <<rt, heard, members, core, asked>>

(* CONFIRM on a screen that has nothing to confirm, or that only moves on. *)
ConfirmMove ==
    /\ Pressed("CONFIRM", NoDefer)
    /\ \/ /\ ui.screen = "PAYEE"
          /\ ui' = IF Touched.peers = 0 THEN Touched ELSE Nav(Touched, "PAY")
       \/ /\ \/ ui.screen \in Screen \ {"SETUP_PIN", "PAYEE", "PAY", "CREDIT", "CREATE", "JOIN",
                                        "JOIN_CODE"}
             \/ ui.screen \in {"PAY", "CREDIT"} /\ ~ui.draft
             \/ ui.screen = "JOIN" /\ ui.found = <<>>
          /\ ui' = Touched
    /\ UNCHANGED <<rt, heard, members, core, asked>>

(* The PIN is kept in memory even when the record cannot be saved. *)
ConfirmPin ==
    /\ ui.screen = "SETUP_PIN"
    /\ Pressed("CONFIRM", NoDefer)
    /\ \/ ui.entry = "pin" /\ ui' = OnPinResult(Touched, TRUE)
       \/ (ui.entry # "pin" \/ rt.stored) /\ ui' = OnPinResult(Touched, FALSE)
    /\ UNCHANGED <<rt, heard, members, core, asked>>

(* The account to pay is looked up again, by its rank in the list. *)
SelectedPeer(u) == At(Payees, u.peer)

ConfirmPayment ==
    /\ ui.screen = "PAY" /\ ui.draft
    /\ Pressed("CONFIRM", NoDefer)
    /\ LET u == RefreshPayee(Touched)
       IN IF Payees = <<>> \/ Len(core) = QueueMax
          THEN ui' = OnPaymentFeedback(u, "REJECTED") /\ UNCHANGED core
          ELSE /\ core' = Append(core, [kind |-> "PAYMENT", to |-> SelectedPeer(u)])
               /\ ui' = ClearEntry(u)
    /\ UNCHANGED <<rt, heard, members, asked>>

(* Mutant: the account to credit is looked up again too. *)
ConfirmCreditByRank ==
    /\ ui.screen = "CREDIT" /\ ui.draft /\ members # <<>> /\ Len(core) < QueueMax
    /\ Pressed("CONFIRM", NoDefer)
    /\ core' = Append(core, [kind |-> "CREDIT", to |-> At(members, ui.member)])
    /\ ui' = ClearEntry(ui)
    /\ UNCHANGED <<rt, heard, members, asked>>

(* The account to credit is the one the screens keep. *)
ConfirmCredit ==
    /\ ui.screen = "CREDIT" /\ ui.draft
    /\ Pressed("CONFIRM", NoDefer)
    /\ \E u \in {Touched} :
        IF u.credited = None \/ Len(core) = QueueMax
        THEN ui' = OnActionFailed(u, "OTHER") /\ UNCHANGED core
        ELSE /\ core' = Append(core, [kind |-> "CREDIT", to |-> u.credited])
             /\ ui' = ClearEntry(u)
    /\ UNCHANGED <<rt, heard, members, asked>>

(* What needs the lock of the runtime is noted and run once it is free. *)
PressDeferred ==
    /\ \/ /\ Pressed("JOIN", [kind |-> "DISCOVER", arg |-> None])
          /\ ui' = Nav(SetDiscovered(Touched, <<>>), "JOIN") /\ UNCHANGED asked
       \/ /\ Pressed("SHOW_CODE", [kind |-> "SHOW_CODE", arg |-> None])
          /\ ui' = Touched /\ UNCHANGED asked
       \/ /\ ui.screen = "CREATE"
          /\ Pressed("CONFIRM", [kind |-> "CREATE", arg |-> ui.named])
          /\ ui' = Touched /\ UNCHANGED asked
       \/ /\ ui.screen = "JOIN" /\ ui.found # <<>>
          /\ Pressed("CONFIRM", [kind |-> "JOIN_DISCOVERED", arg |-> ui.choice])
          /\ asked' = Meant /\ ui' = Touched
       \/ /\ ui.screen = "JOIN_CODE"
          /\ Pressed("CONFIRM", [kind |-> "JOIN_CODE", arg |-> ui.entry])
          /\ ui' = Touched /\ UNCHANGED asked
       \/ /\ ui' = ResetRequest(Touched) /\ UNCHANGED asked
          /\ Pressed("STORAGE_RESET", IF ResetConfirmed(ui) THEN [kind |-> "RESET", arg |-> None]
                                      ELSE NoDefer)
    /\ UNCHANGED <<rt, heard, members, core>>

(* A tap of the Waveshare that reaches nothing, or a dead key. *)
TapNothing ==
    /\ board = "waveshare" /\ task.at = "poll"
    /\ ui' = Touched
    /\ glass' \in IF ui.screen \in KeypadScreen THEN {glass, Blank} ELSE {glass}
    /\ UNCHANGED <<rt, heard, members, core, task, asked, pressed>>

-----------------------------------------------------------------------------
(* Deferred actions: the runtime is called first, then the screens are     *)
(* told, in a second critical section that a busy lock cancels.            *)

(* The screens after the deferred action of the task has returned err. *)
Told(kind, err) ==
    CASE kind = "DISCOVER" ->
            IF err = "OK" THEN ui
            ELSE OnActionFailed(Nav(ui, "CURRENCY_MENU"), Refusal(err))
      [] kind \in {"CREATE", "JOIN_CODE", "JOIN_DISCOVERED"} /\ err # "OK" ->
            OnActionFailed(ui, Refusal(err))
      [] kind = "SHOW_CODE" \/ (kind = "CREATE" /\ err = "OK") -> Nav(ui, "FOUNDER_CODE")
      [] kind = "JOIN_CODE" /\ err = "OK" ->
            Nav(ClearEntry([ui EXCEPT !.join = "ARMED"]), "CURRENCY_MENU")
      [] kind = "JOIN_DISCOVERED" /\ err = "OK" ->
            Nav(SetDiscovered([ui EXCEPT !.join = "MEMBER"], <<>>), "CURRENCY_MENU")
      [] kind = "RESET" -> OnActionFailed(ui, "STORAGE_ERROR")

Returned(err) ==
    /\ task' = [task EXCEPT !.defer = [kind |-> "TELL", arg |-> <<task.defer.kind, err>>]]
    /\ UNCHANGED <<ui, glass, heard, members, core, pressed>>

Refused(err) == Returned(err) /\ UNCHANGED <<rt, asked>>

RunCreate ==
    /\ task.defer.kind = "CREATE"
    /\ \/ (Member \/ ~rt.stored) /\ Refused("INVALID_STATE")
       \/ ~Member /\ rt.stored /\ Refused("INVALID_ARG")    \* no name, a bad supply, a failed save
       \/ /\ ~Member /\ rt.stored /\ task.defer.arg
          /\ rt' = Imported(rt, Own) /\ asked' = Own /\ Returned("OK")

RunJoinCode ==
    /\ task.defer.kind = "JOIN_CODE"
    /\ IF task.defer.arg \notin Code THEN Refused("INVALID_ARG")
       ELSE IF Member THEN Refused("INVALID_STATE")
       ELSE rt' = ArmJoin(task.defer.arg) /\ asked' = task.defer.arg /\ Returned("OK")

RunDiscover ==
    /\ task.defer.kind = "DISCOVER"
    /\ IF Member THEN Refused("INVALID_STATE")
       ELSE rt' = ArmDiscovery /\ Returned("OK") /\ UNCHANGED asked

RunJoinDiscovered ==
    /\ task.defer.kind = "JOIN_DISCOVERED"
    /\ \/ (Member \/ ~rt.stored) /\ Refused("INVALID_STATE")
       \/ ~Member /\ rt.stored /\ Refused("FAIL")       \* the save failed, or no such index
       \/ /\ ~Member /\ rt.stored /\ task.defer.arg < Len(rt.found)
          /\ rt' = [Imported(rt, rt.found[task.defer.arg + 1]) EXCEPT !.open = FALSE,
                                                                       !.found = <<>>]
          /\ Returned("OK") /\ UNCHANGED asked

RunShowCode == task.defer.kind = "SHOW_CODE" /\ Refused("OK")

(* The record is erased and the device restarts, or it could not be erased. *)
RunReset ==
    /\ task.defer.kind = "RESET"
    /\ \/ Refused("FAIL")
       \/ /\ ui' = Fresh(FALSE, FALSE) /\ rt' = Runtime(FALSE)
          /\ glass' = Blank /\ heard' = <<>> /\ members' = <<>> /\ core' = <<>>
          /\ task' = Idle /\ asked' = None /\ pressed' = FALSE

Tell ==
    /\ task.defer.kind = "TELL"
    /\ \/ ui' = Told(task.defer.arg[1], task.defer.arg[2])
       \/ ui' = ui          \* the lock was refused
    /\ task' = Idle
    /\ UNCHANGED <<glass, rt, heard, members, core, asked, pressed>>

-----------------------------------------------------------------------------
(* Drawing: the window of the join ticks, the state of the runtime is      *)
(* copied, pushed into the screens, and the view is drawn.                 *)

UiCopy ==
    /\ task = Idle
    /\ LET x == Expired(rt, ui)
       IN /\ ui' = x.ui
          /\ rt' \in {x.rt, EmitDiscover(x.rt)}
          /\ task' = [task EXCEPT !.at = "push", !.js = JoinState(x.rt), !.list = x.rt.found]
    /\ UNCHANGED <<glass, heard, members, core, asked, pressed>>

UiPush ==
    /\ task.at = "push"
    /\ ui' \in {ui, [SetDiscovered(ui, task.list) EXCEPT !.join = task.js, !.founder = Founder]}
    /\ task' = [Idle EXCEPT !.at = "draw"]
    /\ UNCHANGED <<glass, rt, heard, members, core, asked, pressed>>

UiDraw ==
    /\ task.at = "draw"
    /\ task' = Idle
    /\ \/ UNCHANGED <<ui, glass>>       \* the lock was refused
       \/ /\ ui' = Refreshed(ui)
          /\ glass' = IF View(ui').target = None THEN Blank ELSE View(ui')
    /\ UNCHANGED <<rt, heard, members, core, asked, pressed>>

-----------------------------------------------------------------------------
(* The other tasks. *)

(* A packet from the radio: the window of the join ticks first. *)
RadioAnnounce(p) ==
    /\ \A i \in DOMAIN heard : heard[i] # p
    /\ heard' = Append(heard, p)
    /\ rt' = Expired(rt, ui).rt
    /\ ui' = (LET u == Expired(rt, ui).ui
                  list == IF Member /\ ~IsMember(p) THEN Payees ELSE Append(Payees, p)
              IN IF list = <<>> THEN SetPaymentPeer(u, None, 0, 0)
                 ELSE SetPaymentPeer(u, At(list, u.peer), IF u.peer < Len(list) THEN u.peer ELSE 0,
                                     Len(list)))
    /\ UNCHANGED <<glass, members, core, task, asked, pressed>>

RadioOffer(c) ==
    /\ rt' \in Offered(Expired(rt, ui).rt, c)
    /\ rt' # rt
    /\ ui' = Expired(rt, ui).ui
    /\ UNCHANGED <<glass, heard, members, core, task, asked, pressed>>

(* The CLAIM of a peer enters the directory, anywhere. *)
RadioMember(p) ==
    /\ Member /\ ~IsMember(p)
    /\ \E i \in 0 .. Len(members) :
          members' = SubSeq(members, 1, i) \o <<p>> \o SubSeq(members, i + 1, Len(members))
    /\ UNCHANGED <<ui, glass, rt, heard, core, task, asked, pressed>>

(* A payment is received or a receipt comes. *)
RadioFeedback ==
    /\ Member
    /\ \E what \in {"RECEIVED", "ACKED", "REJECTED"} : ui' = OnPaymentFeedback(ui, what)
    /\ UNCHANGED <<glass, rt, heard, members, core, task, asked, pressed>>

(* The core task runs what was posted; the ledger may refuse. *)
CoreRun ==
    /\ core # <<>>
    /\ core' = Tail(core)
    /\ \/ /\ Head(core).kind = "PAYMENT"
          /\ \E what \in {"SENT", "REJECTED"} : ui' = OnPaymentFeedback(ui, what)
       \/ /\ Head(core).kind = "CREDIT"
          /\ \/ IsMember(Head(core).to) /\ Founder /\ ui' = OnCreditSent(ui)
             \/ ui' = OnActionFailed(ui, "OTHER")
    /\ UNCHANGED <<glass, rt, heard, members, task, asked, pressed>>

Clock ==
    /\ (Armed /\ rt.left > 0) \/ (rt.open /\ rt.openLeft > 0)
    /\ rt' = [rt EXCEPT !.left = IF Armed /\ @ > 0 THEN @ - 1 ELSE @,
                        !.openLeft = IF rt.open /\ @ > 0 THEN @ - 1 ELSE @]
    /\ UNCHANGED <<ui, glass, heard, members, core, task, asked, pressed>>

-----------------------------------------------------------------------------
Action == {"HOME", "PAY", "RECEIVE", "HISTORY", "NETWORK", "CURRENCY", "CREATE", "JOIN_CODE",
           "NEXT_DISCOVERED", "NEXT_PEER", "CREDIT", "NEXT_MEMBER", "NEXT_FIELD", "PREV_FIELD",
           "BACKSPACE", "CLEAR", "TYPE"}

User ==
    /\ task.defer = NoDefer
    /\ \/ \E a \in Action : PressPlain(a)
       \/ ConfirmMove \/ ConfirmPin \/ ConfirmPayment \/ ConfirmCredit \/ PressDeferred
       \/ TapNothing

Deferred ==
    \/ RunCreate \/ RunJoinCode \/ RunDiscover \/ RunJoinDiscovered \/ RunShowCode \/ RunReset
    \/ Tell

Others ==
    \/ \E p \in Peer : RadioAnnounce(p) \/ RadioMember(p)
    \/ \E c \in Code : RadioOffer(c)
    \/ RadioFeedback \/ CoreRun \/ Clock

Next ==
    /\ User \/ Deferred \/ UiCopy \/ UiPush \/ UiDraw \/ Others
    /\ UNCHANGED board

Spec == Init /\ [][Next]_vars

-----------------------------------------------------------------------------
(* Properties. *)

(* The screens, the join machine and the queue keep their types, and every *)
(* screen that acts on an account or a currency has a PIN behind it.       *)
TypeOK ==
    /\ ui.screen \in Screen /\ ui.feedback \in Feedback
    /\ ui.payee \in Peer \cup {None} /\ ui.credited \in Peer \cup {None}
    /\ rt.member \in Code \cup {Own, None} /\ rt.anchor \in Code \cup {None}
    /\ rt.left \in 0 .. Window /\ rt.openLeft \in 0 .. Window
    /\ ~(Armed /\ rt.open)
    /\ Len(rt.found) <= FoundMax /\ Len(core) <= QueueMax
    /\ ui.choice < FoundMax
    /\ ui.hasPin \/ ui.screen = "SETUP_PIN"

(* What a press posts goes to the account that the glass names, when it    *)
(* names one and nothing was pressed since it was drawn.                   *)
Goes(kind, screens) ==
    Named /\ glass.screen \in screens
        => \A x \in Peer : core' = Append(core, [kind |-> kind, to |-> x]) => x = glass.target

(* main/app_main.c:1161: the target of a credit is the account displayed,  *)
(* whatever the directory, the radio and the other tasks did since: on the *)
(* credit screen it is so.                                                 *)
CreditedIsShown == [][Goes("CREDIT", {"CREDIT"})]_vars

(* A wallet becomes a member of the currency its user asked for last and   *)
(* of no other, though offers of others arrive meanwhile and the choice is *)
(* an index into a list the radio task fills; and it never changes.        *)
JoinedIsAsked ==
    [][rt'.member # rt.member /\ rt'.member # None
           => rt.member = None /\ rt'.member = asked']_vars

(* A message that appears is true: "already a member" to a member only, a  *)
(* fault of the storage only when it is broken, and an expired join only   *)
(* when that join has not made the wallet a member.                        *)
HonestMessage ==
    [][ui'.feedback # ui.feedback =>
          /\ ui'.feedback = "ALREADY_MEMBER" => rt'.member # None
          /\ ui'.feedback = "STORAGE_ERROR" => ui'.broken
          /\ ui'.feedback = "JOIN_EXPIRED" => rt.anchor # None /\ rt'.member # rt.anchor]_vars

(* The record is erased only after two presses of the reset button in a    *)
(* row: keys that do nothing may come between them, no other button.       *)
ResetDeliberate ==
    [][task'.defer.kind = "RESET" /\ task.defer.kind # "RESET"
           => pressed /\ pressed']_vars

=============================================================================
