--------------------------- MODULE WalletDeskProofs ---------------------------
(***************************************************************************)
(* The desk of one wallet, for any peers and codes, any length of the      *)
(* windows, of the queue and of the list of discovered currencies, on both *)
(* boards: types, the currency that is entered is the one asked for, the   *)
(* messages are true, a credit goes to the account displayed, and the      *)
(* record is erased after two presses of the same button.                  *)
(*                                                                         *)
(* What the user reads, the screens, the runtime and the deferred action   *)
(* change in different critical sections.  The invariant says what each    *)
(* still knows of the others: the list on the screens is the beginning of  *)
(* the one the radio task fills, so an index means the same in both; what  *)
(* the glass names is what the screens would name now; the choice that     *)
(* waits is the one the user meant; what waits to be told is true.         *)
(***************************************************************************)
EXTENDS WalletDesk, WellFoundedInduction, TLAPS

-----------------------------------------------------------------------------
(* The shape of the state. *)

Entry == Code \cup {None, "pin", "bad"}

Screens ==
    [screen : Screen, feedback : Feedback, hasPin : BOOLEAN, draft : BOOLEAN, entry : Entry,
     field : Nat, named : BOOLEAN,
     payee : Peer \cup {None}, peers : Nat, peer : Nat,
     credited : Peer \cup {None}, members : Nat, member : Nat,
     found : Seq(Code), choice : Nat,
     join : {"IDLE", "ARMED", "MEMBER"}, founder : BOOLEAN, broken : BOOLEAN,
     resetArmed : BOOLEAN]

Runtimes ==
    [member : Code \cup {Own, None}, stored : BOOLEAN, anchor : Code \cup {None},
     left : 0 .. Window, open : BOOLEAN, openLeft : 0 .. Window, found : Seq(Code)]

Event == [kind : {"PAYMENT", "CREDIT"}, to : Peer]

Shape ==
    /\ board \in Board
    /\ ui \in Screens /\ rt \in Runtimes
    /\ heard \in Seq(Peer) /\ members \in Seq(Peer)
    /\ core \in Seq(Event) /\ Len(core) <= QueueMax
    /\ Len(rt.found) <= FoundMax
    /\ ui.choice < FoundMax
    /\ Len(ui.found) <= FoundMax
    /\ pressed \in BOOLEAN
    /\ task = [at |-> task.at, defer |-> task.defer, js |-> task.js, list |-> task.list]
    /\ task.at \in {"poll", "push", "draw"}
    /\ task.at # "poll" => task.defer = NoDefer
    /\ task.list \in Seq(Code) /\ Len(task.list) <= FoundMax
    /\ task.js \in {"IDLE", "ARMED", "MEMBER"}

(* The index points into the list the screens hold. *)
Points == ui.found # <<>> => ui.choice < Len(ui.found)

(* Who has no PIN has done nothing yet. *)
Pinned ==
    \/ ui.hasPin
    \/ /\ ui.screen = "SETUP_PIN" /\ task.defer = NoDefer
       /\ rt.member = None /\ rt.anchor = None /\ core = <<>>

(* A storage that is broken stores no currency. *)
Stored == rt.stored = ~ui.broken /\ (ui.broken => rt.member = None)

-----------------------------------------------------------------------------
(* The join. *)

Prefix(s, t) == Len(s) <= Len(t) /\ \A i \in 1 .. Len(s) : s[i] = t[i]

(* The list on the screens is the beginning of the one the radio task fills. *)
Lists ==
    rt.member = None =>
        /\ Prefix(ui.found, rt.found)
        /\ task.at = "push" => Prefix(ui.found, task.list) /\ Prefix(task.list, rt.found)
        /\ task.defer.kind = "DISCOVER" => ui.found = <<>>

(* The join that is armed is the one asked for, and none is while a list is *)
(* shown.                                                                   *)
ArmedIsAsked ==
    /\ rt.anchor # None => ~rt.open /\ rt.member \in {None, Own}
    /\ rt.anchor # None /\ rt.member = None => rt.anchor = asked
    /\ \/ ui.screen = "JOIN" /\ task.defer.kind # "DISCOVER"
       \/ task.defer.kind = "JOIN_DISCOVERED"
       => rt.member # None \/ rt.anchor = None
    /\ task.defer.kind = "JOIN_CODE" => ui.screen # "JOIN"

(* The choice that waits to be run is the one that the user meant. *)
ChoiceIsAsked ==
    task.defer.kind = "JOIN_DISCOVERED" /\ rt.member = None =>
        /\ task.defer.arg \in Nat /\ task.defer.arg < Len(rt.found)
        /\ asked = rt.found[task.defer.arg + 1]

(* What the glass names is what the screens would name now. *)
GlassIsTrue ==
    /\ Named /\ ui.screen = "JOIN" /\ rt.member = None =>
          ui.found # <<>> /\ glass.target = ui.found[ui.choice + 1]
    /\ Named /\ glass.screen = "CREDIT" => glass.target = ui.credited

(* A Waveshare has no text: it creates no currency and credits nobody. *)
NoText ==
    board = "waveshare" =>
        /\ rt.member # Own /\ ~ui.founder
        /\ ui.screen \notin {"CREATE", "CREDIT"}
        /\ task.defer.kind # "CREATE"

(* What is to be told to the screens is true. *)
TrueTold ==
    task.defer.kind = "TELL" =>
        /\ task.defer.arg[1] \in {"CREATE", "JOIN_CODE", "DISCOVER", "JOIN_DISCOVERED", "SHOW_CODE",
                                  "RESET"}
        /\ task.defer.arg[2] = "INVALID_STATE" => rt.member # None \/ ui.broken
        /\ task.defer.arg[1] = "RESET" => ui.broken

(* The reset is armed by a press, and confirmed where the storage is broken. *)
ResetInv ==
    /\ ui.resetArmed /\ ui.screen = "NETWORK" => pressed
    /\ task.defer.kind = "RESET" => ui.broken

DInv ==
    /\ Shape /\ Points /\ Pinned /\ Stored /\ Lists /\ ArmedIsAsked /\ ChoiceIsAsked
    /\ GlassIsTrue /\ NoText /\ TrueTold /\ ResetInv
-----------------------------------------------------------------------------
(* What the operations of the screens leave as it is. *)

Kept(u, v) ==
    /\ v \in Screens
    /\ (u.hasPin => v.hasPin) /\ v.founder = u.founder /\ v.broken = u.broken
    /\ v.found = u.found
    /\ v.choice = u.choice \/ (u.found # <<>> /\ v.choice < Len(u.found))

Passing(u, v) == v.feedback \in {u.feedback, "NONE", "OTHER"}

(* The screen stays. *)
Quiet(u, v) == Kept(u, v) /\ Passing(u, v) /\ v.screen = u.screen /\ v.resetArmed = u.resetArmed

(* The user has moved to another screen. *)
Moved(u, v) ==
    /\ Kept(u, v) /\ Passing(u, v)
    /\ v.hasPin /\ v.screen # "JOIN" /\ (v.screen = "NETWORK" => ~v.resetArmed)

LEMMA Messages == {"NONE", "OTHER", "STORAGE_ERROR", "ALREADY_MEMBER", "JOIN_EXPIRED"} = Feedback
BY DEF Feedback

LEMMA QuietTwice ==
    ASSUME NEW u, NEW v, NEW w, Quiet(u, v), Quiet(v, w)
    PROVE  Quiet(u, w)
BY DEF Quiet, Kept, Passing

LEMMA QuietMoved ==
    ASSUME NEW u, NEW v, NEW w, Quiet(u, v), Moved(v, w)
    PROVE  Moved(u, w)
BY DEF Quiet, Kept, Passing, Moved

LEMMA ClearEntryQuiet ==
    ASSUME NEW u \in Screens PROVE Quiet(u, ClearEntry(u))
BY DEF Screens, ClearEntry, Entry, Kept, Passing, Quiet

LEMMA NavMoves ==
    ASSUME NEW u \in Screens, NEW s \in Screen
    PROVE  /\ Kept(u, Nav(u, s)) /\ Passing(u, Nav(u, s))
           /\ Nav(u, s).credited = u.credited
           /\ Nav(u, s).screen \in {s, u.screen}
           /\ u.hasPin => Nav(u, s).screen = s /\ ~Nav(u, s).resetArmed
           /\ ~u.hasPin /\ s # "SETUP_PIN" => Nav(u, s) = u
<1>1. [u EXCEPT !.screen = s, !.feedback = "NONE", !.resetArmed = FALSE] \in Screens
    BY Messages DEF Screens
<1>2. CASE u.hasPin \/ s = "SETUP_PIN"
    <2>1. Nav(u, s) = [u EXCEPT !.screen = s, !.feedback = "NONE", !.resetArmed = FALSE]
        BY <1>2 DEF Nav
    <2> QED BY <1>1, <1>2, <2>1 DEF Screens, Kept, Passing
<1>3. CASE ~(u.hasPin \/ s = "SETUP_PIN")
    <2>1. Nav(u, s) = u
        BY <1>3 DEF Nav
    <2> QED BY <1>3, <2>1 DEF Kept, Passing
<1> QED BY <1>2, <1>3

LEMMA NavLeaves ==
    ASSUME NEW u \in Screens, NEW s \in Screen \ {"JOIN", "SETUP_PIN"}
    PROVE  Moved(u, Nav(u, s)) \/ (~u.hasPin /\ Quiet(u, Nav(u, s)))
<1>1. CASE u.hasPin
    BY <1>1, NavMoves DEF Moved, Kept
<1>2. CASE ~u.hasPin
    BY <1>2, NavMoves DEF Quiet
<1> QED BY <1>1, <1>2

LEMMA WizardMoves ==
    ASSUME NEW u \in Screens
    PROVE  Moved(u, WizardBegin(u)) \/ (~u.hasPin /\ Quiet(u, WizardBegin(u)))
<1>1. "CREATE" \in Screen
    BY DEF Screen
<1>2. CASE u.hasPin
    <2>1. WizardBegin(u) = [u EXCEPT !.field = 0, !.named = FALSE, !.screen = "CREATE",
                                     !.feedback = "NONE"]
        BY <1>2 DEF WizardBegin
    <2>2. [u EXCEPT !.field = 0, !.named = FALSE, !.screen = "CREATE", !.feedback = "NONE"]
              \in Screens
        BY <1>1, Messages DEF Screens
    <2> QED BY <1>2, <2>1, <2>2 DEF Screens, Kept, Passing, Moved
<1>3. CASE ~u.hasPin
    <2>1. WizardBegin(u) = u
        BY <1>3 DEF WizardBegin
    <2> QED BY <1>3, <2>1 DEF Kept, Passing, Quiet
<1> QED BY <1>2, <1>3

LEMMA TypedQuiet ==
    ASSUME NEW u \in Screens, NEW v \in Typed(u) PROVE Quiet(u, v)
<1>1. CASE u.screen = "CREATE"
    <2>1. v = [u EXCEPT !.named = TRUE] \/ v = u
        BY <1>1 DEF Typed, TypedName
    <2> QED BY <2>1 DEF Screens, Kept, Passing, Quiet
<1>2. CASE u.screen # "CREATE" /\ TypedEntry(u) = {}
    <2>1. v = u
        BY <1>2 DEF Typed
    <2> QED BY <2>1 DEF Kept, Passing, Quiet
<1>3. CASE u.screen # "CREATE" /\ TypedEntry(u) # {}
    <2>1. PICK new \in TypedEntry(u) : v = [new EXCEPT !.feedback = "NONE"]
        BY <1>3 DEF Typed
    <2>2. \/ new = [u EXCEPT !.draft = TRUE]
          \/ \E c \in Entry : new = [u EXCEPT !.entry = c]
        BY <2>1 DEF TypedEntry, Entry
    <2>3. CASE new = [u EXCEPT !.draft = TRUE]
        BY <2>1, <2>3, Messages DEF Screens, Kept, Passing, Quiet
    <2>4. ASSUME NEW c \in Entry, new = [u EXCEPT !.entry = c] PROVE Quiet(u, v)
        BY <2>1, <2>4, Messages DEF Screens, Kept, Passing, Quiet
    <2> QED BY <2>2, <2>3, <2>4
<1> QED BY <1>1, <1>2, <1>3

LEMMA BackspaceQuiet ==
    ASSUME NEW u \in Screens PROVE Quiet(u, Backspace(u))
<1>1. \/ Backspace(u) = [u EXCEPT !.entry = None]
      \/ Backspace(u) = [u EXCEPT !.draft = FALSE]
      \/ Backspace(u) = [u EXCEPT !.named = FALSE]
      \/ Backspace(u) = u
    BY DEF Backspace
<1>2. None \in Entry
    BY DEF Entry
<1>3. CASE Backspace(u) = [u EXCEPT !.entry = None]
    BY <1>2, <1>3 DEF Screens, Kept, Passing, Quiet
<1>4. CASE Backspace(u) = [u EXCEPT !.draft = FALSE]
    BY <1>4 DEF Screens, Kept, Passing, Quiet
<1>5. CASE Backspace(u) = [u EXCEPT !.named = FALSE]
    BY <1>5 DEF Screens, Kept, Passing, Quiet
<1>6. CASE Backspace(u) = u
    BY <1>6 DEF Kept, Passing, Quiet
<1> QED BY <1>1, <1>3, <1>4, <1>5, <1>6

LEMMA FieldQuiet ==
    ASSUME NEW u \in Screens PROVE Quiet(u, NextField(u)) /\ Quiet(u, PrevField(u))
<1>1. ASSUME NEW f \in Nat PROVE Quiet(u, [u EXCEPT !.field = f])
    BY DEF Screens, Kept, Passing, Quiet
<1>2. Quiet(u, u)
    BY DEF Kept, Passing, Quiet
<1>3. u.field \in Nat
    BY DEF Screens
<1>4. Quiet(u, [u EXCEPT !.field = u.field + 1])
    BY <1>1, <1>3
<1>5. u.field > 0 => Quiet(u, [u EXCEPT !.field = u.field - 1])
    BY <1>1, <1>3
<1>6. Quiet(u, NextField(u))
    BY <1>2, <1>4 DEF NextField
<1>7. Quiet(u, PrevField(u))
    BY <1>2, <1>5 DEF PrevField
<1> QED BY <1>6, <1>7

LEMMA NextDiscoveredQuiet ==
    ASSUME NEW u \in Screens PROVE Quiet(u, NextDiscovered(u))
<1>1. CASE u.found = <<>>
    BY <1>1 DEF NextDiscovered, Passing, Kept, Quiet
<1>2. CASE u.found # <<>>
    <2>1. Len(u.found) \in Nat \ {0} /\ u.choice \in Nat
        BY <1>2 DEF Screens
    <2>2. PICK k : k = (u.choice + 1) % Len(u.found)
        OBVIOUS
    <2>3. k \in Nat /\ k < Len(u.found)
        BY <2>1, <2>2
    <2>4. NextDiscovered(u) = [u EXCEPT !.choice = k]
        BY <1>2, <2>2 DEF NextDiscovered
    <2> QED BY <1>2, <2>3, <2>4 DEF Screens, Passing, Kept, Quiet
<1> QED BY <1>1, <1>2

LEMMA NextPeerQuiet ==
    ASSUME NEW u \in Screens, u.peers # 0 PROVE Quiet(u, NextPeer(u))
<1>1. (u.peer + 1) % u.peers \in Nat
    BY DEF Screens
<1> QED BY <1>1, Messages DEF Screens, NextPeer, Kept, Passing, Quiet

LEMMA NextMemberQuiet ==
    ASSUME NEW u \in Screens, u.members # 0 PROVE Quiet(u, NextMember(u))
<1>1. (u.member + 1) % u.members \in Nat
    BY DEF Screens
<1> QED BY <1>1, Messages DEF Screens, NextMember, Kept, Passing, Quiet

-----------------------------------------------------------------------------
(* The lists: who can be paid and who can be credited. *)

(* Only the list of payees has changed. *)
Listed(u, v) ==
    /\ v \in Screens
    /\ v.screen = u.screen /\ v.feedback = u.feedback /\ v.hasPin = u.hasPin
    /\ v.draft = u.draft /\ v.entry = u.entry
    /\ v.found = u.found /\ v.choice = u.choice
    /\ v.founder = u.founder /\ v.broken = u.broken /\ v.resetArmed = u.resetArmed

LEMMA ListedQuiet ==
    ASSUME NEW u, NEW v, Listed(u, v) PROVE Quiet(u, v)
BY DEF Listed, Quiet, Kept, Passing

LEMMA AtType ==
    ASSUME NEW S, NEW list \in Seq(S), list # <<>>, NEW i \in Nat
    PROVE  At(list, i) \in S
<1>1. Len(list) \in Nat \ {0}
    OBVIOUS
<1>2. i < Len(list) => i + 1 \in 1 .. Len(list)
    BY <1>1
<1> QED BY <1>1, <1>2 DEF At

LEMMA SetPaymentPeerLists ==
    ASSUME NEW u \in Screens, NEW p \in Peer \cup {None}, NEW i \in Nat, NEW n \in Nat
    PROVE  Listed(u, SetPaymentPeer(u, p, i, n))
           /\ SetPaymentPeer(u, p, i, n).credited = u.credited
<1>1. PICK k : k = IF n = 0 THEN 0 ELSE i % n
    OBVIOUS
<1>2. k \in Nat
    BY <1>1
<1>3. SetPaymentPeer(u, p, i, n) = [u EXCEPT !.peers = n, !.payee = p, !.peer = k]
    BY <1>1 DEF SetPaymentPeer
<1>4. [u EXCEPT !.peers = n, !.payee = p, !.peer = k] \in Screens
    BY <1>2 DEF Screens
<1> QED BY <1>3, <1>4 DEF Screens, Listed

LEMMA SetCreditMemberLists ==
    ASSUME NEW u \in Screens, NEW p \in Peer \cup {None}, NEW i \in Nat, NEW n \in Nat
    PROVE  Listed(u, SetCreditMember(u, p, i, n))
<1>1. PICK k : k = IF n = 0 THEN 0 ELSE i % n
    OBVIOUS
<1>2. k \in Nat
    BY <1>1
<1>3. SetCreditMember(u, p, i, n) = [u EXCEPT !.members = n, !.credited = p, !.member = k]
    BY <1>1 DEF SetCreditMember
<1>4. [u EXCEPT !.members = n, !.credited = p, !.member = k] \in Screens
    BY <1>2 DEF Screens
<1> QED BY <1>3, <1>4 DEF Screens, Listed

(* Inductions over numbers, with a set in the place of a predicate. *)

(* A set of naturals has a least element. *)
LEMMA Least ==
    ASSUME NEW T \in SUBSET Nat, T # {}
    PROVE  \E m \in T : \A k \in T : m <= k
<1> DEFINE R == {ss \in Nat \X Nat : ss[1] < ss[2]}
<1>1. IsWellFoundedOn(R, Nat)
    BY NatLessThanWellFounded DEF OpToRel
<1>2. PICK m \in T : \A k \in T : ~(<<k, m>> \in R)
    BY <1>1, WFMin
<1>3. \A k \in T : ~(k < m)
    BY <1>2
<1> QED BY <1>3

(* A set that has 0 and passes on from each number to the next. *)
LEMMA UpTo ==
    ASSUME NEW max \in Nat, NEW S \in SUBSET (0 .. max),
           0 \in S, \A i \in S : i < max => i + 1 \in S
    PROVE  S = 0 .. max
<1> SUFFICES ASSUME S # 0 .. max PROVE FALSE
    OBVIOUS
<1> DEFINE T == (0 .. max) \ S
<1>1. PICK m \in T : \A k \in T : m <= k
    <2>1. T \subseteq Nat
        OBVIOUS
    <2>2. \E i \in 0 .. max : i \notin S
        OBVIOUS
    <2> QED BY <2>1, <2>2, Least
<1>2. m \in Nat /\ m <= max /\ m # 0 /\ m - 1 \in 0 .. max
    BY <1>1
<1>3. m - 1 \in S
    BY <1>1, <1>2
<1> QED BY <1>1, <1>2, <1>3

(* Paid fills in the payees one announced peer after the other. *)
Paying(Paid, n) ==
    Paid = [i \in 0 .. n |->
              IF i = 0 THEN <<>>
              ELSE IF IsMember(heard[i]) THEN Append(Paid[i - 1], heard[i]) ELSE Paid[i - 1]]

LEMMA PayeesType == ASSUME heard \in Seq(Peer) PROVE Payees \in Seq(Peer)
<1> DEFINE T == {n \in 0 .. Len(heard) : \E Paid : Paying(Paid, n)}
<1>0. Len(heard) \in Nat
    OBVIOUS
<1>1. 0 \in T
    <2> DEFINE Paid == [i \in 0 .. 0 |-> <<>>]
    <2>1. Paid = [i \in 0 .. 0 |->
              IF i = 0 THEN <<>>
              ELSE IF IsMember(heard[i]) THEN Append(Paid[i - 1], heard[i]) ELSE Paid[i - 1]]
        OBVIOUS
    <2> HIDE DEF Paid
    <2> QED BY <2>1 DEF Paying
<1>2. ASSUME NEW n \in T, n < Len(heard) PROVE n + 1 \in T
    <2> SUFFICES \E Paid : Paying(Paid, n + 1)
        BY <1>0, <1>2
    <2>1. n \in Nat
        OBVIOUS
    <2>2. PICK F : Paying(F, n)
        BY <2>1, <1>0
    <2> DEFINE Next1 == IF IsMember(heard[n + 1]) THEN Append(F[n], heard[n + 1]) ELSE F[n]
               G == [i \in 0 .. n + 1 |-> IF i = n + 1 THEN Next1 ELSE F[i]]
    <2>3. ASSUME NEW i \in 0 .. n + 1
          PROVE  G[i] = IF i = 0 THEN <<>>
                        ELSE IF IsMember(heard[i]) THEN Append(G[i - 1], heard[i]) ELSE G[i - 1]
        <3>1. CASE i = n + 1
            <4>1. i # 0 /\ i - 1 = n /\ n \in 0 .. n + 1 /\ n # n + 1
                BY <2>1, <3>1
            <4> QED BY <3>1, <4>1
        <3>2. CASE i # n + 1
            <4>1. i \in 0 .. n /\ (i # 0 => i - 1 \in 0 .. n + 1 /\ i - 1 # n + 1)
                BY <2>1, <3>2
            <4>2. F[i] = IF i = 0 THEN <<>>
                         ELSE IF IsMember(heard[i]) THEN Append(F[i - 1], heard[i]) ELSE F[i - 1]
                BY <2>2, <4>1, Zenon DEF Paying
            <4> QED BY <3>2, <4>1, <4>2
        <3> QED BY <3>1, <3>2
    <2>4. G = [i \in 0 .. n + 1 |-> G[i]]
        OBVIOUS
    <2>5. Paying(G, n + 1)
        <3> HIDE DEF G
        <3> QED BY <2>3, <2>4 DEF Paying
    <2> QED BY <2>5
<1>3. T = 0 .. Len(heard)
    <2> HIDE DEF T
    <2>1. T \in SUBSET (0 .. Len(heard))
        BY DEF T
    <2> QED BY <1>0, <1>1, <1>2, <2>1, UpTo
<1>4. \E Paid : Paying(Paid, Len(heard))
    BY <1>0, <1>3
<1>5. PICK Paid : Paid = CHOOSE F : Paying(F, Len(heard))
    OBVIOUS
<1>6. Paying(Paid, Len(heard))
    BY <1>4, <1>5
<1> DEFINE Q == {n \in 0 .. Len(heard) : Paid[n] \in Seq(Peer)}
<1>7. 0 \in Q
    BY <1>0, <1>6 DEF Paying
<1>8. ASSUME NEW n \in Q, n < Len(heard) PROVE n + 1 \in Q
    <2> SUFFICES Paid[n + 1] \in Seq(Peer)
        BY <1>0, <1>8
    <2>1. n \in Nat /\ n + 1 \in 1 .. Len(heard) /\ (n + 1) - 1 = n
        BY <1>0, <1>8
    <2>2. n + 1 # 0 /\ n + 1 \in 0 .. Len(heard)
        BY <2>1
    <2>3. Paid[n + 1] = IF IsMember(heard[n + 1]) THEN Append(Paid[n], heard[n + 1]) ELSE Paid[n]
        BY <1>6, <2>1, <2>2 DEF Paying
    <2>4. heard[n + 1] \in Peer /\ Paid[n] \in Seq(Peer)
        BY <2>1
    <2> QED BY <2>3, <2>4
<1>9. Q = 0 .. Len(heard)
    <2> HIDE DEF Q
    <2>1. Q \in SUBSET (0 .. Len(heard))
        BY DEF Q
    <2> QED BY <1>0, <1>7, <1>8, <2>1, UpTo
<1>10. Paid[Len(heard)] \in Seq(Peer)
    BY <1>0, <1>9
<1>11. Payees = IF Member THEN Paid[Len(heard)] ELSE heard
    BY <1>5 DEF Payees, Paying
<1> QED BY <1>10, <1>11

LEMMA RefreshPayeeLists ==
    ASSUME heard \in Seq(Peer), NEW u \in Screens
    PROVE  Listed(u, RefreshPayee(u)) /\ RefreshPayee(u).credited = u.credited
<1>1. PICK list : list = Payees
    OBVIOUS
<1>2. list \in Seq(Peer)
    BY <1>1, PayeesType
<1>3. u.peer \in Nat /\ Len(list) \in Nat /\ 0 \in Nat
    BY <1>2 DEF Screens
<1>4. CASE list = <<>>
    <2>1. RefreshPayee(u) = SetPaymentPeer(u, None, 0, 0)
        BY <1>1, <1>4 DEF RefreshPayee
    <2> QED BY <1>3, <2>1, SetPaymentPeerLists
<1>5. CASE list # <<>>
    <2>1. PICK i : i = IF u.peer < Len(list) THEN u.peer ELSE 0
        OBVIOUS
    <2>2. RefreshPayee(u) = SetPaymentPeer(u, At(list, u.peer), i, Len(list))
        BY <1>1, <1>5, <2>1 DEF RefreshPayee
    <2>3. i \in Nat /\ At(list, u.peer) \in Peer \cup {None}
        BY <1>2, <1>3, <1>5, <2>1, AtType
    <2> QED BY <1>3, <2>2, <2>3, SetPaymentPeerLists
<1> QED BY <1>4, <1>5

LEMMA RefreshCreditedLists ==
    ASSUME members \in Seq(Peer), NEW u \in Screens
    PROVE  Listed(u, RefreshCredited(u))
<1>3. u.member \in Nat /\ Len(members) \in Nat /\ 0 \in Nat
    BY DEF Screens
<1>4. CASE members = <<>>
    <2>1. RefreshCredited(u) = SetCreditMember(u, None, 0, 0)
        BY <1>4 DEF RefreshCredited
    <2> QED BY <1>3, <2>1, SetCreditMemberLists
<1>5. CASE members # <<>>
    <2>1. PICK i : i = IF u.member < Len(members) THEN u.member ELSE 0
        OBVIOUS
    <2>2. RefreshCredited(u) = SetCreditMember(u, At(members, u.member), i, Len(members))
        BY <1>5, <2>1 DEF RefreshCredited
    <2>3. i \in Nat /\ At(members, u.member) \in Peer \cup {None}
        BY <1>3, <1>5, <2>1, AtType
    <2> QED BY <1>3, <2>2, <2>3, SetCreditMemberLists
<1> QED BY <1>4, <1>5

LEMMA RefreshedLists ==
    ASSUME heard \in Seq(Peer), members \in Seq(Peer), NEW u \in Screens
    PROVE  /\ Listed(u, Refreshed(u))
           /\ u.screen # "CREDIT" => Refreshed(u).credited = u.credited
<1>1. PICK v : v = RefreshPayee(u)
    OBVIOUS
<1>2. Listed(u, v) /\ v.credited = u.credited
    BY <1>1, RefreshPayeeLists
<1>3. v \in Screens
    BY <1>2 DEF Listed
<1>4. Listed(v, RefreshCredited(v))
    BY <1>3, RefreshCreditedLists
<1>5. Listed(u, RefreshCredited(v))
    BY <1>2, <1>4 DEF Listed
<1> QED BY <1>1, <1>2, <1>5 DEF Refreshed

LEMMA TouchedLists ==
    ASSUME Shape PROVE Listed(ui, Touched)
<1>1. heard \in Seq(Peer) /\ members \in Seq(Peer) /\ ui \in Screens
    BY DEF Shape
<1>2. Listed(ui, ui)
    BY <1>1 DEF Listed
<1> QED BY <1>1, <1>2, RefreshedLists DEF Touched
-----------------------------------------------------------------------------
(* What a press can reach. *)

LEMMA Joined ==
    ASSUME NEW S, NEW T, NEW s \in Seq(S), NEW t \in Seq(T)
    PROVE  s \o t \in Seq(S \cup T)
OBVIOUS

LEMMA OnButtonAmong ==
    ASSUME NEW B, Buttons(ui) \in Seq(B) PROVE OnButton \subseteq B
BY DEF OnButton

LEMMA MenuButtons ==
    ASSUME ui.screen = "CURRENCY_MENU"
    PROVE  OnButton \subseteq {"SHOW_CODE", "HOME", "CREATE", "JOIN"}
                              \cup IF ui.founder THEN {"CREDIT"} ELSE {}
<1> DEFINE C == IF ui.founder THEN {"CREDIT"} ELSE {}
           B == {"SHOW_CODE", "HOME", "CREATE", "JOIN"} \cup C
           first == IF ui.founder THEN <<"CREDIT">> ELSE <<>>
           second == IF ui.join = "IDLE" THEN <<"CREATE", "JOIN">> ELSE <<>>
<1>1. Buttons(ui) = IF ui.join = "MEMBER" THEN first \o <<"SHOW_CODE", "HOME">>
                    ELSE second \o <<"HOME">>
    BY DEF Buttons, InfoButtons, CurrencyButtons
<1>2. first \in Seq(B) /\ second \in Seq(B)
    <2>1. <<>> \in Seq(B) /\ <<"CREATE", "JOIN">> \in Seq(B)
        OBVIOUS
    <2>2. ui.founder => "CREDIT" \in B
        OBVIOUS
    <2>3. ui.founder => <<"CREDIT">> \in Seq(B)
        <3> HIDE DEF B
        <3> QED BY <2>2
    <2> HIDE DEF B
    <2> QED BY <2>1, <2>3
<1>3. <<"SHOW_CODE", "HOME">> \in Seq(B) /\ <<"HOME">> \in Seq(B)
    OBVIOUS
<1>4. Buttons(ui) \in Seq(B)
    <2> HIDE DEF B, first, second
    <2> QED BY <1>1, <1>2, <1>3
<1> HIDE DEF B
<1> QED BY <1>4, OnButtonAmong DEF B

LEMMA NetworkButtons ==
    ASSUME ui.screen = "NETWORK"
    PROVE  OnButton \subseteq {"HOME", "CURRENCY"}
                              \cup IF ui.broken THEN {"STORAGE_RESET"} ELSE {}
<1> DEFINE B == {"HOME", "CURRENCY"} \cup IF ui.broken THEN {"STORAGE_RESET"} ELSE {}
           first == IF ui.broken THEN <<"STORAGE_RESET">> ELSE <<>>
<1>1. Buttons(ui) = first \o <<"HOME", "CURRENCY">>
    BY DEF Buttons, InfoButtons
<1>2. first \in Seq(B)
    <2>1. ui.broken => "STORAGE_RESET" \in B
        OBVIOUS
    <2> HIDE DEF B
    <2>2. ui.broken => <<"STORAGE_RESET">> \in Seq(B)
        BY <2>1
    <2> QED BY <2>2
<1>3. <<"HOME", "CURRENCY">> \in Seq(B)
    OBVIOUS
<1>4. Buttons(ui) \in Seq(B)
    <2> HIDE DEF B, first
    <2> QED BY <1>1, <1>2, <1>3
<1> HIDE DEF B
<1> QED BY <1>4, OnButtonAmong DEF B

LEMMA FewOf ==
    ASSUME NEW S, NEW a \in S, NEW b \in S, NEW c \in S, NEW d \in S
    PROVE  /\ <<a>> \in Seq(S) /\ <<a, b>> \in Seq(S)
           /\ <<a, b, c>> \in Seq(S) /\ <<a, b, c, d>> \in Seq(S)
OBVIOUS

(* Everywhere else neither the reset nor the credit is on a button. *)
LEMMA OtherButtons ==
    ASSUME ui.screen \in Screen \ {"CURRENCY_MENU", "NETWORK"}
    PROVE  /\ OnButton \cap {"CREDIT", "STORAGE_RESET"} = {}
           /\ ui.screen = "SETUP_PIN" => OnButton \cap {"JOIN", "SHOW_CODE"} = {}
<1> DEFINE B == {"CONFIRM", "BACKSPACE", "CLEAR", "PAY", "HOME", "RECEIVE", "HISTORY", "NETWORK",
                 "NEXT_PEER", "NEXT_DISCOVERED", "JOIN_CODE", "NEXT_MEMBER", "PREV_FIELD",
                 "NEXT_FIELD"}
<1>1. CASE ui.screen = "JOIN"
    <2> DEFINE first == IF ui.found = <<>> THEN <<>> ELSE <<"CONFIRM", "NEXT_DISCOVERED">>
    <2>1. Buttons(ui) = first \o <<"JOIN_CODE", "HOME">>
        BY <1>1 DEF Buttons, InfoButtons, CurrencyButtons
    <2>2. first \in Seq(B) /\ <<"JOIN_CODE", "HOME">> \in Seq(B)
        <3>1. "CONFIRM" \in B /\ "NEXT_DISCOVERED" \in B /\ "JOIN_CODE" \in B /\ "HOME" \in B
            OBVIOUS
        <3> HIDE DEF B
        <3>2. <<"CONFIRM", "NEXT_DISCOVERED">> \in Seq(B) /\ <<"JOIN_CODE", "HOME">> \in Seq(B)
            BY <3>1
        <3> QED BY <3>2
    <2>3. Buttons(ui) \in Seq(B)
        <3> HIDE DEF B, first
        <3> QED BY <2>1, <2>2
    <2>4. OnButton \subseteq B
        <3> HIDE DEF B
        <3> QED BY <2>3, OnButtonAmong
    <2> QED BY <1>1, <2>4
<1>2. CASE ui.screen \in {"SETUP_PIN", "HOME", "PAYEE", "PAY", "RECEIVE", "HISTORY"}
    <2>1. /\ ui.screen = "SETUP_PIN" => Buttons(ui) = <<"CONFIRM", "BACKSPACE">>
          /\ ui.screen = "HOME" => Buttons(ui) = <<"PAY", "RECEIVE", "HISTORY", "NETWORK">>
          /\ ui.screen = "PAYEE" => Buttons(ui) = <<"CONFIRM", "NEXT_PEER", "HOME">>
          /\ ui.screen = "PAY" => Buttons(ui) = <<"CONFIRM", "BACKSPACE", "PAY", "CLEAR">>
          /\ ui.screen = "RECEIVE" => Buttons(ui) = <<"HOME", "PAY", "HISTORY", "NETWORK">>
          /\ ui.screen = "HISTORY" => Buttons(ui) = <<"HOME", "PAY">>
        BY DEF Buttons, InfoButtons
    <2>2. Buttons(ui) \in Seq(B)
        <3>1. /\ "CONFIRM" \in B /\ "BACKSPACE" \in B /\ "CLEAR" \in B /\ "PAY" \in B
              /\ "HOME" \in B /\ "RECEIVE" \in B /\ "HISTORY" \in B /\ "NETWORK" \in B
              /\ "NEXT_PEER" \in B /\ "NEXT_MEMBER" \in B /\ "PREV_FIELD" \in B
              /\ "NEXT_FIELD" \in B
            OBVIOUS
        <3> HIDE DEF B
        <3>2. ui.screen = "SETUP_PIN" => Buttons(ui) \in Seq(B)
            <4>1. <<"CONFIRM", "BACKSPACE">> \in Seq(B)
                BY <3>1, FewOf
            <4> QED BY <2>1, <4>1
        <3>3. ui.screen = "HOME" => Buttons(ui) \in Seq(B)
            <4>1. <<"PAY", "RECEIVE", "HISTORY", "NETWORK">> \in Seq(B)
                BY <3>1, FewOf
            <4> QED BY <2>1, <4>1
        <3>4. ui.screen = "PAYEE" => Buttons(ui) \in Seq(B)
            <4>1. <<"CONFIRM", "NEXT_PEER", "HOME">> \in Seq(B)
                BY <3>1, FewOf
            <4> QED BY <2>1, <4>1
        <3>5. ui.screen = "PAY" => Buttons(ui) \in Seq(B)
            <4>1. <<"CONFIRM", "BACKSPACE", "PAY", "CLEAR">> \in Seq(B)
                BY <3>1, FewOf
            <4> QED BY <2>1, <4>1
        <3>6. ui.screen = "RECEIVE" => Buttons(ui) \in Seq(B)
            <4>1. <<"HOME", "PAY", "HISTORY", "NETWORK">> \in Seq(B)
                BY <3>1, FewOf
            <4> QED BY <2>1, <4>1
        <3>7. ui.screen = "HISTORY" => Buttons(ui) \in Seq(B)
            <4>1. <<"HOME", "PAY">> \in Seq(B)
                BY <3>1, FewOf
            <4> QED BY <2>1, <4>1
        <3> QED BY <1>2, <3>2, <3>3, <3>4, <3>5, <3>6, <3>7
    <2>3. OnButton \subseteq B
        <3> HIDE DEF B
        <3> QED BY <2>2, OnButtonAmong
    <2> QED BY <2>3
<1>3. CASE ui.screen \in {"JOIN_CODE", "FOUNDER_CODE", "CREDIT", "CREATE"}
    <2>1. /\ ui.screen = "JOIN_CODE" => Buttons(ui) = <<"CONFIRM", "BACKSPACE", "CLEAR", "HOME">>
          /\ ui.screen = "FOUNDER_CODE" => Buttons(ui) = <<"HOME">>
          /\ ui.screen = "CREDIT" =>
                Buttons(ui) = <<"CONFIRM", "NEXT_MEMBER", "BACKSPACE", "HOME">>
          /\ ui.screen = "CREATE" =>
                Buttons(ui) = <<"PREV_FIELD", "NEXT_FIELD", "CONFIRM", "HOME">>
        BY DEF Buttons, InfoButtons, CurrencyButtons
    <2>2. Buttons(ui) \in Seq(B)
        <3>1. /\ "CONFIRM" \in B /\ "BACKSPACE" \in B /\ "CLEAR" \in B /\ "PAY" \in B
              /\ "HOME" \in B /\ "RECEIVE" \in B /\ "HISTORY" \in B /\ "NETWORK" \in B
              /\ "NEXT_PEER" \in B /\ "NEXT_MEMBER" \in B /\ "PREV_FIELD" \in B
              /\ "NEXT_FIELD" \in B
            OBVIOUS
        <3> HIDE DEF B
        <3>2. ui.screen = "JOIN_CODE" => Buttons(ui) \in Seq(B)
            <4>1. <<"CONFIRM", "BACKSPACE", "CLEAR", "HOME">> \in Seq(B)
                BY <3>1, FewOf
            <4> QED BY <2>1, <4>1
        <3>3. ui.screen = "FOUNDER_CODE" => Buttons(ui) \in Seq(B)
            <4>1. <<"HOME">> \in Seq(B)
                BY <3>1, FewOf
            <4> QED BY <2>1, <4>1
        <3>4. ui.screen = "CREDIT" => Buttons(ui) \in Seq(B)
            <4>1. <<"CONFIRM", "NEXT_MEMBER", "BACKSPACE", "HOME">> \in Seq(B)
                BY <3>1, FewOf
            <4> QED BY <2>1, <4>1
        <3>5. ui.screen = "CREATE" => Buttons(ui) \in Seq(B)
            <4>1. <<"PREV_FIELD", "NEXT_FIELD", "CONFIRM", "HOME">> \in Seq(B)
                BY <3>1, FewOf
            <4> QED BY <2>1, <4>1
        <3> QED BY <1>3, <3>2, <3>3, <3>4, <3>5
    <2>3. OnButton \subseteq B
        <3> HIDE DEF B
        <3> QED BY <2>2, OnButtonAmong
    <2> QED BY <1>3, <2>3
<1> QED BY <1>1, <1>2, <1>3 DEF Screen

LEMMA Reaching ==
    ASSUME ui.screen \in Screen
    PROVE  /\ "STORAGE_RESET" \in Reached =>
                  "STORAGE_RESET" \in OnButton /\ ui.screen = "NETWORK" /\ ui.broken
           /\ "CREDIT" \in Reached => ui.founder
           /\ ui.screen = "SETUP_PIN" => Reached \cap {"JOIN", "SHOW_CODE"} = {}
           /\ ui.screen = "NETWORK" =>
                  OnButton \subseteq {"HOME", "CURRENCY", "STORAGE_RESET"}
           /\ board = "waveshare" => "CREATE" \notin Reached
<1>1. \A a \in {"STORAGE_RESET", "CREDIT", "JOIN", "SHOW_CODE"} :
          a \in Reached => a \in OnButton
    BY DEF Reached, OnKeys, OnSoftKeys, OnKeypad
<1>2. board = "waveshare" => "CREATE" \notin Reached
    BY DEF Reached, OnSoftKeys, OnKeypad
<1> QED BY <1>1, <1>2, MenuButtons, NetworkButtons, OtherButtons
-----------------------------------------------------------------------------
(* The user.  Every press takes the glass away. *)

LEMMA NoDeferKind ==
    /\ NoDefer.kind = None
    /\ None \notin {"CREATE", "JOIN_CODE", "DISCOVER", "JOIN_DISCOVERED", "SHOW_CODE", "RESET", "TELL"}
BY WalletDeskAssumption DEF NoDefer

LEMMA BlankSays == ASSUME glass' = Blank PROVE ~Named'
BY DEF Blank, Named

(* The parts of the state that a press leaves alone. *)
LEMMA PressShape ==
    ASSUME DInv, NEW d, task.at = "poll", task' = [task EXCEPT !.defer = d], pressed' \in BOOLEAN,
           ui' \in Screens, ui'.broken = ui.broken,
           Kept(ui, ui') \/ (ui'.found = <<>> /\ ui'.choice = 0),
           core' \in Seq(Event), Len(core') <= QueueMax,
           UNCHANGED <<rt, heard, members, board>>
    PROVE  /\ Shape' /\ Points' /\ Stored'
           /\ task' = [at |-> "poll", defer |-> d, js |-> task.js, list |-> task.list]
<1>1. task' = [at |-> "poll", defer |-> d, js |-> task.js, list |-> task.list]
    BY DEF DInv, Shape
<1>2. FoundMax \in Nat \ {0} /\ ui'.choice \in Nat /\ Len(ui.found) \in Nat
    BY WalletDeskAssumption DEF Screens, DInv, Shape
<1>3. ui'.choice < FoundMax /\ Len(ui'.found) <= FoundMax
    <2>1. CASE Kept(ui, ui')
        BY <1>2, <2>1 DEF Kept, DInv, Shape
    <2>2. CASE ui'.found = <<>> /\ ui'.choice = 0
        BY <1>2, <2>2
    <2> QED BY <2>1, <2>2
<1>4. Shape'
    BY <1>1, <1>3 DEF DInv, Shape
<1>5. Points'
    BY DEF DInv, Points, Kept
<1>6. Stored'
    BY DEF DInv, Stored
<1> QED BY <1>1, <1>4, <1>5, <1>6

LEMMA PressKeeps ==
    ASSUME DInv, NEW a, Pressed(a, NoDefer), task.defer = NoDefer,
           \/ Moved(ui, ui')
           \/ Quiet(ui, ui') /\ (a \in {"HOME", "CURRENCY"} => ~ui.hasPin),
           board = "waveshare" => ui'.screen \notin {"CREATE", "CREDIT"},
           core' \in Seq(Event), Len(core') <= QueueMax, ui.hasPin \/ core' = core,
           UNCHANGED <<rt, heard, members, asked, board>>
    PROVE  DInv' /\ Passing(ui, ui')
<1>1. Kept(ui, ui')
    BY DEF Moved, Quiet
<1>2. pressed' \in BOOLEAN
    BY DEF Pressed, DInv, Shape
<1>3. /\ Shape' /\ Points' /\ Stored'
      /\ task' = [at |-> "poll", defer |-> NoDefer, js |-> task.js, list |-> task.list]
    <2>1. ui' \in Screens /\ ui'.broken = ui.broken
        BY <1>1 DEF Kept
    <2>2. task.at = "poll" /\ task' = [task EXCEPT !.defer = NoDefer]
        BY DEF Pressed
    <2>3. PICK d : d = NoDefer
        OBVIOUS
    <2> QED BY <1>1, <1>2, <2>1, <2>2, <2>3, PressShape
<1>4. task'.defer = NoDefer /\ task'.at = "poll"
    BY <1>3
<1>5. task'.defer.kind \notin {"CREATE", "JOIN_CODE", "DISCOVER", "JOIN_DISCOVERED", "RESET", "TELL"}
    BY <1>4, NoDeferKind
<1>6. Pinned'
    BY <1>4 DEF DInv, Pinned, Moved, Quiet, Kept
<1>7. Lists'
    BY <1>1, <1>4, <1>5 DEF DInv, Lists, Kept
<1>8. ArmedIsAsked'
    <2>1. ui'.screen = "JOIN" => ui.screen = "JOIN" /\ task.defer.kind # "DISCOVER"
        BY NoDeferKind DEF Moved, Quiet
    <2> QED BY <1>5, <2>1 DEF DInv, ArmedIsAsked
<1>9. ChoiceIsAsked' /\ TrueTold'
    BY <1>5 DEF ChoiceIsAsked, TrueTold
<1>10. GlassIsTrue'
    BY BlankSays DEF Pressed, GlassIsTrue
<1>11. NoText'
    BY <1>1, <1>5 DEF DInv, NoText, Kept
<1>12. ResetInv'
    <2>1. SUFFICES ASSUME ui'.resetArmed, ui'.screen = "NETWORK" PROVE pressed'
        BY <1>5 DEF ResetInv
    <2>2. Quiet(ui, ui') /\ ui.screen = "NETWORK" /\ ui.resetArmed /\ a \notin {"HOME", "CURRENCY"}
        BY <2>1 DEF Moved, Quiet, DInv, Pinned
    <2>3. pressed
        BY <2>2 DEF DInv, ResetInv
    <2>4. ui.screen \in Screen
        BY <2>2 DEF Screen
    <2>5. a \in OnButton => a = "STORAGE_RESET"
        BY <2>2, <2>4, Reaching
    <2> QED BY <2>3, <2>5 DEF Pressed
<1>13. Passing(ui, ui')
    BY DEF Moved, Quiet
<1> QED BY <1>3, <1>6, <1>7, <1>8, <1>9, <1>10, <1>11, <1>12, <1>13 DEF DInv

(* A payee or a member is refreshed: the screen stays. *)
LEMMA StillQuiet == ASSUME NEW u \in Screens PROVE Quiet(u, u)
BY DEF Quiet, Kept, Passing

LEMMA TouchedQuiet == ASSUME DInv PROVE Touched \in Screens /\ Quiet(ui, Touched)
BY TouchedLists, ListedQuiet DEF DInv, Quiet, Kept

LEMMA PlainScreens ==
    ASSUME DInv, NEW a \in Action, PressPlain(a)
    PROVE  /\ \/ Moved(ui, ui')
              \/ Quiet(ui, ui') /\ (a \in {"HOME", "CURRENCY"} => ~ui.hasPin)
           /\ board = "waveshare" => ui'.screen \notin {"CREATE", "CREDIT"}
<1>1. PICK u : u = Touched
    OBVIOUS
<1>2. u \in Screens /\ Quiet(ui, u)
    BY <1>1, TouchedQuiet
<1>3. heard \in Seq(Peer) /\ members \in Seq(Peer) /\ ui.screen \in Screen
    BY DEF DInv, Shape, Screens
<1>4. a \in Reached
    BY DEF PressPlain, Pressed
<1>5. board = "waveshare" => a # "CREATE" /\ a # "CREDIT" /\ ui.screen \notin {"CREATE", "CREDIT"}
    BY <1>3, <1>4, Reaching DEF DInv, NoText
<1>6. (ui.hasPin => u.hasPin) /\ u.screen = ui.screen
    BY <1>2 DEF Quiet, Kept
<1>7. ASSUME NEW w, Moved(u, w) \/ (~u.hasPin /\ Quiet(u, w)) \/ (a \notin {"HOME", "CURRENCY"} /\ Quiet(u, w))
      PROVE  Moved(ui, w) \/ (Quiet(ui, w) /\ (a \in {"HOME", "CURRENCY"} => ~ui.hasPin))
    <2>1. CASE Moved(u, w)
        BY <1>2, <2>1, QuietMoved
    <2>2. CASE Quiet(u, w) /\ (~u.hasPin \/ a \notin {"HOME", "CURRENCY"})
        BY <1>2, <1>6, <2>2, QuietTwice
    <2> QED BY <1>7, <2>1, <2>2
<1>8. \A s \in Screen : Nav(u, s).screen \in {s, u.screen}
    BY <1>2, NavMoves
<1>9. CASE a \in {"HOME", "PAY"}
    <2>1. PICK v : v = IF a = "PAY" /\ u.screen = "PAY" THEN u ELSE ClearEntry(u)
        OBVIOUS
    <2>2. Quiet(u, v)
        BY <1>2, <2>1, StillQuiet, ClearEntryQuiet
    <2>3. v \in Screens
        BY <2>2 DEF Quiet, Kept
    <2>4. Listed(v, RefreshPayee(v))
        BY <1>3, <2>3, RefreshPayeeLists
    <2>5. PICK w : w = IF a = "PAY" THEN RefreshPayee(v) ELSE v
        OBVIOUS
    <2>6. Quiet(v, w)
        BY <2>3, <2>4, <2>5, ListedQuiet, StillQuiet
    <2>7. Quiet(u, w)
        BY <2>2, <2>6, QuietTwice
    <2>8. w \in Screens /\ (u.hasPin => w.hasPin) /\ w.screen = u.screen
        BY <2>7 DEF Quiet, Kept
    <2>9. PICK s \in {"HOME", "PAYEE"} : ui' = Nav(w, s)
        BY <1>1, <1>9, <2>1, <2>5 DEF PressPlain
    <2>10. s \in Screen \ {"JOIN", "SETUP_PIN"}
        BY DEF Screen
    <2>11. Moved(w, ui') \/ (~w.hasPin /\ Quiet(w, ui'))
        BY <2>8, <2>9, <2>10, NavLeaves
    <2>12. Moved(u, ui') \/ (~u.hasPin /\ Quiet(u, ui'))
        BY <2>7, <2>8, <2>11, QuietMoved, QuietTwice
    <2>13. ui'.screen \in {s, u.screen}
        BY <2>8, <2>9, <2>10, NavMoves
    <2> QED BY <1>5, <1>6, <1>7, <2>12, <2>13
<1>10. CASE a \in {"RECEIVE", "HISTORY", "NETWORK", "CURRENCY"}
    <2>1. PICK s \in {"RECEIVE", "HISTORY", "NETWORK", "CURRENCY_MENU"} : ui' = Nav(u, s)
        BY <1>1, <1>10 DEF PressPlain
    <2>2. s \in Screen \ {"JOIN", "SETUP_PIN"}
        BY DEF Screen
    <2>3. Moved(u, ui') \/ (~u.hasPin /\ Quiet(u, ui'))
        BY <1>2, <2>1, <2>2, NavLeaves
    <2> QED BY <1>5, <1>6, <1>7, <1>8, <2>1, <2>2, <2>3
<1>11. CASE a = "CREATE"
    <2>1. ui' = WizardBegin(u)
        BY <1>1, <1>11 DEF PressPlain
    <2> QED BY <1>2, <1>5, <1>7, <1>11, <2>1, WizardMoves
<1>12. CASE a = "JOIN_CODE"
    <2>1. PICK v : v = ClearEntry(u)
        OBVIOUS
    <2>2. Quiet(u, v) /\ v \in Screens
        BY <1>2, <2>1, ClearEntryQuiet DEF Quiet, Kept
    <2>3. ui' = Nav(v, "JOIN_CODE")
        BY <1>1, <1>12, <2>1 DEF PressPlain
    <2>4. "JOIN_CODE" \in Screen \ {"JOIN", "SETUP_PIN"}
        BY DEF Screen
    <2>5. Moved(v, ui') \/ (~v.hasPin /\ Quiet(v, ui'))
        BY <2>2, <2>3, <2>4, NavLeaves
    <2>6. Moved(u, ui') \/ (~u.hasPin /\ Quiet(u, ui'))
        BY <2>2, <2>5, QuietMoved, QuietTwice DEF Quiet, Kept
    <2>7. ui'.screen \in {"JOIN_CODE", u.screen}
        BY <2>2, <2>3, <2>4, NavMoves DEF Quiet
    <2> QED BY <1>5, <1>6, <1>7, <2>6, <2>7
<1>13. CASE a = "CREDIT"
    <2>1. PICK v : v = ClearEntry(u)
        OBVIOUS
    <2>2. Quiet(u, v) /\ v \in Screens
        BY <1>2, <2>1, ClearEntryQuiet DEF Quiet, Kept
    <2>3. PICK w : w = RefreshCredited(v)
        OBVIOUS
    <2>4. Quiet(v, w)
        BY <1>3, <2>2, <2>3, RefreshCreditedLists, ListedQuiet
    <2>5. Quiet(u, w) /\ w \in Screens
        BY <2>2, <2>4, QuietTwice DEF Quiet, Kept
    <2>6. ui' = Nav(w, "CREDIT")
        BY <1>1, <1>13, <2>1, <2>3 DEF PressPlain
    <2>7. "CREDIT" \in Screen \ {"JOIN", "SETUP_PIN"}
        BY DEF Screen
    <2>8. Moved(w, ui') \/ (~w.hasPin /\ Quiet(w, ui'))
        BY <2>5, <2>6, <2>7, NavLeaves
    <2>9. Moved(u, ui') \/ (~u.hasPin /\ Quiet(u, ui'))
        BY <2>5, <2>8, QuietMoved, QuietTwice DEF Quiet, Kept
    <2> QED BY <1>5, <1>7, <1>13, <2>9
<1>14. CASE a \in {"NEXT_DISCOVERED", "NEXT_PEER", "NEXT_MEMBER", "NEXT_FIELD", "PREV_FIELD",
                   "BACKSPACE", "CLEAR", "TYPE"}
    <2>1. Quiet(u, ui')
        <3>1. CASE a = "NEXT_DISCOVERED"
            BY <1>1, <1>2, <3>1, NextDiscoveredQuiet DEF PressPlain
        <3>2. CASE a = "NEXT_PEER"
            <4>1. CASE u.peers = 0
                BY <1>1, <1>2, <3>2, <4>1, StillQuiet DEF PressPlain
            <4>2. CASE u.peers # 0
                <5>1. PICK v : v = NextPeer(u)
                    OBVIOUS
                <5>2. Quiet(u, v) /\ v \in Screens
                    BY <1>2, <4>2, <5>1, NextPeerQuiet DEF Quiet, Kept
                <5>3. ui' = RefreshPayee(v)
                    BY <1>1, <3>2, <4>2, <5>1 DEF PressPlain
                <5> QED BY <1>3, <5>2, <5>3, RefreshPayeeLists, ListedQuiet, QuietTwice
            <4> QED BY <4>1, <4>2
        <3>3. CASE a = "NEXT_MEMBER"
            <4>1. PICK v : v = IF u.members = 0 THEN u ELSE NextMember(u)
                OBVIOUS
            <4>2. Quiet(u, v) /\ v \in Screens
                BY <1>2, <4>1, NextMemberQuiet, StillQuiet DEF Quiet, Kept
            <4>3. ui' = RefreshCredited(v)
                BY <1>1, <3>3, <4>1 DEF PressPlain
            <4> QED BY <1>3, <4>2, <4>3, RefreshCreditedLists, ListedQuiet, QuietTwice
        <3>4. CASE a \in {"NEXT_FIELD", "PREV_FIELD"}
            BY <1>1, <1>2, <3>4, FieldQuiet DEF PressPlain
        <3>5. CASE a = "BACKSPACE"
            BY <1>1, <1>2, <3>5, BackspaceQuiet DEF PressPlain
        <3>6. CASE a = "CLEAR"
            BY <1>1, <1>2, <3>6, ClearEntryQuiet DEF PressPlain
        <3>7. CASE a = "TYPE"
            BY <1>1, <1>2, <3>7, TypedQuiet DEF PressPlain
        <3> QED BY <1>14, <3>1, <3>2, <3>3, <3>4, <3>5, <3>6, <3>7
    <2>2. ui'.screen = ui.screen
        BY <1>6, <2>1 DEF Quiet
    <2> QED BY <1>5, <1>7, <1>14, <2>1, <2>2
<1> QED BY <1>9, <1>10, <1>11, <1>12, <1>13, <1>14 DEF Action

LEMMA PlainKeeps ==
    ASSUME DInv, NEW a \in Action, PressPlain(a), task.defer = NoDefer, board' = board
    PROVE  DInv' /\ Passing(ui, ui')
<1>1. Pressed(a, NoDefer) /\ UNCHANGED <<rt, heard, members, core, asked>>
    BY DEF PressPlain
<1>2. core' \in Seq(Event) /\ Len(core') <= QueueMax
    BY <1>1 DEF DInv, Shape
<1> QED BY <1>1, <1>2, PlainScreens, PressKeeps

LEMMA ConfirmMoveKeeps ==
    ASSUME DInv, ConfirmMove, task.defer = NoDefer, board' = board PROVE DInv' /\ Passing(ui, ui')
<1>1. Pressed("CONFIRM", NoDefer) /\ UNCHANGED <<rt, heard, members, core, asked>>
    BY DEF ConfirmMove
<1>2. core' \in Seq(Event) /\ Len(core') <= QueueMax
    BY <1>1 DEF DInv, Shape
<1>3. PICK u : u = Touched
    OBVIOUS
<1>4. u \in Screens /\ Quiet(ui, u)
    BY <1>3, TouchedQuiet
<1>5. ui' = u \/ ui' = Nav(u, "PAY")
    BY <1>3 DEF ConfirmMove
<1>6. CASE ui' = u
    <2>1. board = "waveshare" => ui'.screen \notin {"CREATE", "CREDIT"}
        BY <1>4, <1>6 DEF DInv, NoText, Quiet
    <2>2. Quiet(ui, ui')
        BY <1>4, <1>6
    <2> QED BY <1>1, <1>2, <2>1, <2>2, PressKeeps
<1>7. CASE ui' = Nav(u, "PAY")
    <2>1. "PAY" \in Screen \ {"JOIN", "SETUP_PIN"}
        BY DEF Screen
    <2>2. Moved(u, ui') \/ Quiet(u, ui')
        BY <1>4, <1>7, <2>1, NavLeaves
    <2>3. Moved(ui, ui') \/ Quiet(ui, ui')
        BY <1>4, <2>2, QuietMoved, QuietTwice
    <2>4. ui'.screen \in {"PAY", ui.screen}
        BY <1>4, <1>7, <2>1, NavMoves DEF Quiet
    <2>5. board = "waveshare" => ui'.screen \notin {"CREATE", "CREDIT"}
        BY <2>4 DEF DInv, NoText
    <2> QED BY <1>1, <1>2, <2>3, <2>5, PressKeeps
<1> QED BY <1>5, <1>6, <1>7

LEMMA ConfirmPinKeeps ==
    ASSUME DInv, ConfirmPin, task.defer = NoDefer, board' = board PROVE DInv' /\ Passing(ui, ui')
<1>1. Pressed("CONFIRM", NoDefer) /\ UNCHANGED <<rt, heard, members, core, asked>>
    BY DEF ConfirmPin
<1>2. core' \in Seq(Event) /\ Len(core') <= QueueMax
    BY <1>1 DEF DInv, Shape
<1>3. PICK u : u = Touched
    OBVIOUS
<1>4. u \in Screens /\ Quiet(ui, u)
    BY <1>3, TouchedQuiet
<1>5. ui' = OnPinResult(u, TRUE) \/ ui' = OnPinResult(u, FALSE)
    BY <1>3 DEF ConfirmPin
<1>6. CASE ui' = OnPinResult(u, FALSE)
    <2>1. ui' = [u EXCEPT !.feedback = "OTHER"]
        BY <1>6 DEF OnPinResult
    <2>2. Quiet(u, ui')
        BY <1>4, <2>1, Messages DEF Screens, Quiet, Kept, Passing
    <2>3. Quiet(ui, ui')
        BY <1>4, <2>2, QuietTwice
    <2>4. board = "waveshare" => ui'.screen \notin {"CREATE", "CREDIT"}
        BY <2>3 DEF DInv, NoText, Quiet
    <2> QED BY <1>1, <1>2, <2>3, <2>4, PressKeeps
<1>7. CASE ui' = OnPinResult(u, TRUE)
    <2>1. PICK v : v = ClearEntry(u)
        OBVIOUS
    <2>2. v \in Screens /\ Quiet(u, v)
        BY <1>4, <2>1, ClearEntryQuiet DEF Quiet, Kept
    <2>3. ui' = [v EXCEPT !.hasPin = TRUE, !.screen = "HOME", !.feedback = "NONE"]
        BY <1>7, <2>1 DEF OnPinResult
    <2>4. "HOME" \in Screen
        BY DEF Screen
    <2>5. ui' \in Screens
        BY <2>2, <2>3, <2>4, Messages DEF Screens
    <2>6. Moved(v, ui') /\ ui'.screen = "HOME"
        BY <2>2, <2>3, <2>5 DEF Screens, Moved, Kept, Passing
    <2>7. Moved(ui, ui')
        BY <1>4, <2>2, <2>6, QuietMoved
    <2> QED BY <1>1, <1>2, <2>6, <2>7, PressKeeps
<1> QED BY <1>5, <1>6, <1>7

LEMMA Posted ==
    ASSUME core \in Seq(Event), Len(core) <= QueueMax, Len(core) # QueueMax, NEW e \in Event
    PROVE  Append(core, e) \in Seq(Event) /\ Len(Append(core, e)) <= QueueMax
BY WalletDeskAssumption

LEMMA ConfirmPaymentKeeps ==
    ASSUME DInv, ConfirmPayment, task.defer = NoDefer, board' = board PROVE DInv' /\ Passing(ui, ui')
<1>1. Pressed("CONFIRM", NoDefer) /\ UNCHANGED <<rt, heard, members, asked>>
    BY DEF ConfirmPayment
<1>2. heard \in Seq(Peer) /\ core \in Seq(Event) /\ Len(core) <= QueueMax
    BY DEF DInv, Shape
<1>3. ui.hasPin
    BY DEF ConfirmPayment, DInv, Pinned
<1>4. PICK u : u = RefreshPayee(Touched)
    OBVIOUS
<1>5. u \in Screens /\ Quiet(ui, u)
    <2>1. Listed(Touched, u)
        BY <1>2, <1>4, TouchedQuiet, RefreshPayeeLists
    <2> QED BY <2>1, TouchedQuiet, ListedQuiet, QuietTwice DEF Quiet, Kept
<1>6. CASE ui' = OnPaymentFeedback(u, "REJECTED") /\ UNCHANGED core
    <2>1. ui' = [u EXCEPT !.feedback = "OTHER", !.screen = u.screen]
        BY <1>6 DEF OnPaymentFeedback
    <2>2. Quiet(u, ui')
        BY <1>5, <2>1, Messages DEF Screens, Quiet, Kept, Passing
    <2>3. Quiet(ui, ui')
        BY <1>5, <2>2, QuietTwice
    <2>4. board = "waveshare" => ui'.screen \notin {"CREATE", "CREDIT"}
        BY <2>3 DEF DInv, NoText, Quiet
    <2> QED BY <1>1, <1>2, <1>6, <2>3, <2>4, PressKeeps
<1>7. CASE /\ Payees # <<>> /\ Len(core) # QueueMax
           /\ core' = Append(core, [kind |-> "PAYMENT", to |-> SelectedPeer(u)])
           /\ ui' = ClearEntry(u)
    <2>1. SelectedPeer(u) \in Peer
        BY <1>2, <1>5, <1>7, PayeesType, AtType DEF SelectedPeer, Screens
    <2>2. [kind |-> "PAYMENT", to |-> SelectedPeer(u)] \in Event
        BY <2>1 DEF Event
    <2>3. core' \in Seq(Event) /\ Len(core') <= QueueMax
        BY <1>2, <1>7, <2>2, Posted
    <2>4. Quiet(ui, ui')
        BY <1>5, <1>7, ClearEntryQuiet, QuietTwice
    <2>5. board = "waveshare" => ui'.screen \notin {"CREATE", "CREDIT"}
        BY <2>4 DEF DInv, NoText, Quiet
    <2> QED BY <1>1, <1>3, <2>3, <2>4, <2>5, PressKeeps
<1> QED BY <1>4, <1>6, <1>7 DEF ConfirmPayment

LEMMA ConfirmCreditKeeps ==
    ASSUME DInv, ConfirmCredit, task.defer = NoDefer, board' = board PROVE DInv' /\ Passing(ui, ui')
<1>1. Pressed("CONFIRM", NoDefer) /\ UNCHANGED <<rt, heard, members, asked>>
    BY DEF ConfirmCredit
<1>2. core \in Seq(Event) /\ Len(core) <= QueueMax
    BY DEF DInv, Shape
<1>3. ui.hasPin
    BY DEF ConfirmCredit, DInv, Pinned
<1>4. PICK u : u = Touched
    OBVIOUS
<1>5. u \in Screens /\ Quiet(ui, u)
    BY <1>4, TouchedQuiet
<1>6. CASE ui' = OnActionFailed(u, "OTHER") /\ UNCHANGED core
    <2>1. ui' = [u EXCEPT !.feedback = "OTHER"]
        BY <1>6 DEF OnActionFailed
    <2>2. Quiet(u, ui')
        BY <1>5, <2>1, Messages DEF Screens, Quiet, Kept, Passing
    <2>3. Quiet(ui, ui')
        BY <1>5, <2>2, QuietTwice
    <2>4. board = "waveshare" => ui'.screen \notin {"CREATE", "CREDIT"}
        BY <2>3 DEF DInv, NoText, Quiet
    <2> QED BY <1>1, <1>2, <1>6, <2>3, <2>4, PressKeeps
<1>7. CASE /\ u.credited # None /\ Len(core) # QueueMax
           /\ core' = Append(core, [kind |-> "CREDIT", to |-> u.credited])
           /\ ui' = ClearEntry(u)
    <2>1. u.credited \in Peer
        BY <1>5, <1>7 DEF Screens
    <2>2. [kind |-> "CREDIT", to |-> u.credited] \in Event
        BY <2>1 DEF Event
    <2>3. core' \in Seq(Event) /\ Len(core') <= QueueMax
        BY <1>2, <1>7, <2>2, Posted
    <2>4. Quiet(ui, ui')
        BY <1>5, <1>7, ClearEntryQuiet, QuietTwice
    <2>5. board = "waveshare" => ui'.screen \notin {"CREATE", "CREDIT"}
        BY <2>4 DEF DInv, NoText, Quiet
    <2> QED BY <1>1, <1>3, <2>3, <2>4, <2>5, PressKeeps
<1> QED BY <1>4, <1>6, <1>7 DEF ConfirmCredit

(* What needs the lock of the runtime waits. *)
LEMMA DeferKeeps ==
    ASSUME DInv, NEW a, NEW d, Pressed(a, d), ui.hasPin,
           Kept(ui, ui'), ui'.screen = ui.screen,
           ui'.resetArmed /\ ui.screen = "NETWORK" => pressed',
           d.kind \in {None, "SHOW_CODE", "CREATE", "JOIN_DISCOVERED", "JOIN_CODE", "RESET"},
           d.kind = "CREATE" => ui.screen = "CREATE",
           d.kind = "JOIN_CODE" => ui.screen = "JOIN_CODE",
           d.kind = "RESET" => ui.broken,
           IF d.kind = "JOIN_DISCOVERED"
           THEN ui.screen = "JOIN" /\ ui.found # <<>> /\ d.arg = ui.choice /\ asked' = Meant
           ELSE UNCHANGED asked,
           task.defer = NoDefer,
           UNCHANGED <<rt, heard, members, core, board>>
    PROVE  DInv'
<1>1. task.at = "poll" /\ task' = [task EXCEPT !.defer = d] /\ glass' = Blank
    BY DEF Pressed
<1>2. pressed' \in BOOLEAN /\ core' \in Seq(Event) /\ Len(core') <= QueueMax
    BY DEF Pressed, DInv, Shape
<1>3. ui' \in Screens /\ ui'.broken = ui.broken /\ ui'.hasPin /\ ui'.found = ui.found
    BY DEF Kept
<1>4. /\ Shape' /\ Points' /\ Stored'
      /\ task' = [at |-> "poll", defer |-> d, js |-> task.js, list |-> task.list]
    BY <1>1, <1>2, <1>3, PressShape
<1>5. task'.defer = d /\ task'.at = "poll"
    BY <1>4
<1>6. d.kind \notin {"DISCOVER", "TELL"}
    BY NoDeferKind
<1>7. Pinned'
    BY <1>3 DEF Pinned
<1>8. Lists'
    BY <1>3, <1>5, <1>6 DEF DInv, Lists
<1>9. ui.screen = "JOIN" => rt.member # None \/ rt.anchor = None
    BY NoDeferKind DEF DInv, ArmedIsAsked
<1>10. ArmedIsAsked'
    BY <1>5, <1>9, NoDeferKind DEF DInv, ArmedIsAsked
<1>11. ChoiceIsAsked'
    <2>1. SUFFICES ASSUME d.kind = "JOIN_DISCOVERED", rt.member = None
                   PROVE  /\ d.arg \in Nat /\ d.arg < Len(rt.found)
                          /\ asked' = rt.found[d.arg + 1]
        BY <1>5 DEF ChoiceIsAsked
    <2>2. ui.choice \in Nat /\ ui.choice < Len(ui.found) /\ Prefix(ui.found, rt.found)
        BY <2>1 DEF DInv, Points, Lists, Shape, Screens
    <2>3. Len(ui.found) \in Nat /\ Len(rt.found) \in Nat
        BY DEF DInv, Shape, Screens, Runtimes
    <2>4. ui.choice < Len(rt.found) /\ ui.found[ui.choice + 1] = rt.found[ui.choice + 1]
        BY <2>2, <2>3 DEF Prefix
    <2>5. asked' = ui.found[ui.choice + 1]
        BY <2>1 DEF Meant, View, Chosen, DInv, GlassIsTrue
    <2> QED BY <2>1, <2>2, <2>4, <2>5
<1>12. GlassIsTrue'
    BY <1>1, BlankSays DEF GlassIsTrue
<1>13. NoText'
    BY <1>5, NoDeferKind DEF DInv, NoText, Kept
<1>14. TrueTold'
    BY <1>5, <1>6 DEF TrueTold
<1>15. ResetInv'
    BY <1>3, <1>5, NoDeferKind DEF ResetInv
<1> QED BY <1>4, <1>7, <1>8, <1>10, <1>11, <1>12, <1>13, <1>14, <1>15 DEF DInv

LEMMA JoinKeeps ==
    ASSUME DInv, Pressed("JOIN", [kind |-> "DISCOVER", arg |-> None]),
           ui' = Nav(SetDiscovered(Touched, <<>>), "JOIN"),
           UNCHANGED <<asked, rt, heard, members, core, board>>
    PROVE  DInv' /\ Passing(ui, ui')
<1> DEFINE d == [kind |-> "DISCOVER", arg |-> None]
<1>1. PICK u : u = SetDiscovered(Touched, <<>>)
    OBVIOUS
<1>2. /\ u \in Screens /\ u.found = <<>> /\ u.choice = 0
      /\ u.hasPin = ui.hasPin /\ u.founder = ui.founder /\ u.broken = ui.broken
      /\ u.feedback = ui.feedback
    <2>1. Touched \in Screens /\ Listed(ui, Touched)
        BY TouchedLists DEF DInv, Listed
    <2>2. u = [Touched EXCEPT !.found = <<>>, !.choice = 0]
        BY <1>1 DEF SetDiscovered
    <2>3. PICK t : t = Touched
        OBVIOUS
    <2>4. t \in Screens /\ u = [t EXCEPT !.found = <<>>, !.choice = 0]
        BY <2>1, <2>2, <2>3
    <2>5. <<>> \in Seq(Code) /\ 0 \in Nat
        OBVIOUS
    <2>6. u \in Screens
        BY <2>4, <2>5 DEF Screens
    <2>7. /\ u.found = <<>> /\ u.choice = 0
          /\ u.hasPin = t.hasPin /\ u.founder = t.founder /\ u.broken = t.broken
          /\ u.feedback = t.feedback
        BY <2>4 DEF Screens
    <2> QED BY <2>1, <2>3, <2>6, <2>7 DEF Listed
<1>3. ui.hasPin
    <2>1. ui.screen # "SETUP_PIN"
        BY Reaching DEF Pressed, DInv, Shape, Screens
    <2> QED BY <2>1 DEF DInv, Pinned
<1>4. "JOIN" \in Screen
    BY DEF Screen
<1>5. /\ ui' \in Screens /\ ui'.found = <<>> /\ ui'.choice = 0 /\ ui'.hasPin
      /\ ui'.founder = ui.founder /\ ui'.broken = ui.broken /\ ui'.screen = "JOIN"
      /\ Passing(ui, ui')
    <2>1. Kept(u, ui') /\ ui'.screen = "JOIN" /\ Passing(u, ui')
        BY <1>1, <1>2, <1>3, <1>4, NavMoves
    <2> QED BY <1>2, <1>3, <2>1 DEF Kept, Passing
<1>6. task.at = "poll" /\ task' = [task EXCEPT !.defer = d] /\ glass' = Blank
    BY DEF Pressed
<1>7. pressed' \in BOOLEAN /\ core' \in Seq(Event) /\ Len(core') <= QueueMax
    BY DEF Pressed, DInv, Shape
<1>8. /\ Shape' /\ Points' /\ Stored'
      /\ task' = [at |-> "poll", defer |-> d, js |-> task.js, list |-> task.list]
    <2> HIDE DEF d
    <2> QED BY <1>5, <1>6, <1>7, PressShape
<1>9. task'.defer.kind = "DISCOVER" /\ task'.at = "poll"
    BY <1>8
<1>10. Pinned' /\ ChoiceIsAsked' /\ TrueTold' /\ ResetInv'
    BY <1>5, <1>9 DEF Pinned, ChoiceIsAsked, TrueTold, ResetInv
<1>11. Lists'
    <2>1. Len(rt.found) \in Nat
        BY DEF DInv, Shape, Runtimes
    <2>2. Prefix(<<>>, rt.found)
        BY <2>1 DEF Prefix
    <2> QED BY <1>5, <1>9, <2>2 DEF Lists
<1>12. ArmedIsAsked'
    BY <1>9 DEF DInv, ArmedIsAsked
<1>13. GlassIsTrue'
    BY <1>6, BlankSays DEF GlassIsTrue
<1>14. NoText'
    BY <1>5, <1>9 DEF DInv, NoText
<1> QED BY <1>5, <1>8, <1>10, <1>11, <1>12, <1>13, <1>14 DEF DInv

LEMMA PressDeferredKeeps ==
    ASSUME DInv, PressDeferred, task.defer = NoDefer, board' = board PROVE DInv' /\ Passing(ui, ui')
<1>1. UNCHANGED <<rt, heard, members, core>>
    BY DEF PressDeferred
<1>2. PICK u : u = Touched
    OBVIOUS
<1>3. u \in Screens /\ Listed(ui, u) /\ Quiet(ui, u)
    BY <1>2, TouchedLists, TouchedQuiet DEF DInv
<1>4. Kept(ui, u) /\ Passing(ui, u) /\ u.screen = ui.screen /\ (u.resetArmed /\ ui.screen = "NETWORK" => pressed)
    BY <1>3 DEF Quiet, DInv, ResetInv
<1>5. ui.screen \in Screen
    BY DEF DInv, Shape, Screens
<1>6. ui.screen # "SETUP_PIN" => ui.hasPin
    BY DEF DInv, Pinned
<1>7. CASE /\ Pressed("JOIN", [kind |-> "DISCOVER", arg |-> None])
           /\ ui' = Nav(SetDiscovered(Touched, <<>>), "JOIN") /\ UNCHANGED asked
    BY <1>1, <1>7, JoinKeeps
<1>8. CASE /\ Pressed("SHOW_CODE", [kind |-> "SHOW_CODE", arg |-> None])
           /\ ui' = Touched /\ UNCHANGED asked
    <2>1. PICK d : d = [kind |-> "SHOW_CODE", arg |-> None]
        OBVIOUS
    <2>2. ui.screen # "SETUP_PIN"
        BY <1>5, <1>8, Reaching DEF Pressed
    <2>3. ui.screen = "NETWORK" => "SHOW_CODE" \notin OnButton
        BY <1>5, Reaching
    <2>4. ui'.resetArmed /\ ui.screen = "NETWORK" => pressed'
        BY <1>2, <1>4, <1>8, <2>3 DEF Pressed
    <2>5. d.kind = "SHOW_CODE"
        BY <2>1
    <2> QED BY <1>1, <1>2, <1>4, <1>6, <1>8, <2>1, <2>2, <2>4, <2>5, DeferKeeps
<1>9. CASE /\ ui.screen = "CREATE"
           /\ Pressed("CONFIRM", [kind |-> "CREATE", arg |-> ui.named])
           /\ ui' = Touched /\ UNCHANGED asked
    <2>1. PICK d : d = [kind |-> "CREATE", arg |-> ui.named]
        OBVIOUS
    <2>2. d.kind = "CREATE"
        BY <2>1
    <2> QED BY <1>1, <1>2, <1>4, <1>6, <1>9, <2>1, <2>2, DeferKeeps
<1>10. CASE /\ ui.screen = "JOIN" /\ ui.found # <<>>
            /\ Pressed("CONFIRM", [kind |-> "JOIN_DISCOVERED", arg |-> ui.choice])
            /\ asked' = Meant /\ ui' = Touched
    <2>1. PICK d : d = [kind |-> "JOIN_DISCOVERED", arg |-> ui.choice]
        OBVIOUS
    <2>2. d.kind = "JOIN_DISCOVERED" /\ d.arg = ui.choice
        BY <2>1
    <2> QED BY <1>1, <1>2, <1>4, <1>6, <1>10, <2>1, <2>2, DeferKeeps
<1>11. CASE /\ ui.screen = "JOIN_CODE"
            /\ Pressed("CONFIRM", [kind |-> "JOIN_CODE", arg |-> ui.entry])
            /\ ui' = Touched /\ UNCHANGED asked
    <2>1. PICK d : d = [kind |-> "JOIN_CODE", arg |-> ui.entry]
        OBVIOUS
    <2>2. d.kind = "JOIN_CODE"
        BY <2>1
    <2> QED BY <1>1, <1>2, <1>4, <1>6, <1>11, <2>1, <2>2, DeferKeeps
<1>12. CASE /\ ui' = ResetRequest(Touched) /\ UNCHANGED asked
            /\ Pressed("STORAGE_RESET", IF ResetConfirmed(ui) THEN [kind |-> "RESET", arg |-> None]
                                        ELSE NoDefer)
    <2>1. PICK d : d = IF ResetConfirmed(ui) THEN [kind |-> "RESET", arg |-> None] ELSE NoDefer
        OBVIOUS
    <2>2. d.kind \in {None, "RESET"}
        BY <2>1, NoDeferKind
    <2>3. "STORAGE_RESET" \in OnButton /\ ui.screen = "NETWORK" /\ ui.broken
        BY <1>5, <1>12, Reaching DEF Pressed
    <2>4. pressed'
        BY <1>12, <2>3 DEF Pressed
    <2>5. ui' = u \/ ui' = [u EXCEPT !.resetArmed = ~u.resetArmed]
        BY <1>2, <1>12 DEF ResetRequest
    <2>6. Kept(ui, ui') /\ Passing(ui, ui') /\ ui'.screen = ui.screen
        <3>1. CASE ui' = u
            BY <1>4, <3>1
        <3>2. CASE ui' = [u EXCEPT !.resetArmed = ~u.resetArmed]
            <4>1. PICK armed \in BOOLEAN : ui' = [u EXCEPT !.resetArmed = armed]
                BY <3>2, Zenon
            <4>2. ui' \in Screens
                BY <1>3, <4>1 DEF Screens
            <4> QED BY <1>3, <1>4, <4>1, <4>2 DEF Kept, Passing, Screens
        <3> QED BY <2>5, <3>1, <3>2
    <2>7. Pressed("STORAGE_RESET", d) /\ UNCHANGED asked
        BY <1>12, <2>1
    <2>8. d.kind # "JOIN_DISCOVERED" /\ d.kind # "CREATE" /\ d.kind # "JOIN_CODE"
        BY <2>2, NoDeferKind
    <2> QED BY <1>1, <1>6, <2>2, <2>3, <2>4, <2>6, <2>7, <2>8, DeferKeeps
<1> QED BY <1>7, <1>8, <1>9, <1>10, <1>11, <1>12 DEF PressDeferred
-----------------------------------------------------------------------------
(* The other tasks: the user's place, the list and the choice stay. *)

Beside(u, v) ==
    /\ v \in Screens
    /\ v.hasPin = u.hasPin /\ v.founder = u.founder /\ v.broken = u.broken
    /\ v.found = u.found /\ v.choice = u.choice
    /\ v.credited = u.credited /\ v.resetArmed = u.resetArmed

(* A runtime may lose its armed join or its discovery, hear of one more     *)
(* currency, or import the one that it waited for.                          *)
Later(r, s) ==
    /\ s \in Runtimes /\ Len(s.found) <= FoundMax
    /\ s.stored = r.stored
    /\ \/ s.member = r.member
       \/ r.member = None /\ s.member = r.anchor /\ s.member \in Code /\ s.anchor = None /\ r.stored
    /\ s.anchor \in {r.anchor, None}
    /\ s.open => r.open
    /\ Prefix(r.found, s.found)

LEMMA PrefixItself == ASSUME NEW S, NEW s \in Seq(S) PROVE Prefix(s, s)
BY DEF Prefix

LEMMA PrefixTwice ==
    ASSUME NEW S, NEW s \in Seq(S), NEW t \in Seq(S), NEW u \in Seq(S), Prefix(s, t), Prefix(t, u)
    PROVE  Prefix(s, u)
<1>1. Len(s) \in Nat /\ Len(t) \in Nat /\ Len(u) \in Nat
    OBVIOUS
<1>2. \A i \in 1 .. Len(s) : i \in 1 .. Len(t)
    BY <1>1 DEF Prefix
<1> QED BY <1>1, <1>2 DEF Prefix

LEMMA BesideKeeps ==
    ASSUME DInv, Beside(ui, ui'),
           \/ ui'.screen \in {ui.screen, "PAY", "RECEIVE", "HISTORY"}
           \/ ui'.screen = "CREDIT" /\ rt.member = Own,
           glass' \in {glass, Blank}, Later(rt, rt'),
           heard' \in Seq(Peer), members' \in Seq(Peer),
           core' \in Seq(Event), Len(core') <= QueueMax,
           ui.hasPin \/ (core' = core /\ ui'.screen = ui.screen),
           \/ UNCHANGED task
           \/ \E js \in {"IDLE", "ARMED", "MEMBER"} :
                 /\ task = Idle
                 /\ task' = [at |-> "push", defer |-> NoDefer, js |-> js, list |-> rt.found],
           UNCHANGED <<asked, pressed, board>>
    PROVE  DInv'
<1>1. task'.defer = task.defer
    BY DEF Idle
<1>2. /\ task' = [at |-> task'.at, defer |-> task'.defer, js |-> task'.js, list |-> task'.list]
      /\ task'.at \in {"poll", "push", "draw"} /\ (task'.at # "poll" => task'.defer = NoDefer)
      /\ task'.list \in Seq(Code) /\ Len(task'.list) <= FoundMax
      /\ task'.js \in {"IDLE", "ARMED", "MEMBER"}
    <2>1. CASE UNCHANGED task
        BY <2>1 DEF DInv, Shape
    <2>2. ASSUME NEW js \in {"IDLE", "ARMED", "MEMBER"},
                 task' = [at |-> "push", defer |-> NoDefer, js |-> js, list |-> rt.found]
          PROVE  /\ task' = [at |-> task'.at, defer |-> task'.defer, js |-> task'.js,
                             list |-> task'.list]
                 /\ task'.at = "push" /\ task'.defer = NoDefer
                 /\ task'.list \in Seq(Code) /\ Len(task'.list) <= FoundMax
                 /\ task'.js \in {"IDLE", "ARMED", "MEMBER"}
        <3>1. rt.found \in Seq(Code) /\ Len(rt.found) <= FoundMax
            BY DEF DInv, Shape, Runtimes
        <3> QED BY <2>2, <3>1
    <2> QED BY <2>1, <2>2
<1>3. ui' \in Screens /\ ui'.choice < FoundMax /\ Len(ui'.found) <= FoundMax
    BY DEF Beside, DInv, Shape
<1>4. Shape'
    BY <1>2, <1>3 DEF DInv, Shape, Later
<1>5. Points'
    BY DEF DInv, Points, Beside
<1>6. ~ui.hasPin => rt'.member = None /\ rt'.anchor = None
    BY DEF DInv, Pinned, Later
<1>7. Pinned'
    BY <1>1, <1>6 DEF DInv, Pinned, Beside
<1>8. Stored'
    BY DEF DInv, Stored, Beside, Later
<1>9. rt'.member = None => rt.member = None
    BY WalletDeskAssumption DEF Later
<1>10. rt.found \in Seq(Code) /\ rt'.found \in Seq(Code) /\ ui.found \in Seq(Code)
    BY DEF DInv, Shape, Screens, Runtimes, Later
<1>11. Lists'
    <2>1. SUFFICES ASSUME rt.member = None
                   PROVE  /\ Prefix(ui.found, rt'.found)
                          /\ task'.at = "push" => /\ Prefix(ui.found, task'.list)
                                                  /\ Prefix(task'.list, rt'.found)
                          /\ task'.defer.kind = "DISCOVER" => ui.found = <<>>
        BY <1>9 DEF Lists, Beside
    <2>2. Prefix(ui.found, rt.found) /\ Prefix(rt.found, rt'.found)
        BY <2>1 DEF DInv, Lists, Later
    <2>3. Prefix(ui.found, rt'.found)
        BY <1>10, <2>2, PrefixTwice
    <2>4. task'.at = "push" => Prefix(ui.found, task'.list) /\ Prefix(task'.list, rt.found)
        <3>1. CASE UNCHANGED task
            BY <2>1, <3>1 DEF DInv, Lists
        <3>2. CASE task'.list = rt.found
            BY <1>10, <2>2, <3>2, PrefixItself
        <3> QED BY <3>1, <3>2
    <2>5. task'.at = "push" => Prefix(task'.list, rt'.found)
        BY <1>2, <1>10, <2>2, <2>4, PrefixTwice
    <2> QED BY <1>1, <2>1, <2>3, <2>4, <2>5 DEF DInv, Lists
<1>12. ui'.screen = "JOIN" => ui.screen = "JOIN"
    OBVIOUS
<1>13. ArmedIsAsked'
    BY <1>1, <1>9, <1>12 DEF DInv, ArmedIsAsked, Later
<1>14. ChoiceIsAsked'
    <2>1. SUFFICES ASSUME task.defer.kind = "JOIN_DISCOVERED", rt.member = None
                   PROVE  /\ task.defer.arg \in Nat /\ task.defer.arg < Len(rt'.found)
                          /\ asked = rt'.found[task.defer.arg + 1]
        BY <1>1, <1>9 DEF ChoiceIsAsked
    <2>2. /\ task.defer.arg \in Nat /\ task.defer.arg < Len(rt.found)
          /\ asked = rt.found[task.defer.arg + 1]
        BY <2>1 DEF DInv, ChoiceIsAsked
    <2>3. Len(rt.found) \in Nat /\ Len(rt'.found) \in Nat /\ Prefix(rt.found, rt'.found)
        BY <1>10 DEF Later
    <2>4. task.defer.arg + 1 \in 1 .. Len(rt.found)
        BY <2>2, <2>3
    <2>5. rt.found[task.defer.arg + 1] = rt'.found[task.defer.arg + 1]
        BY <2>3, <2>4 DEF Prefix
    <2>6. task.defer.arg < Len(rt'.found)
        BY <2>2, <2>3 DEF Prefix
    <2> QED BY <2>2, <2>5, <2>6
<1>15. GlassIsTrue'
    <2>1. CASE glass' = Blank
        BY <2>1, BlankSays DEF GlassIsTrue
    <2>2. CASE glass' = glass
        <3>1. Named' = Named
            BY <2>2 DEF Named
        <3> QED BY <1>9, <1>12, <2>2, <3>1 DEF DInv, GlassIsTrue, Beside
    <2> QED BY <2>1, <2>2
<1>16. NoText'
    BY <1>1, WalletDeskAssumption DEF DInv, NoText, Beside, Later
<1>17. TrueTold'
    BY <1>1, <1>9 DEF DInv, TrueTold, Beside
<1>18. ResetInv'
    BY <1>1 DEF DInv, ResetInv, Beside
<1> QED BY <1>4, <1>5, <1>7, <1>8, <1>11, <1>13, <1>14, <1>15, <1>16, <1>17, <1>18 DEF DInv

LEMMA SameLater == ASSUME DInv PROVE Later(rt, rt)
<1>1. rt.found \in Seq(Code)
    BY DEF DInv, Shape, Runtimes
<1>2. Prefix(rt.found, rt.found)
    BY <1>1, PrefixItself
<1> QED BY <1>2 DEF Later, DInv, Shape

LEMMA FailedBeside ==
    ASSUME NEW u \in Screens, NEW f \in Feedback
    PROVE  /\ Beside(u, OnActionFailed(u, f)) /\ OnActionFailed(u, f).screen = u.screen
           /\ OnActionFailed(u, f).feedback = f
<1>1. OnActionFailed(u, f) = [u EXCEPT !.feedback = f]
    BY DEF OnActionFailed
<1> QED BY <1>1 DEF Screens, Beside

LEMMA ToldOfPayment ==
    ASSUME NEW u \in Screens, NEW what
    PROVE  LET v == OnPaymentFeedback(u, what)
           IN  /\ Beside(u, v) /\ v.screen \in {u.screen, "PAY", "RECEIVE", "HISTORY"}
               /\ v.feedback = "OTHER"
<1>1. PICK s : s = CASE what = "SENT" -> "PAY"
                     [] what = "RECEIVED" -> "RECEIVE"
                     [] what = "ACKED" -> "HISTORY"
                     [] OTHER -> u.screen
    OBVIOUS
<1>2. s \in {u.screen, "PAY", "RECEIVE", "HISTORY"} /\ u.screen \in Screen
    BY <1>1 DEF Screens
<1>3. s \in Screen
    BY <1>2 DEF Screen
<1>4. OnPaymentFeedback(u, what) = [u EXCEPT !.feedback = "OTHER", !.screen = s]
    BY <1>1 DEF OnPaymentFeedback
<1>5. [u EXCEPT !.feedback = "OTHER", !.screen = s] \in Screens
    BY <1>3, Messages DEF Screens
<1> QED BY <1>2, <1>4, <1>5 DEF Screens, Beside

LEMMA ToldOfCredit ==
    ASSUME NEW u \in Screens
    PROVE  /\ Beside(u, OnCreditSent(u)) /\ OnCreditSent(u).screen = "CREDIT"
           /\ OnCreditSent(u).feedback = "OTHER"
<1>1. "CREDIT" \in Screen
    BY DEF Screen
<1>2. OnCreditSent(u) = [u EXCEPT !.feedback = "OTHER", !.screen = "CREDIT"]
    BY DEF OnCreditSent
<1>3. [u EXCEPT !.feedback = "OTHER", !.screen = "CREDIT"] \in Screens
    BY <1>1, Messages DEF Screens
<1> QED BY <1>2, <1>3 DEF Screens, Beside

(* The window of a join ticks: closed when over, and the screen says so.    *)
LEMMA ExpiredLater ==
    ASSUME DInv
    PROVE  LET x == Expired(rt, ui)
           IN  /\ Beside(ui, x.ui) /\ x.ui.screen = ui.screen
               /\ Later(rt, x.rt) /\ x.rt.member = rt.member
               /\ x.rt.open = rt.open /\ x.rt.found = rt.found /\ x.rt.openLeft = rt.openLeft
               /\ \/ x.ui.feedback = ui.feedback
                  \/ rt.anchor # None /\ x.ui.feedback = "JOIN_EXPIRED" /\ x.rt.anchor = None
<1>1. ui \in Screens /\ rt \in Runtimes
    BY DEF DInv, Shape
<1>2. CASE rt.anchor # None /\ rt.left = 0
    <2>1. Expired(rt, ui) = [rt |-> [rt EXCEPT !.anchor = None],
                             ui |-> OnActionFailed(ui, "JOIN_EXPIRED")]
        BY <1>2 DEF Expired
    <2>2. PICK r : r = [rt EXCEPT !.anchor = None]
        OBVIOUS
    <2>3. r \in Runtimes
        BY <1>1, <2>2 DEF Runtimes
    <2>4. /\ r.anchor = None /\ r.member = rt.member /\ r.stored = rt.stored
          /\ r.open = rt.open /\ r.found = rt.found /\ r.openLeft = rt.openLeft
        BY <1>1, <2>2 DEF Runtimes
    <2>5. Later(rt, r)
        BY <2>3, <2>4, SameLater DEF Later
    <2>6. "JOIN_EXPIRED" \in Feedback
        BY DEF Feedback
    <2>7. Expired(rt, ui).rt = r /\ Expired(rt, ui).ui = OnActionFailed(ui, "JOIN_EXPIRED")
        BY <2>1, <2>2
    <2> QED BY <1>1, <1>2, <2>4, <2>5, <2>6, <2>7, FailedBeside
<1>3. CASE ~(rt.anchor # None /\ rt.left = 0)
    <2>1. Expired(rt, ui).rt = rt /\ Expired(rt, ui).ui = ui
        BY <1>3 DEF Expired
    <2>2. Beside(ui, ui)
        BY <1>1 DEF Beside
    <2> QED BY <2>1, <2>2, SameLater
<1> QED BY <1>2, <1>3

LEMMA RadioAnnounceKeeps ==
    ASSUME DInv, NEW p \in Peer, RadioAnnounce(p), board' = board
    PROVE  DInv' /\ ui'.feedback = Expired(rt, ui).ui.feedback /\ rt'.member = rt.member
<1>1. heard \in Seq(Peer) /\ members \in Seq(Peer) /\ core \in Seq(Event) /\ Len(core) <= QueueMax
    BY DEF DInv, Shape
<1>2. PICK u : u = Expired(rt, ui).ui
    OBVIOUS
<1>3. Beside(ui, u) /\ u.screen = ui.screen /\ Later(rt, rt') /\ rt'.member = rt.member
    BY <1>2, ExpiredLater DEF RadioAnnounce
<1>4. PICK list : list = IF Member /\ ~IsMember(p) THEN Payees ELSE Append(Payees, p)
    OBVIOUS
<1>5. list \in Seq(Peer) /\ Len(list) \in Nat
    <2>1. PICK payees : payees = Payees
        OBVIOUS
    <2>2. payees \in Seq(Peer)
        BY <1>1, <2>1, PayeesType
    <2>3. Append(payees, p) \in Seq(Peer)
        BY <2>2
    <2>4. list \in Seq(Peer)
        BY <1>4, <2>1, <2>2, <2>3
    <2> QED BY <2>4
<1>6. ui' = IF list = <<>> THEN SetPaymentPeer(u, None, 0, 0)
            ELSE SetPaymentPeer(u, At(list, u.peer), IF u.peer < Len(list) THEN u.peer ELSE 0,
                                Len(list))
    BY <1>2, <1>4 DEF RadioAnnounce
<1>7. u \in Screens /\ u.peer \in Nat
    BY <1>3 DEF Beside, Screens
<1>8. Listed(u, ui') /\ ui'.credited = u.credited
    <2>1. CASE list = <<>>
        BY <1>6, <1>7, <2>1, SetPaymentPeerLists
    <2>2. CASE list # <<>>
        <3>1. PICK i : i = IF u.peer < Len(list) THEN u.peer ELSE 0
            OBVIOUS
        <3>2. ui' = SetPaymentPeer(u, At(list, u.peer), i, Len(list))
            BY <1>6, <2>2, <3>1
        <3>3. i \in Nat /\ At(list, u.peer) \in Peer \cup {None}
            BY <1>5, <1>7, <2>2, <3>1, AtType
        <3> QED BY <1>5, <1>7, <3>2, <3>3, SetPaymentPeerLists
    <2> QED BY <2>1, <2>2
<1>9. Beside(ui, ui') /\ ui'.screen = ui.screen
    BY <1>3, <1>8 DEF Beside, Listed
<1>10. heard' \in Seq(Peer) /\ UNCHANGED <<glass, members, core, task, asked, pressed, board>>
    BY <1>1 DEF RadioAnnounce
<1>11. ui'.feedback = u.feedback
    BY <1>8 DEF Listed
<1> QED BY <1>1, <1>2, <1>3, <1>9, <1>10, <1>11, BesideKeeps

LEMMA RadioMemberKeeps ==
    ASSUME DInv, NEW p \in Peer, RadioMember(p), board' = board PROVE DInv'
<1>1. heard \in Seq(Peer) /\ members \in Seq(Peer) /\ core \in Seq(Event) /\ Len(core) <= QueueMax
    BY DEF DInv, Shape
<1>2. PICK i \in 0 .. Len(members) :
          members' = SubSeq(members, 1, i) \o <<p>> \o SubSeq(members, i + 1, Len(members))
    BY DEF RadioMember
<1>3. SubSeq(members, 1, i) \in Seq(Peer) /\ SubSeq(members, i + 1, Len(members)) \in Seq(Peer)
    BY <1>1
<1>4. <<p>> \in Seq(Peer)
    OBVIOUS
<1>5. members' \in Seq(Peer)
    BY <1>2, <1>3, <1>4
<1>6. Beside(ui, ui')
    BY DEF RadioMember, Beside, DInv, Shape
<1> QED BY <1>1, <1>5, <1>6, SameLater, BesideKeeps DEF RadioMember

LEMMA RadioFeedbackKeeps ==
    ASSUME DInv, RadioFeedback, board' = board PROVE DInv' /\ ui'.feedback = "OTHER"
<1>1. heard \in Seq(Peer) /\ members \in Seq(Peer) /\ core \in Seq(Event) /\ Len(core) <= QueueMax
      /\ ui \in Screens
    BY DEF DInv, Shape
<1>2. PICK what : ui' = OnPaymentFeedback(ui, what)
    BY DEF RadioFeedback
<1>3. Beside(ui, ui') /\ ui'.feedback = "OTHER" /\ ui'.screen \in {ui.screen, "PAY", "RECEIVE", "HISTORY"}
    BY <1>1, <1>2, ToldOfPayment
<1>4. ui.hasPin
    BY DEF RadioFeedback, Member, DInv, Pinned
<1> QED BY <1>1, <1>3, <1>4, SameLater, BesideKeeps DEF RadioFeedback

LEMMA CoreRunKeeps ==
    ASSUME DInv, CoreRun, board' = board PROVE DInv' /\ ui'.feedback = "OTHER"
<1>1. heard \in Seq(Peer) /\ members \in Seq(Peer) /\ core \in Seq(Event) /\ Len(core) <= QueueMax
      /\ ui \in Screens
    BY DEF DInv, Shape
<1>2. core' \in Seq(Event) /\ Len(core') <= QueueMax
    <2>1. QueueMax \in Nat /\ Len(core) \in Nat
        BY <1>1, WalletDeskAssumption
    <2> QED BY <1>1, <2>1 DEF CoreRun
<1>3. ui.hasPin
    BY DEF CoreRun, DInv, Pinned
<1>4. \/ \E what : ui' = OnPaymentFeedback(ui, what)
      \/ Founder /\ ui' = OnCreditSent(ui)
      \/ ui' = OnActionFailed(ui, "OTHER")
    BY DEF CoreRun
<1>5. /\ Beside(ui, ui') /\ ui'.feedback = "OTHER"
      /\ \/ ui'.screen \in {ui.screen, "PAY", "RECEIVE", "HISTORY"}
         \/ ui'.screen = "CREDIT" /\ rt.member = Own
    <2>1. CASE \E what : ui' = OnPaymentFeedback(ui, what)
        BY <1>1, <2>1, ToldOfPayment
    <2>2. CASE Founder /\ ui' = OnCreditSent(ui)
        BY <1>1, <2>2, ToldOfCredit DEF Founder
    <2>3. CASE ui' = OnActionFailed(ui, "OTHER")
        BY <1>1, <2>3, Messages, FailedBeside
    <2> QED BY <1>4, <2>1, <2>2, <2>3
<1> QED BY <1>1, <1>2, <1>3, <1>5, SameLater, BesideKeeps DEF CoreRun

LEMMA ClockKeeps ==
    ASSUME DInv, Clock, board' = board PROVE DInv' /\ rt'.member = rt.member
<1>1. heard \in Seq(Peer) /\ members \in Seq(Peer) /\ core \in Seq(Event) /\ Len(core) <= QueueMax
      /\ rt \in Runtimes /\ Window \in Nat
    BY WalletDeskAssumption DEF DInv, Shape
<1>2. PICK l : l = IF Armed /\ rt.left > 0 THEN rt.left - 1 ELSE rt.left
    OBVIOUS
<1>3. PICK o : o = IF rt.open /\ rt.openLeft > 0 THEN rt.openLeft - 1 ELSE rt.openLeft
    OBVIOUS
<1>4. rt' = [rt EXCEPT !.left = l, !.openLeft = o]
    BY <1>2, <1>3 DEF Clock
<1>5. rt.left \in 0 .. Window /\ rt.openLeft \in 0 .. Window
    BY <1>1 DEF Runtimes
<1>6. l \in 0 .. Window /\ o \in 0 .. Window
    BY <1>1, <1>2, <1>3, <1>5
<1>7. rt' \in Runtimes
    BY <1>1, <1>4, <1>6 DEF Runtimes
<1>8. /\ rt'.member = rt.member /\ rt'.stored = rt.stored /\ rt'.anchor = rt.anchor
      /\ rt'.open = rt.open /\ rt'.found = rt.found
    BY <1>1, <1>4 DEF Runtimes
<1>9. Later(rt, rt')
    BY <1>7, <1>8, SameLater DEF Later
<1>10. Beside(ui, ui')
    BY DEF Clock, Beside, DInv, Shape
<1> QED BY <1>1, <1>8, <1>9, <1>10, BesideKeeps DEF Clock

LEMMA RadioOfferKeeps ==
    ASSUME DInv, NEW c \in Code, RadioOffer(c), board' = board
    PROVE  /\ DInv' /\ Later(rt, rt') /\ ui'.feedback = Expired(rt, ui).ui.feedback
           /\ Expired(rt, ui).rt.anchor = None => rt'.member = rt.member
<1>1. heard \in Seq(Peer) /\ members \in Seq(Peer) /\ core \in Seq(Event) /\ Len(core) <= QueueMax
    BY DEF DInv, Shape
<1>2. PICK r : r = Expired(rt, ui).rt
    OBVIOUS
<1>3. /\ Beside(ui, ui') /\ ui'.screen = ui.screen /\ Later(rt, r)
      /\ r.member = rt.member /\ r.open = rt.open /\ r.found = rt.found
    BY <1>2, ExpiredLater DEF RadioOffer
<1>4. rt' \in Offered(r, c)
    BY <1>2 DEF RadioOffer
<1>5. \/ rt' = r
      \/ rt' = [r EXCEPT !.open = FALSE]
      \/ r.member = None /\ Len(r.found) # FoundMax /\ rt' = [r EXCEPT !.found = Append(r.found, c)]
      \/ /\ r.member = None /\ r.anchor = c /\ r.stored
         /\ rt' = [Imported(r, c) EXCEPT !.anchor = None]
    <2>1. CASE r.member # None
        BY <1>4, <2>1 DEF Offered
    <2>2. CASE r.member = None /\ r.open
        BY <1>4, <2>2 DEF Offered
    <2>3. CASE r.member = None /\ ~r.open
        BY <1>4, <2>3 DEF Offered
    <2> QED BY <2>1, <2>2, <2>3
<1>6. r \in Runtimes /\ Len(r.found) <= FoundMax /\ r.found \in Seq(Code) /\ FoundMax \in Nat
    BY <1>3, WalletDeskAssumption DEF Later, Runtimes
<1>7. Prefix(r.found, r.found)
    BY <1>6, PrefixItself
<1>8. Later(rt, rt')
    <2>1. CASE rt' = r
        BY <1>3, <2>1
    <2>2. CASE rt' = [r EXCEPT !.open = FALSE]
        <3>1. rt' \in Runtimes
            BY <1>6, <2>2 DEF Runtimes
        <3>2. /\ rt'.member = r.member /\ rt'.stored = r.stored /\ rt'.anchor = r.anchor
              /\ ~rt'.open /\ rt'.found = r.found
            BY <1>6, <2>2 DEF Runtimes
        <3> QED BY <1>3, <3>1, <3>2 DEF Later
    <2>3. CASE /\ Len(r.found) # FoundMax
               /\ rt' = [r EXCEPT !.found = Append(r.found, c)]
        <3>1. PICK f : f = Append(r.found, c)
            OBVIOUS
        <3>2. f \in Seq(Code) /\ Len(f) <= FoundMax /\ Prefix(r.found, f)
            BY <1>6, <2>3, <3>1 DEF Prefix
        <3>3. rt' = [r EXCEPT !.found = f]
            BY <2>3, <3>1
        <3>4. rt' \in Runtimes
            BY <1>6, <3>2, <3>3 DEF Runtimes
        <3>5. /\ rt'.member = r.member /\ rt'.stored = r.stored /\ rt'.anchor = r.anchor
              /\ rt'.open = r.open /\ rt'.found = f
            BY <1>6, <3>3 DEF Runtimes
        <3> QED BY <1>3, <3>2, <3>4, <3>5 DEF Later
    <2>4. CASE /\ r.member = None /\ r.anchor = c /\ r.stored
               /\ rt' = [Imported(r, c) EXCEPT !.anchor = None]
        <3>1. rt' = [r EXCEPT !.member = c, !.anchor = None]
            BY <2>4 DEF Imported
        <3>2. rt' \in Runtimes
            BY <1>6, <3>1 DEF Runtimes
        <3>3. /\ rt'.member = c /\ rt'.stored = r.stored /\ rt'.anchor = None
              /\ rt'.open = r.open /\ rt'.found = r.found
            BY <1>6, <3>1 DEF Runtimes
        <3>4. rt.anchor = c
            BY <1>3, <2>4, WalletDeskAssumption DEF Later
        <3> QED BY <1>3, <2>4, <3>2, <3>3, <3>4 DEF Later
    <2> QED BY <1>5, <2>1, <2>2, <2>3, <2>4
<1>9. UNCHANGED <<glass, heard, members, core, task, asked, pressed>>
    BY DEF RadioOffer
<1>10. r.anchor = None => rt'.member = rt.member
    <2>1. r.anchor # c \/ r.anchor # None
        BY WalletDeskAssumption
    <2> QED BY <1>3, <1>5, <1>6, <2>1 DEF Runtimes
<1>11. ui'.feedback = Expired(rt, ui).ui.feedback
    BY DEF RadioOffer
<1> QED BY <1>1, <1>2, <1>3, <1>8, <1>9, <1>10, <1>11, BesideKeeps

LEMMA TapNothingKeeps ==
    ASSUME DInv, TapNothing, board' = board PROVE DInv' /\ ui'.feedback = ui.feedback
<1>1. heard \in Seq(Peer) /\ members \in Seq(Peer) /\ core \in Seq(Event) /\ Len(core) <= QueueMax
      /\ ui \in Screens
    BY DEF DInv, Shape
<1>2. ui.screen # "CREDIT"
    BY DEF TapNothing, DInv, NoText
<1>3. Listed(ui, ui') /\ ui'.credited = ui.credited
    BY <1>1, <1>2, RefreshedLists DEF TapNothing, Touched
<1>4. Beside(ui, ui') /\ ui'.screen = ui.screen /\ ui'.feedback = ui.feedback
    BY <1>3 DEF Beside, Listed
<1>5. glass' \in {glass, Blank}
    BY DEF TapNothing
<1> QED BY <1>1, <1>4, <1>5, SameLater, BesideKeeps DEF TapNothing

LEMMA UiCopyKeeps ==
    ASSUME DInv, UiCopy, board' = board
    PROVE  DInv' /\ ui'.feedback = Expired(rt, ui).ui.feedback /\ rt'.member = rt.member
<1>1. heard \in Seq(Peer) /\ members \in Seq(Peer) /\ core \in Seq(Event) /\ Len(core) <= QueueMax
    BY DEF DInv, Shape
<1>2. PICK r : r = Expired(rt, ui).rt
    OBVIOUS
<1>3. Beside(ui, ui') /\ ui'.screen = ui.screen /\ Later(rt, r) /\ r.found = rt.found
      /\ r.member = rt.member
    BY <1>2, ExpiredLater DEF UiCopy
<1>4. Later(rt, rt') /\ rt'.member = rt.member
    <2>1. CASE rt' = r
        BY <1>3, <2>1
    <2>2. CASE rt' = [r EXCEPT !.open = FALSE]
        <3>1. r \in Runtimes
            BY <1>3 DEF Later
        <3>2. rt' \in Runtimes
            BY <2>2, <3>1 DEF Runtimes
        <3>3. /\ rt'.member = r.member /\ rt'.stored = r.stored /\ rt'.anchor = r.anchor
              /\ ~rt'.open /\ rt'.found = r.found
            BY <2>2, <3>1 DEF Runtimes
        <3> QED BY <1>3, <3>2, <3>3 DEF Later
    <2> QED BY <1>2, <2>1, <2>2 DEF UiCopy, EmitDiscover
<1>5. PICK js : js = JoinState(r)
    OBVIOUS
<1>6. js \in {"IDLE", "ARMED", "MEMBER"}
    BY <1>5 DEF JoinState
<1>7. task = Idle /\ task' = [at |-> "push", defer |-> NoDefer, js |-> js, list |-> rt.found]
    BY <1>2, <1>3, <1>5 DEF UiCopy, Idle
<1>8. ui'.feedback = Expired(rt, ui).ui.feedback
    BY DEF UiCopy
<1> QED BY <1>1, <1>3, <1>4, <1>6, <1>7, <1>8, BesideKeeps DEF UiCopy
-----------------------------------------------------------------------------
(* The deferred actions. *)

Deferrable == {"CREATE", "JOIN_CODE", "DISCOVER", "JOIN_DISCOVERED", "SHOW_CODE", "RESET"}

(* What the runtime has become is as good for the screens as what it was.   *)
LEMMA ReturnKeeps ==
    ASSUME DInv, NEW kind \in Deferrable, task.defer.kind = kind, NEW err, Returned(err),
           err = "INVALID_STATE" => rt'.member # None \/ ui.broken,
           rt' \in Runtimes, Len(rt'.found) <= FoundMax, rt'.stored = rt.stored,
           rt'.member # None => rt.stored,
           rt'.member = None => rt.member = None /\ Prefix(ui.found, rt'.found),
           rt'.anchor # None => ~rt'.open /\ rt'.member \in {None, Own},
           rt'.anchor # None /\ rt'.member = None => rt'.anchor = asked',
           ui.screen = "JOIN" => rt'.member # None \/ rt'.anchor = None,
           board = "waveshare" => rt'.member # Own,
           board' = board
    PROVE  DInv'
<1>1. task.at = "poll" /\ task.defer # NoDefer
    BY NoDeferKind DEF DInv, Shape, Deferrable
<1>2. PICK d : d = [kind |-> "TELL", arg |-> <<kind, err>>]
    OBVIOUS
<1>3. task' = [at |-> "poll", defer |-> d, js |-> task.js, list |-> task.list]
    BY <1>1, <1>2 DEF Returned, DInv, Shape
<1>4. d.kind = "TELL" /\ d.arg[1] = kind /\ d.arg[2] = err
    BY <1>2
<1>5. task'.at = "poll" /\ task'.defer = d
    BY <1>3
<1>6. UNCHANGED <<ui, glass, heard, members, core, pressed>>
    BY DEF Returned
<1>7. Shape'
    BY <1>3, <1>6 DEF DInv, Shape
<1>8. Points' /\ Pinned'
    BY <1>1, <1>6 DEF DInv, Points, Pinned
<1>9. Stored'
    BY <1>6 DEF DInv, Stored
<1>10. Lists'
    BY <1>4, <1>5, <1>6 DEF Lists
<1>11. ArmedIsAsked'
    BY <1>4, <1>5, <1>6 DEF ArmedIsAsked
<1>12. ChoiceIsAsked'
    BY <1>4, <1>5 DEF ChoiceIsAsked
<1>13. GlassIsTrue'
    <2>1. Named' = Named
        BY <1>6 DEF Named
    <2> QED BY <1>6, <2>1 DEF DInv, GlassIsTrue
<1>14. NoText'
    BY <1>4, <1>5, <1>6 DEF DInv, NoText
<1>15. TrueTold'
    BY <1>4, <1>5, <1>6 DEF DInv, TrueTold, ResetInv, Deferrable
<1>16. ResetInv'
    BY <1>4, <1>5, <1>6 DEF DInv, ResetInv
<1> QED BY <1>7, <1>8, <1>9, <1>10, <1>11, <1>12, <1>13, <1>14, <1>15, <1>16 DEF DInv

LEMMA RefusedKeeps ==
    ASSUME DInv, NEW kind \in Deferrable, task.defer.kind = kind, NEW err, Refused(err),
           err = "INVALID_STATE" => rt.member # None \/ ~rt.stored,
           ui.screen = "JOIN" => kind # "DISCOVER" \/ rt.member # None,
           board' = board
    PROVE  DInv'
<1>1. rt' = rt /\ asked' = asked /\ Returned(err)
    BY DEF Refused
<1>2. rt \in Runtimes /\ Len(rt.found) <= FoundMax
    BY DEF DInv, Shape
<1>3. err = "INVALID_STATE" => rt.member # None \/ ui.broken
    BY DEF DInv, Stored
<1>4. rt.member # None => rt.stored
    BY DEF DInv, Stored
<1>5. rt.member = None => Prefix(ui.found, rt.found)
    BY DEF DInv, Lists
<1>6. /\ rt.anchor # None => ~rt.open /\ rt.member \in {None, Own}
      /\ rt.anchor # None /\ rt.member = None => rt.anchor = asked
      /\ ui.screen = "JOIN" => rt.member # None \/ rt.anchor = None
    BY DEF DInv, ArmedIsAsked
<1>7. board = "waveshare" => rt.member # Own
    BY DEF DInv, NoText
<1> QED BY <1>1, <1>2, <1>3, <1>4, <1>5, <1>6, <1>7, ReturnKeeps

LEMMA RunCreateKeeps ==
    ASSUME DInv, RunCreate, board' = board PROVE DInv'
<1>1. task.defer.kind = "CREATE" /\ "CREATE" \in Deferrable
    BY DEF RunCreate, Deferrable
<1>2. ASSUME NEW err, Refused(err), err = "INVALID_STATE" => rt.member # None \/ ~rt.stored
      PROVE  DInv'
    BY <1>1, <1>2, RefusedKeeps
<1>3. CASE ~Member /\ rt.stored /\ rt' = Imported(rt, Own) /\ asked' = Own /\ Returned("OK")
    <2>1. rt \in Runtimes /\ Len(rt.found) <= FoundMax
        BY DEF DInv, Shape
    <2>2. rt' = [rt EXCEPT !.member = Own]
        BY <1>3 DEF Imported
    <2>3. rt' \in Runtimes
        BY <2>1, <2>2 DEF Runtimes
    <2>4. /\ rt'.member = Own /\ rt'.stored = rt.stored /\ rt'.anchor = rt.anchor
          /\ rt'.open = rt.open /\ rt'.found = rt.found
        BY <2>1, <2>2 DEF Runtimes
    <2>5. rt.anchor # None => ~rt.open
        BY DEF DInv, ArmedIsAsked
    <2>6. board # "waveshare"
        BY <1>1 DEF DInv, NoText
    <2>7. Own # None
        BY WalletDeskAssumption
    <2> QED BY <1>1, <1>3, <2>1, <2>3, <2>4, <2>5, <2>6, <2>7, ReturnKeeps
<1> QED BY <1>2, <1>3 DEF RunCreate, Member

LEMMA RunJoinCodeKeeps ==
    ASSUME DInv, RunJoinCode, board' = board PROVE DInv'
<1>1. task.defer.kind = "JOIN_CODE" /\ "JOIN_CODE" \in Deferrable
    BY DEF RunJoinCode, Deferrable
<1>2. ASSUME NEW err, Refused(err), err = "INVALID_STATE" => rt.member # None \/ ~rt.stored
      PROVE  DInv'
    BY <1>1, <1>2, RefusedKeeps
<1>3. ASSUME NEW c \in Code, rt.member = None, rt' = ArmJoin(c), asked' = c, Returned("OK")
      PROVE  DInv'
    <2>1. rt \in Runtimes /\ Len(rt.found) <= FoundMax /\ Window \in 0 .. Window
        BY WalletDeskAssumption DEF DInv, Shape
    <2>2. rt' = [rt EXCEPT !.anchor = c, !.left = Window, !.open = FALSE]
        BY <1>3 DEF ArmJoin
    <2>3. rt' \in Runtimes
        BY <2>1, <2>2 DEF Runtimes
    <2>4. /\ rt'.member = rt.member /\ rt'.stored = rt.stored /\ rt'.anchor = c
          /\ ~rt'.open /\ rt'.found = rt.found
        BY <2>1, <2>2 DEF Runtimes
    <2>5. Prefix(ui.found, rt.found)
        BY <1>3 DEF DInv, Lists
    <2>6. ui.screen # "JOIN"
        BY <1>1 DEF DInv, ArmedIsAsked
    <2>7. board = "waveshare" => rt.member # Own
        BY DEF DInv, NoText
    <2> QED BY <1>1, <1>3, <2>1, <2>3, <2>4, <2>5, <2>6, <2>7, ReturnKeeps
<1>4. \/ \E err \in {"INVALID_ARG", "INVALID_STATE"} :
             Refused(err) /\ (err = "INVALID_STATE" => rt.member # None)
      \/ \E c \in Code : rt.member = None /\ rt' = ArmJoin(c) /\ asked' = c /\ Returned("OK")
    BY DEF RunJoinCode, Member
<1> QED BY <1>2, <1>3, <1>4

LEMMA RunDiscoverKeeps ==
    ASSUME DInv, RunDiscover, board' = board PROVE DInv'
<1>1. task.defer.kind = "DISCOVER" /\ "DISCOVER" \in Deferrable
    BY DEF RunDiscover, Deferrable
<1>2. CASE Member /\ Refused("INVALID_STATE")
    BY <1>1, <1>2, RefusedKeeps DEF Member
<1>3. CASE ~Member /\ rt' = ArmDiscovery /\ Returned("OK") /\ UNCHANGED asked
    <2>1. rt \in Runtimes /\ Window \in 0 .. Window /\ 0 <= FoundMax /\ rt.member = None
        BY <1>3, WalletDeskAssumption DEF DInv, Shape, Member
    <2>2. rt' = [rt EXCEPT !.open = TRUE, !.openLeft = Window, !.found = <<>>, !.anchor = None]
        BY <1>3 DEF ArmDiscovery
    <2>3. rt' \in Runtimes
        <3>1. PICK none : none = <<>>
            OBVIOUS
        <3>2. none \in Seq(Code)
            BY <3>1
        <3>3. rt' = [rt EXCEPT !.open = TRUE, !.openLeft = Window, !.found = none, !.anchor = None]
            BY <2>2, <3>1
        <3> QED BY <2>1, <3>2, <3>3 DEF Runtimes
    <2>4. /\ rt'.member = rt.member /\ rt'.stored = rt.stored /\ rt'.anchor = None
          /\ rt'.found = <<>>
        BY <2>1, <2>2 DEF Runtimes
    <2>5. ui.found = <<>> /\ Len(<<>>) = 0
        BY <1>1, <2>1 DEF DInv, Lists
    <2>6. Prefix(<<>>, <<>>)
        BY DEF Prefix
    <2>7. board = "waveshare" => rt.member # Own
        BY DEF DInv, NoText
    <2> QED BY <1>1, <1>3, <2>1, <2>3, <2>4, <2>5, <2>6, <2>7, ReturnKeeps
<1> QED BY <1>2, <1>3 DEF RunDiscover

LEMMA RunJoinDiscoveredKeeps ==
    ASSUME DInv, RunJoinDiscovered, board' = board PROVE DInv'
<1>1. task.defer.kind = "JOIN_DISCOVERED" /\ "JOIN_DISCOVERED" \in Deferrable
    BY DEF RunJoinDiscovered, Deferrable
<1>2. ASSUME NEW err, Refused(err), err = "INVALID_STATE" => rt.member # None \/ ~rt.stored
      PROVE  DInv'
    BY <1>1, <1>2, RefusedKeeps
<1>3. CASE /\ ~Member /\ rt.stored /\ task.defer.arg < Len(rt.found)
           /\ rt' = [Imported(rt, rt.found[task.defer.arg + 1]) EXCEPT !.open = FALSE,
                                                                        !.found = <<>>]
           /\ Returned("OK") /\ UNCHANGED asked
    <2>1. rt \in Runtimes /\ 0 <= FoundMax /\ rt.member = None
        BY <1>3, WalletDeskAssumption DEF DInv, Shape, Member
    <2>2. PICK c : c = rt.found[task.defer.arg + 1]
        OBVIOUS
    <2>3. c \in Code
        <3>1. task.defer.arg \in Nat /\ rt.found \in Seq(Code)
            BY <1>1, <2>1 DEF DInv, ChoiceIsAsked, Runtimes
        <3>2. task.defer.arg + 1 \in 1 .. Len(rt.found)
            BY <1>3, <3>1
        <3> QED BY <2>2, <3>1, <3>2
    <2>4. rt' = [rt EXCEPT !.member = c, !.open = FALSE, !.found = <<>>]
        BY <1>3, <2>2 DEF Imported
    <2>5. rt' \in Runtimes
        <3>1. PICK none : none = <<>>
            OBVIOUS
        <3>2. none \in Seq(Code)
            BY <3>1
        <3>3. rt' = [rt EXCEPT !.member = c, !.open = FALSE, !.found = none]
            BY <2>4, <3>1
        <3> QED BY <2>1, <2>3, <3>2, <3>3 DEF Runtimes
    <2>6. /\ rt'.member = c /\ rt'.stored = rt.stored /\ rt'.anchor = rt.anchor
          /\ rt'.found = <<>>
        BY <2>1, <2>4 DEF Runtimes
    <2>7. c # None /\ c # Own /\ Len(<<>>) = 0
        BY <2>3, WalletDeskAssumption
    <2>8. rt.anchor = None
        BY <1>1, <2>1 DEF DInv, ArmedIsAsked
    <2> QED BY <1>1, <1>3, <2>1, <2>5, <2>6, <2>7, <2>8, ReturnKeeps
<1> QED BY <1>2, <1>3 DEF RunJoinDiscovered, Member

LEMMA RunShowCodeKeeps ==
    ASSUME DInv, RunShowCode, board' = board PROVE DInv'
BY RefusedKeeps DEF RunShowCode, Deferrable

(* A wallet that starts, or starts again. *)
LEMMA FreshShape ==
    ASSUME NEW b \in BOOLEAN
    PROVE  Fresh(FALSE, b) \in Screens /\ Runtime(b) \in Runtimes
<1>1. "SETUP_PIN" \in Screen /\ "NONE" \in Feedback /\ None \in Entry
    BY DEF Screen, Feedback, Entry
<1>2. Fresh(FALSE, b) \in Screens
    BY <1>1 DEF Fresh, Screens
<1>3. Runtime(b) \in Runtimes
    BY WalletDeskAssumption DEF Runtime, Runtimes
<1> QED BY <1>2, <1>3

LEMMA Starts == Init => DInv
<1> SUFFICES ASSUME Init PROVE DInv
    OBVIOUS
<1>1. PICK b \in BOOLEAN : ui = Fresh(FALSE, b) /\ rt = Runtime(b)
    BY DEF Init
<1>2. ui \in Screens /\ rt \in Runtimes
    BY <1>1, FreshShape
<1>3. /\ ui.screen = "SETUP_PIN" /\ ui.found = <<>> /\ ui.choice = 0 /\ ui.broken = b
      /\ ui.founder = FALSE /\ ui.resetArmed = FALSE
    BY <1>1 DEF Fresh
<1>4. rt.member = None /\ rt.stored = ~b /\ rt.anchor = None /\ rt.found = <<>>
    BY <1>1 DEF Runtime
<1>5. task = [at |-> "poll", defer |-> NoDefer, js |-> "IDLE", list |-> <<>>]
    BY DEF Init, Idle
<1>6. task.at = "poll" /\ task.defer.kind = None /\ task.defer = NoDefer
    BY <1>5, NoDeferKind
<1>7. heard = <<>> /\ members = <<>> /\ core = <<>> /\ pressed = FALSE /\ board \in Board
    BY DEF Init
<1>8. Shape
    <2>1. <<>> \in Seq(Peer) /\ <<>> \in Seq(Code) /\ <<>> \in Seq(Event) /\ Len(<<>>) = 0
        OBVIOUS
    <2>2. /\ heard \in Seq(Peer) /\ members \in Seq(Peer) /\ core \in Seq(Event)
          /\ Len(core) <= QueueMax /\ Len(ui.found) <= FoundMax
          /\ Len(rt.found) <= FoundMax /\ ui.choice < FoundMax
        BY <1>3, <1>4, <1>7, <2>1, WalletDeskAssumption
    <2>3. /\ task = [at |-> task.at, defer |-> task.defer, js |-> task.js,
                       list |-> task.list]
          /\ task.at = "poll" /\ task.list = <<>> /\ task.js = "IDLE"
        BY <1>5
    <2>4. task.list \in Seq(Code) /\ Len(task.list) <= FoundMax
        BY <2>1, <2>3, WalletDeskAssumption
    <2> QED BY <1>2, <1>7, <2>2, <2>3, <2>4 DEF Shape
<1>9. Points /\ Pinned /\ Stored
    BY <1>3, <1>4, <1>6, <1>7 DEF Points, Pinned, Stored
<1>10. Lists
    <2>1. Prefix(<<>>, <<>>)
        BY DEF Prefix
    <2> QED BY <1>3, <1>4, <1>6, <2>1, NoDeferKind DEF Lists
<1>11. ArmedIsAsked /\ ChoiceIsAsked /\ TrueTold /\ ResetInv
    BY <1>3, <1>4, <1>6, NoDeferKind DEF ArmedIsAsked, ChoiceIsAsked, TrueTold, ResetInv
<1>12. GlassIsTrue
    BY DEF Init, Blank, Named, GlassIsTrue
<1>13. NoText
    BY <1>3, <1>4, <1>6, NoDeferKind, WalletDeskAssumption DEF NoText
<1> QED BY <1>8, <1>9, <1>10, <1>11, <1>12, <1>13 DEF DInv

LEMMA RunResetKeeps ==
    ASSUME DInv, RunReset, board' = board PROVE DInv'
<1>1. CASE Refused("FAIL")
    BY <1>1, RefusedKeeps DEF RunReset, Deferrable
<1>2. CASE /\ ui' = Fresh(FALSE, FALSE) /\ rt' = Runtime(FALSE)
           /\ glass' = Blank /\ heard' = <<>> /\ members' = <<>> /\ core' = <<>>
           /\ task' = Idle /\ asked' = None /\ pressed' = FALSE
    <2>1. ui' \in Screens /\ rt' \in Runtimes
        BY <1>2, FreshShape
    <2>2. /\ ui'.screen = "SETUP_PIN" /\ ui'.found = <<>> /\ ui'.choice = 0 /\ ui'.broken = FALSE
          /\ ui'.founder = FALSE /\ ui'.resetArmed = FALSE
        BY <1>2 DEF Fresh
    <2>3. rt'.member = None /\ rt'.stored = TRUE /\ rt'.anchor = None /\ rt'.found = <<>>
        BY <1>2 DEF Runtime
    <2>4. task' = [at |-> "poll", defer |-> NoDefer, js |-> "IDLE", list |-> <<>>]
        BY <1>2 DEF Idle
    <2>5. task'.at = "poll" /\ task'.defer.kind = None /\ task'.defer = NoDefer
        BY <2>4, NoDeferKind
    <2>6. board' \in Board
        BY DEF DInv, Shape
    <2>7. Shape'
        <3>1. <<>> \in Seq(Peer) /\ <<>> \in Seq(Code) /\ <<>> \in Seq(Event) /\ Len(<<>>) = 0
            OBVIOUS
        <3>2. /\ heard' \in Seq(Peer) /\ members' \in Seq(Peer) /\ core' \in Seq(Event)
              /\ Len(core') = 0 /\ Len(ui'.found) = 0 /\ Len(rt'.found) = 0 /\ ui'.choice = 0
            BY <1>2, <2>2, <2>3, <3>1
        <3>3. /\ task' = [at |-> task'.at, defer |-> task'.defer, js |-> task'.js,
                           list |-> task'.list]
              /\ task'.at = "poll" /\ task'.list = <<>> /\ task'.js = "IDLE"
            BY <2>4
        <3>4. task'.list \in Seq(Code) /\ Len(task'.list) <= FoundMax
            BY <3>1, <3>3, WalletDeskAssumption
        <3>5. pressed' = FALSE
            BY <1>2
        <3>6. /\ Len(core') <= QueueMax /\ Len(rt'.found) <= FoundMax /\ ui'.choice < FoundMax
              /\ Len(ui'.found) <= FoundMax
            BY <3>2, WalletDeskAssumption
        <3> QED BY <2>1, <2>6, <3>2, <3>3, <3>4, <3>5, <3>6 DEF Shape
    <2>8. Points' /\ Pinned' /\ Stored'
        BY <1>2, <2>2, <2>3, <2>5 DEF Points, Pinned, Stored
    <2>9. Lists'
        <3>1. Prefix(<<>>, <<>>)
            BY DEF Prefix
        <3> QED BY <2>2, <2>3, <2>5, <3>1, NoDeferKind DEF Lists
    <2>10. ArmedIsAsked' /\ ChoiceIsAsked' /\ TrueTold' /\ ResetInv'
        BY <2>2, <2>3, <2>5, NoDeferKind DEF ArmedIsAsked, ChoiceIsAsked, TrueTold, ResetInv
    <2>11. GlassIsTrue'
        BY <1>2, BlankSays DEF GlassIsTrue
    <2>12. NoText'
        BY <2>2, <2>3, <2>5, NoDeferKind, WalletDeskAssumption DEF NoText
    <2> QED BY <2>7, <2>8, <2>9, <2>10, <2>11, <2>12 DEF DInv
<1> QED BY <1>1, <1>2 DEF RunReset

(* The fields that a message and a move leave alone. *)
Alike(u, v) ==
    /\ v \in Screens
    /\ v.hasPin = u.hasPin /\ v.founder = u.founder /\ v.broken = u.broken
    /\ v.credited = u.credited /\ v.found = u.found /\ v.choice = u.choice

LEMMA NavShown ==
    ASSUME NEW u \in Screens, u.hasPin, NEW s \in Screen
    PROVE  /\ Alike(u, Nav(u, s))
           /\ Nav(u, s).screen = s /\ Nav(u, s).feedback = "NONE" /\ Nav(u, s).resetArmed = FALSE
<1>1. PICK v : v = [u EXCEPT !.screen = s, !.feedback = "NONE", !.resetArmed = FALSE]
    OBVIOUS
<1>2. v \in Screens
    BY <1>1, Messages DEF Screens
<1>3. Nav(u, s) = v
    BY <1>1 DEF Nav
<1>4. v.screen = s /\ v.feedback = "NONE" /\ v.resetArmed = FALSE
    BY <1>1 DEF Screens
<1>5. Alike(u, v)
    BY <1>1, <1>2 DEF Screens, Alike
<1> QED BY <1>3, <1>4, <1>5

LEMMA FailedShown ==
    ASSUME NEW u \in Screens, NEW f \in Feedback
    PROVE  /\ Alike(u, OnActionFailed(u, f))
           /\ OnActionFailed(u, f).screen = u.screen /\ OnActionFailed(u, f).feedback = f
           /\ OnActionFailed(u, f).resetArmed = u.resetArmed
<1>1. PICK v : v = [u EXCEPT !.feedback = f]
    OBVIOUS
<1>2. v \in Screens
    BY <1>1 DEF Screens
<1>3. OnActionFailed(u, f) = v
    BY <1>1 DEF OnActionFailed
<1> QED BY <1>1, <1>2, <1>3 DEF Screens, Alike

LEMMA ToldCases ==
    ASSUME NEW kind, NEW err
    PROVE  /\ err # "OK" /\ kind = "DISCOVER" =>
                  Told(kind, err) = OnActionFailed(Nav(ui, "CURRENCY_MENU"), Refusal(err))
           /\ err # "OK" /\ kind \in {"CREATE", "JOIN_CODE", "JOIN_DISCOVERED"} =>
                  Told(kind, err) = OnActionFailed(ui, Refusal(err))
           /\ err = "OK" /\ kind = "DISCOVER" => Told(kind, err) = ui
           /\ (err = "OK" /\ kind = "CREATE") \/ kind = "SHOW_CODE" =>
                  Told(kind, err) = Nav(ui, "FOUNDER_CODE")
           /\ err = "OK" /\ kind = "JOIN_CODE" =>
                  Told(kind, err) = Nav(ClearEntry([ui EXCEPT !.join = "ARMED"]), "CURRENCY_MENU")
           /\ err = "OK" /\ kind = "JOIN_DISCOVERED" =>
                  Told(kind, err) =
                      Nav(SetDiscovered([ui EXCEPT !.join = "MEMBER"], <<>>), "CURRENCY_MENU")
           /\ kind = "RESET" => Told(kind, err) = OnActionFailed(ui, "STORAGE_ERROR")
<1> DEFINE failed == OnActionFailed(Nav(ui, "CURRENCY_MENU"), Refusal(err))
           here == OnActionFailed(ui, Refusal(err))
           shown == Nav(ui, "FOUNDER_CODE")
           armed == Nav(ClearEntry([ui EXCEPT !.join = "ARMED"]), "CURRENCY_MENU")
           joined == Nav(SetDiscovered([ui EXCEPT !.join = "MEMBER"], <<>>), "CURRENCY_MENU")
           kept == OnActionFailed(ui, "STORAGE_ERROR")
<1>1. Told(kind, err) =
          CASE kind = "DISCOVER" -> IF err = "OK" THEN ui ELSE failed
            [] kind \in {"CREATE", "JOIN_CODE", "JOIN_DISCOVERED"} /\ err # "OK" -> here
            [] kind = "SHOW_CODE" \/ (kind = "CREATE" /\ err = "OK") -> shown
            [] kind = "JOIN_CODE" /\ err = "OK" -> armed
            [] kind = "JOIN_DISCOVERED" /\ err = "OK" -> joined
            [] kind = "RESET" -> kept
    BY DEF Told
<1> HIDE DEF failed, here, shown, armed, joined, kept
<1>2. /\ err # "OK" /\ kind = "DISCOVER" => Told(kind, err) = failed
      /\ err # "OK" /\ kind \in {"CREATE", "JOIN_CODE", "JOIN_DISCOVERED"} => Told(kind, err) = here
      /\ err = "OK" /\ kind = "DISCOVER" => Told(kind, err) = ui
      /\ (err = "OK" /\ kind = "CREATE") \/ kind = "SHOW_CODE" => Told(kind, err) = shown
      /\ err = "OK" /\ kind = "JOIN_CODE" => Told(kind, err) = armed
      /\ err = "OK" /\ kind = "JOIN_DISCOVERED" => Told(kind, err) = joined
      /\ kind = "RESET" => Told(kind, err) = kept
    BY <1>1
<1> QED BY <1>2 DEF failed, here, shown, armed, joined, kept

(* The screens are told what the deferred action has returned. *)
LEMMA ToldShape ==
    ASSUME DInv, task.defer.kind = "TELL", ui' = Told(task.defer.arg[1], task.defer.arg[2])
    PROVE  /\ ui' \in Screens /\ ui'.hasPin /\ ui'.founder = ui.founder /\ ui'.broken = ui.broken
           /\ ui'.credited = ui.credited
           /\ ui'.screen \in {ui.screen, "CURRENCY_MENU", "FOUNDER_CODE"}
           /\ ui'.resetArmed => ui.resetArmed
           /\ \/ ui'.found = ui.found /\ ui'.choice = ui.choice
              \/ ui'.found = <<>> /\ ui'.choice = 0 /\ ui'.screen = "CURRENCY_MENU"
           /\ \/ ui'.feedback \in {ui.feedback, "NONE", "OTHER"}
              \/ ui'.feedback = "ALREADY_MEMBER" /\ rt.member # None
              \/ ui'.feedback = "STORAGE_ERROR" /\ ui.broken
<1>1. ui \in Screens /\ ui.hasPin
    BY NoDeferKind DEF DInv, Shape, Pinned
<1>2. PICK kind \in Deferrable : kind = task.defer.arg[1]
    BY DEF DInv, TrueTold, Deferrable
<1>3. PICK err : err = task.defer.arg[2]
    OBVIOUS
<1>4. ui' = Told(kind, err)
    BY <1>2, <1>3
<1>5. PICK f : f = Refusal(err)
    OBVIOUS
<1>6. \/ f = "OTHER"
      \/ f = "ALREADY_MEMBER" /\ rt.member # None
      \/ f = "STORAGE_ERROR" /\ ui.broken
    BY <1>3, <1>5 DEF Refusal, DInv, TrueTold
<1>7. f \in Feedback /\ "STORAGE_ERROR" \in Feedback
    BY <1>6, Messages
<1>8. "CURRENCY_MENU" \in Screen \ {"JOIN", "SETUP_PIN"}
      /\ "FOUNDER_CODE" \in Screen \ {"JOIN", "SETUP_PIN"}
    BY DEF Screen
<1>9. PICK menu : menu = Nav(ui, "CURRENCY_MENU")
    OBVIOUS
<1>10. CASE err # "OK" /\ kind = "DISCOVER"
    <2>1. ui' = OnActionFailed(menu, f)
        BY <1>4, <1>5, <1>9, <1>10, ToldCases
    <2>2. Alike(ui, menu) /\ menu.screen = "CURRENCY_MENU" /\ menu.resetArmed = FALSE
        BY <1>1, <1>8, <1>9, NavShown
    <2>3. /\ Alike(menu, ui') /\ ui'.screen = menu.screen /\ ui'.feedback = f
          /\ ui'.resetArmed = menu.resetArmed
        BY <1>7, <2>1, <2>2, FailedShown DEF Alike
    <2> QED BY <1>1, <1>6, <2>2, <2>3 DEF Alike
<1>11. CASE err # "OK" /\ kind \in {"CREATE", "JOIN_CODE", "JOIN_DISCOVERED"}
    <2>1. ui' = OnActionFailed(ui, f)
        BY <1>4, <1>5, <1>11, ToldCases
    <2> QED BY <1>1, <1>6, <1>7, <2>1, FailedShown DEF Alike
<1>12. CASE err = "OK" /\ kind = "DISCOVER"
    <2>1. ui' = ui
        BY <1>4, <1>12, ToldCases
    <2> QED BY <1>1, <2>1
<1>13. CASE (err = "OK" /\ kind = "CREATE") \/ kind = "SHOW_CODE"
    <2>1. ui' = Nav(ui, "FOUNDER_CODE")
        BY <1>4, <1>13, ToldCases
    <2>2. PICK v : v = Nav(ui, "FOUNDER_CODE")
        OBVIOUS
    <2>3. Alike(ui, v) /\ v.screen = "FOUNDER_CODE" /\ v.feedback = "NONE" /\ v.resetArmed = FALSE
        BY <1>1, <1>8, <2>2, NavShown
    <2>4. ui' = v
        BY <2>1, <2>2
    <2> QED BY <1>1, <2>3, <2>4 DEF Alike
<1>14. CASE err = "OK" /\ kind = "JOIN_CODE"
    <2>1. PICK u : u = [ui EXCEPT !.join = "ARMED"]
        OBVIOUS
    <2>2. PICK v : v = ClearEntry(u)
        OBVIOUS
    <2>3. None \in Entry
        BY DEF Entry
    <2>4. u \in Screens
        BY <1>1, <2>1 DEF Screens
    <2>5. v \in Screens
        BY <2>2, <2>3, <2>4 DEF Screens, ClearEntry
    <2>6. Alike(ui, v)
        BY <1>1, <2>1, <2>2, <2>4, <2>5 DEF Screens, ClearEntry, Alike
    <2>7. ui' = Nav(v, "CURRENCY_MENU")
        BY <1>4, <1>14, <2>1, <2>2, ToldCases
    <2>8. v.hasPin
        BY <1>1, <2>6 DEF Alike
    <2>9. PICK w : w = Nav(v, "CURRENCY_MENU")
        OBVIOUS
    <2>10. /\ Alike(v, w) /\ w.screen = "CURRENCY_MENU" /\ w.feedback = "NONE"
           /\ w.resetArmed = FALSE
        BY <1>8, <2>5, <2>8, <2>9, NavShown
    <2>11. ui' = w
        BY <2>7, <2>9
    <2> QED BY <2>6, <2>8, <2>10, <2>11 DEF Alike
<1>15. CASE err = "OK" /\ kind = "JOIN_DISCOVERED"
    <2>1. PICK u : u = [ui EXCEPT !.join = "MEMBER"]
        OBVIOUS
    <2>2. PICK v : v = SetDiscovered(u, <<>>)
        OBVIOUS
    <2>3. u \in Screens
        BY <1>1, <2>1 DEF Screens
    <2>4. v = [u EXCEPT !.found = <<>>, !.choice = 0]
        BY <2>2 DEF SetDiscovered
    <2>5. <<>> \in Seq(Code)
        OBVIOUS
    <2>6. v \in Screens /\ v.found = <<>> /\ v.choice = 0
        BY <2>3, <2>4, <2>5 DEF Screens
    <2>7. v.hasPin /\ v.founder = ui.founder /\ v.broken = ui.broken /\ v.credited = ui.credited
        BY <1>1, <2>1, <2>3, <2>4 DEF Screens
    <2>8. ui' = Nav(v, "CURRENCY_MENU")
        BY <1>4, <1>15, <2>1, <2>2, ToldCases
    <2>9. PICK w : w = Nav(v, "CURRENCY_MENU")
        OBVIOUS
    <2>10. /\ Alike(v, w) /\ w.screen = "CURRENCY_MENU" /\ w.feedback = "NONE"
           /\ w.resetArmed = FALSE
        BY <1>8, <2>6, <2>7, <2>9, NavShown
    <2>11. ui' = w
        BY <2>8, <2>9
    <2> QED BY <2>6, <2>7, <2>10, <2>11 DEF Alike
<1>16. CASE kind = "RESET"
    <2>1. ui' = OnActionFailed(ui, "STORAGE_ERROR") /\ ui.broken
        BY <1>2, <1>4, <1>16, ToldCases DEF DInv, TrueTold
    <2>2. /\ Alike(ui, ui') /\ ui'.screen = ui.screen /\ ui'.feedback = "STORAGE_ERROR"
          /\ ui'.resetArmed = ui.resetArmed
        BY <1>1, <1>7, <2>1, FailedShown
    <2> QED BY <1>1, <2>1, <2>2 DEF Alike
<1> QED BY <1>10, <1>11, <1>12, <1>13, <1>14, <1>15, <1>16 DEF Deferrable

-----------------------------------------------------------------------------
(* The UI task settles: nothing is deferred any more.                      *)
LEMMA SettledKeeps ==
    ASSUME DInv, task.defer.kind # "DISCOVER", NEW at \in {"poll", "draw"},
           task' = [at |-> at, defer |-> NoDefer, js |-> "IDLE", list |-> <<>>],
           ui' \in Screens, ui'.hasPin = ui.hasPin, ui'.broken = ui.broken,
           ui'.founder \in {ui.founder, Founder},
           ui'.screen \in {ui.screen, "CURRENCY_MENU", "FOUNDER_CODE"},
           ui.hasPin \/ ui'.screen = ui.screen,
           ui'.resetArmed => ui.resetArmed,
           ui'.choice < FoundMax, Len(ui'.found) <= FoundMax, Points',
           rt.member = None => Prefix(ui'.found, rt.found),
           GlassIsTrue',
           UNCHANGED <<rt, heard, members, core, asked, pressed, board>>
    PROVE  DInv'
<1>1. /\ task'.at = at /\ task'.defer = NoDefer /\ task'.js = "IDLE" /\ task'.list = <<>>
      /\ task' = [at |-> task'.at, defer |-> task'.defer, js |-> task'.js, list |-> task'.list]
    OBVIOUS
<1>2. task'.list \in Seq(Code) /\ Len(task'.list) <= FoundMax
    BY <1>1, WalletDeskAssumption
<1>3. task'.at # "push" /\ task'.defer.kind = None
    BY <1>1, NoDeferKind
<1>4. Shape'
    BY <1>1, <1>2 DEF DInv, Shape
<1>5. Pinned' /\ Stored'
    BY <1>1 DEF DInv, Pinned, Stored
<1>6. Lists'
    BY <1>3, NoDeferKind DEF Lists
<1>7. ArmedIsAsked'
    BY <1>3, NoDeferKind DEF DInv, ArmedIsAsked
<1>8. ChoiceIsAsked' /\ TrueTold' /\ ResetInv'
    BY <1>3, NoDeferKind DEF DInv, ChoiceIsAsked, TrueTold, ResetInv
<1>9. NoText'
    BY <1>3, NoDeferKind DEF DInv, NoText, Founder
<1> QED BY <1>4, <1>5, <1>6, <1>7, <1>8, <1>9 DEF DInv

LEMMA TellKeeps ==
    ASSUME DInv, Tell, board' = board PROVE DInv'
<1>1. task' = [at |-> "poll", defer |-> NoDefer, js |-> "IDLE", list |-> <<>>]
    BY DEF Tell, Idle
<1>2. UNCHANGED <<glass, rt, heard, members, core, asked, pressed>> /\ task.defer.kind = "TELL"
    BY DEF Tell
<1>3. ui.hasPin
    BY <1>2, NoDeferKind DEF DInv, Pinned
<1>4. rt.found \in Seq(Code) /\ ui \in Screens
    BY DEF DInv, Shape, Runtimes
<1>5. /\ ui' \in Screens /\ ui'.hasPin /\ ui'.founder = ui.founder /\ ui'.broken = ui.broken
      /\ ui'.credited = ui.credited
      /\ ui'.screen \in {ui.screen, "CURRENCY_MENU", "FOUNDER_CODE"}
      /\ ui'.resetArmed => ui.resetArmed
      /\ \/ ui'.found = ui.found /\ ui'.choice = ui.choice
         \/ ui'.found = <<>> /\ ui'.choice = 0 /\ ui'.screen = "CURRENCY_MENU"
    BY <1>2, <1>3, <1>4, ToldShape DEF Tell
<1>6. ui'.choice < FoundMax /\ Len(ui'.found) <= FoundMax
    BY <1>5, WalletDeskAssumption DEF DInv, Shape
<1>7. Points'
    BY <1>5 DEF DInv, Points
<1>8. rt.member = None => Prefix(ui'.found, rt.found)
    <2>1. Len(rt.found) \in Nat
        BY <1>4
    <2>2. Prefix(<<>>, rt.found)
        BY <2>1 DEF Prefix
    <2> QED BY <1>5, <2>2 DEF DInv, Lists
<1>9. GlassIsTrue'
    BY <1>2, <1>5 DEF DInv, GlassIsTrue, Named
<1>10. ui'.hasPin = ui.hasPin
    BY <1>3, <1>4, <1>5 DEF Screens
<1> QED BY <1>1, <1>2, <1>3, <1>5, <1>6, <1>7, <1>8, <1>9, <1>10, SettledKeeps

LEMMA UiPushKeeps ==
    ASSUME DInv, UiPush, board' = board PROVE DInv' /\ ui'.feedback = ui.feedback
<1>1. task' = [at |-> "draw", defer |-> NoDefer, js |-> "IDLE", list |-> <<>>]
    BY DEF UiPush, Idle
<1>2. UNCHANGED <<glass, rt, heard, members, core, asked, pressed>> /\ task.at = "push"
    BY DEF UiPush
<1>3. /\ ui \in Screens /\ ui.choice < FoundMax /\ Len(ui.found) <= FoundMax /\ FoundMax \in Nat
      /\ task.list \in Seq(Code) /\ Len(task.list) <= FoundMax /\ task.defer.kind # "DISCOVER"
      /\ task.js \in {"IDLE", "ARMED", "MEMBER"}
    BY <1>2, NoDeferKind, WalletDeskAssumption DEF DInv, Shape
<1>4. CASE ui' = ui
    <2>1. Points' /\ (rt.member = None => Prefix(ui'.found, rt.found))
        BY <1>4 DEF DInv, Points, Lists
    <2>2. GlassIsTrue'
        BY <1>2, <1>4 DEF DInv, GlassIsTrue, Named
    <2> QED BY <1>1, <1>2, <1>3, <1>4, <2>1, <2>2, SettledKeeps
<1>5. CASE ui' = [SetDiscovered(ui, task.list) EXCEPT !.join = task.js, !.founder = Founder]
    <2>1. PICK k : k = IF task.list = <<>> THEN 0
                       ELSE IF ui.choice >= Len(task.list) THEN Len(task.list) - 1 ELSE ui.choice
        OBVIOUS
    <2>2. PICK u : u = [ui EXCEPT !.found = task.list, !.choice = k]
        OBVIOUS
    <2>3. SetDiscovered(ui, task.list) = u
        BY <2>1, <2>2 DEF SetDiscovered
    <2>4. ui.choice \in Nat /\ Len(task.list) \in Nat /\ (task.list # <<>> => Len(task.list) > 0)
        BY <1>3 DEF Screens
    <2>5. /\ k \in Nat /\ k < FoundMax /\ (task.list # <<>> => k < Len(task.list))
          /\ ui.choice < Len(task.list) => k = ui.choice
        BY <1>3, <2>1, <2>4, WalletDeskAssumption
    <2>6. u \in Screens
        BY <1>3, <2>2, <2>5 DEF Screens
    <2>7. PICK f \in BOOLEAN : f = Founder
        BY DEF Founder
    <2>8. ui' = [u EXCEPT !.join = task.js, !.founder = f]
        BY <1>5, <2>3, <2>7
    <2>9. ui' \in Screens
        BY <1>3, <2>6, <2>8 DEF Screens
    <2>10. /\ ui'.found = task.list /\ ui'.choice = k /\ ui'.founder = f /\ ui'.screen = u.screen
           /\ ui'.hasPin = u.hasPin /\ ui'.broken = u.broken /\ ui'.resetArmed = u.resetArmed
           /\ ui'.credited = u.credited /\ ui'.feedback = u.feedback
        BY <2>6, <2>8, <2>2 DEF Screens
    <2>11. /\ u.screen = ui.screen /\ u.hasPin = ui.hasPin /\ u.broken = ui.broken
           /\ u.resetArmed = ui.resetArmed /\ u.credited = ui.credited
           /\ u.feedback = ui.feedback
        BY <1>3, <2>2 DEF Screens
    <2>12. Points'
        BY <2>5, <2>10 DEF Points
    <2>13. rt.member = None => Prefix(ui'.found, rt.found) /\ Prefix(ui.found, task.list)
        BY <1>2, <2>10 DEF DInv, Lists
    <2>14. GlassIsTrue'
        <3>1. Named' = Named /\ glass' = glass /\ rt' = rt
            BY <1>2 DEF Named
        <3>2. ASSUME Named, ui.screen = "JOIN", rt.member = None
              PROVE  ui'.found # <<>> /\ glass.target = ui'.found[ui'.choice + 1]
            <4>1. ui.found # <<>> /\ glass.target = ui.found[ui.choice + 1]
                BY <3>2 DEF DInv, GlassIsTrue
            <4>2. ui.choice < Len(ui.found) /\ Len(ui.found) \in Nat
                BY <1>3, <4>1 DEF DInv, Points, Screens
            <4>3. Len(ui.found) <= Len(task.list) /\ ui.choice + 1 \in 1 .. Len(ui.found)
                BY <2>4, <2>13, <3>2, <4>2 DEF Prefix
            <4>4. k = ui.choice
                BY <2>4, <2>5, <4>2, <4>3
            <4>5. ui.found[ui.choice + 1] = task.list[ui.choice + 1]
                BY <2>13, <3>2, <4>3 DEF Prefix
            <4>6. task.list # <<>>
                BY <2>4, <4>2, <4>3
            <4> QED BY <2>10, <4>1, <4>4, <4>5, <4>6
        <3>3. Named /\ glass.screen = "CREDIT" => glass.target = ui'.credited
            BY <2>10, <2>11 DEF DInv, GlassIsTrue
        <3> QED BY <2>10, <2>11, <3>1, <3>2, <3>3 DEF GlassIsTrue
    <2>15. DInv'
        BY <1>1, <1>2, <1>3, <2>5, <2>7, <2>9, <2>10, <2>11, <2>12, <2>13, <2>14, SettledKeeps
    <2> QED BY <2>10, <2>11, <2>15
<1> QED BY <1>4, <1>5 DEF UiPush

LEMMA UiDrawKeeps ==
    ASSUME DInv, UiDraw, board' = board PROVE DInv' /\ ui'.feedback = ui.feedback
<1>1. task' = [at |-> "poll", defer |-> NoDefer, js |-> "IDLE", list |-> <<>>]
    BY DEF UiDraw, Idle
<1>2. UNCHANGED <<rt, heard, members, core, asked, pressed>> /\ task.at = "draw"
    BY DEF UiDraw
<1>3. /\ ui \in Screens /\ heard \in Seq(Peer) /\ members \in Seq(Peer)
      /\ task.defer.kind # "DISCOVER"
    BY <1>2, NoDeferKind DEF DInv, Shape
<1>4. Listed(ui, ui')
    <2>1. Listed(ui, ui)
        BY <1>3 DEF Listed
    <2> QED BY <1>3, <2>1, RefreshedLists DEF UiDraw
<1>5. Points' /\ (rt.member = None => Prefix(ui'.found, rt.found))
    BY <1>4 DEF Listed, DInv, Points, Lists
<1>6. GlassIsTrue'
    <2>1. CASE UNCHANGED <<ui, glass>>
        BY <1>2, <2>1 DEF DInv, GlassIsTrue, Named
    <2>2. CASE glass' = Blank
        BY <2>2, BlankSays DEF GlassIsTrue
    <2>3. CASE View(ui').target # None /\ glass' = View(ui')
        <3>1. glass'.screen = ui'.screen /\ glass'.target = View(ui').target
            BY <2>3 DEF View
        <3>2. ui'.screen = "JOIN" => View(ui').target = Chosen(ui')
            BY DEF View
        <3>3. ui'.screen = "CREDIT" => View(ui').target = ui'.credited
            BY DEF View
        <3>4. ui'.screen = "JOIN" =>
                  ui'.found # <<>> /\ glass'.target = ui'.found[ui'.choice + 1]
            BY <2>3, <3>1, <3>2 DEF Chosen
        <3> QED BY <3>1, <3>3, <3>4 DEF GlassIsTrue
    <2> QED BY <2>1, <2>2, <2>3 DEF UiDraw
<1>7. DInv'
    BY <1>1, <1>2, <1>3, <1>4, <1>5, <1>6, SettledKeeps DEF Listed, DInv, Shape
<1> QED BY <1>4, <1>7 DEF Listed

-----------------------------------------------------------------------------
(* Every step keeps the invariant. *)

LEMMA UserKeeps ==
    ASSUME DInv, User, board' = board
    PROVE  DInv' /\ Passing(ui, ui')
<1>1. task.defer = NoDefer
    BY DEF User
<1>2. ASSUME NEW a \in Action, PressPlain(a) PROVE DInv' /\ Passing(ui, ui')
    BY <1>1, <1>2, PlainKeeps
<1>3. CASE ConfirmMove
    BY <1>1, <1>3, ConfirmMoveKeeps
<1>4. CASE ConfirmPin
    BY <1>1, <1>4, ConfirmPinKeeps
<1>5. CASE ConfirmPayment
    BY <1>1, <1>5, ConfirmPaymentKeeps
<1>6. CASE ConfirmCredit
    BY <1>1, <1>6, ConfirmCreditKeeps
<1>7. CASE PressDeferred
    BY <1>1, <1>7, PressDeferredKeeps
<1>8. CASE TapNothing
    BY <1>8, TapNothingKeeps DEF Passing
<1> QED BY <1>2, <1>3, <1>4, <1>5, <1>6, <1>7, <1>8 DEF User

LEMMA DeferredKeeps ==
    ASSUME DInv, Deferred, board' = board
    PROVE  DInv'
<1>1. CASE RunCreate
    BY <1>1, RunCreateKeeps
<1>2. CASE RunJoinCode
    BY <1>2, RunJoinCodeKeeps
<1>3. CASE RunDiscover
    BY <1>3, RunDiscoverKeeps
<1>4. CASE RunJoinDiscovered
    BY <1>4, RunJoinDiscoveredKeeps
<1>5. CASE RunShowCode
    BY <1>5, RunShowCodeKeeps
<1>6. CASE RunReset
    BY <1>6, RunResetKeeps
<1>7. CASE Tell
    BY <1>7, TellKeeps
<1> QED BY <1>1, <1>2, <1>3, <1>4, <1>5, <1>6, <1>7 DEF Deferred

LEMMA OthersKeep ==
    ASSUME DInv, Others, board' = board
    PROVE  DInv'
<1>1. ASSUME NEW p \in Peer, RadioAnnounce(p) PROVE DInv'
    BY <1>1, RadioAnnounceKeeps
<1>2. ASSUME NEW p \in Peer, RadioMember(p) PROVE DInv'
    BY <1>2, RadioMemberKeeps
<1>3. ASSUME NEW c \in Code, RadioOffer(c) PROVE DInv'
    BY <1>3, RadioOfferKeeps
<1>4. CASE RadioFeedback
    BY <1>4, RadioFeedbackKeeps
<1>5. CASE CoreRun
    BY <1>5, CoreRunKeeps
<1>6. CASE Clock
    BY <1>6, ClockKeeps
<1> QED BY <1>1, <1>2, <1>3, <1>4, <1>5, <1>6 DEF Others

LEMMA DNext == DInv /\ [Next]_vars => DInv'
<1> SUFFICES ASSUME DInv, [Next]_vars PROVE DInv'
    OBVIOUS
<1>1. CASE Next
    <2>1. board' = board
        BY <1>1 DEF Next
    <2>2. CASE User
        BY <2>1, <2>2, UserKeeps
    <2>3. CASE Deferred
        BY <2>1, <2>3, DeferredKeeps
    <2>4. CASE UiCopy
        BY <2>1, <2>4, UiCopyKeeps
    <2>5. CASE UiPush
        BY <2>1, <2>5, UiPushKeeps
    <2>6. CASE UiDraw
        BY <2>1, <2>6, UiDrawKeeps
    <2>7. CASE Others
        BY <2>1, <2>7, OthersKeep
    <2> QED BY <1>1, <2>2, <2>3, <2>4, <2>5, <2>6, <2>7 DEF Next
<1>2. CASE UNCHANGED vars
    <2>1. UNCHANGED <<board, ui, glass, rt, heard, members, core, task, asked, pressed>>
        BY <1>2 DEF vars
    <2>2. Shape' /\ Points'
        BY <2>1 DEF DInv, Shape, Points
    <2>3. Pinned' /\ Stored' /\ Lists'
        BY <2>1 DEF DInv, Pinned, Stored, Lists
    <2>4. ArmedIsAsked' /\ ChoiceIsAsked'
        BY <2>1 DEF DInv, ArmedIsAsked, ChoiceIsAsked
    <2>5. GlassIsTrue' /\ NoText'
        BY <2>1 DEF DInv, GlassIsTrue, Named, NoText
    <2>6. TrueTold' /\ ResetInv'
        BY <2>1 DEF DInv, TrueTold, ResetInv
    <2> QED BY <2>2, <2>3, <2>4, <2>5, <2>6 DEF DInv
<1> QED BY <1>1, <1>2

LEMMA DInvariance == Spec => []DInv
BY Starts, DNext, PTL DEF Spec

(* In every reachable state the screens, the join machine and the queue    *)
(* keep their types, the choice stays within its list, no join is armed    *)
(* while a discovery is open, and whoever left the first screen has a PIN. *)
THEOREM TypeCorrect == Spec => []TypeOK
<1>1. DInv => TypeOK
    <2> SUFFICES ASSUME DInv PROVE TypeOK
        OBVIOUS
    <2>1. ui \in Screens /\ rt \in Runtimes
        BY DEF DInv, Shape
    <2>2. /\ ui.screen \in Screen /\ ui.feedback \in Feedback
          /\ ui.payee \in Peer \cup {None} /\ ui.credited \in Peer \cup {None}
        BY <2>1 DEF Screens
    <2>3. /\ rt.member \in Code \cup {Own, None} /\ rt.anchor \in Code \cup {None}
          /\ rt.left \in 0 .. Window /\ rt.openLeft \in 0 .. Window
        BY <2>1 DEF Runtimes
    <2>4. ~(Armed /\ rt.open)
        BY DEF Armed, DInv, ArmedIsAsked
    <2>5. /\ Len(rt.found) <= FoundMax /\ Len(core) <= QueueMax /\ ui.choice < FoundMax
          /\ ui.hasPin \/ ui.screen = "SETUP_PIN"
        BY DEF DInv, Shape, Pinned
    <2> QED BY <2>2, <2>3, <2>4, <2>5 DEF TypeOK
<1> QED BY <1>1, DInvariance, PTL

-----------------------------------------------------------------------------
(* The steps that the properties are about. *)

LEMMA UserLeaves ==
    ASSUME User
    PROVE  rt' = rt /\ (asked' = asked \/ PressDeferred)
BY DEF User, PressPlain, ConfirmMove, ConfirmPin, ConfirmPayment, ConfirmCredit, PressDeferred,
       TapNothing

LEMMA JoinStep ==
    ASSUME DInv, Next, rt'.member # rt.member, rt'.member # None
    PROVE  rt.member = None /\ rt'.member = asked'
<1>1. board' = board /\ rt \in Runtimes
    BY DEF Next, DInv, Shape
<1>2. CASE RunCreate
    <2>1. ~Member /\ rt' = Imported(rt, Own) /\ asked' = Own
        BY <1>2 DEF RunCreate, Refused
    <2> QED BY <1>1, <2>1 DEF Member, Imported, Runtimes
<1>3. CASE RunJoinCode
    <2>1. rt' = rt \/ rt' = [rt EXCEPT !.anchor = task.defer.arg, !.left = Window, !.open = FALSE]
        BY <1>3 DEF RunJoinCode, Refused, ArmJoin
    <2> QED BY <1>1, <2>1 DEF Runtimes
<1>4. CASE RunDiscover
    <2>1. rt' = rt \/ rt' = [rt EXCEPT !.open = TRUE, !.openLeft = Window, !.found = <<>>,
                                       !.anchor = None]
        BY <1>4 DEF RunDiscover, Refused, ArmDiscovery
    <2> QED BY <1>1, <2>1 DEF Runtimes
<1>5. CASE RunJoinDiscovered
    <2>1. PICK c : c = rt.found[task.defer.arg + 1]
        OBVIOUS
    <2>2. /\ ~Member /\ asked' = asked
          /\ rt' = [Imported(rt, c) EXCEPT !.open = FALSE, !.found = <<>>]
        BY <1>5, <2>1 DEF RunJoinDiscovered, Refused
    <2>3. rt' = [rt EXCEPT !.member = c, !.open = FALSE, !.found = <<>>]
        BY <2>2 DEF Imported
    <2>4. rt'.member = c /\ rt.member = None
        BY <1>1, <2>2, <2>3 DEF Runtimes, Member
    <2>5. asked = c
        BY <1>5, <2>1, <2>4 DEF RunJoinDiscovered, DInv, ChoiceIsAsked
    <2> QED BY <2>2, <2>4, <2>5
<1>6. CASE RunReset
    <2>1. rt' = rt \/ rt' = Runtime(FALSE)
        BY <1>6 DEF RunReset, Refused
    <2> QED BY <2>1 DEF Runtime
<1>7. ASSUME NEW c \in Code, RadioOffer(c) PROVE rt.member = None /\ rt'.member = asked'
    <2>1. Later(rt, rt')
        BY <1>1, <1>7, RadioOfferKeeps
    <2>2. rt.member = None /\ rt'.member = rt.anchor /\ rt.anchor # None
        BY <2>1 DEF Later
    <2>3. rt.anchor = asked /\ asked' = asked
        BY <1>7, <2>2 DEF DInv, ArmedIsAsked, RadioOffer
    <2> QED BY <2>2, <2>3
<1>8. ASSUME NEW p \in Peer, RadioAnnounce(p) PROVE FALSE
    BY <1>1, <1>8, RadioAnnounceKeeps
<1>9. CASE UiCopy
    BY <1>1, <1>9, UiCopyKeeps
<1>10. CASE Clock
    BY <1>1, <1>10, ClockKeeps
<1>11. ~User
    BY UserLeaves
<1>12. ~RunShowCode /\ ~Tell /\ ~UiPush /\ ~UiDraw /\ ~RadioFeedback /\ ~CoreRun
    BY DEF RunShowCode, Refused, Tell, UiPush, UiDraw, RadioFeedback, CoreRun
<1>13. \A p \in Peer : ~RadioMember(p)
    BY DEF RadioMember
<1> QED BY <1>2, <1>3, <1>4, <1>5, <1>6, <1>7, <1>8, <1>9, <1>10, <1>11, <1>12, <1>13
        DEF Next, Deferred, Others

(* A wallet that becomes a member had no currency, and the one it enters   *)
(* is the one that its user asked for last, whatever offers arrived, in    *)
(* whatever order, between the press and the runtime.                      *)
THEOREM OnlyWhatWasAsked == Spec => JoinedIsAsked
<1>1. DInv /\ [Next]_vars => [rt'.member # rt.member /\ rt'.member # None
                                  => rt.member = None /\ rt'.member = asked']_vars
    BY JoinStep
<1> QED BY <1>1, DInvariance, PTL DEF Spec, JoinedIsAsked

(* What a message that appears says of the runtime. *)
True(f) ==
    /\ f = "ALREADY_MEMBER" => rt'.member # None
    /\ f = "STORAGE_ERROR" => ui'.broken
    /\ f = "JOIN_EXPIRED" => rt.anchor # None /\ rt'.member # rt.anchor

LEMMA ExpiryIsTrue ==
    ASSUME DInv, ui'.feedback # ui.feedback, ui'.feedback = Expired(rt, ui).ui.feedback,
           Expired(rt, ui).rt.anchor = None => rt'.member = rt.member
    PROVE  True(ui'.feedback)
<1>1. ui'.feedback = "JOIN_EXPIRED" /\ rt.anchor # None /\ rt'.member = rt.member
    BY ExpiredLater
<1>2. rt.member \in {None, Own} /\ rt.anchor \in Code
    BY <1>1 DEF DInv, ArmedIsAsked, Shape, Runtimes
<1> QED BY <1>1, <1>2, WalletDeskAssumption DEF True

LEMMA HonestStep ==
    ASSUME DInv, Next, ui'.feedback # ui.feedback
    PROVE  True(ui'.feedback)
<1>1. board' = board
    BY DEF Next
<1>2. CASE User
    <2>1. ui'.feedback \in {"NONE", "OTHER"}
        BY <1>1, <1>2, UserKeeps DEF Passing
    <2> QED BY <2>1 DEF True
<1>3. CASE Tell
    <2>1. task.defer.kind = "TELL" /\ rt' = rt /\ ui' = Told(task.defer.arg[1], task.defer.arg[2])
        BY <1>3 DEF Tell
    <2>2. /\ ui'.broken = ui.broken
          /\ \/ ui'.feedback \in {"NONE", "OTHER"}
             \/ ui'.feedback = "ALREADY_MEMBER" /\ rt.member # None
             \/ ui'.feedback = "STORAGE_ERROR" /\ ui.broken
        BY <2>1, ToldShape
    <2> QED BY <2>1, <2>2 DEF True
<1>4. CASE RunReset
    <2>1. ui' = Fresh(FALSE, FALSE)
        BY <1>4 DEF RunReset, Refused, Returned
    <2>2. ui'.feedback = "NONE"
        BY <2>1 DEF Fresh
    <2> QED BY <2>2 DEF True
<1>5. CASE UiCopy
    BY <1>1, <1>5, UiCopyKeeps, ExpiryIsTrue
<1>6. ASSUME NEW p \in Peer, RadioAnnounce(p) PROVE True(ui'.feedback)
    BY <1>1, <1>6, RadioAnnounceKeeps, ExpiryIsTrue
<1>7. ASSUME NEW c \in Code, RadioOffer(c) PROVE True(ui'.feedback)
    BY <1>1, <1>7, RadioOfferKeeps, ExpiryIsTrue
<1>8. CASE RadioFeedback
    BY <1>1, <1>8, RadioFeedbackKeeps DEF True
<1>9. CASE CoreRun
    BY <1>1, <1>9, CoreRunKeeps DEF True
<1>10. ~UiPush /\ ~UiDraw
    BY <1>1, UiPushKeeps, UiDrawKeeps
<1>11. ~RunCreate /\ ~RunJoinCode /\ ~RunDiscover /\ ~RunJoinDiscovered /\ ~RunShowCode /\ ~Clock
    BY DEF RunCreate, RunJoinCode, RunDiscover, RunJoinDiscovered, RunShowCode, Clock, Refused,
           Returned
<1>12. \A p \in Peer : ~RadioMember(p)
    BY DEF RadioMember
<1> QED BY <1>2, <1>3, <1>4, <1>5, <1>6, <1>7, <1>8, <1>9, <1>10, <1>11, <1>12
        DEF Next, Deferred, Others

(* A message that appears is true of the state it appears in, although the *)
(* runtime was asked in an earlier critical section.                       *)
THEOREM MessagesAreTrue == Spec => HonestMessage
<1>1. DInv /\ [Next]_vars =>
          [ui'.feedback # ui.feedback =>
              /\ ui'.feedback = "ALREADY_MEMBER" => rt'.member # None
              /\ ui'.feedback = "STORAGE_ERROR" => ui'.broken
              /\ ui'.feedback = "JOIN_EXPIRED" => rt.anchor # None /\ rt'.member # rt.anchor]_vars
    BY HonestStep DEF True
<1> QED BY <1>1, DInvariance, PTL DEF Spec, HonestMessage

LEMMA ResetStep ==
    ASSUME DInv, Next, task'.defer.kind = "RESET", task.defer.kind # "RESET"
    PROVE  pressed /\ pressed'
<1>1. task = [at |-> task.at, defer |-> task.defer, js |-> task.js, list |-> task.list]
      /\ ui.screen \in Screen
    BY DEF DInv, Shape, Screens
<1>2. ASSUME NEW a, NEW d, Pressed(a, d) PROVE task'.defer = d
    BY <1>1, <1>2 DEF Pressed
<1>3. ASSUME NEW a, Pressed(a, NoDefer) PROVE FALSE
    BY <1>2, <1>3, NoDeferKind
<1>4. CASE PressDeferred
    <2>1. PICK d : d = IF ResetConfirmed(ui) THEN [kind |-> "RESET", arg |-> None] ELSE NoDefer
        OBVIOUS
    <2>2. \/ \E e : e.kind # "RESET" /\ \E a : Pressed(a, e)
          \/ Pressed("STORAGE_RESET", d)
        <3>1. ASSUME NEW kind \in {"DISCOVER", "SHOW_CODE", "CREATE", "JOIN_DISCOVERED", "JOIN_CODE"},
                     NEW arg, NEW a, Pressed(a, [kind |-> kind, arg |-> arg])
              PROVE  \E e : e.kind # "RESET" /\ \E b : Pressed(b, e)
            <4>1. PICK e : e = [kind |-> kind, arg |-> arg]
                OBVIOUS
            <4>2. e.kind # "RESET" /\ Pressed(a, e)
                BY <3>1, <4>1
            <4> QED BY <4>2
        <3> QED BY <1>4, <2>1, <3>1 DEF PressDeferred
    <2>3. Pressed("STORAGE_RESET", d)
        BY <1>2, <2>2
    <2>4. d.kind = "RESET"
        BY <1>2, <2>3
    <2>5. ui.resetArmed
        BY <2>1, <2>4, NoDeferKind DEF ResetConfirmed
    <2>6. "STORAGE_RESET" \in OnButton /\ ui.screen = "NETWORK"
        BY <1>1, <2>3, Reaching DEF Pressed
    <2> QED BY <2>3, <2>5, <2>6 DEF Pressed, DInv, ResetInv
<1>5. ~(\E a \in Action : PressPlain(a))
    BY <1>3 DEF PressPlain
<1>6. ~ConfirmMove /\ ~ConfirmPin /\ ~ConfirmPayment /\ ~ConfirmCredit
    BY <1>3 DEF ConfirmMove, ConfirmPin, ConfirmPayment, ConfirmCredit
<1>7. ~TapNothing
    BY DEF TapNothing
<1>8. ASSUME NEW err, Returned(err) PROVE FALSE
    BY <1>1, <1>8 DEF Returned
<1>9. ~RunCreate /\ ~RunJoinCode /\ ~RunDiscover /\ ~RunJoinDiscovered /\ ~RunShowCode
    BY <1>8 DEF RunCreate, RunJoinCode, RunDiscover, RunJoinDiscovered, RunShowCode, Refused
<1>10. task' # Idle
    BY NoDeferKind DEF Idle
<1>11. ~RunReset /\ ~Tell /\ ~UiDraw
    BY <1>8, <1>10 DEF RunReset, Refused, Tell, UiDraw
<1>12. ~UiPush
    BY NoDeferKind DEF UiPush, Idle
<1>13. ~UiCopy
    BY NoDeferKind DEF UiCopy, Idle
<1>14. ~Others
    BY DEF Others, RadioAnnounce, RadioMember, RadioOffer, RadioFeedback, CoreRun, Clock
<1> QED BY <1>4, <1>5, <1>6, <1>7, <1>9, <1>11, <1>12, <1>13, <1>14 DEF Next, User, Deferred

(* The erasure of the record is asked of the runtime only by a press of    *)
(* the reset button that follows another one, with no other button between *)
(* them.                                                                   *)
THEOREM ResetNeedsTwoPresses == Spec => ResetDeliberate
<1>1. DInv /\ [Next]_vars => [task'.defer.kind = "RESET" /\ task.defer.kind # "RESET"
                                  => pressed /\ pressed']_vars
    BY ResetStep
<1> QED BY <1>1, DInvariance, PTL DEF Spec, ResetDeliberate

LEMMA CreditStep ==
    ASSUME DInv, Next PROVE Goes("CREDIT", {"CREDIT"})
<1>1. SUFFICES ASSUME Named, glass.screen = "CREDIT", NEW x \in Peer,
                      core' = Append(core, [kind |-> "CREDIT", to |-> x])
               PROVE  x = glass.target
    BY DEF Goes
<1>2. core \in Seq(Event) /\ [kind |-> "CREDIT", to |-> x] \in Event
    BY DEF DInv, Shape, Event
<1>3. PICK e : e = [kind |-> "CREDIT", to |-> x]
    OBVIOUS
<1>4. core' = Append(core, e) /\ e.kind = "CREDIT" /\ e.to = x /\ e \in Event
    BY <1>1, <1>2, <1>3
<1>5. Len(core') = Len(core) + 1 /\ Len(core) \in Nat /\ core'[Len(core) + 1] = e
    BY <1>2, <1>4
<1>6. core' # core
    BY <1>5
<1>7. CASE ConfirmCredit
    <2>1. board = "tdeck"
        BY <1>7 DEF ConfirmCredit, DInv, NoText, Shape, Board
    <2>2. Touched = ui
        BY <2>1 DEF Touched
    <2>3. PICK f : f = [kind |-> "CREDIT", to |-> ui.credited]
        OBVIOUS
    <2>4. core' = Append(core, f) /\ f.to = ui.credited
        BY <1>6, <1>7, <2>2, <2>3 DEF ConfirmCredit
    <2>5. core'[Len(core) + 1] = f
        BY <1>2, <2>4
    <2>6. x = ui.credited
        BY <1>4, <1>5, <2>4, <2>5
    <2> QED BY <1>1, <2>6 DEF DInv, GlassIsTrue
<1>8. CASE ConfirmPayment
    <2>1. PICK f : f = [kind |-> "PAYMENT", to |-> SelectedPeer(RefreshPayee(Touched))]
        OBVIOUS
    <2>2. core' = Append(core, f) /\ f.kind = "PAYMENT"
        BY <1>6, <1>8, <2>1 DEF ConfirmPayment
    <2>3. core'[Len(core) + 1] = f
        BY <1>2, <2>2
    <2> QED BY <1>4, <1>5, <2>2, <2>3
<1>9. ~CoreRun
    <2>1. CoreRun => Len(core') = Len(core) - 1
        BY <1>2 DEF CoreRun
    <2> QED BY <1>5, <2>1
<1>10. ~RunReset
    <2>1. core' # <<>>
        BY <1>5
    <2> QED BY <1>6, <2>1 DEF RunReset, Refused, Returned
<1>11. ~RunCreate /\ ~RunJoinCode /\ ~RunDiscover /\ ~RunJoinDiscovered /\ ~RunShowCode /\ ~Tell
    BY <1>6 DEF RunCreate, RunJoinCode, RunDiscover, RunJoinDiscovered, RunShowCode, Tell, Refused,
                Returned
<1>12. ~UiCopy /\ ~UiPush /\ ~UiDraw /\ ~RadioFeedback /\ ~Clock
    BY <1>6 DEF UiCopy, UiPush, UiDraw, RadioFeedback, Clock
<1>13. /\ \A p \in Peer : ~RadioAnnounce(p) /\ ~RadioMember(p)
       /\ \A c \in Code : ~RadioOffer(c)
    BY <1>6 DEF RadioAnnounce, RadioMember, RadioOffer
<1>14. /\ \A a \in Action : ~PressPlain(a)
       /\ ~ConfirmMove /\ ~ConfirmPin /\ ~PressDeferred /\ ~TapNothing
    BY <1>6 DEF PressPlain, ConfirmMove, ConfirmPin, PressDeferred, TapNothing
<1> QED BY <1>7, <1>8, <1>9, <1>10, <1>11, <1>12, <1>13, <1>14 DEF Next, User, Deferred, Others

(* A credit goes to the account that the credit screen displayed, whatever *)
(* the directory and the list of peers have become since it was drawn.     *)
THEOREM CreditGoesToTheShown == Spec => CreditedIsShown
<1>1. DInv /\ [Next]_vars => [Goes("CREDIT", {"CREDIT"})]_vars
    BY CreditStep
<1> QED BY <1>1, DInvariance, PTL DEF Spec, CreditedIsShown
====
