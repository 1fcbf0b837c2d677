# Meshpay: models, checks and proofs

Meshpay is a payment network of ESP32 wallets that talk over LoRa and ESP-NOW
through a small Reticulum stack. There is no server: every wallet keeps a
replica of the ledger, a bounded *window* of signed transactions over the last
*checkpoint* its founder signed. This directory holds TLA+ modules of that
system, TLC configurations that check them on small instances, and TLAPS
proofs of the main results. Paths below are relative to the repository.

## 1. Inventory of the system

| component | source | state | operations | interacts with |
|---|---|---|---|---|
| ledger window | `components/dag` | up to 250 transactions, adopted checkpoint | merge, adopt, purge, tips, digest | everything below |
| currency rules | `components/currency` | none (pure) | validate, ingestion gate, balance, minted supply, members, build checkpoint | window, descriptor |
| checkpoint | `components/checkpoint` | none (pure) | encode, sign, verify, find account | currency, dag, dag_store |
| payment engine | `components/payment_engine` | pending receipt, feedback, last received | build, commit on send, receive payment, receive ACK, expire | wallet, window, runtime |
| wallet | `components/wallet` | `next_seq`, funds lock, PIN | allocate, lock, unlock, verify PIN | payment engine, storage |
| runtime | `components/app_main` | dirty flag, held payments, back-offs, join and discovery windows | event handlers of three queues under one lock | everything |
| boot | `main/app_main.c` | identity, member or not | load or create the record, restore window, counter, checkpoint; claim | storage, dag_store |
| announces | `main/app_main.c`, `components/rns_announce` | known devices, answers given | announce, answer within a cooldown | transport |
| window and checkpoint stores | `components/dag_store` | two slots each in one flash partition | save, load | runtime, boot |
| synchronisation | `components/dag_sync` | rotating offset, quiet period (in the runtime) | summary, request, batch | runtime, resource pool |
| descriptor sync | `components/descriptor_sync` | join and discovery windows (in the runtime) | request, offer, discover | runtime, storage |
| record storage | `components/storage` | NVS record, backup | probe, migrate, archive, save | boot, runtime |
| resources | `components/rns_resource` | pool of partial reassemblies, a logical clock | fragment, accept, evict | synchronisation |
| transport | `components/rns_transport_core`, `rns_node`, `rns_radio`, interfaces | duplicate ring, path table, queues, one reassembler per bearer | receive, forward, remember | runtime, drivers |
| descriptor, transaction codec, crypto, identity, packets | `components/currency_descriptor`, `meshpay_tx`, `rns_crypto`, ... | none | encode, sign, verify | all |
| user interface | `components/ui`, `main/app_main.c` | screen, entries, chosen account and currency | keys, taps, deferred actions, drawing | runtime, boot |
| monitor | `components/dag_monitor` | counters | observe | transport |
| drivers | `components/device_hal` | chip, mutex, queues | send, receive, recover | transport |

Three FreeRTOS tasks (UI, radio, core) take events from queues, and **one lock**
(`meshpay_app_runtime_process_one`) serialises their handlers. So inside a
wallet the interesting interleavings are those between a handler's flash writes
and a power cut, between two handlers of different tasks (what was read under
the lock and used after it), and inside the radio driver, which has a mutex of
its own. Between wallets they are all those of a radio that loses, delays,
duplicates and reorders.

The hard behaviours, and what must be true of them:

* *Sequence numbers.* A payment takes number `next_seq`; the number must be
  durable before the transaction exists, and never be used twice, whatever
  fails or loses power. Two transactions with one number are a double spend.
* *Checkpoints.* When the window is nearly full the founder re-founds balances,
  floors and keys in a signed checkpoint; everybody who adopts it drops what is
  below the floors. A transaction must never be counted both in a checkpoint
  and in a window over it, nor in two checkpoints; a generation must name one
  checkpoint; members must be listed once; the books must balance.
* *Stores.* A cut in the middle of a save must leave the previous content.
* *The record.* It holds the only copy of the key. No boot, migration, archive
  or save may lose it, and a running wallet must be the one its flash boots.
* *Synchronisation.* Wallets within reach must end with the same window.
* *Receipts.* What a payer is told must be what the payee did.
* *The user.* What is credited, joined and erased must be what was on the screen
  when the key was pressed, though other tasks change the lists meanwhile.
* *The radio.* A packet is put together from pieces of one packet; the chip is
  listening whenever nobody holds it; devices answer each other's announces, but
  not without end.

`PROJECT.json` lists the hazards, each at its line of code, with the properties
that cover it.

## 2. Modules

| module | models | composes |
|---|---|---|
| `Ledger` | `dag.c`, `currency.c`: operators over `[win, cp]` | |
| `LedgerProofs` | lemmas: sums over finite sets, balances | EXTENDS `Ledger` |
| `MeshLedger` | several wallets: join, pay, credit, emit, adopt, flush, restart | EXTENDS `Ledger` |
| `MeshLedgerProofs` | theorems about `MeshLedger` | EXTENDS `MeshLedger`, `LedgerProofs` |
| `ApplyBatch` | `meshpay_dag_sync_apply_batch_gated`, step by step, decoding included | EXTENDS `Ledger` |
| `PaymentExchange` | payments, receipts and held payments between wallets | EXTENDS `Ledger` |
| `PaymentProofs` | theorems about `PaymentExchange` and `ApplyBatch` | EXTENDS `PaymentExchange`, `ApplyBatch`, `LedgerProofs` |
| `DagSync` | summaries, requests, pages, pushes, back-offs, over node, ring and queue | |
| `SafeCell` | abstract: a cell that changes at one instant or not at all | |
| `FlashSlots` | two slots, one interrupted write | |
| `WindowStore` | `meshpay_dag_store_save/load` | EXTENDS `FlashSlots`, INSTANCE `SafeCell` |
| `CheckpointStore` | `..._save_checkpoint/_load_checkpoint` | EXTENDS `FlashSlots` |
| `FlashPartition` | both stores in one partition, one lock, one power supply | EXTENDS `WindowStore`, INSTANCE `CheckpointStore` |
| `FlashPartitionProofs` | theorems about `WindowStore` and `FlashPartition` | EXTENDS `FlashPartition` |
| `RecordStore` | `storage.c`, `storage_nvs.c`: probe, migrate, archive, save, erase | |
| `DeviceBoot` | the boots of a device over its record, and its saves | EXTENDS `RecordStore` |
| `DeviceBootProofs` | theorems about `DeviceBoot` | EXTENDS `DeviceBoot` |
| `WalletScreens` | `ui.c`: a record and its operations | |
| `WalletDesk` | the UI task of a T-Deck or a Waveshare beside the others; the join machine | EXTENDS `WalletScreens` |
| `WalletDeskProofs` | theorems about `WalletDesk` | EXTENDS `WalletDesk` |
| `Reassembly` | cutting into pieces and putting together, as done three times | |
| `LruPool` | abstract: the resources heard last, apart from each other | |
| `ResourcePool` | `rns_resource.c`: slots and a clock that wraps | EXTENDS `Reassembly` |
| `LoraModem` | `device_hal_lora_core1262.c`: chip, mutex, interrupts, tasks | |
| `RadioPath` | one device from the air to its wallet | EXTENDS `LoraModem`, `ResourcePool`; INSTANCE `LruPool` |
| `RadioPathProofs` | theorems about `RadioPath` | EXTENDS `RadioPath` |
| `Discovery` | announces, known devices, answers, forwarding between devices | |
| `DiscoveryProofs` | theorems about `Discovery` | EXTENDS `Discovery` |

A module `MC...` gives model values to the module of that name, with the
symmetry, views and constraints of its runs.

`Ledger` is the common ground of the money: everybody evaluates the same pure
rules over a record `[win, cp]`. `MeshLedger` composes several wallets around a
radio and splits the handlers at every flash write. `ApplyBatch` opens the one
call that `MeshLedger!Receive` and `Ledger!WithBatch`, which `PaymentExchange` uses,
treat as one step, and shows that this is legitimate: the order of a batch does
not matter.
`FlashPartition` opens the single flash writes of `MeshLedger!FlushWindow`,
`SaveWindow` and `SaveCheckpoint` down to the erased and programmed blocks;
`WindowStore` implements `SafeCell`, which is what `MeshLedger` assumes of the
window. `DagSync` forgets the money and keeps what `MeshLedger` leaves out, the
reason why a transaction arrives at all. `RadioPath` opens what `DagSync` calls a
packet: frames, fragments, queues, the ring. `DeviceBoot` opens what
`MeshLedger!Restart` finds done: the record, the key, the fallback currency.

### How state and actions correspond to the code

*`Ledger`.* A transaction is a record; its signature is its `from` and `key`,
its id the record itself. Parents and timestamp are one field `ref`, as nothing
checked depends on them beyond their making two transactions different. A
checkpoint is a generation, a directory (balance, floor, key for each account)
and a ghost, `horizon`, the transactions it re-founds; no guard reads it.
`MergeVerdict` keeps the order of the tests of `meshpay_dag_validate_merge`: a
full window says FULL before it looks for a duplicate. `IngestCheck` and
`ValidateTx` keep the order of their refusals.

*`MeshLedger`.* `job[n]` is what the handler that holds the lock of wallet `n`
has left to do:

| step | the code stands at |
|---|---|
| `commit` | `commit_built`, after `persist_cb` returned |
| `flush` | `runtime_dag_flush`, forced, after a commit or a claim |
| `saveCheckpoint` | `runtime_adopt_checkpoint_locked`, RAM has adopted, flash has not |
| `saveWindow` | between its two saves |
| `send` | everything is saved, nothing has been sent |
| `idle` | the lock is free |

`Restart` may come at any of them: it takes what `flash[n]` holds through the
boot of `main/app_main.c` (window, purge, counter, checkpoint, claim). `wire`
and `cuts` only grow: a radio that delays, repeats, reorders or loses is one
where anything sent may be received at any time or never.

*`PaymentExchange`.* One action is one whole handler: handlers of a wallet
exclude each other, and the flash writes inside them are `MeshLedger`'s
business. Every handler of the radio queue starts with
`runtime_retry_held_payments`, so every such action starts from `Retried`.
Time is one bit per timer: `late` says that 30 s have passed. `Addressed` and
`PayInVain` are the two halves of a payment that nobody answers.

*`ApplyBatch`.* A behaviour is one call: `Call`, then steps of its `Loop`
(`Applying`). `now` is the window it works on; `pass`, `pos`, `state` and `progress`
are the loop variables; each `continue` of the loop is an action. An entry that
does not decode, and a conflict, end the call. `Contents` and `Reference` say what
the batch is worth as a set.

*`DagSync`.* One action per handler of the radio queue, and the core task's tick
(`Announce`), which builds the summary, cuts when due and flushes. An action
that sends has a parameter `clear`: whether the packet gets through to everyone.
`Transmit` is the node at the other end: its ring of duplicates, whether the
packet is for it, whether the queue has room.

*`WindowStore`, `CheckpointStore`.* A slot is three blocks, header, body and
foot (the CRC lies in the foot), erased and then written in order; an
`Interrupt` (power cut or backend error) may come between any two.
`FlashPartition` lets one save at a time run, and a power cut stop it. The value
of a checkpoint is its currency: `member` is the currency of the record, which
`Join` sets and `Reset` (the screens', or the wipe of NVS) erases, neither of which
touches the partition. A boot adopts what it elects only if it is of that currency
(`Adopted`), and otherwise nothing. `prev` and `reset` are ghosts: what a boot would
have adopted when the save began, and whether a record was ever erased.

*`RecordStore`, `DeviceBoot`.* A blob is told apart by what the reader makes of
it, the record it was made from is kept with it. `dev.at` is where the boot
stands: each write to NVS is a step, which may fail, and between any two of them
the power may go. `spent` is a ghost, the numbers each key has signed.

*`WalletScreens`, `WalletDesk`.* `ui` is `meshpay_ui_t`. `task` says where the
UI task is between its critical sections (poll, deferred action, telling the
screens, copying, pushing, drawing); between two of them any other task may run.
`glass` is what was drawn last, `asked` and `pressed` are ghosts: what the user
meant, judged by what the glass showed. `board` is a configuration of the build:
a press of a T-Deck acts on the screens as they are, one of a Waveshare on the
screens with their lists looked up again (`Touched`), and each reaches its own
buttons (`Reached`).

*`LoraModem`, `RadioPath`.* The chip (mode, buffer, interrupt bits) moves on its
own; the receiving task and the two tasks that send take the mutex in turn. A
packet to send is a list of frames, one step each. `partial` is the one
reassembler of each bearer, `slots` the pool of `rns_resource.c`, `events` the
queue of the core task. A load is the whole it was cut from, or `Noise`.

*`Discovery`.* An announce is its author, a number and its hops. Receiving one
is `rns_node_receive_packet` and everything it calls: ring, table of known
devices, forwarding, answer. `answered` and `unheard` are ghosts.

## 3. Runs

| run | question | instance | result |
|---|---|---|---|
| `MeshCore` | may power cuts between any two flash writes make anything be counted twice? | founder and member, 2 numbers each, cut at 3 of 4 | holds |
| `MeshThree` | may the order in which two members hear each other and the founder? do the books balance? | three wallets, fee 1, ceiling 12, no power cuts | holds |
| `MeshFlash` | is a number ever reused when flash writes report errors as well? | founder and member, window full at the threshold | holds |
| `FlashPartition` | is the window's store a safe cell, and what was saved of a checkpoint what the next boot adopts, when they share a partition and the device may change currency? | two values of the window, two currencies, 3 generations, 2 interrupted saves of a checkpoint, any number of the window, of joins and of resets | holds |
| `BatchApply` | does a batch mean the same in every order? | batches of up to 4 entries, some of which do not decode, over seven windows of 3 | holds |
| `PaymentHeld` | is a receipt true, is a held payment answered? | founder and member, 3 payments each, one slot | holds |
| `MeshSync` | do wallets settle on one window, and save it? | founder and member in reach, pages of one transaction, a ring of one page | holds |
| `WalletDesk` | is what is credited, joined and erased what the user saw and asked? | either board, two peers, two currencies, any order of keys, taps and events | holds |
| `DeviceBoot` | does any boot lose a key, or run a wallet its flash would not boot? | two keys, 2 numbers, every kind of blob in both places with any of them spent, one wipe or foreign firmware | holds |
| `RadioPath` | is what is delivered what somebody sent, and is the radio listening? | three neighbours, three resources, two slots, a clock of 4 bits about to wrap, one fault | holds |
| `Discovery` | do devices get to know each other, and fall silent? | three devices in a line, a table full from the start, one loss or ended cooldown, one restart | holds |
| `PushUnheard` | does a wallet that was out of reach catch up? | founder and member, cut at 2 of 3 | violated, see section 5 |

### Bounds, and why they are enough

* **Window and threshold** (250 and a few less in the code, 3 or 4 and 3 or 2
  here). What matters is the order "due for a cut, then full"; `MeshFlash`
  makes them equal, so that a commit can be refused after its number was spent.
* **`SeqMax`** stands for `UINT32_MAX`: numbers run up to `SeqMax - 1`, and the
  refusal at the limit is reached. Two numbers allow two cuts of the ledger, and
  a payment on each side of one.
* **Accounts.** Two suffice for everything between a founder and whoever
  follows it. `MeshThree` has the third, for what two members tell each other
  about a cut one of them has not seen.
* **`BalanceMax`** caps `uint32_t` sums; no run reaches it.
* **`GenMax`, `InterruptMax`, `Currency`** (`FlashPartition`) bound the saves of
  checkpoints and their interruptions: two leave both slots torn, which is what an
  election may go wrong about, and with two currencies a slot may hold what the
  device has left. The proofs need no bound on generations, interruptions or
  currencies.
* **`RingSize`, `QueueMax`, `PageSize`, `PagesMax`** (`DagSync`). The ring must
  forget a page before the rotating offset comes back to it, as it does in the
  code at 48 places against a summary's traffic; with a longer one the property
  fails, and section 5 says what that means. One page a request makes the offset
  do its whole turn; the queue of three is full at times.
* **`FieldMax`, `Window`, `QueueMax`, `FoundMax`** (`WalletDesk`). One field to
  move to, one tick of a join's window, two places in the core's queue, so that
  a press may be accepted behind another and one may find it full, and two
  currencies found, so that an index may be stale.
* **`Mishaps`** (`DeviceBoot`): once, NVS is wiped or an older or later firmware
  rewrites the record. Failures and power cuts are not bounded.
* **`FaultMax`** (`RadioPath`): one frame changed, one packet the ESP-NOW driver
  refuses, or one command to the LoRa chip that fails; only the last excuses
  `IdleListens` and `CutOnlyUnread`. Any frame may be lost.
  **`TickWidth`** 16 with the clock two ticks from its end stands for 2^32; the
  signed comparison of the code is meaningful as long as no slot is older than
  half of it, which `TickWidth` keeps.
* **`TroubleMax`, `RestartMax`, `HopMax`** (`Discovery`): one loss, failed
  sending or ended cooldown, one restart, two hops, so that the last hop and the
  echo of one's own announce both occur. `KnownMax` and `ReplyMax` are equal, as
  in the code (16), and the table of the middle device is full from the start.
  The proof needs no bound.

Reductions. `MeshThree` is symmetric in the members (nothing but the founder's
name is compared with a constant) and has a `VIEW` without `dirty` and the saved
windows, counters and checkpoints: only `Restart` reads these back, and there is
none; `dirty` gates only their saves, and in a handler that has something to
send it is always set. The invariants of the run read none of them.
`HandlersTakeTurns` (in `MeshThree`, `MeshFlash`) lets no other wallet take a
step while one is inside a handler: handlers of two wallets touch only `wire`
and `cuts` in common, both only grow, and they are written in the handler's last
step, so every interleaving is equivalent to one where the handlers follow each
other. A power cut may still come inside one. `MeshCore` does without these
reductions. `JoinFirst` (in `MeshFlash`) is a bound, not a reduction: it drops
the states where a wallet hears transactions before it joined, and those where
two wallets are ahead of their flash at once; `MeshCore` has both.
`DeviceBoot` is symmetric in the keys. `WalletDesk` is symmetric in the peers and
in the currencies to join, has a `VIEW` without what no later step reads (a choice
whose list is empty, a deferred action that is over), and lets peers appear only
once the wallet has a currency, and enter the directory of a founder or of a
Waveshare: without a currency nobody can be paid.

`CHECK_DEADLOCK FALSE` stands where the system may come to rest: in the runs
without power cuts, when every number is spent and everything is received; in
the stores, when the last generation is written; in `ApplyBatch`, when the call
has returned; in `WalletDesk` and `RadioPath`, when nobody presses or sends any
more; in `Discovery`, when all is said.

### Fairness

*`PaymentExchange`.* `WF(Tick(n))`: the radio task of a wallet keeps getting
events, if only its own summaries, which the core task queues about every 15 s
(`app_main_logic.c:2700`) and which start with the retry of held payments like
any other event. `WF(HoldOverdue(n, i))`: time passes. Nothing is assumed of the
radio, of peers, or of power. `HeldIsAnswered` says that a slot is given back: a
payment that is held is answered, or forgotten by a power cut.

*`DagSync`.* `WF(QuietOver(n))`: time passes. `WF(Listen(n, FALSE))`: the radio
task takes the next event of its queue. Strong fairness of what is sent *and gets
through* (`Announce`, `AskForPages`, `AnswerRequest` from each offset): the air
loses packets, but not every packet of a kind that is sent again and again. The
code repeats all three for ever, so that nothing weaker could be enough for
anything to arrive. `PushSpec` adds the same for the checkpoint that is pushed:
under it `CatchUp` is violated all the same, because a push that gets through is
not heard.

*`LruPool`* is refined as a safety specification; no other module states any. It
has no slots and no clock: the parts that came of each resource, and which of two
resources in progress was heard later. `PoolIsLru` maps the slots to the first
(`PartsCome`) and the distances on the clock to the second (`HeardLater`).

## 4. Proofs

`MeshLedgerProofs` proves, for every set of accounts, every amount, fee,
ceiling, window size, threshold and limit, with power cuts and flash errors:

* `TypeCorrect`: `Spec => []TypeOK`;
* `NoNumberTwice`: `Spec => []SeqNeverReused`, one account and number name one
  transaction for ever: in RAM, in flash, on the radio and in every horizon;
* `WindowAboveHorizon`: `Spec => []HorizonClean`, no window holds a
  transaction that the checkpoint under it has already counted;
* `EachMemberOnce`: `Spec => []MembersCountedOnce`, the walk of the screens counts
  a member by its entry in the checkpoint or by its CLAIM, never by both;
* `BooksBalanced`: `Spec => []BooksBalance`, the balances of the accounts add up to
  what was minted, and those the screens show, which are clamped at zero, to that
  and what is overdrawn (the supply shown is short of the balances shown by exactly
  the overdrafts), as long as no account is above what a balance may be;

and, where the flash writes what it is told (`ASSUME ~FlashFails`):

* `OneCheckpoint`: `Spec => []OneCheckpointPerGeneration`;
* `NothingCountedTwice`: `Spec => []CountedOnce`, no transaction is absorbed by two
  checkpoints.

The last two are false with flash errors, as section 5 says of
`app_main_logic.c:1099`; `MeshCore` checks them with power cuts.

For `SeqNeverReused`, `HorizonClean` and `MembersCountedOnce` the inductive
invariant is

    IInv == TypeOK /\ NumbersSpent /\ SeqNeverReused /\ FloorPassed /\ HorizonClean

`NumbersSpent` says that whatever exists bears a number below its author's
counter *both in RAM and in flash*; so the next number is new, and stays so
after a power cut whichever of the two the boot starts from. It also says that
only a CLAIM bears number 0 of the currency and no CLAIM another: so the CLAIM of
a listed account is below its floor, out of a clean window, and an account has at
most one; `EachMemberOnce` needs no more. `FloorPassed` says
that one's own counter, and the transaction one is about to commit, are above
one's floor: this is what a commit, which skips the ingestion gate, relies on
to keep `HorizonClean`, and the reason why adoption and boot raise the counter.
The proof has one lemma per action (`JoinKeeps`, `BeginKeeps`, ...), which
`NextKeeps` assembles; `Invariance` closes it. The ghost `horizon` is part of
`Existing`, so that a re-founded transaction stays in the statement.

`BooksBalance` is true of any window and any checkpoint the code can build, once
they are finite and a genesis state lists nobody (`BooksInv`): a transfer takes
from one account what it gives to another and the fee it burns, so adding up all
balances first by account or first by transaction (`SumSwap`) comes to the same.
The work is in the sums. A fold over a finite set is a CHOOSE of a function
defined by itself; `LedgerProofs` shows it equal to `Sum`, that sums do not depend
on the order, add up and swap.

For the two about checkpoints the invariant is `IInv /\ CutInv`, where

    CutInv == FounderLeads /\ OthersFollow /\ OneCheckpointPerGeneration
              /\ FloorsGrow /\ HorizonsApart /\ OwnRegistry

`FounderLeads`: the founder saves a cut before it broadcasts it, so whatever is on
the radio is no newer than the founder's flash, and a power cut cannot make it
cut a generation again. `OthersFollow`: everyone else sits on what was broadcast.
`FloorsGrow`: what one cut re-founds is below the floors of all later ones, and
the window the next cut starts from has nothing below its floors, so horizons are
apart. `OwnRegistry`: the founder's window is of one registry, so that a cut
leaves nothing of it behind to be counted by the next.

`FlashPartitionProofs` proves `SlotInvariance` (what every block written keeps,
torn slots included) and, from it, `Refinement`: `WindowStore` implements
`SafeCell`, for any number of generations and interruptions. `SlotInv` is
inductive as it stands: `InOrder` tells which blocks of the slot being
programmed are new, `Spare` that it is not the slot a load would elect before
its last block, `Distinct` that the two valid slots are never of one age.
`WindowSlots` and `WindowIsSafe` say the same of the store in the shared partition.
For the checkpoint at its tail, `CheckpointIsLoaded` (`SavedIsLoaded`) says that
what was saved is what the next boot adopts, and `FirstCut` (`FirstCutHarmless`)
that the first power cut in a save leaves the previous checkpoint or the new one.
Both except a device whose record was erased, on which a leftover may be elected
instead; without the exception they are false of the code (section 5), and dropping
any part of it makes the run fail. They rest on `TailInv`: a save is of the currency
of the record (`Dated`); as long as no record was erased, so is whatever is whole,
and it is no newer than what was adopted in RAM (`FirstLife`); and as long as
nothing was interrupted, the slot that is not written is blank or holds what a boot
would have adopted when the save began (`Neat`).

`DiscoveryProofs` proves, for every set of devices, any shape of the network and
any number of losses, cooldowns and restarts, as long as the table of known
devices is no longer than that of answers (both are 16 in the code):

* `NobodyForgotten`: `Spec => []CooldownKept`, a device answered within the
  cooldown is in the table as such, though a full table overwrites its oldest
  entry. Otherwise two devices would answer each other's answers for ever;
* `NeighboursMeet`: in a network where whoever hears is heard, `Spec =>
  []NeighboursMet`, which is `Met` for devices in reach of each other;
* `EverybodyMeets`: in such a network, `Spec /\ []NoneFar => []Met`, the same for
  devices with a third one between them, as long as no announce has come to the
  limit of its hops;
* `TypeCorrect`: `Spec => []TypeOK`.

For the first and the types, the inductive invariant (`IInv`) says that whoever is
in the table of answers is in the table of known devices, once. So an answer to
someone new means one known device more than there are entries (`UniqueIsShort`),
and the branch that overwrites the oldest is never taken: `RememberedAtEnd`. The code never removes a
known device, and this is what the proof uses; an eviction there would need a new
argument.

`NeighboursMeet` adds `Near`: a device that does not know its neighbour, and has no
excuse, has an announce of it in its queue, or the neighbour has still to announce
itself, or an announce of its own is in the neighbour's queue, or will be, straight
from it and ahead of any copy, and the neighbour has not answered it lately
(`Meets`). `Rings`: whose hash is in the ring was learned, or there was no room, so
that a duplicate of an unknown device is none. `Recent`: an answer is refused only
on account of one that was given. Of neighbours that were both on before the model
starts, it supposes that they know each other (`Acquainted`), as they do in the run.

`EverybodyMeets` adds `Across`, about a device `b` that hears both `n` and `m`
(`Middle`). What `b` holds in its queue and has not in its ring, it will pass on
(`Unseen`), unless it has no room for the author. So once `b` knows `m`, an announce
of `m` comes to `n`, or is at `b` unseen (`Told`); and as long as `n` was told nothing,
its own announce comes to `m`, or is at `b` unseen, or is still to be made, and
will make `m` answer (`Asking`). `Introduced` says of the start what `Acquainted` says
of neighbours. The premise `NoneFar` is about the code: an announce that has come
`HopMax` hops is learned and neither passed on nor answered
(`rns_transport_core.c:202`), so that `b` may know `m` and tell nobody. Nothing bounds the hops of an announce that
is new to a ring, since a ring that has forgotten one passes it on again with one
hop more; the limit is 255, and the run, where it is low enough to be reached,
checks `Met` on its network without the premise.

`PaymentProofs` proves, for every set of accounts, any number of slots for held
payments, and any losses, repetitions, timeouts, batches and power cuts:

* `Confirmed`: `Spec => []ConfirmedIsPaid`, what the screen calls confirmed is in
  the payer's flash and its payee has acknowledged it;
* `Acknowledged`: `Spec => AckMeansReceived`, no ACK leaves before the payment is
  in the payee's window;
* `Solvent`: `Spec => []NoOverdraft`, what a member has put on the radio never
  exceeds what it was given, whoever adds up all that is known anywhere;
* `TypeCorrect`: `Spec => []TypeOK`;

and, of the call that takes in a batch, for every batch and every window:

* `BatchExhausted`: `Applying => []NothingLeftBehind`;
* `BatchCounted`: `Applying => []CountsExact`;
* `BatchAtOnce`: `Applying => []OrderIrrelevant`, the passes bring what the gate lets
  in at once, as long as the window has room;
* `WindowsFit`: `Spec => []Keeping`, the windows of `PaymentExchange` are those the
  three are about.

For the first two and the types the inductive invariant is

    IInv == TypeOK /\ Saved /\ Awaited /\ HeldMine /\ ConfirmedIsPaid

`Saved`: what is in flash is in RAM too. `Awaited`: the payment whose receipt is
awaited is in flash, since the window is saved before the packet is sent; so a
power cut, which forgets it, leaves it paid. `HeldMine`: a held payment is for
who holds it, so that the ACK of its retry names the right payee. Whatever a
handler hears, it hands on a window that only grew, held payments of its own and
true ACKs (`Fits`). The retry of all slots is a recursive function; that it keeps
`Fits` is induction over the slots (`RetriedRounds`, `UpTo`).

`Solvent` adds `FundInv`: every payment known anywhere is in the flash of its
payer, and no flash overdraws its owner. A payer judges a payment by its own
window; what others know besides is no payment of his and makes him no poorer
(lemmas of `LedgerProofs` on what one transaction more does to a balance).

For a batch the invariant is

    CallInv == CallType /\ Counted /\ Judged /\ Progressing

`Counted`: the window is the one of the start with what is DONE, and the counters
are cardinalities of what is settled. `Judged`: what the gate said of a settled
transaction it would say again. It rests on a window that is `Keyed`, where each
claim bears the key of its account: then a transaction more changes no verdict
but UNKNOWN_MEMBER. `Progressing`: there are no more passes that merged something
than transactions merged, so the bound on the passes, the length of the batch,
is never what ends them while something is left to take in. Hence
`BatchAtOnce`: a claim is judged by what the window was at the start, a transfer
by the claims, and all claims are in when a pass without progress ends.
`WindowsFit` closes the circle: `FundInv` says of everything known that it is
`Keyed`, which is what `BatchAssumption` supposes.

`DeviceBootProofs` proves, for every set of keys, any numbers and mishaps, with
or without failing reads and writes:

* `NoKeyIsLost`: `Spec => KeysSurvive`, only the user's reset and the wipe of a
  NVS that does not open lose the last copy of a key;
* `NoWitnessIsLost`: `Spec => WitnessKept`;
* `Stored`: `Spec => []RunsAsStored`, the wallet that runs is the one its flash
  will boot again;
* `NumbersAhead`: `Spec => []CounterAhead`, no number is signed twice by one key,
  whatever became of the window;
* `TypeCorrect`: `Spec => []TypeOK`.

The inductive invariant is

    IInv == Types /\ KeyBook /\ Stages /\ Owner

`KeyBook`: a key nobody has drawn has signed nothing, and the record in flash is
not behind what its key has signed. `Stages`: what a step of the boot knows from
the steps before it, such as that the backup is taken when a struct of schema 2
is converted. `Owner`: while a record is in use, the one in flash has its key (and
its descriptor, for a member), and neither number in RAM is behind. Both numbers
are needed: after a failed save the copy of the record is ahead of the counter,
and any later save of a PIN or a currency writes the copy.

`RadioPathProofs` proves, for any neighbours, packets, queues, slots and faults:

* `NeverMixed`: `Spec => []OneWholeEach`, a reassembler holds pieces of one whole, a
  resource has one slot, and what completes is what was cut;
* `ListensWhenFree`: `Spec => []IdleListens`, the radio listens when nobody holds it,
  unless a command of the chip failed;
* `CutShort`: `Spec => CutOnlyUnread`, a sending is taken for done while the chip still
  sends only because of a frame heard before it and not yet read;
* `PoolIsCache`: `Spec /\ []Young => PoolIsLru`, the pool of slots implements the
  cache `LruPool`, as long as no slot in use has waited half a turn of the clock;
* `TypeCorrect`: `Spec => []TypeOK`.

The inductive invariant is

    RInv == ModemInv /\ PathInv

`ModemInv` is of the chip alone: who is sending holds the mutex, only the
receiving task has interrupt bits in hand (`OneAtATime`); a frame that was heard
is still in the buffer, or one of ours lies over it (`HeardIsThere`); `Listens` is
`IdleListens` with what a sending knows of the chip. `PathInv` follows a frame from
there: what is in a queue, in a reassembler or in a slot is a piece of something
cut (`Holds`, `OfParts`), and two slots are of two resources (`Apart`), since a
piece finds its resource's slot before a free one is taken. The clock plays no
part in it: evicting any slot keeps all of this.

In `PoolIsCache` the clock is all there is. The invariant is

    CacheInv == PoolInv /\ Clock /\ \A s \in Slot : InProgress(slots[s])

`Clock`: no two slots in use were last heard at one tick. The code subtracts two
ticks modulo 2^32 and looks at the sign; the sign is right while both slots are
younger than half a turn, which is the premise `Young`: a slot that waits while
2^31 parts of other resources arrive looks the youngest. The code neither frees
a slot for its age nor bounds its wait, so this cannot be proved away; the clock
of the run wraps often, and its bounds keep every slot young. Under the premise
the slot that is evicted is the only one that none was heard before; a free slot
is found exactly when fewer resources than slots are in progress (a bijection
between slots in use and resources, `Apart`); and each part that is taken is one
step `Hear` or `Deliver` of the cache, or changes nothing of it.

`WalletDeskProofs` proves, for any peers, codes and limits, on both boards:

* `OnlyWhatWasAsked`: `Spec => JoinedIsAsked`, the currency that is entered is the one
  asked for last;
* `CreditGoesToTheShown`: `Spec => CreditedIsShown`;
* `MessagesAreTrue`: `Spec => HonestMessage`, a message that names a cause is true
  of the state it appears in;
* `ResetNeedsTwoPresses`: `Spec => ResetDeliberate`;
* `TypeCorrect`: `Spec => []TypeOK`.

The UI task reads in one critical section what it acts on in another. The
inductive invariant `DInv` says what each side may still rely on in between:

| part | says |
|---|---|
| `Lists` | the list on the screens, the snapshot, and the list the radio task fills are prefixes of each other, so that an index means the same in all |
| `Points` | the index is in the list shown |
| `ArmedIsAsked` | the join that is armed is the one asked for, and none is armed while a list is on show |
| `ChoiceIsAsked` | the choice that waits to be run is the one the user meant |
| `GlassIsTrue` | what the glass names, the screens would name now |
| `TrueTold` | the message that waits to be told is true |
| `Pinned`, `Stored`, `NoText`, `ResetInv` | without a PIN nothing has begun; a broken storage stores no currency; a Waveshare, having no text, creates and credits nothing; an armed reset was pressed |

The list of whom one may pay is a recursive function, and that it names peers is
induction over the directory.

Inductions. The library's induction theorems take an operator, which the provers
cannot instantiate; a set they can. Each module that needs one derives it from
the order of the naturals being well founded (`WFMin` of the library): a set of
numbers has a least one (`Least`), one that has 0 and passes on is all of them
(`UpTo`), a bounded one has a highest (`Highest`). In a CASE whose arms overlap TLA+
leaves open which one is taken, so the arms of `Told` are disjoint and `Typed` is an
IF, in the order of the tests of the code.

The assumptions are those the modules state (`LedgerAssumption`, `FiniteAccounts`,
`MeshAssumption`, `FlashAssumption`, `PaymentAssumption`, `RecordStoreAssumption`,
`DiscoveryAssumption`, `ModemAssumption`, `PathAssumption`, `CarriesAssumption`,
`NothingAssumption`, `FlashPartitionAssumption`, `WalletDeskAssumption`, `BatchAssumption`...): constants are of their types, the founder is an
account, accounts are finitely many, the fallback registry is not the currency,
the devices known at the start are listed once, what neighbours send was cut by
somebody, an empty slot is none in use, names of peers, codes and deferred actions are told apart. TLC
evaluates them in the runs.

Only model-checked so far: the types of `DagSync`, whose handlers fold over
sequences of pages and packets, and where a proof of the type of each fold would
say nothing the run does not. Out of the prover's reach: `HeldIsAnswered`, `Settles`
and `CatchUp` (liveness). Two theorems have a premise on the behaviour, `NoneFar`
and `Young`, because without it the property is false of the code.

## 5. What the checks found

One violation is a run (`PROJECT.json` quotes the lines):

* `PushUnheard`. The founder cuts while a member is out of reach. Wallets of two
  generations never ask each other for pages, the one ahead pushes its checkpoint
  instead; but it addresses it to its own destination, and a node gives its
  runtime only what is plain, an announce, or addressed to it. Members forward
  the fragments and never put them together.

What models showed and no run is kept for. In the ledger:

* Floors designate transactions by number. If the founder has number 2 of a
  member and not number 1, its cut drops number 1 for everybody (`dag.c:363`).
* A member is paid before the founder hears its claim; the cut lists it without a
  key, and the claim, number 0, is below its floor from then on
  (`currency.c:766`, against `checkpoint.h:60`).
* A founder whose save of a new checkpoint fails broadcasts it all the same and,
  after a power cut, cuts another one of the same generation
  (`app_main_logic.c:1099`, against `checkpoint.h:73`).
* The slot a checkpoint save overwrites is elected on the headers. A torn slot of
  a higher generation protects itself, and the next save, if it is interrupted
  too, leaves none (`dag_store.c:401`). The guard at `dag_store.c:391` is dead.
* A reset and a wiped NVS leave the `dagstore` partition as it is
  (`app_main.c:1531`), and a boot that refuses the checkpoint it elected, as of
  another currency or signed by another founder, never looks at the other slot
  (`app_main.c:3785`). On a device that left a currency at generation 7 and joined
  another, every checkpoint of the new one below generation 7 is saved to the other
  slot and ignored by each later boot: the wallet is back at generation 0 after
  every power cut, without the directory and without its floor, until somebody's
  checkpoint reaches it again. If it founds the new currency it cuts generation 1
  again. At equal generations the save may overwrite the slot just adopted. This is
  the exception of `SavedIsLoaded` and `FirstCutHarmless`. `MeshLedger`, and with it
  `OneCheckpointPerGeneration`, is about a partition without leftovers.
* A payment of all one owns, held for want of cover, is refused after the batch
  that brings its cover, because the batch brings the payment as well and
  `receive_payment` checks the funds before it looks whether the window holds the
  payment (`payment_engine.c:414`, `:443`).
* A full window answers FULL to a transaction it holds, so that a payment packet
  that is repeated then is refused although it was received.
* Repeated packets of one held payment take a slot each; there are two.
* Claims made apart are merged without a look at `max_supply`
  (`currency.c:476`): wallets that each respect the ceiling exceed it together.
* A balance below zero, after payments made apart, is re-founded as zero
  (`currency.c:233`), so that the re-founded mass may exceed what was minted.
  `BooksBalance` is therefore about the accounts since the current checkpoint: it
  gives both sums, and the overdrafts between them, and says nothing across a cut.
* A batch that ends in CONFLICT, or at a transaction that does not decode, keeps
  what it merged before it (`dag_sync.c:576`) and the caller does not mark the
  window dirty.
* A currency without initial credit gives who joins it no claim
  (`currency.c:371`).
* `NumbersSpent` shows that the durable counter alone suffices to restore
  `next_seq`, flash errors included; the scan of the window at boot is a second
  net, for a record that was lost.

In synchronisation and discovery:

* The ring remembers a packet before its delivery has found room in the queue
  (`rns_transport_core.c:176`), and a page is the same packet when it is sent
  again: what the queue dropped stays lost until the ring has forgotten it. With
  a quiet network that is long; `MeshSync` has a ring that forgets in time.
* The rotating offset is shared by all who ask (`app_main_logic.c:1435`): two
  members that ask in turn may each get the same half of the pages.
* A wallet forwards the echo of its own packet, which is not in its ring; a
  request addressed to it is dispatched again when repeated (`rns_node.c:205`).
* The boot announces (three, 900 ms apart) all fall in the cooldown of an answer
  (30 s): a device that restarts within it is not answered, and knows nobody
  until somebody else announces. `Met` names this exception.
* The table of known devices has no eviction: the 17th device cannot be paid, and
  its announces are not passed on. One's own echo takes an entry.
* What asks for a currency is the same packet each time it is sent again, as a
  page is: a relay forwards it once, and once more when its ring has forgotten it.
  The repetitions every 15 s (`app_main.c:2724`) help within direct reach.
* An announce or an answer the radio fails to send counts as given.

In the device:

* A reset erases the record, not the backup, and `app_main.c:1528` calls it
  reversible. After a load that failed (`storage.c:864`) or over an older witness
  (`storage.c:779`) the backup does not hold the current key.
* The payee is kept as a rank in a list that announces and claims change
  (`app_main.c:1029`), while the screen names an account: the payment may go to
  another one. `CreditedIsShown` is the property the credit keeps, which does
  remember the account (`app_main.c:1161`).
* A tap of the Waveshare looks the credited account up again before it acts
  (`app_main.c:1658`), which `app_main.c:1161` says never happens. It does no harm
  because a Waveshare cannot type the name of a currency, never founds one and so
  never credits: its screen CREDIT is out of reach, and `CreditedIsShown` holds.
* The window read from flash replaces the one in RAM (`dag_store.c:296`,
  `app_main.c:3731`), which hides the boot credit put there just before.
* A boot credit whose save fails ends `app_main` (`app_main.c:3701`).
* NVS full, or written by another version of the IDF, is erased with record and
  backup (`storage_nvs.c:91`).
* A PIN whose save failed stays in RAM, and the next save writes it.
* Keys a later firmware added to a record of schema 3 are dropped at the next
  save.
* The answer to a credit, and a SENT, change the screen under the user and keep
  the amount typed.

In the radio:

* The pin that ends a sending is also up for a frame heard before and not yet
  read (`device_hal_lora_core1262.c:613`): the sending is cut short and reported
  done. `CutOnlyUnread` says that this is the only case.
* After a failed command the chip stays deaf until the next sending.
* A packet put together by a bearer is never compared with the hash its frames
  carry; the pool above does check.
* `rns_resource.h` says that a slot is free when its resource is complete or in
  error; the code frees it on completion only.
* A packet routed to LoRa fails when there is no LoRa bearer, without fallback.

## 6. Not modelled, and the plan

Not modelled because it is data or pure I/O: CBOR and descriptor encodings,
Ed25519, X25519 and AES, packet framing, compression, drawing, fonts, vendored
drivers. A signature is modelled as the name of who made it.

Not modelled although it keeps state:

* the DAG monitor: a passive observer of summaries and batches, another image
  than the wallet's, on a board of its own (the H752);
* the side of the join that answers (a throttle), tips and parents, peers of an
  older firmware without a digest;
* the funds lock of the wallet and its lock-out after wrong PINs: no caller uses
  them, a PIN is set and never asked for;
* links and request/response of Reticulum, which the wallet does not drive; the
  path table, which is written and never read; the UART LoRa radio;
* the demurrage of the fallback currency.

Next, in this order:

1. The types of `DagSync` as a theorem.
2. `DagSync` with three wallets, for the offset two of them share.
3. The monitor: what may be concluded from summaries that are lost.
4. The answering side of a join, over the relays of `Discovery`.
