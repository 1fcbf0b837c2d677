------------------------------ MODULE DagSync ------------------------------
(***************************************************************************)
(* How the windows of the wallets become one again: the periodic summary,  *)
(* the request it provokes, the pages that answer it, and the checkpoint   *)
(* that is pushed to a wallet that is behind.  Under the handlers lies the *)
(* part of the radio stack that decides what a handler ever sees: the      *)
(* node, its ring of duplicates and the queue of the reticulum task.       *)
(*                                                                         *)
(* Abstractions.  A transaction is its author and its number: its authors  *)
(* are members for everyone, so that the gate of Ledger accepts it.  The   *)
(* digest of a window is its set of transactions, a page is one packet     *)
(* (its fragments are in Reassembly), and the hash of a packet is the      *)
(* packet.  Every time-out is one bit, cleared when its time is over.  The *)
(* ring holds the last RingSize pages and checkpoints heard: other packets *)
(* get through it or are forgotten without effect, and take their share of *)
(* its 48 places.  A summary is sent in the step that builds it, though    *)
(* the code posts it to the queue of its own sender first, and a save is   *)
(* due at every tick, though one that follows another within 15 s waits    *)
(* for the next.                                                           *)
(***************************************************************************)
EXTENDS Integers, Sequences, SequencesExt, FiniteSets, FiniteSetsExt

CONSTANTS
    Node,           \* the wallets
    Founder,        \* the one that cuts
    Link,           \* Link[n]: who hears n directly
    SeqMax,         \* bound: SeqMax[n] transactions n writes
    WindowMax,      \* MESHPAY_DAG_MAX_TRANSACTIONS
    Threshold,      \* MESHPAY_DAG_CHECKPOINT_THRESHOLD
    PageSize,       \* transactions that fit one batch
    PagesMax,       \* MESHPAY_DAG_SYNC_MAX_CHUNKS_PER_REQUEST
    RingSize,       \* places of RNS_TRANSPORT_DUPLICATE_CACHE_SIZE left
    QueueMax        \* MESHPAY_APP_QUEUE_DEFAULT_LENGTH

ASSUME DagSyncAssumption ==
    /\ Founder \in Node
    /\ Link \in [Node -> SUBSET Node]
    /\ \A n \in Node : n \notin Link[n]
    /\ SeqMax \in [Node -> Nat]
    /\ WindowMax \in Nat \ {0}
    /\ Threshold \in Nat \ {0}
    /\ PageSize \in Nat \ {0}
    /\ PagesMax \in Nat \ {0}
    /\ RingSize \in Nat
    /\ QueueMax \in Nat \ {0}

VARIABLES
    window,     \* window[n]: transactions in the order n inserted them
    cp,         \* cp[n]: generation and floors of the adopted checkpoint
    next,       \* next[n]: next_seq of the wallet
    quiet,      \* quiet[n]: dag_sync_quiet_until_ms is in the future
    pushed,     \* pushed[n]: checkpoint_push_quiet_until_ms is
    offset,     \* offset[n]: dag_sync_send_offset
    dirty,      \* dirty[n]: dag_dirty, the window is newer than flash
    ring,       \* ring[n]: pages and checkpoints n would know again
    queue       \* queue[n]: packets for the reticulum task

ledger == <<window, cp, next>>
timers == <<quiet, pushed>>
radio == <<ring, queue>>
vars == <<ledger, timers, offset, dirty, radio>>

Seqs == 1..Max(Range(SeqMax))

Tx == [by : Node, seq : Seqs]

Horizon == [gen : Nat, floor : [Node -> Seqs \cup {0}]]

NoHorizon == [gen |-> 0, floor |-> [n \in Node |-> 0]]

(* The hash of the sorted ids: the order of insertion is not part of it.   *)
Digest(w) == ToSet(w)

(* "to" is the destination hash of the packet: that of its author for a    *)
(* summary and for a checkpoint, that of its addressee otherwise.          *)
Summary(n) == [kind |-> "summary", to |-> n,
               digest |-> Digest(window[n]), gen |-> cp[n].gen]

Request(n, peer) == [kind |-> "request", to |-> peer, requester |-> n]

Page(peer, txs) == [kind |-> "page", to |-> peer, txs |-> txs]

Checkpoint(n, h) == [kind |-> "checkpoint", to |-> n, horizon |-> h]

Init ==
    /\ window = [n \in Node |-> <<>>]
    /\ cp = [n \in Node |-> NoHorizon]
    /\ next = [n \in Node |-> 1]
    /\ quiet = [n \in Node |-> FALSE]
    /\ pushed = [n \in Node |-> FALSE]
    /\ offset = [n \in Node |-> 0]
    /\ dirty = [n \in Node |-> FALSE]
    /\ ring = [n \in Node |-> <<>>]
    /\ queue = [n \in Node |-> <<>>]

-----------------------------------------------------------------------------
(* The node: what it remembers, hands over to the runtime and sends on. *)

(* Faulty variant of Remember: the ring is never overwritten. *)
RememberAll(r, p) ==
    IF p.kind \notin {"page", "checkpoint"} \/ Contains(r, p) THEN r
    ELSE Append(r, p)

Remember(r, p) ==
    IF p.kind \notin {"page", "checkpoint"} \/ Contains(r, p) \/ RingSize = 0 THEN r
    ELSE IF Len(r) < RingSize THEN Append(r, p)
    ELSE Append(Tail(r), p)

(* Plain data reaches the runtime even when it is a duplicate, and so does *)
(* a request addressed to the node; anything else must be new and bear the *)
(* node's own destination.                                                 *)
Dispatched(n, p) ==
    \/ p.kind = "summary"
    \/ p.kind = "request" /\ p.to = n
    \/ p.to = n /\ ~Contains(ring[n], p)

Forwarded(n, p) == p.to # n /\ ~Contains(ring[n], p)

(* Who may hear a packet of n: whoever is in its reach, or in that of a    *)
(* node that heard it and sends it on.  The echo of a summary is left out: *)
(* its author throws it away.                                              *)
Audiences(n, p) ==
    {heard \in SUBSET Node :
        /\ p.kind = "summary" => n \notin heard
        /\ \A m \in heard :
               \/ m \in Link[n]
               \/ \E k \in heard : m \in Link[k] /\ Forwarded(k, p)}

FullAudience(n, p) == UNION Audiences(n, p)

(* A handler sends its packets one after the other and each has its own    *)
(* audience, the full one when the air is clear.  What the runtime should  *)
(* get is lost when the queue is full: the ring remembers it all the same. *)
Airs(n, packets, clear) ==
    IF clear
    THEN {[i \in DOMAIN packets |-> FullAudience(n, packets[i])]}
    ELSE {air \in [DOMAIN packets -> SUBSET Node] :
             \A i \in DOMAIN packets : air[i] \in Audiences(n, packets[i])}

Arrivals(m, packets, air) ==
    FoldLeft(LAMBDA heard, i :
                 IF m \in air[i] THEN Append(heard, packets[i]) ELSE heard,
             <<>>, [i \in DOMAIN packets |-> i])

Enqueue(q, packets) ==
    q \o SubSeq(packets, 1, Min({Len(packets), QueueMax - Len(q)}))

Transmit(n, rest, packets, clear) ==
    \E sent \in {packets} : \E air \in Airs(n, sent, clear) :
        \E heard \in {[m \in Node |-> Arrivals(m, sent, air)]} :
            /\ ring' = [m \in Node |-> FoldLeft(Remember, ring[m], heard[m])]
            /\ queue' = [m \in Node |->
                   Enqueue(IF m = n THEN rest ELSE queue[m],
                           SelectSeq(heard[m], LAMBDA p : Dispatched(m, p)))]

-----------------------------------------------------------------------------
(* The core task: own transactions, the periodic summary and the flush. *)

Keep(w, h) == SelectSeq(w, LAMBDA t : t.seq > h.floor[t.by])

(* What the founder makes of window w: every number it holds goes under    *)
(* the floors.                                                             *)
Refounded(h, w) ==
    [gen |-> h.gen + 1,
     floor |-> [a \in Node |->
         Max({h.floor[a]} \cup {t.seq : t \in {u \in ToSet(w) : u.by = a}})]]

Adopt(n, w, h) ==
    /\ window' = [window EXCEPT ![n] = Keep(w, h)]
    /\ cp' = [cp EXCEPT ![n] = h]
    /\ next' = [next EXCEPT ![n] = Max({@, h.floor[n] + 1})]
    /\ dirty' = [dirty EXCEPT ![n] = FALSE]

MustCut(n, w) == n = Founder /\ Len(w) >= Threshold

Committed(n) == Append(window[n], [by |-> n, seq |-> next[n]])

CanWrite(n) == next[n] <= SeqMax[n] /\ Len(window[n]) < WindowMax

(* A payment commits on send: counter, merge, forced flush. *)
Write(n) ==
    /\ CanWrite(n)
    /\ ~MustCut(n, Committed(n))
    /\ window' = [window EXCEPT ![n] = Committed(n)]
    /\ next' = [next EXCEPT ![n] = @ + 1]
    /\ dirty' = [dirty EXCEPT ![n] = FALSE]
    /\ UNCHANGED <<cp, timers, offset, radio>>

(* The flush of the founder cuts first, when its window is long enough,    *)
(* and broadcasts what it cut.                                             *)
WriteAndCut(n, clear) ==
    /\ CanWrite(n)
    /\ MustCut(n, Committed(n))
    /\ \E h \in {Refounded(cp[n], Committed(n))} :
           /\ Adopt(n, Committed(n), h)
           /\ Transmit(n, queue[n], <<Checkpoint(n, h)>>, clear)
    /\ UNCHANGED <<timers, offset>>

(* Bounds on what is under way at once: the period of 15 s and a silence   *)
(* of 3 s and more are much longer than it takes to handle a summary, here *)
(* and at whoever heard it, or to answer a request.                        *)
UnderWay(P(_)) == \E m \in Node : \E i \in DOMAIN queue[m] : P(queue[m][i])

Answered(n) ==
    /\ ~UnderWay(LAMBDA p : p.kind = "request" /\ p.requester = n)
    /\ ~UnderWay(LAMBDA p : p.kind = "page" /\ p.to = n)

SummaryDue(n) ==
    /\ Answered(n)
    /\ ~UnderWay(LAMBDA p : p.kind = "summary" /\ p.to = n)

(* The summary needs room in the queue; without it the handler returns     *)
(* before the flush.                                                       *)
Announce(n, clear) ==
    /\ SummaryDue(n)
    /\ Len(queue[n]) < QueueMax
    /\ ~MustCut(n, window[n])
    /\ Transmit(n, queue[n], <<Summary(n)>>, clear)
    /\ dirty' = [dirty EXCEPT ![n] = FALSE]
    /\ UNCHANGED <<ledger, timers, offset>>

AnnounceAndCut(n, clear) ==
    /\ SummaryDue(n)
    /\ Len(queue[n]) < QueueMax
    /\ MustCut(n, window[n])
    /\ \E h \in {Refounded(cp[n], window[n])} :
           /\ Adopt(n, window[n], h)
           /\ Transmit(n, queue[n], <<Summary(n), Checkpoint(n, h)>>, clear)
    /\ UNCHANGED <<timers, offset>>

-----------------------------------------------------------------------------
(* The reticulum task takes the packets of its queue in order. *)

Heads(n, kind) == queue[n] # <<>> /\ Head(queue[n]).kind = kind

Packet(n) == Head(queue[n])

Consume(n) ==
    /\ queue' = [queue EXCEPT ![n] = Tail(@)]
    /\ UNCHANGED ring

(* What a summary and a request say of the peer. *)
Told(n) == [gen |-> Packet(n).gen, digest |-> Packet(n).digest]

Requester(n) == Packet(n).requester

Foreign(n) == Heads(n, "summary") /\ Packet(n).to # n

PushDue(n) == Foreign(n) /\ cp[n].gen > Told(n).gen /\ ~pushed[n]

AskDue(n) ==
    /\ Foreign(n)
    /\ Told(n).gen = cp[n].gen
    /\ Told(n).digest # Digest(window[n])
    /\ ~quiet[n]

(* A peer of an older generation gets our checkpoint, once per silence. *)
PushCheckpoint(n, clear) ==
    /\ PushDue(n)
    /\ pushed' = [pushed EXCEPT ![n] = TRUE]
    /\ Transmit(n, Tail(queue[n]), <<Checkpoint(n, cp[n])>>, clear)
    /\ UNCHANGED <<ledger, quiet, offset, dirty>>

(* A peer of our generation with another digest is asked for everything:   *)
(* known is always 0.                                                      *)
AskForPages(n, clear) ==
    /\ AskDue(n)
    /\ quiet' = [quiet EXCEPT ![n] = TRUE]
    /\ Transmit(n, Tail(queue[n]), <<Request(n, Packet(n).to)>>, clear)
    /\ UNCHANGED <<ledger, pushed, offset, dirty>>

(* One's own echo, a peer ahead of us, one that agrees, or a silence that  *)
(* is not over.                                                            *)
IgnoreSummary(n) ==
    /\ Heads(n, "summary")
    /\ ~PushDue(n)
    /\ ~AskDue(n)
    /\ Consume(n)
    /\ UNCHANGED <<ledger, timers, offset, dirty>>

(* Pages start at the rotating offset, whoever asks; an error of the radio *)
(* stops them and leaves the offset where it was.                          *)
Start(n) == IF offset[n] >= Len(window[n]) THEN 0 ELSE offset[n]

PageCount(n) ==
    Min({PagesMax, (Len(window[n]) - Start(n) + PageSize - 1) \div PageSize})

Pages(n, peer) ==
    [i \in 1..PageCount(n) |->
        Page(peer, SubSeq(window[n], Start(n) + (i - 1) * PageSize + 1,
                          Min({Len(window[n]), Start(n) + i * PageSize})))]

(* Faulty variant of NextOffset: every answer starts with the first page. *)
NextOffsetNone(n) == 0

NextOffset(n) ==
    LET cursor == Start(n) + PageCount(n) * PageSize
    IN  IF cursor >= Len(window[n]) THEN 0 ELSE cursor

AnswerRequest(n, clear) ==
    /\ Heads(n, "request")
    /\ \E pages \in {Pages(n, Requester(n))} :
           \E k \in IF clear THEN {Len(pages)} ELSE 0..Len(pages) :
               /\ Transmit(n, Tail(queue[n]), SubSeq(pages, 1, k), clear)
               /\ offset' = [offset EXCEPT ![n] =
                      IF k = Len(pages) /\ pages # <<>> THEN NextOffset(n)
                      ELSE @]
    /\ UNCHANGED <<ledger, timers, dirty>>

(* The transactions of a page enter one by one: one already there, one     *)
(* under its floor and one for which there is no room are passed over.     *)
Merge(h, w, t) ==
    IF Contains(w, t) \/ t.seq <= h.floor[t.by] \/ Len(w) >= WindowMax THEN w
    ELSE Append(w, t)

Merged(n, txs) ==
    FoldLeft(LAMBDA w, t : Merge(cp[n], w, t), window[n], txs)

HearPage(n) ==
    /\ Heads(n, "page")
    /\ window' = [window EXCEPT ![n] = Merged(n, Packet(n).txs)]
    /\ dirty' = [dirty EXCEPT ![n] = @ \/ window'[n] # window[n]]
    /\ Consume(n)
    /\ UNCHANGED <<cp, next, timers, offset>>

HearCheckpoint(n) ==
    /\ Heads(n, "checkpoint")
    /\ LET h == Packet(n).horizon
       IN  IF h.gen > cp[n].gen THEN Adopt(n, window[n], h)
           ELSE UNCHANGED <<ledger, dirty>>
    /\ Consume(n)
    /\ UNCHANGED <<timers, offset>>

-----------------------------------------------------------------------------
(* Time. *)

QuietOver(n) ==
    /\ quiet[n]
    /\ Answered(n)
    /\ quiet' = [quiet EXCEPT ![n] = FALSE]
    /\ UNCHANGED <<ledger, pushed, offset, dirty, radio>>

PushedOver(n) ==
    /\ pushed[n]
    /\ pushed' = [pushed EXCEPT ![n] = FALSE]
    /\ UNCHANGED <<ledger, quiet, offset, dirty, radio>>

Listen(n, clear) ==
    \/ PushCheckpoint(n, clear)
    \/ AskForPages(n, clear)
    \/ IgnoreSummary(n)
    \/ AnswerRequest(n, clear)
    \/ HearPage(n)
    \/ HearCheckpoint(n)

Next ==
    \E n \in Node :
        \/ Write(n)
        \/ WriteAndCut(n, FALSE)
        \/ Announce(n, FALSE)
        \/ AnnounceAndCut(n, FALSE)
        \/ Listen(n, FALSE)
        \/ QuietOver(n)
        \/ PushedOver(n)

(* The tasks run and the timers fire.  The air loses packets, yet not all  *)
(* of a kind: a summary, a request and the pages from each offset get      *)
(* through now and then.                                                   *)
Fairness ==
    \A n \in Node :
        /\ WF_vars(QuietOver(n))
        /\ WF_vars(Listen(n, FALSE))
        /\ SF_vars(Announce(n, TRUE) \/ AnnounceAndCut(n, TRUE))
        /\ SF_vars(AskForPages(n, TRUE))
        /\ \A o \in 0..(WindowMax - 1) :
               SF_vars(Start(n) = o /\ AnswerRequest(n, TRUE))

Spec == Init /\ [][Next]_vars /\ Fairness

(* The same for the checkpoint that is pushed. *)
PushFairness ==
    \A n \in Node :
        /\ WF_vars(PushedOver(n))
        /\ SF_vars(PushCheckpoint(n, TRUE))

PushSpec == Spec /\ PushFairness

-----------------------------------------------------------------------------
Packets ==
    [kind : {"summary"}, to : Node, digest : SUBSET Tx, gen : Nat]
        \cup [kind : {"request"}, to : Node, requester : Node]
        \cup [kind : {"page"}, to : Node, txs : Seq(Tx)]
        \cup [kind : {"checkpoint"}, to : Node, horizon : Horizon]

(* Types, and the limits of the ring of the transport and of the queue.     *)
TypeOK ==
    /\ window \in [Node -> Seq(Tx)]
    /\ cp \in [Node -> Horizon]
    /\ next \in [Node -> Seqs \cup {Max(Seqs) + 1}]
    /\ quiet \in [Node -> BOOLEAN]
    /\ pushed \in [Node -> BOOLEAN]
    /\ offset \in [Node -> Nat]
    /\ dirty \in [Node -> BOOLEAN]
    /\ ring \in [Node -> Seq(Packets)]
    /\ queue \in [Node -> Seq(Packets)]
    /\ \A n \in Node : Len(ring[n]) <= RingSize /\ Len(queue[n]) <= QueueMax

(* Wallets of one generation end up with one window and have it in flash,  *)
(* whatever the air loses, in whatever order each of them inserted what it *)
(* heard, and though only the tick of the summary saves what was merged.   *)
Settled ==
    \A n, m \in Node :
        /\ ~dirty[n]
        /\ cp[n].gen = cp[m].gen => ToSet(window[n]) = ToSet(window[m])

Settles == <>[]Settled

(* A generation one wallet has reached is one all wallets reach.           *)
CatchUp == \A n, m \in Node : cp[n].gen > cp[m].gen ~> cp[m].gen >= cp[n].gen

=============================================================================
