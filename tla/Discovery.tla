----------------------------- MODULE Discovery ------------------------------
(***************************************************************************)
(* How devices learn of one another.  A device that starts announces       *)
(* itself a few times (app_main.c); whoever hears an announce remembers    *)
(* its author (rns_announce.c), passes it on once (rns_transport_core.c),  *)
(* and answers with an announce of its own unless it has answered that     *)
(* author lately (app_main.c).  Only a device that is known can be paid.   *)
(*                                                                         *)
(* Every table is in RAM, and of a fixed size: the ring of the packets     *)
(* seen last and the answers given are overwritten, the known devices are  *)
(* not.  Frames are whole packets here: their cutting is in RadioPath.     *)
(*                                                                         *)
(* Left out: the path table, which nothing reads, and signatures, since    *)
(* announces here are those devices make.                                  *)
(***************************************************************************)
EXTENDS Naturals, Sequences, FiniteSets, SequencesExt, Functions

CONSTANTS
    Node,
    Neighbours,     \* the nodes in reach of each node
    KnownBefore,    \* the devices a node has answered since it started, oldest first
    RingSize,       \* 48 packets
    KnownMax,       \* 16 devices
    ReplyMax,       \* 16 answers
    HopMax,         \* 255 hops
    BootCount,      \* 3 announces
    TroubleMax,     \* bound on cooldowns that end and packets lost
    RestartMax      \* bound on restarts

ASSUME DiscoveryAssumption ==
    /\ Neighbours \in [Node -> SUBSET Node]
    /\ \A n \in Node :
        /\ KnownBefore[n] \in Seq(ToSet(KnownBefore[n])) /\ IsInjective(KnownBefore[n])
        /\ Len(KnownBefore[n]) <= KnownMax
    /\ {RingSize, KnownMax, ReplyMax, HopMax, BootCount} \subseteq Nat \ {0}
    /\ KnownMax <= ReplyMax
    /\ {TroubleMax, RestartMax} \subseteq Nat

VARIABLES
    inbox,      \* the packets on their way to each node, in order
    ring,       \* duplicate_hashes: the packets seen last
    known,      \* s_known: the devices known
    replied,    \* s_announce_replied: the devices answered, and whether lately
    boots,      \* the announces of the start still to send
    made,       \* the announces each node has made
    answered,   \* history: the devices answered within the cooldown
    unheard,    \* history: <<m, n>> when n lost an answer of m by restarting
    expired, faults, restarts

vars == <<inbox, ring, known, replied, boots, made, answered, unheard,
          expired, faults, restarts>>

Announce(n, k, hops) == [of |-> n, k |-> k, hops |-> hops]

\* rns_packet_hash leaves the hops out.
Hash(packet) == <<packet.of, packet.k>>

Init ==
    /\ inbox = [n \in Node |-> << >>]
    /\ ring = [n \in Node |-> << >>]
    /\ known = [n \in Node |-> ToSet(KnownBefore[n])]
    /\ replied = [n \in Node |->
                    [i \in DOMAIN KnownBefore[n] |-> [to |-> KnownBefore[n][i], lately |-> FALSE]]]
    /\ boots = [n \in Node |-> IF KnownBefore[n] = << >> THEN BootCount ELSE 0]
    /\ made = [n \in Node |-> 0]
    /\ answered = [n \in Node |-> {}]
    /\ unheard = {}
    /\ expired = 0 /\ faults = 0 /\ restarts = 0

-----------------------------------------------------------------------------
(* The tables.                                                             *)

\* duplicate_remember
Remembered(seen, hash) ==
    LET longer == Append(seen, hash)
    IN  IF Len(longer) > RingSize THEN Tail(longer) ELSE longer

\* find_known_locked
InTable(n, m) == m \in known[n]

\* The table that would take every device.
AlwaysRoom(n, m) == TRUE

\* rns_announce_verify_and_remember: nothing leaves the table.
HasRoom(n, m) == InTable(n, m) \/ Cardinality(known[n]) < KnownMax

\* A device already known is not answered.
SeenOnceKnown(n, m) == InTable(n, m)

\* meshpay_announce_reply_seen
ReplySeen(n, m) == \E e \in ToSet(replied[n]) : e.to = m /\ e.lately

\* Each answer takes an entry of its own.
ReplyAppended(n, m) ==
    LET longer == Append(replied[n], [to |-> m, lately |-> TRUE])
    IN  IF Len(longer) > ReplyMax THEN Tail(longer) ELSE longer

\* meshpay_announce_reply_remember: in place, or in the place of the oldest.
ReplyRemembered(n, m) ==
    LET entries == replied[n]
        entry == [to |-> m, lately |-> TRUE]
    IN  IF \E i \in DOMAIN entries : entries[i].to = m
        THEN [i \in DOMAIN entries |-> IF entries[i].to = m THEN entry ELSE entries[i]]
        ELSE IF Len(entries) < ReplyMax THEN Append(entries, entry)
        ELSE Append(Tail(entries), entry)

-----------------------------------------------------------------------------
(* The air: a packet sent reaches every neighbour.                         *)

Trouble == expired + faults < TroubleMax

Fault == Trouble /\ faults' = faults + 1

Reach(queues, n, packets) ==
    [b \in Node |-> IF b \in Neighbours[n] THEN queues[b] \o packets ELSE queues[b]]

Taken(n) == [inbox EXCEPT ![n] = Tail(@)]

\* A packet is lost on its way to one node, or its queue is full.
Lose(n) ==
    /\ inbox[n] # << >>
    /\ Fault
    /\ inbox' = Taken(n)
    /\ UNCHANGED <<ring, known, replied, boots, made, answered, unheard, expired, restarts>>

-----------------------------------------------------------------------------
(* Announcing.                                                             *)

Own(n) == Announce(n, made[n] + 1, 0)

NowHeard(n) == {pair \in unheard : pair[1] # n}

\* One announce of boot_announce_task; the radio may fail to send it.
BootAnnounce(n) ==
    /\ boots[n] > 0
    /\ boots' = [boots EXCEPT ![n] = @ - 1]
    /\ made' = [made EXCEPT ![n] = @ + 1]
    /\ \/ inbox' = Reach(inbox, n, <<Own(n)>>) /\ unheard' = NowHeard(n) /\ UNCHANGED faults
       \/ Fault /\ UNCHANGED <<inbox, unheard>>
    /\ UNCHANGED <<ring, known, replied, answered, expired, restarts>>

-----------------------------------------------------------------------------
(* Receiving the next packet: rns_node_receive_packet, from duplicate to   *)
(* answer.                                                                 *)

Seen(n, packet) == Hash(packet) \in ToSet(ring[n])

Duplicate(n) ==
    /\ inbox[n] # << >>
    /\ Seen(n, Head(inbox[n]))
    /\ inbox' = Taken(n)
    /\ UNCHANGED <<ring, known, replied, boots, made, answered, unheard, expired, faults, restarts>>

New(n, packet) ==
    /\ inbox[n] # << >>
    /\ packet = Head(inbox[n])
    /\ ~Seen(n, packet)
    /\ ring' = [ring EXCEPT ![n] = Remembered(@, Hash(packet))]

\* No room for its author: the packet goes no further.
Refuse(n) ==
    /\ \E packet \in ToSet(inbox[n]) : New(n, packet) /\ ~HasRoom(n, packet.of)
    /\ inbox' = Taken(n)
    /\ UNCHANGED <<known, replied, boots, made, answered, unheard, expired, faults, restarts>>

Learns(n, packet) ==
    /\ New(n, packet)
    /\ HasRoom(n, packet.of)
    /\ known' = [known EXCEPT ![n] = @ \cup {packet.of}]

\* What ends with the table: the echo of our own announce, an announce come too
\* far, one the radio fails to pass on.
LearnOnly(n) ==
    /\ \E packet \in ToSet(inbox[n]) :
        /\ Learns(n, packet)
        /\ \/ (packet.of = n \/ packet.hops = HopMax) /\ UNCHANGED faults
           \/ packet.of # n /\ packet.hops < HopMax /\ Fault
    /\ inbox' = Taken(n)
    /\ UNCHANGED <<replied, boots, made, answered, unheard, expired, restarts>>

Passed(packet) == [packet EXCEPT !.hops = @ + 1]

PassesOn(n, packet) ==
    /\ Learns(n, packet)
    /\ packet.of # n
    /\ packet.hops < HopMax

\* Answered not long ago: passed on without an answer.
PassOn(n) ==
    /\ \E packet \in ToSet(inbox[n]) :
        /\ PassesOn(n, packet)
        /\ ReplySeen(n, packet.of)
        /\ inbox' = Reach(Taken(n), n, <<Passed(packet)>>)
    /\ UNCHANGED <<replied, boots, made, answered, unheard, expired, faults, restarts>>

\* Passed on and answered; an answer the radio fails to send counts as given.
Answer(n) ==
    /\ \E packet \in ToSet(inbox[n]) :
        /\ PassesOn(n, packet)
        /\ ~ReplySeen(n, packet.of)
        /\ replied' = [replied EXCEPT ![n] = ReplyRemembered(n, packet.of)]
        /\ answered' = [answered EXCEPT ![n] = @ \cup {packet.of}]
        /\ \/ /\ inbox' = Reach(Taken(n), n, <<Passed(packet), Own(n)>>)
              /\ unheard' = NowHeard(n)
              /\ UNCHANGED faults
           \/ /\ inbox' = Reach(Taken(n), n, <<Passed(packet)>>)
              /\ Fault
              /\ UNCHANGED unheard
    /\ made' = [made EXCEPT ![n] = @ + 1]
    /\ UNCHANGED <<boots, expired, restarts>>

-----------------------------------------------------------------------------
(* Time and power.                                                         *)

\* The cooldown of an answer ends.
Expire(n, m) ==
    /\ Trouble
    /\ expired' = expired + 1
    /\ m \in answered[n]
    /\ answered' = [answered EXCEPT ![n] = @ \ {m}]
    /\ replied' = [replied EXCEPT ![n] =
                    [i \in DOMAIN @ |-> IF @[i].to = m THEN [@[i] EXCEPT !.lately = FALSE] ELSE @[i]]]
    /\ UNCHANGED <<inbox, ring, known, boots, made, unheard, faults, restarts>>

\* A node restarts, with nothing in its queue: losing that is Lose.
Restart(n) ==
    /\ restarts < RestartMax
    /\ restarts' = restarts + 1
    /\ inbox[n] = << >>
    /\ ring' = [ring EXCEPT ![n] = << >>]
    /\ known' = [known EXCEPT ![n] = {}]
    /\ replied' = [replied EXCEPT ![n] = << >>]
    /\ boots' = [boots EXCEPT ![n] = BootCount]
    /\ answered' = [answered EXCEPT ![n] = {}]
    /\ unheard' = unheard \cup {<<m, n>> : m \in {o \in Node : n \in answered[o]}}
    /\ UNCHANGED <<inbox, made, expired, faults>>

Next ==
    \E n \in Node :
        \/ BootAnnounce(n)
        \/ Duplicate(n) \/ Refuse(n) \/ LearnOnly(n) \/ PassOn(n) \/ Answer(n)
        \/ Lose(n) \/ Restart(n)
        \/ \E m \in answered[n] : Expire(n, m)

Spec == Init /\ [][Next]_vars

-----------------------------------------------------------------------------
(* Properties.                                                             *)

Device == Node \cup UNION {ToSet(KnownBefore[n]) : n \in Node}

IsAnnounce(packet) ==
    /\ packet.of \in Node
    /\ packet.k \in 1 .. made[packet.of]
    /\ packet.hops \in 0 .. HopMax

\* Tables within their sizes and without doubles, packets that somebody made.
TypeOK ==
    \A n \in Node :
        /\ known[n] \subseteq Device /\ Cardinality(known[n]) <= KnownMax
        /\ Len(replied[n]) <= ReplyMax
        /\ Len(ring[n]) <= RingSize
        /\ \A i, j \in DOMAIN replied[n] : replied[n][i].to = replied[n][j].to => i = j
        /\ \A packet \in ToSet(inbox[n]) : IsAnnounce(packet)
        /\ boots[n] \in 0 .. BootCount

\* A device answered within the cooldown is still in the table of answers, though
\* a new entry takes the place of the oldest (app_main.c): otherwise it would be
\* answered again, and two devices would answer each other's answers for ever.
CooldownKept == \A n \in Node : \A m \in answered[n] : ReplySeen(n, m)

Full(n) == Cardinality(known[n]) = KnownMax

Quiet == \A n \in Node : inbox[n] = << >> /\ boots[n] = 0

\* Neighbours, or with a neighbour between them who knows both.
Linked(n, m) ==
    \/ m \in Neighbours[n]
    \/ \E b \in Neighbours[n] \cap Neighbours[m] : {n, m} \subseteq known[b]

\* n may go without m: one of the two tables is full, or n restarted within the
\* cooldown of the answer its former life was given.
Excused(n, m) ==
    \/ m \in known[n]
    \/ Full(n)
    \/ Full(m) /\ n \notin known[m]
    \/ <<m, n>> \in unheard

\* When the air is quiet and nothing was lost, a device knows every device it is
\* linked to, or is excused.
Met ==
    Quiet /\ faults = 0 =>
        \A n \in Node : \A m \in Node \ {n} : Linked(n, m) => Excused(n, m)

=============================================================================
