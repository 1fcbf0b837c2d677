-------------------------- MODULE DiscoveryProofs ---------------------------
(***************************************************************************)
(* The table of answers never forgets an answer given within the cooldown, *)
(* for every number of devices, every size of the tables in which the      *)
(* known devices are no more than the answers, and any losses, cooldowns   *)
(* and restarts; and neighbours get to know each other, and devices with a *)
(* neighbour between them, in every network.                               *)
(*                                                                         *)
(* A new answer takes the place of the oldest in a full table.  It never   *)
(* does: whoever is answered is known, nobody is twice in the table, and   *)
(* the known devices are few enough.                                       *)
(*                                                                         *)
(* A device that does not know its neighbour has an announce of it in its  *)
(* queue, or the neighbour has still to announce itself, or an announce of *)
(* its own is there or will be that makes the neighbour answer.  With a    *)
(* device between them, what it has not seen yet it will pass on: the      *)
(* announces are there, or at the one between, which has not seen them.    *)
(***************************************************************************)
EXTENDS Discovery, FiniteSetTheorems, SequenceTheorems, TLAPS

Packet == [of : Node, k : Nat, hops : 0 .. HopMax]

Entry(K) == [to : K, lately : BOOLEAN]

Unique(entries) == \A i, j \in DOMAIN entries : entries[i].to = entries[j].to => i = j

(* The answers to devices of K, those of A being recent.                     *)
Answers(entries, K, A) ==
    /\ entries \in Seq(Entry(K))
    /\ Unique(entries)
    /\ \A m \in A : \E i \in DOMAIN entries : entries[i].to = m /\ entries[i].lately

(* The packets on their way are announces made before.                       *)
Made(queues, count) ==
    \A n \in Node : \A i \in DOMAIN queues[n] :
        queues[n][i].k \in 1 .. count[queues[n][i].of]

Wires ==
    /\ inbox \in [Node -> Seq(Packet)]
    /\ ring \in [Node -> Seq(Node \X Nat)]
    /\ made \in [Node -> Nat]
    /\ boots \in [Node -> 0 .. BootCount]
    /\ \A n \in Node : Len(ring[n]) <= RingSize
    /\ Made(inbox, made)

Tables ==
    /\ known \in [Node -> SUBSET Device]
    /\ answered \in [Node -> SUBSET Node]
    /\ DOMAIN replied = Node
    /\ \A n \in Node :
        /\ IsFiniteSet(known[n]) /\ Cardinality(known[n]) <= KnownMax
        /\ Answers(replied[n], known[n], answered[n])

IInv == Wires /\ Tables

-----------------------------------------------------------------------------
(* Sequences and tables.                                                     *)

LEMMA FunIsSeq ==
    ASSUME NEW S, NEW n \in Nat, NEW f \in [1 .. n -> S]
    PROVE  f \in Seq(S) /\ Len(f) = n
BY SeqDef

LEMMA ToSetOfSeq ==
    ASSUME NEW S, NEW s \in Seq(S)
    PROVE  /\ ToSet(s) \subseteq S
           /\ \A e : e \in ToSet(s) <=> \E i \in 1 .. Len(s) : s[i] = e
BY LenProperties DEF ToSet

(* Without doubles, a table is no longer than what it is about.              *)
LEMMA UniqueIsShort ==
    ASSUME NEW K, IsFiniteSet(K), NEW entries \in Seq(Entry(K)), Unique(entries)
    PROVE  Len(entries) <= Cardinality(K)
<1> DEFINE D == 1 .. Len(entries)
           f == [i \in D |-> entries[i].to]
<1>1. Len(entries) \in Nat /\ DOMAIN entries = D /\ \A i \in D : entries[i] \in Entry(K)
  BY LenProperties, ElementOfSeq
<1>2. f \in [D -> K]
  BY <1>1 DEF Entry
<1>3. IsInjective(f)
  BY <1>1 DEF IsInjective, Unique
<1>4. f \in Injection(D, K)
  BY <1>2, <1>3 DEF Injection
<1>5. Cardinality(D) <= Cardinality(K)
  BY <1>4, FS_Injection
<1>6. Cardinality(D) = Len(entries)
  <2>1. 1 \in Int /\ Len(entries) \in Int
    BY <1>1
  <2>2. Cardinality(D) = IF 1 > Len(entries) THEN 0 ELSE Len(entries) - 1 + 1
    BY <2>1, FS_Interval
  <2> QED
    BY <1>1, <2>2
<1> QED
  BY <1>5, <1>6

(* An answer to a device in the table leaves the others as they are.         *)
LEMMA RememberedInPlace ==
    ASSUME NEW n \in Node, NEW m, NEW K, NEW L, NEW A,
           Answers(replied[n], K, A), K \subseteq L, m \in L,
           \E i \in DOMAIN replied[n] : replied[n][i].to = m
    PROVE  Answers(ReplyRemembered(n, m), L, A \cup {m})
<1> DEFINE entries == replied[n]
           D == 1 .. Len(entries)
           new == [i \in D |-> IF entries[i].to = m THEN [to |-> m, lately |-> TRUE]
                               ELSE entries[i]]
<1>1. Len(entries) \in Nat /\ DOMAIN entries = D /\ \A i \in D : entries[i] \in Entry(K)
  BY LenProperties, ElementOfSeq DEF Answers
<1>2. ReplyRemembered(n, m) = new
  BY <1>1 DEF ReplyRemembered
<1>3. new \in [D -> Entry(L)]
  BY <1>1 DEF Entry
<1>4. new \in Seq(Entry(L)) /\ DOMAIN new = D
  BY <1>1, <1>3, FunIsSeq
<1>5. \A i \in D : new[i].to = entries[i].to /\ (entries[i].lately => new[i].lately)
  OBVIOUS
<1>6. Unique(new)
  BY <1>1, <1>4, <1>5 DEF Unique, Answers
<1>7. \A o \in A \cup {m} : \E i \in D : new[i].to = o /\ new[i].lately
  BY <1>1, <1>5 DEF Answers
<1> HIDE DEF new
<1> QED
  BY <1>2, <1>4, <1>6, <1>7 DEF Answers

(* An answer to a new device finds room.                                     *)
LEMMA RememberedAtEnd ==
    ASSUME NEW n \in Node, NEW m, NEW K, NEW L, NEW A,
           Answers(replied[n], K, A), K \subseteq L, m \in L,
           IsFiniteSet(L), Cardinality(L) <= KnownMax,
           ~ \E i \in DOMAIN replied[n] : replied[n][i].to = m
    PROVE  Answers(ReplyRemembered(n, m), L, A \cup {m})
<1> DEFINE entries == replied[n]
           len == Len(entries)
           entry == [to |-> m, lately |-> TRUE]
           new == Append(entries, entry)
<1>1. len \in Nat /\ DOMAIN entries = 1 .. len /\ \A i \in 1 .. len : entries[i] \in Entry(K)
  BY LenProperties, ElementOfSeq DEF Answers
<1>2. new \in Seq(Entry(L)) /\ Len(new) = len + 1
  <2>1. Entry(K) \subseteq Entry(L) /\ entry \in Entry(L)
    BY DEF Entry
  <2>2. entries \in Seq(Entry(L))
    BY <2>1, SeqMonotonic DEF Answers
  <2> QED
    BY <2>1, <2>2, AppendProperties
<1>3. DOMAIN new = 1 .. len + 1 /\ new[len + 1] = entry /\ \A i \in 1 .. len : new[i] = entries[i]
  BY <1>1, <1>2, AppendProperties, LenProperties DEF Answers
<1>4. Unique(new)
  BY <1>1, <1>3 DEF Unique, Answers
<1>5. len + 1 <= KnownMax
  <2>1. len + 1 <= Cardinality(L) /\ Cardinality(L) \in Nat
    BY <1>2, <1>4, UniqueIsShort, FS_CardinalityType
  <2> QED
    BY <2>1, <1>1, DiscoveryAssumption
<1>6. len < ReplyMax
  BY <1>1, <1>5, DiscoveryAssumption
<1>7. ReplyRemembered(n, m) = new
  BY <1>6 DEF ReplyRemembered
<1>8. \A o \in A \cup {m} : \E i \in DOMAIN new : new[i].to = o /\ new[i].lately
  BY <1>1, <1>3 DEF Answers
<1> HIDE DEF new
<1> QED
  BY <1>2, <1>4, <1>7, <1>8 DEF Answers

LEMMA RememberedIsAnswers ==
    ASSUME NEW n \in Node, NEW m, NEW K, NEW L, NEW A,
           Answers(replied[n], K, A), K \subseteq L, m \in L,
           IsFiniteSet(L), Cardinality(L) <= KnownMax
    PROVE  Answers(ReplyRemembered(n, m), L, A \cup {m})
BY RememberedInPlace, RememberedAtEnd

(* A table that grows keeps its answers.                                     *)
LEMMA AnswersGrow ==
    ASSUME NEW entries, NEW K, NEW L, NEW A, NEW B,
           Answers(entries, K, A), K \subseteq L, B \subseteq A
    PROVE  Answers(entries, L, B)
<1>1. Entry(K) \subseteq Entry(L)
  BY DEF Entry
<1> QED
  BY <1>1, SeqMonotonic DEF Answers

-----------------------------------------------------------------------------
(* The air.                                                                  *)

LEMMA TakenIsMade ==
    ASSUME Wires, NEW n \in Node, inbox[n] # << >>
    PROVE  /\ Head(inbox[n]) \in Packet
           /\ Head(inbox[n]).k \in 1 .. made[Head(inbox[n]).of]
           /\ Taken(n) \in [Node -> Seq(Packet)]
           /\ Made(Taken(n), made)
<1> DEFINE q == inbox[n]
<1>1. q \in Seq(Packet) /\ inbox \in [Node -> Seq(Packet)]
  BY DEF Wires
<1>2. /\ Head(q) \in Packet /\ Tail(q) \in Seq(Packet) /\ Len(Tail(q)) = Len(q) - 1
      /\ \A i \in 1 .. Len(Tail(q)) : Tail(q)[i] = q[i + 1]
  BY <1>1, HeadTailProperties
<1>3. Len(q) \in Nat \ {0} /\ DOMAIN q = 1 .. Len(q) /\ DOMAIN Tail(q) = 1 .. Len(Tail(q))
  BY <1>1, <1>2, LenProperties, EmptySeq
<1>4. \A i \in DOMAIN Tail(q) : i + 1 \in DOMAIN q /\ Tail(q)[i] = q[i + 1]
  BY <1>2, <1>3
<1>5. Head(q) = q[1] /\ 1 \in DOMAIN q
  BY <1>3
<1>6. Taken(n) \in [Node -> Seq(Packet)]
  BY <1>1, <1>2 DEF Taken
<1>7. \A b \in Node : Taken(n)[b] = IF b = n THEN Tail(q) ELSE inbox[b]
  BY <1>1 DEF Taken
<1>8. \A i \in DOMAIN Tail(q) : Tail(q)[i].k \in 1 .. made[Tail(q)[i].of]
  BY <1>4 DEF Wires, Made
<1>9. Made(Taken(n), made)
  BY <1>7, <1>8 DEF Wires, Made
<1> QED
  BY <1>2, <1>5, <1>6, <1>9 DEF Wires, Made

(* What is sent reaches queues that hold nothing else than before.           *)
LEMMA ReachIsQueues ==
    ASSUME NEW queues \in [Node -> Seq(Packet)], NEW n \in Node, NEW packets \in Seq(Packet)
    PROVE  /\ Reach(queues, n, packets) \in [Node -> Seq(Packet)]
           /\ \A b \in Node : \A i \in DOMAIN Reach(queues, n, packets)[b] :
                \/ \E j \in DOMAIN queues[b] : Reach(queues, n, packets)[b][i] = queues[b][j]
                \/ \E j \in DOMAIN packets : Reach(queues, n, packets)[b][i] = packets[j]
<1> DEFINE R == Reach(queues, n, packets)
<1>1. ASSUME NEW b \in Node
      PROVE  /\ R[b] \in Seq(Packet)
             /\ \A i \in DOMAIN R[b] : \/ \E j \in DOMAIN queues[b] : R[b][i] = queues[b][j]
                                       \/ \E j \in DOMAIN packets : R[b][i] = packets[j]
  <2> DEFINE q == queues[b]
             both == q \o packets
  <2>1. q \in Seq(Packet)
    OBVIOUS
  <2>2. /\ both \in Seq(Packet) /\ Len(both) = Len(q) + Len(packets)
        /\ \A i \in 1 .. Len(q) + Len(packets) :
             both[i] = IF i <= Len(q) THEN q[i] ELSE packets[i - Len(q)]
    BY <2>1, ConcatProperties
  <2>3. /\ Len(q) \in Nat /\ Len(packets) \in Nat
        /\ DOMAIN q = 1 .. Len(q) /\ DOMAIN packets = 1 .. Len(packets)
        /\ DOMAIN both = 1 .. Len(both)
    BY <2>1, <2>2, LenProperties
  <2>4. ASSUME NEW i \in DOMAIN both
        PROVE  \/ \E j \in DOMAIN q : both[i] = q[j]
               \/ \E j \in DOMAIN packets : both[i] = packets[j]
    <3>1. CASE i <= Len(q)
      BY <2>2, <2>3, <3>1
    <3>2. CASE ~(i <= Len(q))
      BY <2>2, <2>3, <3>2
    <3> QED
      BY <3>1, <3>2
  <2>5. R[b] = IF b \in Neighbours[n] THEN both ELSE q
    BY DEF Reach
  <2> HIDE DEF both, R
  <2> QED
    BY <2>1, <2>2, <2>4, <2>5
<1>2. R \in [Node -> Seq(Packet)]
  BY <1>1 DEF Reach
<1> QED
  BY <1>1, <1>2

LEMMA SentIsMade ==
    ASSUME NEW queues \in [Node -> Seq(Packet)], NEW n \in Node, NEW packets \in Seq(Packet),
           NEW old \in [Node -> Nat], NEW new \in [Node -> Nat],
           \A m \in Node : old[m] <= new[m],
           Made(queues, old),
           \A j \in DOMAIN packets : packets[j].k \in 1 .. new[packets[j].of]
    PROVE  /\ Reach(queues, n, packets) \in [Node -> Seq(Packet)]
           /\ Made(Reach(queues, n, packets), new)
<1>1. ASSUME NEW b \in Node, NEW j \in DOMAIN queues[b]
      PROVE  queues[b][j].k \in 1 .. new[queues[b][j].of]
  <2>1. queues[b][j] \in Packet
    BY LenProperties, ElementOfSeq
  <2>2. queues[b][j].of \in Node /\ queues[b][j].k \in 1 .. old[queues[b][j].of]
    BY <2>1 DEF Packet, Made
  <2> QED
    BY <2>2
<1> DEFINE R == Reach(queues, n, packets)
<1>2. R \in [Node -> Seq(Packet)]
  BY ReachIsQueues
<1>3. ASSUME NEW b \in Node, NEW i \in DOMAIN R[b]
      PROVE  R[b][i].k \in 1 .. new[R[b][i].of]
  <2>1. \/ \E j \in DOMAIN queues[b] : R[b][i] = queues[b][j]
        \/ \E j \in DOMAIN packets : R[b][i] = packets[j]
    BY ReachIsQueues
  <2> HIDE DEF R
  <2> QED
    BY <1>1, <2>1
<1> HIDE DEF R
<1>4. Made(R, new)
  BY <1>3 DEF Made
<1> QED
  BY <1>2, <1>4 DEF R

LEMMA RememberedFits ==
    ASSUME NEW S, NEW seen \in Seq(S), NEW hash \in S, Len(seen) <= RingSize
    PROVE  Remembered(seen, hash) \in Seq(S) /\ Len(Remembered(seen, hash)) <= RingSize
<1> DEFINE longer == Append(seen, hash)
<1>1. longer \in Seq(S) /\ Len(longer) = Len(seen) + 1 /\ Len(seen) \in Nat
  BY AppendProperties, LenProperties
<1>2. longer # << >>
  BY <1>1, EmptySeq
<1>3. Tail(longer) \in Seq(S) /\ Len(Tail(longer)) = Len(longer) - 1
  BY <1>1, <1>2, HeadTailProperties
<1> HIDE DEF longer
<1>4. Remembered(seen, hash) = IF Len(longer) > RingSize THEN Tail(longer) ELSE longer
  BY DEF Remembered, longer
<1> QED
  BY <1>1, <1>3, <1>4, DiscoveryAssumption

(* A packet that is not a duplicate.                                         *)
LEMMA NewIsMade ==
    ASSUME Wires, NEW n \in Node, NEW packet, New(n, packet)
    PROVE  /\ packet \in Packet
           /\ packet.k \in 1 .. made[packet.of]
           /\ Taken(n) \in [Node -> Seq(Packet)]
           /\ Made(Taken(n), made)
           /\ ring' \in [Node -> Seq(Node \X Nat)]
           /\ \A b \in Node : Len(ring'[b]) <= RingSize
<1>1. packet \in Packet /\ packet.k \in 1 .. made[packet.of]
  BY TakenIsMade DEF New
<1>2. Taken(n) \in [Node -> Seq(Packet)] /\ Made(Taken(n), made)
  BY TakenIsMade DEF New
<1>3. Hash(packet) \in Node \X Nat
  BY <1>1 DEF Hash, Packet
<1>4. ring[n] \in Seq(Node \X Nat) /\ Len(ring[n]) <= RingSize
  BY DEF Wires
<1> DEFINE longer == Remembered(ring[n], Hash(packet))
<1>5. longer \in Seq(Node \X Nat) /\ Len(longer) <= RingSize
  BY <1>3, <1>4, RememberedFits
<1>6. ring' = [ring EXCEPT ![n] = longer]
  BY DEF New
<1> HIDE DEF longer
<1> QED
  BY <1>1, <1>2, <1>5, <1>6 DEF Wires

(* Its author finds room in the table.                                       *)
LEMMA LearnsKnown ==
    ASSUME IInv, NEW n \in Node, NEW packet, Learns(n, packet)
    PROVE  /\ known' \in [Node -> SUBSET Device]
           /\ packet.of \in known'[n]
           /\ \A b \in Node : /\ known[b] \subseteq known'[b]
                              /\ IsFiniteSet(known'[b]) /\ Cardinality(known'[b]) <= KnownMax
<1>1. packet.of \in Device
  BY NewIsMade DEF IInv, Learns, Packet, Device
<1>2. IsFiniteSet(known[n]) /\ Cardinality(known[n]) <= KnownMax /\ Cardinality(known[n]) \in Nat
  BY FS_CardinalityType DEF IInv, Tables
<1> DEFINE more == known[n] \cup {packet.of}
<1>3. IsFiniteSet(more) /\ Cardinality(more) <= KnownMax
  <2>1. CASE packet.of \in known[n]
    <3>1. more = known[n]
      BY <2>1
    <3> QED
      BY <1>2, <3>1
  <2>2. CASE packet.of \notin known[n]
    <3>1. IsFiniteSet(more) /\ Cardinality(more) = Cardinality(known[n]) + 1
      BY <1>2, <2>2, FS_AddElement
    <3>2. Cardinality(known[n]) < KnownMax
      BY <2>2 DEF Learns, HasRoom, InTable
    <3> QED
      BY <1>2, <3>1, <3>2, DiscoveryAssumption
  <2> QED
    BY <2>1, <2>2
<1>4. known' = [known EXCEPT ![n] = more] /\ more \subseteq Device /\ known \in [Node -> SUBSET Device]
  BY <1>1 DEF Learns, IInv, Tables
<1>5. packet.of \in more /\ known[n] \subseteq more
  OBVIOUS
<1> HIDE DEF more
<1> QED
  BY <1>3, <1>4, <1>5 DEF IInv, Tables

(* Answers not touched stay as they are when the known devices grow.         *)
LEMMA TablesGrow ==
    ASSUME IInv, UNCHANGED <<replied, answered>>,
           known' \in [Node -> SUBSET Device],
           \A b \in Node : /\ known[b] \subseteq known'[b]
                           /\ IsFiniteSet(known'[b]) /\ Cardinality(known'[b]) <= KnownMax
    PROVE  Tables'
<1>1. ASSUME NEW b \in Node PROVE Answers(replied[b], known'[b], answered[b])
  BY AnswersGrow DEF IInv, Tables
<1> QED
  BY <1>1 DEF IInv, Tables

-----------------------------------------------------------------------------
(* The invariant, action by action.                                          *)

LEMMA TablesUnchanged ==
    ASSUME Tables, UNCHANGED <<known, replied, answered>>
    PROVE  Tables'
BY DEF Tables, Answers, Unique

LEMMA InitKeeps ==
    ASSUME Init
    PROVE  IInv
<1>1. ASSUME NEW n \in Node
      PROVE  /\ IsFiniteSet(known[n]) /\ Cardinality(known[n]) <= KnownMax
             /\ Answers(replied[n], known[n], answered[n])
  <2> DEFINE s == KnownBefore[n]
             D == 1 .. Len(s)
             K == ToSet(s)
             entries == [i \in D |-> [to |-> s[i], lately |-> FALSE]]
  <2>1. s \in Seq(K) /\ IsInjective(s) /\ Len(s) <= KnownMax
    BY DiscoveryAssumption
  <2>2. Len(s) \in Nat /\ DOMAIN s = D /\ s \in [D -> K] /\ \A i \in D : s[i] \in K
    BY <2>1, LenProperties, ElementOfSeq
  <2>3. \A e \in K : \E i \in D : s[i] = e
    BY <2>2 DEF ToSet
  <2>4. s \in Surjection(D, K)
    BY <2>2, <2>3 DEF Surjection
  <2>5. IsFiniteSet(D) /\ Cardinality(D) = Len(s)
    <3>1. 1 \in Int /\ Len(s) \in Int
      BY <2>2
    <3>2. IsFiniteSet(D) /\ Cardinality(D) = IF 1 > Len(s) THEN 0 ELSE Len(s) - 1 + 1
      BY <3>1, FS_Interval
    <3> QED
      BY <2>2, <3>2
  <2>6. IsFiniteSet(K) /\ Cardinality(K) <= Len(s)
    BY <2>4, <2>5, FS_Surjection
  <2>7. Cardinality(K) <= KnownMax
    BY <2>1, <2>2, <2>6, FS_CardinalityType, DiscoveryAssumption
  <2>8. entries \in [D -> Entry(K)]
    BY <2>2 DEF Entry
  <2>9. entries \in Seq(Entry(K)) /\ DOMAIN entries = D
    BY <2>2, <2>8, FunIsSeq
  <2>10. Unique(entries)
    BY <2>1, <2>2, <2>9 DEF Unique, IsInjective
  <2>11. known[n] = K /\ replied[n] = entries /\ answered[n] = {}
    BY <2>2 DEF Init
  <2> HIDE DEF entries, K
  <2> QED
    BY <2>6, <2>7, <2>9, <2>10, <2>11 DEF Answers
<1>2. Tables
  BY <1>1 DEF Init, Tables, Device
<1>3. Wires
  BY DiscoveryAssumption, EmptySeq DEF Init, Wires, Made
<1> QED
  BY <1>2, <1>3 DEF IInv

LEMMA OwnIsMade ==
    ASSUME Wires, NEW n \in Node
    PROVE  Own(n) \in Packet /\ Own(n).of = n /\ Own(n).k = made[n] + 1
BY DiscoveryAssumption DEF Own, Announce, Wires, Packet

LEMMA BootKeeps ==
    ASSUME IInv, NEW n \in Node, BootAnnounce(n)
    PROVE  IInv'
<1>1. made' = [made EXCEPT ![n] = @ + 1] /\ made' \in [Node -> Nat] /\ made \in [Node -> Nat]
  BY DEF BootAnnounce, IInv, Wires
<1>2. \A m \in Node : made[m] <= made'[m]
  BY <1>1
<1>3. inbox' \in [Node -> Seq(Packet)] /\ Made(inbox', made')
  <2>1. CASE inbox' = Reach(inbox, n, <<Own(n)>>)
    <3>1. inbox \in [Node -> Seq(Packet)] /\ Made(inbox, made)
      BY DEF IInv, Wires
    <3>2. <<Own(n)>> \in Seq(Packet) /\ \A j \in DOMAIN <<Own(n)>> : <<Own(n)>>[j] = Own(n)
      BY OwnIsMade DEF IInv
    <3>3. Own(n).k \in 1 .. made'[Own(n).of]
      BY <1>1, OwnIsMade DEF IInv
    <3> QED
      BY <1>1, <1>2, <2>1, <3>1, <3>2, <3>3, SentIsMade
  <2>2. CASE UNCHANGED inbox
    <3>1. ASSUME NEW b \in Node, NEW i \in DOMAIN inbox[b]
          PROVE  inbox[b][i].k \in 1 .. made'[inbox[b][i].of]
      <4>1. inbox[b][i] \in Packet
        BY LenProperties, ElementOfSeq DEF IInv, Wires
      <4>2. inbox[b][i].of \in Node /\ inbox[b][i].k \in 1 .. made[inbox[b][i].of]
        BY <4>1 DEF Packet, IInv, Wires, Made
      <4> QED
        BY <1>1, <1>2, <4>2
    <3> QED
      BY <2>2, <3>1 DEF Made, IInv, Wires
  <2> QED
    BY <2>1, <2>2 DEF BootAnnounce
<1>4. boots' \in [Node -> 0 .. BootCount]
  <2>1. boots \in [Node -> 0 .. BootCount] /\ BootCount \in Nat
    BY DiscoveryAssumption DEF IInv, Wires
  <2>2. boots[n] > 0 /\ boots' = [boots EXCEPT ![n] = @ - 1]
    BY DEF BootAnnounce
  <2>3. boots[n] - 1 \in 0 .. BootCount
    BY <2>1, <2>2
  <2> QED
    BY <2>1, <2>2, <2>3
<1>5. UNCHANGED <<ring, known, replied, answered>>
  BY DEF BootAnnounce
<1>6. Wires'
  BY <1>1, <1>3, <1>4, <1>5 DEF IInv, Wires
<1>7. Tables'
  BY <1>5, TablesUnchanged DEF IInv
<1> QED
  BY <1>6, <1>7 DEF IInv

LEMMA DropKeeps ==
    ASSUME IInv, NEW n \in Node, Duplicate(n) \/ Lose(n)
    PROVE  IInv'
<1>1. inbox[n] # << >> /\ inbox' = Taken(n) /\ UNCHANGED <<ring, known, replied, boots, made, answered>>
  BY DEF Duplicate, Lose
<1>2. Wires'
  BY <1>1, TakenIsMade DEF IInv, Wires, Made
<1>3. Tables'
  BY <1>1, TablesUnchanged DEF IInv
<1> QED
  BY <1>2, <1>3 DEF IInv

LEMMA RefuseKeeps ==
    ASSUME IInv, NEW n \in Node, Refuse(n)
    PROVE  IInv'
<1>1. PICK packet : New(n, packet)
  BY DEF Refuse
<1>2. Wires'
  BY <1>1, NewIsMade DEF Refuse, IInv, Wires, Made
<1>3. Tables'
  BY TablesUnchanged DEF Refuse, IInv
<1> QED
  BY <1>2, <1>3 DEF IInv

LEMMA LearnOnlyKeeps ==
    ASSUME IInv, NEW n \in Node, LearnOnly(n)
    PROVE  IInv'
<1>1. PICK packet : Learns(n, packet)
  BY DEF LearnOnly
<1>2. Wires'
  <2>1. New(n, packet)
    BY <1>1 DEF Learns
  <2>2. inbox' = Taken(n) /\ UNCHANGED <<boots, made>>
    BY DEF LearnOnly
  <2> QED
    BY <2>1, <2>2, NewIsMade DEF IInv, Wires
<1>3. Tables'
  BY <1>1, LearnsKnown, TablesGrow DEF LearnOnly
<1> QED
  BY <1>2, <1>3 DEF IInv

LEMMA PassedIsMade ==
    ASSUME NEW packet \in Packet, packet.hops < HopMax
    PROVE  /\ Passed(packet) \in Packet
           /\ Passed(packet).of = packet.of /\ Passed(packet).k = packet.k
<1>1. packet.hops + 1 \in 0 .. HopMax
  BY DiscoveryAssumption DEF Packet
<1> QED
  BY <1>1 DEF Passed, Packet

LEMMA PassOnKeeps ==
    ASSUME IInv, NEW n \in Node, PassOn(n)
    PROVE  IInv'
<1>1. PICK packet : /\ PassesOn(n, packet)
                    /\ inbox' = Reach(Taken(n), n, <<Passed(packet)>>)
  BY DEF PassOn
<1>2. Learns(n, packet) /\ New(n, packet) /\ packet.hops < HopMax
  BY <1>1 DEF PassesOn, Learns
<1>3. /\ packet \in Packet /\ packet.k \in 1 .. made[packet.of]
      /\ Taken(n) \in [Node -> Seq(Packet)] /\ Made(Taken(n), made)
  BY <1>2, NewIsMade DEF IInv
<1> DEFINE sent == <<Passed(packet)>>
<1>4. sent \in Seq(Packet) /\ \A j \in DOMAIN sent : sent[j].k \in 1 .. made[sent[j].of]
  BY <1>2, <1>3, PassedIsMade
<1>5. made \in [Node -> Nat] /\ made' = made /\ \A m \in Node : made[m] <= made[m]
  BY DEF PassOn, IInv, Wires
<1> HIDE DEF sent
<1>6. inbox' \in [Node -> Seq(Packet)] /\ Made(inbox', made)
  BY <1>1, <1>3, <1>4, <1>5, SentIsMade DEF sent
<1>7. Wires'
  BY <1>2, <1>5, <1>6, NewIsMade DEF PassOn, IInv, Wires
<1>8. Tables'
  BY <1>2, LearnsKnown, TablesGrow DEF PassOn
<1> QED
  BY <1>7, <1>8 DEF IInv

LEMMA AnswerKeeps ==
    ASSUME IInv, NEW n \in Node, Answer(n)
    PROVE  IInv'
<1> DEFINE sent(packet) == <<Passed(packet), Own(n)>>
           alone(packet) == <<Passed(packet)>>
<1>1. PICK packet :
        /\ PassesOn(n, packet)
        /\ replied' = [replied EXCEPT ![n] = ReplyRemembered(n, packet.of)]
        /\ answered' = [answered EXCEPT ![n] = @ \cup {packet.of}]
        /\ \/ inbox' = Reach(Taken(n), n, sent(packet))
           \/ inbox' = Reach(Taken(n), n, alone(packet))
  BY DEF Answer
<1>2. Learns(n, packet) /\ New(n, packet) /\ packet.hops < HopMax
  BY <1>1 DEF PassesOn, Learns
<1>3. /\ packet \in Packet /\ packet.k \in 1 .. made[packet.of]
      /\ Taken(n) \in [Node -> Seq(Packet)] /\ Made(Taken(n), made)
  BY <1>2, NewIsMade DEF IInv
<1>4. packet.of \in Node
  BY <1>3 DEF Packet
<1>5. made' = [made EXCEPT ![n] = @ + 1] /\ made' \in [Node -> Nat] /\ made \in [Node -> Nat]
  BY DEF Answer, IInv, Wires
<1>6. \A m \in Node : made[m] <= made'[m]
  BY <1>5
<1>7. /\ Passed(packet) \in Packet /\ Passed(packet).k \in 1 .. made'[Passed(packet).of]
      /\ Own(n) \in Packet /\ Own(n).k \in 1 .. made'[Own(n).of]
  BY <1>2, <1>3, <1>4, <1>5, PassedIsMade, OwnIsMade DEF IInv
<1>8. sent(packet) \in Seq(Packet) /\ \A j \in DOMAIN sent(packet) :
        sent(packet)[j].k \in 1 .. made'[sent(packet)[j].of]
  BY <1>7
<1>9. alone(packet) \in Seq(Packet) /\ \A j \in DOMAIN alone(packet) :
        alone(packet)[j].k \in 1 .. made'[alone(packet)[j].of]
  BY <1>7
<1> HIDE DEF sent, alone
<1>10. inbox' \in [Node -> Seq(Packet)] /\ Made(inbox', made')
  <2>1. CASE inbox' = Reach(Taken(n), n, sent(packet))
    BY <1>3, <1>5, <1>6, <1>8, <2>1, SentIsMade
  <2>2. CASE inbox' = Reach(Taken(n), n, alone(packet))
    BY <1>3, <1>5, <1>6, <1>9, <2>2, SentIsMade
  <2> QED
    BY <1>1, <2>1, <2>2
<1>11. Wires'
  BY <1>2, <1>5, <1>10, NewIsMade DEF Answer, IInv, Wires
<1>12. /\ known' \in [Node -> SUBSET Device] /\ packet.of \in known'[n]
       /\ \A b \in Node : /\ known[b] \subseteq known'[b]
                          /\ IsFiniteSet(known'[b]) /\ Cardinality(known'[b]) <= KnownMax
  BY <1>2, LearnsKnown
<1>13. Answers(replied'[n], known'[n], answered'[n])
  <2>1. replied'[n] = ReplyRemembered(n, packet.of) /\ answered'[n] = answered[n] \cup {packet.of}
    BY <1>1 DEF IInv, Tables
  <2>2. Answers(replied[n], known[n], answered[n])
    BY DEF IInv, Tables
  <2>3. /\ known[n] \subseteq known'[n] /\ packet.of \in known'[n]
        /\ IsFiniteSet(known'[n]) /\ Cardinality(known'[n]) <= KnownMax
    BY <1>12
  <2>4. Answers(ReplyRemembered(n, packet.of), known'[n], answered[n] \cup {packet.of})
    BY <2>2, <2>3, RememberedIsAnswers
  <2> QED
    BY <2>1, <2>4
<1>14. ASSUME NEW b \in Node, b # n PROVE Answers(replied'[b], known'[b], answered'[b])
  <2>1. replied'[b] = replied[b] /\ answered'[b] = answered[b]
    BY <1>1, <1>14 DEF IInv, Tables
  <2>2. Answers(replied[b], known[b], answered[b])
    BY DEF IInv, Tables
  <2> QED
    BY <1>12, <2>1, <2>2, AnswersGrow
<1>15. answered' \in [Node -> SUBSET Node] /\ DOMAIN replied' = Node
  BY <1>1, <1>4 DEF IInv, Tables
<1>16. Tables'
  BY <1>12, <1>13, <1>14, <1>15 DEF Tables
<1> QED
  BY <1>11, <1>16 DEF IInv

LEMMA ExpireKeeps ==
    ASSUME IInv, NEW n \in Node, NEW m, Expire(n, m)
    PROVE  IInv'
<1> DEFINE entries == replied[n]
           D == 1 .. Len(entries)
           K == known[n]
           new == [i \in D |-> IF entries[i].to = m THEN [entries[i] EXCEPT !.lately = FALSE]
                               ELSE entries[i]]
<1>1. Answers(entries, K, answered[n])
  BY DEF IInv, Tables
<1>2. Len(entries) \in Nat /\ DOMAIN entries = D /\ \A i \in D : entries[i] \in Entry(K)
  BY <1>1, LenProperties, ElementOfSeq DEF Answers
<1>3. new \in [D -> Entry(K)] /\ \A i \in D : /\ new[i].to = entries[i].to
                                              /\ entries[i].to # m => new[i] = entries[i]
  BY <1>2 DEF Entry
<1>4. new \in Seq(Entry(K)) /\ DOMAIN new = D
  BY <1>2, <1>3, FunIsSeq
<1>5. Unique(new)
  BY <1>1, <1>2, <1>3, <1>4 DEF Unique, Answers
<1>6. replied' = [replied EXCEPT ![n] = new] /\ answered' = [answered EXCEPT ![n] = @ \ {m}]
  BY <1>2 DEF Expire
<1> HIDE DEF new
<1>7. Answers(new, K, answered[n] \ {m})
  BY <1>1, <1>2, <1>3, <1>4, <1>5 DEF Answers
<1>8. known' = known /\ answered' \in [Node -> SUBSET Node] /\ DOMAIN replied' = Node
  BY <1>6 DEF Expire, IInv, Tables
<1>9. ASSUME NEW b \in Node PROVE Answers(replied'[b], known'[b], answered'[b])
  BY <1>6, <1>7, <1>8 DEF IInv, Tables
<1>10. Tables'
  BY <1>8, <1>9 DEF IInv, Tables
<1>11. Wires'
  BY DEF Expire, IInv, Wires, Made
<1> QED
  BY <1>10, <1>11 DEF IInv

LEMMA RestartKeeps ==
    ASSUME IInv, NEW n \in Node, Restart(n)
    PROVE  IInv'
<1>1. IsFiniteSet({}) /\ Cardinality({}) = 0
  BY FS_EmptySet
<1>2. Answers(<< >>, {}, {})
  BY EmptySeq DEF Answers, Unique
<1>3. ASSUME NEW b \in Node
      PROVE  /\ IsFiniteSet(known'[b]) /\ Cardinality(known'[b]) <= KnownMax
             /\ Answers(replied'[b], known'[b], answered'[b])
  BY <1>1, <1>2, DiscoveryAssumption DEF Restart, IInv, Tables
<1>4. known' \in [Node -> SUBSET Device] /\ answered' \in [Node -> SUBSET Node] /\ DOMAIN replied' = Node
  BY DEF Restart, IInv, Tables
<1>5. Tables'
  BY <1>3, <1>4 DEF Tables
<1>6. << >> \in Seq(Node \X Nat) /\ Len(<< >>) = 0
  BY EmptySeq
<1>7. ring' \in [Node -> Seq(Node \X Nat)] /\ \A b \in Node : Len(ring'[b]) <= RingSize
  BY <1>6, DiscoveryAssumption DEF Restart, IInv, Wires
<1>8. boots' \in [Node -> 0 .. BootCount]
  BY DiscoveryAssumption DEF Restart, IInv, Wires
<1>9. Wires'
  BY <1>7, <1>8 DEF Restart, IInv, Wires, Made
<1> QED
  BY <1>5, <1>9 DEF IInv

LEMMA NextKeeps ==
    ASSUME IInv, [Next]_vars
    PROVE  IInv'
<1>1. CASE Next
  <2>1. PICK n \in Node :
          \/ BootAnnounce(n)
          \/ Duplicate(n) \/ Refuse(n) \/ LearnOnly(n) \/ PassOn(n) \/ Answer(n)
          \/ Lose(n) \/ Restart(n)
          \/ \E m \in answered[n] : Expire(n, m)
    BY <1>1 DEF Next
  <2> QED
    BY <2>1, BootKeeps, DropKeeps, RefuseKeeps, LearnOnlyKeeps, PassOnKeeps, AnswerKeeps,
       ExpireKeeps, RestartKeeps
<1>2. CASE UNCHANGED vars
  BY <1>2, TablesUnchanged DEF vars, IInv, Wires, Made
<1> QED
  BY <1>1, <1>2

THEOREM Invariance == Spec => []IInv
<1>1. Init => IInv
  BY InitKeeps
<1>2. IInv /\ [Next]_vars => IInv'
  BY NextKeeps
<1> QED
  BY <1>1, <1>2, PTL DEF Spec

-----------------------------------------------------------------------------
(* What follows from it.                                                     *)

(* The tables of a device (rns_announce.c, app_main.c) stay within their     *)
(* sizes and without doubles, and every packet in the air is one somebody    *)
(* made.                                                                     *)
THEOREM TypeCorrect == Spec => []TypeOK
<1>1. ASSUME IInv, NEW n \in Node
      PROVE  /\ Len(replied[n]) <= ReplyMax
             /\ \A i, j \in DOMAIN replied[n] : replied[n][i].to = replied[n][j].to => i = j
  <2>1. /\ replied[n] \in Seq(Entry(known[n])) /\ Unique(replied[n])
        /\ IsFiniteSet(known[n]) /\ Cardinality(known[n]) <= KnownMax
    BY <1>1 DEF IInv, Tables, Answers
  <2>2. Len(replied[n]) <= Cardinality(known[n])
    BY <2>1, UniqueIsShort
  <2>3. Len(replied[n]) \in Nat /\ Cardinality(known[n]) \in Nat
    BY <2>1, LenProperties, FS_CardinalityType
  <2> QED
    BY <2>1, <2>2, <2>3, DiscoveryAssumption DEF Unique
<1>2. ASSUME IInv, NEW n \in Node, NEW packet \in ToSet(inbox[n])
      PROVE  IsAnnounce(packet)
  <2>1. inbox[n] \in Seq(Packet)
    BY <1>2 DEF IInv, Wires
  <2>2. PICK i \in DOMAIN inbox[n] : inbox[n][i] = packet
    BY DEF ToSet
  <2>3. packet \in Packet
    BY <2>1, <2>2, LenProperties, ElementOfSeq
  <2>4. packet.k \in 1 .. made[packet.of]
    BY <1>2, <2>2 DEF IInv, Wires, Made
  <2> QED
    BY <2>3, <2>4 DEF IsAnnounce, Packet
<1>3. IInv => TypeOK
  BY <1>1, <1>2 DEF TypeOK, IInv, Wires, Tables
<1> QED
  BY <1>3, Invariance, PTL

(* Whoever was answered within the cooldown is in the table of answers as    *)
(* such (meshpay_announce_reply_remember, app_main.c), though entries are    *)
(* overwritten: no two devices answer each other's answers for ever.         *)
THEOREM NobodyForgotten == Spec => []CooldownKept
<1>1. IInv => CooldownKept
  BY DEF IInv, Tables, Answers, CooldownKept, ReplySeen, ToSet
<1> QED
  BY <1>1, Invariance, PTL
-----------------------------------------------------------------------------
(* Neighbours meet: the invariant.                                           *)

(* A packet of m is in the queue.                                            *)
Comes(q, m) == \E i \in DOMAIN q : q[i].of = m

(* An announce of n is in the queue, straight from n and before any copy.    *)
Asks(q, seen, n) ==
    \E i \in DOMAIN q :
        /\ q[i].of = n /\ q[i].hops = 0
        /\ Hash(q[i]) \notin ToSet(seen)
        /\ \A j \in DOMAIN q : j < i => Hash(q[j]) # Hash(q[i])

(* An announce of m comes to n, or will; or one of n will make m answer.     *)
Meets(n, m) ==
    \/ Excused(n, m)
    \/ Comes(inbox[n], m)
    \/ boots[m] > 0
    \/ n \notin answered[m] /\ (boots[n] > 0 \/ Asks(inbox[m], ring[m], n))

(* What is in the ring was made, and its author learned if there was room.   *)
Rings ==
    \A a \in Node : \A h \in ToSet(ring[a]) :
        /\ h[2] <= made[h[1]]
        /\ h[1] \in known[a] \/ Full(a)

(* An answer is recent because it was given.                                 *)
Recent ==
    \A a \in Node : \A i \in DOMAIN replied[a] :
        replied[a][i].lately => replied[a][i].to \in answered[a]

Near ==
    /\ faults \in Nat
    /\ faults = 0 => \A n \in Node : \A m \in Neighbours[n] \ {n} : Meets(n, m)

MInv == IInv /\ Rings /\ Recent /\ Near

(* Whoever hears is heard.                                                   *)
Mutual == \A n \in Node : \A m \in Neighbours[n] : n \in Neighbours[m]

(* Neighbours that have both been on for a while know each other.            *)
Acquainted ==
    \A n \in Node : \A m \in Neighbours[n] \ {n} :
        \/ KnownBefore[n] = << >> \/ KnownBefore[m] = << >>
        \/ m \in ToSet(KnownBefore[n]) \/ Len(KnownBefore[n]) = KnownMax

-----------------------------------------------------------------------------
(* Queues.                                                                   *)

LEMMA InToSet ==
    ASSUME NEW s, NEW e
    PROVE  e \in ToSet(s) <=> \E i \in DOMAIN s : s[i] = e
BY DEF ToSet

LEMMA RememberedHolds ==
    ASSUME NEW S, NEW seen \in Seq(S), NEW hash \in S
    PROVE  ToSet(Remembered(seen, hash)) \subseteq ToSet(seen) \cup {hash}
<1> DEFINE longer == Append(seen, hash)
<1>1. /\ longer \in Seq(S) /\ Len(longer) = Len(seen) + 1 /\ Len(seen) \in Nat
      /\ longer[Len(seen) + 1] = hash
      /\ \A i \in 1 .. Len(seen) : longer[i] = seen[i]
  BY AppendProperties, LenProperties
<1>2. longer # << >>
  BY <1>1, EmptySeq
<1>3. /\ Tail(longer) \in Seq(S) /\ Len(Tail(longer)) = Len(seen)
      /\ \A i \in 1 .. Len(seen) : Tail(longer)[i] = longer[i + 1]
  <2>1. /\ Tail(longer) \in Seq(S) /\ Len(Tail(longer)) = Len(longer) - 1
        /\ \A i \in 1 .. Len(Tail(longer)) : Tail(longer)[i] = longer[i + 1]
    BY <1>1, <1>2, HeadTailProperties
  <2> HIDE DEF longer
  <2> QED
    BY <1>1, <2>1
<1>4. /\ DOMAIN seen = 1 .. Len(seen) /\ DOMAIN longer = 1 .. Len(seen) + 1
      /\ DOMAIN Tail(longer) = 1 .. Len(seen)
  BY <1>1, <1>3, LenProperties
<1>5. Remembered(seen, hash) = longer \/ Remembered(seen, hash) = Tail(longer)
  BY DEF Remembered
<1> HIDE DEF longer
<1>6. \A i \in DOMAIN longer : longer[i] = hash \/ \E j \in DOMAIN seen : longer[i] = seen[j]
  <2> SUFFICES ASSUME NEW i \in DOMAIN longer
               PROVE  longer[i] = hash \/ \E j \in DOMAIN seen : longer[i] = seen[j]
    OBVIOUS
  <2>1. i \in 1 .. Len(seen) \/ i = Len(seen) + 1
    BY <1>1, <1>4
  <2> QED
    BY <1>1, <1>4, <2>1
<1>7. \A i \in DOMAIN Tail(longer) : i + 1 \in DOMAIN longer /\ Tail(longer)[i] = longer[i + 1]
  BY <1>1, <1>3, <1>4
<1>8. ASSUME NEW e \in ToSet(Remembered(seen, hash))
      PROVE  e = hash \/ e \in ToSet(seen)
  <2> DEFINE new == Remembered(seen, hash)
  <2>1. PICK i \in DOMAIN new : new[i] = e
    BY <1>8, InToSet
  <2>2. \E k \in DOMAIN longer : longer[k] = e
    BY <1>5, <1>7, <2>1
  <2>3. e = hash \/ \E j \in DOMAIN seen : seen[j] = e
    BY <1>6, <2>2
  <2> QED
    BY <2>3, InToSet
<1> QED
  BY <1>8

(* The queue q goes on in r.                                                 *)
Extends(q, r) ==
    \A i \in DOMAIN q : /\ i \in DOMAIN r /\ r[i] = q[i]
                        /\ \A j \in DOMAIN r : j < i => j \in DOMAIN q

LEMMA ExtendsComes ==
    ASSUME NEW q, NEW r, Extends(q, r), NEW m, Comes(q, m)
    PROVE  Comes(r, m)
BY DEF Extends, Comes

LEMMA ExtendsAsks ==
    ASSUME NEW q, NEW r, Extends(q, r), NEW seen, NEW n, Asks(q, seen, n)
    PROVE  Asks(r, seen, n)
<1>1. PICK i \in DOMAIN q :
        /\ q[i].of = n /\ q[i].hops = 0
        /\ Hash(q[i]) \notin ToSet(seen)
        /\ \A j \in DOMAIN q : j < i => Hash(q[j]) # Hash(q[i])
  BY DEF Asks
<1>2. /\ i \in DOMAIN r /\ r[i] = q[i]
      /\ \A j \in DOMAIN r : j < i => j \in DOMAIN q /\ r[j] = q[j]
  BY <1>1 DEF Extends
<1> QED
  BY <1>1, <1>2 DEF Asks

LEMMA ReachExtends ==
    ASSUME NEW queues \in [Node -> Seq(Packet)], NEW n \in Node, NEW packets \in Seq(Packet),
           NEW b \in Node
    PROVE  Extends(queues[b], Reach(queues, n, packets)[b])
<1> DEFINE q == queues[b]
           both == q \o packets
<1>1. q \in Seq(Packet)
  OBVIOUS
<1>2. /\ both \in Seq(Packet) /\ Len(both) = Len(q) + Len(packets)
      /\ \A i \in 1 .. Len(q) + Len(packets) :
           both[i] = IF i <= Len(q) THEN q[i] ELSE packets[i - Len(q)]
  BY <1>1, ConcatProperties
<1>3. /\ Len(q) \in Nat /\ Len(packets) \in Nat
      /\ DOMAIN q = 1 .. Len(q) /\ DOMAIN both = 1 .. Len(q) + Len(packets)
  BY <1>1, <1>2, LenProperties
<1>4. Reach(queues, n, packets)[b] = IF b \in Neighbours[n] THEN both ELSE q
  BY DEF Reach
<1> HIDE DEF both, q
<1>5. Extends(q, both) /\ Extends(q, q)
  BY <1>2, <1>3 DEF Extends
<1> QED
  BY <1>4, <1>5 DEF q

(* What is sent to a neighbour is behind what its queue holds.               *)
LEMMA Behind ==
    ASSUME NEW q \in Seq(Packet), NEW packets \in Seq(Packet), NEW j \in DOMAIN packets,
           NEW r, r = q \o packets
    PROVE  /\ Len(q) + j \in DOMAIN r /\ r[Len(q) + j] = packets[j]
           /\ \A i \in DOMAIN r : i < Len(q) + 1 => i \in DOMAIN q /\ r[i] = q[i]
<1>1. /\ r \in Seq(Packet) /\ Len(r) = Len(q) + Len(packets)
      /\ \A i \in 1 .. Len(q) + Len(packets) :
           r[i] = IF i <= Len(q) THEN q[i] ELSE packets[i - Len(q)]
  BY ConcatProperties
<1>2. /\ Len(q) \in Nat /\ Len(packets) \in Nat
      /\ DOMAIN q = 1 .. Len(q) /\ DOMAIN packets = 1 .. Len(packets)
      /\ DOMAIN r = 1 .. Len(q) + Len(packets)
  BY <1>1, LenProperties
<1> QED
  BY <1>1, <1>2

(* The next packet is taken.                                                 *)
LEMMA TakenQueues ==
    ASSUME Wires, NEW a \in Node, inbox[a] # << >>
    PROVE  /\ \A b \in Node : b # a => Taken(a)[b] = inbox[b]
           /\ \A m : Comes(inbox[a], m) => Head(inbox[a]).of = m \/ Comes(Taken(a)[a], m)
           /\ \A n, seen, longer :
                /\ Asks(inbox[a], seen, n)
                /\ ToSet(longer) \subseteq ToSet(seen) \cup {Hash(Head(inbox[a]))}
                => \/ /\ Head(inbox[a]).of = n /\ Head(inbox[a]).hops = 0
                      /\ Hash(Head(inbox[a])) \notin ToSet(seen)
                   \/ Asks(Taken(a)[a], longer, n)
<1> DEFINE q == inbox[a]
           t == Tail(q)
<1>1. q \in Seq(Packet) /\ inbox \in [Node -> Seq(Packet)]
  BY DEF Wires
<1>2. /\ t \in Seq(Packet) /\ Len(t) = Len(q) - 1
      /\ \A i \in 1 .. Len(t) : t[i] = q[i + 1]
  BY <1>1, HeadTailProperties
<1>3. Len(q) \in Nat \ {0} /\ DOMAIN q = 1 .. Len(q) /\ DOMAIN t = 1 .. Len(q) - 1
  BY <1>1, <1>2, LenProperties, EmptySeq
<1>4. Head(q) = q[1] /\ 1 \in DOMAIN q
  BY <1>3
<1>5. Taken(a)[a] = t /\ \A b \in Node : b # a => Taken(a)[b] = inbox[b]
  BY <1>1 DEF Taken
<1> HIDE DEF t, q
<1>6. \A i \in DOMAIN q : i = 1 \/ (i - 1 \in DOMAIN t /\ t[i - 1] = q[i])
  BY <1>2, <1>3
<1>7. \A j \in DOMAIN t : j + 1 \in DOMAIN q /\ t[j] = q[j + 1]
  BY <1>2, <1>3
<1>8. ASSUME NEW m, Comes(q, m) PROVE q[1].of = m \/ Comes(t, m)
  BY <1>6, <1>8 DEF Comes
<1>9. ASSUME NEW n, NEW seen, NEW longer, Asks(q, seen, n),
             ToSet(longer) \subseteq ToSet(seen) \cup {Hash(q[1])}
      PROVE  \/ q[1].of = n /\ q[1].hops = 0 /\ Hash(q[1]) \notin ToSet(seen)
             \/ Asks(t, longer, n)
  <2>1. PICK i \in DOMAIN q :
          /\ q[i].of = n /\ q[i].hops = 0
          /\ Hash(q[i]) \notin ToSet(seen)
          /\ \A j \in DOMAIN q : j < i => Hash(q[j]) # Hash(q[i])
    BY <1>9 DEF Asks
  <2>2. CASE i = 1
    BY <2>1, <2>2
  <2>3. CASE i # 1
    <3>1. i - 1 \in DOMAIN t /\ t[i - 1] = q[i] /\ 1 < i
      BY <1>3, <1>6, <2>3
    <3>2. Hash(q[1]) # Hash(q[i])
      BY <1>4, <2>1, <3>1
    <3>3. Hash(q[i]) \notin ToSet(longer)
      BY <1>9, <2>1, <3>2
    <3>4. ASSUME NEW j \in DOMAIN t, j < i - 1 PROVE Hash(t[j]) # Hash(q[i])
      <4>1. j + 1 \in DOMAIN q /\ t[j] = q[j + 1] /\ j + 1 < i
        BY <1>3, <1>7, <3>4
      <4> QED
        BY <2>1, <4>1
    <3> QED
      BY <2>1, <3>1, <3>3, <3>4 DEF Asks
  <2> QED
    BY <2>2, <2>3
<1> QED
  BY <1>4, <1>5, <1>8, <1>9 DEF q

-----------------------------------------------------------------------------
(* Tables that grow.                                                         *)

LEMMA FullStays ==
    ASSUME IInv, IInv', NEW b \in Node, known[b] \subseteq known'[b], Full(b)
    PROVE  Full(b)' /\ known'[b] = known[b]
<1>1. /\ IsFiniteSet(known'[b]) /\ Cardinality(known'[b]) <= KnownMax
      /\ IsFiniteSet(known[b]) /\ Cardinality(known[b]) = KnownMax
  BY DEF IInv, Tables, Full
<1>2. /\ Cardinality(known'[b]) \in Nat
      /\ Cardinality(known[b]) <= Cardinality(known'[b])
      /\ Cardinality(known[b]) = Cardinality(known'[b]) => known[b] = known'[b]
  BY <1>1, FS_Subset, FS_CardinalityType
<1>3. Cardinality(known'[b]) = KnownMax
  BY <1>1, <1>2, DiscoveryAssumption
<1> QED
  BY <1>1, <1>2, <1>3 DEF Full

LEMMA NoRoomIsFull ==
    ASSUME IInv, NEW b \in Node, NEW m, ~HasRoom(b, m)
    PROVE  Full(b) /\ m \notin known[b]
<1>1. IsFiniteSet(known[b]) /\ Cardinality(known[b]) <= KnownMax /\ Cardinality(known[b]) \in Nat
  BY FS_CardinalityType DEF IInv, Tables
<1> QED
  BY <1>1, DiscoveryAssumption DEF HasRoom, InTable, Full

(* Who is excused stays so while the tables grow and nobody is heard.        *)
LEMMA ExcusedStays ==
    ASSUME IInv, IInv', NEW n \in Node, NEW m \in Node,
           known[n] \subseteq known'[n], known[m] \subseteq known'[m],
           <<m, n>> \in unheard => <<m, n>> \in unheard',
           Excused(n, m)
    PROVE  Excused(n, m)'
<1>1. Full(n) => Full(n)'
  BY FullStays
<1>2. Full(m) /\ n \notin known[m] => Full(m)' /\ n \notin known'[m]
  BY FullStays
<1> QED
  BY <1>1, <1>2 DEF Excused

(* A wallet that has no recent answer for m has none in its table.           *)
LEMMA NotSeen ==
    ASSUME Recent, NEW a \in Node, NEW n, n \notin answered[a]
    PROVE  ~ReplySeen(a, n)
BY DEF Recent, ReplySeen, ToSet
-----------------------------------------------------------------------------
(* The rings and the tables of answers, action by action.                    *)

LEMMA RingGrows ==
    ASSUME IInv, IInv', Rings, NEW a \in Node, NEW packet, New(a, packet),
           packet.of \in known'[a] \/ Full(a),
           \A b \in Node : known[b] \subseteq known'[b] /\ made[b] <= made'[b]
    PROVE  Rings'
<1>1. packet \in Packet /\ packet.k \in 1 .. made[packet.of] /\ packet.of \in Node
  BY NewIsMade DEF IInv, Packet
<1>2. Hash(packet) \in Node \X Nat /\ Hash(packet)[1] = packet.of /\ Hash(packet)[2] = packet.k
  BY <1>1 DEF Hash, Packet
<1>3. ring \in [Node -> Seq(Node \X Nat)] /\ ring' = [ring EXCEPT ![a] = Remembered(@, Hash(packet))]
  BY DEF IInv, Wires, New
<1>4. ToSet(ring'[a]) \subseteq ToSet(ring[a]) \cup {Hash(packet)}
  BY <1>2, <1>3, RememberedHolds
<1>5. ASSUME NEW b \in Node, NEW h \in ToSet(ring'[b])
      PROVE  h[2] <= made'[h[1]] /\ (h[1] \in known'[b] \/ Full(b)')
  <2>1. Full(b) => Full(b)'
    BY <1>5, FullStays
  <2>2. made \in [Node -> Nat] /\ made' \in [Node -> Nat]
    BY DEF IInv, Wires
  <2>3. CASE h \in ToSet(ring[b])
    <3>1. h \in Node \X Nat
      <4>1. ring[b] \in Seq(Node \X Nat)
        BY <1>3
      <4> QED
        BY <4>1, <2>3, ToSetOfSeq
    <3>2. h[1] \in Node /\ h[2] \in Nat
      BY <3>1
    <3>3. h[2] <= made[h[1]] /\ (h[1] \in known[b] \/ Full(b))
      BY <2>3 DEF Rings
    <3> QED
      BY <2>1, <2>2, <3>2, <3>3
  <2>4. CASE h \notin ToSet(ring[b])
    <3>1. b = a /\ h = Hash(packet)
      BY <1>3, <1>4, <1>5, <2>4
    <3> QED
      BY <1>1, <1>2, <2>1, <2>2, <3>1
  <2> QED
    BY <2>3, <2>4
<1> QED
  BY <1>5 DEF Rings

LEMMA RingStays ==
    ASSUME IInv, IInv', Rings, UNCHANGED <<ring, known>>,
           \A b \in Node : made[b] <= made'[b]
    PROVE  Rings'
<1>1. ASSUME NEW b \in Node, NEW h \in ToSet(ring[b])
      PROVE  h[2] <= made'[h[1]] /\ (h[1] \in known'[b] \/ Full(b)')
  <2>1. ring[b] \in Seq(Node \X Nat) /\ made \in [Node -> Nat] /\ made' \in [Node -> Nat]
    BY DEF IInv, Wires
  <2>2. h \in Node \X Nat
    BY <2>1, ToSetOfSeq
  <2>3. h[1] \in Node /\ h[2] \in Nat
    BY <2>2
  <2>4. h[2] <= made[h[1]] /\ (h[1] \in known[b] \/ Full(b))
    BY DEF Rings
  <2> QED
    BY <2>1, <2>3, <2>4 DEF Full
<1> QED
  BY <1>1 DEF Rings

(* Time and restarts only take from the tables of answers what is recent.    *)
LEMMA AnswerIsRecent ==
    ASSUME IInv, Recent, NEW a \in Node, NEW m,
           replied' = [replied EXCEPT ![a] = ReplyRemembered(a, m)],
           answered' = [answered EXCEPT ![a] = @ \cup {m}],
           \/ \E i \in DOMAIN replied[a] : replied[a][i].to = m
           \/ Len(replied[a]) < ReplyMax
    PROVE  Recent'
<1> DEFINE entries == replied[a]
           entry == [to |-> m, lately |-> TRUE]
           new == ReplyRemembered(a, m)
<1>1. entries \in Seq(Entry(known[a])) /\ DOMAIN replied = Node /\ answered \in [Node -> SUBSET Node]
  BY DEF IInv, Tables, Answers
<1>2. Len(entries) \in Nat /\ DOMAIN entries = 1 .. Len(entries)
  BY <1>1, LenProperties
<1>3. \A i \in DOMAIN new : new[i] = entry \/ \E j \in DOMAIN entries : new[i] = entries[j]
  <2>1. CASE \E i \in DOMAIN entries : entries[i].to = m
    <3>1. new = [i \in DOMAIN entries |-> IF entries[i].to = m THEN entry ELSE entries[i]]
      BY <2>1 DEF ReplyRemembered
    <3> QED
      BY <3>1
  <2>2. CASE ~\E i \in DOMAIN entries : entries[i].to = m
    <3>1. new = Append(entries, entry)
      BY <2>2 DEF ReplyRemembered
    <3>2. entry \in Entry(known[a] \cup {m}) /\ Entry(known[a]) \subseteq Entry(known[a] \cup {m})
      BY DEF Entry
    <3>3. entries \in Seq(Entry(known[a] \cup {m}))
      BY <1>1, <3>2, SeqMonotonic
    <3>4. /\ Append(entries, entry) \in Seq(Entry(known[a] \cup {m}))
          /\ Len(Append(entries, entry)) = Len(entries) + 1
          /\ \A i \in 1 .. Len(entries) : Append(entries, entry)[i] = entries[i]
          /\ Append(entries, entry)[Len(entries) + 1] = entry
      BY <3>2, <3>3, AppendProperties
    <3>5. DOMAIN Append(entries, entry) = 1 .. Len(entries) + 1
      BY <3>4, LenProperties
    <3> HIDE DEF entry, entries, new
    <3> QED
      BY <1>2, <3>1, <3>4, <3>5
  <2> QED
    BY <2>1, <2>2
<1>4. \A i \in DOMAIN new : new[i].lately => new[i].to \in answered[a] \cup {m}
  <2> HIDE DEF new
  <2> QED
    BY <1>3 DEF Recent
<1>5. ASSUME NEW b \in Node, NEW i \in DOMAIN replied'[b], replied'[b][i].lately
      PROVE  replied'[b][i].to \in answered'[b]
  <2>1. CASE b = a
    <3>1. replied'[b] = new /\ answered'[b] = answered[a] \cup {m}
      BY <1>1, <2>1
    <3> HIDE DEF new
    <3> QED
      BY <1>4, <1>5, <3>1
  <2>2. CASE b # a
    <3>1. replied'[b] = replied[b] /\ answered'[b] = answered[b]
      BY <1>1, <2>2
    <3> QED
      BY <1>5, <3>1 DEF Recent
  <2> QED
    BY <2>1, <2>2
<1> QED
  BY <1>5 DEF Recent

LEMMA ExpireIsRecent ==
    ASSUME IInv, Recent, NEW a \in Node, NEW m, Expire(a, m)
    PROVE  Recent'
<1> DEFINE entries == replied[a]
           new == [i \in DOMAIN entries |-> IF entries[i].to = m
                                            THEN [entries[i] EXCEPT !.lately = FALSE]
                                            ELSE entries[i]]
<1>1. entries \in Seq(Entry(known[a])) /\ DOMAIN replied = Node /\ answered \in [Node -> SUBSET Node]
  BY DEF IInv, Tables, Answers
<1>2. \A i \in DOMAIN entries : entries[i] \in Entry(known[a])
  BY <1>1, LenProperties, ElementOfSeq
<1>3. replied' = [replied EXCEPT ![a] = new] /\ answered' = [answered EXCEPT ![a] = @ \ {m}]
  BY DEF Expire
<1>4. \A i \in DOMAIN new : new[i].lately => entries[i].to # m /\ new[i] = entries[i] /\ entries[i].lately
  BY <1>2 DEF Entry
<1>5. DOMAIN new = DOMAIN entries
  OBVIOUS
<1> HIDE DEF new
<1>6. \A i \in DOMAIN new : new[i].lately => new[i].to \in answered[a] \ {m}
  BY <1>4, <1>5 DEF Recent
<1>7. ASSUME NEW b \in Node, NEW i \in DOMAIN replied'[b], replied'[b][i].lately
      PROVE  replied'[b][i].to \in answered'[b]
  <2>1. CASE b = a
    BY <1>1, <1>3, <1>6, <1>7, <2>1
  <2>2. CASE b # a
    BY <1>1, <1>3, <1>7, <2>2 DEF Recent
  <2> QED
    BY <2>1, <2>2
<1> QED
  BY <1>7 DEF Recent

(* An answer finds its entry, or room for one.                               *)
LEMMA AnswerHasRoom ==
    ASSUME IInv, NEW a \in Node, NEW packet, Learns(a, packet)
    PROVE  \/ \E i \in DOMAIN replied[a] : replied[a][i].to = packet.of
           \/ Len(replied[a]) < ReplyMax
<1> SUFFICES ASSUME ~\E i \in DOMAIN replied[a] : replied[a][i].to = packet.of
             PROVE  Len(replied[a]) < ReplyMax
  OBVIOUS
<1> DEFINE K == known[a]
           L == K \cup {packet.of}
           entries == replied[a]
           entry == [to |-> packet.of, lately |-> TRUE]
           more == Append(entries, entry)
<1>1. entries \in Seq(Entry(K)) /\ Unique(entries) /\ IsFiniteSet(K)
  BY DEF IInv, Tables, Answers
<1>2. IsFiniteSet(L) /\ Cardinality(L) <= KnownMax
  <2>1. known'[a] = L
    BY DEF Learns, IInv, Tables
  <2> QED
    BY <2>1, LearnsKnown
<1>3. Entry(K) \subseteq Entry(L) /\ entry \in Entry(L) /\ entry.to = packet.of
  BY DEF Entry
<1>4. \A i \in DOMAIN entries : entries[i].to # packet.of
  OBVIOUS
<1> HIDE DEF L, K, entry, entries
<1>5. entries \in Seq(Entry(L))
  BY <1>1, <1>3, SeqMonotonic
<1>6. /\ more \in Seq(Entry(L)) /\ Len(more) = Len(entries) + 1
      /\ \A i \in 1 .. Len(entries) : more[i] = entries[i]
      /\ more[Len(entries) + 1] = entry
  BY <1>3, <1>5, AppendProperties
<1>7. /\ DOMAIN more = 1 .. Len(entries) + 1 /\ DOMAIN entries = 1 .. Len(entries)
      /\ Len(entries) \in Nat
  BY <1>1, <1>6, LenProperties
<1> HIDE DEF more
<1>8. Unique(more)
  BY <1>1, <1>3, <1>4, <1>6, <1>7 DEF Unique
<1>9. Len(entries) + 1 <= Cardinality(L) /\ Cardinality(L) \in Nat
  BY <1>2, <1>6, <1>8, UniqueIsShort, FS_CardinalityType
<1> USE DEF entries
<1> QED
  BY <1>2, <1>7, <1>9, DiscoveryAssumption
-----------------------------------------------------------------------------
(* Neighbours meet, action by action.                                        *)

(* A packet of somebody is taken: if it is the one that was to come, its     *)
(* author is learned; if it is the one that asks, it is answered.            *)
LEMMA HearingMeets ==
    ASSUME IInv, IInv', NEW a \in Node, NEW n \in Node, NEW m \in Node, Meets(n, m),
           inbox[a] # << >>,
           ToSet(ring'[a]) \subseteq ToSet(ring[a]) \cup {Hash(Head(inbox[a]))},
           \A b \in Node : b # a => ring'[b] = ring[b],
           \A b \in Node : Extends(Taken(a)[b], inbox'[b]),
           \A b \in Node : known[b] \subseteq known'[b],
           <<m, n>> \in unheard => <<m, n>> \in unheard',
           boots' = boots, answered'[m] = answered[m],
           n = a /\ Head(inbox[a]).of = m => Excused(n, m)',
           /\ m = a /\ n \notin answered[m]
           /\ Head(inbox[a]).of = n /\ Head(inbox[a]).hops = 0
           /\ Hash(Head(inbox[a])) \notin ToSet(ring[a])
           => Excused(n, m)'
    PROVE  Meets(n, m)'
<1>1. Wires
  BY DEF IInv
<1>2. CASE Excused(n, m)
  BY <1>2, ExcusedStays DEF Meets
<1>3. CASE Comes(inbox[n], m)
  <2>1. CASE n = a
    BY <1>1, <1>3, <2>1, TakenQueues, ExtendsComes DEF Meets
  <2>2. CASE n # a
    <3>1. Comes(Taken(a)[n], m)
      BY <1>1, <1>3, <2>2, TakenQueues
    <3> QED
      BY <3>1, ExtendsComes DEF Meets
  <2> QED
    BY <2>1, <2>2
<1>4. CASE boots[m] > 0
  BY <1>4 DEF Meets
<1>5. CASE n \notin answered[m] /\ boots[n] > 0
  BY <1>5 DEF Meets
<1>6. CASE n \notin answered[m] /\ Asks(inbox[m], ring[m], n)
  <2>1. CASE m = a
    <3>1. \/ /\ Head(inbox[a]).of = n /\ Head(inbox[a]).hops = 0
             /\ Hash(Head(inbox[a])) \notin ToSet(ring[a])
          \/ Asks(Taken(a)[a], ring'[a], n)
      BY <1>1, <1>6, <2>1, TakenQueues
    <3>2. CASE Asks(Taken(a)[a], ring'[a], n)
      <4>1. Asks(inbox'[m], ring'[m], n)
        BY <2>1, <3>2, ExtendsAsks
      <4> QED
        BY <1>6, <4>1 DEF Meets
    <3> QED
      BY <1>6, <2>1, <3>1, <3>2 DEF Meets
  <2>2. CASE m # a
    <3>1. Asks(Taken(a)[m], ring'[m], n)
      BY <1>1, <1>6, <2>2, TakenQueues
    <3>2. Asks(inbox'[m], ring'[m], n)
      BY <3>1, ExtendsAsks
    <3> QED
      BY <1>6, <3>2 DEF Meets
  <2> QED
    BY <2>1, <2>2
<1> QED
  BY <1>2, <1>3, <1>4, <1>5, <1>6 DEF Meets

LEMMA NewHearing ==
    ASSUME IInv, NEW a \in Node, NEW packet, New(a, packet)
    PROVE  /\ inbox[a] # << >> /\ packet = Head(inbox[a])
           /\ Hash(packet) \notin ToSet(ring[a])
           /\ ToSet(ring'[a]) \subseteq ToSet(ring[a]) \cup {Hash(packet)}
           /\ \A b \in Node : b # a => ring'[b] = ring[b]
<1>1. packet \in Packet
  BY NewIsMade DEF IInv
<1>2. Hash(packet) \in Node \X Nat
  BY <1>1 DEF Hash, Packet
<1>3. ring \in [Node -> Seq(Node \X Nat)]
  BY DEF IInv, Wires
<1> QED
  BY <1>2, <1>3, RememberedHolds DEF New, Seen

LEMMA SameExtends ==
    ASSUME NEW q \in Seq(Packet)
    PROVE  Extends(q, q)
BY LenProperties DEF Extends

LEMMA FaultCounts ==
    ASSUME Near, Fault
    PROVE  faults' # 0
BY DEF Near, Fault

(* The first announces of a start.                                           *)
LEMMA BootMeets ==
    ASSUME MInv, IInv', Mutual, NEW a \in Node, BootAnnounce(a), faults' = 0,
           NEW n \in Node, NEW m \in Neighbours[n] \ {n}
    PROVE  Meets(n, m)'
<1>1. faults = 0 /\ inbox' = Reach(inbox, a, <<Own(a)>>) /\ unheard' = NowHeard(a)
  BY FaultCounts DEF MInv, BootAnnounce
<1>2. m \in Node /\ n \in Neighbours[m] /\ Meets(n, m)
  BY <1>1, DiscoveryAssumption DEF MInv, Near, Mutual
<1>3. UNCHANGED <<ring, known, answered>> /\ boots' = [boots EXCEPT ![a] = @ - 1]
  BY DEF BootAnnounce
<1>4. /\ inbox \in [Node -> Seq(Packet)] /\ <<Own(a)>> \in Seq(Packet)
      /\ boots \in [Node -> 0 .. BootCount]
  <2>1. Own(a) \in Packet
    BY OwnIsMade DEF MInv, IInv
  <2> QED
    BY <2>1 DEF MInv, IInv, Wires
<1>5. Own(a).of = a /\ Own(a).k = made[a] + 1 /\ Own(a).hops = 0
  BY OwnIsMade DEF MInv, IInv, Own, Announce
<1> DEFINE sent == <<Own(a)>>
<1>6. 1 \in DOMAIN sent /\ sent[1] = Own(a) /\ sent \in Seq(Packet)
      /\ inbox' = Reach(inbox, a, sent)
  BY <1>1, <1>4
<1> HIDE DEF sent
<1>7. \A b \in Node : Extends(inbox[b], inbox'[b])
  BY <1>4, <1>6, ReachExtends
<1>8. \A b \in Neighbours[a] :
        LET at == Len(inbox[b]) + 1
        IN  /\ at \in DOMAIN inbox'[b] /\ inbox'[b][at] = Own(a)
            /\ \A i \in DOMAIN inbox'[b] :
                 i < at => i \in DOMAIN inbox[b] /\ inbox'[b][i] = inbox[b][i]
  <2> SUFFICES ASSUME NEW b \in Neighbours[a]
               PROVE  LET at == Len(inbox[b]) + 1
                      IN  /\ at \in DOMAIN inbox'[b] /\ inbox'[b][at] = Own(a)
                          /\ \A i \in DOMAIN inbox'[b] :
                               i < at => i \in DOMAIN inbox[b] /\ inbox'[b][i] = inbox[b][i]
    OBVIOUS
  <2>1. b \in Node
    BY DiscoveryAssumption
  <2>2. inbox'[b] = inbox[b] \o sent /\ inbox[b] \in Seq(Packet)
    BY <1>4, <1>6, <2>1 DEF Reach
  <2>3. /\ Len(inbox[b]) + 1 \in DOMAIN inbox'[b]
        /\ inbox'[b][Len(inbox[b]) + 1] = sent[1]
        /\ \A i \in DOMAIN inbox'[b] :
             i < Len(inbox[b]) + 1 => i \in DOMAIN inbox[b] /\ inbox'[b][i] = inbox[b][i]
    BY <1>6, <2>2, Behind
  <2> QED
    BY <1>6, <2>3
<1>9. CASE m = a
  <2>1. Comes(inbox'[n], m)
    BY <1>2, <1>5, <1>8, <1>9 DEF Comes
  <2> QED
    BY <2>1 DEF Meets
<1>10. CASE n = a /\ n \notin answered[m]
  <2>1. \A i \in DOMAIN inbox[m] : Hash(inbox[m][i]) # Hash(Own(a))
    <3> SUFFICES ASSUME NEW i \in DOMAIN inbox[m] PROVE Hash(inbox[m][i]) # Hash(Own(a))
      OBVIOUS
    <3>1. inbox[m][i].k \in 1 .. made[inbox[m][i].of]
      BY <1>2 DEF MInv, IInv, Wires, Made
    <3>2. made[a] \in Nat
      BY DEF MInv, IInv, Wires
    <3> QED
      BY <1>5, <3>1, <3>2 DEF Hash
  <2>2. Hash(Own(a)) \notin ToSet(ring[m])
    <3>1. \A h \in ToSet(ring[m]) : h[2] <= made[h[1]]
      BY <1>2 DEF MInv, Rings
    <3>2. made[a] \in Nat
      BY DEF MInv, IInv, Wires
    <3>3. Hash(Own(a))[1] = a /\ Hash(Own(a))[2] = made[a] + 1
      BY <1>5 DEF Hash
    <3> QED
      BY <3>1, <3>2, <3>3
  <2>3. m \in Neighbours[a]
    BY <1>10
  <2> DEFINE at == Len(inbox[m]) + 1
  <2>4. /\ at \in DOMAIN inbox'[m] /\ inbox'[m][at] = Own(a)
        /\ \A i \in DOMAIN inbox'[m] :
             i < at => i \in DOMAIN inbox[m] /\ inbox'[m][i] = inbox[m][i]
    BY <1>8, <2>3
  <2> HIDE DEF at
  <2>5. Asks(inbox'[m], ring'[m], n)
    BY <1>3, <1>5, <1>10, <2>1, <2>2, <2>4 DEF Asks
  <2> QED
    BY <1>3, <1>10, <2>5 DEF Meets
<1>11. CASE m # a /\ ~(n = a /\ n \notin answered[m])
  <2>1. <<m, n>> \in unheard => <<m, n>> \in unheard'
    BY <1>1, <1>11 DEF NowHeard
  <2>2. Excused(n, m) => Excused(n, m)'
    BY <1>2, <1>3, <2>1, ExcusedStays DEF MInv
  <2>3. Comes(inbox[n], m) => Comes(inbox'[n], m)
    BY <1>7, ExtendsComes
  <2>4. Asks(inbox[m], ring[m], n) => Asks(inbox'[m], ring'[m], n)
    BY <1>2, <1>3, <1>7, ExtendsAsks
  <2>5. boots'[m] = boots[m] /\ (n # a => boots'[n] = boots[n])
    BY <1>2, <1>3, <1>4, <1>11
  <2> QED
    BY <1>2, <1>3, <1>11, <2>2, <2>3, <2>4, <2>5 DEF Meets
<1> QED
  BY <1>9, <1>10, <1>11

(* A packet heard before: its author was learned, or there was no room.      *)
LEMMA DuplicateMeets ==
    ASSUME MInv, IInv', NEW a \in Node, Duplicate(a), faults' = 0,
           NEW n \in Node, NEW m \in Neighbours[n] \ {n}
    PROVE  Meets(n, m)'
<1>1. inbox[a] # << >> /\ inbox' = Taken(a) /\ Hash(Head(inbox[a])) \in ToSet(ring[a])
  BY DEF Duplicate, Seen
<1>2. UNCHANGED <<ring, known, boots, answered, unheard, faults>>
  BY DEF Duplicate
<1>3. m \in Node /\ Meets(n, m)
  BY <1>2, DiscoveryAssumption DEF MInv, Near
<1>4. n = a /\ Head(inbox[a]).of = m => Excused(n, m)'
  <2>1. Hash(Head(inbox[a]))[1] = Head(inbox[a]).of
    BY DEF Hash
  <2>2. Head(inbox[a]).of \in known[a] \/ Full(a)
    BY <1>1, <2>1 DEF MInv, Rings
  <2> QED
    BY <1>2, <2>2 DEF Excused, Full
<1>5. \A b \in Node : Taken(a)[b] \in Seq(Packet)
  BY <1>1, TakenIsMade DEF MInv, IInv
<1>6. \A b \in Node : Extends(Taken(a)[b], inbox'[b])
  BY <1>1, <1>5, SameExtends
<1> QED
  BY <1>1, <1>2, <1>3, <1>4, <1>6, HearingMeets DEF MInv

LEMMA RefuseMeets ==
    ASSUME MInv, IInv', NEW a \in Node, Refuse(a), faults' = 0,
           NEW n \in Node, NEW m \in Neighbours[n] \ {n}
    PROVE  Meets(n, m)'
<1>1. PICK packet : New(a, packet) /\ ~HasRoom(a, packet.of)
  BY DEF Refuse
<1>2. inbox' = Taken(a) /\ UNCHANGED <<known, boots, answered, unheard, faults>>
  BY DEF Refuse
<1>3. m \in Node /\ Meets(n, m)
  BY <1>2, DiscoveryAssumption DEF MInv, Near
<1>4. Full(a) /\ packet.of \notin known[a]
  BY <1>1, NoRoomIsFull DEF MInv
<1>5. /\ n = a => Excused(n, m)'
      /\ m = a /\ packet.of = n => Excused(n, m)'
  BY <1>2, <1>4 DEF Excused, Full
<1>6. \A b \in Node : Extends(Taken(a)[b], inbox'[b])
  BY <1>1, <1>2, NewIsMade, SameExtends DEF MInv, IInv
<1> QED
  BY <1>1, <1>2, <1>3, <1>5, <1>6, NewHearing, HearingMeets DEF MInv

(* What is learned, whether or not it is passed on or answered.              *)
LEMMA LearnOnlyMeets ==
    ASSUME MInv, IInv', NEW a \in Node, LearnOnly(a), faults' = 0,
           NEW n \in Node, NEW m \in Neighbours[n] \ {n}
    PROVE  Meets(n, m)'
<1>1. PICK packet :
        Learns(a, packet) /\ (packet.of = a \/ packet.hops = HopMax) /\ UNCHANGED faults
  BY FaultCounts DEF LearnOnly, MInv
<1>2. inbox' = Taken(a) /\ UNCHANGED <<boots, answered, unheard>>
  BY DEF LearnOnly
<1>3. m \in Node /\ Meets(n, m)
  BY <1>1, DiscoveryAssumption DEF MInv, Near
<1>4. New(a, packet)
  BY <1>1 DEF Learns
<1>5. /\ packet.of \in known'[a] /\ \A b \in Node : known[b] \subseteq known'[b]
  BY <1>1, LearnsKnown DEF MInv
<1>6. n = a /\ packet.of = m => Excused(n, m)'
  BY <1>5 DEF Excused
<1>7. ~(m = a /\ packet.of = n /\ packet.hops = 0)
  BY <1>1, DiscoveryAssumption
<1>8. \A b \in Node : Extends(Taken(a)[b], inbox'[b])
  BY <1>2, <1>4, NewIsMade, SameExtends DEF MInv, IInv
<1> QED
  BY <1>2, <1>3, <1>4, <1>5, <1>6, <1>7, <1>8, NewHearing, HearingMeets DEF MInv

LEMMA PassOnMeets ==
    ASSUME MInv, IInv', NEW a \in Node, PassOn(a), faults' = 0,
           NEW n \in Node, NEW m \in Neighbours[n] \ {n}
    PROVE  Meets(n, m)'
<1>1. PICK packet : /\ PassesOn(a, packet) /\ ReplySeen(a, packet.of)
                    /\ inbox' = Reach(Taken(a), a, <<Passed(packet)>>)
  BY DEF PassOn
<1>2. UNCHANGED <<boots, answered, unheard, faults>>
  BY DEF PassOn
<1>3. m \in Node /\ Meets(n, m)
  BY <1>2, DiscoveryAssumption DEF MInv, Near
<1>4. Learns(a, packet) /\ New(a, packet) /\ packet.hops < HopMax
  BY <1>1 DEF PassesOn, Learns
<1>5. /\ packet.of \in known'[a] /\ \A b \in Node : known[b] \subseteq known'[b]
  BY <1>4, LearnsKnown DEF MInv
<1>6. n = a /\ packet.of = m => Excused(n, m)'
  BY <1>5 DEF Excused
<1>7. ~(m = a /\ n \notin answered[m] /\ packet.of = n)
  BY <1>1, NotSeen DEF MInv
<1>8. \A b \in Node : Extends(Taken(a)[b], inbox'[b])
  <2>1. packet \in Packet /\ Taken(a) \in [Node -> Seq(Packet)]
    BY <1>4, NewIsMade DEF MInv, IInv
  <2>2. <<Passed(packet)>> \in Seq(Packet)
    BY <1>4, <2>1, PassedIsMade
  <2> QED
    BY <1>1, <2>1, <2>2, ReachExtends
<1> QED
  BY <1>2, <1>3, <1>4, <1>5, <1>6, <1>7, <1>8, NewHearing, HearingMeets DEF MInv

LEMMA AnswerMeets ==
    ASSUME MInv, IInv', Mutual, NEW a \in Node, Answer(a), faults' = 0,
           NEW n \in Node, NEW m \in Neighbours[n] \ {n}
    PROVE  Meets(n, m)'
<1>1. PICK packet :
        /\ PassesOn(a, packet)
        /\ answered' = [answered EXCEPT ![a] = @ \cup {packet.of}]
        /\ inbox' = Reach(Taken(a), a, <<Passed(packet), Own(a)>>)
        /\ unheard' = NowHeard(a)
        /\ UNCHANGED faults
  BY FaultCounts DEF Answer, MInv
<1>2. UNCHANGED boots
  BY DEF Answer
<1>3. m \in Node /\ n \in Neighbours[m] /\ Meets(n, m)
  BY <1>1, DiscoveryAssumption DEF MInv, Near, Mutual
<1>4. Learns(a, packet) /\ New(a, packet) /\ packet.hops < HopMax
  BY <1>1 DEF PassesOn, Learns
<1>5. /\ packet.of \in known'[a] /\ \A b \in Node : known[b] \subseteq known'[b]
  BY <1>4, LearnsKnown DEF MInv
<1>6. packet \in Packet /\ Taken(a) \in [Node -> Seq(Packet)]
  BY <1>4, NewIsMade DEF MInv, IInv
<1>7. <<Passed(packet), Own(a)>> \in Seq(Packet) /\ Own(a).of = a
  BY <1>4, <1>6, PassedIsMade, OwnIsMade DEF MInv, IInv
<1>8. CASE m = a
  <2> DEFINE sent == <<Passed(packet), Own(a)>>
  <2>1. /\ 2 \in DOMAIN sent /\ sent[2] = Own(a) /\ sent \in Seq(Packet)
        /\ inbox' = Reach(Taken(a), a, sent)
    BY <1>1, <1>7
  <2> HIDE DEF sent
  <2>2. inbox'[n] = Taken(a)[n] \o sent /\ Taken(a)[n] \in Seq(Packet)
    BY <1>3, <1>6, <1>8, <2>1 DEF Reach
  <2> DEFINE at == Len(Taken(a)[n]) + 2
  <2>3. at \in DOMAIN inbox'[n] /\ inbox'[n][at] = sent[2]
    BY <2>1, <2>2, Behind
  <2> HIDE DEF at
  <2>4. Comes(inbox'[n], m)
    BY <1>7, <1>8, <2>1, <2>3 DEF Comes
  <2> QED
    BY <2>4 DEF Meets
<1>9. CASE m # a
  <2>1. answered'[m] = answered[m]
    BY <1>1, <1>3, <1>9 DEF MInv, IInv, Tables
  <2>2. <<m, n>> \in unheard => <<m, n>> \in unheard'
    BY <1>1, <1>9 DEF NowHeard
  <2>3. n = a /\ packet.of = m => Excused(n, m)'
    BY <1>5 DEF Excused
  <2>4. \A b \in Node : Extends(Taken(a)[b], inbox'[b])
    BY <1>1, <1>6, <1>7, ReachExtends
  <2> QED
    BY <1>2, <1>3, <1>4, <1>5, <1>9, <2>1, <2>2, <2>3, <2>4, NewHearing, HearingMeets DEF MInv
<1> QED
  BY <1>8, <1>9

LEMMA ExpireMeets ==
    ASSUME MInv, IInv', NEW a \in Node, NEW x, Expire(a, x), faults' = 0,
           NEW n \in Node, NEW m \in Neighbours[n] \ {n}
    PROVE  Meets(n, m)'
<1>1. UNCHANGED <<inbox, ring, known, boots, unheard, faults>>
  BY DEF Expire
<1>2. m \in Node /\ Meets(n, m)
  BY <1>1, DiscoveryAssumption DEF MInv, Near
<1>3. answered'[m] \subseteq answered[m]
  BY <1>2 DEF Expire, MInv, IInv, Tables
<1> QED
  BY <1>1, <1>2, <1>3 DEF Meets, Excused, Full

(* A restart forgets: who restarts will announce itself, and is answered     *)
(* unless it was answered lately.                                            *)
LEMMA RestartMeets ==
    ASSUME MInv, IInv', NEW a \in Node, Restart(a), faults' = 0,
           NEW n \in Node, NEW m \in Neighbours[n] \ {n}
    PROVE  Meets(n, m)'
<1>1. UNCHANGED <<inbox, faults>> /\ BootCount > 0
  BY DiscoveryAssumption DEF Restart
<1>2. m \in Node /\ Meets(n, m)
  BY <1>1, DiscoveryAssumption DEF MInv, Near
<1>3. /\ boots'[a] = BootCount
      /\ \A b \in Node : b # a => /\ known'[b] = known[b] /\ ring'[b] = ring[b]
                                  /\ boots'[b] = boots[b] /\ answered'[b] = answered[b]
      /\ unheard \subseteq unheard'
      /\ \A o \in Node : a \in answered[o] => <<o, a>> \in unheard'
  BY DEF Restart, MInv, IInv, Tables, Wires
<1>4. CASE m = a
  BY <1>1, <1>3, <1>4 DEF Meets
<1>5. CASE n = a
  BY <1>1, <1>2, <1>3, <1>5 DEF Meets, Excused
<1>6. CASE n # a /\ m # a
  BY <1>1, <1>2, <1>3, <1>6 DEF Meets, Excused, Full
<1> QED
  BY <1>4, <1>5, <1>6

(* A table filled with as many devices as it holds.                          *)
LEMMA FullAtStart ==
    ASSUME Init, NEW n \in Node, Len(KnownBefore[n]) = KnownMax
    PROVE  Full(n)
<1> DEFINE s == KnownBefore[n]
           D == 1 .. Len(s)
<1>1. s \in Seq(ToSet(s)) /\ IsInjective(s)
  BY DiscoveryAssumption
<1>2. Len(s) \in Nat /\ DOMAIN s = D /\ s \in [D -> ToSet(s)]
  BY <1>1, LenProperties
<1>3. s \in Bijection(D, ToSet(s))
  <2>1. \A e \in ToSet(s) : \E i \in D : s[i] = e
    BY <1>2 DEF ToSet
  <2> QED
    BY <1>1, <1>2, <2>1 DEF Bijection, Injection, Surjection, IsInjective
<1>4. IsFiniteSet(D) /\ Cardinality(D) = Len(s)
  <2>1. 1 \in Int /\ Len(s) \in Int
    BY <1>2
  <2>2. IsFiniteSet(D) /\ Cardinality(D) = IF 1 > Len(s) THEN 0 ELSE Len(s) - 1 + 1
    BY <2>1, FS_Interval
  <2> QED
    BY <1>2, <2>2
<1>5. Cardinality(ToSet(s)) = Cardinality(D)
  BY <1>3, <1>4, FS_Bijection DEF ExistsBijection
<1>6. known[n] = ToSet(s)
  BY DEF Init
<1> QED
  BY <1>4, <1>5, <1>6 DEF Full

LEMMA MeetStart ==
    ASSUME Init, Acquainted
    PROVE  MInv
<1>1. IInv
  BY InitKeeps
<1>2. Rings /\ faults \in Nat
  BY DEF Init, Rings, ToSet
<1>3. Recent
  BY DEF Init, Recent
<1>4. ASSUME NEW n \in Node, NEW m \in Neighbours[n] \ {n}
      PROVE  Meets(n, m)
  <2>1. m \in Node /\ BootCount > 0
    BY DiscoveryAssumption
  <2>2. KnownBefore[m] = << >> => boots[m] > 0
    BY <2>1 DEF Init
  <2>3. KnownBefore[n] = << >> => boots[n] > 0 /\ n \notin answered[m]
    BY <2>1 DEF Init
  <2>4. m \in ToSet(KnownBefore[n]) => m \in known[n]
    BY DEF Init
  <2>5. Len(KnownBefore[n]) = KnownMax => Full(n)
    BY FullAtStart
  <2> QED
    BY <2>2, <2>3, <2>4, <2>5 DEF Acquainted, Meets, Excused
<1> QED
  BY <1>1, <1>2, <1>3, <1>4 DEF MInv, Near

(* What the actions count.                                                   *)
LEMMA Counts ==
    ASSUME MInv, Next
    PROVE  /\ faults' \in Nat /\ (faults' = 0 => faults = 0)
           /\ \A b \in Node : made[b] <= made'[b]
<1>1. faults' \in {faults, faults + 1} /\ faults \in Nat
  BY DEF Next, BootAnnounce, Duplicate, Refuse, LearnOnly, PassOn, Answer, Lose, Restart, Expire,
         Fault, MInv, Near
<1>2. \A b \in Node : made'[b] \in {made[b], made[b] + 1} /\ made[b] \in Nat
  BY DEF Next, BootAnnounce, Duplicate, Refuse, LearnOnly, PassOn, Answer, Lose, Restart, Expire,
         MInv, IInv, Wires
<1> QED
  BY <1>1, <1>2

LEMMA RingsKept ==
    ASSUME MInv, IInv', Next
    PROVE  Rings'
<1>1. \A b \in Node : made[b] <= made'[b]
  BY Counts
<1>2. PICK a \in Node :
          \/ BootAnnounce(a)
          \/ Duplicate(a) \/ Refuse(a) \/ LearnOnly(a) \/ PassOn(a) \/ Answer(a)
          \/ Lose(a) \/ Restart(a)
          \/ \E m \in answered[a] : Expire(a, m)
  BY DEF Next
<1>3. CASE BootAnnounce(a) \/ Duplicate(a) \/ Lose(a) \/ \E m \in answered[a] : Expire(a, m)
  <2>1. UNCHANGED <<ring, known>>
    BY <1>3 DEF BootAnnounce, Duplicate, Lose, Expire
  <2> QED
    BY <1>1, <2>1, RingStays DEF MInv
<1>4. CASE Refuse(a)
  <2>1. PICK packet : New(a, packet) /\ ~HasRoom(a, packet.of)
    BY <1>4 DEF Refuse
  <2>2. Full(a) /\ UNCHANGED known
    BY <1>4, <2>1, NoRoomIsFull DEF MInv, Refuse
  <2> QED
    BY <1>1, <2>1, <2>2, RingGrows DEF MInv
<1>5. CASE LearnOnly(a) \/ PassOn(a) \/ Answer(a)
  <2>1. PICK packet : Learns(a, packet)
    BY <1>5 DEF LearnOnly, PassOn, Answer, PassesOn
  <2>2. New(a, packet)
    BY <2>1 DEF Learns
  <2>3. packet.of \in known'[a] /\ \A b \in Node : known[b] \subseteq known'[b]
    BY <2>1, LearnsKnown DEF MInv
  <2> QED
    BY <1>1, <2>2, <2>3, RingGrows DEF MInv
<1>6. CASE Restart(a)
  <2>1. /\ ring'[a] = << >> /\ made' = made
        /\ \A b \in Node : b # a => ring'[b] = ring[b] /\ known'[b] = known[b]
    BY <1>6 DEF Restart, MInv, IInv, Wires, Tables
  <2>2. ToSet(<< >>) = {}
    BY DEF ToSet
  <2> QED
    BY <2>1, <2>2 DEF MInv, Rings, Full
<1> QED
  BY <1>2, <1>3, <1>4, <1>5, <1>6

LEMMA RecentKept ==
    ASSUME MInv, Next
    PROVE  Recent'
<1>1. PICK a \in Node :
          \/ BootAnnounce(a)
          \/ Duplicate(a) \/ Refuse(a) \/ LearnOnly(a) \/ PassOn(a) \/ Answer(a)
          \/ Lose(a) \/ Restart(a)
          \/ \E m \in answered[a] : Expire(a, m)
  BY DEF Next
<1>2. CASE \/ BootAnnounce(a) \/ Duplicate(a) \/ Lose(a)
           \/ Refuse(a) \/ LearnOnly(a) \/ PassOn(a)
  <2>1. UNCHANGED <<replied, answered>>
    BY <1>2 DEF BootAnnounce, Duplicate, Lose, Refuse, LearnOnly, PassOn
  <2> QED
    BY <2>1 DEF MInv, Recent
<1>3. CASE Answer(a)
  <2>1. PICK packet :
          /\ Learns(a, packet)
          /\ replied' = [replied EXCEPT ![a] = ReplyRemembered(a, packet.of)]
          /\ answered' = [answered EXCEPT ![a] = @ \cup {packet.of}]
    BY <1>3 DEF Answer, PassesOn
  <2> QED
    BY <2>1, AnswerHasRoom, AnswerIsRecent DEF MInv
<1>4. CASE \E m \in answered[a] : Expire(a, m)
  BY <1>4, ExpireIsRecent DEF MInv
<1>5. CASE Restart(a)
  <2>1. /\ replied'[a] = << >>
        /\ \A b \in Node : b # a => replied'[b] = replied[b] /\ answered'[b] = answered[b]
    BY <1>5 DEF Restart, MInv, IInv, Tables
  <2> QED
    BY <2>1 DEF MInv, Recent
<1> QED
  BY <1>1, <1>2, <1>3, <1>4, <1>5

LEMMA MeetKeeps ==
    ASSUME MInv, [Next]_vars, Mutual
    PROVE  MInv'
<1>1. IInv'
  BY NextKeeps DEF MInv
<1>2. CASE Next
  <2>1. PICK a \in Node :
          \/ BootAnnounce(a)
          \/ Duplicate(a) \/ Refuse(a) \/ LearnOnly(a) \/ PassOn(a) \/ Answer(a)
          \/ Lose(a) \/ Restart(a)
          \/ \E m \in answered[a] : Expire(a, m)
    BY <1>2 DEF Next
  <2>2. ASSUME NEW n \in Node, NEW m \in Neighbours[n] \ {n}, faults' = 0
        PROVE  Meets(n, m)'
    <3>1. ~Lose(a)
      BY <2>2, FaultCounts DEF Lose, MInv
    <3> QED
      BY <1>1, <2>1, <2>2, <3>1, BootMeets, DuplicateMeets, RefuseMeets, LearnOnlyMeets,
         PassOnMeets, AnswerMeets, ExpireMeets, RestartMeets
  <2> QED
    BY <1>1, <1>2, <2>2, Counts, RingsKept, RecentKept DEF MInv, Near
<1>3. CASE UNCHANGED vars
  BY <1>1, <1>3 DEF vars, MInv, Rings, Recent, Near, Meets, Excused, Full
<1> QED
  BY <1>2, <1>3

(* Neighbours meet (app_main.c: three announces at the start, and an answer  *)
(* to whoever was not answered lately): when the air is quiet and nothing    *)
(* was lost, a device knows every neighbour, unless a table is full or it    *)
(* restarted within the cooldown of the answer its former life was given.    *)
(* It is Met for devices in reach of each other, in any network.             *)
NeighboursMet ==
    Quiet /\ faults = 0 =>
        \A n \in Node : \A m \in Neighbours[n] \ {n} : Excused(n, m)

THEOREM NeighboursMeet ==
    ASSUME Mutual, Acquainted
    PROVE  Spec => []NeighboursMet
<1>1. Init => MInv
  BY MeetStart
<1>2. MInv /\ [Next]_vars => MInv'
  BY MeetKeeps
<1>3. MInv => NeighboursMet
  <2> SUFFICES ASSUME MInv, Quiet, faults = 0, NEW n \in Node, NEW m \in Neighbours[n] \ {n}
               PROVE  Excused(n, m)
    BY DEF NeighboursMet
  <2>1. m \in Node /\ Meets(n, m)
    BY DiscoveryAssumption DEF MInv, Near
  <2>2. inbox[n] = << >> /\ inbox[m] = << >> /\ boots[n] = 0 /\ boots[m] = 0
    BY <2>1 DEF Quiet
  <2> QED
    BY <2>1, <2>2 DEF Meets, Comes, Asks
<1> QED
  BY <1>1, <1>2, <1>3, PTL DEF Spec

-----------------------------------------------------------------------------
(* Devices with a neighbour between them.  What a device has not seen yet it *)
(* passes on, unless there is no room for the author.                        *)

Holds(q, hash) == \E i \in DOMAIN q : Hash(q[i]) = hash

Unseen(q, seen, hash) == Holds(q, hash) /\ hash \notin ToSet(seen)

(* No announce has come as far as the limit, which is 255 hops.              *)
NoneFar == \A n \in Node : \A packet \in ToSet(inbox[n]) : packet.hops < HopMax

(* n goes without m, or an announce of m comes to n or to b.                 *)
Coming(n, b, m) ==
    \/ Excused(n, m)
    \/ Comes(inbox[n], m)
    \/ \E k \in Nat : Unseen(inbox[b], ring[b], <<m, k>>)

Told(n, b, m) == m \in known[b] => Coming(n, b, m)

(* An announce of n, the latest where b has to pass it on, will make m       *)
(* answer, or b found no room for n.                                         *)
Asking(n, b, m) ==
    \/ boots[n] > 0 \/ boots[m] > 0
    \/ Unseen(inbox[b], ring[b], <<n, made[n]>>)
    \/ \E k \in Nat : Unseen(inbox[m], ring[m], <<n, k>>)
    \/ Full(b) /\ n \notin known[b]

Via(n, b, m) ==
    /\ n \in answered[m] => Told(n, b, m)
    /\ boots[n] = 0 /\ <<n, made[n]>> \in ToSet(ring[m]) => Told(n, b, m)
    /\ Told(n, b, m) \/ Asking(n, b, m)

(* b hears both, and both hear b.                                            *)
Middle(n, b, m) ==
    /\ n \in Node /\ b \in Node /\ m \in Node
    /\ n # m /\ b # n /\ b # m
    /\ {n, m} \subseteq Neighbours[b] /\ b \in Neighbours[n] /\ b \in Neighbours[m]

Across == faults = 0 => \A n, b, m \in Node : Middle(n, b, m) => Via(n, b, m)

LEMMA TakenUnseen ==
    ASSUME Wires, NEW a \in Node, inbox[a] # << >>, NEW longer,
           ToSet(longer) \subseteq ToSet(ring[a]) \cup {Hash(Head(inbox[a]))},
           NEW hash, Unseen(inbox[a], ring[a], hash)
    PROVE  \/ hash = Hash(Head(inbox[a])) /\ hash \notin ToSet(ring[a])
           \/ Unseen(Taken(a)[a], longer, hash)
<1> DEFINE q == inbox[a]
           t == Tail(q)
<1>1. q \in Seq(Packet) /\ inbox \in [Node -> Seq(Packet)]
  BY DEF Wires
<1>2. /\ t \in Seq(Packet) /\ Len(t) = Len(q) - 1
      /\ \A i \in 1 .. Len(t) : t[i] = q[i + 1]
  BY <1>1, HeadTailProperties
<1>3. Len(q) \in Nat \ {0} /\ DOMAIN q = 1 .. Len(q) /\ DOMAIN t = 1 .. Len(q) - 1
  BY <1>1, <1>2, LenProperties, EmptySeq
<1>4. Head(q) = q[1]
  BY <1>3
<1>5. Taken(a)[a] = t
  BY <1>1 DEF Taken
<1> HIDE DEF t
<1>6. PICK i \in DOMAIN q : Hash(q[i]) = hash
  BY DEF Unseen, Holds
<1>7. i = 1 \/ (i - 1 \in DOMAIN t /\ t[i - 1] = q[i])
  BY <1>2, <1>3
<1>8. hash = Hash(Head(q)) \/ Holds(t, hash)
  BY <1>4, <1>6, <1>7 DEF Holds
<1> QED
  BY <1>5, <1>8 DEF Unseen

LEMMA ExtendsHolds ==
    ASSUME NEW q, NEW r, Extends(q, r), NEW hash, Holds(q, hash)
    PROVE  Holds(r, hash)
BY DEF Extends, Holds

(* What is sent reaches every neighbour.                                     *)
LEMMA SentHolds ==
    ASSUME NEW queues \in [Node -> Seq(Packet)], NEW n \in Node, NEW packets \in Seq(Packet),
           NEW j \in DOMAIN packets, NEW b \in Neighbours[n]
    PROVE  /\ Holds(Reach(queues, n, packets)[b], Hash(packets[j]))
           /\ Comes(Reach(queues, n, packets)[b], packets[j].of)
<1>1. b \in Node
  BY DiscoveryAssumption
<1> DEFINE q == queues[b]
           r == Reach(queues, n, packets)[b]
<1>2. r = q \o packets /\ q \in Seq(Packet)
  BY <1>1 DEF Reach
<1>3. Len(q) + j \in DOMAIN r /\ r[Len(q) + j] = packets[j]
  BY <1>2, Behind
<1> QED
  BY <1>3 DEF Holds, Comes

(* An announce just made has been seen by nobody.                            *)
LEMMA OwnIsUnseen ==
    ASSUME IInv, Rings, NEW a \in Node, NEW b \in Node
    PROVE  /\ <<a, made[a] + 1>> \notin ToSet(ring[b])
           /\ Hash(Own(a)) = <<a, made[a] + 1>>
           /\ made[a] + 1 \in Nat
<1>1. made[a] \in Nat
  BY DEF IInv, Wires
<1>2. Own(a).of = a /\ Own(a).k = made[a] + 1
  BY OwnIsMade DEF IInv
<1>3. \A h \in ToSet(ring[b]) : h[2] <= made[h[1]]
  BY DEF Rings
<1>4. <<a, made[a] + 1>>[1] = a /\ <<a, made[a] + 1>>[2] = made[a] + 1
  OBVIOUS
<1> DEFINE h == <<a, made[a] + 1>>
<1>5. h[1] = a /\ h[2] = made[a] + 1 /\ ~(h[2] <= made[h[1]])
  BY <1>1
<1> HIDE DEF h
<1>6. h \notin ToSet(ring[b])
  BY <1>3, <1>5
<1> QED
  BY <1>1, <1>2, <1>6 DEF h, Hash

-----------------------------------------------------------------------------
(* What a device does with the next packet.                                  *)

(* An answer leaves with it, or not.                                         *)
Answering(a, packet) ==
    /\ answered'[a] = answered[a] \cup {packet.of}
    /\ made'[a] = made[a] + 1
    /\ unheard' = NowHeard(a)
    /\ \A b \in Neighbours[a] : Holds(inbox'[b], <<a, made[a] + 1>>)

Listening(a) == answered'[a] = answered[a] /\ made'[a] = made[a] /\ unheard' = unheard

(* There is no room for its author, or the packet is the device's own, or it *)
(* is passed on.                                                             *)
Passing(a, packet) ==
    \/ Full(a)' /\ packet.of \notin known'[a]
    \/ packet.of = a
    \/ /\ packet.of \in answered'[a]
       /\ \A b \in Neighbours[a] : /\ Holds(inbox'[b], Hash(packet))
                                   /\ Comes(inbox'[b], packet.of)

Hears(a, packet) ==
    /\ inbox[a] # << >> /\ packet = Head(inbox[a])
    /\ \A b \in Node : Extends(Taken(a)[b], inbox'[b])
    /\ ToSet(ring'[a]) \subseteq ToSet(ring[a]) \cup {Hash(packet)}
    /\ \A b \in Node : known[b] \subseteq known'[b]
    /\ \A b \in Node \ {a} : /\ ring'[b] = ring[b] /\ known'[b] = known[b]
                             /\ made'[b] = made[b] /\ answered'[b] = answered[b]
    /\ boots' = boots
    /\ Answering(a, packet) \/ Listening(a)
    /\ packet.of \in known'[a] \/ Full(a)'
    /\ known'[a] # known[a] =>
          known'[a] = known[a] \cup {packet.of} /\ Hash(packet) \notin ToSet(ring[a])
    /\ Hash(packet) \notin ToSet(ring[a]) => Passing(a, packet)

LEMMA DuplicateHears ==
    ASSUME MInv, IInv', NEW a \in Node, Duplicate(a)
    PROVE  Hears(a, Head(inbox[a]))
<1>1. inbox[a] # << >> /\ inbox' = Taken(a) /\ Hash(Head(inbox[a])) \in ToSet(ring[a])
  BY DEF Duplicate, Seen
<1>2. UNCHANGED <<ring, known, boots, made, answered, unheard>>
  BY DEF Duplicate
<1>3. Head(inbox[a]).of \in known[a] \/ Full(a)
  <2>1. Hash(Head(inbox[a]))[1] = Head(inbox[a]).of
    BY DEF Hash
  <2> QED
    BY <1>1, <2>1 DEF MInv, Rings
<1>4. \A b \in Node : Extends(Taken(a)[b], inbox'[b])
  <2>1. \A b \in Node : Taken(a)[b] \in Seq(Packet)
    BY <1>1, TakenIsMade DEF MInv, IInv
  <2> QED
    BY <1>1, <2>1, SameExtends
<1> QED
  BY <1>1, <1>2, <1>3, <1>4 DEF Hears, Listening, Full

LEMMA RefuseHears ==
    ASSUME MInv, IInv', NEW a \in Node, Refuse(a)
    PROVE  \E packet : Hears(a, packet)
<1>1. PICK packet : New(a, packet) /\ ~HasRoom(a, packet.of)
  BY DEF Refuse
<1>2. inbox' = Taken(a) /\ UNCHANGED <<known, boots, made, answered, unheard>>
  BY DEF Refuse
<1>3. Full(a)' /\ packet.of \notin known'[a]
  <2>1. Full(a) /\ packet.of \notin known[a]
    BY <1>1, NoRoomIsFull DEF MInv
  <2> QED
    BY <1>2, <2>1 DEF Full
<1>4. \A b \in Node : Extends(Taken(a)[b], inbox'[b])
  BY <1>1, <1>2, NewIsMade, SameExtends DEF MInv, IInv
<1>5. Hears(a, packet)
  BY <1>1, <1>2, <1>3, <1>4, NewHearing DEF MInv, Hears, Listening, Passing
<1> QED
  BY <1>5

(* What holds of a packet that is learned.                                   *)
LEMMA LearnsHears ==
    ASSUME MInv, IInv', NEW a \in Node, NEW packet, Learns(a, packet),
           boots' = boots, \A b \in Node \ {a} : made'[b] = made[b] /\ answered'[b] = answered[b],
           \A b \in Node : Extends(Taken(a)[b], inbox'[b]),
           Answering(a, packet) \/ Listening(a), Passing(a, packet)
    PROVE  Hears(a, packet)
<1>1. New(a, packet)
  BY DEF Learns
<1>2. /\ packet.of \in known'[a] /\ \A b \in Node : known[b] \subseteq known'[b]
  BY LearnsKnown DEF MInv
<1>3. /\ known'[a] = known[a] \cup {packet.of}
      /\ \A b \in Node \ {a} : known'[b] = known[b]
  BY DEF Learns, MInv, IInv, Tables
<1> QED
  BY <1>1, <1>2, <1>3, NewHearing DEF MInv, Hears

LEMMA HeadNear ==
    ASSUME MInv, NoneFar, NEW a \in Node, NEW packet, New(a, packet)
    PROVE  packet.hops < HopMax
<1>1. inbox[a] \in Seq(Packet) /\ inbox[a] # << >> /\ packet = Head(inbox[a])
  BY DEF New, MInv, IInv, Wires
<1>2. 1 \in DOMAIN inbox[a] /\ packet = inbox[a][1]
  BY <1>1, LenProperties, EmptySeq, HeadTailProperties
<1>3. packet \in ToSet(inbox[a])
  BY <1>2, InToSet
<1> QED
  BY <1>3 DEF NoneFar

LEMMA LearnOnlyHears ==
    ASSUME MInv, IInv', NoneFar, NEW a \in Node, LearnOnly(a), faults' = 0
    PROVE  \E packet : Hears(a, packet)
<1>1. PICK packet :
        Learns(a, packet) /\ (packet.of = a \/ packet.hops = HopMax)
  BY FaultCounts DEF LearnOnly, MInv
<1>2. inbox' = Taken(a) /\ UNCHANGED <<boots, made, answered, unheard>>
  BY DEF LearnOnly
<1>3. New(a, packet)
  BY <1>1 DEF Learns
<1>4. packet \in Packet /\ packet.hops < HopMax
  BY <1>3, HeadNear, NewIsMade DEF MInv, IInv
<1>5. packet.of = a
  BY <1>1, <1>4, DiscoveryAssumption DEF Packet
<1>6. \A b \in Node : Extends(Taken(a)[b], inbox'[b])
  BY <1>2, <1>3, NewIsMade, SameExtends DEF MInv, IInv
<1>7. Listening(a) /\ Passing(a, packet)
  BY <1>2, <1>5 DEF Listening, Passing
<1>8. Hears(a, packet)
  BY <1>1, <1>2, <1>6, <1>7, LearnsHears
<1> QED
  BY <1>8

LEMMA PassedHash ==
    ASSUME NEW packet \in Packet, packet.hops < HopMax
    PROVE  Hash(Passed(packet)) = Hash(packet)
BY PassedIsMade DEF Hash

LEMMA PassOnHears ==
    ASSUME MInv, IInv', NEW a \in Node, PassOn(a)
    PROVE  \E packet : Hears(a, packet)
<1>1. PICK packet : /\ PassesOn(a, packet) /\ ReplySeen(a, packet.of)
                    /\ inbox' = Reach(Taken(a), a, <<Passed(packet)>>)
  BY DEF PassOn
<1>2. UNCHANGED <<boots, made, answered, unheard>>
  BY DEF PassOn
<1>3. Learns(a, packet) /\ New(a, packet) /\ packet.hops < HopMax
  BY <1>1 DEF PassesOn, Learns
<1>4. packet \in Packet /\ Taken(a) \in [Node -> Seq(Packet)]
  BY <1>3, NewIsMade DEF MInv, IInv
<1> DEFINE sent == <<Passed(packet)>>
<1>5. sent \in Seq(Packet) /\ 1 \in DOMAIN sent /\ sent[1] = Passed(packet)
      /\ inbox' = Reach(Taken(a), a, sent)
  BY <1>1, <1>3, <1>4, PassedIsMade
<1> HIDE DEF sent
<1>6. \A b \in Node : Extends(Taken(a)[b], inbox'[b])
  BY <1>4, <1>5, ReachExtends
<1>7. packet.of \in answered'[a]
  BY <1>1, <1>2, NotSeen DEF MInv
<1>8. \A b \in Neighbours[a] : Holds(inbox'[b], Hash(packet)) /\ Comes(inbox'[b], packet.of)
  BY <1>3, <1>4, <1>5, SentHolds, PassedHash, PassedIsMade
<1>9. Listening(a) /\ Passing(a, packet)
  BY <1>2, <1>7, <1>8 DEF Listening, Passing
<1>10. Hears(a, packet)
  BY <1>2, <1>3, <1>6, <1>9, LearnsHears
<1> QED
  BY <1>10

LEMMA AnswerHears ==
    ASSUME MInv, IInv', NEW a \in Node, Answer(a), faults' = 0
    PROVE  \E packet : Hears(a, packet)
<1>1. PICK packet :
        /\ PassesOn(a, packet)
        /\ answered' = [answered EXCEPT ![a] = @ \cup {packet.of}]
        /\ inbox' = Reach(Taken(a), a, <<Passed(packet), Own(a)>>)
        /\ unheard' = NowHeard(a)
  BY FaultCounts DEF Answer, MInv
<1>2. UNCHANGED boots /\ made' = [made EXCEPT ![a] = @ + 1]
  BY DEF Answer
<1>3. Learns(a, packet) /\ New(a, packet) /\ packet.hops < HopMax
  BY <1>1 DEF PassesOn, Learns
<1>4. packet \in Packet /\ Taken(a) \in [Node -> Seq(Packet)]
  BY <1>3, NewIsMade DEF MInv, IInv
<1> DEFINE sent == <<Passed(packet), Own(a)>>
<1>5. sent \in Seq(Packet) /\ {1, 2} \subseteq DOMAIN sent
      /\ sent[1] = Passed(packet) /\ sent[2] = Own(a)
      /\ inbox' = Reach(Taken(a), a, sent)
  BY <1>1, <1>3, <1>4, PassedIsMade, OwnIsMade DEF MInv, IInv
<1> HIDE DEF sent
<1>6. \A b \in Node : Extends(Taken(a)[b], inbox'[b])
  BY <1>4, <1>5, ReachExtends
<1>7. /\ answered'[a] = answered[a] \cup {packet.of} /\ made'[a] = made[a] + 1
      /\ \A b \in Node \ {a} : made'[b] = made[b] /\ answered'[b] = answered[b]
  BY <1>1, <1>2 DEF MInv, IInv, Tables, Wires
<1>8. \A b \in Neighbours[a] : Holds(inbox'[b], Hash(packet)) /\ Comes(inbox'[b], packet.of)
  BY <1>3, <1>4, <1>5, SentHolds, PassedHash, PassedIsMade
<1>9. ASSUME NEW b \in Neighbours[a]
      PROVE  Holds(inbox'[b], <<a, made[a] + 1>>)
  <2>1. Holds(Reach(Taken(a), a, sent)[b], Hash(sent[2]))
    BY <1>4, <1>5, SentHolds
  <2>2. Hash(Own(a)) = <<a, made[a] + 1>>
    BY OwnIsUnseen DEF MInv
  <2> QED
    BY <1>5, <2>1, <2>2
<1>10. Answering(a, packet) /\ Passing(a, packet)
  BY <1>1, <1>7, <1>8, <1>9 DEF Answering, Passing
<1>11. Hears(a, packet)
  BY <1>2, <1>3, <1>6, <1>7, <1>10, LearnsHears
<1> QED
  BY <1>11

-----------------------------------------------------------------------------
(* What that does for devices with a neighbour between them.                 *)

(* An announce of m that leaves comes to b.                                  *)
LEMMA MadeComing ==
    ASSUME IInv, Rings, NEW n, NEW b, NEW m, Middle(n, b, m),
           Holds(inbox'[b], <<m, made[m] + 1>>), ring'[b] = ring[b]
    PROVE  Coming(n, b, m)'
<1>1. <<m, made[m] + 1>> \notin ToSet(ring'[b]) /\ made[m] + 1 \in Nat
  BY OwnIsUnseen DEF Middle
<1>2. Unseen(inbox'[b], ring'[b], <<m, made[m] + 1>>)
  BY <1>1 DEF Unseen
<1> QED
  BY <1>1, <1>2 DEF Coming

LEMMA HearsUnseen ==
    ASSUME IInv, NEW a \in Node, NEW packet, Hears(a, packet), NEW b \in Node,
           NEW hash, Unseen(inbox[b], ring[b], hash)
    PROVE  \/ b = a /\ hash = Hash(packet) /\ hash \notin ToSet(ring[a]) /\ Passing(a, packet)
           \/ Unseen(inbox'[b], ring'[b], hash)
<1>1. Wires
  BY DEF IInv
<1>2. Extends(Taken(a)[b], inbox'[b])
  BY DEF Hears
<1>3. CASE b = a
  <2>1. \/ hash = Hash(packet) /\ hash \notin ToSet(ring[a])
        \/ Unseen(Taken(a)[a], ring'[a], hash)
    BY <1>1, <1>3, TakenUnseen DEF Hears
  <2> QED
    BY <1>2, <1>3, <2>1, ExtendsHolds DEF Hears, Unseen
<1>4. CASE b # a
  <2>1. Taken(a)[b] = inbox[b] /\ ring'[b] = ring[b]
    BY <1>1, <1>4, TakenQueues DEF Hears
  <2> QED
    BY <1>2, <2>1, ExtendsHolds DEF Unseen
<1> QED
  BY <1>3, <1>4

LEMMA HearsTold ==
    ASSUME IInv, IInv', Rings, NEW a \in Node, NEW packet, Hears(a, packet),
           NEW n, NEW b, NEW m, Middle(n, b, m), Told(n, b, m)
    PROVE  Told(n, b, m)'
<1>0. n \in Node /\ b \in Node /\ m \in Node /\ Wires
  BY DEF Middle, IInv
<1> SUFFICES ASSUME m \in known'[b] PROVE Coming(n, b, m)'
  BY DEF Told
<1>1. \A k \in Nat : <<m, k>> = Hash(packet) => packet.of = m
  BY DEF Hash
<1>2. CASE m \notin known[b]
  <2>1. a = b /\ packet.of = m /\ Hash(packet) \notin ToSet(ring[a])
    BY <1>0, <1>2 DEF Hears
  <2>2. Comes(inbox'[n], m)
    BY <2>1 DEF Hears, Passing, Middle
  <2> QED
    BY <2>2 DEF Coming
<1>3. CASE m \in known[b]
  <2>0. Coming(n, b, m)
    BY <1>3 DEF Told
  <2>1. CASE Excused(n, m)
    <3>1. CASE m = a /\ Answering(a, packet)
      <4>1. Holds(inbox'[b], <<m, made[m] + 1>>) /\ ring'[b] = ring[b]
        BY <1>0, <3>1 DEF Answering, Hears, Middle
      <4> QED
        BY <4>1, MadeComing
    <3>2. CASE ~(m = a /\ Answering(a, packet))
      <4>1. <<m, n>> \in unheard => <<m, n>> \in unheard'
        BY <3>2 DEF Hears, Answering, Listening, NowHeard
      <4>2. Excused(n, m)'
        BY <1>0, <2>1, <4>1, ExcusedStays DEF Hears
      <4> QED
        BY <4>2 DEF Coming
    <3> QED
      BY <3>1, <3>2
  <2>2. CASE Comes(inbox[n], m)
    <3>1. Extends(Taken(a)[n], inbox'[n])
      BY <1>0 DEF Hears
    <3>2. CASE n = a /\ packet.of = m
      <4>1. Excused(n, m)'
        BY <3>2 DEF Excused, Hears
      <4> QED
        BY <4>1 DEF Coming
    <3>3. CASE ~(n = a /\ packet.of = m)
      <4>1. Comes(Taken(a)[n], m)
        BY <1>0, <2>2, <3>3, TakenQueues DEF Hears
      <4> QED
        BY <3>1, <4>1, ExtendsComes DEF Coming
    <3> QED
      BY <3>2, <3>3
  <2>3. ASSUME NEW k \in Nat, Unseen(inbox[b], ring[b], <<m, k>>)
        PROVE  Coming(n, b, m)'
    <3>1. CASE Unseen(inbox'[b], ring'[b], <<m, k>>)
      BY <3>1 DEF Coming
    <3>2. CASE b = a /\ <<m, k>> = Hash(packet) /\ Passing(a, packet)
      <4>1. Comes(inbox'[n], m)
        BY <1>1, <3>2 DEF Passing, Middle
      <4> QED
        BY <4>1 DEF Coming
    <3> QED
      BY <1>0, <2>3, <3>1, <3>2, HearsUnseen
  <2> QED
    BY <2>0, <2>1, <2>2, <2>3 DEF Coming
<1> QED
  BY <1>2, <1>3

LEMMA HearsVia ==
    ASSUME IInv, IInv', Rings, NEW a \in Node, NEW packet, Hears(a, packet),
           NEW n, NEW b, NEW m, Middle(n, b, m), Via(n, b, m)
    PROVE  Via(n, b, m)'
<1>0. n \in Node /\ b \in Node /\ m \in Node /\ n # m /\ b # n /\ b # m
  BY DEF Middle
<1>1. Told(n, b, m) => Told(n, b, m)'
  BY HearsTold
<1>2. ASSUME n \in answered'[m]
      PROVE  Told(n, b, m)'
  <2>1. CASE n \in answered[m]
    BY <1>1, <2>1 DEF Via
  <2>2. CASE n \notin answered[m]
    <3>1. a = m /\ Answering(a, packet)
      BY <1>0, <1>2, <2>2 DEF Hears, Listening
    <3>2. Holds(inbox'[b], <<m, made[m] + 1>>) /\ ring'[b] = ring[b]
      BY <1>0, <3>1 DEF Answering, Hears, Middle
    <3> QED
      BY <3>2, MadeComing DEF Told
  <2> QED
    BY <2>1, <2>2
(* m has heard n: it has answered, or has no room for n.                     *)
<1>3. ASSUME a = m, packet.of = n, Hash(packet) \notin ToSet(ring[a])
      PROVE  Told(n, b, m)'
  <2>1. (Full(m)' /\ n \notin known'[m]) \/ n \in answered'[m]
    BY <1>0, <1>3 DEF Hears, Passing
  <2>2. CASE Full(m)' /\ n \notin known'[m]
    BY <2>2 DEF Told, Coming, Excused
  <2> QED
    BY <1>2, <2>1, <2>2
<1>4. \A k : <<n, k>> = Hash(packet) => packet.of = n
  BY DEF Hash
<1>5. ASSUME boots'[n] = 0, <<n, made'[n]>> \in ToSet(ring'[m])
      PROVE  Told(n, b, m)'
  <2>1. boots[n] = 0
    BY <1>5 DEF Hears
  <2>2. CASE a = n
    <3>1. ring'[m] = ring[m] /\ (made'[n] = made[n] \/ made'[n] = made[n] + 1)
      BY <1>0, <2>2 DEF Hears, Answering, Listening
    <3>2. <<n, made[n] + 1>> \notin ToSet(ring[m])
      BY <1>0, OwnIsUnseen
    <3> QED
      BY <1>1, <1>5, <2>1, <3>1, <3>2 DEF Via
  <2>3. CASE a # n
    <3>1. made'[n] = made[n]
      BY <1>0, <2>3 DEF Hears
    <3>2. CASE <<n, made[n]>> \in ToSet(ring[m])
      BY <1>1, <2>1, <3>2 DEF Via
    <3>3. CASE <<n, made[n]>> \notin ToSet(ring[m])
      <4>1. a = m /\ <<n, made[n]>> = Hash(packet)
        BY <1>0, <1>5, <3>1, <3>3 DEF Hears
      <4> QED
        BY <1>3, <1>4, <3>3, <4>1
    <3> QED
      BY <3>2, <3>3
  <2> QED
    BY <2>2, <2>3
<1>6. Told(n, b, m)' \/ Asking(n, b, m)'
  <2>1. CASE Told(n, b, m)
    BY <1>1, <2>1
  <2>2. CASE boots[n] > 0 \/ boots[m] > 0
    BY <2>2 DEF Hears, Asking
  <2>3. CASE Unseen(inbox[b], ring[b], <<n, made[n]>>)
    <3>1. CASE a = n /\ Answering(a, packet)
      <4>1. /\ Holds(inbox'[b], <<n, made'[n]>>) /\ ring'[b] = ring[b]
            /\ made'[n] = made[n] + 1
        BY <1>0, <3>1 DEF Answering, Hears, Middle
      <4>2. <<n, made[n] + 1>> \notin ToSet(ring[b])
        BY <1>0, OwnIsUnseen
      <4>3. Unseen(inbox'[b], ring'[b], <<n, made'[n]>>)
        BY <4>1, <4>2 DEF Unseen
      <4> QED
        BY <4>3 DEF Asking
    <3>2. CASE ~(a = n /\ Answering(a, packet))
      <4>1. made'[n] = made[n]
        BY <1>0, <3>2 DEF Hears, Listening
      <4>2. CASE Unseen(inbox'[b], ring'[b], <<n, made[n]>>)
        BY <4>1, <4>2 DEF Asking
      <4>3. CASE b = a /\ <<n, made[n]>> = Hash(packet) /\ Passing(a, packet)
        <5>1. packet.of = n /\ packet.of # a
          BY <1>0, <1>4, <4>3
        <5>2. CASE Full(a)' /\ packet.of \notin known'[a]
          BY <4>3, <5>1, <5>2 DEF Asking
        <5>3. CASE \A c \in Neighbours[a] : Holds(inbox'[c], Hash(packet))
          <6>1. Holds(inbox'[m], <<n, made[n]>>) /\ ring'[m] = ring[m]
            BY <1>0, <4>3, <5>3 DEF Middle, Hears
          <6>2. made[n] \in Nat
            BY <1>0 DEF IInv, Wires
          <6>3. CASE <<n, made[n]>> \notin ToSet(ring[m])
            <7>1. Unseen(inbox'[m], ring'[m], <<n, made[n]>>)
              BY <6>1, <6>3 DEF Unseen
            <7> QED
              BY <6>2, <7>1 DEF Asking
          <6>4. CASE <<n, made[n]>> \in ToSet(ring[m])
            <7>1. CASE boots[n] = 0
              BY <1>1, <6>4, <7>1 DEF Via
            <7>2. CASE boots[n] # 0
              <8>1. boots[n] \in 0..BootCount
                BY <1>0 DEF IInv, Wires
              <8>2. boots[n] > 0
                BY <7>2, <8>1, DiscoveryAssumption
              <8>3. boots' = boots
                BY DEF Hears
              <8> QED
                BY <8>2, <8>3 DEF Asking
            <7> QED
              BY <7>1, <7>2
          <6> QED
            BY <6>3, <6>4
        <5> QED
          BY <4>3, <5>1, <5>2, <5>3 DEF Passing
      <4> QED
        BY <1>0, <2>3, <4>2, <4>3, HearsUnseen
    <3> QED
      BY <3>1, <3>2
  <2>4. ASSUME NEW k \in Nat, Unseen(inbox[m], ring[m], <<n, k>>)
        PROVE  Told(n, b, m)' \/ Asking(n, b, m)'
    <3>1. CASE Unseen(inbox'[m], ring'[m], <<n, k>>)
      BY <3>1 DEF Asking
    <3>2. CASE m = a /\ <<n, k>> = Hash(packet) /\ <<n, k>> \notin ToSet(ring[a])
      BY <1>3, <1>4, <3>2
    <3> QED
      BY <1>0, <2>4, <3>1, <3>2, HearsUnseen
  <2>5. CASE Full(b) /\ n \notin known[b]
    <3>1. Full(b)' /\ known'[b] = known[b]
      BY <1>0, <2>5, FullStays DEF Hears
    <3> QED
      BY <2>5, <3>1 DEF Asking
  <2> QED
    BY <2>1, <2>2, <2>3, <2>4, <2>5 DEF Via, Asking
<1> QED
  BY <1>2, <1>5, <1>6 DEF Via

-----------------------------------------------------------------------------
(* The other actions.                                                        *)

LEMMA BootVia ==
    ASSUME MInv, IInv', NEW a \in Node, BootAnnounce(a), faults' = 0,
           NEW n, NEW b, NEW m, Middle(n, b, m), Via(n, b, m)
    PROVE  Via(n, b, m)'
<1>0. n \in Node /\ b \in Node /\ m \in Node /\ n # m /\ b # n /\ b # m
  BY DEF Middle
<1>1. inbox' = Reach(inbox, a, <<Own(a)>>) /\ unheard' = NowHeard(a)
  BY FaultCounts DEF MInv, BootAnnounce
<1>2. /\ UNCHANGED <<ring, known, answered>>
      /\ made'[a] = made[a] + 1
      /\ \A c \in Node : c # a => boots'[c] = boots[c] /\ made'[c] = made[c]
  BY DEF BootAnnounce, MInv, IInv, Wires
<1>3. inbox \in [Node -> Seq(Packet)] /\ Own(a) \in Packet
  BY OwnIsMade DEF MInv, IInv, Wires
<1> DEFINE sent == <<Own(a)>>
<1>4. sent \in Seq(Packet) /\ 1 \in DOMAIN sent /\ sent[1] = Own(a)
      /\ inbox' = Reach(inbox, a, sent)
  BY <1>1, <1>3
<1> HIDE DEF sent
<1>5. \A c \in Node : Extends(inbox[c], inbox'[c])
  BY <1>3, <1>4, ReachExtends
<1>6. ASSUME NEW c \in Neighbours[a]
      PROVE  Holds(inbox'[c], <<a, made[a] + 1>>)
  <2>1. Holds(Reach(inbox, a, sent)[c], Hash(sent[1]))
    BY <1>3, <1>4, SentHolds
  <2>2. Hash(Own(a)) = <<a, made[a] + 1>>
    BY OwnIsUnseen DEF MInv
  <2> QED
    BY <1>4, <2>1, <2>2
<1>7. \A c \in Node : <<a, made[a] + 1>> \notin ToSet(ring[c])
  BY OwnIsUnseen DEF MInv
<1>8. CASE m = a
  <2>1. Coming(n, b, m)'
    BY <1>2, <1>6, <1>8, MadeComing DEF Middle, MInv
  <2> QED
    BY <2>1 DEF Via, Told
<1>9. CASE m # a
  <2>1. \A c \in Node : \A hash : Unseen(inbox[c], ring[c], hash) => Unseen(inbox'[c], ring'[c], hash)
    BY <1>2, <1>5, ExtendsHolds DEF Unseen
  <2>2. Told(n, b, m) => Told(n, b, m)'
    <3>1. <<m, n>> \in unheard => <<m, n>> \in unheard'
      BY <1>1, <1>9 DEF NowHeard
    <3>2. Excused(n, m) => Excused(n, m)'
      BY <1>0, <1>2, <3>1, ExcusedStays DEF MInv
    <3>3. Comes(inbox[n], m) => Comes(inbox'[n], m)
      BY <1>0, <1>5, ExtendsComes
    <3> QED
      BY <1>0, <1>2, <2>1, <3>2, <3>3 DEF Told, Coming
  <2>3. CASE n = a
    <3>1. Unseen(inbox'[b], ring'[b], <<n, made'[n]>>)
      BY <1>0, <1>2, <1>6, <1>7, <2>3 DEF Unseen, Middle
    <3>2. <<n, made'[n]>> \notin ToSet(ring'[m])
      BY <1>0, <1>2, <1>7, <2>3
    <3> QED
      BY <1>2, <2>2, <3>1, <3>2 DEF Via, Asking
  <2>4. CASE n # a
    <3>1. made'[n] = made[n] /\ boots'[n] = boots[n] /\ boots'[m] = boots[m]
      BY <1>0, <1>2, <1>9, <2>4
    <3>2. Asking(n, b, m) => Asking(n, b, m)'
      BY <1>0, <1>2, <2>1, <3>1 DEF Asking, Full
    <3> QED
      BY <1>2, <2>2, <3>1, <3>2 DEF Via
  <2> QED
    BY <2>3, <2>4
<1> QED
  BY <1>8, <1>9

LEMMA ExpireVia ==
    ASSUME MInv, NEW a \in Node, NEW x, Expire(a, x),
           NEW n, NEW b, NEW m, Middle(n, b, m), Via(n, b, m)
    PROVE  Via(n, b, m)'
<1>1. UNCHANGED <<inbox, ring, known, boots, made, unheard>>
  BY DEF Expire
<1>2. answered'[m] \subseteq answered[m]
  BY DEF Middle, Expire, MInv, IInv, Tables
<1>3. Coming(n, b, m)' <=> Coming(n, b, m)
  BY <1>1 DEF Coming, Excused, Full
<1>4. Asking(n, b, m)' <=> Asking(n, b, m)
  BY <1>1 DEF Asking, Full
<1> QED
  BY <1>1, <1>2, <1>3, <1>4 DEF Via, Told

(* Whoever restarts will announce itself, and whoever learns from the one    *)
(* between has to be told again.                                             *)
LEMMA RestartVia ==
    ASSUME MInv, NEW a \in Node, Restart(a),
           NEW n, NEW b, NEW m, Middle(n, b, m), Via(n, b, m)
    PROVE  Via(n, b, m)'
<1>0. n \in Node /\ b \in Node /\ m \in Node /\ n # m /\ b # n /\ b # m /\ BootCount > 0
  BY DiscoveryAssumption DEF Middle
<1>1. /\ inbox' = inbox /\ made' = made
      /\ boots'[a] = BootCount /\ known'[a] = {} /\ answered'[a] = {} /\ ring'[a] = << >>
      /\ \A c \in Node : c # a => /\ known'[c] = known[c] /\ ring'[c] = ring[c]
                                  /\ boots'[c] = boots[c] /\ answered'[c] = answered[c]
      /\ unheard \subseteq unheard'
      /\ \A o \in Node : a \in answered[o] => <<o, a>> \in unheard'
  BY DEF Restart, MInv, IInv, Tables, Wires
<1>2. CASE a = n
  <2>1. n \in answered'[m] => Excused(n, m)'
    BY <1>0, <1>1, <1>2 DEF Excused
  <2>2. boots'[n] > 0
    BY <1>0, <1>1, <1>2
  <2> QED
    BY <2>1, <2>2 DEF Via, Told, Coming, Asking
<1>3. CASE a = m
  <2>1. answered'[m] = {} /\ ToSet(ring'[m]) = {} /\ boots'[m] > 0
    BY <1>0, <1>1, <1>3 DEF ToSet
  <2> QED
    BY <2>1 DEF Via, Asking
<1>4. CASE a = b
  BY <1>1, <1>4 DEF Via, Told
<1>5. CASE a # n /\ a # m /\ a # b
  <2>1. Coming(n, b, m) => Coming(n, b, m)'
    BY <1>0, <1>1, <1>5 DEF Coming, Excused, Full
  <2>2. Asking(n, b, m) => Asking(n, b, m)'
    BY <1>0, <1>1, <1>5 DEF Asking, Full
  <2> QED
    BY <1>0, <1>1, <1>5, <2>1, <2>2 DEF Via, Told
<1> QED
  BY <1>2, <1>3, <1>4, <1>5

LEMMA AcrossKeeps ==
    ASSUME MInv, MInv', [Next]_vars, NoneFar, Across
    PROVE  Across'
<1>1. IInv /\ IInv' /\ Rings
  BY DEF MInv
<1>2. CASE Next
  <2>1. PICK a \in Node :
          \/ BootAnnounce(a)
          \/ Duplicate(a) \/ Refuse(a) \/ LearnOnly(a) \/ PassOn(a) \/ Answer(a)
          \/ Lose(a) \/ Restart(a)
          \/ \E m \in answered[a] : Expire(a, m)
    BY <1>2 DEF Next
  <2>2. ASSUME NEW n \in Node, NEW b \in Node, NEW m \in Node, Middle(n, b, m), faults' = 0
        PROVE  Via(n, b, m)'
    <3>1. ~Lose(a)
      BY <2>2, FaultCounts DEF Lose, MInv
    <3>2. Via(n, b, m)
      BY <1>2, <2>2, Counts DEF Across
    <3>3. CASE Duplicate(a) \/ Refuse(a) \/ LearnOnly(a) \/ PassOn(a) \/ Answer(a)
      <4>1. PICK packet : Hears(a, packet)
        BY <1>1, <2>2, <3>3, DuplicateHears, RefuseHears, LearnOnlyHears, PassOnHears, AnswerHears
      <4> QED
        BY <1>1, <2>2, <3>2, <4>1, HearsVia
    <3> QED
      BY <1>1, <2>1, <2>2, <3>1, <3>2, <3>3, BootVia, ExpireVia, RestartVia
  <2> QED
    BY <2>2 DEF Across, Middle
<1>3. CASE UNCHANGED vars
  BY <1>3 DEF vars, Across, Via, Told, Coming, Asking, Excused, Full
<1> QED
  BY <1>2, <1>3

(* A device that has been on for a while was told of the devices its         *)
(* neighbours know.                                                          *)
Introduced ==
    \A n, b, m \in Node : Middle(n, b, m) /\ m \in ToSet(KnownBefore[b]) =>
        \/ KnownBefore[n] = << >> \/ KnownBefore[m] = << >>
        \/ m \in ToSet(KnownBefore[n]) \/ Len(KnownBefore[n]) = KnownMax
        \/ Len(KnownBefore[b]) = KnownMax /\ n \notin ToSet(KnownBefore[b])

LEMMA AcrossStart ==
    ASSUME Init, Introduced
    PROVE  Across
<1> SUFFICES ASSUME NEW n \in Node, NEW b \in Node, NEW m \in Node, Middle(n, b, m)
             PROVE  Via(n, b, m)
  BY DEF Across
<1>1. answered[m] = {} /\ ToSet(ring[m]) = {}
  BY DEF Init, ToSet
<1>2. BootCount > 0
  BY DiscoveryAssumption
<1>3. \A c \in {n, m} : KnownBefore[c] = << >> => boots[c] > 0
  BY <1>2 DEF Init
<1>4. \A c \in {n, b} : /\ known[c] = ToSet(KnownBefore[c])
                        /\ Len(KnownBefore[c]) = KnownMax => Full(c)
  BY FullAtStart DEF Init
<1>5. Told(n, b, m) \/ Asking(n, b, m)
  BY <1>3, <1>4 DEF Introduced, Told, Coming, Asking, Excused
<1> QED
  BY <1>1, <1>5 DEF Via

(* Everybody meets (app_main.c: three announces at the start, and an answer  *)
(* to whoever was not answered lately; rns_transport_core.c: what is new is  *)
(* passed on): when the air is quiet and nothing was lost, a device knows    *)
(* its neighbours and the devices a neighbour of both knows, unless a table  *)
(* is full or it restarted within the cooldown of the answer its former life *)
(* was given.  Met in any network, while no announce has come to the limit   *)
(* of 255 hops: one that has is not passed on.                               *)
THEOREM EverybodyMeets ==
    ASSUME Mutual, Acquainted, Introduced
    PROVE  Spec /\ []NoneFar => []Met
<1>1. Init => MInv /\ Across
  BY MeetStart, AcrossStart
<1>2. MInv /\ [Next]_vars => MInv'
  BY MeetKeeps
<1>3. MInv /\ MInv' /\ Across /\ NoneFar /\ [Next]_vars => Across'
  BY AcrossKeeps
<1>4. MInv /\ Across => Met
  <2> SUFFICES ASSUME MInv, Across, Quiet, faults = 0,
                      NEW n \in Node, NEW m \in Node \ {n}, Linked(n, m)
               PROVE  Excused(n, m)
    BY DEF Met
  <2>1. \A c \in Node : inbox[c] = << >> /\ ~(boots[c] > 0)
    BY DEF Quiet
  <2>2. \A c \in Node : \A x : ~Comes(inbox[c], x) /\ ~Holds(inbox[c], x)
    BY <2>1 DEF Comes, Holds
  <2>3. CASE m \in Neighbours[n]
    <3>1. Meets(n, m)
      BY <2>3 DEF MInv, Near
    <3> QED
      BY <2>1, <2>2, <3>1 DEF Meets, Asks
  <2>4. CASE m \notin Neighbours[n]
    <3>1. PICK b \in Neighbours[n] \cap Neighbours[m] : {n, m} \subseteq known[b]
      BY <2>4 DEF Linked
    <3>2. Middle(n, b, m)
      BY <2>4, <3>1, DiscoveryAssumption DEF Middle, Mutual
    <3>3. Told(n, b, m) \/ Asking(n, b, m)
      BY <3>2 DEF Across, Via, Middle
    <3>4. ~Asking(n, b, m)
      BY <2>1, <2>2, <3>1, <3>2 DEF Asking, Unseen, Middle
    <3> QED
      BY <2>2, <3>1, <3>2, <3>3, <3>4 DEF Told, Coming, Unseen, Middle
  <2> QED
    BY <2>3, <2>4
<1> QED
  BY <1>1, <1>2, <1>3, <1>4, PTL DEF Spec
=============================================================================
