------------------------- MODULE WebTransportProofs -------------------------
(***************************************************************************)
(* What the two ends of slopnet_webtransport.c keep true of each other,    *)
(* for every size of their rings and windows and every number of messages. *)
(*                                                                         *)
(* TransportTypeOK is the type invariant in the form a step keeps; four    *)
(* invariants stand on it.  NoAckMissed is inductive as it is.  StreamInv  *)
(* says what a receiver that was not disturbed has in its slots.  AckInv   *)
(* says what an acknowledged packet number stands for, and UsedInv which   *)
(* numbers were used before they wrap.                                     *)
(***************************************************************************)
EXTENDS WebTransport, SequenceBufferProofs, SequenceTheorems, WellFoundedInduction

DatagramType == [to: Peer, sequence: SeqNum, acks: SUBSET SeqNum,
                 packet: Packet, at: Nat]

MessageType == [timestamp: Nat, ack_sequence: SeqNum, datagram: DatagramType]

TransportTypeOK ==
  /\ sequence \in [Peer -> SeqNum]
  /\ sent \in [Peer -> Buffer(SentSize)]
  /\ received \in [Peer -> Buffer(ReceivedSize)]
  /\ acked \in [Peer -> SUBSET (0 .. SentSize - 1)]
  /\ time \in [Peer -> Nat]
  /\ next_outgoing \in [Peer -> Header]
  /\ next_incoming \in [Peer -> Header]
  /\ incoming \in [Peer -> [Slot -> Payload \cup {None}]]
  /\ submitted \in [Peer -> Nat] /\ unreliable \in [Peer -> Nat]
  /\ delivered \in [Peer -> Seq(Payload)]
  /\ seen \in [Peer -> SUBSET Payload]
  /\ disturbed \in [Peer -> BOOLEAN]
  /\ net \subseteq DatagramType
  /\ outgoing \in [Peer -> SUBSET MessageType]
  /\ \A p \in Peer : IsFiniteSet(outgoing[p]) /\ Cardinality(outgoing[p]) <= Window

\* A packet of the stream has the number of its payload, in 7 bits.
Numbered(packet) == packet.header # Unreliable => packet.header = packet.payload % RelMod

\* All that is on the way carries its number, and so will the next message.
NumberedInv ==
  /\ \A d \in net : Numbered(d.packet)
  /\ \A p \in Peer : /\ next_outgoing[p] = submitted[p] % RelMod
                     /\ \A m \in outgoing[p] : Numbered(m.datagram.packet)

\* An undisturbed receiver has delivered 0 .. n - 1, waits for n, and holds in
\* each slot the one message after n that belongs there, or nothing.
Ordered(p) ==
  LET n == Len(delivered[p])
  IN  /\ InOrder(p)
      /\ next_incoming[p] = n % RelMod
      /\ \A i \in Slot : incoming[p][i] # None =>
           /\ incoming[p][i] \in n + 1 .. n + Slots - 1
           /\ incoming[p][i] % Slots = i
      /\ \A m \in seen[p] : m < n \/ m \in Stored(p)

StreamInv == NumberedInv /\ \A p \in Peer : ~ disturbed[p] => Ordered(p)

\* The datagrams that may still be received: on the network, or kept to be sent
\* again.
OnTheWay == net \cup {m.datagram : m \in UNION {outgoing[p] : p \in Peer}}

\* An ack that is on its way to a message was caused by that message: a datagram
\* that acknowledges the packet of an outstanding message left after the other
\* end had processed the message, and so for the packets it has on record.
AckInv ==
  /\ \A d \in OnTheWay : \A m \in outgoing[d.to] :
       m.ack_sequence \in d.acks => m.datagram.packet.payload \in seen[Other(d.to)]
  /\ \A p \in Peer : \A m \in outgoing[p] :
       /\ m.datagram.to = Other(p) /\ m.datagram.sequence = m.ack_sequence
       /\ m.datagram.packet.header # Unreliable
       /\ Exists(received[Other(p)], m.ack_sequence) =>
            m.datagram.packet.payload \in seen[Other(p)]
       /\ \A d \in OnTheWay :
            d.to = Other(p) /\ d.sequence = m.ack_sequence => d.packet = m.datagram.packet
  /\ GivenUpOnlyIfSeen

\* Nothing is left of the last packet of p that had number s.
Free(p, s) ==
  /\ \A d \in OnTheWay : /\ d.to = Other(p) => d.sequence # s
                         /\ d.to = p => s \notin d.acks
  /\ ~ Exists(received[Other(p)], s)

\* No packet is sent under a number of which something is left.
SendsFree ==
  \A p \in Peer : SendReliable(p) \/ SendUnreliable(p) => Free(p, sequence[p])

\* The connection is over before the packet numbers wrap.
NumbersSuffice == \A p \in Peer : MaxReliable[p] + MaxUnreliable[p] < SeqMod

\* Only numbers of packets that were sent are on the way or on record.
UsedInv ==
  /\ \A p \in Peer : /\ sequence[p] = submitted[p] + unreliable[p]
                     /\ submitted[p] <= MaxReliable[p]
                     /\ unreliable[p] <= MaxUnreliable[p]
  /\ \A d \in OnTheWay : /\ d.sequence < sequence[Other(d.to)]
                         /\ \A s \in d.acks : s < sequence[d.to]
  /\ \A p \in Peer : \A s \in SeqNum :
       Exists(received[p], s) => s < sequence[Other(p)]

-----------------------------------------------------------------------------
(* The constants and the two ends.                                         *)

\* What the assumptions say of the constants.
LEMMA TransportFacts ==
  /\ Window \in Nat /\ Window > 0 /\ Slots \in Nat /\ Slots > 0
  /\ RelMod \in Nat /\ RelMod > 0 /\ RelMod >= Slots /\ RelMod % Slots = 0
  /\ SentSize \in Nat /\ SentSize > 0 /\ ReceivedSize \in Nat /\ ReceivedSize > 0
  /\ AckBits \in Nat /\ ResendDelay \in Nat
  /\ \A p \in Peer : MaxReliable[p] \in Nat /\ MaxUnreliable[p] \in Nat
  /\ \A x \in Int : x % RelMod \in Header /\ x % Slots \in Slot
<1>1. /\ Window \in Nat /\ Window > 0 /\ RelMod \in Nat /\ Slots = 2 * Window
      /\ RelMod >= Slots /\ RelMod % Slots = 0
  BY WebTransportAssumption DEF Slots
<1>2. Slots \in Nat /\ Slots > 0 /\ RelMod > 0
  BY <1>1
<1>3. \A x \in Int : x % RelMod \in Header /\ x % Slots \in Slot
  BY <1>1, <1>2, Division DEF Header, Slot
<1> QED BY <1>1, <1>2, <1>3, WebTransportAssumption

\* Each end has one other, whose other it is.
LEMMA OtherPeer ==
  ASSUME NEW p \in Peer
  PROVE  /\ Other(p) \in Peer /\ Other(p) # p /\ Other(Other(p)) = p
         /\ \A q \in Peer : q = p \/ q = Other(p)
<1>1. PICK a \in Peer, b \in Peer : a # b /\ Peer = {a, b}
  BY PeerAssumption
<1>2. ASSUME NEW q \in Peer PROVE Other(q) \in Peer /\ Other(q) # q
  <2>1. \E r \in Peer : r # q
    BY <1>1
  <2> QED BY <2>1 DEF Other
<1> QED BY <1>1, <1>2

\* A non-empty set of natural numbers has a least one.
LEMMA LeastNat ==
  ASSUME NEW T \in SUBSET Nat, T # {}
  PROVE  \E x \in T : \A y \in T : x <= y
<1> DEFINE R == OpToRel(<, Nat)
<1>1. \E x \in T : \A y \in T : ~ (<<y, x>> \in R)
  <2>1. IsWellFoundedOn(R, Nat)
    BY NatLessThanWellFounded
  <2> HIDE DEF R
  <2> QED BY <2>1, WFMin
<1>2. \A x, y \in Nat : x < y => <<x, y>> \in R
  BY DEF OpToRel
<1>3. \A x, y \in Nat : x < y \/ y <= x
  OBVIOUS
<1>4. \A x \in T : x \in Nat
  OBVIOUS
<1> HIDE DEF R
<1> QED BY <1>1, <1>2, <1>3, <1>4, Zenon

-----------------------------------------------------------------------------
(* Types.                                                                  *)

\* Acks are packet numbers.
LEMMA AckSetType ==
  ASSUME NEW b, b.sequence \in Int, NEW bits
  PROVE  /\ AckSet(b, bits) \subseteq SeqNum
         /\ \A s \in AckSet(b, bits) : Exists(b, s)
<1>1. \A i \in 0 .. bits - 1 : i \in Int
  OBVIOUS
<1>2. \A i \in Int : Wrap(b.sequence - 1 - i) \in SeqNum
  BY WrapType
<1> QED BY <1>1, <1>2 DEF AckSet

\* A packet is sent: the types of all that changes.
LEMMA SendPacketType ==
  ASSUME TransportTypeOK, NEW p \in Peer, NEW packet \in Packet, SendPacket(p, packet)
  PROVE  /\ sequence' \in [Peer -> SeqNum]
         /\ sent' \in [Peer -> Buffer(SentSize)]
         /\ acked' \in [Peer -> SUBSET (0 .. SentSize - 1)]
         /\ received' = received
         /\ net' \subseteq DatagramType
         /\ Datagram(p, packet) \in DatagramType
<1>1. sequence[p] \in SeqNum /\ sequence[p] \in Int /\ time[p] \in Nat
  BY DEF TransportTypeOK, SeqNum
<1>2. Wrap(sequence[p] + 1) \in SeqNum
  BY <1>1, WrapType
<1>3. Insert(sent[p], sequence[p]) \in Buffer(SentSize)
  BY <1>1, TransportFacts, InsertRing DEF TransportTypeOK
<1>4. Datagram(p, packet) \in DatagramType
  <2>1. received[p].sequence \in Int
    BY DEF TransportTypeOK, Buffer, SeqNum
  <2>2. AckSet(received[p], AckBits) \in SUBSET SeqNum
    BY <2>1, AckSetType
  <2> QED BY <2>2, <1>1, OtherPeer DEF Datagram, DatagramType
<1>5. sequence' \in [Peer -> SeqNum]
  BY <1>2 DEF SendPacket, TransportTypeOK
<1>6. sent' \in [Peer -> Buffer(SentSize)]
  BY <1>3 DEF SendPacket, TransportTypeOK
<1>7. acked' \in [Peer -> SUBSET (0 .. SentSize - 1)]
  BY DEF SendPacket, TransportTypeOK
<1>8. net' \subseteq DatagramType
  BY <1>4 DEF SendPacket, TransportTypeOK
<1> QED BY <1>4, <1>5, <1>6, <1>7, <1>8 DEF SendPacket

\* A reliable message is sent.
LEMMA SendReliableType ==
  ASSUME TransportTypeOK, NEW p \in Peer, SendReliable(p)
  PROVE  TransportTypeOK'
<1> DEFINE packet == [header |-> next_outgoing[p], payload |-> submitted[p]]
           m == [timestamp |-> time[p], ack_sequence |-> sequence[p],
                 datagram |-> Datagram(p, packet)]
<1>1. packet \in Packet
  BY DEF TransportTypeOK, Packet, Payload
<1>2. /\ SendPacket(p, packet)
      /\ outgoing' = [outgoing EXCEPT ![p] = @ \cup {m}]
      /\ next_outgoing' = [next_outgoing EXCEPT ![p] = (@ + 1) % RelMod]
      /\ submitted' = [submitted EXCEPT ![p] = @ + 1]
      /\ UNCHANGED <<receiver, time, unreliable>>
      /\ Cardinality(outgoing[p]) < Window
  BY DEF SendReliable, WindowOpen
<1>3. /\ sequence' \in [Peer -> SeqNum]
      /\ sent' \in [Peer -> Buffer(SentSize)]
      /\ acked' \in [Peer -> SUBSET (0 .. SentSize - 1)]
      /\ received' = received
      /\ net' \subseteq DatagramType
      /\ Datagram(p, packet) \in DatagramType
  BY <1>1, <1>2, SendPacketType
<1>4. m \in MessageType
  BY <1>3 DEF TransportTypeOK, MessageType
<1> HIDE DEF packet, m
<1>5. next_outgoing' \in [Peer -> Header] /\ submitted' \in [Peer -> Nat]
  <2>1. next_outgoing[p] + 1 \in Int
    BY DEF TransportTypeOK, Header
  <2>2. (next_outgoing[p] + 1) % RelMod \in Header
    BY <2>1, TransportFacts
  <2> QED BY <2>2, <1>2 DEF TransportTypeOK
<1>6. outgoing' \in [Peer -> SUBSET MessageType]
  BY <1>2, <1>4 DEF TransportTypeOK
<1>7. ASSUME NEW q \in Peer
      PROVE  IsFiniteSet(outgoing'[q]) /\ Cardinality(outgoing'[q]) <= Window
  <2>1. IsFiniteSet(outgoing[q]) /\ Cardinality(outgoing[q]) <= Window
    BY DEF TransportTypeOK
  <2>2. CASE q = p
    <3>1. outgoing'[q] = outgoing[q] \cup {m}
      BY <2>2, <1>2 DEF TransportTypeOK
    <3>2. /\ IsFiniteSet(outgoing[q] \cup {m})
          /\ Cardinality(outgoing[q] \cup {m})
               = IF m \in outgoing[q] THEN Cardinality(outgoing[q])
                                      ELSE Cardinality(outgoing[q]) + 1
      BY <2>1, FS_AddElement
    <3>3. Cardinality(outgoing[q]) \in Nat /\ Cardinality(outgoing[q]) < Window
      BY <2>1, <2>2, <1>2, FS_CardinalityType
    <3>4. Window \in Nat
      BY TransportFacts
    <3>5. Cardinality(outgoing[q] \cup {m}) <= Window
      BY <3>2, <3>3, <3>4
    <3> QED BY <3>1, <3>2, <3>5
  <2>3. CASE q # p
    BY <2>1, <2>3, <1>2 DEF TransportTypeOK
  <2> QED BY <2>2, <2>3
<1> QED BY <1>2, <1>3, <1>5, <1>6, <1>7 DEF TransportTypeOK, receiver

\* An unreliable message is sent.
LEMMA SendUnreliableType ==
  ASSUME TransportTypeOK, NEW p \in Peer, SendUnreliable(p)
  PROVE  TransportTypeOK'
<1> DEFINE packet == [header |-> Unreliable, payload |-> None]
<1>1. packet \in Packet
  BY DEF Packet
<1>2. /\ SendPacket(p, packet)
      /\ unreliable' = [unreliable EXCEPT ![p] = @ + 1]
      /\ UNCHANGED <<receiver, time, next_outgoing, outgoing, submitted>>
  BY DEF SendUnreliable
<1>3. /\ sequence' \in [Peer -> SeqNum]
      /\ sent' \in [Peer -> Buffer(SentSize)]
      /\ acked' \in [Peer -> SUBSET (0 .. SentSize - 1)]
      /\ received' = received
      /\ net' \subseteq DatagramType
  BY <1>1, <1>2, SendPacketType
<1>4. unreliable' \in [Peer -> Nat]
  BY <1>2 DEF TransportTypeOK
<1> QED BY <1>2, <1>3, <1>4 DEF TransportTypeOK, receiver

\* What snet_wt_update makes of a message: itself, or the same sent again.
Resent(p, m) == IF Due(p, m) THEN [m EXCEPT !.timestamp = time'[p]] ELSE m

\* A retransmission keeps all but the times of a message and its datagram.
LEMMA ResentMessage ==
  ASSUME TransportTypeOK, NEW p \in Peer, Update(p)
  PROVE  /\ \A q \in Peer : time'[q] \in Nat
         /\ \A m \in outgoing[p] :
              /\ Resent(p, m) \in MessageType
              /\ Resent(p, m).ack_sequence = m.ack_sequence
              /\ Resent(p, m).datagram = m.datagram
              /\ LET d == [m.datagram EXCEPT !.at = time'[p]]
                 IN  /\ d \in DatagramType
                     /\ d.to = m.datagram.to /\ d.sequence = m.datagram.sequence
                     /\ d.acks = m.datagram.acks /\ d.packet = m.datagram.packet
         /\ outgoing' = [outgoing EXCEPT ![p] = {Resent(p, m) : m \in @}]
         /\ \A d \in net' : d \in net \/ \E m \in outgoing[p] :
                                           d = [m.datagram EXCEPT !.at = time'[p]]
<1>1. time' \in [Peer -> Nat]
  BY DEF Update, TransportTypeOK
<1>2. ASSUME NEW m \in outgoing[p]
      PROVE  /\ Resent(p, m) \in MessageType
             /\ Resent(p, m).ack_sequence = m.ack_sequence
             /\ Resent(p, m).datagram = m.datagram
             /\ LET d == [m.datagram EXCEPT !.at = time'[p]]
                IN  /\ d \in DatagramType
                    /\ d.to = m.datagram.to /\ d.sequence = m.datagram.sequence
                    /\ d.acks = m.datagram.acks /\ d.packet = m.datagram.packet
  <2>1. m \in MessageType /\ time'[p] \in Nat
    BY <1>1 DEF TransportTypeOK
  <2>2. m.datagram \in DatagramType
    BY <2>1 DEF MessageType
  <2>3. /\ [m EXCEPT !.timestamp = time'[p]] \in MessageType
        /\ [m EXCEPT !.timestamp = time'[p]].ack_sequence = m.ack_sequence
        /\ [m EXCEPT !.timestamp = time'[p]].datagram = m.datagram
    BY <2>1 DEF MessageType
  <2>4. LET d == [m.datagram EXCEPT !.at = time'[p]]
        IN  /\ d \in DatagramType
            /\ d.to = m.datagram.to /\ d.sequence = m.datagram.sequence
            /\ d.acks = m.datagram.acks /\ d.packet = m.datagram.packet
    BY <2>1, <2>2 DEF DatagramType
  <2> QED BY <2>1, <2>3, <2>4 DEF Resent
<1>3. outgoing' = [outgoing EXCEPT ![p] = {Resent(p, m) : m \in @}]
  BY DEF Update, Resent
<1>4. \A d \in net' : d \in net \/ \E m \in outgoing[p] :
                                     d = [m.datagram EXCEPT !.at = time'[p]]
  BY DEF Update
<1> QED BY <1>1, <1>2, <1>3, <1>4

\* Messages are sent again.
LEMMA UpdateType ==
  ASSUME TransportTypeOK, NEW p \in Peer, Update(p)
  PROVE  TransportTypeOK'
<1>1. /\ time' \in [Peer -> Nat]
      /\ UNCHANGED <<endpoint, receiver, next_outgoing, submitted, unreliable>>
  BY DEF Update, TransportTypeOK
<1>2. /\ outgoing' = [outgoing EXCEPT ![p] = {Resent(p, m) : m \in @}]
      /\ \A m \in outgoing[p] : Resent(p, m) \in MessageType
      /\ net' \subseteq DatagramType
  <2>1. ASSUME NEW d \in net' PROVE d \in DatagramType
    <3>1. d \in net \/ \E m \in outgoing[p] : d = [m.datagram EXCEPT !.at = time'[p]]
      BY ResentMessage
    <3>2. \A m \in outgoing[p] : [m.datagram EXCEPT !.at = time'[p]] \in DatagramType
      BY ResentMessage
    <3> QED BY <3>1, <3>2 DEF TransportTypeOK
  <2> QED BY <2>1, ResentMessage
<1>3. outgoing' \in [Peer -> SUBSET MessageType]
  BY <1>2 DEF TransportTypeOK
<1>4. ASSUME NEW q \in Peer
      PROVE  IsFiniteSet(outgoing'[q]) /\ Cardinality(outgoing'[q]) <= Window
  <2>1. IsFiniteSet(outgoing[q]) /\ Cardinality(outgoing[q]) <= Window
    BY DEF TransportTypeOK
  <2>2. CASE q = p
    <3> DEFINE S == outgoing[q]
               T == {Resent(p, m) : m \in S}
               f == [m \in S |-> Resent(p, m)]
    <3>1. outgoing'[q] = T
      BY <2>2, <1>2 DEF TransportTypeOK
    <3>2. f \in Surjection(S, T)
      BY DEF Surjection
    <3> HIDE DEF f, S, T
    <3>3. IsFiniteSet(T) /\ Cardinality(T) <= Cardinality(S)
      BY <3>2, <2>1, FS_Surjection DEF S
    <3>4. Cardinality(S) \in Nat /\ Cardinality(T) \in Nat
      BY <3>3, <2>1, FS_CardinalityType DEF S
    <3> QED BY <3>1, <3>3, <3>4, <2>1, TransportFacts DEF S
  <2>3. CASE q # p
    BY <2>1, <2>3, <1>2 DEF TransportTypeOK
  <2> QED BY <2>2, <2>3
<1> QED BY <1>1, <1>2, <1>3, <1>4 DEF TransportTypeOK, endpoint, receiver

\* The queue that follows is well defined: it ends at the first empty slot.
LEMMA DrainedIs ==
  ASSUME TransportTypeOK, NEW p \in Peer
  PROVE  /\ Drained(p) \in 0 .. Slots
         /\ \A j \in 1 .. Drained(p) : incoming[p][SlotOf(Expected(p, j))] # None
         /\ Drained(p) < Slots =>
              incoming[p][SlotOf(Expected(p, Drained(p) + 1))] = None
<1> DEFINE At(j) == incoming[p][SlotOf(Expected(p, j))]
           Good(k) == /\ \A j \in 1 .. k : At(j) # None
                      /\ k < Slots => At(k + 1) = None
           T == {k \in 0 .. Slots - 1 : At(k + 1) = None}
<1>1. Slots \in Nat
  BY TransportFacts
<1>2. \E k \in 0 .. Slots : Good(k)
  <2> HIDE DEF At
  <2>1. CASE T = {}
    <3>1. \A j \in 1 .. Slots : At(j) # None
      <4> SUFFICES ASSUME NEW j \in 1 .. Slots, At(j) = None PROVE FALSE
        OBVIOUS
      <4>1. j - 1 \in 0 .. Slots - 1 /\ (j - 1) + 1 = j
        BY <1>1
      <4> QED BY <4>1, <2>1
    <3>2. Good(Slots) /\ Slots \in 0 .. Slots
      BY <3>1, <1>1
    <3> QED BY <3>2
  <2>2. CASE T # {}
    <3>1. PICK k \in T : \A y \in T : k <= y
      <4>1. T \in SUBSET Nat
        BY <1>1
      <4> HIDE DEF T
      <4> QED BY <4>1, <2>2, LeastNat
    <3>2. \A j \in 1 .. k : At(j) # None
      <4> SUFFICES ASSUME NEW j \in 1 .. k, At(j) = None PROVE FALSE
        OBVIOUS
      <4>1. j - 1 \in 0 .. Slots - 1 /\ (j - 1) + 1 = j /\ ~ (k <= j - 1)
        BY <1>1
      <4> QED BY <4>1, <3>1
    <3> QED BY <3>1, <3>2, <1>1
  <2> QED BY <2>1, <2>2
<1>3. Drained(p) = CHOOSE k \in 0 .. Slots : Good(k)
  BY DEF Drained
<1> HIDE DEF Good
<1>4. Drained(p) \in 0 .. Slots /\ Good(Drained(p))
  BY <1>2, <1>3
<1> QED BY <1>4 DEF Good

\* Where the stream stands after k more messages.
LEMMA ExpectedType ==
  ASSUME TransportTypeOK, NEW p \in Peer, NEW k \in Nat
  PROVE  Expected(p, k) \in Header /\ SlotOf(Expected(p, k)) \in Slot
<1>1. next_incoming[p] + k \in Int
  BY DEF TransportTypeOK, Header
<1>2. Expected(p, k) \in Header /\ Expected(p, k) \in Int
  BY <1>1, TransportFacts DEF Expected, Header
<1> QED BY <1>2, TransportFacts DEF SlotOf

\* What a delivery makes of the messages delivered.
Extended(s, x, q) == s \o <<x>> \o q

LEMMA DeliveryType ==
  ASSUME NEW s \in Seq(Nat), NEW x \in Nat, NEW q \in Seq(Nat)
  PROVE  Extended(s, x, q) \in Seq(Nat)
  BY DEF Extended

\* Its length and its places.
LEMMA DeliverySeq ==
  ASSUME NEW s \in Seq(Nat), NEW x \in Nat, NEW q \in Seq(Nat)
  PROVE  /\ Len(Extended(s, x, q)) = Len(s) + 1 + Len(q)
         /\ \A i \in 1 .. Len(s) : Extended(s, x, q)[i] = s[i]
         /\ Extended(s, x, q)[Len(s) + 1] = x
         /\ \A j \in 1 .. Len(q) : Extended(s, x, q)[Len(s) + 1 + j] = q[j]
<1>1. /\ s \o <<x>> \in Seq(Nat) /\ Len(s \o <<x>>) = Len(s) + 1
      /\ \A i \in 1 .. Len(s) : (s \o <<x>>)[i] = s[i]
      /\ (s \o <<x>>)[Len(s) + 1] = x
      /\ Len(s) \in Nat /\ Len(q) \in Nat
  OBVIOUS
<1> DEFINE t == s \o <<x>>
<1>2. t \in Seq(Nat) /\ Len(t) = Len(s) + 1
  BY <1>1
<1>3. /\ t \o q \in Seq(Nat) /\ Len(t \o q) = Len(t) + Len(q)
      /\ \A i \in 1 .. Len(t) + Len(q) :
           (t \o q)[i] = IF i <= Len(t) THEN t[i] ELSE q[i - Len(t)]
  <2> HIDE DEF t
  <2> QED BY <1>2, ConcatProperties
<1>4. t[Len(s) + 1] = x /\ \A i \in 1 .. Len(s) : t[i] = s[i]
  BY <1>1
<1>5. t \o q = Extended(s, x, q)
  BY DEF Extended
<1> HIDE DEF t
<1>6. /\ t \o q \in Seq(Nat) /\ Len(t \o q) = Len(s) + 1 + Len(q)
      /\ \A i \in 1 .. Len(s) : (t \o q)[i] = s[i]
      /\ (t \o q)[Len(s) + 1] = x
  BY <1>1, <1>2, <1>3, <1>4
<1>7. ASSUME NEW j \in 1 .. Len(q) PROVE (t \o q)[Len(s) + 1 + j] = q[j]
  <2>1. /\ Len(s) + 1 + j \in 1 .. Len(t) + Len(q) /\ ~ (Len(s) + 1 + j <= Len(t))
        /\ (Len(s) + 1 + j) - Len(t) = j
    BY <1>1, <1>2
  <2> QED BY <2>1, <1>3
<1> QED BY <1>5, <1>6, <1>7

\* The queued messages that are delivered with the one that arrived.
Following(p) ==
  [j \in 1 .. Drained(p) |-> incoming[p][SlotOf(Expected(p, j))]]

\* What a delivery changes, with the types of it.
LEMMA DeliverStep ==
  ASSUME TransportTypeOK, NEW p \in Peer, NEW packet \in Packet,
         packet.header # Unreliable, DeliverInOrder(p, packet)
  PROVE  /\ packet.payload \in Nat
         /\ Drained(p) \in 0 .. Slots /\ Drained(p) \in Nat
         /\ Following(p) \in Seq(Nat) /\ Len(Following(p)) = Drained(p)
         /\ \A j \in 1 .. Drained(p) :
              Following(p)[j] = incoming[p][SlotOf(Expected(p, j))]
         /\ delivered' = [delivered EXCEPT ![p] = Extended(@, packet.payload, Following(p))]
         /\ delivered' \in [Peer -> Seq(Payload)]
         /\ next_incoming' = [next_incoming EXCEPT ![p] = Expected(p, Drained(p) + 1)]
         /\ next_incoming' \in [Peer -> Header]
         /\ incoming' = [incoming EXCEPT ![p] =
              [i \in Slot |-> IF \E j \in 1 .. Drained(p) : i = SlotOf(Expected(p, j))
                              THEN None ELSE @[i]]]
         /\ incoming' \in [Peer -> [Slot -> Payload \cup {None}]]
<1> DEFINE k == Drained(p)
           queued == Following(p)
<1>1. /\ k \in 0 .. Slots /\ k \in Nat
      /\ \A j \in 1 .. k : incoming[p][SlotOf(Expected(p, j))] # None
  BY DrainedIs, TransportFacts
<1>2. packet.payload \in Nat
  BY DEF Packet, Payload
<1>3. /\ delivered' = [delivered EXCEPT ![p] = Extended(@, packet.payload, queued)]
      /\ next_incoming' = [next_incoming EXCEPT ![p] = Expected(p, k + 1)]
      /\ incoming' = [incoming EXCEPT ![p] =
           [i \in Slot |-> IF i \in {SlotOf(Expected(p, j)) : j \in 1 .. k}
                           THEN None ELSE @[i]]]
  BY DEF DeliverInOrder, Following, Extended
<1>4. /\ queued \in Seq(Nat) /\ Len(queued) = k
      /\ \A j \in 1 .. k : queued[j] = incoming[p][SlotOf(Expected(p, j))]
  <2> HIDE DEF k
  <2>1. ASSUME NEW j \in 1 .. k PROVE incoming[p][SlotOf(Expected(p, j))] \in Nat
    <3>1. SlotOf(Expected(p, j)) \in Slot
      BY <1>1, ExpectedType
    <3> QED BY <3>1, <1>1 DEF TransportTypeOK, Payload
  <2>2. /\ Following(p) = [j \in 1 .. k |-> incoming[p][SlotOf(Expected(p, j))]]
        /\ k \in Nat
    BY <1>1 DEF Following, k
  <2>3. Following(p) \in Seq(Nat) /\ Len(Following(p)) = k
    BY <2>1, <2>2
  <2> QED BY <2>2, <2>3
<1> HIDE DEF k, queued
<1>5. delivered' \in [Peer -> Seq(Payload)]
  <2>1. delivered[p] \in Seq(Nat)
    BY DEF TransportTypeOK, Payload
  <2>2. Extended(delivered[p], packet.payload, queued) \in Seq(Nat)
    BY <1>1, <1>2, <1>4, <2>1, DeliveryType
  <2> QED BY <2>2, <1>3 DEF TransportTypeOK, Payload
<1>6. next_incoming' \in [Peer -> Header]
  <2>1. Expected(p, k + 1) \in Header
    BY <1>1, ExpectedType
  <2> QED BY <2>1, <1>3 DEF TransportTypeOK
<1>7. incoming' = [incoming EXCEPT ![p] =
        [i \in Slot |-> IF \E j \in 1 .. k : i = SlotOf(Expected(p, j))
                        THEN None ELSE @[i]]]
  BY <1>3
<1>8. incoming' \in [Peer -> [Slot -> Payload \cup {None}]]
  <2>1. [i \in Slot |-> IF \E j \in 1 .. k : i = SlotOf(Expected(p, j))
                        THEN None ELSE incoming[p][i]]
          \in [Slot -> Payload \cup {None}]
    BY DEF TransportTypeOK
  <2> QED BY <2>1, <1>7 DEF TransportTypeOK
<1> QED BY <1>1, <1>2, <1>3, <1>4, <1>5, <1>6, <1>7, <1>8 DEF k, queued

\* The receiver keeps its types, whatever packet it processes.
LEMMA ProcessType ==
  ASSUME TransportTypeOK, NEW p \in Peer, NEW packet \in Packet, Process(p, packet)
  PROVE  /\ next_incoming' \in [Peer -> Header]
         /\ incoming' \in [Peer -> [Slot -> Payload \cup {None}]]
         /\ delivered' \in [Peer -> Seq(Payload)]
         /\ seen' \in [Peer -> SUBSET Payload]
         /\ disturbed' \in [Peer -> BOOLEAN]
<1>1. CASE packet.header = Unreliable
  BY <1>1 DEF Process, receiver, TransportTypeOK
<1>2. CASE packet.header # Unreliable
  <2>1. packet.payload \in Payload /\ packet.header \in Header /\ packet.header \in Int
    BY <1>2 DEF Packet, Header
  <2>2. seen' \in [Peer -> SUBSET Payload] /\ disturbed' \in [Peer -> BOOLEAN]
    <3>1. seen' = [seen EXCEPT ![p] = @ \cup {packet.payload}]
      BY <1>2 DEF Process
    <3>2. (disturbed[p] \/ Disturbs(p, packet)) \in BOOLEAN
      OBVIOUS
    <3>3. disturbed' = [disturbed EXCEPT ![p] = (disturbed[p] \/ Disturbs(p, packet))]
      BY <1>2, Zenon DEF Process
    <3>4. disturbed \in [Peer -> BOOLEAN] /\ seen \in [Peer -> SUBSET Payload]
      BY DEF TransportTypeOK
    <3>5. disturbed' \in [Peer -> BOOLEAN]
      BY <3>2, <3>3, <3>4, Zenon
    <3> QED BY <2>1, <3>1, <3>4, <3>5
  <2>3. CASE DeliverInOrder(p, packet)
    <3>1. /\ next_incoming' \in [Peer -> Header]
          /\ incoming' \in [Peer -> [Slot -> Payload \cup {None}]]
          /\ delivered' \in [Peer -> Seq(Payload)]
      BY <1>2, <2>3, DeliverStep
    <3> QED BY <3>1, <2>2
  <2>4. CASE Queue(p, packet)
    <3>1. SlotOf(packet.header) \in Slot
      BY <2>1, TransportFacts DEF SlotOf
    <3>2. incoming' \in [Peer -> [Slot -> Payload \cup {None}]]
      BY <3>1, <2>1, <2>4 DEF Queue, TransportTypeOK
    <3>3. delivered' = delivered /\ next_incoming' = next_incoming
      BY <2>4 DEF Queue
    <3> QED BY <3>2, <3>3, <2>2 DEF TransportTypeOK
  <2> QED BY <1>2, <2>3, <2>4 DEF Process
<1> QED BY <1>1, <1>2

\* A datagram arrives.
LEMMA ReceiveType ==
  ASSUME TransportTypeOK, NEW p \in Peer, NEW d \in net, Receive(p, d)
  PROVE  TransportTypeOK'
<1>1. d \in DatagramType /\ d.packet \in Packet /\ d.sequence \in SeqNum
  BY DEF TransportTypeOK, DatagramType
<1>2. /\ net' \subseteq DatagramType
      /\ ReceivePacket(p, d)
      /\ outgoing' = [outgoing EXCEPT ![p] = StillOutgoing(p, NewlyAcked(p, d))]
      /\ UNCHANGED <<sequence, sent, time, next_outgoing, submitted, unreliable>>
  BY DEF Receive, TransportTypeOK
<1>3. /\ next_incoming' \in [Peer -> Header]
      /\ incoming' \in [Peer -> [Slot -> Payload \cup {None}]]
      /\ delivered' \in [Peer -> Seq(Payload)]
      /\ seen' \in [Peer -> SUBSET Payload]
      /\ disturbed' \in [Peer -> BOOLEAN]
      /\ received' \in [Peer -> Buffer(ReceivedSize)]
      /\ acked' \in [Peer -> SUBSET (0 .. SentSize - 1)]
  <2>1. CASE TestInsert(received[p], d.sequence)
    <3>1. /\ Process(p, d.packet)
          /\ received' = [received EXCEPT ![p] = Insert(@, d.sequence)]
          /\ acked' = [acked EXCEPT ![p] = @ \cup {s % SentSize : s \in NewlyAcked(p, d)}]
      BY <1>2, <2>1 DEF ReceivePacket
    <3>2. Insert(received[p], d.sequence) \in Buffer(ReceivedSize)
      BY <1>1, TransportFacts, InsertRing DEF TransportTypeOK
    <3>3. received' \in [Peer -> Buffer(ReceivedSize)]
      BY <3>1, <3>2 DEF TransportTypeOK
    <3>4. {s % SentSize : s \in NewlyAcked(p, d)} \subseteq 0 .. SentSize - 1
      <4>1. NewlyAcked(p, d) \subseteq SeqNum
        BY <1>1 DEF NewlyAcked, DatagramType
      <4>2. \A s \in SeqNum : s % SentSize \in 0 .. SentSize - 1
        BY TransportFacts, Division DEF SeqNum
      <4> QED BY <4>1, <4>2
    <3>5. acked' \in [Peer -> SUBSET (0 .. SentSize - 1)]
      BY <3>1, <3>4 DEF TransportTypeOK
    <3> QED BY <3>1, <3>3, <3>5, <1>1, ProcessType
  <2>2. CASE ~ TestInsert(received[p], d.sequence)
    BY <1>2, <2>2 DEF ReceivePacket, receiver, TransportTypeOK
  <2> QED BY <2>1, <2>2
<1>4. StillOutgoing(p, NewlyAcked(p, d)) \subseteq outgoing[p]
  BY DEF StillOutgoing
<1>5. outgoing' \in [Peer -> SUBSET MessageType]
  BY <1>2, <1>4 DEF TransportTypeOK
<1>6. ASSUME NEW q \in Peer
      PROVE  IsFiniteSet(outgoing'[q]) /\ Cardinality(outgoing'[q]) <= Window
  <2>1. IsFiniteSet(outgoing[q]) /\ Cardinality(outgoing[q]) <= Window
    BY DEF TransportTypeOK
  <2>2. outgoing'[q] \subseteq outgoing[q]
    BY <1>2, <1>4 DEF TransportTypeOK
  <2>3. /\ IsFiniteSet(outgoing'[q])
        /\ Cardinality(outgoing'[q]) <= Cardinality(outgoing[q])
    BY <2>1, <2>2, FS_Subset
  <2>4. Cardinality(outgoing'[q]) \in Nat /\ Cardinality(outgoing[q]) \in Nat
    BY <2>1, <2>3, FS_CardinalityType
  <2> QED BY <2>1, <2>3, <2>4, TransportFacts
<1> QED BY <1>2, <1>3, <1>5, <1>6 DEF TransportTypeOK

\* The types hold when the two ends are created ...
LEMMA TypeInit == Init => TransportTypeOK
<1> SUFFICES ASSUME Init PROVE TransportTypeOK
  OBVIOUS
<1>1. 0 \in SeqNum /\ 0 \in Header
  BY SeqModAssumption, TransportFacts DEF SeqNum, Header
<1>2. EmptyBuffer(SentSize) \in Buffer(SentSize) /\ EmptyBuffer(ReceivedSize) \in Buffer(ReceivedSize)
  BY TransportFacts, EmptyBufferType
<1>3. IsFiniteSet({}) /\ Cardinality({}) <= Window
  BY FS_EmptySet, TransportFacts
<1>4. <<>> \in Seq(Payload)
  OBVIOUS
<1> QED BY <1>1, <1>2, <1>3, <1>4 DEF Init, TransportTypeOK, Payload

\* ... and so does every step.
LEMMA TypeStep ==
  ASSUME TransportTypeOK, [Next]_vars
  PROVE  TransportTypeOK'
<1>1. CASE Next
  BY <1>1, SendReliableType, SendUnreliableType, UpdateType, ReceiveType DEF Next
<1>2. CASE UNCHANGED vars
  BY <1>2 DEF vars, endpoint, sender, receiver, TransportTypeOK
<1> QED BY <1>1, <1>2

\* The types hold in the form the other invariants need.
THEOREM TransportTypes == Spec => []TransportTypeOK
<1> QED BY TypeInit, TypeStep, PTL DEF Spec

\* Both ends and the datagrams between them keep their types; in particular
\* no more than Window messages are ever unacknowledged
\* (SNET_WT_MAX_INFLIGHT_RELIABLE_MESSAGES).
THEOREM TransportTypeCorrect == Spec => []TypeOK
<1>1. TransportTypeOK => TypeOK
  <2> SUFFICES ASSUME TransportTypeOK PROVE TypeOK
    OBVIOUS
  <2>1. ASSUME NEW d \in DatagramType PROVE IsDatagram(d)
    BY DEF DatagramType, IsDatagram
  <2>2. \A d \in net : IsDatagram(d)
    BY <2>1 DEF TransportTypeOK
  <2>3. ASSUME NEW p \in Peer, NEW m \in outgoing[p]
        PROVE  m.timestamp \in Nat /\ m.ack_sequence \in SeqNum /\ IsDatagram(m.datagram)
    <3>1. m \in MessageType
      BY DEF TransportTypeOK
    <3> QED BY <3>1, <2>1 DEF MessageType
  <2> QED BY <2>2, <2>3 DEF TransportTypeOK, TypeOK
<1> QED BY <1>1, TransportTypes, PTL

-----------------------------------------------------------------------------
(* No ack is missed.                                                       *)

\* Two numbers found in one slot are one number.
LEMMA OneNumberBySlot ==
  ASSUME NEW n \in Nat, n > 0, NEW b \in Buffer(n),
         NEW x, NEW y, Exists(b, x), Exists(b, y), x % n = y % n
  PROVE  x = y
  BY RingSize DEF Exists

\* A new packet takes its slot over from the packet that had it, acked or not.
LEMMA SentKeepsAcks ==
  ASSUME TransportTypeOK, NEW p \in Peer, NEW packet \in Packet, SendPacket(p, packet),
         NEW q \in Peer, NEW s \in SeqNum, Exists(sent'[q], s)
  PROVE  \/ q = p /\ s = sequence[p] /\ s % SentSize \notin acked'[q]
         \/ Exists(sent[q], s) /\ acked'[q] \subseteq acked[q]
<1>1. /\ sent' = [sent EXCEPT ![p] = Insert(@, sequence[p])]
      /\ acked' = [acked EXCEPT ![p] = @ \ {sequence[p] % SentSize}]
      /\ sent[p] \in Buffer(SentSize) /\ sequence[p] \in SeqNum
  BY DEF SendPacket, TransportTypeOK
<1>2. CASE q = p
  <2>1. sent'[q] = Insert(sent[p], sequence[p]) /\ acked'[q] = acked[p] \ {sequence[p] % SentSize}
    BY <1>1, <1>2 DEF TransportTypeOK
  <2>2. Exists(sent[p], s) \/ s = sequence[p]
    BY <1>1, <2>1, TransportFacts, InsertAddsOne
  <2> QED BY <2>1, <2>2, <1>2
<1>3. CASE q # p
  BY <1>1, <1>3 DEF TransportTypeOK
<1> QED BY <1>2, <1>3

\* Sending makes an unacked record, and an ack takes the message it names out
\* of the outgoing ones in the step that marks the record.
LEMMA NoAckMissedStep ==
  ASSUME TransportTypeOK, NoAckMissed, [Next]_vars
  PROVE  NoAckMissed'
<1> SUFFICES ASSUME NEW q \in Peer, NEW m \in outgoing'[q], Exists(sent'[q], m.ack_sequence)
             PROVE  m.ack_sequence % SentSize \notin acked'[q]
  BY DEF NoAckMissed
<1>1. ASSUME NEW p \in Peer, SendReliable(p)
      PROVE  m.ack_sequence % SentSize \notin acked'[q]
  <2> DEFINE packet == [header |-> next_outgoing[p], payload |-> submitted[p]]
  <2>1. packet \in Packet /\ SendPacket(p, packet)
    BY <1>1 DEF SendReliable, TransportTypeOK, Packet, Payload
  <2>2. \/ m \in outgoing[q]
        \/ q = p /\ m.ack_sequence = sequence[p]
    BY <1>1 DEF SendReliable, TransportTypeOK
  <2> HIDE DEF packet
  <2>3. m.ack_sequence \in SeqNum
    BY <2>2 DEF TransportTypeOK, MessageType
  <2>4. \/ q = p /\ m.ack_sequence = sequence[p] /\ m.ack_sequence % SentSize \notin acked'[q]
        \/ Exists(sent[q], m.ack_sequence) /\ acked'[q] \subseteq acked[q]
    BY <2>1, <2>3, SentKeepsAcks
  <2>5. CASE m \in outgoing[q]
    BY <2>4, <2>5 DEF NoAckMissed
  <2>6. CASE q = p /\ m.ack_sequence = sequence[p]
    <3>1. acked'[q] = acked[p] \ {sequence[p] % SentSize}
      BY <2>1, <2>6 DEF SendPacket, TransportTypeOK
    <3> QED BY <3>1, <2>6
  <2> QED BY <2>2, <2>5, <2>6
<1>2. ASSUME NEW p \in Peer, SendUnreliable(p)
      PROVE  m.ack_sequence % SentSize \notin acked'[q]
  <2> DEFINE packet == [header |-> Unreliable, payload |-> None]
  <2>1. packet \in Packet /\ SendPacket(p, packet) /\ outgoing' = outgoing
    BY <1>2 DEF SendUnreliable, Packet
  <2> HIDE DEF packet
  <2>2. m.ack_sequence \in SeqNum
    BY <2>1 DEF TransportTypeOK, MessageType
  <2>3. \/ q = p /\ m.ack_sequence = sequence[p] /\ m.ack_sequence % SentSize \notin acked'[q]
        \/ Exists(sent[q], m.ack_sequence) /\ acked'[q] \subseteq acked[q]
    BY <2>1, <2>2, SentKeepsAcks
  <2> QED BY <2>1, <2>3 DEF NoAckMissed
<1>3. ASSUME NEW p \in Peer, Update(p)
      PROVE  m.ack_sequence % SentSize \notin acked'[q]
  <2>1. sent' = sent /\ acked' = acked
    BY <1>3 DEF Update, endpoint
  <2>2. \E o \in outgoing[q] : o.ack_sequence = m.ack_sequence
    <3>1. outgoing' = [outgoing EXCEPT ![p] = {Resent(p, o) : o \in @}]
      BY <1>3, ResentMessage
    <3>2. \A o \in outgoing[p] : Resent(p, o).ack_sequence = o.ack_sequence
      BY <1>3, ResentMessage
    <3> QED BY <3>1, <3>2 DEF TransportTypeOK
  <2> QED BY <2>1, <2>2 DEF NoAckMissed
<1>4. ASSUME NEW p \in Peer, NEW d \in net, Receive(p, d)
      PROVE  m.ack_sequence % SentSize \notin acked'[q]
  <2> DEFINE newly == NewlyAcked(p, d)
  <2>1. /\ sent' = sent
        /\ outgoing' = [outgoing EXCEPT ![p] = {o \in outgoing[p] : o.ack_sequence \notin newly}]
        /\ \/ acked' = [acked EXCEPT ![p] = @ \cup {s % SentSize : s \in newly}]
           \/ acked' = acked
    BY <1>4 DEF Receive, ReceivePacket, StillOutgoing
  <2>2. m \in outgoing[q]
    BY <2>1 DEF TransportTypeOK
  <2>3. m.ack_sequence % SentSize \notin acked[q]
    BY <2>1, <2>2 DEF NoAckMissed
  <2>4. CASE q = p
    <3>1. m.ack_sequence \notin newly
      BY <2>1, <2>4 DEF TransportTypeOK
    <3>2. ASSUME NEW s \in newly PROVE s % SentSize # m.ack_sequence % SentSize
      <4>1. Exists(sent[p], s) /\ sent[p] \in Buffer(SentSize)
        BY DEF NewlyAcked, TransportTypeOK
      <4> HIDE DEF newly
      <4> QED BY <4>1, <3>1, <2>1, <2>4, TransportFacts, OneNumberBySlot
    <3> HIDE DEF newly
    <3>3. acked'[q] \subseteq acked[q] \cup {s % SentSize : s \in newly}
      BY <2>1, <2>4 DEF TransportTypeOK
    <3> QED BY <3>2, <3>3, <2>3
  <2>5. CASE q # p
    <3>1. acked'[q] = acked[q]
      BY <2>1, <2>5 DEF TransportTypeOK
    <3> QED BY <3>1, <2>3
  <2> QED BY <2>4, <2>5
<1>5. CASE UNCHANGED vars
  BY <1>5 DEF vars, endpoint, sender, NoAckMissed
<1> QED BY <1>1, <1>2, <1>3, <1>4, <1>5 DEF Next

\* The endpoint reports an ack once.  A message still outstanding has not
\* missed the report: its packet, if still on record, is not acked
\* (reliable_endpoint_receive_packet, snet_wt_process_incoming).
THEOREM TransportNoAckMissed == Spec => []NoAckMissed
<1>1. Init => NoAckMissed
  BY DEF Init, NoAckMissed
<1> QED BY <1>1, NoAckMissedStep, TransportTypes, PTL DEF Spec

-----------------------------------------------------------------------------
(* The stream.                                                             *)

\* Sums and slots may be taken of a number or of the 7 bits in its header.
LEMMA HeaderArithmetic ==
  ASSUME NEW x \in Int
  PROVE  /\ \A k \in Int : ((x % RelMod) + k) % RelMod = (x + k) % RelMod
         /\ (x % RelMod) % Slots = x % Slots
         /\ \A y \in Int : x % RelMod = y % RelMod /\ x - y < RelMod /\ y - x < RelMod
                           => x = y
<1>1. /\ RelMod \in Nat /\ RelMod > 0 /\ Slots \in Nat /\ Slots > 0 /\ RelMod % Slots = 0
  BY TransportFacts
<1>2. \A k \in Int : ((x % RelMod) + k) % RelMod = (x + k) % RelMod
  BY <1>1, ModAdd
<1>3. (x % RelMod) % Slots = x % Slots
  BY <1>1, ModOfMod
<1>4. ASSUME NEW y \in Int, x % RelMod = y % RelMod, x - y < RelMod, y - x < RelMod
      PROVE  x = y
  BY <1>1, <1>4, ModApart
<1> QED BY <1>2, <1>3, <1>4

\* All that is sent carries its number.
LEMMA NumberedStep ==
  ASSUME TransportTypeOK, NumberedInv, [Next]_vars
  PROVE  NumberedInv'
<1>1. ASSUME NEW p \in Peer, SendReliable(p)
      PROVE  NumberedInv'
  <2> DEFINE packet == [header |-> next_outgoing[p], payload |-> submitted[p]]
  <2>1. Numbered(packet)
    BY DEF Numbered, NumberedInv
  <2>2. next_outgoing' = [next_outgoing EXCEPT ![p] = (submitted[p] + 1) % RelMod]
    <3>1. ((submitted[p] % RelMod) + 1) % RelMod = (submitted[p] + 1) % RelMod
      <4>1. submitted[p] \in Int
        BY DEF TransportTypeOK
      <4> QED BY <4>1, HeaderArithmetic
    <3>2. next_outgoing[p] = submitted[p] % RelMod
      BY DEF NumberedInv
    <3> QED BY <3>1, <3>2, <1>1 DEF SendReliable
  <2>3. submitted' = [submitted EXCEPT ![p] = @ + 1]
    BY <1>1 DEF SendReliable
  <2> HIDE DEF packet
  <2>4. \A d \in net' : Numbered(d.packet)
    <3>1. \A d \in net' : d \in net \/ d.packet = packet
      BY <1>1 DEF SendReliable, SendPacket, Datagram, packet
    <3> QED BY <3>1, <2>1 DEF NumberedInv
  <2>5. ASSUME NEW q \in Peer, NEW m \in outgoing'[q]
        PROVE  Numbered(m.datagram.packet)
    <3>1. m \in outgoing[q] \/ m.datagram.packet = packet
      BY <1>1 DEF SendReliable, Datagram, packet, TransportTypeOK
    <3> QED BY <3>1, <2>1 DEF NumberedInv
  <2>6. ASSUME NEW q \in Peer PROVE next_outgoing'[q] = submitted'[q] % RelMod
    BY <2>2, <2>3 DEF NumberedInv, TransportTypeOK
  <2> QED BY <2>4, <2>5, <2>6 DEF NumberedInv, Numbered
<1>2. ASSUME NEW p \in Peer, SendUnreliable(p)
      PROVE  NumberedInv'
  <2>1. \A d \in net' : d \in net \/ d.packet.header = Unreliable
    BY <1>2 DEF SendUnreliable, SendPacket, Datagram
  <2>2. UNCHANGED <<next_outgoing, outgoing, submitted>>
    BY <1>2 DEF SendUnreliable
  <2> QED BY <2>1, <2>2 DEF NumberedInv, Numbered
<1>3. ASSUME NEW p \in Peer, Update(p)
      PROVE  NumberedInv'
  <2>1. ASSUME NEW d \in net' PROVE Numbered(d.packet)
    <3>1. d \in net \/ \E m \in outgoing[p] : d = [m.datagram EXCEPT !.at = time'[p]]
      BY <1>3, ResentMessage
    <3>2. \A m \in outgoing[p] : [m.datagram EXCEPT !.at = time'[p]].packet = m.datagram.packet
      BY <1>3, ResentMessage
    <3> QED BY <3>1, <3>2 DEF NumberedInv
  <2>2. ASSUME NEW q \in Peer, NEW m \in outgoing'[q]
        PROVE  Numbered(m.datagram.packet)
    <3>1. outgoing' = [outgoing EXCEPT ![p] = {Resent(p, o) : o \in @}]
      BY <1>3, ResentMessage
    <3>2. \A o \in outgoing[p] : Resent(p, o).datagram = o.datagram
      BY <1>3, ResentMessage
    <3>3. \E o \in outgoing[q] : o.datagram = m.datagram
      BY <3>1, <3>2 DEF TransportTypeOK
    <3> QED BY <3>3 DEF NumberedInv
  <2>3. UNCHANGED <<next_outgoing, submitted>>
    BY <1>3 DEF Update
  <2> QED BY <2>1, <2>2, <2>3 DEF NumberedInv, Numbered
<1>4. ASSUME NEW p \in Peer, NEW d \in net, Receive(p, d)
      PROVE  NumberedInv'
  <2>1. net' \subseteq net /\ UNCHANGED <<next_outgoing, submitted>>
    BY <1>4 DEF Receive
  <2>2. \A q \in Peer : outgoing'[q] \subseteq outgoing[q]
    BY <1>4 DEF Receive, StillOutgoing, TransportTypeOK
  <2> QED BY <2>1, <2>2 DEF NumberedInv, Numbered
<1>5. CASE UNCHANGED vars
  BY <1>5 DEF vars, sender, NumberedInv
<1> QED BY <1>1, <1>2, <1>3, <1>4, <1>5 DEF Next

\* Where message n + k of the stream belongs, seen from a receiver that has
\* delivered n.
LEMMA PlaceOf ==
  ASSUME TransportTypeOK, NEW p \in Peer, NEW n \in Nat, next_incoming[p] = n % RelMod,
         NEW k \in Nat
  PROVE  /\ Expected(p, k) = (n + k) % RelMod
         /\ SlotOf(Expected(p, k)) = (n + k) % Slots
<1>1. ((n % RelMod) + k) % RelMod = (n + k) % RelMod
  BY HeaderArithmetic
<1>2. ((n + k) % RelMod) % Slots = (n + k) % Slots
  BY HeaderArithmetic, n + k \in Int
<1> QED BY <1>1, <1>2 DEF Expected, SlotOf

\* Messages of one slot are Slots apart.
LEMMA OneMessageBySlot ==
  ASSUME NEW x \in Int, NEW y \in Int, x % Slots = y % Slots, x - y < Slots, y - x < Slots
  PROVE  x = y
  BY TransportFacts, ModApart

\* The message the stream waits for is delivered with those that follow it.
LEMMA DeliverOrdered ==
  ASSUME TransportTypeOK, NEW p \in Peer, NEW packet \in Packet,
         packet.header # Unreliable, Numbered(packet), Ordered(p),
         Process(p, packet), DeliverInOrder(p, packet), ~ Disturbs(p, packet)
  PROVE  Ordered(p)'
<1> DEFINE n == Len(delivered[p])
<1>1. n \in Nat /\ delivered[p] \in Seq(Nat)
  BY DEF TransportTypeOK, Payload
<1>2. /\ \A i \in 1 .. n : delivered[p][i] = i - 1
      /\ next_incoming[p] = n % RelMod
      /\ \A i \in Slot : incoming[p][i] # None =>
           incoming[p][i] \in n + 1 .. n + Slots - 1 /\ incoming[p][i] % Slots = i
      /\ \A m \in seen[p] : m < n \/ m \in Stored(p)
  BY DEF Ordered, InOrder
<1> DEFINE x == packet.payload
<1>3. x \in Nat /\ packet.header = x % RelMod /\ packet.header = next_incoming[p]
  BY DEF Packet, Payload, Numbered, DeliverInOrder
<1>4. x = n
  <2>1. x >= n /\ x < n + Slots
    BY <1>1, <1>3, TransportFacts DEF Disturbs
  <2> HIDE DEF n, x
  <2>2. x - n < RelMod /\ n - x < RelMod
    BY <2>1, <1>1, <1>3, TransportFacts
  <2>3. x % RelMod = n % RelMod /\ x \in Int /\ n \in Int
    BY <1>1, <1>2, <1>3
  <2> QED BY <2>2, <2>3, HeaderArithmetic
<1> DEFINE k == Drained(p)
           queued == Following(p)
<1>5. /\ k \in 0 .. Slots /\ queued \in Seq(Nat) /\ Len(queued) = k
      /\ \A j \in 1 .. k : queued[j] = incoming[p][SlotOf(Expected(p, j))]
      /\ delivered' = [delivered EXCEPT ![p] = Extended(@, packet.payload, queued)]
      /\ next_incoming' = [next_incoming EXCEPT ![p] = Expected(p, k + 1)]
      /\ incoming' = [incoming EXCEPT ![p] =
           [i \in Slot |-> IF \E j \in 1 .. k : i = SlotOf(Expected(p, j))
                           THEN None ELSE @[i]]]
  BY DeliverStep
<1>6. /\ k \in Nat /\ Slots \in Nat /\ Slots > 0
      /\ \A j \in 1 .. k : incoming[p][SlotOf(Expected(p, j))] # None
      /\ k < Slots => incoming[p][SlotOf(Expected(p, k + 1))] = None
  BY DrainedIs, TransportFacts
<1> HIDE DEF n, x, k, queued
<1>7. ASSUME NEW j \in Nat
      PROVE  /\ SlotOf(Expected(p, j)) = (n + j) % Slots
             /\ Expected(p, j) = (n + j) % RelMod
             /\ (n + j) % Slots \in Slot
  BY <1>1, <1>2, PlaceOf, TransportFacts, n + j \in Int
<1>8. ASSUME NEW j \in 1 .. Slots, incoming[p][SlotOf(Expected(p, j))] # None
      PROVE  incoming[p][(n + j) % Slots] = n + j /\ j # Slots
  <2>0. j \in Nat
    BY <1>6
  <2>1. /\ incoming[p][(n + j) % Slots] # None /\ (n + j) % Slots \in Slot
        /\ n + j \in Int
    BY <2>0, <1>1, <1>7, <1>8
  <2> DEFINE y == incoming[p][(n + j) % Slots]
  <2>2. y \in n + 1 .. n + Slots - 1 /\ y % Slots = (n + j) % Slots
    BY <2>1, <1>2
  <2> HIDE DEF y
  <2>3. y \in Int /\ y - (n + j) < Slots /\ (n + j) - y < Slots
    BY <2>1, <2>2, <1>1, <1>6
  <2>4. y = n + j
    BY <2>1, <2>2, <2>3, OneMessageBySlot
  <2> QED BY <2>2, <2>4, <1>1, <1>6 DEF y
<1>9. k < Slots
  <2>1. k = Slots => Slots \in 1 .. Slots /\ Slots \in 1 .. k
    BY <1>6
  <2>2. k # Slots
    BY <2>1, <1>6, <1>8
  <2> QED BY <2>2, <1>5, <1>6
<1>10. \A j \in 1 .. k : queued[j] = n + j /\ incoming[p][(n + j) % Slots] = n + j
  <2> TAKE j \in 1 .. k
  <2>1. j \in 1 .. Slots /\ j \in Nat
    BY <1>6, <1>9
  <2>2. queued[j] = incoming[p][SlotOf(Expected(p, j))]
    BY <1>5
  <2> QED BY <2>1, <2>2, <1>6, <1>7, <1>8
<1>11. incoming[p][(n + k + 1) % Slots] = None
  <2>1. incoming[p][SlotOf(Expected(p, k + 1))] = None /\ k + 1 \in Nat
    BY <1>6, <1>9
  <2>2. n + (k + 1) = n + k + 1
    BY <1>1, <1>6
  <2> QED BY <2>1, <2>2, <1>7
<1> DEFINE t == Extended(delivered[p], x, queued)
<1>12. /\ Len(t) = n + 1 + k
       /\ \A i \in 1 .. n : t[i] = delivered[p][i]
       /\ t[n + 1] = x
       /\ \A j \in 1 .. k : t[n + 1 + j] = queued[j]
  <2>1. delivered[p] \in Seq(Nat) /\ x \in Nat /\ queued \in Seq(Nat) /\ Len(queued) = k
    BY <1>1, <1>3, <1>5, <1>6
  <2>2. \A u, v \in Seq(Nat), y \in Nat :
          /\ Len(Extended(u, y, v)) = Len(u) + 1 + Len(v)
          /\ \A i \in 1 .. Len(u) : Extended(u, y, v)[i] = u[i]
          /\ Extended(u, y, v)[Len(u) + 1] = y
          /\ \A j \in 1 .. Len(v) : Extended(u, y, v)[Len(u) + 1 + j] = v[j]
    BY DeliverySeq
  <2>3. Len(t) = Len(delivered[p]) + 1 + k
    BY <2>1, <2>2
  <2>4. \A i \in 1 .. Len(delivered[p]) : t[i] = delivered[p][i]
    BY <2>1, <2>2
  <2>5. t[Len(delivered[p]) + 1] = x
    BY <2>1, <2>2
  <2>6. \A j \in 1 .. k : t[Len(delivered[p]) + 1 + j] = queued[j]
    BY <2>1, <2>2
  <2> QED BY <2>3, <2>4, <2>5, <2>6 DEF n
<1>13. delivered'[p] = t
  BY <1>5 DEF TransportTypeOK, x
<1> HIDE DEF t
<1>14. \A i \in 1 .. Len(t) : t[i] = i - 1
  <2> TAKE i \in 1 .. Len(t)
  <2>1. i \in Int /\ i >= 1 /\ i <= n + 1 + k
    BY <1>1, <1>6, <1>12
  <2>2. CASE i <= n
    BY <2>1, <2>2, <1>1, <1>2, <1>12
  <2>3. CASE i = n + 1
    BY <2>3, <1>1, <1>4, <1>12
  <2>4. CASE i > n + 1
    <3> DEFINE j == i - (n + 1)
    <3>1. j \in 1 .. k /\ i = n + 1 + j
      BY <2>1, <2>4, <1>1, <1>6
    <3> HIDE DEF j
    <3>2. t[i] = n + j
      BY <3>1, <1>10, <1>12
    <3> QED BY <3>1, <3>2, <1>1, <1>6
  <2> QED BY <2>1, <2>2, <2>3, <2>4, <1>1
<1>15. next_incoming'[p] = Len(t) % RelMod
  <2>1. next_incoming'[p] = Expected(p, k + 1)
    BY <1>5 DEF TransportTypeOK
  <2>2. k + 1 \in Nat /\ n + (k + 1) = Len(t)
    BY <1>1, <1>6, <1>12
  <2> QED BY <2>1, <2>2, <1>7
<1>16. \A i \in Slot :
         incoming'[p][i] = IF \E j \in 1 .. k : i = (n + j) % Slots
                           THEN None ELSE incoming[p][i]
  <2>1. \A i \in Slot :
          incoming'[p][i] = IF \E j \in 1 .. k : i = SlotOf(Expected(p, j))
                            THEN None ELSE incoming[p][i]
    BY <1>5 DEF TransportTypeOK
  <2>2. \A j \in 1 .. k : SlotOf(Expected(p, j)) = (n + j) % Slots
    BY <1>6, <1>7
  <2> QED BY <2>1, <2>2
<1>17. ASSUME NEW i \in Slot, incoming'[p][i] # None
       PROVE  /\ incoming'[p][i] \in Len(t) + 1 .. Len(t) + Slots - 1
              /\ incoming'[p][i] % Slots = i
  <2> DEFINE y == incoming[p][i]
  <2>1. incoming'[p][i] = y /\ y # None /\ \A j \in 1 .. k : i # (n + j) % Slots
    BY <1>16, <1>17
  <2>2. y \in n + 1 .. n + Slots - 1 /\ y % Slots = i
    BY <2>1, <1>2
  <2>3. y # n + k + 1
    BY <2>1, <2>2, <1>11
  <2> HIDE DEF y
  <2>4. y > n + k
    <3>1. SUFFICES ASSUME y <= n + k PROVE FALSE
      BY <2>2, <1>1, <1>6
    <3>2. y - n \in 1 .. k /\ n + (y - n) = y
      BY <3>1, <2>2, <1>1, <1>6
    <3> QED BY <3>2, <2>1, <2>2
  <2>5. y \in Len(t) + 1 .. Len(t) + Slots - 1
    BY <2>2, <2>3, <2>4, <1>1, <1>6, <1>12
  <2> QED BY <2>1, <2>2, <2>5
<1>18. ASSUME NEW m \in seen'[p] PROVE m < Len(t) \/ m \in Stored(p)'
  <2>1. m \in seen[p] \/ m = x
    BY DEF Process, TransportTypeOK, x
  <2>2. CASE m = x
    BY <2>2, <1>1, <1>4, <1>6, <1>12
  <2>3. CASE m \in seen[p]
    <3>1. m \in Nat
      BY <2>3 DEF TransportTypeOK, Payload
    <3>2. CASE m < n
      BY <3>1, <3>2, <1>1, <1>6, <1>12
    <3>3. CASE m \in Stored(p)
      <4>1. PICK i \in Slot : m = incoming[p][i] /\ m # None
        BY <3>3 DEF Stored
      <4>2. CASE \E j \in 1 .. k : i = (n + j) % Slots
        <5>1. PICK j \in 1 .. k : m = n + j
          BY <4>1, <4>2, <1>10
        <5> QED BY <5>1, <1>1, <1>6, <1>12
      <4>3. CASE ~ \E j \in 1 .. k : i = (n + j) % Slots
        <5>1. incoming'[p][i] = m
          BY <4>1, <4>3, <1>16
        <5> QED BY <4>1, <5>1 DEF Stored
      <4> QED BY <4>2, <4>3
    <3> QED BY <2>3, <3>2, <3>3, <1>2
  <2> QED BY <2>1, <2>2, <2>3
<1> QED BY <1>13, <1>14, <1>15, <1>17, <1>18 DEF Ordered, InOrder

\* A message from further on is kept in the slot it belongs in, if it is not
\* there already.
LEMMA QueueOrdered ==
  ASSUME TransportTypeOK, NEW p \in Peer, NEW packet \in Packet,
         packet.header # Unreliable, Numbered(packet), Ordered(p),
         Process(p, packet), Queue(p, packet), ~ Disturbs(p, packet)
  PROVE  Ordered(p)'
<1> DEFINE n == Len(delivered[p])
           x == packet.payload
           slot == SlotOf(packet.header)
<1>1. n \in Nat /\ Slots \in Nat /\ Slots > 0
  BY TransportFacts DEF TransportTypeOK
<1>2. /\ InOrder(p)
      /\ next_incoming[p] = n % RelMod
      /\ \A i \in Slot : incoming[p][i] # None =>
           incoming[p][i] \in n + 1 .. n + Slots - 1 /\ incoming[p][i] % Slots = i
      /\ \A m \in seen[p] : m < n \/ m \in Stored(p)
  BY DEF Ordered
<1>3. x \in Nat /\ packet.header = x % RelMod /\ x # None
  BY DEF Packet, Payload, Numbered, None
<1>4. slot = x % Slots /\ slot \in Slot
  <2> HIDE DEF x
  <2>1. (x % RelMod) % Slots = x % Slots /\ x % Slots \in Slot
    BY <1>3, TransportFacts, HeaderArithmetic
  <2> QED BY <1>3, <2>1 DEF SlotOf
<1>5. /\ incoming' = [incoming EXCEPT ![p][slot] = IF @ = None THEN x ELSE @]
      /\ delivered' = delivered /\ next_incoming' = next_incoming
      /\ packet.header # next_incoming[p]
  BY DEF Queue
<1>6. x < n + Slots /\ (x < n => incoming[p][slot] # None)
  BY <1>1, <1>3 DEF Disturbs
<1>7. x # n
  BY <1>2, <1>3, <1>5
<1> HIDE DEF n, x, slot
<1>8. \A i \in Slot : incoming'[p][i] = IF i = slot /\ incoming[p][i] = None
                                        THEN x ELSE incoming[p][i]
  BY <1>4, <1>5 DEF TransportTypeOK
<1>9. ASSUME NEW i \in Slot, incoming'[p][i] # None
      PROVE  /\ incoming'[p][i] \in n + 1 .. n + Slots - 1
             /\ incoming'[p][i] % Slots = i
  <2>1. CASE i = slot /\ incoming[p][i] = None
    <3>1. incoming'[p][i] = x
      BY <2>1, <1>8
    <3>2. x \in n + 1 .. n + Slots - 1
      BY <2>1, <1>1, <1>3, <1>6, <1>7
    <3> QED BY <3>1, <3>2, <2>1, <1>4
  <2>2. CASE ~ (i = slot /\ incoming[p][i] = None)
    BY <2>2, <1>2, <1>8, <1>9
  <2> QED BY <2>1, <2>2
<1>10. \A m \in Stored(p) : m \in Stored(p)'
  <2> TAKE m \in Stored(p)
  <2>1. PICK i \in Slot : m = incoming[p][i] /\ m # None
    BY DEF Stored
  <2>2. incoming'[p][i] = m
    BY <2>1, <1>8
  <2> QED BY <2>1, <2>2 DEF Stored
<1>11. x < n \/ x \in Stored(p)'
  <2>1. CASE incoming[p][slot] = None
    <3>1. incoming'[p][slot] = x
      BY <2>1, <1>4, <1>8
    <3> QED BY <3>1, <1>3, <1>4 DEF Stored
  <2>2. CASE incoming[p][slot] # None /\ ~ (x < n)
    <3> DEFINE y == incoming[p][slot]
    <3>1. y \in n + 1 .. n + Slots - 1 /\ y % Slots = x % Slots
      BY <2>2, <1>2, <1>4
    <3>2. y \in Stored(p)
      BY <2>2, <1>4 DEF Stored
    <3> HIDE DEF y
    <3>3. y \in Int /\ y - x < Slots /\ x - y < Slots /\ x \in Int
      BY <3>1, <2>2, <1>1, <1>3, <1>6
    <3>4. y = x
      BY <3>1, <3>3, OneMessageBySlot
    <3> QED BY <3>2, <3>4, <1>10
  <2> QED BY <2>1, <2>2
<1>12. ASSUME NEW m \in seen'[p] PROVE m < n \/ m \in Stored(p)'
  <2>1. m \in seen[p] \/ m = x
    BY DEF Process, TransportTypeOK, x
  <2> QED BY <2>1, <1>2, <1>10, <1>11
<1>13. delivered'[p] = delivered[p] /\ next_incoming'[p] = n % RelMod
  BY <1>2, <1>5
<1> QED BY <1>2, <1>5, <1>9, <1>12, <1>13 DEF Ordered, InOrder, n

\* A receiver that nothing reached stays as it is.
LEMMA OrderedKept ==
  ASSUME NEW q \in Peer, Ordered(q),
         delivered'[q] = delivered[q], next_incoming'[q] = next_incoming[q],
         incoming'[q] = incoming[q], seen'[q] = seen[q]
  PROVE  Ordered(q)'
  BY DEF Ordered, InOrder, Stored

\* A packet that is processed disturbs the receiver or leaves it in order.
LEMMA ProcessOrdered ==
  ASSUME TransportTypeOK, StreamInv, NEW p \in Peer, NEW packet \in Packet,
         Numbered(packet), Process(p, packet), NEW q \in Peer, ~ disturbed'[q]
  PROVE  Ordered(q)'
<1>1. CASE packet.header = Unreliable
  BY <1>1, OrderedKept DEF Process, receiver, StreamInv
<1>2. CASE packet.header # Unreliable
  <2>1. /\ DeliverInOrder(p, packet) \/ Queue(p, packet)
        /\ seen' = [seen EXCEPT ![p] = @ \cup {packet.payload}]
        /\ disturbed' = [disturbed EXCEPT ![p] = @ \/ Disturbs(p, packet)]
    BY <1>2 DEF Process
  <2>2. CASE q = p
    <3>1. ~ disturbed[p] /\ ~ Disturbs(p, packet)
      <4>1. disturbed'[p] = (disturbed[p] \/ Disturbs(p, packet))
        BY <2>1 DEF TransportTypeOK
      <4> QED BY <4>1, <2>2
    <3>2. Ordered(p)
      BY <3>1 DEF StreamInv
    <3> QED BY <1>2, <2>1, <2>2, <3>1, <3>2, DeliverOrdered, QueueOrdered
  <2>3. CASE q # p
    <3>1. disturbed'[q] = disturbed[q] /\ seen'[q] = seen[q]
      BY <2>1, <2>3 DEF TransportTypeOK
    <3>2. /\ delivered'[q] = delivered[q] /\ next_incoming'[q] = next_incoming[q]
          /\ incoming'[q] = incoming[q]
      BY <2>1, <2>3 DEF DeliverInOrder, Queue, TransportTypeOK
    <3>3. Ordered(q)
      BY <3>1 DEF StreamInv
    <3> QED BY <3>1, <3>2, <3>3, OrderedKept
  <2> QED BY <2>2, <2>3
<1> QED BY <1>1, <1>2

\* The stream in every step.
LEMMA StreamStep ==
  ASSUME TransportTypeOK, StreamInv, [Next]_vars
  PROVE  StreamInv'
<1>1. NumberedInv'
  BY NumberedStep DEF StreamInv
<1>2. ASSUME NEW q \in Peer, ~ disturbed'[q]
      PROVE  Ordered(q)'
  <2>1. CASE UNCHANGED receiver
    BY <2>1, <1>2, OrderedKept DEF receiver, StreamInv
  <2>2. ASSUME NEW p \in Peer, NEW d \in net, Receive(p, d)
        PROVE  Ordered(q)'
    <3>1. d.packet \in Packet /\ Numbered(d.packet)
      BY DEF TransportTypeOK, DatagramType, StreamInv, NumberedInv
    <3>2. Process(p, d.packet) \/ UNCHANGED receiver
      BY <2>2 DEF Receive, ReceivePacket
    <3> QED BY <1>2, <2>1, <3>1, <3>2, ProcessOrdered
  <2>3. UNCHANGED receiver \/ \E p \in Peer : \E d \in net : Receive(p, d)
    BY DEF Next, SendReliable, SendUnreliable, Update, vars
  <2> QED BY <2>1, <2>2, <2>3
<1> QED BY <1>1, <1>2 DEF StreamInv

\* What an undisturbed receiver has delivered and holds.
THEOREM TransportStream == Spec => []StreamInv
<1>1. Init => StreamInv
  <2> SUFFICES ASSUME Init PROVE StreamInv
    OBVIOUS
  <2>1. 0 = 0 % RelMod
    BY TransportFacts
  <2>2. NumberedInv
    BY <2>1 DEF Init, NumberedInv
  <2>3. ASSUME NEW p \in Peer PROVE Ordered(p)
    BY <2>1 DEF Init, Ordered, InOrder
  <2> QED BY <2>2, <2>3 DEF StreamInv
<1> QED BY <1>1, StreamStep, TransportTypes, PTL DEF Spec

\* Reliable messages reach the application in the order they were sent, none
\* missing and none twice, whatever is lost, late or sent again, as long as
\* no copy of a delivered message and no message from beyond the slots was
\* taken in (snet_wt_reliable_process).
THEOREM TransportStreamIntact == Spec => []StreamIntact
<1>1. StreamInv => StreamIntact
  BY DEF StreamInv, StreamIntact, Ordered
<1> QED BY <1>1, TransportStream, PTL

\* Everything the receiver processed, and will therefore acknowledge, it has
\* delivered or still holds, under the same proviso.
THEOREM TransportNothingDropped == Spec => []NothingDropped
<1>1. StreamInv => NothingDropped
  BY DEF StreamInv, NothingDropped, Ordered
<1> QED BY <1>1, TransportStream, PTL

-----------------------------------------------------------------------------
(* Giving up.                                                              *)

\* What is on the way is a datagram; the datagrams kept are among it.
LEMMA OnTheWayFacts ==
  ASSUME TransportTypeOK
  PROVE  /\ \A d \in OnTheWay : d \in DatagramType /\ d.to \in Peer
         /\ \A p \in Peer : \A m \in outgoing[p] : m \in MessageType /\ m.datagram \in OnTheWay
         /\ net \subseteq OnTheWay
<1>1. \A p \in Peer : \A m \in outgoing[p] : m \in MessageType
  BY DEF TransportTypeOK
<1>2. \A p \in Peer : \A m \in outgoing[p] : m.datagram \in OnTheWay
  BY DEF OnTheWay
<1>3. ASSUME NEW d \in OnTheWay PROVE d \in DatagramType
  <2>1. CASE d \in net
    BY <2>1 DEF TransportTypeOK
  <2>2. ASSUME NEW p \in Peer, NEW m \in outgoing[p], d = m.datagram
        PROVE  d \in DatagramType
    BY <2>2, <1>1 DEF MessageType
  <2> QED BY <2>1, <2>2 DEF OnTheWay
<1>4. net \subseteq OnTheWay
  BY DEF OnTheWay
<1> QED BY <1>1, <1>2, <1>3, <1>4 DEF DatagramType

\* A packet is sent: what it acknowledges was received.
LEMMA DatagramFacts ==
  ASSUME TransportTypeOK, NEW p \in Peer, NEW packet
  PROVE  /\ Datagram(p, packet).to = Other(p)
         /\ Datagram(p, packet).sequence = sequence[p]
         /\ Datagram(p, packet).packet = packet
         /\ \A s \in Datagram(p, packet).acks : s \in SeqNum /\ Exists(received[p], s)
<1>1. received[p].sequence \in Int
  BY DEF TransportTypeOK, Buffer, SeqNum
<1>2. /\ AckSet(received[p], AckBits) \subseteq SeqNum
      /\ \A s \in AckSet(received[p], AckBits) : Exists(received[p], s)
  BY <1>1, AckSetType
<1>3. Datagram(p, packet).acks = AckSet(received[p], AckBits)
  BY DEF Datagram
<1>4. /\ Datagram(p, packet).to = Other(p)
      /\ Datagram(p, packet).sequence = sequence[p]
      /\ Datagram(p, packet).packet = packet
  BY DEF Datagram
<1> QED BY <1>2, <1>3, <1>4

\* A reliable message is sent, under a number that is free.
LEMMA SendReliableAck ==
  ASSUME TransportTypeOK, AckInv, NEW p \in Peer, SendReliable(p), Free(p, sequence[p])
  PROVE  AckInv'
<1> DEFINE packet == [header |-> next_outgoing[p], payload |-> submitted[p]]
           D == Datagram(p, packet)
           M == [timestamp |-> time[p], ack_sequence |-> sequence[p], datagram |-> D]
           q == Other(p)
<1>1. /\ outgoing' = [outgoing EXCEPT ![p] = @ \cup {M}]
      /\ net' = net \cup {D}
      /\ submitted' = [submitted EXCEPT ![p] = @ + 1]
      /\ received' = received /\ seen' = seen
  BY DEF SendReliable, SendPacket, receiver
<1>2. /\ M.ack_sequence = sequence[p] /\ M.datagram = D
      /\ D.packet.payload = submitted[p] /\ D.packet.header = next_outgoing[p]
      /\ D.to = q /\ D.sequence = sequence[p] /\ D.packet = packet
      /\ \A s \in D.acks : Exists(received[p], s)
  BY DatagramFacts
<1>3. D.packet.header # Unreliable
  BY <1>2 DEF TransportTypeOK, Header, Unreliable
<1>4. q \in Peer /\ q # p /\ Other(q) = p /\ \A r \in Peer : r = p \/ r = q
  BY OtherPeer
<1> HIDE DEF packet, D, M, q
<1>5. \A r \in Peer : outgoing'[r] = IF r = p THEN outgoing[p] \cup {M} ELSE outgoing[r]
  BY <1>1 DEF TransportTypeOK
<1>6. OnTheWay' = OnTheWay \cup {D}
  BY <1>1, <1>2, <1>5 DEF OnTheWay
<1>7. /\ \A d \in OnTheWay : /\ d.to \in Peer
                             /\ d.to = q => d.sequence # sequence[p]
                             /\ d.to = p => sequence[p] \notin d.acks
      /\ ~ Exists(received[q], sequence[p])
  BY OnTheWayFacts DEF Free, q
<1>8. ASSUME NEW d \in OnTheWay', NEW m \in outgoing'[d.to], m.ack_sequence \in d.acks
      PROVE  m.datagram.packet.payload \in seen'[Other(d.to)]
  <2>1. CASE d \in OnTheWay
    <3>1. m \in outgoing[d.to]
      BY <2>1, <1>2, <1>5, <1>7, <1>8
    <3> QED BY <2>1, <3>1, <1>1, <1>8 DEF AckInv
  <2>2. CASE d = D
    <3>1. m \in outgoing[q] /\ Exists(received[p], m.ack_sequence)
      BY <2>2, <1>2, <1>4, <1>5, <1>8
    <3>2. m.datagram.packet.payload \in seen[Other(q)]
      BY <3>1, <1>4 DEF AckInv
    <3> QED BY <2>2, <3>2, <1>1, <1>2
  <2> QED BY <2>1, <2>2, <1>6
<1>9. ASSUME NEW r \in Peer, NEW m \in outgoing'[r]
      PROVE  /\ m.datagram.to = Other(r) /\ m.datagram.sequence = m.ack_sequence
             /\ m.datagram.packet.header # Unreliable
             /\ Exists(received'[Other(r)], m.ack_sequence) =>
                  m.datagram.packet.payload \in seen'[Other(r)]
             /\ \A d \in OnTheWay' :
                  d.to = Other(r) /\ d.sequence = m.ack_sequence => d.packet = m.datagram.packet
  <2>1. CASE m \in outgoing[r]
    <3>1. m.datagram \in OnTheWay
      BY <2>1, OnTheWayFacts
    <3>2. /\ m.datagram.to = Other(r) /\ m.datagram.sequence = m.ack_sequence
          /\ m.datagram.packet.header # Unreliable
          /\ Exists(received[Other(r)], m.ack_sequence) =>
               m.datagram.packet.payload \in seen[Other(r)]
          /\ \A d \in OnTheWay :
               d.to = Other(r) /\ d.sequence = m.ack_sequence => d.packet = m.datagram.packet
      BY <2>1 DEF AckInv
    <3>3. D.to = Other(r) => D.sequence # m.ack_sequence
      <4>1. CASE r = p
        BY <4>1, <3>1, <3>2, <1>2, <1>7 DEF q
      <4>2. CASE r = q
        BY <4>2, <1>2, <1>4
      <4> QED BY <4>1, <4>2, <1>4
    <3> QED BY <3>2, <3>3, <1>1, <1>6
  <2>2. CASE r = p /\ m = M
    <3>1. ASSUME NEW d \in OnTheWay', d.to = q, d.sequence = sequence[p]
          PROVE  d.packet = D.packet
      BY <3>1, <1>6, <1>7
    <3> QED BY <2>2, <3>1, <1>1, <1>2, <1>3, <1>7 DEF q
  <2> QED BY <2>1, <2>2, <1>5
<1>10. GivenUpOnlyIfSeen'
  <2> SUFFICES ASSUME NEW r \in Peer, NEW x \in 0 .. submitted'[r] - 1
               PROVE  x \in Outstanding(r)' \/ x \in seen'[Other(r)]
    BY DEF GivenUpOnlyIfSeen
  <2>1. submitted[r] \in Nat /\ Outstanding(r) \subseteq Outstanding(r)'
    BY <1>5 DEF TransportTypeOK, Outstanding
  <2>2. CASE x \in 0 .. submitted[r] - 1
    <3>1. x \in Outstanding(r) \/ x \in seen[Other(r)]
      BY <2>2 DEF AckInv, GivenUpOnlyIfSeen
    <3> QED BY <2>1, <3>1, <1>1
  <2>3. CASE x \notin 0 .. submitted[r] - 1
    <3>1. r = p /\ x = submitted[p]
      BY <2>1, <2>3, <1>1 DEF TransportTypeOK
    <3>2. x \in Outstanding(r)'
      BY <3>1, <1>2, <1>5 DEF Outstanding
    <3> QED BY <3>2
  <2> QED BY <2>2, <2>3
<1> QED BY <1>8, <1>9, <1>10 DEF AckInv

\* An unreliable message is sent, under a number that is free.
LEMMA SendUnreliableAck ==
  ASSUME TransportTypeOK, AckInv, NEW p \in Peer, SendUnreliable(p), Free(p, sequence[p])
  PROVE  AckInv'
<1> DEFINE packet == [header |-> Unreliable, payload |-> None]
           D == Datagram(p, packet)
           q == Other(p)
<1>1. /\ outgoing' = outgoing /\ net' = net \cup {D} /\ submitted' = submitted
      /\ received' = received /\ seen' = seen
  BY DEF SendUnreliable, SendPacket, receiver
<1>2. /\ D.to = q /\ D.sequence = sequence[p]
      /\ \A s \in D.acks : Exists(received[p], s)
  BY DatagramFacts
<1>3. q \in Peer /\ q # p /\ Other(q) = p /\ \A r \in Peer : r = p \/ r = q
  BY OtherPeer
<1> HIDE DEF packet, D, q
<1>4. OnTheWay' = OnTheWay \cup {D}
  BY <1>1 DEF OnTheWay
<1>5. \A d \in OnTheWay : d.to = q => d.sequence # sequence[p]
  BY DEF Free, q
<1>6. ASSUME NEW d \in OnTheWay', NEW m \in outgoing[d.to], m.ack_sequence \in d.acks
      PROVE  m.datagram.packet.payload \in seen[Other(d.to)]
  <2>1. CASE d \in OnTheWay
    BY <2>1, <1>6 DEF AckInv
  <2>2. CASE d = D
    <3>1. m \in outgoing[q] /\ Exists(received[p], m.ack_sequence)
      BY <2>2, <1>2, <1>6
    <3>2. m.datagram.packet.payload \in seen[Other(q)]
      BY <3>1, <1>3 DEF AckInv
    <3> QED BY <2>2, <3>2, <1>2
  <2> QED BY <2>1, <2>2, <1>4
<1>7. ASSUME NEW r \in Peer, NEW m \in outgoing[r], NEW d \in OnTheWay',
             d.to = Other(r), d.sequence = m.ack_sequence
      PROVE  d.packet = m.datagram.packet
  <2>1. /\ m.datagram \in OnTheWay
        /\ m.datagram.to = Other(r) /\ m.datagram.sequence = m.ack_sequence
    BY OnTheWayFacts DEF AckInv
  <2>2. CASE d \in OnTheWay
    BY <2>2, <1>7 DEF AckInv
  <2>3. d # D
    <3>1. CASE r = p
      BY <3>1, <2>1, <1>2, <1>5, <1>7 DEF q
    <3>2. CASE r = q
      BY <3>2, <1>2, <1>3, <1>7
    <3> QED BY <3>1, <3>2, <1>3
  <2> QED BY <2>2, <2>3, <1>4
<1>8. GivenUpOnlyIfSeen'
  BY <1>1 DEF AckInv, GivenUpOnlyIfSeen, Outstanding
<1> QED BY <1>1, <1>6, <1>7, <1>8 DEF AckInv

\* What is on the way after messages are sent again was before, save for when
\* it left.
LEMMA ResentOnTheWay ==
  ASSUME TransportTypeOK, NEW p \in Peer, Update(p)
  PROVE  /\ \A r \in Peer : \A m \in outgoing'[r] :
              \E o \in outgoing[r] : o.ack_sequence = m.ack_sequence /\ o.datagram = m.datagram
         /\ \A d \in OnTheWay' :
              \E e \in OnTheWay : /\ e.to = d.to /\ e.sequence = d.sequence
                                  /\ e.acks = d.acks /\ e.packet = d.packet
<1>1. /\ outgoing' = [outgoing EXCEPT ![p] = {Resent(p, m) : m \in @}]
      /\ \A m \in outgoing[p] : /\ Resent(p, m).ack_sequence = m.ack_sequence
                                /\ Resent(p, m).datagram = m.datagram
  BY ResentMessage
<1>2. ASSUME NEW r \in Peer, NEW m \in outgoing'[r]
      PROVE  \E o \in outgoing[r] : o.ack_sequence = m.ack_sequence /\ o.datagram = m.datagram
  BY <1>1 DEF TransportTypeOK
<1>3. ASSUME NEW d \in OnTheWay'
      PROVE  \E e \in OnTheWay : /\ e.to = d.to /\ e.sequence = d.sequence
                                 /\ e.acks = d.acks /\ e.packet = d.packet
  <2>1. CASE d \in net'
    <3>1. d \in net \/ \E m \in outgoing[p] : d = [m.datagram EXCEPT !.at = time'[p]]
      BY <2>1, ResentMessage
    <3>2. ASSUME NEW m \in outgoing[p]
          PROVE  LET f == [m.datagram EXCEPT !.at = time'[p]]
                 IN  /\ f.to = m.datagram.to /\ f.sequence = m.datagram.sequence
                     /\ f.acks = m.datagram.acks /\ f.packet = m.datagram.packet
                     /\ m.datagram \in OnTheWay
      BY ResentMessage, OnTheWayFacts
    <3> QED BY <3>1, <3>2, OnTheWayFacts
  <2>2. ASSUME NEW r \in Peer, NEW m \in outgoing'[r], d = m.datagram
        PROVE  d \in OnTheWay
    BY <2>2, <1>2, OnTheWayFacts
  <2> QED BY <2>1, <2>2 DEF OnTheWay
<1> QED BY <1>2, <1>3

\* Messages are sent again, with the numbers and acks they had.
LEMMA UpdateAck ==
  ASSUME TransportTypeOK, AckInv, NEW p \in Peer, Update(p)
  PROVE  AckInv'
<1>1. /\ outgoing' = [outgoing EXCEPT ![p] = {Resent(p, m) : m \in @}]
      /\ \A m \in outgoing[p] : /\ Resent(p, m).ack_sequence = m.ack_sequence
                                /\ Resent(p, m).datagram = m.datagram
      /\ UNCHANGED <<received, seen, submitted>>
  BY ResentMessage DEF Update, endpoint, receiver
<1>2. ASSUME NEW r \in Peer, NEW m \in outgoing'[r]
      PROVE  \E o \in outgoing[r] : o.ack_sequence = m.ack_sequence /\ o.datagram = m.datagram
  BY ResentOnTheWay
<1>3. ASSUME NEW d \in OnTheWay'
      PROVE  \E e \in OnTheWay : /\ e.to = d.to /\ e.sequence = d.sequence
                                 /\ e.acks = d.acks /\ e.packet = d.packet
  BY ResentOnTheWay
<1>4. ASSUME NEW d \in OnTheWay', NEW m \in outgoing'[d.to], m.ack_sequence \in d.acks
      PROVE  m.datagram.packet.payload \in seen'[Other(d.to)]
  <2>1. PICK e \in OnTheWay : e.to = d.to /\ e.acks = d.acks
    BY <1>3
  <2>2. PICK o \in outgoing[d.to] : o.ack_sequence = m.ack_sequence /\ o.datagram = m.datagram
    BY <2>1, <1>2, OnTheWayFacts
  <2> QED BY <2>1, <2>2, <1>1, <1>4 DEF AckInv
<1>5. ASSUME NEW r \in Peer, NEW m \in outgoing'[r]
      PROVE  /\ m.datagram.to = Other(r) /\ m.datagram.sequence = m.ack_sequence
             /\ m.datagram.packet.header # Unreliable
             /\ Exists(received'[Other(r)], m.ack_sequence) =>
                  m.datagram.packet.payload \in seen'[Other(r)]
             /\ \A d \in OnTheWay' :
                  d.to = Other(r) /\ d.sequence = m.ack_sequence => d.packet = m.datagram.packet
  <2>1. PICK o \in outgoing[r] : o.ack_sequence = m.ack_sequence /\ o.datagram = m.datagram
    BY <1>2
  <2>2. ASSUME NEW d \in OnTheWay', d.to = Other(r), d.sequence = m.ack_sequence
        PROVE  d.packet = m.datagram.packet
    <3>1. PICK e \in OnTheWay : e.to = d.to /\ e.sequence = d.sequence /\ e.packet = d.packet
      BY <1>3
    <3> QED BY <2>1, <2>2, <3>1 DEF AckInv
  <2> QED BY <2>1, <2>2, <1>1 DEF AckInv
<1>6. ASSUME NEW r \in Peer PROVE Outstanding(r)' = Outstanding(r)
  <2>1. CASE r = p
    <3>1. outgoing'[r] = {Resent(p, m) : m \in outgoing[p]}
      BY <2>1, <1>1 DEF TransportTypeOK
    <3>2. \A x \in Outstanding(r)' : x \in Outstanding(r)
      BY <2>1, <3>1, <1>1 DEF Outstanding
    <3>3. \A x \in Outstanding(r) : x \in Outstanding(r)'
      <4> SUFFICES ASSUME NEW m \in outgoing[p]
                   PROVE  m.datagram.packet.payload \in Outstanding(r)'
        BY <2>1 DEF Outstanding
      <4>1. Resent(p, m) \in outgoing'[r] /\ Resent(p, m).datagram = m.datagram
        BY <3>1, <1>1
      <4> QED BY <4>1 DEF Outstanding
    <3> QED BY <3>2, <3>3
  <2>2. CASE r # p
    BY <2>2, <1>1 DEF Outstanding, TransportTypeOK
  <2> QED BY <2>1, <2>2
<1>7. GivenUpOnlyIfSeen'
  BY <1>1, <1>6 DEF AckInv, GivenUpOnlyIfSeen
<1> QED BY <1>4, <1>5, <1>7 DEF AckInv

\* A datagram arrives: nothing new is on the way, and nothing goes on record but
\* its packet, in the step that processes its message.
LEMMA ReceivedOnTheWay ==
  ASSUME TransportTypeOK, NEW p \in Peer, NEW d \in net, Receive(p, d)
  PROVE  /\ \A r \in Peer : outgoing'[r] \subseteq outgoing[r]
         /\ OnTheWay' \subseteq OnTheWay
         /\ \A r \in Peer : \A s \in SeqNum : Exists(received'[r], s) =>
              \/ Exists(received[r], s)
              \/ /\ r = p /\ s = d.sequence
                 /\ d.packet.header # Unreliable => d.packet.payload \in seen'[p]
<1>1. d.packet \in Packet /\ d.sequence \in SeqNum
  BY OnTheWayFacts DEF DatagramType
<1>2. /\ net' \subseteq net
      /\ outgoing' = [outgoing EXCEPT ![p] = StillOutgoing(p, NewlyAcked(p, d))]
      /\ ReceivePacket(p, d)
  BY DEF Receive
<1>3. \A r \in Peer : outgoing'[r] \subseteq outgoing[r]
  BY <1>2 DEF StillOutgoing, TransportTypeOK
<1>4. OnTheWay' \subseteq OnTheWay
  BY <1>2, <1>3 DEF OnTheWay
<1>5. ASSUME NEW r \in Peer, NEW s \in SeqNum, Exists(received'[r], s)
      PROVE  \/ Exists(received[r], s)
             \/ /\ r = p /\ s = d.sequence
                /\ d.packet.header # Unreliable => d.packet.payload \in seen'[p]
  <2>1. CASE received'[r] = received[r]
    BY <2>1, <1>5
  <2>2. CASE received'[r] # received[r]
    <3>1. TestInsert(received[p], d.sequence)
      BY <2>2, <1>2 DEF ReceivePacket
    <3>2. received' = [received EXCEPT ![p] = Insert(@, d.sequence)] /\ Process(p, d.packet)
      BY <3>1, <1>2 DEF ReceivePacket
    <3>3. r = p /\ received'[r] = Insert(received[p], d.sequence)
      BY <2>2, <3>2 DEF TransportTypeOK
    <3>4. Exists(received[p], s) \/ s = d.sequence
      <4>1. received[p] \in Buffer(ReceivedSize)
        BY DEF TransportTypeOK
      <4> QED BY <4>1, <3>3, <1>1, <1>5, TransportFacts, InsertAddsOne
    <3>5. d.packet.header # Unreliable => d.packet.payload \in seen'[p]
      BY <3>2 DEF Process, TransportTypeOK
    <3> QED BY <3>3, <3>4, <3>5
  <2> QED BY <2>1, <2>2
<1> QED BY <1>3, <1>4, <1>5

\* A datagram arrives: its packet goes on record in the step that processes its
\* message, and its acks take only messages that were processed.
LEMMA ReceiveAck ==
  ASSUME TransportTypeOK, AckInv, NEW p \in Peer, NEW d \in net, Receive(p, d)
  PROVE  AckInv'
<1> DEFINE q == Other(p)
<1>1. d \in OnTheWay /\ d.to = p /\ d.packet \in Packet /\ d.sequence \in SeqNum
  BY OnTheWayFacts DEF Receive, DatagramType
<1>2. q \in Peer /\ q # p /\ Other(q) = p /\ \A r \in Peer : r = p \/ r = q
  BY OtherPeer
<1> HIDE DEF q
<1>3. /\ net' \subseteq net /\ submitted' = submitted
      /\ outgoing' = [outgoing EXCEPT ![p] = StillOutgoing(p, NewlyAcked(p, d))]
      /\ ReceivePacket(p, d)
  BY DEF Receive
<1>4. \A r \in Peer : outgoing'[r] \subseteq outgoing[r]
  BY ReceivedOnTheWay
<1>5. OnTheWay' \subseteq OnTheWay
  BY ReceivedOnTheWay
<1>6. \A r \in Peer : seen[r] \subseteq seen'[r]
  <2>1. seen' = seen \/ seen' = [seen EXCEPT ![p] = @ \cup {d.packet.payload}]
    BY <1>3 DEF ReceivePacket, Process, receiver
  <2> QED BY <2>1 DEF TransportTypeOK
<1>7. ASSUME NEW r \in Peer, NEW s \in SeqNum, Exists(received'[r], s)
      PROVE  \/ Exists(received[r], s)
             \/ /\ r = p /\ s = d.sequence
                /\ d.packet.header # Unreliable => d.packet.payload \in seen'[p]
  BY <1>7, ReceivedOnTheWay
<1>8. ASSUME NEW e \in OnTheWay', NEW m \in outgoing'[e.to], m.ack_sequence \in e.acks
      PROVE  m.datagram.packet.payload \in seen'[Other(e.to)]
  <2>1. e \in OnTheWay /\ e.to \in Peer /\ Other(e.to) \in Peer
    BY <1>5, OnTheWayFacts, OtherPeer
  <2>2. m \in outgoing[e.to]
    BY <2>1, <1>4
  <2>3. m.datagram.packet.payload \in seen[Other(e.to)]
    BY <2>1, <2>2, <1>8 DEF AckInv
  <2> QED BY <2>1, <2>3, <1>6
<1>9. ASSUME NEW r \in Peer, NEW m \in outgoing'[r]
      PROVE  /\ m.datagram.to = Other(r) /\ m.datagram.sequence = m.ack_sequence
             /\ m.datagram.packet.header # Unreliable
             /\ Exists(received'[Other(r)], m.ack_sequence) =>
                  m.datagram.packet.payload \in seen'[Other(r)]
             /\ \A e \in OnTheWay' :
                  e.to = Other(r) /\ e.sequence = m.ack_sequence => e.packet = m.datagram.packet
  <2>1. m \in outgoing[r] /\ Other(r) \in Peer
    BY <1>4, OtherPeer
  <2>2. /\ m.datagram.to = Other(r) /\ m.datagram.sequence = m.ack_sequence
        /\ m.datagram.packet.header # Unreliable
        /\ Exists(received[Other(r)], m.ack_sequence) =>
             m.datagram.packet.payload \in seen[Other(r)]
        /\ \A e \in OnTheWay :
             e.to = Other(r) /\ e.sequence = m.ack_sequence => e.packet = m.datagram.packet
    BY <2>1 DEF AckInv
  <2>3. ASSUME Exists(received'[Other(r)], m.ack_sequence)
        PROVE  m.datagram.packet.payload \in seen'[Other(r)]
    <3>1. m.ack_sequence \in SeqNum
      BY <2>1, OnTheWayFacts DEF MessageType
    <3>2. CASE Exists(received[Other(r)], m.ack_sequence)
      BY <3>2, <2>1, <2>2, <1>6
    <3>3. CASE ~ Exists(received[Other(r)], m.ack_sequence)
      <4>1. /\ Other(r) = p /\ m.ack_sequence = d.sequence
            /\ d.packet.header # Unreliable => d.packet.payload \in seen'[p]
        BY <2>1, <2>3, <3>1, <3>3, <1>7
      <4>2. d.packet = m.datagram.packet
        BY <4>1, <2>2, <1>1
      <4> QED BY <4>1, <4>2, <2>2
    <3> QED BY <3>2, <3>3
  <2> QED BY <2>2, <2>3, <1>5
<1>10. GivenUpOnlyIfSeen'
  <2> SUFFICES ASSUME NEW r \in Peer, NEW x \in 0 .. submitted[r] - 1
               PROVE  x \in Outstanding(r)' \/ x \in seen'[Other(r)]
    BY <1>3 DEF GivenUpOnlyIfSeen
  <2>1. Other(r) \in Peer
    BY OtherPeer
  <2>2. CASE x \in seen[Other(r)]
    BY <2>1, <2>2, <1>6
  <2>3. CASE x \in Outstanding(r)
    <3>1. PICK m \in outgoing[r] : x = m.datagram.packet.payload
      BY <2>3 DEF Outstanding
    <3>2. CASE m \in outgoing'[r]
      BY <3>1, <3>2 DEF Outstanding
    <3>3. CASE m \notin outgoing'[r]
      <4>1. r = p /\ m.ack_sequence \in NewlyAcked(p, d)
        BY <3>3, <1>3 DEF StillOutgoing, TransportTypeOK
      <4>2. m.ack_sequence \in d.acks
        BY <4>1 DEF NewlyAcked
      <4>3. x \in seen[Other(p)]
        BY <4>1, <4>2, <3>1, <1>1 DEF AckInv
      <4> QED BY <4>1, <4>3, <2>1, <1>6
    <3> QED BY <3>2, <3>3
  <2>4. x \in Outstanding(r) \/ x \in seen[Other(r)]
    BY DEF AckInv, GivenUpOnlyIfSeen
  <2> QED BY <2>2, <2>3, <2>4
<1> QED BY <1>8, <1>9, <1>10 DEF AckInv

\* The acks in every step that uses a free number.
LEMMA AckStep ==
  ASSUME TransportTypeOK, AckInv, [Next]_vars, [SendsFree]_vars
  PROVE  AckInv'
<1>1. CASE UNCHANGED vars
  <2>1. UNCHANGED <<net, outgoing, received, seen, submitted>>
    BY <1>1 DEF vars, endpoint, sender, receiver
  <2> QED BY <2>1 DEF AckInv, OnTheWay, GivenUpOnlyIfSeen, Outstanding
<1>2. CASE Next /\ SendsFree
  <2>1. ASSUME NEW p \in Peer, SendReliable(p) PROVE AckInv'
    BY <2>1, <1>2, SendReliableAck DEF SendsFree
  <2>2. ASSUME NEW p \in Peer, SendUnreliable(p) PROVE AckInv'
    BY <2>2, <1>2, SendUnreliableAck DEF SendsFree
  <2> QED BY <2>1, <2>2, <1>2, UpdateAck, ReceiveAck DEF Next
<1> QED BY <1>1, <1>2

\* The sender gives a message up only once the other peer has processed it, as
\* long as no packet number is used again while something is left of its last
\* packet: late, kept to be sent again, acknowledged by what is late, or on
\* record at the receiver (snet_wt_process_incoming, reliable_endpoint_send_packet).
THEOREM TransportGivesUpFairly ==
  Spec /\ [][SendsFree]_vars => []GivenUpOnlyIfSeen
<1>1. Init => AckInv
  BY DEF Init, AckInv, OnTheWay, GivenUpOnlyIfSeen
<1>2. TransportTypeOK /\ AckInv /\ [Next]_vars /\ [SendsFree]_vars => AckInv'
  BY AckStep
<1>3. AckInv => GivenUpOnlyIfSeen
  BY DEF AckInv
<1> QED BY <1>1, <1>2, <1>3, TransportTypes, PTL DEF Spec

-----------------------------------------------------------------------------
(* A connection that ends before the numbers wrap uses none twice.         *)

\* The number of the next packet is free.
LEMMA UsedIsFree ==
  ASSUME TransportTypeOK, UsedInv, NEW p \in Peer
  PROVE  Free(p, sequence[p])
<1>1. Other(p) \in Peer /\ Other(Other(p)) = p /\ sequence[p] \in SeqNum /\ sequence[p] \in Int
  BY OtherPeer DEF TransportTypeOK, SeqNum
<1>2. ASSUME NEW d \in OnTheWay, d.to = Other(p) PROVE d.sequence # sequence[p]
  BY <1>1, <1>2 DEF UsedInv
<1>3. ASSUME NEW d \in OnTheWay, d.to = p PROVE sequence[p] \notin d.acks
  BY <1>1, <1>3 DEF UsedInv
<1>4. ~ Exists(received[Other(p)], sequence[p])
  BY <1>1 DEF UsedInv
<1> QED BY <1>2, <1>3, <1>4 DEF Free

\* A packet is sent: its number and its acks are used.
LEMMA SendUsed ==
  ASSUME TransportTypeOK, UsedInv, NumbersSuffice, NEW p \in Peer, NEW packet,
         SendPacket(p, packet),
         submitted[p] + unreliable[p] < MaxReliable[p] + MaxUnreliable[p]
  PROVE  /\ sequence' = [sequence EXCEPT ![p] = @ + 1]
         /\ Datagram(p, packet).sequence < sequence'[Other(Datagram(p, packet).to)]
         /\ \A s \in Datagram(p, packet).acks : s < sequence'[Datagram(p, packet).to]
<1> DEFINE D == Datagram(p, packet)
           q == Other(p)
<1>1. q \in Peer /\ q # p /\ Other(q) = p
  BY OtherPeer
<1>2. /\ sequence[p] \in Nat /\ sequence[q] \in Nat
      /\ sequence[p] = submitted[p] + unreliable[p]
  BY <1>1 DEF TransportTypeOK, UsedInv, SeqNum
<1>3. Wrap(sequence[p] + 1) = sequence[p] + 1
  <2>1. MaxReliable[p] \in Nat /\ MaxUnreliable[p] \in Nat /\ MaxReliable[p] + MaxUnreliable[p] < SeqMod
    BY TransportFacts DEF NumbersSuffice
  <2>2. sequence[p] + 1 \in 0 .. SeqMod - 1 /\ SeqMod \in Nat /\ SeqMod > 0
    BY <2>1, <1>2, SeqModAssumption
  <2> QED BY <2>2, SmallMod DEF Wrap
<1>4. sequence' = [sequence EXCEPT ![p] = @ + 1]
  BY <1>3 DEF SendPacket
<1>5. /\ D.to = q /\ D.sequence = sequence[p]
      /\ \A s \in D.acks : s \in SeqNum /\ Exists(received[p], s)
  BY DatagramFacts
<1>6. sequence'[p] = sequence[p] + 1 /\ sequence'[q] = sequence[q]
  BY <1>1, <1>4 DEF TransportTypeOK
<1> HIDE DEF D, q
<1>7. \A s \in D.acks : s < sequence[q]
  BY <1>5 DEF UsedInv, q
<1> QED BY <1>1, <1>2, <1>4, <1>5, <1>6, <1>7 DEF D

\* The counts a send leaves are within their bounds and add up to its number.
LEMMA SendCounts ==
  ASSUME TransportTypeOK, UsedInv, NumbersSuffice, NEW p \in Peer,
         SendReliable(p) \/ SendUnreliable(p)
  PROVE  /\ \E packet : SendPacket(p, packet) /\ OnTheWay' = OnTheWay \cup {Datagram(p, packet)}
         /\ submitted[p] + unreliable[p] < MaxReliable[p] + MaxUnreliable[p]
         /\ sequence' = [sequence EXCEPT ![p] = @ + 1] =>
              \A r \in Peer : /\ sequence'[r] = submitted'[r] + unreliable'[r]
                              /\ submitted'[r] <= MaxReliable[r]
                              /\ unreliable'[r] <= MaxUnreliable[r]
<1>1. /\ \A r \in Peer : /\ submitted[r] \in Nat /\ unreliable[r] \in Nat
                         /\ MaxReliable[r] \in Nat /\ MaxUnreliable[r] \in Nat
                         /\ sequence[r] = submitted[r] + unreliable[r]
                         /\ submitted[r] <= MaxReliable[r]
                         /\ unreliable[r] <= MaxUnreliable[r]
  BY TransportFacts DEF TransportTypeOK, UsedInv
<1>2. CASE SendReliable(p)
  <2> DEFINE packet == [header |-> next_outgoing[p], payload |-> submitted[p]]
             D == Datagram(p, packet)
             M == [timestamp |-> time[p], ack_sequence |-> sequence[p], datagram |-> D]
  <2>1. /\ SendPacket(p, packet) /\ net' = net \cup {D}
        /\ outgoing' = [outgoing EXCEPT ![p] = @ \cup {M}]
        /\ submitted[p] < MaxReliable[p]
        /\ submitted' = [submitted EXCEPT ![p] = @ + 1] /\ unreliable' = unreliable
    BY <1>2 DEF SendReliable, SendPacket
  <2>2. M.datagram = D
    OBVIOUS
  <2> HIDE DEF packet, D, M
  <2>3. \A r \in Peer : outgoing'[r] = IF r = p THEN outgoing[p] \cup {M} ELSE outgoing[r]
    BY <2>1 DEF TransportTypeOK
  <2>4. OnTheWay' = OnTheWay \cup {D}
    BY <2>1, <2>2, <2>3 DEF OnTheWay
  <2>5. \A r \in Peer : submitted'[r] = IF r = p THEN submitted[p] + 1 ELSE submitted[r]
    BY <2>1 DEF TransportTypeOK
  <2>6. ASSUME sequence' = [sequence EXCEPT ![p] = @ + 1], NEW r \in Peer
        PROVE  /\ sequence'[r] = submitted'[r] + unreliable'[r]
               /\ submitted'[r] <= MaxReliable[r] /\ unreliable'[r] <= MaxUnreliable[r]
    <3>1. sequence'[r] = IF r = p THEN sequence[p] + 1 ELSE sequence[r]
      BY <2>6 DEF TransportTypeOK
    <3> QED BY <3>1, <2>1, <2>5, <1>1
  <2>7. submitted[p] + unreliable[p] < MaxReliable[p] + MaxUnreliable[p]
    BY <2>1, <1>1
  <2>8. \E k : SendPacket(p, k) /\ OnTheWay' = OnTheWay \cup {Datagram(p, k)}
    BY <2>1, <2>4 DEF D
  <2> QED BY <2>6, <2>7, <2>8
<1>3. CASE SendUnreliable(p)
  <2> DEFINE packet == [header |-> Unreliable, payload |-> None]
  <2>1. /\ SendPacket(p, packet) /\ net' = net \cup {Datagram(p, packet)}
        /\ outgoing' = outgoing /\ unreliable[p] < MaxUnreliable[p]
        /\ unreliable' = [unreliable EXCEPT ![p] = @ + 1] /\ submitted' = submitted
    BY <1>3 DEF SendUnreliable, SendPacket
  <2> HIDE DEF packet
  <2>2. OnTheWay' = OnTheWay \cup {Datagram(p, packet)}
    BY <2>1 DEF OnTheWay
  <2>3. \A r \in Peer : unreliable'[r] = IF r = p THEN unreliable[p] + 1 ELSE unreliable[r]
    BY <2>1 DEF TransportTypeOK
  <2>4. ASSUME sequence' = [sequence EXCEPT ![p] = @ + 1], NEW r \in Peer
        PROVE  /\ sequence'[r] = submitted'[r] + unreliable'[r]
               /\ submitted'[r] <= MaxReliable[r] /\ unreliable'[r] <= MaxUnreliable[r]
    <3>1. sequence'[r] = IF r = p THEN sequence[p] + 1 ELSE sequence[r]
      BY <2>4 DEF TransportTypeOK
    <3>2. submitted'[r] = submitted[r]
      BY <2>1
    <3>3. unreliable'[r] <= MaxUnreliable[r]
      BY <2>1, <2>3, <1>1
    <3>4. sequence'[r] = submitted[r] + unreliable'[r]
      <4>1. CASE r = p
        BY <4>1, <3>1, <2>3, <1>1
      <4>2. CASE r # p
        BY <4>2, <3>1, <2>3, <1>1
      <4> QED BY <4>1, <4>2
    <3> QED BY <3>2, <3>3, <3>4, <1>1
  <2>5. submitted[p] + unreliable[p] < MaxReliable[p] + MaxUnreliable[p]
    BY <2>1, <1>1
  <2> QED BY <2>1, <2>2, <2>4, <2>5
<1> QED BY <1>2, <1>3

\* A packet is sent under the next number.
LEMMA SendKeepsUsed ==
  ASSUME TransportTypeOK, UsedInv, NumbersSuffice, NEW p \in Peer,
         SendReliable(p) \/ SendUnreliable(p)
  PROVE  UsedInv'
<1>1. PICK packet : SendPacket(p, packet) /\ OnTheWay' = OnTheWay \cup {Datagram(p, packet)}
  BY SendCounts
<1>2. submitted[p] + unreliable[p] < MaxReliable[p] + MaxUnreliable[p]
  BY SendCounts
<1>3. /\ sequence' = [sequence EXCEPT ![p] = @ + 1]
      /\ Datagram(p, packet).sequence < sequence'[Other(Datagram(p, packet).to)]
      /\ \A s \in Datagram(p, packet).acks : s < sequence'[Datagram(p, packet).to]
  BY <1>1, <1>2, SendUsed
<1>4. \A r \in Peer : /\ sequence'[r] = submitted'[r] + unreliable'[r]
                      /\ submitted'[r] <= MaxReliable[r]
                      /\ unreliable'[r] <= MaxUnreliable[r]
  BY <1>3, SendCounts
<1>5. \A r \in Peer : sequence[r] \in Nat /\ sequence'[r] \in Nat /\ sequence[r] <= sequence'[r]
  BY <1>3 DEF TransportTypeOK, SeqNum
<1>6. ASSUME NEW d \in OnTheWay
      PROVE  d.sequence < sequence'[Other(d.to)] /\ \A s \in d.acks : s < sequence'[d.to]
  <2>1. d.to \in Peer /\ Other(d.to) \in Peer /\ d.sequence \in Int /\ \A s \in d.acks : s \in Int
    BY OnTheWayFacts, OtherPeer DEF DatagramType, SeqNum
  <2>2. d.sequence < sequence[Other(d.to)] /\ \A s \in d.acks : s < sequence[d.to]
    BY DEF UsedInv
  <2> QED BY <2>1, <2>2, <1>5
<1>7. \A d \in OnTheWay' : /\ d.sequence < sequence'[Other(d.to)]
                           /\ \A s \in d.acks : s < sequence'[d.to]
  BY <1>1, <1>3, <1>6
<1>8. ASSUME NEW r \in Peer, NEW s \in SeqNum, Exists(received'[r], s)
      PROVE  s < sequence'[Other(r)]
  <2>1. received' = received /\ Other(r) \in Peer /\ s \in Int
    BY <1>1, OtherPeer DEF SendPacket, SeqNum
  <2>2. s < sequence[Other(r)]
    BY <2>1, <1>8 DEF UsedInv
  <2> QED BY <2>1, <2>2, <1>5
<1> QED BY <1>4, <1>7, <1>8 DEF UsedInv

\* A connection starts with nothing on record.
LEMMA NothingReceived ==
  ASSUME Init, NEW p \in Peer, NEW s \in SeqNum
  PROVE  ~ Exists(received[p], s)
<1>1. received[p] = EmptyBuffer(ReceivedSize)
  BY DEF Init
<1> DEFINE n == ReceivedSize
<1>2. EmptyBuffer(n).entry = [i \in 0 .. n - 1 |-> Vacant]
  BY DEF EmptyBuffer
<1>3. n \in Nat /\ n > 0
  BY TransportFacts
<1>4. NumEntries(EmptyBuffer(n)) = n
  BY <1>3, EmptyBufferType, RingSize
<1>5. s \in Nat /\ (s % n) \in 0 .. n - 1
  BY <1>3, Division, SeqModAssumption DEF SeqNum
<1>6. received[p].entry[s % NumEntries(received[p])] = Vacant
  BY <1>1, <1>2, <1>4, <1>5
<1> QED BY <1>5, <1>6 DEF Exists, Vacant

\* What is sent again was sent before.
LEMMA UpdateKeepsUsed ==
  ASSUME TransportTypeOK, UsedInv, NEW p \in Peer, Update(p)
  PROVE  UsedInv'
<1>1. UNCHANGED <<sequence, submitted, unreliable, received>>
  BY DEF Update, endpoint, receiver
<1>2. ASSUME NEW d \in OnTheWay'
      PROVE  \E e \in OnTheWay : e.to = d.to /\ e.sequence = d.sequence /\ e.acks = d.acks
  BY ResentOnTheWay
<1> QED BY <1>1, <1>2 DEF UsedInv

\* What is received was sent before.
LEMMA ReceiveKeepsUsed ==
  ASSUME TransportTypeOK, UsedInv, NEW p \in Peer, NEW d \in net, Receive(p, d)
  PROVE  UsedInv'
<1>1. d \in OnTheWay /\ d.to = p
  BY OnTheWayFacts DEF Receive
<1>2. UNCHANGED <<sequence, submitted, unreliable>>
  BY DEF Receive
<1>3. OnTheWay' \subseteq OnTheWay
  BY ReceivedOnTheWay
<1>4. ASSUME NEW r \in Peer, NEW s \in SeqNum, Exists(received'[r], s)
      PROVE  s < sequence[Other(r)]
  <2>1. Exists(received[r], s) \/ (r = p /\ s = d.sequence)
    BY <1>4, ReceivedOnTheWay
  <2> QED BY <2>1, <1>1 DEF UsedInv
<1> QED BY <1>2, <1>3, <1>4 DEF UsedInv

\* The numbers in every step.
LEMMA UsedStep ==
  ASSUME TransportTypeOK, UsedInv, NumbersSuffice, [Next]_vars
  PROVE  UsedInv'
<1>1. CASE UNCHANGED vars
  BY <1>1 DEF vars, endpoint, sender, receiver, UsedInv, OnTheWay
<1>2. CASE Next
  BY <1>2, SendKeepsUsed, UpdateKeepsUsed, ReceiveKeepsUsed DEF Next
<1> QED BY <1>1, <1>2

\* In a connection that sends fewer packets than there are numbers the sender
\* gives a message up only once the other peer has processed it, with nothing
\* assumed of what the network delays (snet_wt_process_incoming).
THEOREM TransportGivenUpOnlyIfSeen ==
  ASSUME NumbersSuffice
  PROVE  Spec => []GivenUpOnlyIfSeen
<1>1. Init => UsedInv
  <2> SUFFICES ASSUME Init PROVE UsedInv
    OBVIOUS
  <2>1. OnTheWay = {}
    BY DEF Init, OnTheWay
  <2>2. \A p \in Peer : \A s \in SeqNum : ~ Exists(received[p], s)
    BY NothingReceived
  <2>3. \A p \in Peer : /\ sequence[p] = 0 /\ submitted[p] = 0 /\ unreliable[p] = 0
                        /\ MaxReliable[p] \in Nat /\ MaxUnreliable[p] \in Nat
    BY TransportFacts DEF Init
  <2> QED BY <2>1, <2>2, <2>3 DEF UsedInv
<1>2. TransportTypeOK /\ UsedInv /\ [Next]_vars => UsedInv'
  BY UsedStep
<1>3. TransportTypeOK /\ UsedInv => SendsFree
  BY UsedIsFree DEF SendsFree
<1>4. [Next]_vars /\ SendsFree => [SendsFree]_vars
  OBVIOUS
<1>5. TransportTypeOK /\ AckInv /\ [Next]_vars /\ [SendsFree]_vars => AckInv'
  BY AckStep
<1>6. Init => AckInv
  BY DEF Init, AckInv, OnTheWay, GivenUpOnlyIfSeen
<1>7. AckInv => GivenUpOnlyIfSeen
  BY DEF AckInv
<1> QED BY <1>1, <1>2, <1>3, <1>4, <1>5, <1>6, <1>7, TransportTypes, PTL DEF Spec
=============================================================================
