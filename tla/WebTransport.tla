----------------------------- MODULE WebTransport -----------------------------
(***************************************************************************)
(* Two peers of a connection, each running slopnet_webtransport.c on top   *)
(* of an endpoint of reliable.c, over datagrams that may be lost, delayed  *)
(* and reordered.  A message is a single datagram here (at most            *)
(* SNET_WT_FRAGMENT_ABOVE bytes), and no message is sent from inside the   *)
(* callback that delivers one: slopnet_transport.c never does.             *)
(*                                                                         *)
(* The payload of a reliable message is its place in the sender's stream,  *)
(* 0, 1, 2, ..., which the code does not have: on the wire it has the 7    *)
(* bits of it in the message's header.                                     *)
(***************************************************************************)
EXTENDS SequenceBuffer, Sequences

CONSTANTS
  Peer,            \* the two ends
  Window,          \* SNET_WT_MAX_INFLIGHT_RELIABLE_MESSAGES: 32
  RelMod,          \* 128: the header's 7 bit sequence
  AckBits,         \* 32: the packets one packet header acknowledges
  SentSize,        \* sent_packets_buffer_size: 256
  ReceivedSize,    \* received_packets_buffer_size: 256
  ResendDelay,     \* SNET_WT_RESEND_DELAY, in ticks of snet_wt_update
  MaxReliable,     \* bound, by peer, on the reliable messages sent
  MaxUnreliable,   \* bound, by peer, on the unreliable messages sent
  MaxTime          \* bound, by peer, on the calls of snet_wt_update

Slots == 2 * Window
Slot  == 0 .. Slots - 1

\* A connection has two ends.
ASSUME PeerAssumption == \E p, q \in Peer : p # q /\ Peer = {p, q}

ASSUME WebTransportAssumption ==
  /\ {Window, RelMod, AckBits, SentSize, ReceivedSize, ResendDelay} \subseteq Nat
  /\ Window > 0 /\ RelMod >= Slots /\ RelMod % Slots = 0
  /\ SentSize > 0 /\ ReceivedSize > 0
  /\ {MaxReliable, MaxUnreliable, MaxTime} \subseteq [Peer -> Nat]

Unreliable == -1   \* header of an unreliable packet: the first byte is 0
None       == -1   \* no payload

VARIABLES
  \* reliable_endpoint_t
  sequence,        \* the number of the next packet
  sent,            \* sent_packets
  acked,           \* the slots of sent_packets whose packet is acked
  received,        \* received_packets
  \* snet_wt_s
  time,
  next_outgoing,   \* next_outgoing_reliable_header
  outgoing,        \* outgoing_reliable_messages
  next_incoming,   \* next_incoming_reliable_header
  incoming,        \* incoming_reliable_messages: a payload or None
  \* the network
  net,             \* the datagrams sent and not received: late or lost
  \* history, not in the code
  submitted,       \* how many reliable messages the peer sent
  unreliable,      \* how many unreliable ones
  delivered,       \* the reliable payloads handed to the application
  seen,            \* the reliable payloads processed, so acknowledged
  disturbed        \* a copy of a delivered message, or one from beyond the
                   \* slots, was taken in by the receiver

endpoint == <<sequence, sent, acked, received>>
sender   == <<next_outgoing, outgoing, submitted, unreliable>>
receiver == <<next_incoming, incoming, delivered, seen, disturbed>>
vars     == <<endpoint, sender, receiver, time, net>>

Other(p) == CHOOSE q \in Peer : q # p

Init ==
  /\ sequence = [p \in Peer |-> 0]
  /\ sent = [p \in Peer |-> EmptyBuffer(SentSize)]
  /\ acked = [p \in Peer |-> {}]
  /\ received = [p \in Peer |-> EmptyBuffer(ReceivedSize)]
  /\ time = [p \in Peer |-> 0]
  /\ next_outgoing = [p \in Peer |-> 0]
  /\ outgoing = [p \in Peer |-> {}]
  /\ next_incoming = [p \in Peer |-> 0]
  /\ incoming = [p \in Peer |-> [i \in Slot |-> None]]
  /\ net = {}
  /\ submitted = [p \in Peer |-> 0]
  /\ unreliable = [p \in Peer |-> 0]
  /\ delivered = [p \in Peer |-> <<>>]
  /\ seen = [p \in Peer |-> {}]
  /\ disturbed = [p \in Peer |-> FALSE]

-----------------------------------------------------------------------------
(* Sending.                                                                *)

\* A datagram: the endpoint's packet header around the message's packet.
\* "at" is when it left, which tells a copy from the original.
Datagram(p, packet) ==
  [to |-> Other(p), sequence |-> sequence[p],
   acks |-> AckSet(received[p], AckBits), packet |-> packet, at |-> time[p]]

\* reliable_endpoint_send_packet
SendPacket(p, packet) ==
  /\ sequence' = [sequence EXCEPT ![p] = Wrap(@ + 1)]
  /\ sent' = [sent EXCEPT ![p] = Insert(@, sequence[p])]
  /\ acked' = [acked EXCEPT ![p] = @ \ {sequence[p] % SentSize}]
  /\ net' = net \cup {Datagram(p, packet)}
  /\ UNCHANGED received

\* Mutant of WindowOpen: one message more than the window is let out.
WindowOpenLate(p) == Cardinality(outgoing[p]) <= Window

WindowOpen(p) == Cardinality(outgoing[p]) < Window

\* snet_wt_send, reliable: refused while Window messages are unacknowledged.
SendReliable(p) ==
  LET packet == [header |-> next_outgoing[p], payload |-> submitted[p]]
  IN  /\ submitted[p] < MaxReliable[p]
      /\ WindowOpen(p)
      /\ SendPacket(p, packet)
      /\ outgoing' = [outgoing EXCEPT ![p] = @ \cup
                        {[timestamp |-> time[p], ack_sequence |-> sequence[p],
                          datagram |-> Datagram(p, packet)]}]
      /\ next_outgoing' = [next_outgoing EXCEPT ![p] = (@ + 1) % RelMod]
      /\ submitted' = [submitted EXCEPT ![p] = @ + 1]
      /\ UNCHANGED <<receiver, time, unreliable>>

\* snet_wt_send, unreliable.
SendUnreliable(p) ==
  /\ unreliable[p] < MaxUnreliable[p]
  /\ SendPacket(p, [header |-> Unreliable, payload |-> None])
  /\ unreliable' = [unreliable EXCEPT ![p] = @ + 1]
  /\ UNCHANGED <<receiver, time, next_outgoing, outgoing, submitted>>

Due(p, m) == time'[p] - m.timestamp >= ResendDelay

\* snet_wt_update: every message unacknowledged for ResendDelay is sent again
\* as it was first sent, with the packet number and acks it had then.
Update(p) ==
  /\ time[p] < MaxTime[p]
  /\ time' = [time EXCEPT ![p] = @ + 1]
  /\ net' = net \cup {[m.datagram EXCEPT !.at = time'[p]] :
                        m \in {o \in outgoing[p] : Due(p, o)}}
  /\ outgoing' = [outgoing EXCEPT ![p] =
       {IF Due(p, m) THEN [m EXCEPT !.timestamp = time'[p]] ELSE m : m \in @}]
  /\ UNCHANGED <<endpoint, receiver, next_outgoing, submitted, unreliable>>

-----------------------------------------------------------------------------
(* Receiving.                                                              *)

SlotOf(header) == header % Slots

\* The header the stream waits for once k more messages are delivered.
Expected(p, k) == (next_incoming[p] + k) % RelMod

\* How many queued messages follow the one that just arrived in order.
Drained(p) ==
  CHOOSE k \in 0 .. Slots :
    /\ \A j \in 1 .. k : incoming[p][SlotOf(Expected(p, j))] # None
    /\ k < Slots => incoming[p][SlotOf(Expected(p, k + 1))] = None

\* Mutant of DeliverInOrder: a slot is not emptied when it is delivered.
DeliverInOrderKeepingSlots(p, packet) ==
  LET k      == Drained(p)
      queued == [j \in 1 .. k |-> incoming[p][SlotOf(Expected(p, j))]]
  IN  /\ packet.header = next_incoming[p]
      /\ delivered' = [delivered EXCEPT ![p] = @ \o <<packet.payload>> \o queued]
      /\ next_incoming' = [next_incoming EXCEPT ![p] = Expected(p, k + 1)]
      /\ UNCHANGED incoming

\* Mutant of DeliverInOrder: the queue is not looked at.
DeliverOnlyThis(p, packet) ==
  /\ packet.header = next_incoming[p]
  /\ delivered' = [delivered EXCEPT ![p] = Append(@, packet.payload)]
  /\ next_incoming' = [next_incoming EXCEPT ![p] = Expected(p, Drained(p) + 1)]
  /\ incoming' = [incoming EXCEPT ![p] = [i \in Slot |-> None]]

\* The message the stream waits for: it and the queued ones are delivered.
DeliverInOrder(p, packet) ==
  LET k      == Drained(p)
      queued == [j \in 1 .. k |-> incoming[p][SlotOf(Expected(p, j))]]
      freed  == {SlotOf(Expected(p, j)) : j \in 1 .. k}
  IN  /\ packet.header = next_incoming[p]
      /\ delivered' = [delivered EXCEPT ![p] = @ \o <<packet.payload>> \o queued]
      /\ next_incoming' = [next_incoming EXCEPT ![p] = Expected(p, k + 1)]
      /\ incoming' = [incoming EXCEPT ![p] =
                        [i \in Slot |-> IF i \in freed THEN None ELSE @[i]]]

\* Any other message is queued, unless its slot is taken.
Queue(p, packet) ==
  LET slot == SlotOf(packet.header)
  IN  /\ packet.header # next_incoming[p]
      /\ incoming' = [incoming EXCEPT ![p][slot] =
                        IF @ = None THEN packet.payload ELSE @]
      /\ UNCHANGED <<delivered, next_incoming>>

\* The message is not one the window can tell apart: it was delivered before
\* and is now delivered or queued again, or it comes from beyond the slots.
Disturbs(p, packet) ==
  \/ /\ packet.payload < Len(delivered[p])
     /\ \/ packet.header = next_incoming[p]
        \/ incoming[p][SlotOf(packet.header)] = None
  \/ packet.payload >= Len(delivered[p]) + Slots

\* snet_wt_reliable_process
Process(p, packet) ==
  IF packet.header = Unreliable
  THEN UNCHANGED receiver
  ELSE /\ DeliverInOrder(p, packet) \/ Queue(p, packet)
       /\ seen' = [seen EXCEPT ![p] = @ \cup {packet.payload}]
       /\ disturbed' = [disturbed EXCEPT ![p] = @ \/ Disturbs(p, packet)]

\* The packets of p that datagram d acknowledges for the first time; the acks
\* of a stale packet are not read.
NewlyAcked(p, d) ==
  IF TestInsert(received[p], d.sequence)
  THEN {s \in d.acks : Exists(sent[p], s) /\ s % SentSize \notin acked[p]}
  ELSE {}

\* reliable_endpoint_receive_packet: a stale packet is dropped; any other is
\* processed, entered, even if it was before, and its acks taken in.
ReceivePacket(p, d) ==
  IF TestInsert(received[p], d.sequence)
  THEN /\ Process(p, d.packet)
       /\ received' = [received EXCEPT ![p] = Insert(@, d.sequence)]
       /\ acked' = [acked EXCEPT ![p] = @ \cup {s % SentSize : s \in NewlyAcked(p, d)}]
  ELSE UNCHANGED <<receiver, received, acked>>

\* Mutant of StillOutgoing: the message moved into a hole is skipped.
StillOutgoingSkipping(p, newly) ==
  LET gone == {m \in outgoing[p] : m.ack_sequence \in newly}
  IN  IF Cardinality(gone) < 2
      THEN outgoing[p] \ gone
      ELSE outgoing[p] \ (gone \ {CHOOSE m \in gone : TRUE})

\* The messages of p left to acknowledge: the acks are matched to all of them.
StillOutgoing(p, newly) == {m \in outgoing[p] : m.ack_sequence \notin newly}

\* snet_wt_process_incoming
Receive(p, d) ==
  /\ d \in net /\ d.to = p
  /\ net' = net \ {d}
  /\ ReceivePacket(p, d)
  /\ outgoing' = [outgoing EXCEPT ![p] = StillOutgoing(p, NewlyAcked(p, d))]
  /\ UNCHANGED <<sequence, sent, time, next_outgoing, submitted, unreliable>>

Next ==
  \E p \in Peer :
    \/ SendReliable(p)
    \/ SendUnreliable(p)
    \/ Update(p)
    \/ \E d \in net : Receive(p, d)

Spec == Init /\ [][Next]_vars

-----------------------------------------------------------------------------
(* Properties.                                                             *)

Header  == 0 .. RelMod - 1
Payload == Nat

Packet == [header: Header, payload: Payload]
            \cup [header: {Unreliable}, payload: {None}]

IsDatagram(d) ==
  /\ DOMAIN d = {"to", "sequence", "acks", "packet", "at"}
  /\ d.to \in Peer /\ d.sequence \in SeqNum /\ d.acks \subseteq SeqNum
  /\ d.packet \in Packet /\ d.at \in Nat

TypeOK ==
  /\ sequence \in [Peer -> SeqNum]
  /\ sent \in [Peer -> Buffer(SentSize)]
  /\ received \in [Peer -> Buffer(ReceivedSize)]
  /\ acked \in [Peer -> SUBSET (0 .. SentSize - 1)]
  /\ time \in [Peer -> Nat]
  /\ next_outgoing \in [Peer -> Header]
  /\ next_incoming \in [Peer -> Header]
  /\ incoming \in [Peer -> [Slot -> Payload \cup {None}]]
  /\ submitted \in [Peer -> Nat] /\ unreliable \in [Peer -> Nat]
  /\ delivered \in [Peer -> Seq(Payload)]
  /\ seen \in [Peer -> SUBSET Payload]
  /\ disturbed \in [Peer -> BOOLEAN]
  /\ \A d \in net : IsDatagram(d)
  /\ \A p \in Peer : /\ Cardinality(outgoing[p]) <= Window
                     /\ \A m \in outgoing[p] : /\ m.timestamp \in Nat
                                               /\ m.ack_sequence \in SeqNum
                                               /\ IsDatagram(m.datagram)

Stored(p) == {incoming[p][i] : i \in Slot} \ {None}

Delivered(p) == {delivered[p][i] : i \in 1 .. Len(delivered[p])}

Outstanding(p) == {m.datagram.packet.payload : m \in outgoing[p]}

InOrder(p) == \A i \in 1 .. Len(delivered[p]) : delivered[p][i] = i - 1

\* Reliable messages reach the application in the order they were sent, none
\* missing and none twice, whatever is lost, late or sent again, as long as
\* no copy of a delivered message and no message from beyond the slots was
\* taken in (snet_wt_reliable_process).
StreamIntact == \A p \in Peer : ~ disturbed[p] => InOrder(p)

\* Everything the receiver processed, and will therefore acknowledge, it has
\* delivered or still holds, under the same proviso.
NothingDropped ==
  \A p \in Peer :
    ~ disturbed[p] => \A m \in seen[p] : m < Len(delivered[p]) \/ m \in Stored(p)

\* The sender gives a message up only once the other peer has processed it,
\* with no proviso at all: acks never name a packet that did not arrive, and
\* never match a message other than the one that packet carried.
GivenUpOnlyIfSeen ==
  \A p \in Peer :
    \A m \in 0 .. submitted[p] - 1 : m \in Outstanding(p) \cup seen[Other(p)]

\* The endpoint reports an ack once.  A message still outstanding has not
\* missed the report: its packet, if still on record, is not acked.
NoAckMissed ==
  \A p \in Peer : \A m \in outgoing[p] :
    Exists(sent[p], m.ack_sequence) => m.ack_sequence % SentSize \notin acked[p]

\* What the comments of snet_wt_reliable_process promise and the code does
\* not keep; each is refuted by a run of its own.

\* "Not yet stored, could be a redundant retransmission": a retransmission
\* that is redundant does no harm, so the stream is in order as long as no
\* message comes from beyond the slots.
RedundantIsHarmless == \A p \in Peer : InOrder(p)

\* "Should ack": a message that was processed and that the sender still
\* retransmits is acknowledged by the next packet, or by one in flight.
ProcessedIsAcked ==
  \A p \in Peer : \A m \in outgoing[p] :
    m.datagram.packet.payload \in seen[Other(p)] =>
      \/ m.ack_sequence \in AckSet(received[Other(p)], AckBits)
      \/ \E d \in net : d.to = p /\ m.ack_sequence \in d.acks
=============================================================================
