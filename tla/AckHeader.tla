------------------------------ MODULE AckHeader ------------------------------
(***************************************************************************)
(* The packets an endpoint sends while its window of received packets      *)
(* moves on: whatever it has received and whatever its own packet number,  *)
(* the peer reads the acks that were meant.                                *)
(***************************************************************************)
EXTENDS SequenceWindow, PacketHeader

CONSTANTS Sent,     \* sequence numbers of packets sent
          Payload   \* lengths of packets

Bytes(n) == [i \in 1 .. n |-> i % ByteMod]

\* What is sent fits into the fragments a packet may have.
ASSUME AckHeaderAssumption ==
  /\ Bits = 4 * ByteBits
  /\ Sent \subseteq SeqNum /\ Payload \subseteq Nat \ {0}
  /\ \A n \in Payload : FragmentCount(Bytes(n)) <= MaxFragments

Ack == Wrap(buffer.sequence - 1)

\* ack_bits, byte by byte: bit b of byte g stands for the packet that is
\* (g - 1) * ByteBits + b before Ack.
Acks ==
  [g \in 1 .. 4 |->
     {b \in FullByte : Wrap(Ack - ((g - 1) * ByteBits + b)) \in AckSet(buffer, Bits)}]

\* The datagram is read as a packet with this sequence and n bytes.
ReadsBack(data, sequence, n) ==
  LET read == ReadPacketHeader(data, Len(data))
  IN  /\ ~ read.refused
      /\ read.sequence = sequence /\ read.ack = Ack /\ read.acks = Acks
      /\ SubSeq(data, read.bytes + 1, Len(data)) = Bytes(n)

\* What the peer reads of a packet is the sequence, the ack and the ack bits
\* it was sent with, and behind the header the bytes of the packet begin
\* (reliable_write_packet_header, reliable_read_packet_header).
HeaderReadBack ==
  \A sequence \in Sent, n \in Payload :
    ReadsBack(PacketHeader(sequence, Ack, Acks) \o Bytes(n), sequence, n)

\* A packet taken apart into fragments is put together again as it would
\* have been sent whole, though the header in the first fragment is not
\* kept but written anew (reliable_read_fragment_header,
\* reliable_store_fragment_data).
FragmentsReadBack ==
  \A sequence \in Sent, n \in Payload :
    LET datagrams == FragmentsOf(sequence, Ack, Acks, Bytes(n))
        count     == FragmentCount(Bytes(n))
    IN  /\ \A id \in 0 .. count - 1 : ~ ReadFragment(datagrams[id]).refused
        /\ ReadsBack(Reassembled(datagrams, count), sequence, n)
=============================================================================
