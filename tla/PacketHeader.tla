---------------------------- MODULE PacketHeader ----------------------------
(***************************************************************************)
(* The bytes reliable.c puts in front of a packet, and what it makes of    *)
(* them on the other side.  A datagram is the sequence of its bytes.  A    *)
(* byte is a number below ByteMod, except where the code works with its    *)
(* bits: the first byte of a datagram and the four bytes of the 32 ack     *)
(* bits are the set of the bits that are set in them.  A byte of ack bits  *)
(* that are all set is left out of the header.                             *)
(***************************************************************************)
EXTENDS SequenceBuffer, Sequences

CONSTANTS ByteMod,       \* 256: the number of values of a byte
          ByteBits,      \* 8: the ack bits in each of their four bytes
          FragmentSize,  \* bytes of a packet in each of its fragments
          MaxFragments   \* most fragments of a packet

ASSUME HeaderAssumption ==
  /\ ByteMod \in Nat /\ ByteMod > 1 /\ SeqMod = ByteMod * ByteMod
  /\ ByteBits \in Nat \ {0}
  /\ FragmentSize \in Nat \ {0} /\ MaxFragments \in 1 .. ByteMod

FullByte == 0 .. ByteBits - 1

AckBytes == [1 .. 4 -> SUBSET FullByte]

\* The bits of the first byte; bit g = 1 .. 4 says that byte g of the ack
\* bits follows.
FragmentBit == 0
NearBit     == 5

Uint16(n) == <<n % ByteMod, n \div ByteMod>>

ReadUint16(data, p) == data[p] + ByteMod * data[p + 1]

Distance(sequence, ack) == Wrap(sequence - ack)

\* Mutant of Near: also for the distance that just does not fit into a byte.
NearWide(sequence, ack) == Distance(sequence, ack) <= ByteMod

\* The ack is written as its distance to the sequence where one byte holds it.
Near(sequence, ack) == Distance(sequence, ack) < ByteMod

Prefix(sequence, ack, acks) ==
  {g \in 1 .. 4 : acks[g] # FullByte}
    \cup (IF Near(sequence, ack) THEN {NearBit} ELSE {})

AckField(sequence, ack) ==
  IF Near(sequence, ack) THEN <<Distance(sequence, ack) % ByteMod>> ELSE Uint16(ack)

Group(byte) == IF byte = FullByte THEN <<>> ELSE <<byte>>

PacketHeader(sequence, ack, acks) ==
  <<Prefix(sequence, ack, acks)>> \o Uint16(sequence) \o AckField(sequence, ack)
    \o Group(acks[1]) \o Group(acks[2]) \o Group(acks[3]) \o Group(acks[4])

Refused == [refused |-> TRUE]

\* The bytes before the ack bits, and the place of each byte of ack bits.
HeadBytes(data) == IF NearBit \in data[1] THEN 4 ELSE 5

Flag(data, g) == IF g \in data[1] THEN 1 ELSE 0

Place(data) ==
  LET p1 == HeadBytes(data) + 1
      p2 == p1 + Flag(data, 1)
      p3 == p2 + Flag(data, 2)
      p4 == p3 + Flag(data, 3)
  IN  <<p1, p2, p3, p4, p4 + Flag(data, 4)>>

ReadAckByte(data, g) ==
  IF g \in data[1] THEN data[Place(data)[g]] ELSE FullByte

\* The header of a packet that is said to have "bytes" bytes.
ReadPacketHeader(data, bytes) ==
  IF \/ bytes < 3 \/ FragmentBit \in data[1]
     \/ bytes < HeadBytes(data) \/ bytes < Place(data)[5] - 1
  THEN Refused
  ELSE LET sequence == ReadUint16(data, 2)
       IN  [refused  |-> FALSE,
            sequence |-> sequence,
            ack      |-> IF NearBit \in data[1] THEN Wrap(sequence - data[4])
                         ELSE ReadUint16(data, 4),
            acks     |-> [g \in 1 .. 4 |-> ReadAckByte(data, g)],
            bytes    |-> Place(data)[5] - 1]

-----------------------------------------------------------------------------

FragmentHeaderBytes == 5

FragmentCount(payload) ==
  Len(payload) \div FragmentSize + (IF Len(payload) % FragmentSize # 0 THEN 1 ELSE 0)

Piece(payload, id) ==
  LET end == (id + 1) * FragmentSize
  IN  SubSeq(payload, id * FragmentSize + 1,
             IF end > Len(payload) THEN Len(payload) ELSE end)

\* The datagrams of a packet too large for one.
FragmentsOf(sequence, ack, acks, payload) ==
  [id \in 0 .. FragmentCount(payload) - 1 |->
     <<{FragmentBit}>> \o Uint16(sequence) \o <<id, FragmentCount(payload) - 1>>
       \o (IF id = 0 THEN PacketHeader(sequence, ack, acks) ELSE <<>>)
       \o Piece(payload, id)]

Unfragmented(data) == SubSeq(data, FragmentHeaderBytes + 1, Len(data))

\* Only the first fragment carries a header; its length is passed with the
\* fragment header counted in.
NestedHeader(data) ==
  IF data[4] = 0 THEN ReadPacketHeader(Unfragmented(data), Len(data))
  ELSE [refused |-> FALSE, sequence |-> ReadUint16(data, 2), bytes |-> 0,
        ack |-> 0, acks |-> [g \in 1 .. 4 |-> {}]]

FragmentBytesOf(data) == Len(data) - FragmentHeaderBytes - NestedHeader(data).bytes

ReadFragment(data) ==
  IF \/ Len(data) < FragmentHeaderBytes \/ data[1] # {FragmentBit}
     \/ data[5] + 1 > MaxFragments \/ data[4] > data[5]
     \/ NestedHeader(data).refused
     \/ NestedHeader(data).sequence # ReadUint16(data, 2)
     \/ FragmentBytesOf(data) > FragmentSize
     \/ data[4] # data[5] /\ FragmentBytesOf(data) # FragmentSize
  THEN Refused
  ELSE [refused |-> FALSE, sequence |-> ReadUint16(data, 2),
        id |-> data[4], count |-> data[5] + 1,
        ack |-> NestedHeader(data).ack, acks |-> NestedHeader(data).acks]

\* Mutant of RewrittenHeader: with the ack the entry was cleared to.
RewrittenHeaderCleared(data) ==
  LET read == ReadFragment(data)
  IN  PacketHeader(read.sequence, 0, read.acks)

\* The header of the whole packet is written anew from what was read.
RewrittenHeader(data) ==
  LET read == ReadFragment(data)
  IN  PacketHeader(read.sequence, read.ack, read.acks)

\* The bytes of a fragment that go into the packet: behind a first
\* fragment's header, whose length is taken to be that of the new one.
StoredBytes(data) ==
  SubSeq(data,
         FragmentHeaderBytes + 1
           + (IF data[4] = 0 THEN Len(RewrittenHeader(data)) ELSE 0),
         Len(data))

\* What the last fragment makes packet_bytes.
PacketBytes(last) == last[5] * FragmentSize + Len(StoredBytes(last))

\* The packet put together of its fragments, with a header in front.
Reassembled(datagrams, count) ==
  RewrittenHeader(datagrams[0])
    \o [i \in 1 .. PacketBytes(datagrams[count - 1]) |->
          StoredBytes(datagrams[(i - 1) \div FragmentSize])[1 + ((i - 1) % FragmentSize)]]
=============================================================================
