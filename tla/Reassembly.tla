------------------------------ MODULE Reassembly ------------------------------
(***************************************************************************)
(* The receiving half of an endpoint of reliable.c: regular packets, and   *)
(* packets that come in fragments and are put together in a block of       *)
(* memory that an entry of the reassembly buffer owns.  Datagrams come in  *)
(* any order, any number of times or never, as long as they stay within    *)
(* reach of the newest one.  The callback takes every packet it is given,  *)
(* as snet_wt_reliable_process does (a packet of slopnet is never empty).  *)
(***************************************************************************)
EXTENDS SequenceBuffer

CONSTANTS
  Size,            \* by packet number: the bytes of the packet
  FragmentAbove,   \* SNET_WT_FRAGMENT_ABOVE: 1015
  FragmentSize,    \* SNET_WT_FRAGMENT_SIZE: 1000
  ReceivedSize,    \* received_packets_buffer_size: 256
  ReassemblySize,  \* fragment_reassembly_buffer_size: 64
  Block, NoBlock,  \* what allocate_function may return, and NULL
  Ahead, Behind,   \* how far from the newest packet a datagram may be
  MaxNumber        \* bound on the packets of the connection

Numbers == 0 .. MaxNumber

ASSUME ReassemblyAssumption ==
  /\ {FragmentAbove, FragmentSize, ReceivedSize, ReassemblySize, Ahead, Behind,
      MaxNumber} \subseteq Nat
  /\ 0 < FragmentSize /\ FragmentSize <= FragmentAbove
  /\ 0 < ReassemblySize /\ ReassemblySize <= ReceivedSize
  /\ SeqMod % ReassemblySize = 0 /\ SeqMod % ReceivedSize = 0
  /\ Ahead < Half - ReceivedSize /\ Behind <= Half
  /\ Size \in [Numbers -> Nat \ {0}]
  /\ NoBlock \notin Block

VARIABLES
  received,     \* received_packets
  reassembly,   \* fragment_reassembly: which packet each slot is for
  data,         \* by slot of it: reliable_fragment_reassembly_data_t
  memory,       \* by block: Free, or the fragments written to it
  processed,    \* the packet the last step gave to the callback, if any
  \* history, not in the code
  top,          \* one past the newest packet, unwrapped
  whole         \* the packets processed, as far back as acks reach

vars == <<received, reassembly, data, memory, processed, top, whole>>

Slot == 0 .. ReassemblySize - 1
Free == {<<-1, -1>>}   \* no fragment

Unused == [block |-> NoBlock, total |-> 0, got |-> {}, bytes |-> 0]

Init ==
  /\ received = EmptyBuffer(ReceivedSize)
  /\ reassembly = EmptyBuffer(ReassemblySize)
  /\ data = [i \in Slot |-> Unused]
  /\ memory = [b \in Block |-> Free]
  /\ processed = {}
  /\ top = 0 /\ whole = {}

-----------------------------------------------------------------------------
(* What the sender makes of a packet.                                      *)

Fragmented(s) == Size[s] > FragmentAbove

NumFragments(s) == (Size[s] + FragmentSize - 1) \div FragmentSize

FragmentId(s) == 0 .. NumFragments(s) - 1

FragmentBytes(s, i) ==
  IF (i + 1) * FragmentSize > Size[s] THEN Size[s] - i * FragmentSize ELSE FragmentSize

-----------------------------------------------------------------------------
(* The reassembly buffer and its memory.                                   *)

Blocks(slots) == {data[i].block : i \in slots} \ {NoBlock}

\* reliable_fragment_reassembly_data_cleanup, of the entries in slots.
CleanedData(slots) ==
  [i \in Slot |-> IF i \in slots THEN [data[i] EXCEPT !.block = NoBlock] ELSE data[i]]

CleanedMemory(slots) ==
  [b \in Block |-> IF b \in Blocks(slots) THEN Free ELSE memory[b]]

Newer(w) == GreaterThan(Wrap(w + 1), reassembly.sequence)

\* Mutant of Evicted: the entries are removed with no cleanup function.
EvictedLeaking(w) == {}

\* The slots that advancing to w cleans up.
Evicted(w) ==
  IF Newer(w) THEN ClearedSlots(ReassemblySize, reassembly.sequence, w) ELSE {}

Stale(w) == ~ Newer(w) /\ ~ TestInsert(reassembly, w)

\* The slots that reliable_sequence_buffer_insert_with_cleanup cleans up.
Displaced(w) ==
  LET slot == w % ReassemblySize
  IN  IF ~ Newer(w) /\ reassembly.entry[slot] # Vacant THEN {slot} ELSE Evicted(w)

-----------------------------------------------------------------------------
(* Receiving.                                                              *)

Packet(s, parts, bytes) == [number |-> s, parts |-> parts, bytes |-> bytes]

Seen(s) == IF s >= top THEN s + 1 ELSE top

Known(numbers) == {s \in numbers : s >= top' - ReceivedSize}

\* Mutant of MoveOn: regular packets do not move the reassembly window.
MoveOnNot(w) == UNCHANGED <<reassembly, data, memory>>

\* The reassembly window moves on to a packet that was received.
MoveOn(w) == /\ reassembly' = Advance(reassembly, w)
             /\ data' = CleanedData(Evicted(w))
             /\ memory' = CleanedMemory(Evicted(w))

\* A regular packet: processed, entered, and the reassembly buffer advanced.
Regular(s) ==
  LET w == Wrap(s)
  IN  /\ ~ Fragmented(s)
      /\ IF TestInsert(received, w)
         THEN /\ processed' = {Packet(s, {<<s, 0>>}, Size[s])}
              /\ received' = Insert(received, w)
              /\ MoveOn(w)
              /\ top' = Seen(s) /\ whole' = Known(whole \cup {s})
         ELSE /\ processed' = {}
              /\ UNCHANGED <<received, reassembly, data, memory, top, whole>>

\* Bytes of the packet, known from its last fragment.
BytesWith(s, i, bytes) ==
  IF i = NumFragments(s) - 1 THEN i * FragmentSize + FragmentBytes(s, i) ELSE bytes

\* Mutant of NewEntry: the marks of the packet before are not reset.
NewEntryUnreset(s, i, b) ==
  [block |-> b, total |-> NumFragments(s),
   got |-> data[Wrap(s) % ReassemblySize].got \cup {i}, bytes |-> BytesWith(s, i, 0)]

NewEntry(s, i, b) ==
  [block |-> b, total |-> NumFragments(s), got |-> {i}, bytes |-> BytesWith(s, i, 0)]

\* Mutant of Announce: the packet is entered at its first fragment.
AnnounceEntered(w) == Insert(received, w)

\* The received window moves on to a packet whose first fragment came.
Announce(w) == Advance(received, w)

\* The first fragment of a packet: an entry and a block are taken for it.
FirstFragment(s, i) ==
  LET w    == Wrap(s)
      slot == w % ReassemblySize
  IN  /\ ~ Exists(reassembly, w) /\ ~ Stale(w)
      /\ \E b \in Block :
           /\ CleanedMemory(Displaced(w))[b] = Free
           /\ data' = [CleanedData(Displaced(w)) EXCEPT ![slot] = NewEntry(s, i, b)]
           /\ memory' = [CleanedMemory(Displaced(w)) EXCEPT ![b] = {<<s, i>>}]
      /\ reassembly' = [Advance(reassembly, w) EXCEPT !.entry[slot] = w]
      /\ received' = Announce(w)
      /\ processed' = {}
      /\ top' = Seen(s) /\ whole' = Known(whole)

Fresh(s, i) ==
  LET e == data[Wrap(s) % ReassemblySize]
  IN  e.total = NumFragments(s) /\ i \notin e.got

\* A fragment that does not complete its packet.
LaterFragment(s, i) ==
  LET w    == Wrap(s)
      slot == w % ReassemblySize
      e    == data[slot]
  IN  /\ Exists(reassembly, w) /\ Fresh(s, i)
      /\ Cardinality(e.got) + 1 # e.total
      /\ data' = [data EXCEPT ![slot].got = @ \cup {i},
                              ![slot].bytes = BytesWith(s, i, @)]
      /\ memory' = [memory EXCEPT ![e.block] = @ \cup {<<s, i>>}]
      /\ processed' = {}
      /\ UNCHANGED <<received, reassembly, top, whole>>

\* The fragment that completes it: what the block holds is received as a
\* regular packet, unless it is stale by now, and the entry is given back.
LastFragment(s, i) ==
  LET w    == Wrap(s)
      slot == w % ReassemblySize
      e    == data[slot]
      gone == Evicted(w) \cup {slot}
      packet == Packet(s, memory[e.block] \cup {<<s, i>>}, BytesWith(s, i, e.bytes))
  IN  /\ Exists(reassembly, w) /\ Fresh(s, i)
      /\ Cardinality(e.got) + 1 = e.total
      /\ UNCHANGED top
      /\ IF TestInsert(received, w)
         THEN /\ processed' = {packet}
              /\ received' = Insert(received, w)
              /\ whole' = Known(whole \cup {s})
         ELSE /\ processed' = {}
              /\ UNCHANGED <<received, whole>>
      /\ reassembly' = Remove(Advance(reassembly, w), w)
      /\ data' = [CleanedData(gone) EXCEPT ![slot].got = @ \cup {i},
                                           ![slot].bytes = BytesWith(s, i, @)]
      /\ memory' = CleanedMemory(gone)

\* A fragment that came before, or of a packet too old to begin with.
Ignored(s, i) ==
  /\ IF Exists(reassembly, Wrap(s)) THEN ~ Fresh(s, i) ELSE Stale(Wrap(s))
  /\ processed' = {}
  /\ UNCHANGED <<received, reassembly, data, memory, top, whole>>

Fragment(s) ==
  /\ Fragmented(s)
  /\ \E i \in FragmentId(s) : \/ FirstFragment(s, i) \/ LaterFragment(s, i)
                              \/ LastFragment(s, i) \/ Ignored(s, i)

Nearby == {s \in top - Behind .. top + Ahead : s \in Numbers}

Next == \E s \in Nearby : Regular(s) \/ Fragment(s)

Spec == Init /\ [][Next]_vars

-----------------------------------------------------------------------------
(* Properties.                                                             *)

Parts(s) == IF Fragmented(s) THEN {<<s, i>> : i \in FragmentId(s)} ELSE {<<s, 0>>}

AnyFragment == UNION {Parts(s) : s \in Numbers}

TypeOK ==
  /\ received \in Buffer(ReceivedSize)
  /\ reassembly \in Buffer(ReassemblySize)
  /\ data \in [Slot -> [block: Block \cup {NoBlock}, total: Nat,
                        got: SUBSET Nat, bytes: Nat]]
  /\ \A b \in Block : memory[b] = Free \/ memory[b] \subseteq AnyFragment
  /\ top \in 0 .. MaxNumber + 1
  /\ whole \subseteq Numbers

InUse == {i \in Slot : reassembly.entry[i] # Vacant}

\* Every block that is allocated is owned by exactly one entry in use, so
\* evicting, completing and destroying free it once and nothing leaks
\* (reliable_fragment_reassembly_data_cleanup and its four callers).
BlocksOwned ==
  /\ \A i \in Slot : i \in InUse <=> data[i].block # NoBlock
  /\ \A i, j \in InUse : data[i].block = data[j].block => i = j
  /\ {b \in Block : memory[b] # Free} = {data[i].block : i \in InUse}

\* What is given to the callback is the packet that was sent: all of its
\* fragments, none of another packet's, and its length.
WholePackets ==
  \A p \in processed : p.parts = Parts(p.number) /\ p.bytes = Size[p.number]

\* A packet in reassembly is not too old to be received: once complete it is
\* processed, not dropped as stale with all of its fragments.  It relates
\* the two buffers, which advance in different places of the code.
NeverCompletedInVain ==
  \A i \in InUse : TestInsert(received, reassembly.entry[i])

\* A packet is acknowledged when it is whole, and not when some fragments of
\* it have come, and no processed packet is forgotten while acks reach it.
AckedOnlyIfWhole ==
  \A s \in Numbers :
    s >= top - ReceivedSize => (Exists(received, Wrap(s)) /\ s < top <=> s \in whole)

\* A packet's fragments are kept until it is complete or ReassemblySize
\* newer packets have come.
KeptWhileYoung ==
  [][ \A s \in Numbers :
        /\ s \in top - ReassemblySize .. top - 1
        /\ Exists(reassembly, Wrap(s)) /\ ~ Exists(reassembly, Wrap(s))'
        => s < top' - ReassemblySize \/ \E p \in processed' : p.number = s ]_vars
=============================================================================
