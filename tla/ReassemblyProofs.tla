-------------------------- MODULE ReassemblyProofs --------------------------
(***************************************************************************)
(* What the receiving half of reliable.c puts together is what was sent,   *)
(* for every size of packets, fragments and buffers and any order of what  *)
(* arrives: the properties of Reassembly, for every value of its constants.*)
(*                                                                         *)
(* The two rings stand for two sets of unbounded packet numbers in windows *)
(* with the same end, top: the packets received (whole) and those of which *)
(* some fragments came (Partial).  ReassemblyInv says so (Represents of    *)
(* SequenceBufferProofs) and, of each partial packet, that its slot has a  *)
(* block of its own that holds exactly the fragments that are marked.      *)
(***************************************************************************)
EXTENDS Reassembly, SequenceBufferProofs, FiniteSetTheorems, TLAPS

\* The packets being put together.
Partial ==
  {s \in Numbers : s \in top - ReassemblySize .. top - 1 /\ Exists(reassembly, Wrap(s))}

\* The entry and the block of packet s hold the same fragments of it, not all
\* of them, and its length is known once the last one came.
EntryHolds(D, M, s) ==
  LET e == D[s % ReassemblySize]
  IN  /\ Fragmented(s) /\ e.block \in Block /\ e.total = NumFragments(s)
      /\ e.got \subseteq FragmentId(s) /\ e.got # FragmentId(s)
      /\ M[e.block] = {<<s, i>> : i \in e.got}
      /\ e.bytes = IF NumFragments(s) - 1 \in e.got THEN Size[s] ELSE 0

\* The packets of P have entries and blocks of their own, and all of them.
Owned(D, M, P) ==
  /\ \A s \in P : EntryHolds(D, M, s)
  /\ \A r, s \in P : D[r % ReassemblySize].block = D[s % ReassemblySize].block => r = s
  /\ \A i \in Slot : D[i].block # NoBlock => \E s \in P : s % ReassemblySize = i
  /\ \A b \in Block : M[b] # Free => \E s \in P : D[s % ReassemblySize].block = b

DataType == [Slot -> [block: Block \cup {NoBlock}, total: Nat, got: SUBSET Nat, bytes: Nat]]

MemoryType == [Block -> SUBSET (Int \X Int)]

StateType ==
  /\ received \in Buffer(ReceivedSize) /\ reassembly \in Buffer(ReassemblySize)
  /\ data \in DataType /\ memory \in MemoryType
  /\ top \in 0 .. MaxNumber + 1 /\ whole \subseteq Numbers

ReassemblyInv ==
  /\ StateType
  /\ Represents(received, ReceivedSize, top, whole)
  /\ Represents(reassembly, ReassemblySize, top, Partial)
  /\ Owned(data, memory, Partial)

-----------------------------------------------------------------------------
(* The constants, and what the sender makes of a packet.                   *)

\* What the assumptions say of the sizes.
LEMMA SizeFacts ==
  /\ ReceivedSize \in RingSizes /\ ReassemblySize \in RingSizes
  /\ ReceivedSize \in Nat /\ ReassemblySize \in Nat /\ ReassemblySize > 0
  /\ ReassemblySize <= ReceivedSize /\ ReceivedSize < Half /\ Half \in Nat
  /\ Ahead \in Nat /\ Behind \in Nat /\ MaxNumber \in Nat
  /\ Ahead <= Half - ReceivedSize - 1 /\ Behind <= Half
<1>1. Half \in Nat
  BY SeqModAssumption DEF Half
<1> QED BY <1>1, ReassemblyAssumption DEF RingSizes

\* A slot has one place in each window.
LEMMA PlaceFacts ==
  /\ \A x \in Int : x % ReassemblySize \in Slot /\ Wrap(x) % ReassemblySize = x % ReassemblySize
  /\ \A x, y \in Int : /\ x % ReassemblySize = y % ReassemblySize
                       /\ x - y < ReassemblySize /\ y - x < ReassemblySize
                       => x = y
<1>1. \A x \in Int : x % ReassemblySize \in Slot /\ Wrap(x) % ReassemblySize = x % ReassemblySize
  BY SizeFacts, RingSizeFacts DEF Slot
<1>2. ASSUME NEW x \in Int, NEW y \in Int, x % ReassemblySize = y % ReassemblySize,
             x - y < ReassemblySize, y - x < ReassemblySize
      PROVE  x = y
  BY <1>2, SizeFacts, ModApart
<1> QED BY <1>1, <1>2

\* A packet that is fragmented has two fragments at least, and the last one
\* tells its length.
LEMMA FragmentFacts ==
  ASSUME NEW s \in Numbers, Fragmented(s)
  PROVE  /\ Size[s] \in Nat /\ NumFragments(s) \in Nat /\ NumFragments(s) >= 2
         /\ IsFiniteSet(FragmentId(s)) /\ Cardinality(FragmentId(s)) = NumFragments(s)
         /\ NumFragments(s) - 1 \in FragmentId(s) /\ FragmentId(s) \subseteq Nat
         /\ \A i \in Nat, n \in Nat :
              BytesWith(s, i, n) = IF i = NumFragments(s) - 1 THEN Size[s] ELSE n
<1> DEFINE F == FragmentSize
           Z == Size[s]
           N == NumFragments(s)
           r == (Z + F - 1) % F
<1>1. /\ F \in Nat /\ F > 0 /\ Z \in Nat /\ Z > F
  BY ReassemblyAssumption DEF Fragmented
<1>2. /\ r \in 0 .. F - 1 /\ N \in Int /\ Z + F - 1 = (F * N) + r
  <2>1. Z + F - 1 \in Int /\ N = (Z + F - 1) \div F
    BY <1>1 DEF NumFragments
  <2> HIDE DEF N
  <2> QED BY <1>1, <2>1, Division
<1> HIDE DEF F, Z, N, r
<1>3. F * N >= Z /\ F * N < Z + F
  <2>1. F * N \in Int
    BY <1>1, <1>2
  <2> QED BY <1>1, <1>2, <2>1
<1>4. N >= 2
  <2>1. CASE N <= 1
    <3>1. F * (1 - N) >= 0 /\ F * (1 - N) = F - (F * N)
      BY <1>1, <1>2, <2>1
    <3> QED BY <1>1, <1>2, <1>3, <3>1
  <2> QED BY <1>2, <2>1
<1>5. /\ FragmentId(s) = 0 .. N - 1 /\ N \in Nat
      /\ IsFiniteSet(FragmentId(s)) /\ Cardinality(FragmentId(s)) = N
  <2>1. FragmentId(s) = 0 .. N - 1 /\ N \in Nat /\ 0 \in Int /\ N - 1 \in Int
    BY <1>2, <1>4 DEF FragmentId, N
  <2> QED BY <1>2, <1>4, <2>1, FS_Interval
<1>6. ((N - 1) * F) + FragmentBytes(s, N - 1) = Z
  <2>1. (N - 1) + 1 = N /\ N * F = F * N /\ (N - 1) * F = (F * N) - F
    BY <1>1, <1>2
  <2>2. FragmentBytes(s, N - 1) = IF N * F > Z THEN Z - ((N - 1) * F) ELSE F
    BY <2>1 DEF FragmentBytes, F, Z
  <2>3. F * N \in Int
    BY <1>1, <1>2
  <2> QED BY <1>1, <1>3, <2>1, <2>2, <2>3
<1>7. ASSUME NEW i \in Nat, NEW n \in Nat
      PROVE  BytesWith(s, i, n) = IF i = N - 1 THEN Z ELSE n
  <2>1. CASE i = N - 1
    BY <2>1, <1>6 DEF BytesWith, N, F, Z
  <2>2. CASE i # N - 1
    BY <2>2 DEF BytesWith, N
  <2> QED BY <2>1, <2>2
<1>8. N - 1 \in FragmentId(s) /\ FragmentId(s) \subseteq Nat
  BY <1>4, <1>5
<1> QED BY <1>1, <1>4, <1>5, <1>7, <1>8 DEF N, Z

-----------------------------------------------------------------------------
(* The two windows.                                                        *)

\* The partial packets are those the ring stands for: no other set will do.
LEMMA PartialIsUnique ==
  ASSUME NEW b \in Buffer(ReassemblySize), NEW t \in 0 .. MaxNumber + 1,
         NEW H \in SUBSET Numbers, Represents(b, ReassemblySize, t, H)
  PROVE  {s \in Numbers : s \in t - ReassemblySize .. t - 1 /\ Exists(b, Wrap(s))} = H
<1>1. t \in Int
  BY SizeFacts
<1>2. ASSUME NEW s \in t - ReassemblySize .. t - 1 PROVE Exists(b, Wrap(s)) <=> s \in H
  <2>1. s \in t - Half .. t + Half
    BY <1>1, SizeFacts
  <2> QED BY <1>1, <2>1, SizeFacts, ExistsInWindow
<1>3. H \subseteq t - ReassemblySize .. t - 1
  BY DEF Represents
<1> QED BY <1>2, <1>3

\* So Partial is that set after a step.
LEMMA PartialIs ==
  ASSUME reassembly' \in Buffer(ReassemblySize), top' \in 0 .. MaxNumber + 1,
         NEW H \in SUBSET Numbers, Represents(reassembly', ReassemblySize, top', H)
  PROVE  Partial' = H
  BY PartialIsUnique DEF Partial

\* A packet near the newest one: what the guards ask of the rings.
LEMMA NumberFacts ==
  ASSUME ReassemblyInv, NEW s \in Nearby
  PROVE  /\ s \in Numbers /\ s \in Int /\ top \in Nat /\ Wrap(s) \in SeqNum
         /\ s \in top - Half .. top + Half - ReceivedSize - 1
         /\ s \in top - Half .. top + Half - ReassemblySize - 1
         /\ Seen(s) \in 0 .. MaxNumber + 1 /\ Seen(s) >= top
         /\ Seen(s) = IF s >= top THEN s + 1 ELSE top
         /\ TestInsert(received, Wrap(s)) <=> s >= top - ReceivedSize
         /\ TestInsert(reassembly, Wrap(s)) <=> s >= top - ReassemblySize
         /\ Exists(reassembly, Wrap(s)) <=> s \in Partial
         /\ Newer(Wrap(s)) <=> s >= top
         /\ Stale(Wrap(s)) <=> s < top - ReassemblySize
<1>1. /\ s \in Numbers /\ s \in Int /\ top \in Nat /\ top \in 0 .. MaxNumber + 1
      /\ s \in top - Behind .. top + Ahead
  BY SizeFacts DEF ReassemblyInv, StateType, Nearby, Numbers
<1>2. /\ s \in top - Half .. top + Half - ReceivedSize - 1
      /\ s \in top - Half .. top + Half - ReassemblySize - 1
      /\ s \in top - Half .. top + Half
  BY <1>1, SizeFacts
<1>3. Seen(s) \in 0 .. MaxNumber + 1 /\ Seen(s) >= top /\ Seen(s) = IF s >= top THEN s + 1 ELSE top
  BY <1>1, SizeFacts DEF Seen, Numbers
<1>4. /\ received \in Buffer(ReceivedSize) /\ Represents(received, ReceivedSize, top, whole)
      /\ reassembly \in Buffer(ReassemblySize) /\ Represents(reassembly, ReassemblySize, top, Partial)
  BY DEF ReassemblyInv, StateType
<1>5. TestInsert(received, Wrap(s)) <=> s >= top - ReceivedSize
  BY <1>1, <1>2, <1>4, SizeFacts, TestInsertInWindow
<1>6. TestInsert(reassembly, Wrap(s)) <=> s >= top - ReassemblySize
  BY <1>1, <1>2, <1>4, SizeFacts, TestInsertInWindow
<1>7. Exists(reassembly, Wrap(s)) <=> s \in Partial
  BY <1>1, <1>2, <1>4, SizeFacts, ExistsInWindow
<1>8. Newer(Wrap(s)) <=> s >= top
  <2>1. Wrap(Wrap(s) + 1) = Wrap(s + 1) /\ reassembly.sequence = Wrap(top)
    BY <1>1, <1>4, WrapAdd DEF Represents
  <2>2. CASE s + 1 - top < Half /\ top - (s + 1) < Half
    <3>1. GreaterThan(Wrap(s + 1), Wrap(top)) <=> s + 1 > top
      BY <1>1, <2>2, SerialOrder
    <3> QED BY <1>1, <2>1, <3>1 DEF Newer
  <2> QED BY <1>1, <1>2, <2>2, SizeFacts
<1>9. Stale(Wrap(s)) <=> s < top - ReassemblySize
  BY <1>1, <1>6, <1>8, SizeFacts DEF Stale
<1> QED BY <1>1, <1>2, <1>3, <1>5, <1>6, <1>7, <1>8, <1>9, WrapType

\* The partial packets are in the window, and in those of the received ones.
LEMMA PartialFacts ==
  ASSUME ReassemblyInv, NEW h \in Partial
  PROVE  /\ h \in Numbers /\ h \in Int /\ h \in Nat
         /\ h >= top - ReassemblySize /\ h < top
         /\ h % ReassemblySize \in Slot
         /\ reassembly.entry[h % ReassemblySize] = Wrap(h)
         /\ EntryHolds(data, memory, h)
<1>1. h \in Numbers /\ h \in Int /\ h \in Nat /\ top \in Nat
  BY SizeFacts DEF Partial, Numbers, ReassemblyInv, StateType
<1>2. h >= top - ReassemblySize /\ h < top
  BY <1>1, SizeFacts DEF Partial
<1>3. h % ReassemblySize \in Slot
  BY <1>1, PlaceFacts
<1>4. reassembly.entry[h % ReassemblySize] = Wrap(h) /\ EntryHolds(data, memory, h)
  BY DEF ReassemblyInv, Represents, Owned
<1> QED BY <1>1, <1>2, <1>3, <1>4

\* The slots that advancing to s cleans up are those of the partial packets that
\* leave the window.
LEMMA EvictedFacts ==
  ASSUME ReassemblyInv, NEW s \in Nearby
  PROVE  /\ Evicted(Wrap(s)) \subseteq Slot
         /\ s < top => Evicted(Wrap(s)) = {}
         /\ \A h \in Partial :
              h % ReassemblySize \in Evicted(Wrap(s)) <=> h < Seen(s) - ReassemblySize
<1> DEFINE n == ReassemblySize
<1>1. /\ s \in Int /\ top \in Nat /\ Wrap(s) \in SeqNum
      /\ s \in top - Half .. top + Half - n - 1
      /\ Newer(Wrap(s)) <=> s >= top
      /\ Seen(s) = IF s >= top THEN s + 1 ELSE top
      /\ reassembly.sequence = Wrap(top)
  BY NumberFacts DEF ReassemblyInv, Represents
<1>2. CASE s < top
  <2>1. Evicted(Wrap(s)) = {}
    BY <1>1, <1>2 DEF Evicted
  <2>2. ASSUME NEW h \in Partial PROVE ~ (h < Seen(s) - n)
    <3>1. h \in Int /\ h >= top - n /\ n \in Nat /\ Seen(s) = top
      BY <1>1, <1>2, PartialFacts, SizeFacts
    <3> QED BY <1>1, <3>1
  <2> QED BY <2>1, <2>2
<1>3. CASE s >= top
  <2>1. Evicted(Wrap(s)) = ClearedSlots(n, Wrap(top), Wrap(s))
    BY <1>1, <1>3 DEF Evicted
  <2>2. n \in Nat /\ n > 0 /\ n \in RingSizes /\ s - top < Half /\ Wrap(top) \in Int
    BY <1>1, SizeFacts, WrapType DEF SeqNum
  <2>3. Evicted(Wrap(s)) \subseteq Slot
    <3>1. \A x \in Int : x % n \in 0 .. n - 1
      BY <2>2, Division
    <3> HIDE DEF n
    <3>2. ASSUME NEW start \in Int, NEW last \in Int
          PROVE  {x % n : x \in start .. last} \subseteq 0 .. n - 1
      BY <3>1
    <3>3. Wrap(s) \in Int /\ SeqMod \in Int
      BY <1>1, SeqModAssumption DEF SeqNum
    <3>4. ClearedSlots(n, Wrap(top), Wrap(s)) \subseteq 0 .. n - 1
      <4> DEFINE last == IF Wrap(s) < Wrap(top) THEN Wrap(s) + SeqMod ELSE Wrap(s)
      <4>1. last \in Int
        BY <2>2, <3>3
      <4>2. ClearedSlots(n, Wrap(top), Wrap(s))
              = IF last - Wrap(top) < n THEN {x % n : x \in Wrap(top) .. last} ELSE 0 .. n - 1
        BY DEF ClearedSlots
      <4> HIDE DEF last
      <4> QED BY <2>2, <3>2, <4>1, <4>2
    <3> QED BY <2>1, <3>4 DEF Slot, n
  <2>4. ASSUME NEW h \in Partial
        PROVE  h % n \in Evicted(Wrap(s)) <=> h < Seen(s) - n
    <3>1. /\ h \in Int /\ h >= top - n /\ h < top /\ h % n \in 0 .. n - 1
      BY PartialFacts DEF Slot
    <3>2. h % n \in Evicted(Wrap(s)) <=> \E x \in top .. s : x % n = h % n
      <4> DEFINE i == h % n
      <4>1. i \in 0 .. n - 1 /\ top \in Int /\ s \in Int /\ s >= top /\ s - top < Half
        BY <1>1, <1>3, <2>2, <3>1
      <4> HIDE DEF i, n
      <4>2. \A m \in RingSizes, j \in Int : j \in 0 .. m - 1 =>
              (j \in ClearedSlots(m, Wrap(top), Wrap(s)) <=> \E x \in top .. s : x % m = j)
        BY <4>1, ClearedExactly
      <4>3. i \in Int /\ n \in RingSizes
        BY <2>2, <4>1
      <4>4. i \in ClearedSlots(n, Wrap(top), Wrap(s)) <=> \E x \in top .. s : x % n = i
        BY <4>1, <4>2, <4>3
      <4> QED BY <2>1, <4>4 DEF i
    <3>3. ASSUME NEW x \in top .. s, x % n = h % n PROVE h < Seen(s) - n
      <4>1. x \in Int /\ x > h /\ h - x < n
        BY <1>1, <2>2, <3>1
      <4>2. CASE x - h < n
        BY <3>1, <3>3, <4>1, <4>2, PlaceFacts
      <4>3. CASE x - h >= n
        BY <1>1, <1>3, <2>2, <3>1, <4>1, <4>3
      <4> QED BY <2>2, <3>1, <4>1, <4>2, <4>3
    <3>4. ASSUME h < Seen(s) - n PROVE \E x \in top .. s : x % n = h % n
      <4>1. h + n \in top .. s
        BY <1>1, <1>3, <2>2, <3>1, <3>4
      <4>2. (h + n) % n = h % n
        BY <2>2, <3>1, ModNext
      <4> QED BY <4>1, <4>2
    <3> QED BY <3>2, <3>3, <3>4
  <2> QED BY <1>1, <1>3, <2>3, <2>4
<1> QED BY <1>1, <1>2, <1>3

-----------------------------------------------------------------------------
(* Cleaning up.                                                            *)

\* Cleaning up the slots of all partial packets but those of P leaves these as
\* they were and everything else free.
LEMMA CleanedFacts ==
  ASSUME ReassemblyInv, NEW E \in SUBSET Slot, NEW P \in SUBSET Partial,
         \A h \in Partial : h % ReassemblySize \in E <=> h \notin P
  PROVE  /\ CleanedData(E) \in DataType /\ CleanedMemory(E) \in MemoryType
         /\ Owned(CleanedData(E), CleanedMemory(E), P)
         /\ \A h \in P : CleanedData(E)[h % ReassemblySize] = data[h % ReassemblySize]
<1> DEFINE n == ReassemblySize
           D == CleanedData(E)
           M == CleanedMemory(E)
<1>1. /\ data \in DataType /\ memory \in MemoryType /\ Owned(data, memory, Partial)
      /\ \A h \in Partial : h % n \in Slot
  BY PartialFacts DEF ReassemblyInv, StateType
<1>2. /\ D \in DataType
      /\ \A i \in Slot : i \in E => D[i].block = NoBlock
      /\ \A i \in Slot : i \notin E => D[i] = data[i]
  <2>1. \A i \in Slot : [data[i] EXCEPT !.block = NoBlock].block = NoBlock
    BY <1>1 DEF DataType
  <2>2. \A i \in Slot : D[i] = IF i \in E THEN [data[i] EXCEPT !.block = NoBlock] ELSE data[i]
    BY DEF CleanedData
  <2>3. D \in DataType
    BY <1>1 DEF CleanedData, DataType
  <2> QED BY <2>1, <2>2, <2>3
<1>3. /\ M \in MemoryType
      /\ \A b \in Block : M[b] = IF b \in Blocks(E) THEN Free ELSE memory[b]
  <2>1. Free \in SUBSET (Int \X Int)
    BY DEF Free
  <2> QED BY <1>1, <2>1 DEF CleanedMemory, MemoryType
<1> HIDE DEF D, M
<1>4. ASSUME NEW h \in P
      PROVE  /\ h \in Partial /\ D[h % n] = data[h % n] /\ data[h % n].block \in Block
             /\ M[data[h % n].block] = memory[data[h % n].block]
  <2>1. h \in Partial /\ h % n \in Slot /\ h % n \notin E
    BY <1>1
  <2>2. data[h % n].block \in Block
    BY <1>1, <2>1 DEF Owned, EntryHolds
  <2>3. data[h % n].block \notin Blocks(E)
    <3>1. ASSUME NEW i \in E, data[i].block = data[h % n].block PROVE FALSE
      <4>1. data[i].block # NoBlock
        BY <2>2, <3>1, ReassemblyAssumption
      <4>2. PICK g \in Partial : g % n = i
        BY <1>1, <4>1 DEF Owned
      <4>3. g = h
        BY <1>1, <2>1, <3>1, <4>2 DEF Owned
      <4> QED BY <2>1, <4>2, <4>3
    <3> QED BY <3>1 DEF Blocks
  <2> QED BY <1>2, <1>3, <2>1, <2>2, <2>3
<1>5. \A h \in P : EntryHolds(D, M, h)
  <2>1. \A h \in P : EntryHolds(data, memory, h)
    BY <1>1 DEF Owned
  <2> QED BY <1>4, <2>1 DEF EntryHolds
<1>6. \A r, s \in P : D[r % n].block = D[s % n].block => r = s
  BY <1>1, <1>4 DEF Owned
<1>7. ASSUME NEW i \in Slot, D[i].block # NoBlock PROVE \E s \in P : s % n = i
  <2>1. i \notin E /\ data[i].block # NoBlock
    BY <1>2, <1>7
  <2>2. PICK g \in Partial : g % n = i
    BY <1>1, <2>1 DEF Owned
  <2> QED BY <2>1, <2>2
<1>8. ASSUME NEW b \in Block, M[b] # Free PROVE \E s \in P : D[s % n].block = b
  <2>1. b \notin Blocks(E) /\ memory[b] # Free
    BY <1>3, <1>8
  <2>2. PICK g \in Partial : data[g % n].block = b
    BY <1>1, <2>1 DEF Owned
  <2>3. g % n \notin E
    BY <2>1, <2>2, ReassemblyAssumption DEF Blocks
  <2> QED BY <1>4, <2>2, <2>3
<1> QED BY <1>2, <1>3, <1>4, <1>5, <1>6, <1>7, <1>8 DEF Owned, D, M
-----------------------------------------------------------------------------
(* The windows moved on.                                                   *)

\* The partial packets that are still in the window after s came.
Staying(s) == {h \in Partial : h >= Seen(s) - ReassemblySize}

\* Moving the reassembly window on to s keeps those packets as they are, and
\* gives the blocks of the others back.
LEMMA MovedOn ==
  ASSUME ReassemblyInv, NEW s \in Nearby
  PROVE  LET E == Evicted(Wrap(s))
         IN  /\ Advance(reassembly, Wrap(s)) \in Buffer(ReassemblySize)
             /\ Represents(Advance(reassembly, Wrap(s)), ReassemblySize, Seen(s), Staying(s))
             /\ CleanedData(E) \in DataType /\ CleanedMemory(E) \in MemoryType
             /\ Owned(CleanedData(E), CleanedMemory(E), Staying(s))
<1> DEFINE E == Evicted(Wrap(s))
<1>1. /\ reassembly \in Buffer(ReassemblySize)
      /\ Represents(reassembly, ReassemblySize, top, Partial)
      /\ ReassemblySize \in Nat /\ ReassemblySize > 0 /\ ReassemblySize \in RingSizes
      /\ Wrap(s) \in SeqNum /\ top \in Int /\ s \in top - Half .. top + Half - ReassemblySize - 1
      /\ Seen(s) = IF s >= top THEN s + 1 ELSE top
  BY NumberFacts, SizeFacts DEF ReassemblyInv, StateType
<1>2. Advance(reassembly, Wrap(s)) \in Buffer(ReassemblySize)
  BY <1>1, AdvanceRing
<1>3. Represents(Advance(reassembly, Wrap(s)), ReassemblySize, Seen(s), Staying(s))
  <2>1. Represents(Advance(reassembly, Wrap(s)), ReassemblySize, Seen(s),
                   {h \in Partial : h >= Seen(s) - ReassemblySize})
    BY <1>1, AdvanceWindow
  <2> QED BY <2>1 DEF Staying
<1>4. E \in SUBSET Slot /\ Staying(s) \in SUBSET Partial
  BY EvictedFacts DEF Staying
<1>5. ASSUME NEW h \in Partial PROVE h % ReassemblySize \in E <=> h \notin Staying(s)
  <2>1. h % ReassemblySize \in E <=> h < Seen(s) - ReassemblySize
    BY EvictedFacts
  <2>2. h \in Int /\ Seen(s) \in Int /\ ReassemblySize \in Int
    BY <1>1, PartialFacts, NumberFacts, SizeFacts
  <2>3. h < Seen(s) - ReassemblySize <=> ~ (h >= Seen(s) - ReassemblySize)
    BY <2>2
  <2> QED BY <2>1, <2>3 DEF Staying
<1> HIDE DEF E
<1>6. /\ CleanedData(E) \in DataType /\ CleanedMemory(E) \in MemoryType
      /\ Owned(CleanedData(E), CleanedMemory(E), Staying(s))
  BY <1>4, <1>5, CleanedFacts
<1> QED BY <1>2, <1>3, <1>6 DEF E

\* The window of the packets received moves on alike, and takes a packet in.
LEMMA ReceivedOn ==
  ASSUME ReassemblyInv, NEW s \in Nearby
  PROVE  /\ Advance(received, Wrap(s)) \in Buffer(ReceivedSize)
         /\ Represents(Advance(received, Wrap(s)), ReceivedSize, Seen(s),
                       {h \in whole : h >= Seen(s) - ReceivedSize})
         /\ Insert(received, Wrap(s)) \in Buffer(ReceivedSize)
         /\ TestInsert(received, Wrap(s)) =>
              Represents(Insert(received, Wrap(s)), ReceivedSize, Seen(s),
                         {h \in whole \cup {s} : h >= Seen(s) - ReceivedSize})
<1>1. /\ received \in Buffer(ReceivedSize) /\ Represents(received, ReceivedSize, top, whole)
      /\ ReceivedSize \in Nat /\ ReceivedSize > 0 /\ ReceivedSize \in RingSizes
      /\ Wrap(s) \in SeqNum /\ top \in Int /\ s \in top - Half .. top + Half - ReceivedSize - 1
      /\ Seen(s) = IF s >= top THEN s + 1 ELSE top
      /\ TestInsert(received, Wrap(s)) <=> s >= top - ReceivedSize
  BY NumberFacts, SizeFacts DEF ReassemblyInv, StateType
<1>2. /\ Advance(received, Wrap(s)) \in Buffer(ReceivedSize)
      /\ Insert(received, Wrap(s)) \in Buffer(ReceivedSize)
  BY <1>1, AdvanceRing, InsertRing
<1>3. Represents(Advance(received, Wrap(s)), ReceivedSize, Seen(s),
                 {h \in whole : h >= Seen(s) - ReceivedSize})
  BY <1>1, AdvanceWindow
<1>4. ASSUME s >= top - ReceivedSize
      PROVE  Represents(Insert(received, Wrap(s)), ReceivedSize, Seen(s),
                        {h \in whole \cup {s} : h >= Seen(s) - ReceivedSize})
  <2>1. s \in top - ReceivedSize .. top + Half - ReceivedSize - 1
    BY <1>1, <1>4, SizeFacts
  <2> QED BY <1>1, <2>1, InsertWindow
<1> QED BY <1>1, <1>2, <1>3, <1>4

\* What every step does: it keeps the invariant, gives whole packets to the
\* callback, and loses no partial packet but for its age or to the callback.
StepHolds ==
  /\ ReassemblyInv' /\ WholePackets'
  /\ \A h \in Partial : \/ h \in Partial' \/ h < top' - ReassemblySize
                        \/ \E p \in processed' : p.number = h

\* To show that of a step, name the packets H that are partial after it.
LEMMA StepIs ==
  ASSUME received' \in Buffer(ReceivedSize), reassembly' \in Buffer(ReassemblySize),
         data' \in DataType, memory' \in MemoryType,
         top' \in 0 .. MaxNumber + 1, whole' \subseteq Numbers,
         Represents(received', ReceivedSize, top', whole'),
         NEW H \in SUBSET Numbers, Represents(reassembly', ReassemblySize, top', H),
         Owned(data', memory', H), WholePackets',
         \A h \in Partial : \/ h \in H \/ h < top' - ReassemblySize
                            \/ \E p \in processed' : p.number = h
  PROVE  StepHolds
<1>1. Partial' = H
  BY PartialIs
<1> QED BY <1>1 DEF StepHolds, ReassemblyInv, StateType

\* A packet that stays is a packet, and one that does not is too old.
LEMMA StayingFacts ==
  ASSUME ReassemblyInv, NEW s \in Nearby
  PROVE  /\ Staying(s) \in SUBSET Numbers /\ Staying(s) \subseteq Partial
         /\ \A h \in Partial : h \in Staying(s) \/ h < Seen(s) - ReassemblySize
         /\ s < top => Staying(s) = Partial
<1>1. \A h \in Partial : h \in Numbers /\ h \in Int /\ h >= top - ReassemblySize
  BY PartialFacts
<1>2. Seen(s) \in Int /\ ReassemblySize \in Int /\ top \in Int /\ (s < top => Seen(s) = top)
  BY NumberFacts, SizeFacts
<1> QED BY <1>1, <1>2 DEF Staying

-----------------------------------------------------------------------------
(* The steps.                                                              *)

\* A step that changes nothing but what was last given to the callback.
LEMMA QuietStep ==
  ASSUME ReassemblyInv, processed' = {},
         UNCHANGED <<received, reassembly, data, memory, top, whole>>
  PROVE  StepHolds
<1>1. Partial' = Partial
  BY DEF Partial
<1>2. ReassemblyInv'
  BY <1>1 DEF ReassemblyInv, StateType, Represents, Owned, EntryHolds
<1>3. WholePackets'
  BY DEF WholePackets
<1> QED BY <1>1, <1>2, <1>3 DEF StepHolds

\* A regular packet is given to the callback as it came.
LEMMA RegularStep ==
  ASSUME ReassemblyInv, NEW s \in Nearby, Regular(s)
  PROVE  StepHolds
<1>1. CASE ~ TestInsert(received, Wrap(s))
  BY <1>1, QuietStep DEF Regular
<1>2. CASE TestInsert(received, Wrap(s))
  <2>1. /\ ~ Fragmented(s) /\ processed' = {Packet(s, {<<s, 0>>}, Size[s])}
        /\ received' = Insert(received, Wrap(s)) /\ MoveOn(Wrap(s))
        /\ top' = Seen(s) /\ whole' = Known(whole \cup {s})
    BY <1>2 DEF Regular
  <2>2. whole' = {h \in whole \cup {s} : h >= Seen(s) - ReceivedSize}
    BY <2>1 DEF Known
  <2>3. received' \in Buffer(ReceivedSize) /\ Represents(received', ReceivedSize, top', whole')
    BY <1>2, <2>1, <2>2, ReceivedOn
  <2>4. /\ reassembly' \in Buffer(ReassemblySize)
        /\ Represents(reassembly', ReassemblySize, top', Staying(s))
        /\ data' \in DataType /\ memory' \in MemoryType
        /\ Owned(data', memory', Staying(s))
    BY <2>1, MovedOn DEF MoveOn
  <2>5. WholePackets'
    BY <2>1 DEF WholePackets, Packet, Parts
  <2>6. top' \in 0 .. MaxNumber + 1 /\ whole' \subseteq Numbers
    BY <2>1, <2>2, NumberFacts DEF ReassemblyInv, StateType
  <2>7. /\ Staying(s) \in SUBSET Numbers
        /\ \A h \in Partial : h \in Staying(s) \/ h < top' - ReassemblySize
    BY <2>1, StayingFacts
  <2> HIDE DEF Staying, WholePackets, Owned, Represents
  <2> QED BY <2>3, <2>4, <2>5, <2>6, <2>7, StepIs
<1> QED BY <1>1, <1>2

\* The packet that an entry is taken for is not one being put together, and
\* the entry that it takes the slot of has left the window.
LEMMA DisplacedIs ==
  ASSUME ReassemblyInv, NEW s \in Nearby, ~ Exists(reassembly, Wrap(s)), ~ Stale(Wrap(s))
  PROVE  /\ s >= top - ReassemblySize /\ s \notin Partial
         /\ Displaced(Wrap(s)) = Evicted(Wrap(s))
         /\ \A h \in Staying(s) : h % ReassemblySize # s % ReassemblySize
<1> DEFINE n == ReassemblySize
<1>1. /\ s \in Int /\ top \in Int /\ n \in Int /\ s >= top - n /\ s \notin Partial
      /\ Newer(Wrap(s)) <=> s >= top
      /\ Seen(s) = IF s >= top THEN s + 1 ELSE top
      /\ s % n \in Slot /\ Wrap(s) % n = s % n
  BY NumberFacts, SizeFacts, PlaceFacts
<1>2. ASSUME NEW h \in Staying(s), h % n = s % n PROVE FALSE
  <2>1. h \in Partial /\ h \in Int /\ h >= Seen(s) - n /\ h < top
    BY PartialFacts DEF Staying
  <2>2. s - h < n /\ h - s < n
    BY <1>1, <2>1
  <2>3. s = h
    BY <1>1, <1>2, <2>1, <2>2, PlaceFacts
  <2> QED BY <1>1, <2>1, <2>3
<1>3. ASSUME ~ Newer(Wrap(s)), reassembly.entry[s % n] # Vacant PROVE FALSE
  <2>1. PICK h \in Partial : h % n = s % n
    BY <1>1, <1>3 DEF ReassemblyInv, Represents, Slot
  <2>2. h \in Staying(s)
    BY <1>1, <1>3, StayingFacts
  <2> QED BY <1>2, <2>1, <2>2
<1>4. Displaced(Wrap(s)) = Evicted(Wrap(s))
  BY <1>1, <1>3 DEF Displaced
<1> QED BY <1>1, <1>2, <1>4

\* The first fragment of a packet takes an entry and a block that nothing uses.
LEMMA FirstFragmentStep ==
  ASSUME ReassemblyInv, NEW s \in Nearby, Fragmented(s),
         NEW i \in FragmentId(s), FirstFragment(s, i)
  PROVE  StepHolds
<1> DEFINE n    == ReassemblySize
           w    == Wrap(s)
           slot == s % n
           D    == CleanedData(Evicted(w))
           M    == CleanedMemory(Evicted(w))
           P    == Staying(s)
           H    == P \cup {s}
<1>1. /\ s \in Numbers /\ s \in Int /\ top \in Int /\ s \notin Partial
      /\ Displaced(w) = Evicted(w) /\ w % n = slot /\ slot \in Slot
      /\ s >= top - n /\ n \in RingSizes /\ n \in Nat /\ n > 0 /\ w \in SeqNum
      /\ Seen(s) = IF s >= top THEN s + 1 ELSE top
      /\ TestInsert(reassembly, w)
      /\ reassembly \in Buffer(n) /\ Represents(reassembly, n, top, Partial)
  BY DisplacedIs, NumberFacts, SizeFacts, PlaceFacts DEF FirstFragment, ReassemblyInv, StateType
<1>2. PICK b \in Block :
        /\ M[b] = Free
        /\ data' = [D EXCEPT ![slot] = NewEntry(s, i, b)]
        /\ memory' = [M EXCEPT ![b] = {<<s, i>>}]
  BY <1>1 DEF FirstFragment
<1>3. /\ P \in SUBSET Numbers /\ P \subseteq Partial
      /\ \A h \in Partial : h \in P \/ h < Seen(s) - n
      /\ D \in DataType /\ M \in MemoryType /\ Owned(D, M, P)
  BY StayingFacts, MovedOn
<1>4. \A h \in P : h % n # slot /\ h % n \in Slot /\ h \in Nat
  <2>1. \A h \in P : h % n # slot
    BY DisplacedIs DEF FirstFragment
  <2>2. \A h \in P : h % n \in Slot /\ h \in Nat
    BY <1>3, PartialFacts
  <2> QED BY <2>1, <2>2
<1>5. /\ received' \in Buffer(ReceivedSize) /\ Represents(received', ReceivedSize, top', whole')
      /\ top' = Seen(s) /\ top' \in 0 .. MaxNumber + 1 /\ whole' \subseteq Numbers
      /\ WholePackets'
  <2>1. /\ received' = Advance(received, w) /\ top' = Seen(s) /\ processed' = {}
        /\ whole' = {h \in whole : h >= Seen(s) - ReceivedSize}
    BY DEF FirstFragment, Announce, Known
  <2>2. received' \in Buffer(ReceivedSize) /\ Represents(received', ReceivedSize, top', whole')
    BY <2>1, ReceivedOn
  <2>3. top' \in 0 .. MaxNumber + 1 /\ whole' \subseteq Numbers
    BY <2>1, NumberFacts DEF ReassemblyInv, StateType
  <2> QED BY <2>1, <2>2, <2>3 DEF WholePackets
<1>6. reassembly' \in Buffer(n) /\ Represents(reassembly', n, top', H)
  <2>1. reassembly' = Insert(reassembly, w)
    <3>1. NumEntries(reassembly) = n
      BY <1>1, RingSize
    <3> QED BY <1>1, <3>1 DEF FirstFragment, Insert
  <2>2. s \in top - n .. top + Half - n - 1
    BY <1>1, NumberFacts, SizeFacts
  <2>3. Represents(Insert(reassembly, w), n, Seen(s), {h \in Partial \cup {s} : h >= Seen(s) - n})
    <3>1. /\ ReassemblySize \in RingSizes /\ reassembly \in Buffer(ReassemblySize) /\ top \in Int
          /\ Represents(reassembly, ReassemblySize, top, Partial)
          /\ s \in top - ReassemblySize .. top + Half - ReassemblySize - 1
          /\ Seen(s) = IF s >= top THEN s + 1 ELSE top
      BY <1>1, <2>2
    <3> QED BY <3>1, InsertWindow
  <2>4. {h \in Partial \cup {s} : h >= Seen(s) - n} = H
    <3>1. s >= Seen(s) - n
      BY <1>1
    <3> QED BY <3>1 DEF Staying
  <2>5. Insert(reassembly, w) \in Buffer(n)
    BY <1>1, InsertRing
  <2> QED BY <1>5, <2>1, <2>3, <2>4, <2>5
<1> DEFINE e == NewEntry(s, i, b)
<1>7. /\ e \in [block: Block \cup {NoBlock}, total: Nat, got: SUBSET Nat, bytes: Nat]
      /\ e.block = b /\ e.total = NumFragments(s) /\ e.got = {i} /\ {i} # FragmentId(s)
      /\ e.bytes = IF NumFragments(s) - 1 \in {i} THEN Size[s] ELSE 0
  <2>1. /\ Size[s] \in Nat /\ NumFragments(s) \in Nat /\ NumFragments(s) >= 2
        /\ i \in Nat /\ NumFragments(s) - 1 \in FragmentId(s)
        /\ BytesWith(s, i, 0) = IF i = NumFragments(s) - 1 THEN Size[s] ELSE 0
    BY <1>1, FragmentFacts
  <2>2. 0 \in FragmentId(s) /\ NumFragments(s) - 1 # 0
    BY <2>1 DEF FragmentId
  <2>3. {i} # FragmentId(s)
    BY <2>1, <2>2
  <2> QED BY <2>1, <2>3 DEF NewEntry
<1>8. data' \in DataType /\ memory' \in MemoryType
  <2> HIDE DEF e, D, M
  <2>1. {<<s, i>>} \in SUBSET (Int \X Int)
    BY <1>1, FragmentFacts
  <2> QED BY <1>1, <1>2, <1>3, <1>7, <2>1 DEF DataType, MemoryType, e
<1>9. /\ data'[slot] = e /\ \A j \in Slot \ {slot} : data'[j] = D[j]
      /\ memory'[b] = {<<s, i>>} /\ \A c \in Block \ {b} : memory'[c] = M[c]
  <2> HIDE DEF e, D, M
  <2> QED BY <1>1, <1>2, <1>3 DEF DataType, MemoryType, e
<1> HIDE DEF e, D, M, P
<1>10. ASSUME NEW h \in P
       PROVE  /\ data'[h % n] = D[h % n] /\ D[h % n].block \in Block
              /\ D[h % n].block # b /\ memory'[D[h % n].block] = M[D[h % n].block]
  <2>1. EntryHolds(D, M, h)
    BY <1>3 DEF Owned
  <2>2. D[h % n].block \in Block /\ M[D[h % n].block] = {<<h, j>> : j \in D[h % n].got}
    BY <2>1 DEF EntryHolds
  <2>3. ASSUME M[D[h % n].block] = Free PROVE FALSE
    <3>1. PICK j \in D[h % n].got : <<-1, -1>> = <<h, j>>
      BY <2>2, <2>3 DEF Free
    <3> QED BY <1>4, <3>1
  <2> QED BY <1>2, <1>4, <1>9, <2>2, <2>3
<1>11. Owned(data', memory', H)
  <2>1. ASSUME NEW h \in P PROVE EntryHolds(data', memory', h)
    <3>1. EntryHolds(D, M, h)
      BY <1>3 DEF Owned
    <3> QED BY <1>10, <3>1 DEF EntryHolds
  <2>2. EntryHolds(data', memory', s)
    <3>1. memory'[e.block] = {<<s, j>> : j \in {i}}
      BY <1>7, <1>9
    <3> QED BY <1>7, <1>9, <3>1 DEF EntryHolds
  <2>3. ASSUME NEW r \in H, NEW q \in H, data'[r % n].block = data'[q % n].block
        PROVE  r = q
    <3>1. CASE r \in P /\ q \in P
      BY <1>3, <1>10, <2>3, <3>1 DEF Owned
    <3>2. \A h \in P : data'[h % n].block # b
      BY <1>10
    <3>3. data'[s % n].block = b
      BY <1>7, <1>9
    <3> QED BY <2>3, <3>1, <3>2, <3>3
  <2>4. ASSUME NEW j \in Slot, data'[j].block # NoBlock PROVE \E h \in H : h % n = j
    <3>1. CASE j = slot
      BY <3>1
    <3>2. CASE j # slot
      BY <1>3, <1>9, <2>4, <3>2 DEF Owned
    <3> QED BY <3>1, <3>2
  <2>5. ASSUME NEW c \in Block, memory'[c] # Free PROVE \E h \in H : data'[h % n].block = c
    <3>1. CASE c = b
      BY <1>7, <1>9, <3>1
    <3>2. CASE c # b
      <4>1. PICK h \in P : D[h % n].block = c
        BY <1>3, <1>9, <2>5, <3>2 DEF Owned
      <4> QED BY <1>10, <4>1
    <3> QED BY <3>1, <3>2
  <2> QED BY <2>1, <2>2, <2>3, <2>4, <2>5 DEF Owned
<1>12. /\ H \in SUBSET Numbers
       /\ \A h \in Partial : h \in H \/ h < top' - n
  BY <1>1, <1>3, <1>5
<1> HIDE DEF H
<1> QED BY <1>5, <1>6, <1>8, <1>11, <1>12, StepIs

\* A fragment that an entry has not: with it there is one more, and no more
\* than the packet has.
LEMMA FreshFacts ==
  ASSUME ReassemblyInv, NEW s \in Nearby, Fragmented(s), NEW i \in FragmentId(s),
         Exists(reassembly, Wrap(s)), Fresh(s, i)
  PROVE  LET e == data[s % ReassemblySize]
         IN  /\ s \in Partial /\ EntryHolds(data, memory, s)
             /\ Wrap(s) % ReassemblySize = s % ReassemblySize /\ s % ReassemblySize \in Slot
             /\ e \in [block: Block \cup {NoBlock}, total: Nat, got: SUBSET Nat, bytes: Nat]
             /\ i \in Nat /\ i \notin e.got /\ e.got \cup {i} \subseteq FragmentId(s)
             /\ e.got \cup {i} = FragmentId(s) <=> Cardinality(e.got) + 1 = e.total
             /\ memory[e.block] \cup {<<s, i>>} = {<<s, j>> : j \in e.got \cup {i}}
             /\ BytesWith(s, i, e.bytes)
                  = IF NumFragments(s) - 1 \in e.got \cup {i} THEN Size[s] ELSE 0
             /\ BytesWith(s, i, e.bytes) \in Nat
<1> DEFINE e == data[s % ReassemblySize]
           g == e.got
<1>1. /\ s \in Partial /\ EntryHolds(data, memory, s)
      /\ Wrap(s) % ReassemblySize = s % ReassemblySize /\ s % ReassemblySize \in Slot
      /\ e \in [block: Block \cup {NoBlock}, total: Nat, got: SUBSET Nat, bytes: Nat]
  <2>1. s \in Partial /\ s \in Int
    BY NumberFacts
  <2> QED BY <2>1, PartialFacts, PlaceFacts DEF ReassemblyInv, StateType, DataType
<1>2. /\ i \notin g /\ g \subseteq FragmentId(s) /\ e.total = NumFragments(s)
      /\ memory[e.block] = {<<s, j>> : j \in g}
      /\ e.bytes = IF NumFragments(s) - 1 \in g THEN Size[s] ELSE 0
  BY <1>1 DEF Fresh, EntryHolds
<1>3. /\ Size[s] \in Nat /\ IsFiniteSet(FragmentId(s)) /\ FragmentId(s) \subseteq Nat
      /\ Cardinality(FragmentId(s)) = NumFragments(s) /\ e.bytes \in Nat /\ i \in Nat
      /\ BytesWith(s, i, e.bytes) = IF i = NumFragments(s) - 1 THEN Size[s] ELSE e.bytes
  BY <1>1, NumberFacts, FragmentFacts
<1> HIDE DEF e, g
<1>4. g \cup {i} = FragmentId(s) <=> Cardinality(g) + 1 = e.total
  <2>1. IsFiniteSet(g) /\ Cardinality(g) \in Nat
    BY <1>2, <1>3, FS_Subset, FS_CardinalityType
  <2>2. IsFiniteSet(g \cup {i}) /\ Cardinality(g \cup {i}) = Cardinality(g) + 1
    BY <1>2, <2>1, FS_AddElement
  <2>3. g \cup {i} \subseteq FragmentId(s)
    BY <1>2
  <2>4. Cardinality(g \cup {i}) = Cardinality(FragmentId(s)) => g \cup {i} = FragmentId(s)
    BY <1>3, <2>3, FS_Subset
  <2> QED BY <1>2, <1>3, <2>2, <2>4
<1>5. memory[e.block] \cup {<<s, i>>} = {<<s, j>> : j \in g \cup {i}}
  BY <1>2
<1>6. BytesWith(s, i, e.bytes) = IF NumFragments(s) - 1 \in g \cup {i} THEN Size[s] ELSE 0
  BY <1>2, <1>3
<1> QED BY <1>1, <1>2, <1>3, <1>4, <1>5, <1>6 DEF e, g

\* A fragment that does not complete its packet is marked and stored.
LEMMA LaterFragmentStep ==
  ASSUME ReassemblyInv, NEW s \in Nearby, Fragmented(s),
         NEW i \in FragmentId(s), LaterFragment(s, i)
  PROVE  StepHolds
<1> DEFINE n    == ReassemblySize
           slot == s % n
           e    == data[slot]
           d    == [e EXCEPT !.got = @ \cup {i}, !.bytes = BytesWith(s, i, @)]
           block == e.block
<1>1. /\ s \in Partial /\ EntryHolds(data, memory, s) /\ Wrap(s) % n = slot /\ slot \in Slot
      /\ e \in [block: Block \cup {NoBlock}, total: Nat, got: SUBSET Nat, bytes: Nat]
      /\ i \in Nat /\ e.got \cup {i} \subseteq FragmentId(s)
      /\ e.got \cup {i} # FragmentId(s)
      /\ memory[block] \cup {<<s, i>>} = {<<s, j>> : j \in e.got \cup {i}}
      /\ BytesWith(s, i, e.bytes) = IF NumFragments(s) - 1 \in e.got \cup {i} THEN Size[s] ELSE 0
      /\ BytesWith(s, i, e.bytes) \in Nat
  <2>1. Exists(reassembly, Wrap(s)) /\ Fresh(s, i)
    BY DEF LaterFragment
  <2>2. Wrap(s) % n = slot
    BY NumberFacts, PlaceFacts
  <2>3. Cardinality(e.got) + 1 # e.total
    BY <2>2 DEF LaterFragment
  <2> QED BY <2>1, <2>3, FreshFacts
<1>2. /\ processed' = {} /\ received' = received /\ reassembly' = reassembly
      /\ top' = top /\ whole' = whole
      /\ data' = [data EXCEPT ![slot] = d]
      /\ memory' = [memory EXCEPT ![block] = @ \cup {<<s, i>>}]
  BY <1>1 DEF LaterFragment
<1>3. /\ data \in DataType /\ memory \in MemoryType /\ Owned(data, memory, Partial)
      /\ block \in Block /\ e.total = NumFragments(s) /\ s \in Int
  BY <1>1, NumberFacts DEF ReassemblyInv, StateType, EntryHolds
<1>4. /\ d \in [block: Block \cup {NoBlock}, total: Nat, got: SUBSET Nat, bytes: Nat]
      /\ d.block = block /\ d.total = e.total /\ d.got = e.got \cup {i}
      /\ d.bytes = BytesWith(s, i, e.bytes)
  <2> HIDE DEF e
  <2> QED BY <1>1
<1>5. data' \in DataType /\ memory' \in MemoryType
  <2> HIDE DEF d, block
  <2>1. memory[block] \cup {<<s, i>>} \in SUBSET (Int \X Int)
    BY <1>1, <1>3 DEF MemoryType
  <2> QED BY <1>1, <1>2, <1>3, <1>4, <2>1 DEF DataType, MemoryType
<1>6. /\ data'[slot] = d /\ \A j \in Slot \ {slot} : data'[j] = data[j]
      /\ memory'[block] = memory[block] \cup {<<s, i>>}
      /\ \A c \in Block \ {block} : memory'[c] = memory[c]
  <2> HIDE DEF d, block
  <2> QED BY <1>1, <1>2, <1>3 DEF DataType, MemoryType
<1>7. \A j \in Slot : data'[j].block = data[j].block
  BY <1>4, <1>6
<1>8. \A h \in Partial : h % n \in Slot
  BY PartialFacts
<1> HIDE DEF d, n
<1>9. ASSUME NEW h \in Partial PROVE EntryHolds(data', memory', h)
  <2>1. CASE h = s
    <3>1. /\ Fragmented(s) /\ d.block \in Block /\ d.total = NumFragments(s)
          /\ d.got \subseteq FragmentId(s) /\ d.got # FragmentId(s)
          /\ memory'[d.block] = {<<s, j>> : j \in d.got}
          /\ d.bytes = IF NumFragments(s) - 1 \in d.got THEN Size[s] ELSE 0
      BY <1>1, <1>3, <1>4, <1>6
    <3> QED BY <1>6, <2>1, <3>1 DEF EntryHolds, n
  <2>2. CASE h # s
    <3>1. data[h % n].block # block
      BY <1>1, <1>3, <2>2 DEF Owned, n
    <3>2. h % n # slot
      BY <3>1
    <3>3. EntryHolds(data, memory, h)
      BY <1>3 DEF Owned
    <3> QED BY <1>6, <1>8, <3>1, <3>2, <3>3 DEF EntryHolds, n
  <2> QED BY <2>1, <2>2
<1>10. Owned(data', memory', Partial)
  <2>1. \A c \in Block : memory'[c] # Free => memory[c] # Free \/ c = block
    BY <1>6
  <2> QED BY <1>1, <1>3, <1>7, <1>8, <1>9, <2>1 DEF Owned, n
<1>11. /\ received \in Buffer(ReceivedSize) /\ Represents(received, ReceivedSize, top, whole)
       /\ reassembly \in Buffer(n) /\ Represents(reassembly, n, top, Partial)
       /\ top \in 0 .. MaxNumber + 1 /\ whole \subseteq Numbers /\ Partial \in SUBSET Numbers
  BY DEF ReassemblyInv, StateType, Partial, n
<1>12. WholePackets'
  BY <1>2 DEF WholePackets
<1> QED BY <1>2, <1>5, <1>10, <1>11, <1>12, StepIs DEF n

\* The fragment that completes a packet: it is given to the callback as it was
\* sent, and its entry and block are given back.
LEMMA LastFragmentStep ==
  ASSUME ReassemblyInv, NEW s \in Nearby, Fragmented(s),
         NEW i \in FragmentId(s), LastFragment(s, i)
  PROVE  StepHolds /\ TestInsert(received, Wrap(s))
<1> DEFINE n    == ReassemblySize
           w    == Wrap(s)
           slot == s % n
           e    == data[slot]
           D    == CleanedData({slot})
           M    == CleanedMemory({slot})
           P    == Partial \ {s}
           bytes == BytesWith(s, i, e.bytes)
           d    == [D[slot] EXCEPT !.got = @ \cup {i}, !.bytes = BytesWith(s, i, @)]
<1>1. /\ s \in Partial /\ w % n = slot /\ slot \in Slot
      /\ e \in [block: Block \cup {NoBlock}, total: Nat, got: SUBSET Nat, bytes: Nat]
      /\ i \in Nat /\ e.got \cup {i} = FragmentId(s)
      /\ memory[e.block] \cup {<<s, i>>} = {<<s, j>> : j \in e.got \cup {i}}
      /\ bytes = IF NumFragments(s) - 1 \in e.got \cup {i} THEN Size[s] ELSE 0
      /\ bytes \in Nat
  <2>1. Exists(reassembly, w) /\ Fresh(s, i)
    BY DEF LastFragment
  <2>2. w % n = slot
    BY NumberFacts, PlaceFacts
  <2>3. Cardinality(e.got) + 1 = e.total
    BY <2>2 DEF LastFragment
  <2> QED BY <2>1, <2>3, FreshFacts
<1>2. /\ s \in Numbers /\ s \in Int /\ top \in Int /\ s < top /\ s >= top - n /\ w \in SeqNum
      /\ n \in Nat /\ n > 0 /\ n \in RingSizes /\ Seen(s) = top /\ s >= top - ReceivedSize
      /\ TestInsert(received, w) /\ Evicted(w) = {} /\ ~ Newer(w)
      /\ reassembly \in Buffer(n) /\ Represents(reassembly, n, top, Partial)
      /\ top \in 0 .. MaxNumber + 1 /\ whole \subseteq Numbers
  BY <1>1, PartialFacts, NumberFacts, SizeFacts, EvictedFacts DEF ReassemblyInv, StateType
<1>3. /\ processed' = {Packet(s, memory[e.block] \cup {<<s, i>>}, bytes)}
      /\ received' = Insert(received, w) /\ whole' = Known(whole \cup {s}) /\ top' = top
      /\ reassembly' = Remove(reassembly, w)
      /\ data' = [D EXCEPT ![slot] = d]
      /\ memory' = M
  <2>1. Advance(reassembly, w) = reassembly
    BY <1>2 DEF Advance, Newer
  <2>2. Evicted(w) \cup {slot} = {slot}
    BY <1>2
  <2> HIDE DEF D, M, slot
  <2> QED BY <1>1, <1>2, <2>1, <2>2 DEF LastFragment, D, M, slot
<1>4. WholePackets'
  <2>1. memory[e.block] \cup {<<s, i>>} = Parts(s)
    BY <1>1 DEF Parts
  <2>2. bytes = Size[s]
    BY <1>1, <1>2, FragmentFacts
  <2> HIDE DEF bytes, e
  <2> QED BY <1>3, <2>1, <2>2 DEF WholePackets, Packet, Parts
<1>5. received' \in Buffer(ReceivedSize) /\ Represents(received', ReceivedSize, top', whole')
  <2>1. whole' = {h \in whole \cup {s} : h >= Seen(s) - ReceivedSize}
    BY <1>2, <1>3 DEF Known
  <2> QED BY <1>2, <1>3, <2>1, ReceivedOn
<1>6. top' \in 0 .. MaxNumber + 1 /\ whole' \subseteq Numbers
  BY <1>2, <1>3 DEF Known
<1>7. reassembly' \in Buffer(n) /\ Represents(reassembly', n, top', P)
  <2>1. Remove(reassembly, w) \in Buffer(n)
    BY <1>2, RemoveRing
  <2>2. Represents(Remove(reassembly, w), n, top, P)
    BY <1>1, <1>2, RemoveWindow
  <2> QED BY <1>3, <2>1, <2>2
<1>8. /\ P \in SUBSET Numbers /\ P \subseteq Partial
      /\ \A h \in Partial : h \in P \/ h = s
      /\ \A h \in P : h % n # slot /\ h % n \in Slot
  <2>1. ASSUME NEW h \in Partial, h % n = slot PROVE h = s
    <3>1. h \in Int /\ h >= top - n /\ h < top
      BY PartialFacts
    <3>2. h - s < n /\ s - h < n
      BY <1>2, <3>1
    <3> QED BY <1>2, <2>1, <3>1, <3>2, PlaceFacts
  <2>2. \A h \in Partial : h \in Numbers /\ h % n \in Slot
    BY PartialFacts
  <2> QED BY <2>1, <2>2
<1>9. D \in DataType /\ M \in MemoryType /\ Owned(D, M, P) /\ D[slot].block = NoBlock
  <2>1. D \in DataType /\ M \in MemoryType /\ Owned(D, M, P)
    <3>1. {slot} \in SUBSET Slot /\ P \in SUBSET Partial
      BY <1>1, <1>8
    <3>2. \A h \in Partial : h % n \in {slot} <=> h \notin P
      BY <1>8
    <3> HIDE DEF P, slot
    <3> QED BY <3>1, <3>2, CleanedFacts
  <2>2. D[slot] = [e EXCEPT !.block = NoBlock]
    BY <1>1 DEF CleanedData
  <2> HIDE DEF D, e
  <2> QED BY <1>1, <2>1, <2>2
<1> HIDE DEF D, M, P
<1>10. /\ d \in [block: Block \cup {NoBlock}, total: Nat, got: SUBSET Nat, bytes: Nat]
       /\ d.block = NoBlock
  <2>1. D[slot] \in [block: Block \cup {NoBlock}, total: Nat, got: SUBSET Nat, bytes: Nat]
    BY <1>1, <1>9 DEF DataType
  <2>2. \A m \in Nat : BytesWith(s, i, m) \in Nat
    BY <1>1, <1>2, FragmentFacts
  <2> DEFINE c == D[slot]
  <2>3. BytesWith(s, i, c.bytes) \in Nat /\ c.got \cup {i} \in SUBSET Nat
    BY <1>1, <2>1, <2>2
  <2> HIDE DEF c
  <2>4. d = [c EXCEPT !.got = @ \cup {i}, !.bytes = BytesWith(s, i, @)]
    BY DEF c
  <2> HIDE DEF d
  <2>5. /\ c \in [block: Block \cup {NoBlock}, total: Nat, got: SUBSET Nat, bytes: Nat]
        /\ c.block = NoBlock
    BY <1>9, <2>1 DEF c
  <2> QED BY <2>3, <2>4, <2>5
<1> HIDE DEF d
<1>11. /\ data' \in DataType /\ data'[slot] = d
       /\ \A j \in Slot \ {slot} : data'[j] = D[j]
  BY <1>1, <1>3, <1>9, <1>10 DEF DataType
<1>12. Owned(data', M, P)
  <2>1. \A j \in Slot : data'[j].block = D[j].block
    BY <1>9, <1>10, <1>11
  <2>2. ASSUME NEW h \in P PROVE EntryHolds(data', M, h)
    <3>1. EntryHolds(D, M, h) /\ data'[h % n] = D[h % n]
      BY <1>8, <1>9, <1>11 DEF Owned
    <3> QED BY <3>1 DEF EntryHolds
  <2> HIDE DEF slot
  <2> QED BY <1>8, <1>9, <2>1, <2>2 DEF Owned
<1>13. \A h \in Partial : \/ h \in P \/ h < top' - ReassemblySize
                          \/ \E p \in processed' : p.number = h
  BY <1>3, <1>8 DEF Packet
<1>14. StepHolds
  BY <1>3, <1>4, <1>5, <1>6, <1>7, <1>8, <1>9, <1>11, <1>12, <1>13, StepIs
<1> QED BY <1>2, <1>14

\* Every step holds what StepHolds says.
LEMMA NextStep ==
  ASSUME ReassemblyInv, Next
  PROVE  StepHolds
<1>1. PICK s \in Nearby : Regular(s) \/ Fragment(s)
  BY DEF Next
<1>2. CASE Regular(s)
  BY <1>2, RegularStep
<1>3. CASE Fragment(s)
  <2>1. Fragmented(s)
    BY <1>3 DEF Fragment
  <2>2. PICK i \in FragmentId(s) : \/ FirstFragment(s, i) \/ LaterFragment(s, i)
                                   \/ LastFragment(s, i) \/ Ignored(s, i)
    BY <1>3 DEF Fragment
  <2>3. CASE FirstFragment(s, i)
    BY <2>1, <2>3, FirstFragmentStep
  <2>4. CASE LaterFragment(s, i)
    BY <2>1, <2>4, LaterFragmentStep
  <2>5. CASE LastFragment(s, i)
    BY <2>1, <2>5, LastFragmentStep
  <2>6. CASE Ignored(s, i)
    BY <2>6, QuietStep DEF Ignored
  <2> QED BY <2>2, <2>3, <2>4, <2>5, <2>6
<1> QED BY <1>1, <1>2, <1>3

\* An endpoint begins with empty buffers and nothing allocated.
LEMMA InitHolds ==
  ASSUME Init
  PROVE  ReassemblyInv /\ WholePackets
<1>1. /\ received = EmptyBuffer(ReceivedSize) /\ reassembly = EmptyBuffer(ReassemblySize)
      /\ data = [i \in Slot |-> Unused] /\ memory = [b \in Block |-> Free]
      /\ processed = {} /\ top = 0 /\ whole = {}
  BY DEF Init
<1>2. /\ received \in Buffer(ReceivedSize) /\ Represents(received, ReceivedSize, top, whole)
      /\ reassembly \in Buffer(ReassemblySize) /\ Represents(reassembly, ReassemblySize, top, {})
  BY <1>1, SizeFacts, EmptyBufferType, RepresentsNone
<1>3. top \in 0 .. MaxNumber + 1 /\ whole \subseteq Numbers
  BY <1>1, SizeFacts
<1>4. Partial = {}
  <2>1. {} \in SUBSET Numbers
    OBVIOUS
  <2> QED BY <1>2, <1>3, <2>1, PartialIsUnique DEF Partial
<1>5. /\ data \in DataType /\ memory \in MemoryType
      /\ \A i \in Slot : data[i].block = NoBlock
      /\ \A b \in Block : memory[b] = Free
  BY <1>1 DEF DataType, MemoryType, Unused, Free
<1>6. Owned(data, memory, Partial)
  BY <1>4, <1>5 DEF Owned
<1> QED BY <1>1, <1>2, <1>3, <1>4, <1>5, <1>6 DEF ReassemblyInv, StateType, WholePackets

-----------------------------------------------------------------------------
(* What the invariant means for the properties.                            *)

\* The entries in use are those of the partial packets, and they have a block.
LEMMA InUseFacts ==
  ASSUME ReassemblyInv
  PROVE  /\ \A h \in Partial : h % ReassemblySize \in InUse
         /\ \A i \in InUse : \E h \in Partial :
              h % ReassemblySize = i /\ reassembly.entry[i] = Wrap(h)
         /\ \A i \in Slot : i \in InUse <=> data[i].block # NoBlock
<1>1. ASSUME NEW h \in Partial
      PROVE  /\ h % ReassemblySize \in InUse /\ data[h % ReassemblySize].block # NoBlock
  <2>1. /\ h \in Int /\ h % ReassemblySize \in Slot
        /\ reassembly.entry[h % ReassemblySize] = Wrap(h) /\ EntryHolds(data, memory, h)
    BY PartialFacts
  <2>2. Wrap(h) # Vacant
    BY <2>1, WrapType DEF SeqNum, Vacant
  <2> QED BY <2>1, <2>2, ReassemblyAssumption DEF InUse, EntryHolds
<1>2. ASSUME NEW i \in InUse
      PROVE  \E h \in Partial : h % ReassemblySize = i /\ reassembly.entry[i] = Wrap(h)
  BY DEF InUse, Slot, ReassemblyInv, Represents
<1>3. ASSUME NEW i \in Slot, data[i].block # NoBlock
      PROVE  \E h \in Partial : h % ReassemblySize = i
  BY <1>3 DEF ReassemblyInv, Owned
<1> QED BY <1>1, <1>2, <1>3 DEF InUse

\* The types, in the terms of Reassembly: a block holds fragments of packets.
LEMMA TypesOf ==
  ASSUME ReassemblyInv
  PROVE  TypeOK
<1>1. ASSUME NEW b \in Block, memory[b] # Free PROVE memory[b] \subseteq AnyFragment
  <2>1. PICK h \in Partial : data[h % ReassemblySize].block = b
    BY <1>1 DEF ReassemblyInv, Owned
  <2>2. /\ h \in Numbers /\ Fragmented(h)
        /\ data[h % ReassemblySize].got \subseteq FragmentId(h)
        /\ memory[b] = {<<h, i>> : i \in data[h % ReassemblySize].got}
    BY <2>1, PartialFacts DEF EntryHolds
  <2>3. memory[b] \subseteq Parts(h)
    BY <2>2 DEF Parts
  <2> QED BY <2>2, <2>3 DEF AnyFragment
<1> QED BY <1>1 DEF ReassemblyInv, StateType, DataType, TypeOK

\* The blocks allocated are those of the entries in use, one each.
LEMMA BlocksOf ==
  ASSUME ReassemblyInv
  PROVE  BlocksOwned
<1> DEFINE n == ReassemblySize
<1>1. \A i \in Slot : i \in InUse <=> data[i].block # NoBlock
  BY InUseFacts
<1>2. ASSUME NEW i \in InUse, NEW j \in InUse, data[i].block = data[j].block PROVE i = j
  <2>1. PICK r \in Partial : r % n = i
    BY InUseFacts
  <2>2. PICK s \in Partial : s % n = j
    BY InUseFacts
  <2>3. r = s
    BY <1>2, <2>1, <2>2 DEF ReassemblyInv, Owned
  <2> QED BY <2>1, <2>2, <2>3
<1>3. ASSUME NEW b \in Block, memory[b] # Free PROVE \E i \in InUse : data[i].block = b
  <2>1. PICK h \in Partial : data[h % n].block = b
    BY <1>3 DEF ReassemblyInv, Owned
  <2> QED BY <2>1, InUseFacts
<1>4. ASSUME NEW i \in InUse PROVE data[i].block \in Block /\ memory[data[i].block] # Free
  <2>1. PICK h \in Partial : h % n = i
    BY InUseFacts
  <2>2. /\ h \in Nat /\ data[i].block \in Block
        /\ memory[data[i].block] = {<<h, j>> : j \in data[i].got}
    BY <2>1, PartialFacts DEF EntryHolds
  <2>3. ASSUME memory[data[i].block] = Free PROVE FALSE
    <3>1. PICK j \in data[i].got : <<-1, -1>> = <<h, j>>
      BY <2>2, <2>3 DEF Free
    <3> QED BY <2>2, <3>1
  <2> QED BY <2>2, <2>3
<1> QED BY <1>1, <1>2, <1>3, <1>4 DEF BlocksOwned

\* A packet that is partial is in reach of the packets received.
LEMMA InReachOf ==
  ASSUME ReassemblyInv
  PROVE  NeverCompletedInVain
<1>1. ASSUME NEW i \in InUse PROVE TestInsert(received, reassembly.entry[i])
  <2>1. PICK h \in Partial : reassembly.entry[i] = Wrap(h)
    BY InUseFacts
  <2>2. /\ received \in Buffer(ReceivedSize) /\ Represents(received, ReceivedSize, top, whole)
        /\ top \in Int /\ h \in Int /\ h >= top - ReassemblySize /\ h < top
    BY PartialFacts, SizeFacts DEF ReassemblyInv, StateType
  <2>3. h \in top - Half .. top + Half - ReceivedSize - 1 /\ h >= top - ReceivedSize
    BY <2>2, SizeFacts
  <2>4. TestInsert(received, Wrap(h))
    BY <2>2, <2>3, SizeFacts, TestInsertInWindow
  <2> QED BY <2>1, <2>4
<1> QED BY <1>1 DEF NeverCompletedInVain

\* The ring of the packets received stands for the packets that were whole.
LEMMA AckedOf ==
  ASSUME ReassemblyInv
  PROVE  AckedOnlyIfWhole
<1>1. /\ received \in Buffer(ReceivedSize) /\ Represents(received, ReceivedSize, top, whole)
      /\ top \in Int
  BY SizeFacts DEF ReassemblyInv, StateType
<1>2. ASSUME NEW s \in Numbers, s >= top - ReceivedSize
      PROVE  Exists(received, Wrap(s)) /\ s < top <=> s \in whole
  <2>1. s \in Int
    BY SizeFacts DEF Numbers
  <2>2. s \in whole => s < top
    <3>1. whole \subseteq top - ReceivedSize .. top - 1
      BY <1>1 DEF Represents
    <3> QED BY <1>1, <2>1, <3>1, SizeFacts
  <2>3. ASSUME s < top PROVE Exists(received, Wrap(s)) <=> s \in whole
    <3>1. s \in top - Half .. top + Half
      BY <1>1, <1>2, <2>1, <2>3, SizeFacts
    <3> QED BY <1>1, <3>1, SizeFacts, ExistsInWindow
  <2> QED BY <2>2, <2>3
<1> QED BY <1>2 DEF AckedOnlyIfWhole

\* What a step leaves of the partial packets.
LEMMA KeptOf ==
  ASSUME ReassemblyInv, StepHolds, NEW s \in Numbers,
         s \in top - ReassemblySize .. top - 1,
         Exists(reassembly, Wrap(s)), ~ Exists(reassembly, Wrap(s))'
  PROVE  s < top' - ReassemblySize \/ \E p \in processed' : p.number = s
<1>1. s \in Partial
  BY DEF Partial
<1>2. s \notin Partial'
  BY DEF Partial
<1> QED BY <1>1, <1>2 DEF StepHolds

-----------------------------------------------------------------------------
(* The theorems.                                                           *)

\* In every state the rings stand for what was received and for what is being
\* put together, and what was given to the callback is what was sent.
LEMMA Reachable == Spec => []ReassemblyInv /\ []WholePackets
<1>1. Init => ReassemblyInv /\ WholePackets
  BY InitHolds
<1>2. ReassemblyInv /\ WholePackets /\ [Next]_vars => ReassemblyInv' /\ WholePackets'
  <2> SUFFICES ASSUME ReassemblyInv, WholePackets, [Next]_vars
               PROVE  ReassemblyInv' /\ WholePackets'
    OBVIOUS
  <2>1. CASE Next
    BY <2>1, NextStep DEF StepHolds
  <2>2. CASE UNCHANGED vars
    <3>1. Partial' = Partial
      BY <2>2 DEF Partial, vars
    <3> QED BY <2>2, <3>1 DEF vars, ReassemblyInv, StateType, Represents, Owned,
                              EntryHolds, WholePackets
  <2> QED BY <2>1, <2>2
<1> QED BY <1>1, <1>2, PTL DEF Spec

\* The buffers, the entries and the blocks have their types, and a block is
\* free or holds fragments of packets only.
THEOREM ReassemblyTypeCorrect == Spec => []TypeOK
<1>1. ReassemblyInv => TypeOK
  BY TypesOf
<1> QED BY <1>1, Reachable, PTL

\* A block is allocated if and only if exactly one entry in use owns it: none
\* is leaked, freed twice or shared, whatever is evicted, completed or ignored.
THEOREM ReassemblyBlocksOwned == Spec => []BlocksOwned
<1>1. ReassemblyInv => BlocksOwned
  BY BlocksOf
<1> QED BY <1>1, Reachable, PTL

\* The callback is given packets as they were sent: all fragments, none of
\* another packet, the whole length, in whatever order and number they came.
THEOREM ReassemblyWholePackets == Spec => []WholePackets
  BY Reachable, PTL

\* No packet is put together that would then be refused as stale: a window of
\* ReassemblySize that moves with one of ReceivedSize stays within it.
THEOREM ReassemblyNotInVain == Spec => []NeverCompletedInVain
<1>1. ReassemblyInv => NeverCompletedInVain
  BY InReachOf
<1> QED BY <1>1, Reachable, PTL

\* The acks an endpoint sends are of the packets that were whole, no more and
\* no fewer, as far back as the window of the packets received reaches.
THEOREM ReassemblyAcksWhole == Spec => []AckedOnlyIfWhole
<1>1. ReassemblyInv => AckedOnlyIfWhole
  BY AckedOf
<1> QED BY <1>1, Reachable, PTL

\* No step drops the fragments of a packet but by completing it or because
\* ReassemblySize newer packets have come.
THEOREM ReassemblyKeepsYoung == Spec => KeptWhileYoung
<1> DEFINE Lost(s) == /\ s \in top - ReassemblySize .. top - 1
                      /\ Exists(reassembly, Wrap(s)) /\ ~ Exists(reassembly, Wrap(s))'
           Kept == \A s \in Numbers :
                     Lost(s) => s < top' - ReassemblySize \/ \E p \in processed' : p.number = s
<1>1. ReassemblyInv /\ [Next]_vars => [Kept]_vars
  <2>1. ReassemblyInv /\ Next => Kept
    BY NextStep, KeptOf
  <2> QED BY <2>1
<1>2. Spec => [][Kept]_vars
  BY <1>1, Reachable, PTL DEF Spec
<1> QED BY <1>2 DEF KeptWhileYoung
=============================================================================
