---------------------------- MODULE AckHeaderProofs ----------------------------
(***************************************************************************)
(* What reliable.c tells its peer of the packets it has received, for      *)
(* every size of the ring, every modulus of the packet numbers and every   *)
(* length of the connection.                                               *)
(*                                                                         *)
(* The ring keeps its promise: SequenceWindow implements IdealWindow.  The *)
(* inductive invariant is RingInv: the ring stands for the numbers         *)
(* remembered, Held, in the window that ends at top (Represents of         *)
(* SequenceBufferProofs).  The lemmas there say what each operation makes  *)
(* of that; what is left is that Held is the only set the ring can stand   *)
(* for.                                                                    *)
(*                                                                         *)
(* What is written into a header is read from it, whatever the numbers and *)
(* the mask, and a packet taken apart into fragments is put together       *)
(* again.  With the ring's invariant, every packet it sends is read as it  *)
(* was meant.                                                              *)
(***************************************************************************)
EXTENDS AckHeader, SequenceBufferProofs, SequenceTheorems

-----------------------------------------------------------------------------
(* The ring.                                                               *)

RingInv == TypeOK /\ Represents(buffer, Entries, top, Held)

\* What an action may take for granted.
LEMMA WindowFacts ==
  /\ Entries \in RingSizes
  /\ Entries \in Nat /\ Entries > 0 /\ Entries < Half /\ Half \in Nat
  /\ Ahead \in Nat /\ Behind \in Nat /\ Bits \in Nat /\ MaxNumber \in Nat
  /\ Ahead <= Half - Entries - 1 /\ Behind <= Half /\ Bits <= Entries
<1>1. Half \in Nat
  BY SeqModAssumption DEF Half
<1> QED BY <1>1, WindowAssumption DEF RingSizes

\* The numbers near the window, which the packets carry.
LEMMA NearbyFacts ==
  ASSUME RingInv, NEW s \in Nearby
  PROVE  /\ s \in 0 .. MaxNumber /\ s \in Int
         /\ s \in top - Half .. top + Half - Entries - 1
         /\ s \in top - Half .. top + Half
         /\ top \in Nat /\ top <= MaxNumber + 1 /\ buffer \in Buffer(Entries)
  BY WindowFacts DEF RingInv, TypeOK, Nearby

\* The numbers remembered are those the ring stands for: no other set will do.
LEMMA RememberedIsUnique ==
  ASSUME NEW b \in Buffer(Entries), NEW t \in Nat, NEW H \in SUBSET Nat,
         Represents(b, Entries, t, H)
  PROVE  {s \in {x \in t - Entries .. t - 1 : x >= 0} : Exists(b, Wrap(s))} = H
<1>1. ASSUME NEW s \in t - Entries .. t - 1 PROVE Exists(b, Wrap(s)) <=> s \in H
  <2>1. s \in t - Half .. t + Half /\ t \in Int
    BY WindowFacts
  <2> QED BY <2>1, WindowFacts, ExistsInWindow
<1>2. H \subseteq {x \in t - Entries .. t - 1 : x >= 0}
  BY DEF Represents
<1> QED BY <1>1, <1>2

\* So Held is that set, before a step and after it.
LEMMA HeldIsUnique ==
  /\ \A H \in SUBSET Nat :
       /\ Represents(buffer, Entries, top, H) /\ buffer \in Buffer(Entries) /\ top \in Nat
       => Held = H
  /\ \A H \in SUBSET Nat :
       /\ Represents(buffer', Entries, top', H) /\ buffer' \in Buffer(Entries) /\ top' \in Nat
       => Held' = H
<1>1. ASSUME NEW H \in SUBSET Nat, Represents(buffer, Entries, top, H),
             buffer \in Buffer(Entries), top \in Nat
      PROVE  Held = H
  BY <1>1, RememberedIsUnique DEF Held, Window
<1>2. ASSUME NEW H \in SUBSET Nat, Represents(buffer', Entries, top', H),
             buffer' \in Buffer(Entries), top' \in Nat
      PROVE  Held' = H
  BY <1>2, RememberedIsUnique DEF Held, Window
<1> QED BY <1>1, <1>2

\* The numbers held are numbers of packets.
LEMMA HeldInWindow ==
  ASSUME RingInv
  PROVE  \A h \in Held : h \in Nat /\ h >= top - Entries /\ h < top
  BY WindowFacts DEF RingInv, TypeOK, Held, Window

-----------------------------------------------------------------------------
(* The steps: each maps to the step of IdealWindow that its answer says.   *)

\* A new connection.
LEMMA CreateStands ==
  ASSUME Init
  PROVE  RingInv /\ Ideal!Init
<1>1. EmptyBuffer(Entries) \in Buffer(Entries)
  BY WindowFacts, EmptyBufferType
<1>2. Represents(buffer, Entries, top, {})
  BY WindowFacts, RepresentsNone DEF Init
<1>3. Held = {}
  BY <1>1, <1>2, HeldIsUnique DEF Init
<1>4. TypeOK
  BY <1>1, WindowFacts DEF Init, TypeOK, Ideal!Called
<1> QED BY <1>2, <1>3, <1>4 DEF Init, RingInv, Ideal!Init

\* A packet enters the window, or is refused because it is behind it.
LEMMA EnterStands ==
  ASSUME RingInv, NEW s \in Nearby, Enter(s)
  PROVE  RingInv' /\ (Ideal!Enter(s) \/ Ideal!Refuse(s))
<1>1. /\ s \in 0 .. MaxNumber /\ s \in Int
      /\ s \in top - Half .. top + Half - Entries - 1
      /\ top \in Nat /\ top <= MaxNumber + 1 /\ buffer \in Buffer(Entries)
  BY NearbyFacts
<1>2. Represents(buffer, Entries, top, Held)
  BY DEF RingInv
<1>3. /\ TestInsert(buffer, Wrap(s)) <=> s >= top - Entries
      /\ TestInsert(buffer, Wrap(s)) \in BOOLEAN
  <2>1. TestInsert(buffer, Wrap(s)) <=> s >= top - Entries
    BY <1>1, <1>2, WindowFacts, TestInsertInWindow
  <2> QED BY <2>1 DEF TestInsert
<1>4. /\ buffer' = Insert(buffer, Wrap(s))
      /\ top' = IF s >= top THEN s + 1 ELSE top
      /\ call' = Ideal!Called("enter", s, TestInsert(buffer, Wrap(s)))
  BY DEF Enter, Ideal!Newer
<1>5. /\ buffer' \in Buffer(Entries) /\ top' \in 0 .. MaxNumber + 1 /\ top' \in Nat
      /\ ~ TestInsert(buffer, Wrap(s)) => Insert(buffer, Wrap(s)) = buffer
  <2>1. Wrap(s) \in SeqNum
    BY <1>1, WrapType
  <2> QED BY <2>1, <1>1, <1>4, WindowFacts, InsertRing
<1>6. TypeOK'
  <2>1. call' \in [op: {"create", "enter", "skip", "forget"},
                   number: 0 .. MaxNumber, answer: BOOLEAN]
    BY <1>1, <1>3, <1>4 DEF Ideal!Called
  <2> QED BY <2>1, <1>5 DEF TypeOK
<1>7. CASE s >= top - Entries
  <2> DEFINE K == {h \in Held \cup {s} : h >= top' - Entries}
  <2>1. Represents(buffer', Entries, top', K)
    <3>1. s \in top - Entries .. top + Half - Entries - 1
      BY <1>1, <1>7, WindowFacts
    <3> QED BY <3>1, <1>1, <1>2, <1>4, WindowFacts, InsertWindow
  <2>2. K \subseteq Nat
    BY <1>1, HeldInWindow
  <2>3. Held' = K
    BY <2>1, <2>2, <1>5, HeldIsUnique
  <2>4. RingInv'
    BY <2>1, <2>3, <1>6 DEF RingInv
  <2>5. Ideal!Enter(s)
    BY <2>3, <1>3, <1>4, <1>7 DEF Ideal!Enter, Ideal!Newer, Ideal!InWindow
  <2> QED BY <2>4, <2>5
<1>8. CASE ~ (s >= top - Entries)
  <2>1. buffer' = buffer
    BY <1>3, <1>4, <1>5, <1>8
  <2>2. top' = top /\ s < top - Entries
    BY <1>1, <1>4, <1>8, WindowFacts
  <2>3. call' = Ideal!Called("enter", s, FALSE)
    <3>1. TestInsert(buffer, Wrap(s)) = FALSE
      BY <1>3, <1>8
    <3> QED BY <3>1, <1>4
  <2>4. Held' = Held
    BY <2>1, <2>2 DEF Held, Window
  <2>5. RingInv'
    BY <2>1, <2>2, <2>4, <1>2, <1>6 DEF RingInv
  <2>6. Ideal!Refuse(s)
    BY <2>2, <2>3, <2>4 DEF Ideal!Refuse
  <2> QED BY <2>5, <2>6
<1> QED BY <1>7, <1>8

\* The window moves on to a packet that is not remembered itself.
LEMMA SkipStands ==
  ASSUME RingInv, NEW s \in Nearby, Skip(s)
  PROVE  RingInv' /\ Ideal!Skip(s)
<1>1. /\ s \in 0 .. MaxNumber /\ s \in Int
      /\ s \in top - Half .. top + Half - Entries - 1
      /\ top \in Nat /\ top <= MaxNumber + 1 /\ buffer \in Buffer(Entries)
  BY NearbyFacts
<1>2. Represents(buffer, Entries, top, Held)
  BY DEF RingInv
<1>3. /\ buffer' = Advance(buffer, Wrap(s))
      /\ top' = IF s >= top THEN s + 1 ELSE top
      /\ call' = Ideal!Called("skip", s, TRUE)
  BY DEF Skip, Ideal!Newer
<1>4. buffer' \in Buffer(Entries) /\ top' \in 0 .. MaxNumber + 1 /\ top' \in Nat
  <2>1. Wrap(s) \in SeqNum
    BY <1>1, WrapType
  <2> QED BY <2>1, <1>1, <1>3, WindowFacts, AdvanceRing
<1>5. TypeOK'
  BY <1>1, <1>3, <1>4 DEF TypeOK, Ideal!Called
<1> DEFINE K == {h \in Held : h >= top' - Entries}
<1>6. Represents(buffer', Entries, top', K)
  BY <1>1, <1>2, <1>3, WindowFacts, AdvanceWindow
<1>7. K \subseteq Nat
  BY HeldInWindow
<1>8. Held' = K
  BY <1>4, <1>6, <1>7, HeldIsUnique
<1>9. RingInv'
  BY <1>5, <1>6, <1>8 DEF RingInv
<1>10. Ideal!Skip(s)
  BY <1>3, <1>8 DEF Ideal!Skip, Ideal!Newer, Ideal!InWindow
<1> QED BY <1>9, <1>10

\* A packet is forgotten, if it is remembered.
LEMMA ForgetStands ==
  ASSUME RingInv, NEW s \in Nearby, Forget(s)
  PROVE  RingInv' /\ Ideal!Forget(s)
<1>1. /\ s \in 0 .. MaxNumber /\ s \in Int /\ s \in top - Half .. top + Half
      /\ top \in Nat /\ top <= MaxNumber + 1 /\ buffer \in Buffer(Entries)
  BY NearbyFacts
<1>2. Represents(buffer, Entries, top, Held)
  BY DEF RingInv
<1>3. Exists(buffer, Wrap(s)) = (s \in Held)
  <2>1. Exists(buffer, Wrap(s)) <=> s \in Held
    BY <1>1, <1>2, WindowFacts, ExistsInWindow
  <2> QED BY <2>1 DEF Exists
<1>4. /\ buffer' = IF s \in Held THEN Remove(buffer, Wrap(s)) ELSE buffer
      /\ top' = top /\ call' = Ideal!Called("forget", s, s \in Held)
  BY <1>3 DEF Forget, Ideal!Called
<1>5. buffer' \in Buffer(Entries)
  <2>1. Wrap(s) \in SeqNum
    BY <1>1, WrapType
  <2> QED BY <2>1, <1>1, <1>4, WindowFacts, RemoveRing
<1>6. TypeOK'
  BY <1>1, <1>4, <1>5 DEF TypeOK, Ideal!Called
<1>7. Represents(buffer', Entries, top', Held \ {s})
  <2>1. CASE s \in Held
    BY <2>1, <1>1, <1>2, <1>4, WindowFacts, RemoveWindow
  <2>2. CASE s \notin Held
    <3>1. Held \ {s} = Held
      BY <2>2
    <3> QED BY <3>1, <2>2, <1>2, <1>4
  <2> QED BY <2>1, <2>2
<1>8. Held' = Held \ {s}
  BY <1>1, <1>4, <1>5, <1>7, HeldInWindow, HeldIsUnique
<1>9. RingInv'
  BY <1>6, <1>7, <1>8 DEF RingInv
<1> QED BY <1>4, <1>8, <1>9 DEF Ideal!Forget

-----------------------------------------------------------------------------
(* The theorems.                                                           *)

\* Every step keeps the invariant and is a step of the unbounded window.
LEMMA StepStands ==
  ASSUME RingInv, [Next]_vars
  PROVE  RingInv' /\ [Ideal!Next]_(Ideal!vars)
<1>1. CASE Next
  <2>1. PICK s \in Nearby : Enter(s) \/ Skip(s) \/ Forget(s)
    BY <1>1 DEF Next
  <2>2. s \in 0 .. MaxNumber
    BY DEF Nearby
  <2>3. RingInv' /\ (Ideal!Enter(s) \/ Ideal!Refuse(s) \/ Ideal!Skip(s) \/ Ideal!Forget(s))
    BY <2>1, EnterStands, SkipStands, ForgetStands
  <2> QED BY <2>2, <2>3 DEF Ideal!Next
<1>2. CASE UNCHANGED vars
  <2>1. buffer' = buffer /\ top' = top /\ call' = call
    BY <1>2 DEF vars
  <2>2. Held' = Held
    BY <2>1 DEF Held, Window
  <2>3. RingInv'
    BY <2>1, <2>2 DEF RingInv, TypeOK
  <2> QED BY <2>1, <2>2, <2>3 DEF Ideal!vars
<1> QED BY <1>1, <1>2

\* The ring always stands for the numbers remembered.
THEOREM RingStands == Spec => []RingInv
<1>1. Init => RingInv
  BY CreateStands
<1>2. RingInv /\ [Next]_vars => RingInv'
  BY StepStands
<1> QED BY <1>1, <1>2, PTL DEF Spec

\* The ring, the unbounded number and the last answer keep their types.
THEOREM WindowTypeCorrect == Spec => []TypeOK
<1>1. RingInv => TypeOK
  BY DEF RingInv
<1> QED BY <1>1, RingStands, PTL

\* No slot keeps a number that has left the window: after the numbers wrap it
\* would pass for a packet that has not arrived yet
\* (reliable_sequence_buffer_remove_entries).
THEOREM WindowNoLeftover == Spec => []NoLeftover
<1>1. RingInv => NoLeftover
  <2> SUFFICES ASSUME RingInv, NEW i \in DOMAIN buffer.entry, buffer.entry[i] # Vacant
               PROVE  \E s \in Window : buffer.entry[i] = Wrap(s)
    BY DEF NoLeftover
  <2>1. i \in 0 .. Entries - 1
    BY WindowFacts, RingSize DEF RingInv, TypeOK
  <2>2. PICK h \in Held : buffer.entry[i] = Wrap(h)
    BY <2>1 DEF RingInv, Represents
  <2> QED BY <2>2 DEF Held
<1> QED BY <1>1, RingStands, PTL

\* A packet header acknowledges the packets received among the newest Bits
\* numbers, those and no other, wherever the numbers stand in their cycle
\* (reliable_sequence_buffer_generate_ack_bits).
THEOREM WindowAcksExactly == Spec => []AcksExactly
<1>1. RingInv => AcksExactly
  <2> SUFFICES ASSUME RingInv PROVE AcksExactly
    OBVIOUS
  <2>1. /\ buffer \in Buffer(Entries) /\ top \in Nat
        /\ Represents(buffer, Entries, top, Held) /\ buffer.sequence = Wrap(top)
    BY WindowFacts DEF RingInv, TypeOK, Represents
  <2>2. ASSUME NEW i \in 0 .. Bits - 1
        PROVE  /\ Wrap(buffer.sequence - 1 - i) = Wrap(top - 1 - i)
               /\ top - 1 - i \in Int /\ top - 1 - i >= top - Bits
               /\ Exists(buffer, Wrap(top - 1 - i)) <=> top - 1 - i \in Held
    <3>1. /\ -1 - i \in Int /\ Wrap(top) \in Int
          /\ buffer.sequence - 1 - i = buffer.sequence + (-1 - i)
          /\ top - 1 - i = top + (-1 - i)
      BY <2>1, WindowFacts, WrapType DEF SeqNum
    <3>2. Wrap(Wrap(top) + (-1 - i)) = Wrap(top + (-1 - i))
      BY <2>1, <3>1, WrapAdd
    <3>3. top - 1 - i \in top - Half .. top + Half /\ top \in Int
      BY <2>1, WindowFacts
    <3>4. Exists(buffer, Wrap(top - 1 - i)) <=> top - 1 - i \in Held
      BY <2>1, <3>3, WindowFacts, ExistsInWindow
    <3> QED BY <2>1, <3>1, <3>2, <3>3, <3>4, WindowFacts
  <2>3. ASSUME NEW x \in AckSet(buffer, Bits)
        PROVE  \E h \in Held : h >= top - Bits /\ x = Wrap(h)
    <3>1. PICK i \in 0 .. Bits - 1 :
            x = Wrap(buffer.sequence - 1 - i) /\ Exists(buffer, x)
      BY DEF AckSet
    <3>2. x = Wrap(top - 1 - i) /\ top - 1 - i \in Held /\ top - 1 - i >= top - Bits
      BY <3>1, <2>2
    <3> QED BY <3>2
  <2>4. ASSUME NEW h \in Held, h >= top - Bits
        PROVE  Wrap(h) \in AckSet(buffer, Bits)
    <3>1. h \in Nat /\ h < top
      BY HeldInWindow
    <3>2. top - 1 - h \in 0 .. Bits - 1 /\ top - 1 - (top - 1 - h) = h
      BY <2>1, <2>4, <3>1, WindowFacts
    <3>3. Wrap(buffer.sequence - 1 - (top - 1 - h)) = Wrap(h) /\ Exists(buffer, Wrap(h))
      BY <2>2, <3>2
    <3> QED BY <3>2, <3>3 DEF AckSet
  <2> QED BY <2>3, <2>4 DEF AcksExactly
<1> QED BY <1>1, RingStands, PTL

\* The ring over wrapping numbers is the unbounded window: nothing in reach
\* is dropped, resurrected or refused (reliable_sequence_buffer_insert,
\* _advance, _remove, _exists and _test_insert).
THEOREM WindowRefinesIdeal == Spec => RefinesIdeal
<1>1. Init => Ideal!Init
  BY CreateStands
<1>2. RingInv /\ [Next]_vars => [Ideal!Next]_(Ideal!vars)
  BY StepStands
<1> QED BY <1>1, <1>2, RingStands, PTL DEF Spec, RefinesIdeal, Ideal!Spec

-----------------------------------------------------------------------------
(* The header of a packet.                                                 *)

\* What a place of a datagram may hold: a first byte, a byte of ack bits or
\* another one.
Cell == (SUBSET (0 .. 5)) \cup (SUBSET FullByte) \cup Nat

-----------------------------------------------------------------------------
\* Arithmetic.

\* The difference of two packet numbers, in 16 bits.
LEMMA DistanceOf ==
  ASSUME NEW s \in SeqNum, NEW a \in SeqNum
  PROVE  /\ Wrap(s - a) = IF s >= a THEN s - a ELSE s - a + SeqMod
         /\ Wrap(s - a) \in SeqNum
<1>1. CASE s >= a
  BY <1>1, SmallMod, SeqModAssumption, s - a \in 0 .. SeqMod - 1 DEF Wrap, SeqNum
<1>2. CASE s < a
  BY <1>2, NegativeMod, SeqModAssumption, s - a \in -(SeqMod - 1) .. -1 DEF Wrap, SeqNum
<1> QED BY <1>1, <1>2 DEF SeqNum

\* The ack is found again from its distance.
LEMMA AckFromDistance ==
  ASSUME NEW s \in SeqNum, NEW a \in SeqNum
  PROVE  Wrap(s - Distance(s, a)) = a
<1>1. Distance(s, a) = IF s >= a THEN s - a ELSE s - a + SeqMod
  BY DistanceOf DEF Distance
<1>2. Distance(s, a) \in SeqNum
  BY DistanceOf DEF Distance
<1>3. Wrap(s - Distance(s, a))
        = IF s >= Distance(s, a) THEN s - Distance(s, a) ELSE s - Distance(s, a) + SeqMod
  BY <1>2, DistanceOf
<1> QED BY <1>1, <1>3, SeqModAssumption DEF SeqNum

\* The two bytes of a number.
Low(n)  == n % ByteMod
High(n) == n \div ByteMod

\* A number is put together again from its two bytes.
LEMMA Uint16ReadBack ==
  ASSUME NEW n \in SeqNum
  PROVE  /\ Low(n) \in Nat /\ High(n) \in Nat
         /\ Low(n) + ByteMod * High(n) = n
         /\ Uint16(n) = <<Low(n), High(n)>>
  BY HeaderAssumption, SeqModAssumption DEF SeqNum, Low, High, Uint16

-----------------------------------------------------------------------------
\* Sequences of cells.

\* A byte of ack bits follows what was written, or is left out.
LEMMA Appended ==
  ASSUME NEW h \in Seq(Cell), NEW byte \in SUBSET FullByte
  PROVE  /\ h \o Group(byte) \in Seq(Cell)
         /\ Len(h \o Group(byte)) = Len(h) + (IF byte = FullByte THEN 0 ELSE 1)
         /\ \A i \in 1 .. Len(h) : (h \o Group(byte))[i] = h[i]
         /\ byte # FullByte => (h \o Group(byte))[Len(h) + 1] = byte
<1>1. CASE byte = FullByte
  BY <1>1, ConcatEmptySeq DEF Group
<1>2. CASE byte # FullByte
  <2>1. /\ Group(byte) = <<byte>> /\ <<byte>> \in Seq(Cell)
        /\ Len(<<byte>>) = 1 /\ <<byte>>[1] = byte
    BY <1>2 DEF Group, Cell
  <2>2. Len(h) \in Nat
    OBVIOUS
  <2> QED BY <1>2, <2>1, <2>2, ConcatProperties
<1> QED BY <1>1, <1>2

\* Each cell of a concatenation is a cell of one of the two.
LEMMA Concatenated ==
  ASSUME NEW s \in Seq(Cell), NEW t \in Seq(Cell)
  PROVE  /\ s \o t \in Seq(Cell)
         /\ Len(s \o t) = Len(s) + Len(t)
         /\ \A i \in 1 .. Len(s) : (s \o t)[i] = s[i]
         /\ \A i \in 1 .. Len(t) : (s \o t)[Len(s) + i] = t[i]
<1>1. Len(s) \in Nat /\ Len(t) \in Nat
  OBVIOUS
<1> QED BY <1>1, ConcatProperties

\* A cell, two cells and some more.
LEMMA Triple ==
  ASSUME NEW a \in Cell, NEW b \in Cell, NEW c \in Cell, NEW t \in Seq(Cell),
         NEW h, h = <<a>> \o <<b, c>> \o t
  PROVE  /\ h \in Seq(Cell) /\ Len(h) = 3 + Len(t)
         /\ h[1] = a /\ h[2] = b /\ h[3] = c
         /\ \A i \in 1 .. Len(t) : h[3 + i] = t[i]
<1>1. <<a>> \in Seq(Cell) /\ Len(<<a>>) = 1 /\ <<a>>[1] = a
  OBVIOUS
<1>2. <<b, c>> \in Seq(Cell) /\ Len(<<b, c>>) = 2 /\ <<b, c>>[1] = b /\ <<b, c>>[2] = c
  OBVIOUS
<1>3. PICK s : s = <<a>> \o <<b, c>>
  OBVIOUS
<1>4. /\ s \in Seq(Cell) /\ Len(s) = 3
      /\ s[1] = a /\ s[1 + 1] = b /\ s[1 + 2] = c
  <2>1. /\ s \in Seq(Cell) /\ Len(s) = 1 + 2
        /\ \A i \in 1 .. 1 : s[i] = <<a>>[i]
        /\ \A i \in 1 .. 2 : s[1 + i] = <<b, c>>[i]
    BY <1>1, <1>2, <1>3, Concatenated
  <2> QED BY <1>1, <1>2, <2>1
<1>5. h = s \o t
  BY <1>3
<1>6. /\ h \in Seq(Cell) /\ Len(h) = 3 + Len(t)
      /\ \A i \in 1 .. 3 : h[i] = s[i]
      /\ \A i \in 1 .. Len(t) : h[3 + i] = t[i]
  BY <1>4, <1>5, Concatenated
<1> QED BY <1>4, <1>6

\* The header up to the ack bits.
Head0(sequence, ack, acks) ==
  <<Prefix(sequence, ack, acks)>> \o Uint16(sequence) \o AckField(sequence, ack)

\* Its cells: the bits, the two bytes of the sequence, and the distance of the
\* ack or its two bytes.
LEMMA Head0Cells ==
  ASSUME NEW sequence \in SeqNum, NEW ack \in SeqNum, NEW acks \in AckBytes,
         NEW h, h = Head0(sequence, ack, acks)
  PROVE  /\ h \in Seq(Cell)
         /\ h[1] = Prefix(sequence, ack, acks)
         /\ h[2] = Low(sequence) /\ h[3] = High(sequence)
         /\ Near(sequence, ack) =>
              Len(h) = 4 /\ h[4] = Distance(sequence, ack)
         /\ ~ Near(sequence, ack) =>
              Len(h) = 5 /\ h[4] = Low(ack) /\ h[5] = High(ack)
<1> DEFINE prefix == Prefix(sequence, ack, acks)
<1>1. prefix \in Cell
  BY DEF Cell, Prefix, NearBit
<1>2. /\ Low(sequence) \in Cell /\ High(sequence) \in Cell
      /\ Low(ack) \in Cell /\ High(ack) \in Cell
  BY Uint16ReadBack DEF Cell
<1>3. h = <<prefix>> \o <<Low(sequence), High(sequence)>> \o AckField(sequence, ack)
  BY Uint16ReadBack DEF Head0
<1>4. CASE Near(sequence, ack)
  <2>1. Distance(sequence, ack) \in SeqNum
    BY DistanceOf DEF Distance
  <2>2. Distance(sequence, ack) % ByteMod = Distance(sequence, ack)
    BY <1>4, <2>1, SmallMod, HeaderAssumption, Distance(sequence, ack) \in 0 .. ByteMod - 1
       DEF Near, SeqNum
  <2>3. Distance(sequence, ack) \in Cell
    BY <2>1 DEF Cell, SeqNum
  <2>4. AckField(sequence, ack) = <<Distance(sequence, ack)>>
    BY <1>4, <2>2 DEF AckField
  <2>5. /\ <<Distance(sequence, ack)>> \in Seq(Cell)
        /\ Len(<<Distance(sequence, ack)>>) = 1
        /\ <<Distance(sequence, ack)>>[1] = Distance(sequence, ack)
    BY <2>3
  <2> QED BY <1>1, <1>2, <1>3, <1>4, <2>4, <2>5, Triple, 3 + 1 = 4
<1>5. CASE ~ Near(sequence, ack)
  <2>1. AckField(sequence, ack) = <<Low(ack), High(ack)>>
    BY <1>5, Uint16ReadBack DEF AckField
  <2>2. /\ <<Low(ack), High(ack)>> \in Seq(Cell)
        /\ Len(<<Low(ack), High(ack)>>) = 2
        /\ <<Low(ack), High(ack)>>[1] = Low(ack)
        /\ <<Low(ack), High(ack)>>[2] = High(ack)
    BY <1>2
  <2> QED BY <1>1, <1>2, <1>3, <1>5, <2>1, <2>2, Triple, 3 + 1 = 4, 3 + 2 = 5
<1> QED BY <1>4, <1>5

-----------------------------------------------------------------------------
\* The whole header.

\* How many cells a byte of ack bits takes.
Taken(byte) == IF byte = FullByte THEN 0 ELSE 1

\* "t" begins with the cells of "h".
Begins(t, h) == \A i \in 1 .. Len(h) : t[i] = h[i]

\* The place behind the cells of "h".
After(h) == Len(h) + 1

\* A byte of ack bits follows what was written, or is left out.
Follows(g, h, byte) ==
  /\ g \in Seq(Cell) /\ Len(g) = Len(h) + Taken(byte)
  /\ Begins(g, h)
  /\ byte # FullByte => g[After(h)] = byte

\* So it is with what PacketHeader appends.
LEMMA GroupFollows ==
  ASSUME NEW h \in Seq(Cell), NEW byte \in SUBSET FullByte
  PROVE  Follows(h \o Group(byte), h, byte)
  BY Appended DEF Follows, After, Begins, Taken

\* The cells that were there stay where they are.
LEMMA FollowsKeeps ==
  ASSUME NEW h \in Seq(Cell), NEW g \in Seq(Cell), NEW t, NEW byte,
         Follows(g, h, byte), Begins(t, g)
  PROVE  /\ Begins(t, h)
         /\ byte # FullByte => t[After(h)] = byte
<1>1. Len(h) \in Nat /\ Len(g) \in Nat
  OBVIOUS
<1>2. Len(g) = Len(h) + Taken(byte) /\ Taken(byte) \in 0 .. 1
  BY DEF Follows, Taken
<1>3. Begins(t, h)
  BY <1>1, <1>2 DEF Follows, Begins
<1>4. ASSUME byte # FullByte PROVE t[After(h)] = byte
  <2>1. Taken(byte) = 1
    BY <1>4 DEF Taken
  <2>2. After(h) \in 1 .. Len(g)
    BY <1>1, <1>2, <2>1 DEF After
  <2>3. g[After(h)] = byte
    BY <1>4 DEF Follows
  <2> QED BY <2>2, <2>3 DEF Begins
<1> QED BY <1>3, <1>4

\* "data" is a packet behind its header.
Datagram(data, sequence, ack, acks, payload) ==
  data = PacketHeader(sequence, ack, acks) \o payload

\* The header is Head0 and the bytes of ack bits that are not left out; the
\* packet's own bytes follow.
LEMMA DatagramCells ==
  ASSUME NEW sequence \in SeqNum, NEW ack \in SeqNum, NEW acks \in AckBytes,
         NEW payload \in Seq(Nat),
         NEW data, Datagram(data, sequence, ack, acks, payload)
  PROVE  LET h0 == Head0(sequence, ack, acks)
             l1 == Len(h0) + Taken(acks[1])
             l2 == l1 + Taken(acks[2])
             l3 == l2 + Taken(acks[3])
             l4 == l3 + Taken(acks[4])
         IN  /\ Len(PacketHeader(sequence, ack, acks)) = l4
             /\ Len(data) = l4 + Len(payload)
             /\ Begins(data, h0)
             /\ acks[1] # FullByte => data[Len(h0) + 1] = acks[1]
             /\ acks[2] # FullByte => data[l1 + 1] = acks[2]
             /\ acks[3] # FullByte => data[l2 + 1] = acks[3]
             /\ acks[4] # FullByte => data[l3 + 1] = acks[4]
<1> DEFINE h0 == Head0(sequence, ack, acks)
           h1 == h0 \o Group(acks[1])
           h2 == h1 \o Group(acks[2])
           h3 == h2 \o Group(acks[3])
           h4 == h3 \o Group(acks[4])
<1>1. h4 = PacketHeader(sequence, ack, acks)
  BY DEF PacketHeader, Head0
<1>2. /\ acks[1] \in SUBSET FullByte /\ acks[2] \in SUBSET FullByte
      /\ acks[3] \in SUBSET FullByte /\ acks[4] \in SUBSET FullByte
  BY DEF AckBytes
<1>3. h0 \in Seq(Cell)
  BY Head0Cells
<1> HIDE DEF h0
<1>4. h1 \in Seq(Cell) /\ Follows(h1, h0, acks[1])
  BY <1>2, <1>3, GroupFollows DEF Follows
<1> HIDE DEF h1
<1>5. h2 \in Seq(Cell) /\ Follows(h2, h1, acks[2])
  BY <1>2, <1>4, GroupFollows DEF Follows
<1> HIDE DEF h2
<1>6. h3 \in Seq(Cell) /\ Follows(h3, h2, acks[3])
  BY <1>2, <1>5, GroupFollows DEF Follows
<1> HIDE DEF h3
<1>7. h4 \in Seq(Cell) /\ Follows(h4, h3, acks[4])
  BY <1>2, <1>6, GroupFollows DEF Follows
<1> HIDE DEF h4
<1>8. payload \in Seq(Cell)
  <2>1. Nat \subseteq Cell
    BY DEF Cell
  <2> QED BY <2>1, SeqMonotonic
<1>9. /\ data \in Seq(Cell)
      /\ Len(data) = Len(h4) + Len(payload)
      /\ Begins(data, h4)
  BY <1>1, <1>7, <1>8, Concatenated DEF Begins, Datagram
<1>10. /\ Begins(data, h3)
       /\ acks[4] # FullByte => data[After(h3)] = acks[4]
  BY <1>6, <1>7, <1>9, FollowsKeeps
<1>11. /\ Begins(data, h2)
       /\ acks[3] # FullByte => data[After(h2)] = acks[3]
  BY <1>5, <1>6, <1>9, <1>10, FollowsKeeps
<1>12. /\ Begins(data, h1)
       /\ acks[2] # FullByte => data[After(h1)] = acks[2]
  BY <1>4, <1>5, <1>9, <1>11, FollowsKeeps
<1>13. /\ Begins(data, h0)
       /\ acks[1] # FullByte => data[After(h0)] = acks[1]
  BY <1>3, <1>4, <1>9, <1>12, FollowsKeeps
<1>14. /\ Len(h1) = Len(h0) + Taken(acks[1]) /\ Len(h2) = Len(h1) + Taken(acks[2])
       /\ Len(h3) = Len(h2) + Taken(acks[3]) /\ Len(h4) = Len(h3) + Taken(acks[4])
  BY <1>4, <1>5, <1>6, <1>7 DEF Follows
<1> QED BY <1>1, <1>9, <1>10, <1>11, <1>12, <1>13, <1>14 DEF h0, After

\* What the peer reads of a packet is the sequence, the ack and the ack bits it
\* was sent with, and the length of the header before the packet's own bytes, for
\* as many bytes as are there or more
\* (reliable_write_packet_header, reliable_read_packet_header).
THEOREM HeaderRoundTrip ==
  ASSUME NEW sequence \in SeqNum, NEW ack \in SeqNum, NEW acks \in AckBytes,
         NEW payload \in Seq(Nat),
         NEW data, Datagram(data, sequence, ack, acks, payload),
         NEW bytes \in Nat, bytes >= Len(data)
  PROVE  ReadPacketHeader(data, bytes) =
           [refused  |-> FALSE, sequence |-> sequence, ack |-> ack, acks |-> acks,
            bytes    |-> Len(PacketHeader(sequence, ack, acks))]
<1> DEFINE h0 == Head0(sequence, ack, acks)
           l0 == Len(h0)
           l1 == l0 + Taken(acks[1])
           l2 == l1 + Taken(acks[2])
           l3 == l2 + Taken(acks[3])
           l4 == l3 + Taken(acks[4])
<1>1. /\ h0[1] = Prefix(sequence, ack, acks)
      /\ h0[2] = Low(sequence) /\ h0[3] = High(sequence)
      /\ Near(sequence, ack) => l0 = 4 /\ h0[4] = Distance(sequence, ack)
      /\ ~ Near(sequence, ack) => l0 = 5 /\ h0[4] = Low(ack) /\ h0[5] = High(ack)
  BY Head0Cells
<1>2. /\ Len(PacketHeader(sequence, ack, acks)) = l4
      /\ Len(data) = l4 + Len(payload)
      /\ Begins(data, h0)
      /\ acks[1] # FullByte => data[l0 + 1] = acks[1]
      /\ acks[2] # FullByte => data[l1 + 1] = acks[2]
      /\ acks[3] # FullByte => data[l2 + 1] = acks[3]
      /\ acks[4] # FullByte => data[l3 + 1] = acks[4]
  BY DatagramCells
<1> HIDE DEF h0
<1>3. l0 \in {4, 5}
  BY <1>1
<1>4. \A i \in 1 .. l0 : data[i] = h0[i]
  BY <1>2 DEF Begins
<1> HIDE DEF l0
<1>5. /\ data[1] = h0[1] /\ data[2] = h0[2] /\ data[3] = h0[3] /\ data[4] = h0[4]
      /\ l0 = 5 => data[5] = h0[5]
  BY <1>3, <1>4
<1>6. /\ FragmentBit \notin data[1]
      /\ NearBit \in data[1] <=> Near(sequence, ack)
      /\ \A g \in 1 .. 4 : g \in data[1] <=> acks[g] # FullByte
  BY <1>1, <1>5 DEF Prefix, FragmentBit, NearBit
<1>7. HeadBytes(data) = l0
  BY <1>1, <1>6 DEF HeadBytes
<1>8. \A g \in 1 .. 4 : Flag(data, g) = Taken(acks[g])
  BY <1>6 DEF Flag, Taken
<1>9. Place(data) = <<l0 + 1, l1 + 1, l2 + 1, l3 + 1, l4 + 1>>
  <2>1. /\ Flag(data, 1) = Taken(acks[1]) /\ Flag(data, 2) = Taken(acks[2])
        /\ Flag(data, 3) = Taken(acks[3]) /\ Flag(data, 4) = Taken(acks[4])
    BY <1>8
  <2>2. /\ Taken(acks[1]) \in Int /\ Taken(acks[2]) \in Int
        /\ Taken(acks[3]) \in Int /\ Taken(acks[4]) \in Int
    BY DEF Taken
  <2>3. \A x \in Int, t \in Int : x + 1 + t = x + t + 1
    OBVIOUS
  <2>4. l0 \in Int /\ l1 \in Int /\ l2 \in Int /\ l3 \in Int
    BY <1>3, <2>2
  <2>5. /\ l0 + 1 + Taken(acks[1]) = l1 + 1 /\ l1 + 1 + Taken(acks[2]) = l2 + 1
        /\ l2 + 1 + Taken(acks[3]) = l3 + 1 /\ l3 + 1 + Taken(acks[4]) = l4 + 1
    BY <2>2, <2>3, <2>4
  <2> HIDE DEF l1, l2, l3, l4
  <2> QED BY <1>7, <2>1, <2>5 DEF Place
<1>10. l4 \in Nat /\ l4 >= l0
  BY <1>3 DEF Taken
<1> HIDE DEF l1, l2, l3, l4
<1>11. /\ Place(data)[1] = l0 + 1 /\ Place(data)[2] = l1 + 1 /\ Place(data)[3] = l2 + 1
       /\ Place(data)[4] = l3 + 1 /\ Place(data)[5] = l4 + 1
  BY <1>9
<1>12. Place(data)[5] - 1 = l4
  BY <1>10, <1>11
<1>13. [g \in 1 .. 4 |-> ReadAckByte(data, g)] = acks
  <2>1. ReadAckByte(data, 1) = acks[1]
    BY <1>2, <1>6, <1>11 DEF ReadAckByte
  <2>2. ReadAckByte(data, 2) = acks[2]
    BY <1>2, <1>6, <1>11 DEF ReadAckByte
  <2>3. ReadAckByte(data, 3) = acks[3]
    BY <1>2, <1>6, <1>11 DEF ReadAckByte
  <2>4. ReadAckByte(data, 4) = acks[4]
    BY <1>2, <1>6, <1>11 DEF ReadAckByte
  <2>5. \A g \in 1 .. 4 : ReadAckByte(data, g) = acks[g]
    BY <2>1, <2>2, <2>3, <2>4
  <2>6. acks = [g \in 1 .. 4 |-> acks[g]]
    BY DEF AckBytes
  <2> QED BY <2>5, <2>6
<1>14. ReadUint16(data, 2) = sequence
  <2>1. data[2] = Low(sequence) /\ data[2 + 1] = High(sequence)
    BY <1>1, <1>5
  <2> QED BY <2>1, Uint16ReadBack DEF ReadUint16
<1>15. (IF NearBit \in data[1] THEN Wrap(sequence - data[4]) ELSE ReadUint16(data, 4)) = ack
  <2>1. CASE Near(sequence, ack)
    BY <1>1, <1>5, <1>6, <2>1, AckFromDistance
  <2>2. CASE ~ Near(sequence, ack)
    <3>1. data[4] = Low(ack) /\ data[4 + 1] = High(ack)
      BY <1>1, <1>5, <2>2
    <3>2. ReadUint16(data, 4) = ack
      BY <3>1, Uint16ReadBack DEF ReadUint16
    <3> QED BY <1>6, <2>2, <3>2
  <2> QED BY <2>1, <2>2
<1>16. ~ (\/ bytes < 3 \/ FragmentBit \in data[1]
          \/ bytes < HeadBytes(data) \/ bytes < Place(data)[5] - 1)
  <2>1. Len(payload) \in Nat
    OBVIOUS
  <2> QED BY <1>2, <1>3, <1>6, <1>7, <1>10, <1>12, <2>1
<1> QED BY <1>2, <1>12, <1>13, <1>14, <1>15, <1>16 DEF ReadPacketHeader

-----------------------------------------------------------------------------
(* The fragments of a packet.                                              *)

\* Where byte i of "length" bytes is: its fragment and its place there.
LEMMA FragmentOfByte ==
  ASSUME NEW length \in Nat \ {0}, NEW count,
         count = length \div FragmentSize + (IF length % FragmentSize # 0 THEN 1 ELSE 0)
  PROVE  /\ count \in Nat /\ count >= 1
         /\ (count - 1) * FragmentSize < length /\ length <= count * FragmentSize
         /\ \A i \in 1 .. length :
              /\ (i - 1) \div FragmentSize \in 0 .. count - 1
              /\ (i - 1) % FragmentSize \in 0 .. FragmentSize - 1
              /\ ((i - 1) \div FragmentSize) * FragmentSize + ((i - 1) % FragmentSize) = i - 1
<1>1. FragmentSize \in Nat /\ FragmentSize > 0
  BY HeaderAssumption
<1>2. \A n \in Nat : /\ n \div FragmentSize \in Nat
                     /\ n % FragmentSize \in 0 .. FragmentSize - 1
                     /\ (n \div FragmentSize) * FragmentSize + (n % FragmentSize) = n
  BY <1>1
<1>3. /\ count \in Nat /\ count >= 1
      /\ (count - 1) * FragmentSize < length /\ length <= count * FragmentSize
  <2> DEFINE q == length \div FragmentSize
             r == length % FragmentSize
  <2>1. q \in Nat /\ r \in 0 .. FragmentSize - 1 /\ q * FragmentSize + r = length
    BY <1>2
  <2>2. count = q + (IF r # 0 THEN 1 ELSE 0)
    OBVIOUS
  <2> HIDE DEF q, r
  <2>3. CASE r # 0
    <3>1. count = q + 1 /\ count - 1 = q
      BY <2>1, <2>2, <2>3
    <3>2. (q + 1) * FragmentSize = q * FragmentSize + FragmentSize
      BY <1>1, <2>1
    <3>3. q * FragmentSize \in Nat
      BY <1>1, <2>1
    <3> QED BY <1>1, <2>1, <2>3, <3>1, <3>2, <3>3
  <2>4. CASE r = 0
    <3>1. count = q /\ q # 0
      BY <1>1, <2>1, <2>2, <2>4
    <3>2. (q - 1) * FragmentSize = q * FragmentSize - FragmentSize
      BY <1>1, <2>1
    <3>3. q * FragmentSize \in Nat
      BY <1>1, <2>1
    <3> QED BY <1>1, <2>1, <2>4, <3>1, <3>2, <3>3
  <2> QED BY <2>3, <2>4
<1>4. ASSUME NEW i \in 1 .. length
      PROVE  /\ (i - 1) \div FragmentSize \in 0 .. count - 1
             /\ (i - 1) % FragmentSize \in 0 .. FragmentSize - 1
             /\ ((i - 1) \div FragmentSize) * FragmentSize + ((i - 1) % FragmentSize) = i - 1
  <2> DEFINE q == (i - 1) \div FragmentSize
             r == (i - 1) % FragmentSize
  <2>1. q \in Nat /\ r \in 0 .. FragmentSize - 1 /\ q * FragmentSize + r = i - 1
    BY <1>2, i - 1 \in Nat
  <2>2. q <= count - 1
    <3> SUFFICES ASSUME q >= count PROVE FALSE
      BY <1>3, <2>1
    <3>1. q * FragmentSize >= count * FragmentSize
      <4> HIDE DEF q
      <4> QED BY <1>1, <1>3, <2>1
    <3>2. q * FragmentSize \in Nat /\ count * FragmentSize \in Nat
      <4> HIDE DEF q
      <4> QED BY <1>1, <1>3, <2>1
    <3> HIDE DEF q, r
    <3> QED BY <1>3, <2>1, <3>1, <3>2
  <2> QED BY <1>3, <2>1, <2>2
<1> QED BY <1>3, <1>4

\* The bytes of a packet in its fragment "id".
LEMMA PieceBytes ==
  ASSUME NEW payload \in Seq(Nat), Len(payload) > 0,
         NEW id \in 0 .. FragmentCount(payload) - 1
  PROVE  /\ Piece(payload, id) \in Seq(Nat)
         /\ Len(Piece(payload, id)) \in 1 .. FragmentSize
         /\ id < FragmentCount(payload) - 1 => Len(Piece(payload, id)) = FragmentSize
         /\ id = FragmentCount(payload) - 1 =>
              id * FragmentSize + Len(Piece(payload, id)) = Len(payload)
         /\ \A r \in 1 .. Len(Piece(payload, id)) :
              Piece(payload, id)[r] = payload[id * FragmentSize + r]
<1> DEFINE F == FragmentSize
           L == Len(payload)
           count == FragmentCount(payload)
           first == id * F
           end == (id + 1) * F
           last == IF end > L THEN L ELSE end
           piece == Piece(payload, id)
<1>1. F \in Nat /\ F > 0 /\ L \in Nat /\ L > 0
  BY HeaderAssumption
<1>2. count \in Nat /\ count >= 1 /\ (count - 1) * F < L /\ L <= count * F
  <2>1. \A n \in Nat \ {0} : \A k :
          k = n \div FragmentSize + (IF n % FragmentSize # 0 THEN 1 ELSE 0)
          => /\ k \in Nat /\ k >= 1
             /\ (k - 1) * FragmentSize < n /\ n <= k * FragmentSize
    BY FragmentOfByte
  <2>2. /\ L \in Nat \ {0}
        /\ count = L \div FragmentSize + (IF L % FragmentSize # 0 THEN 1 ELSE 0)
    BY <1>1 DEF FragmentCount
  <2> HIDE DEF L, count
  <2> QED BY <2>1, <2>2
<1>3. piece = SubSeq(payload, first + 1, last)
  BY DEF Piece
<1> HIDE DEF L, count, piece
<1>4. first \in Nat /\ end = first + F /\ id \in Nat
  BY <1>1, <1>2 DEF count
<1>5. id \in 0 .. count - 1
  BY DEF count
<1>6. first <= (count - 1) * F
  BY <1>1, <1>2, <1>5
<1>7. id < count - 1 => end <= (count - 1) * F
  BY <1>1, <1>2, <1>5
<1>8. (count - 1) * F \in Nat /\ count * F = (count - 1) * F + F
  BY <1>1, <1>2
<1> DEFINE c == (count - 1) * F
<1>9. first < L /\ (id < count - 1 => end < L) /\ (id = count - 1 => first = c /\ L <= c + F)
  <2>1. id = count - 1 => first = c
    OBVIOUS
  <2>2. c \in Nat /\ first <= c /\ c < L /\ L <= c + F /\ (id < count - 1 => end <= c)
    BY <1>2, <1>6, <1>7, <1>8
  <2> HIDE DEF c, first, end, F
  <2> QED BY <1>1, <1>4, <2>1, <2>2
<1> HIDE DEF first, end, c
<1>10. /\ last \in Nat /\ last <= L /\ last > first /\ last <= first + F
       /\ id < count - 1 => last = first + F
       /\ id = count - 1 => last = L
  BY <1>1, <1>4, <1>8, <1>9 DEF c
<1> HIDE DEF last, F
<1>11. /\ piece \in Seq(Nat) /\ Len(piece) = last - first
       /\ \A r \in 1 .. last - first : piece[r] = payload[first + r]
  <2>1. /\ first + 1 \in 1 .. L + 1 /\ last \in first .. L
    BY <1>1, <1>4, <1>10
  <2>2. /\ piece \in Seq(Nat)
        /\ Len(piece) = IF first + 1 <= last THEN last - (first + 1) + 1 ELSE 0
        /\ \A r \in 1 .. last - (first + 1) + 1 : piece[r] = payload[first + 1 + r - 1]
    <3>1. \A r \in first + 1 .. last : payload[r] \in Nat
      BY <2>1, <1>4, <1>10 DEF L
    <3> QED BY <1>3, <1>4, <1>10, <3>1, SubSeqProperties
  <2>3. last - (first + 1) + 1 = last - first /\ first + 1 <= last
    BY <1>4, <1>10
  <2>4. \A r \in 1 .. last - first : first + 1 + r - 1 = first + r
    BY <1>4, <1>10
  <2> QED BY <2>2, <2>3, <2>4
<1>12. Len(piece) \in 1 .. F
  BY <1>1, <1>4, <1>10, <1>11
<1>13. id < count - 1 => Len(piece) = F
  BY <1>1, <1>4, <1>10, <1>11
<1>14. id = count - 1 => first + Len(piece) = L
  BY <1>1, <1>4, <1>10, <1>11
<1> QED BY <1>11, <1>12, <1>13, <1>14 DEF piece, count, first, F, L

\* The header a first fragment carries, in front of its piece of the packet.
Carried(id, sequence, ack, acks, payload) ==
  (IF id = 0 THEN PacketHeader(sequence, ack, acks) ELSE <<>>) \o Piece(payload, id)

\* "data" is fragment "id" of a packet.
Fragment(data, id, sequence, ack, acks, payload) ==
  data = <<{FragmentBit}>> \o Uint16(sequence) \o <<id, FragmentCount(payload) - 1>>
           \o (IF id = 0 THEN PacketHeader(sequence, ack, acks) ELSE <<>>)
           \o Piece(payload, id)

\* The header of a packet is made of cells.
LEMMA HeaderCells ==
  ASSUME NEW sequence \in SeqNum, NEW ack \in SeqNum, NEW acks \in AckBytes
  PROVE  PacketHeader(sequence, ack, acks) \in Seq(Cell)
<1> DEFINE h0 == Head0(sequence, ack, acks)
<1>1. h0 \in Seq(Cell)
  BY Head0Cells
<1>2. /\ acks[1] \in SUBSET FullByte /\ acks[2] \in SUBSET FullByte
      /\ acks[3] \in SUBSET FullByte /\ acks[4] \in SUBSET FullByte
  BY DEF AckBytes
<1>3. PacketHeader(sequence, ack, acks)
        = h0 \o Group(acks[1]) \o Group(acks[2]) \o Group(acks[3]) \o Group(acks[4])
  BY DEF PacketHeader, Head0
<1>4. \A h \in Seq(Cell), byte \in SUBSET FullByte : h \o Group(byte) \in Seq(Cell)
  BY Appended
<1> HIDE DEF h0
<1> QED BY <1>1, <1>2, <1>3, <1>4

\* The cells of a fragment: its bits, the sequence, its number, how many follow
\* the first one, and what it carries.
LEMMA FragmentCells ==
  ASSUME NEW sequence \in SeqNum, NEW ack \in SeqNum, NEW acks \in AckBytes,
         NEW payload \in Seq(Nat), Len(payload) > 0,
         NEW id \in 0 .. FragmentCount(payload) - 1,
         NEW data, Fragment(data, id, sequence, ack, acks, payload)
  PROVE  /\ Carried(id, sequence, ack, acks, payload) \in Seq(Cell)
         /\ Len(data) = 5 + Len(Carried(id, sequence, ack, acks, payload))
         /\ data[1] = {FragmentBit}
         /\ data[2] = Low(sequence) /\ data[3] = High(sequence)
         /\ data[4] = id /\ data[5] = FragmentCount(payload) - 1
         /\ \A i \in 1 .. Len(Carried(id, sequence, ack, acks, payload)) :
              data[5 + i] = Carried(id, sequence, ack, acks, payload)[i]
<1> DEFINE count == FragmentCount(payload)
           a == <<{FragmentBit}>>
           b == <<Low(sequence), High(sequence)>>
           c == <<id, count - 1>>
           h == IF id = 0 THEN PacketHeader(sequence, ack, acks) ELSE <<>>
           p == Piece(payload, id)
<1>1. data = a \o b \o c \o h \o p
  BY Uint16ReadBack DEF Fragment
<1>2. Carried(id, sequence, ack, acks, payload) = h \o p
  BY DEF Carried
<1>3. id \in Nat /\ count - 1 \in Nat
  <2>1. FragmentCount(payload) \in Int
    BY HeaderAssumption DEF FragmentCount
  <2> QED BY <2>1
<1>4. a \in Seq(Cell) /\ Len(a) = 1 /\ a[1] = {FragmentBit}
  BY DEF Cell, FragmentBit
<1>5. /\ b \in Seq(Cell) /\ Len(b) = 2 /\ b[1] = Low(sequence) /\ b[2] = High(sequence)
  BY Uint16ReadBack DEF Cell
<1>6. /\ c \in Seq(Cell) /\ Len(c) = 2 /\ c[1] = id /\ c[2] = count - 1
  <2> HIDE DEF count
  <2> QED BY <1>3 DEF Cell
<1>7. h \in Seq(Cell)
  BY HeaderCells
<1>8. p \in Seq(Cell)
  <2>1. p \in Seq(Nat)
    BY PieceBytes
  <2>2. Nat \subseteq Cell
    BY DEF Cell
  <2> QED BY <2>1, <2>2, SeqMonotonic
<1> HIDE DEF a, b, c, h, p, count
<1>0. \A s \in Seq(Cell), t \in Seq(Cell) :
        /\ s \o t \in Seq(Cell)
        /\ Len(s \o t) = Len(s) + Len(t)
        /\ \A i \in 1 .. Len(s) : (s \o t)[i] = s[i]
        /\ \A i \in 1 .. Len(t) : (s \o t)[Len(s) + i] = t[i]
  BY Concatenated
<1> DEFINE ab == a \o b
           abc == ab \o c
           abch == abc \o h
           hp == h \o p
<1>9. /\ ab \in Seq(Cell) /\ Len(ab) = 3
      /\ ab[1] = {FragmentBit} /\ ab[2] = Low(sequence) /\ ab[3] = High(sequence)
  <2>1. /\ ab \in Seq(Cell) /\ Len(ab) = 1 + 2
        /\ \A i \in 1 .. 1 : ab[i] = a[i]
        /\ \A i \in 1 .. 2 : ab[1 + i] = b[i]
    <3>1. /\ ab \in Seq(Cell) /\ Len(ab) = Len(a) + Len(b)
          /\ \A i \in 1 .. Len(a) : ab[i] = a[i]
          /\ \A i \in 1 .. Len(b) : ab[Len(a) + i] = b[i]
      BY <1>0, <1>4, <1>5
    <3> HIDE DEF ab
    <3> QED BY <1>4, <1>5, <3>1
  <2>2. ab[1 + 1] = b[1] /\ ab[1 + 2] = b[2] /\ ab[1] = a[1]
    BY SMTT(30), <2>1
  <2> HIDE DEF ab
  <2> QED BY <1>4, <1>5, <2>1, <2>2, 1 + 1 = 2, 1 + 2 = 3
<1> HIDE DEF ab
<1>10. /\ abc \in Seq(Cell) /\ Len(abc) = 5
       /\ abc[1] = {FragmentBit} /\ abc[2] = Low(sequence) /\ abc[3] = High(sequence)
       /\ abc[4] = id /\ abc[5] = count - 1
  <2>1. /\ abc \in Seq(Cell) /\ Len(abc) = 3 + 2
        /\ \A i \in 1 .. 3 : abc[i] = ab[i]
        /\ \A i \in 1 .. 2 : abc[3 + i] = c[i]
    <3>1. /\ abc \in Seq(Cell) /\ Len(abc) = Len(ab) + Len(c)
          /\ \A i \in 1 .. Len(ab) : abc[i] = ab[i]
          /\ \A i \in 1 .. Len(c) : abc[Len(ab) + i] = c[i]
      BY <1>0, <1>6, <1>9
    <3> HIDE DEF abc
    <3> QED BY <1>6, <1>9, <3>1
  <2>2. abc[3 + 1] = c[1] /\ abc[3 + 2] = c[2]
    BY SMTT(30), <2>1
  <2>3. abc[1] = ab[1] /\ abc[2] = ab[2] /\ abc[3] = ab[3]
    BY SMTT(30), <2>1
  <2> HIDE DEF abc
  <2> QED BY <1>6, <1>9, <2>1, <2>2, <2>3, 3 + 1 = 4, 3 + 2 = 5
<1> HIDE DEF abc
<1>11. /\ abch \in Seq(Cell) /\ Len(abch) = 5 + Len(h)
       /\ \A i \in 1 .. 5 : abch[i] = abc[i]
       /\ \A i \in 1 .. Len(h) : abch[5 + i] = h[i]
  <2>1. /\ abch \in Seq(Cell) /\ Len(abch) = Len(abc) + Len(h)
        /\ \A i \in 1 .. Len(abc) : abch[i] = abc[i]
        /\ \A i \in 1 .. Len(h) : abch[Len(abc) + i] = h[i]
    BY <1>0, <1>7, <1>10
  <2> HIDE DEF abch
  <2> QED BY <1>7, <1>10, <2>1
<1> HIDE DEF abch
<1>12. /\ hp \in Seq(Cell) /\ Len(hp) = Len(h) + Len(p)
       /\ \A i \in 1 .. Len(h) : hp[i] = h[i]
       /\ \A i \in 1 .. Len(p) : hp[Len(h) + i] = p[i]
  BY <1>7, <1>8, <1>0
<1> HIDE DEF hp
<1>13. data = abch \o p
  BY <1>1 DEF abch, abc, ab
<1>14. /\ Len(data) = 5 + Len(h) + Len(p)
       /\ \A i \in 1 .. 5 + Len(h) : data[i] = abch[i]
       /\ \A i \in 1 .. Len(p) : data[5 + Len(h) + i] = p[i]
  <2>1. /\ Len(abch \o p) = Len(abch) + Len(p)
        /\ \A i \in 1 .. Len(abch) : (abch \o p)[i] = abch[i]
        /\ \A i \in 1 .. Len(p) : (abch \o p)[Len(abch) + i] = p[i]
    BY <1>0, <1>8, <1>11
  <2> QED BY <1>11, <1>13, <2>1
<1>15. Len(h) \in Nat /\ Len(p) \in Nat
  BY <1>7, <1>8
<1>16. \A i \in 1 .. 5 : data[i] = abc[i]
  BY <1>11, <1>14, <1>15
<1>17. ASSUME NEW i \in 1 .. Len(hp) PROVE data[5 + i] = hp[i]
  <2>1. CASE i <= Len(h)
    <3>1. data[5 + i] = abch[5 + i]
      BY <1>14, <1>15, <2>1
    <3> QED BY <1>11, <1>12, <1>15, <2>1, <3>1
  <2>2. CASE i > Len(h)
    <3>1. i - Len(h) \in 1 .. Len(p) /\ Len(h) + (i - Len(h)) = i
          /\ 5 + Len(h) + (i - Len(h)) = 5 + i
      BY <1>12, <1>15, <2>2
    <3> QED BY <1>12, <1>14, <3>1
  <2> QED BY <1>12, <1>15, <2>1, <2>2
<1>18. Len(data) = 5 + Len(hp)
  BY <1>12, <1>14, <1>15
<1>19. Carried(id, sequence, ack, acks, payload) = hp
  BY <1>2 DEF hp
<1> QED BY <1>10, <1>12, <1>16, <1>17, <1>18, <1>19 DEF count

\* What reliable_read_fragment_header makes of a fragment.
FragmentRead(id, sequence, ack, acks, payload) ==
  [refused |-> FALSE, sequence |-> sequence,
   id |-> id, count |-> FragmentCount(payload),
   ack  |-> IF id = 0 THEN ack ELSE 0,
   acks |-> IF id = 0 THEN acks ELSE [g \in 1 .. 4 |-> {}]]

\* Behind the header of a fragment is what it carries.
LEMMA FragmentContents ==
  ASSUME NEW sequence \in SeqNum, NEW ack \in SeqNum, NEW acks \in AckBytes,
         NEW payload \in Seq(Nat), Len(payload) > 0,
         NEW id \in 0 .. FragmentCount(payload) - 1,
         NEW data, Fragment(data, id, sequence, ack, acks, payload)
  PROVE  Unfragmented(data) = Carried(id, sequence, ack, acks, payload)
<1> DEFINE w == Carried(id, sequence, ack, acks, payload)
<1>1. /\ w \in Seq(Cell) /\ Len(data) = 5 + Len(w)
      /\ \A i \in 1 .. Len(w) : data[5 + i] = w[i]
  BY FragmentCells
<1>2. Unfragmented(data) = SubSeq(data, 6, Len(data))
  BY DEF Unfragmented, FragmentHeaderBytes
<1> HIDE DEF w
<1>3. Len(w) \in Nat /\ \A i \in 1 .. Len(w) : w[i] \in Cell
  BY <1>1
<1>4. \A i \in 6 .. Len(data) : data[i] \in Cell
  <2> SUFFICES ASSUME NEW i \in 6 .. Len(data) PROVE data[i] \in Cell
    OBVIOUS
  <2>1. i - 5 \in 1 .. Len(w) /\ 5 + (i - 5) = i
    BY <1>1, <1>3
  <2> QED BY <1>1, <1>3, <2>1
<1> DEFINE u == SubSeq(data, 6, Len(data))
<1>5. /\ u \in Seq(Cell)
      /\ Len(u) = (IF 6 <= Len(data) THEN Len(data) - 6 + 1 ELSE 0)
      /\ \A i \in 1 .. Len(data) - 6 + 1 : u[i] = data[6 + i - 1]
  <2>1. Len(data) \in Int
    BY <1>1, <1>3
  <2> QED BY <1>4, <2>1, SubSeqProperties
<1> HIDE DEF u
<1>6. Len(u) = Len(w)
  BY <1>1, <1>3, <1>5
<1>7. \A i \in 1 .. Len(w) : u[i] = w[i]
  <2> SUFFICES ASSUME NEW i \in 1 .. Len(w) PROVE u[i] = w[i]
    OBVIOUS
  <2>1. i \in 1 .. Len(data) - 6 + 1 /\ 6 + i - 1 = 5 + i
    BY <1>1, <1>3
  <2> QED BY <1>1, <1>5, <2>1
<1>8. u = w
  BY <1>1, <1>5, <1>6, <1>7, SeqEqual
<1> QED BY <1>2, <1>8 DEF u, w

\* The header nested in a fragment is the packet's own, in the first one, and
\* none in the others.
LEMMA NestedRead ==
  ASSUME NEW sequence \in SeqNum, NEW ack \in SeqNum, NEW acks \in AckBytes,
         NEW payload \in Seq(Nat), Len(payload) > 0,
         NEW id \in 0 .. FragmentCount(payload) - 1,
         NEW data, Fragment(data, id, sequence, ack, acks, payload)
  PROVE  NestedHeader(data) =
           [refused |-> FALSE, sequence |-> sequence,
            ack  |-> IF id = 0 THEN ack ELSE 0,
            acks |-> IF id = 0 THEN acks ELSE [g \in 1 .. 4 |-> {}],
            bytes |-> Len(Carried(id, sequence, ack, acks, payload)) - Len(Piece(payload, id))]
<1> DEFINE w == Carried(id, sequence, ack, acks, payload)
           p == Piece(payload, id)
<1>1. /\ w \in Seq(Cell) /\ Len(data) = 5 + Len(w)
      /\ data[2] = Low(sequence) /\ data[3] = High(sequence) /\ data[4] = id
  BY FragmentCells
<1>2. p \in Seq(Nat)
  BY PieceBytes
<1>3. CASE id = 0
  <2>1. w = PacketHeader(sequence, ack, acks) \o p
    BY <1>3 DEF Carried
  <2>2. Len(w) = Len(PacketHeader(sequence, ack, acks)) + Len(p)
    <3>1. p \in Seq(Cell)
      <4>1. Nat \subseteq Cell
        BY DEF Cell
      <4> QED BY <1>2, <4>1, SeqMonotonic
    <3> QED BY <2>1, <3>1, HeaderCells, Concatenated
  <2>3. NestedHeader(data) = ReadPacketHeader(w, Len(data))
    BY <1>1, <1>3, FragmentContents DEF NestedHeader
  <2>4. Len(data) \in Nat /\ Len(data) >= Len(w) /\ Len(w) \in Nat
    BY <1>1
  <2>5. ReadPacketHeader(w, Len(data)) =
           [refused  |-> FALSE, sequence |-> sequence, ack |-> ack, acks |-> acks,
            bytes    |-> Len(PacketHeader(sequence, ack, acks))]
    <3>1. Datagram(w, sequence, ack, acks, p)
      BY <2>1 DEF Datagram
    <3> HIDE DEF w, p
    <3> QED BY <1>2, <2>4, <3>1, HeaderRoundTrip
  <2>6. Len(PacketHeader(sequence, ack, acks)) = Len(w) - Len(p)
    <3>1. Len(PacketHeader(sequence, ack, acks)) \in Nat
      BY HeaderCells
    <3>2. Len(p) \in Nat
      BY <1>2
    <3> HIDE DEF w, p
    <3> QED BY <2>2, <3>1, <3>2
  <2> HIDE DEF w, p
  <2>7. NestedHeader(data) =
           [refused  |-> FALSE, sequence |-> sequence, ack |-> ack, acks |-> acks,
            bytes    |-> Len(w) - Len(p)]
    BY <2>3, <2>5, <2>6
  <2> QED BY <1>3, <2>7 DEF w, p
<1>4. CASE id # 0
  <2>1. w = <<>> \o p
    BY <1>4 DEF Carried
  <2>2. w = p
    BY <1>2, <2>1, ConcatEmptySeq
  <2>3. Len(w) - Len(p) = 0
    <3>1. Len(p) \in Nat
      BY <1>2
    <3> QED BY <2>2, <3>1
  <2>4. ReadUint16(data, 2) = sequence
    <3>1. data[2] = Low(sequence) /\ data[2 + 1] = High(sequence)
      BY <1>1
    <3> QED BY <3>1, Uint16ReadBack DEF ReadUint16
  <2>5. NestedHeader(data) =
          [refused |-> FALSE, sequence |-> sequence, bytes |-> 0,
           ack |-> 0, acks |-> [g \in 1 .. 4 |-> {}]]
    BY <1>1, <1>4, <2>4 DEF NestedHeader
  <2> HIDE DEF w, p
  <2> QED BY <1>4, <2>3, <2>5 DEF w, p
<1> QED BY <1>3, <1>4

\* A fragment is read as what it was written from.
LEMMA FragmentReadBack ==
  ASSUME NEW sequence \in SeqNum, NEW ack \in SeqNum, NEW acks \in AckBytes,
         NEW payload \in Seq(Nat), Len(payload) > 0,
         FragmentCount(payload) <= MaxFragments,
         NEW id \in 0 .. FragmentCount(payload) - 1,
         NEW data, Fragment(data, id, sequence, ack, acks, payload)
  PROVE  ReadFragment(data) = FragmentRead(id, sequence, ack, acks, payload)
<1> DEFINE w == Carried(id, sequence, ack, acks, payload)
           p == Piece(payload, id)
           count == FragmentCount(payload)
           nested == NestedHeader(data)
<1>1. /\ w \in Seq(Cell) /\ Len(data) = 5 + Len(w)
      /\ data[1] = {FragmentBit}
      /\ data[2] = Low(sequence) /\ data[3] = High(sequence)
      /\ data[4] = id /\ data[5] = count - 1
  BY SMTT(30), FragmentCells
<1>2. p \in Seq(Nat) /\ Len(p) \in 1 .. FragmentSize /\ (id < count - 1 => Len(p) = FragmentSize)
  BY PieceBytes
<1>3. /\ nested.refused = FALSE /\ nested.sequence = sequence
      /\ nested.bytes = Len(w) - Len(p)
      /\ nested.ack = IF id = 0 THEN ack ELSE 0
      /\ nested.acks = IF id = 0 THEN acks ELSE [g \in 1 .. 4 |-> {}]
  <2>1. nested =
          [refused |-> FALSE, sequence |-> sequence,
           ack  |-> IF id = 0 THEN ack ELSE 0,
           acks |-> IF id = 0 THEN acks ELSE [g \in 1 .. 4 |-> {}],
           bytes |-> Len(w) - Len(p)]
    BY NestedRead
  <2> HIDE DEF nested, w, p
  <2> QED BY <2>1
<1>4. ReadUint16(data, 2) = sequence
  <2>1. data[2] = Low(sequence) /\ data[2 + 1] = High(sequence)
    BY <1>1
  <2> QED BY <2>1, Uint16ReadBack DEF ReadUint16
<1>5. Len(w) \in Nat /\ Len(p) \in Nat /\ FragmentSize \in Nat /\ count \in Int
  BY SMTT(30), <1>1, <1>2, HeaderAssumption DEF FragmentCount
<1>6. MaxFragments \in Int /\ count <= MaxFragments
  BY HeaderAssumption
<1> HIDE DEF w, p, count, nested
<1>7. FragmentBytesOf(data) = Len(p)
  BY <1>1, <1>3, <1>5 DEF FragmentBytesOf, FragmentHeaderBytes, nested
<1>8. id \in 0 .. count - 1
  BY DEF count
<1>9. ~ (\/ Len(data) < FragmentHeaderBytes \/ data[1] # {FragmentBit}
         \/ data[5] + 1 > MaxFragments \/ data[4] > data[5]
         \/ NestedHeader(data).refused
         \/ NestedHeader(data).sequence # ReadUint16(data, 2)
         \/ FragmentBytesOf(data) > FragmentSize
         \/ data[4] # data[5] /\ FragmentBytesOf(data) # FragmentSize)
  <2>1. ~ (Len(data) < FragmentHeaderBytes)
    BY <1>1, <1>5 DEF FragmentHeaderBytes
  <2>2. ~ (data[5] + 1 > MaxFragments) /\ ~ (data[4] > data[5])
    BY <1>1, <1>5, <1>6, <1>8
  <2>3. ~ NestedHeader(data).refused /\ NestedHeader(data).sequence = ReadUint16(data, 2)
    BY <1>3, <1>4 DEF nested
  <2>4. ~ (FragmentBytesOf(data) > FragmentSize)
    BY <1>2, <1>5, <1>7
  <2>5. data[4] # data[5] => FragmentBytesOf(data) = FragmentSize
    BY <1>1, <1>2, <1>5, <1>7, <1>8
  <2> QED BY <1>1, <2>1, <2>2, <2>3, <2>4, <2>5
<1>10. data[5] + 1 = count
  BY <1>1, <1>5
<1> QED BY <1>1, <1>3, <1>4, <1>9, <1>10 DEF ReadFragment, FragmentRead, nested, count

\* The bytes kept of a fragment are its piece of the packet, and the header
\* written anew is the packet's own; the fragment says how many follow the first.
LEMMA FragmentStored ==
  ASSUME NEW sequence \in SeqNum, NEW ack \in SeqNum, NEW acks \in AckBytes,
         NEW payload \in Seq(Nat), Len(payload) > 0,
         FragmentCount(payload) <= MaxFragments,
         NEW id \in 0 .. FragmentCount(payload) - 1,
         NEW data, Fragment(data, id, sequence, ack, acks, payload)
  PROVE  /\ id = 0 => RewrittenHeader(data) = PacketHeader(sequence, ack, acks)
         /\ StoredBytes(data) = Piece(payload, id)
         /\ data[5] = FragmentCount(payload) - 1
<1> DEFINE w == Carried(id, sequence, ack, acks, payload)
           p == Piece(payload, id)
           h == IF id = 0 THEN PacketHeader(sequence, ack, acks) ELSE <<>>
<1>1. /\ w \in Seq(Cell) /\ Len(data) = 5 + Len(w)
      /\ data[4] = id /\ data[5] = FragmentCount(payload) - 1
      /\ \A i \in 1 .. Len(w) : data[5 + i] = w[i]
  BY FragmentCells
<1>2. p \in Seq(Nat) /\ p \in Seq(Cell)
  <2>1. p \in Seq(Nat)
    BY PieceBytes
  <2>2. Nat \subseteq Cell
    BY DEF Cell
  <2> QED BY <2>1, <2>2, SeqMonotonic
<1>3. h \in Seq(Cell)
  BY HeaderCells
<1>4. /\ Len(w) = Len(h) + Len(p)
      /\ \A i \in 1 .. Len(p) : w[Len(h) + i] = p[i]
  <2>1. w = h \o p
    BY DEF Carried
  <2> HIDE DEF h, p, w
  <2> QED BY <1>2, <1>3, <2>1, Concatenated
<1>5. id = 0 => RewrittenHeader(data) = PacketHeader(sequence, ack, acks)
  BY FragmentReadBack DEF RewrittenHeader, FragmentRead
<1>6. StoredBytes(data) = SubSeq(data, 5 + 1 + Len(h), Len(data))
  <2>1. (IF data[4] = 0 THEN Len(RewrittenHeader(data)) ELSE 0) = Len(h)
    BY <1>1, <1>5
  <2> HIDE DEF h
  <2> QED BY <2>1 DEF StoredBytes, FragmentHeaderBytes
<1> HIDE DEF h, p, w
<1>7. /\ Len(h) \in Nat /\ Len(p) \in Nat /\ Len(w) \in Nat
      /\ \A i \in 1 .. Len(p) : p[i] \in Nat
  BY SMTT(30), <1>1, <1>2, <1>3
<1>8. \A i \in 1 .. Len(p) : data[5 + 1 + Len(h) + i - 1] = p[i]
  <2> SUFFICES ASSUME NEW i \in 1 .. Len(p) PROVE data[5 + 1 + Len(h) + i - 1] = p[i]
    OBVIOUS
  <2>1. Len(h) + i \in 1 .. Len(w) /\ 5 + 1 + Len(h) + i - 1 = 5 + (Len(h) + i)
    BY <1>4, <1>7
  <2> QED BY <1>1, <1>4, <2>1
<1> DEFINE first == 5 + 1 + Len(h)
           u == SubSeq(data, first, Len(data))
<1>9. first \in Int /\ Len(data) \in Int /\ Len(data) - first + 1 = Len(p)
  BY <1>1, <1>4, <1>7
<1>10. \A i \in first .. Len(data) : data[i] \in Nat
  <2> SUFFICES ASSUME NEW i \in first .. Len(data) PROVE data[i] \in Nat
    OBVIOUS
  <2>1. i - first + 1 \in 1 .. Len(p) /\ first + (i - first + 1) - 1 = i
    BY <1>9
  <2> QED BY <1>7, <1>8, <2>1
<1>11. \A i \in 1 .. Len(p) : data[first + i - 1] = p[i]
  BY <1>8
<1> HIDE DEF first
<1>12. /\ u \in Seq(Nat)
       /\ Len(u) = IF first <= Len(data) THEN Len(data) - first + 1 ELSE 0
       /\ \A i \in 1 .. Len(data) - first + 1 : u[i] = data[first + i - 1]
  BY <1>9, <1>10, SubSeqProperties
<1> HIDE DEF u
<1>13. Len(u) = Len(p) /\ \A i \in 1 .. Len(p) : u[i] = p[i]
  BY <1>7, <1>9, <1>11, <1>12
<1>14. u = p
  BY <1>2, <1>12, <1>13, SeqEqual
<1> QED BY <1>1, <1>5, <1>6, <1>14 DEF u, first, p

\* A packet taken apart into fragments is put together as it would have been
\* sent whole, for every packet of as many fragments as there may be
\* (reliable_endpoint_send_packet, reliable_read_fragment_header,
\* reliable_store_fragment_data).
THEOREM FragmentRoundTrip ==
  ASSUME NEW sequence \in SeqNum, NEW ack \in SeqNum, NEW acks \in AckBytes,
         NEW payload \in Seq(Nat), Len(payload) > 0,
         FragmentCount(payload) <= MaxFragments,
         NEW datagrams, datagrams = FragmentsOf(sequence, ack, acks, payload)
  PROVE  /\ \A id \in 0 .. FragmentCount(payload) - 1 :
              ReadFragment(datagrams[id]) = FragmentRead(id, sequence, ack, acks, payload)
         /\ Reassembled(datagrams, FragmentCount(payload))
              = PacketHeader(sequence, ack, acks) \o payload
<1> DEFINE count == FragmentCount(payload)
<1>1. \A id \in 0 .. count - 1 : Fragment(datagrams[id], id, sequence, ack, acks, payload)
  BY DEF FragmentsOf, Fragment
<1>2. \A id \in 0 .. count - 1 :
        ReadFragment(datagrams[id]) = FragmentRead(id, sequence, ack, acks, payload)
  BY <1>1, FragmentReadBack
<1>3. \A id \in 0 .. count - 1 : StoredBytes(datagrams[id]) = Piece(payload, id)
  BY <1>1, FragmentStored
<1>4. /\ count \in Nat /\ count >= 1
      /\ \A i \in 1 .. Len(payload) :
           /\ (i - 1) \div FragmentSize \in 0 .. count - 1
           /\ (i - 1) % FragmentSize \in 0 .. FragmentSize - 1
           /\ ((i - 1) \div FragmentSize) * FragmentSize + ((i - 1) % FragmentSize) = i - 1
  <2>1. /\ Len(payload) \in Nat \ {0}
        /\ count = Len(payload) \div FragmentSize
                     + (IF Len(payload) % FragmentSize # 0 THEN 1 ELSE 0)
    BY DEF FragmentCount
  <2> HIDE DEF count
  <2> QED BY <2>1, FragmentOfByte
<1>5. 0 \in 0 .. count - 1 /\ count - 1 \in 0 .. count - 1
  <2> HIDE DEF count
  <2> QED BY <1>4
<1>6. RewrittenHeader(datagrams[0]) = PacketHeader(sequence, ack, acks)
  BY <1>1, <1>5, FragmentStored
<1>7. PacketBytes(datagrams[count - 1]) = Len(payload)
  <2>1. datagrams[count - 1][5] = count - 1
    BY <1>1, <1>5, FragmentStored
  <2>2. (count - 1) * FragmentSize + Len(Piece(payload, count - 1)) = Len(payload)
    BY <1>5, PieceBytes
  <2> HIDE DEF count
  <2> QED BY <1>3, <1>5, <2>1, <2>2 DEF PacketBytes
<1>8. ASSUME NEW i \in 1 .. Len(payload)
      PROVE  StoredBytes(datagrams[(i - 1) \div FragmentSize])[1 + ((i - 1) % FragmentSize)]
               = payload[i]
  <2> DEFINE id == (i - 1) \div FragmentSize
             r == (i - 1) % FragmentSize
             p == Piece(payload, id)
  <2>1. id \in 0 .. count - 1 /\ r \in 0 .. FragmentSize - 1 /\ id * FragmentSize + r = i - 1
    BY <1>4
  <2>2. StoredBytes(datagrams[id]) = p
    BY <1>3, <2>1
  <2> HIDE DEF id, r
  <2>3. /\ Len(p) \in 1 .. FragmentSize
        /\ id < count - 1 => Len(p) = FragmentSize
        /\ id = count - 1 => id * FragmentSize + Len(p) = Len(payload)
        /\ \A k \in 1 .. Len(p) : p[k] = payload[id * FragmentSize + k]
    BY <2>1, PieceBytes
  <2>4. id * FragmentSize \in Int /\ FragmentSize \in Nat
    <3>1. FragmentSize \in Nat /\ id \in Int
      BY <2>1, <1>4, HeaderAssumption
    <3> QED BY <3>1
  <2> DEFINE base == id * FragmentSize
  <2>5. 1 + r \in 1 .. Len(p) /\ base + (1 + r) = i
    <3>1. base \in Int /\ base + r = i - 1 /\ (id = count - 1 => base + Len(p) = Len(payload))
      BY <2>1, <2>3, <2>4
    <3> HIDE DEF base, p, count
    <3> QED BY <1>4, <2>1, <2>3, <2>4, <3>1
  <2>6. p[1 + r] = payload[base + (1 + r)]
    BY <2>3, <2>5
  <2>7. StoredBytes(datagrams[id])[1 + r] = payload[i]
    BY <2>2, <2>5, <2>6
  <2> QED BY <2>7 DEF id, r
<1>9. [i \in 1 .. PacketBytes(datagrams[count - 1]) |->
         StoredBytes(datagrams[(i - 1) \div FragmentSize])[1 + ((i - 1) % FragmentSize)]]
        = payload
  <2>1. payload = [i \in 1 .. Len(payload) |-> payload[i]]
    OBVIOUS
  <2> QED BY <1>7, <1>8, <2>1
<1>10. Reassembled(datagrams, count) = PacketHeader(sequence, ack, acks) \o payload
  BY <1>6, <1>9 DEF Reassembled
<1> QED BY <1>2, <1>10

-----------------------------------------------------------------------------
(* The packets that are sent while the window moves on.                    *)

\* Behind a header the bytes of the packet begin.
LEMMA BehindHeader ==
  ASSUME NEW h \in Seq(Cell), NEW p \in Seq(Nat), NEW data, data = h \o p
  PROVE  SubSeq(data, Len(h) + 1, Len(data)) = p
<1>1. p \in Seq(Cell)
  <2>1. Nat \subseteq Cell
    BY DEF Cell
  <2> QED BY <2>1, SeqMonotonic
<1>2. /\ Len(data) = Len(h) + Len(p)
      /\ \A i \in 1 .. Len(p) : data[Len(h) + i] = p[i]
  BY <1>1, Concatenated
<1>3. Len(h) \in Nat /\ Len(p) \in Nat /\ \A i \in 1 .. Len(p) : p[i] \in Nat
  OBVIOUS
<1> DEFINE first == Len(h) + 1
           u == SubSeq(data, first, Len(data))
<1>4. first \in Int /\ Len(data) \in Int /\ Len(data) - first + 1 = Len(p)
  BY <1>2, <1>3
<1>5. \A i \in 1 .. Len(p) : data[first + i - 1] = p[i]
  <2> SUFFICES ASSUME NEW i \in 1 .. Len(p) PROVE data[first + i - 1] = p[i]
    OBVIOUS
  <2>1. first + i - 1 = Len(h) + i
    BY <1>3
  <2> QED BY <1>2, <2>1
<1> HIDE DEF first
<1>6. \A i \in first .. Len(data) : data[i] \in Nat
  <2> SUFFICES ASSUME NEW i \in first .. Len(data) PROVE data[i] \in Nat
    OBVIOUS
  <2>1. i - first + 1 \in 1 .. Len(p) /\ first + (i - first + 1) - 1 = i
    BY <1>4
  <2> QED BY <1>3, <1>5, <2>1
<1>7. /\ u \in Seq(Nat)
      /\ Len(u) = IF first <= Len(data) THEN Len(data) - first + 1 ELSE 0
      /\ \A i \in 1 .. Len(data) - first + 1 : u[i] = data[first + i - 1]
  BY <1>4, <1>6, SubSeqProperties
<1> HIDE DEF u
<1>8. Len(u) = Len(p) /\ \A i \in 1 .. Len(p) : u[i] = p[i]
  <2>1. Len(u) = Len(p)
    BY <1>3, <1>4, <1>7
  <2>2. \A i \in 1 .. Len(p) : u[i] = data[first + i - 1]
    BY <1>4, <1>7
  <2> QED BY <1>5, <2>1, <2>2
<1>9. u = p
  BY <1>7, <1>8, SeqEqual
<1> QED BY <1>9 DEF u, first

\* The ack and the ack bits of a packet.
LEMMA AckTypes ==
  ASSUME RingInv
  PROVE  Ack \in SeqNum /\ Acks \in AckBytes
<1>1. buffer.sequence \in SeqNum
  BY DEF RingInv, TypeOK, Buffer
<1>2. Ack \in SeqNum
  <2>1. buffer.sequence - 1 \in Int
    BY <1>1 DEF SeqNum
  <2> QED BY <2>1, WrapType DEF Ack
<1>3. Acks \in AckBytes
  BY DEF Acks, AckBytes
<1> QED BY <1>2, <1>3

\* The packets that are sent.
LEMMA PayloadTypes ==
  ASSUME NEW n \in Payload
  PROVE  /\ Bytes(n) \in Seq(Nat) /\ Len(Bytes(n)) = n /\ n \in Nat /\ n > 0
         /\ FragmentCount(Bytes(n)) <= MaxFragments
<1>1. n \in Nat /\ n > 0 /\ FragmentCount(Bytes(n)) <= MaxFragments
  BY AckHeaderAssumption
<1>2. \A i \in 1 .. n : i % ByteMod \in Nat
  BY HeaderAssumption
<1> QED BY <1>1, <1>2 DEF Bytes

\* A packet with its header is read as it was meant.
LEMMA WholeReadsBack ==
  ASSUME RingInv, NEW sequence \in SeqNum, NEW n \in Payload
  PROVE  ReadsBack(PacketHeader(sequence, Ack, Acks) \o Bytes(n), sequence, n)
<1> DEFINE h == PacketHeader(sequence, Ack, Acks)
           p == Bytes(n)
           data == h \o p
           read == ReadPacketHeader(data, Len(data))
<1>1. Ack \in SeqNum /\ Acks \in AckBytes /\ p \in Seq(Nat)
  BY AckTypes, PayloadTypes
<1>2. h \in Seq(Cell)
  BY <1>1, HeaderCells
<1>3. Len(data) \in Nat
  <2>1. p \in Seq(Cell)
    <3>1. Nat \subseteq Cell
      BY DEF Cell
    <3> QED BY <1>1, <3>1, SeqMonotonic
  <2> HIDE DEF h, p
  <2> QED BY <1>2, <2>1, Concatenated
<1>4. read = [refused |-> FALSE, sequence |-> sequence, ack |-> Ack, acks |-> Acks,
              bytes   |-> Len(h)]
  <2>1. Datagram(data, sequence, Ack, Acks, p)
    BY DEF Datagram
  <2>2. Len(data) >= Len(data)
    BY <1>3
  <2> HIDE DEF data, p
  <2> QED BY <1>1, <1>3, <2>1, <2>2, HeaderRoundTrip
<1>5. SubSeq(data, Len(h) + 1, Len(data)) = p
  <2> HIDE DEF h, p
  <2> QED BY <1>1, <1>2, BehindHeader
<1>6. /\ ~ read.refused /\ read.sequence = sequence /\ read.ack = Ack /\ read.acks = Acks
      /\ read.bytes = Len(h)
  <2> HIDE DEF read, h
  <2> QED BY <1>4
<1> HIDE DEF h, p, read
<1>7. SubSeq(data, read.bytes + 1, Len(data)) = p
  BY <1>5, <1>6
<1> QED BY <1>6, <1>7 DEF ReadsBack, read, data, h, p

\* What the peer reads of a packet is the sequence, the ack and the ack bits
\* it was sent with, and behind the header the bytes of the packet begin,
\* wherever the window stands (reliable_write_packet_header,
\* reliable_read_packet_header).
THEOREM EndpointHeaderReadBack == Spec => []HeaderReadBack
<1>1. RingInv => HeaderReadBack
  BY WholeReadsBack, AckHeaderAssumption DEF HeaderReadBack
<1> QED BY <1>1, RingStands, PTL

\* A packet taken apart into fragments is put together again as it would have
\* been sent whole, with the acks that were current when it was sent
\* (reliable_read_fragment_header, reliable_store_fragment_data).
THEOREM EndpointFragmentsReadBack == Spec => []FragmentsReadBack
<1>1. ASSUME RingInv PROVE FragmentsReadBack
  <2> SUFFICES ASSUME NEW sequence \in Sent, NEW n \in Payload
               PROVE  LET datagrams == FragmentsOf(sequence, Ack, Acks, Bytes(n))
                          count     == FragmentCount(Bytes(n))
                      IN  /\ \A id \in 0 .. count - 1 : ~ ReadFragment(datagrams[id]).refused
                          /\ ReadsBack(Reassembled(datagrams, count), sequence, n)
    BY DEF FragmentsReadBack
  <2> DEFINE p == Bytes(n)
             datagrams == FragmentsOf(sequence, Ack, Acks, p)
             count == FragmentCount(p)
  <2>1. sequence \in SeqNum
    BY AckHeaderAssumption
  <2>2. /\ Ack \in SeqNum /\ Acks \in AckBytes /\ p \in Seq(Nat)
        /\ Len(p) > 0 /\ FragmentCount(p) <= MaxFragments
    BY <1>1, AckTypes, PayloadTypes
  <2>3. /\ \A id \in 0 .. count - 1 :
             ReadFragment(datagrams[id]) = FragmentRead(id, sequence, Ack, Acks, p)
        /\ Reassembled(datagrams, count) = PacketHeader(sequence, Ack, Acks) \o p
    <3> HIDE DEF p
    <3> QED BY <2>1, <2>2, FragmentRoundTrip
  <2>4. \A id \in 0 .. count - 1 : ~ ReadFragment(datagrams[id]).refused
    <3> SUFFICES ASSUME NEW id \in 0 .. count - 1
                 PROVE  ReadFragment(datagrams[id]).refused = FALSE
      OBVIOUS
    <3>1. ReadFragment(datagrams[id]) = FragmentRead(id, sequence, Ack, Acks, p)
      BY <2>3
    <3> HIDE DEF p, datagrams, count
    <3> QED BY <3>1 DEF FragmentRead
  <2>5. ReadsBack(Reassembled(datagrams, count), sequence, n)
    BY <1>1, <2>1, <2>3, WholeReadsBack
  <2> QED BY <2>4, <2>5
<1> QED BY <1>1, RingStands, PTL

\* Every packet tells the peer, bit by bit, whether the packet that far before
\* the newest one has arrived: of the bits the peer reads, those are set that
\* stand for a number in Held.
AcksHeld ==
  \A sequence \in SeqNum, n \in Payload :
    LET data == PacketHeader(sequence, Ack, Acks) \o Bytes(n)
        read == ReadPacketHeader(data, Len(data))
    IN  \A g \in 1 .. 4, b \in FullByte :
          b \in read.acks[g] <=> top - 1 - ((g - 1) * ByteBits + b) \in Held

\* So it is however often the numbers have wrapped
\* (reliable_sequence_buffer_generate_ack_bits, reliable_write_packet_header,
\* reliable_read_packet_header).
THEOREM PeerReadsHeld == Spec => []AcksHeld
<1>1. ASSUME RingInv PROVE AcksHeld
  <2> SUFFICES ASSUME NEW sequence \in SeqNum, NEW n \in Payload,
                      NEW g \in 1 .. 4, NEW b \in FullByte
               PROVE  LET data == PacketHeader(sequence, Ack, Acks) \o Bytes(n)
                          read == ReadPacketHeader(data, Len(data))
                      IN  b \in read.acks[g]
                            <=> top - 1 - ((g - 1) * ByteBits + b) \in Held
    BY DEF AcksHeld
  <2> DEFINE data == PacketHeader(sequence, Ack, Acks) \o Bytes(n)
             read == ReadPacketHeader(data, Len(data))
             k == (g - 1) * ByteBits + b
  <2>1. read.acks = Acks
    BY <1>1, WholeReadsBack DEF ReadsBack
  <2>2. k \in 0 .. Bits - 1
    <3>1. ByteBits \in Nat /\ ByteBits > 0 /\ b \in 0 .. ByteBits - 1 /\ Bits = 4 * ByteBits
      BY HeaderAssumption, AckHeaderAssumption DEF FullByte
    <3>2. g = 1 \/ g = 2 \/ g = 3 \/ g = 4
      OBVIOUS
    <3> QED BY <3>1, <3>2
  <2> HIDE DEF data, read, k
  <2>3. b \in Acks[g] <=> Wrap(Ack - k) \in AckSet(buffer, Bits)
    BY DEF Acks, k
  <2>4. /\ buffer \in Buffer(Entries) /\ top \in Nat
        /\ Represents(buffer, Entries, top, Held) /\ buffer.sequence = Wrap(top)
    BY <1>1, WindowFacts DEF RingInv, TypeOK, Represents
  <2>5. Ack = Wrap(top - 1)
    <3>1. Wrap(Wrap(top) + (-1)) = Wrap(top + (-1))
      BY <2>4, WrapAdd
    <3>2. Wrap(top) - 1 = Wrap(top) + (-1) /\ top - 1 = top + (-1)
      BY <2>4, WrapType DEF SeqNum
    <3> QED BY <2>4, <3>1, <3>2 DEF Ack
  <2>6. Wrap(Ack - k) = Wrap(top - 1 - k)
    <3>1. Wrap(Wrap(top - 1) + (-k)) = Wrap((top - 1) + (-k))
      BY <2>2, <2>4, WrapAdd
    <3>2. Wrap(top - 1) - k = Wrap(top - 1) + (-k) /\ top - 1 - k = (top - 1) + (-k)
      BY <2>2, <2>4, WindowFacts, WrapType DEF SeqNum
    <3> QED BY <2>5, <3>1, <3>2
  <2>7. Wrap(buffer.sequence - 1 - k) = Wrap(top - 1 - k)
    <3>1. Wrap(Wrap(top) + (-1 - k)) = Wrap(top + (-1 - k))
      BY <2>2, <2>4, WindowFacts, WrapAdd
    <3>2. Wrap(top) - 1 - k = Wrap(top) + (-1 - k) /\ top - 1 - k = top + (-1 - k)
      BY <2>2, <2>4, WindowFacts, WrapType DEF SeqNum
    <3> QED BY <2>4, <3>1, <3>2
  <2>8. Exists(buffer, Wrap(top - 1 - k)) <=> top - 1 - k \in Held
    <3>1. top - 1 - k \in top - Half .. top + Half /\ top \in Int
      BY <2>2, <2>4, WindowFacts
    <3> QED BY <2>4, <3>1, WindowFacts, ExistsInWindow
  <2>9. Wrap(top - 1 - k) \in AckSet(buffer, Bits) <=> Exists(buffer, Wrap(top - 1 - k))
    BY <2>2, <2>7 DEF AckSet
  <2> QED BY <2>1, <2>3, <2>6, <2>8, <2>9 DEF read, data, k
<1> QED BY <1>1, RingStands, PTL
=============================================================================
