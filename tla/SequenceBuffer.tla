--------------------------- MODULE SequenceBuffer ---------------------------
(***************************************************************************)
(* The sequence buffer of reliable.c: a ring of NumEntries slots indexed   *)
(* by a wrapping packet sequence number.  The endpoint keeps three of      *)
(* them: the packets it sent, the packets it received, and the packets it  *)
(* is reassembling.  Sequence numbers are 16 bit in the code (SeqMod =     *)
(* 65536); the modulus is a constant here so that small instances wrap.    *)
(* A buffer is a record: "sequence" is one past the newest number entered, *)
(* "entry" maps each slot to the number stored in it, or to Vacant (the    *)
(* code's 0xFFFFFFFF).  What a slot carries besides its number is kept by  *)
(* the modules that use the buffer.                                        *)
(***************************************************************************)
EXTENDS Integers, FiniteSets

CONSTANT SeqMod    \* 65536: the number of packet sequence numbers

ASSUME SeqModAssumption == SeqMod \in Nat /\ SeqMod > 1 /\ SeqMod % 2 = 0

SeqNum == 0 .. SeqMod - 1
Half   == SeqMod \div 2
Wrap(n) == n % SeqMod

Vacant == -1

Buffer(n) == [sequence: SeqNum, entry: [0 .. n - 1 -> SeqNum \cup {Vacant}]]

NumEntries(b) == Cardinality(DOMAIN b.entry)

\* The serial-number order of reliable_sequence_greater_than.
GreaterThan(s1, s2) == \/ s1 > s2 /\ s1 - s2 <= Half
                       \/ s1 < s2 /\ s2 - s1 > Half

LessThan(s1, s2) == GreaterThan(s2, s1)

EmptyBuffer(n) == [sequence |-> 0, entry |-> [i \in 0 .. n - 1 |-> Vacant]]

\* Mutant of ClearedSlots: finish is not unwrapped past the end of the cycle.
ClearedSlotsNoUnwrap(n, start, finish) ==
  IF finish - start < n THEN {s % n : s \in start .. finish} ELSE 0 .. n - 1

\* Mutant of ClearedSlots: one number too many is removed.
ClearedSlotsEarly(n, start, finish) ==
  LET last == IF finish < start THEN finish + SeqMod ELSE finish
  IN  IF last - start < n THEN {s % n : s \in start - 1 .. last} ELSE 0 .. n - 1

\* The slots that removing the numbers start .. finish vacates.
ClearedSlots(n, start, finish) ==
  LET last == IF finish < start THEN finish + SeqMod ELSE finish
  IN  IF last - start < n THEN {s % n : s \in start .. last} ELSE 0 .. n - 1

RemoveEntries(b, start, finish) ==
  LET cleared == ClearedSlots(NumEntries(b), start, finish)
  IN  [b EXCEPT !.entry = [i \in DOMAIN b.entry |->
                             IF i \in cleared THEN Vacant ELSE b.entry[i]]]

\* Mutant of TestInsert: the oldest number of the window is taken for stale.
TestInsertTight(b, s) == ~ LessThan(s, Wrap(b.sequence + 1 - NumEntries(b)))

\* FALSE for a number that has fallen out of the back of the ring.
TestInsert(b, s) == ~ LessThan(s, Wrap(b.sequence - NumEntries(b)))

\* Mutant of Advance: the next number is stored without wrapping to 16 bits.
AdvanceNoWrap(b, s) ==
  IF GreaterThan(Wrap(s + 1), b.sequence)
  THEN [RemoveEntries(b, b.sequence, s) EXCEPT !.sequence = s + 1]
  ELSE b

Advance(b, s) ==
  IF GreaterThan(Wrap(s + 1), b.sequence)
  THEN [RemoveEntries(b, b.sequence, s) EXCEPT !.sequence = Wrap(s + 1)]
  ELSE b

\* insert() returns NULL on a stale number and leaves the buffer as it was.
Insert(b, s) ==
  IF TestInsert(b, s)
  THEN [Advance(b, s) EXCEPT !.entry[s % NumEntries(b)] = s]
  ELSE b

Remove(b, s) == [b EXCEPT !.entry[s % NumEntries(b)] = Vacant]

Exists(b, s) == b.entry[s % NumEntries(b)] = s

\* Mutant of AckSet: "ack" is one past the newest number, as "sequence" is.
AckSetLate(b, bits) ==
  {s \in {Wrap(b.sequence - i) : i \in 0 .. bits - 1} : Exists(b, s)}

\* Mutant of AckSet: every number is acknowledged, received or not.
AckSetAll(b, bits) == {Wrap(b.sequence - 1 - i) : i \in 0 .. bits - 1}

\* The numbers a packet header sent now acknowledges: "ack" is the newest
\* number received, and bit i of "ack_bits" stands for ack - i.
AckSet(b, bits) ==
  {s \in {Wrap(b.sequence - 1 - i) : i \in 0 .. bits - 1} : Exists(b, s)}
=============================================================================
