------------------------ MODULE SequenceBufferProofs ------------------------
(***************************************************************************)
(* Lemmas about the sequence buffer of reliable.c, for every modulus of    *)
(* the packet numbers and every size of the ring: the arithmetic of        *)
(* wrapping numbers, what each operation leaves in the ring, and how the   *)
(* ring stands for a window of unbounded numbers (Represents).             *)
(***************************************************************************)
EXTENDS SequenceBuffer, FiniteSetTheorems, TLAPS

-----------------------------------------------------------------------------
(* Remainders.                                                             *)

\* Division with a remainder.
LEMMA Division ==
  ASSUME NEW m \in Nat, m > 0, NEW x \in Int
  PROVE  /\ x % m \in 0 .. m - 1 /\ x \div m \in Int
         /\ x = (m * (x \div m)) + (x % m)
  OBVIOUS

\* A number below the modulus is its own remainder.
LEMMA SmallMod ==
  ASSUME NEW m \in Nat, m > 0, NEW x \in 0 .. m - 1
  PROVE  x % m = x
  OBVIOUS

\* A number that lacks less than one modulus.
LEMMA NegativeMod ==
  ASSUME NEW m \in Nat, m > 0, NEW x \in -(m - 1) .. -1
  PROVE  x % m = x + m
  OBVIOUS

\* The remainder is the only one.
LEMMA Remainder ==
  ASSUME NEW m \in Nat, m > 0, NEW q \in Int, NEW r \in 0 .. m - 1
  PROVE  ((m * q) + r) % m = r
<1> DEFINE y == ((m * q) + r) \div m
           z == ((m * q) + r) % m
<1>1. y \in Int /\ z \in 0 .. m - 1 /\ (m * q) + r = (m * y) + z
  OBVIOUS
<1> HIDE DEF y, z
<1>2. m * (q - y) = z - r
  BY <1>1
<1>3. ~ q > y
  <2>1. q > y => m * (q - y) >= m
    BY <1>1
  <2> QED BY <2>1, <1>2, <1>1
<1>4. ~ q < y
  <2>1. q < y => m * (q - y) <= -m
    BY <1>1
  <2> QED BY <2>1, <1>2, <1>1
<1>5. z = r
  BY <1>1, <1>3, <1>4
<1> QED BY <1>5 DEF z

\* A multiple of the modulus does not count.
LEMMA ModShift ==
  ASSUME NEW m \in Nat, m > 0, NEW q \in Int, NEW x \in Int
  PROVE  (x + (m * q)) % m = x % m
<1> DEFINE y == x \div m
           z == x % m
<1>1. y \in Int /\ z \in 0 .. m - 1 /\ x = (m * y) + z
  BY Division
<1> HIDE DEF y, z
<1>2. x + (m * q) = (m * (y + q)) + z
  BY <1>1
<1>3. ((m * (y + q)) + z) % m = z
  BY <1>1, Remainder, y + q \in Int
<1> QED BY <1>2, <1>3 DEF z

\* One modulus more is the same number.
LEMMA ModNext ==
  ASSUME NEW m \in Nat, m > 0, NEW x \in Int
  PROVE  (x + m) % m = x % m
<1> DEFINE y == x \div m
           z == x % m
<1>1. y \in Int /\ z \in 0 .. m - 1 /\ x = (m * y) + z
  BY Division
<1> HIDE DEF y, z
<1>2. y + 1 \in Int /\ x + m = (m * (y + 1)) + z
  BY <1>1
<1>3. ((m * (y + 1)) + z) % m = z
  BY <1>1, <1>2, Remainder
<1> QED BY <1>2, <1>3 DEF z

\* A remainder may be taken before or after a sum.
LEMMA ModAdd ==
  ASSUME NEW m \in Nat, m > 0, NEW x \in Int, NEW y \in Int
  PROVE  ((x % m) + y) % m = (x + y) % m
<1> DEFINE q == x \div m
           z == x % m
<1>1. q \in Int /\ z \in Int /\ x = (m * q) + z
  BY Division
<1> HIDE DEF q, z
<1>2. x + y = (z + y) + (m * q)
  BY <1>1
<1>3. ((z + y) + (m * q)) % m = (z + y) % m
  BY <1>1, ModShift, z + y \in Int
<1> QED BY <1>2, <1>3 DEF z

\* A remainder modulo a multiple of e keeps the remainder modulo e.
LEMMA ModOfMod ==
  ASSUME NEW m \in Nat, m > 0, NEW e \in Nat, e > 0, m % e = 0, NEW x \in Int
  PROVE  (x % m) % e = x % e
<1> DEFINE y == x \div m
           z == x % m
           c == m \div e
<1>1. y \in Int /\ z \in Int /\ x = (m * y) + z
  BY Division
<1>2. c \in Int /\ m = e * c
  BY Division
<1> HIDE DEF y, z, c
<1>3. c * y \in Int /\ x = z + (e * (c * y))
  BY <1>1, <1>2
<1>4. (z + (e * (c * y))) % e = z % e
  BY <1>1, <1>3, ModShift
<1> QED BY <1>3, <1>4 DEF z

\* Two numbers with one remainder are equal or a modulus apart.
LEMMA ModApart ==
  ASSUME NEW m \in Nat, m > 0, NEW x \in Int, NEW y \in Int,
         x % m = y % m, x - y < m, y - x < m
  PROVE  x = y
<1> DEFINE q == x \div m
           z == x % m
           r == y \div m
<1>1. q \in Int /\ z \in Int /\ x = (m * q) + z
  BY Division
<1>2. r \in Int /\ y = (m * r) + z
  BY Division
<1> HIDE DEF q, z, r
<1>3. x - y = m * (q - r)
  BY <1>1, <1>2
<1>4. q <= r
  BY <1>1, <1>2, <1>3
<1>5. q >= r
  BY <1>1, <1>2, <1>3
<1> QED BY <1>1, <1>2, <1>4, <1>5

-----------------------------------------------------------------------------
(* Numbers in their cycle.                                                 *)

\* What is left of a number in the ring's width.
LEMMA WrapType ==
  ASSUME NEW x \in Int
  PROVE  Wrap(x) \in SeqNum
  BY SeqModAssumption DEF Wrap, SeqNum

\* Sums may be wrapped at any point.
LEMMA WrapAdd ==
  ASSUME NEW x \in Int, NEW k \in Int
  PROVE  Wrap(Wrap(x) + k) = Wrap(x + k)
<1>1. SeqMod \in Nat /\ SeqMod > 0
  BY SeqModAssumption
<1>2. ((x % SeqMod) + k) % SeqMod = (x + k) % SeqMod
  BY <1>1, ModAdd
<1> QED BY <1>2 DEF Wrap

\* Numbers less than a cycle apart are told apart.
LEMMA WrapApart ==
  ASSUME NEW x \in Int, NEW y \in Int,
         Wrap(x) = Wrap(y), x - y < SeqMod, y - x < SeqMod
  PROVE  x = y
<1>1. SeqMod \in Nat /\ SeqMod > 0
  BY SeqModAssumption
<1>2. x % SeqMod = y % SeqMod
  BY DEF Wrap
<1> QED BY <1>1, <1>2, ModApart

\* How far apart two wrapped numbers are, less than a cycle from each other.
LEMMA WrapDistance ==
  ASSUME NEW x \in Int, NEW y \in Int, x >= y, x - y < SeqMod
  PROVE  Wrap(x) - Wrap(y) = IF Wrap(x) < Wrap(y) THEN x - y - SeqMod ELSE x - y
<1> DEFINE q == x \div SeqMod
           r == y \div SeqMod
           a == Wrap(x)
           b == Wrap(y)
<1>1. q \in Int /\ a \in 0 .. SeqMod - 1 /\ x = (SeqMod * q) + a
  BY Division, SeqModAssumption DEF Wrap
<1>2. r \in Int /\ b \in 0 .. SeqMod - 1 /\ y = (SeqMod * r) + b
  BY Division, SeqModAssumption DEF Wrap
<1> HIDE DEF q, r, a, b
<1>3. x - y = (SeqMod * (q - r)) + (a - b)
  BY <1>1, <1>2, SeqModAssumption
<1>4. q - r \in {0, 1}
  <2>1. q - r < 0 => SeqMod * (q - r) <= -SeqMod
    BY <1>1, <1>2, SeqModAssumption
  <2>2. q - r > 1 => SeqMod * (q - r) >= 2 * SeqMod
    BY <1>1, <1>2, SeqModAssumption
  <2> QED BY <2>1, <2>2, <1>1, <1>2, <1>3, SeqModAssumption
<1>5. CASE q - r = 0
  BY <1>1, <1>2, <1>3, <1>5, SeqModAssumption DEF a, b
<1>6. CASE q - r = 1
  BY <1>1, <1>2, <1>3, <1>6, SeqModAssumption DEF a, b
<1> QED BY <1>4, <1>5, <1>6

\* The serial-number order is the order of the numbers themselves, as long as
\* they are less than half a cycle apart (reliable_sequence_greater_than).
LEMMA SerialOrder ==
  ASSUME NEW x \in Int, NEW y \in Int, x - y < Half, y - x < Half
  PROVE  GreaterThan(Wrap(x), Wrap(y)) <=> x > y
<1>1. Half \in Nat /\ SeqMod = 2 * Half /\ Half > 0
  BY SeqModAssumption DEF Half
<1>2. Wrap(x) \in 0 .. SeqMod - 1 /\ Wrap(y) \in 0 .. SeqMod - 1
  BY WrapType DEF SeqNum
<1>3. CASE x >= y
  <2>1. Wrap(x) - Wrap(y) = IF Wrap(x) < Wrap(y) THEN x - y - SeqMod ELSE x - y
    BY <1>1, <1>3, WrapDistance
  <2> DEFINE a == Wrap(x)
             b == Wrap(y)
  <2>2. a \in 0 .. SeqMod - 1 /\ b \in 0 .. SeqMod - 1
    BY <1>2
  <2> HIDE DEF a, b
  <2>3. a - b = IF a < b THEN x - y - SeqMod ELSE x - y
    BY <2>1 DEF a, b
  <2>4. ((a > b /\ a - b <= Half) \/ (a < b /\ b - a > Half)) <=> x > y
    BY <2>2, <2>3, <1>1, <1>3
  <2> QED BY <2>4 DEF GreaterThan, a, b
<1>4. CASE x < y
  <2>1. Wrap(y) - Wrap(x) = IF Wrap(y) < Wrap(x) THEN y - x - SeqMod ELSE y - x
    BY <1>1, <1>4, WrapDistance
  <2> QED BY <2>1, <1>1, <1>2, <1>4 DEF GreaterThan
<1> QED BY <1>3, <1>4

-----------------------------------------------------------------------------
(* The ring and its operations.                                            *)

\* The ring has as many slots as its type says, and each number has one.
LEMMA RingSize ==
  ASSUME NEW n \in Nat, n > 0, NEW b \in Buffer(n)
  PROVE  /\ DOMAIN b.entry = 0 .. n - 1
         /\ NumEntries(b) = n
         /\ \A x \in Int : x % n \in 0 .. n - 1
<1>1. DOMAIN b.entry = 0 .. n - 1
  BY DEF Buffer
<1>2. Cardinality(0 .. n - 1) = n
  BY FS_Interval
<1> QED BY <1>1, <1>2 DEF NumEntries

\* An empty ring is a ring.
LEMMA EmptyBufferType ==
  ASSUME NEW n \in Nat
  PROVE  EmptyBuffer(n) \in Buffer(n)
  BY SeqModAssumption DEF EmptyBuffer, Buffer, SeqNum

\* Removing numbers vacates slots and changes nothing else.
LEMMA RemoveEntriesRing ==
  ASSUME NEW n \in Nat, n > 0, NEW b \in Buffer(n), NEW start, NEW finish
  PROVE  /\ RemoveEntries(b, start, finish) \in Buffer(n)
         /\ RemoveEntries(b, start, finish).sequence = b.sequence
         /\ \A i \in 0 .. n - 1 :
              RemoveEntries(b, start, finish).entry[i]
                = IF i \in ClearedSlots(n, start, finish) THEN Vacant ELSE b.entry[i]
<1> DEFINE cleared == ClearedSlots(n, start, finish)
<1>1. DOMAIN b.entry = 0 .. n - 1 /\ NumEntries(b) = n
  BY RingSize
<1>2. RemoveEntries(b, start, finish)
        = [b EXCEPT !.entry = [i \in 0 .. n - 1 |->
                                 IF i \in cleared THEN Vacant ELSE b.entry[i]]]
  BY <1>1 DEF RemoveEntries
<1> HIDE DEF cleared
<1>3. \A i \in 0 .. n - 1 : b.entry[i] \in SeqNum \cup {Vacant}
  BY DEF Buffer
<1>4. [i \in 0 .. n - 1 |-> IF i \in cleared THEN Vacant ELSE b.entry[i]]
        \in [0 .. n - 1 -> SeqNum \cup {Vacant}]
  BY <1>3
<1> QED BY <1>2, <1>4 DEF Buffer, cleared

\* Advancing to a number vacates slots and moves the sequence, or does nothing.
LEMMA AdvanceRing ==
  ASSUME NEW n \in Nat, n > 0, NEW b \in Buffer(n), NEW s \in SeqNum
  PROVE  /\ Advance(b, s) \in Buffer(n)
         /\ Advance(b, s).sequence
              = IF GreaterThan(Wrap(s + 1), b.sequence) THEN Wrap(s + 1) ELSE b.sequence
         /\ \A i \in 0 .. n - 1 :
              Advance(b, s).entry[i]
                = IF /\ GreaterThan(Wrap(s + 1), b.sequence)
                     /\ i \in ClearedSlots(n, b.sequence, s)
                  THEN Vacant ELSE b.entry[i]
<1> DEFINE r == RemoveEntries(b, b.sequence, s)
<1>1. CASE GreaterThan(Wrap(s + 1), b.sequence)
  <2>1. Advance(b, s) = [r EXCEPT !.sequence = Wrap(s + 1)]
    BY <1>1 DEF Advance
  <2>2. /\ r \in Buffer(n)
        /\ \A i \in 0 .. n - 1 :
             r.entry[i] = IF i \in ClearedSlots(n, b.sequence, s)
                          THEN Vacant ELSE b.entry[i]
    BY RemoveEntriesRing
  <2>3. Wrap(s + 1) \in SeqNum
    BY WrapType, s \in Int DEF SeqNum
  <2> HIDE DEF r
  <2>4. Advance(b, s) \in Buffer(n) /\ Advance(b, s).sequence = Wrap(s + 1)
    BY <2>1, <2>2, <2>3 DEF Buffer
  <2>5. Advance(b, s).entry = r.entry
    BY <2>1, <2>2 DEF Buffer
  <2> QED BY <2>2, <2>4, <2>5, <1>1
<1>2. CASE ~ GreaterThan(Wrap(s + 1), b.sequence)
  BY <1>2 DEF Advance
<1> QED BY <1>1, <1>2

\* Inserting a number keeps the ring a ring; the number takes its own slot,
\* and every other slot is as it was or vacant.
LEMMA InsertRing ==
  ASSUME NEW n \in Nat, n > 0, NEW b \in Buffer(n), NEW s \in SeqNum
  PROVE  /\ Insert(b, s) \in Buffer(n)
         /\ ~ TestInsert(b, s) => Insert(b, s) = b
         /\ TestInsert(b, s) =>
              /\ Insert(b, s).sequence = Advance(b, s).sequence
              /\ \A i \in 0 .. n - 1 :
                   Insert(b, s).entry[i] = IF i = s % n THEN s ELSE Advance(b, s).entry[i]
<1> DEFINE a == Advance(b, s)
<1>1. a \in Buffer(n)
  BY AdvanceRing
<1>2. s % n \in 0 .. n - 1 /\ NumEntries(b) = n
  BY RingSize DEF SeqNum
<1> HIDE DEF a
<1>3. CASE TestInsert(b, s)
  <2>1. Insert(b, s) = [a EXCEPT !.entry[s % n] = s]
    BY <1>2, <1>3 DEF Insert, a
  <2> DEFINE e == [a.entry EXCEPT ![s % n] = s]
  <2>2. e \in [0 .. n - 1 -> SeqNum \cup {Vacant}]
    BY <1>1, <1>2 DEF Buffer
  <2>3. \A i \in 0 .. n - 1 : e[i] = IF i = s % n THEN s ELSE a.entry[i]
    BY <1>1, <1>2 DEF Buffer
  <2> HIDE DEF e
  <2>4. Insert(b, s) = [a EXCEPT !.entry = e]
    BY <2>1 DEF e
  <2>5. /\ Insert(b, s) \in Buffer(n)
        /\ Insert(b, s).sequence = a.sequence /\ Insert(b, s).entry = e
    BY <2>2, <2>4, <1>1 DEF Buffer
  <2> QED BY <2>3, <2>5, <1>3 DEF a
<1>4. CASE ~ TestInsert(b, s)
  BY <1>4 DEF Insert
<1> QED BY <1>3, <1>4

\* What a ring holds after an insertion it held before, or was just given.
LEMMA InsertAddsOne ==
  ASSUME NEW n \in Nat, n > 0, NEW b \in Buffer(n), NEW s \in SeqNum, NEW x \in SeqNum,
         Exists(Insert(b, s), x)
  PROVE  Exists(b, x) \/ x = s
<1>1. NumEntries(b) = n /\ NumEntries(Insert(b, s)) = n /\ x % n \in 0 .. n - 1
  BY InsertRing, RingSize DEF SeqNum
<1>2. Insert(b, s).entry[x % n] = x
  BY <1>1 DEF Exists
<1>3. x # Vacant
  BY DEF SeqNum, Vacant
<1>4. CASE TestInsert(b, s)
  <2>1. x = IF x % n = s % n THEN s ELSE Advance(b, s).entry[x % n]
    BY <1>1, <1>2, <1>4, InsertRing
  <2>2. Advance(b, s).entry[x % n] \in {b.entry[x % n], Vacant}
    BY <1>1, AdvanceRing
  <2> QED BY <2>1, <2>2, <1>1, <1>3 DEF Exists
<1>5. CASE ~ TestInsert(b, s)
  BY <1>1, <1>2, <1>5, InsertRing DEF Exists
<1> QED BY <1>4, <1>5

\* A number that is not stale is in the ring once it is inserted.
LEMMA InsertHolds ==
  ASSUME NEW n \in Nat, n > 0, NEW b \in Buffer(n), NEW s \in SeqNum, TestInsert(b, s)
  PROVE  Exists(Insert(b, s), s)
<1>1. NumEntries(Insert(b, s)) = n /\ s % n \in 0 .. n - 1
  BY InsertRing, RingSize DEF SeqNum
<1> QED BY <1>1, InsertRing DEF Exists

\* Removing a number vacates its slot and changes nothing else.
LEMMA RemoveRing ==
  ASSUME NEW n \in Nat, n > 0, NEW b \in Buffer(n), NEW s \in SeqNum
  PROVE  /\ Remove(b, s) \in Buffer(n)
         /\ Remove(b, s).sequence = b.sequence
         /\ \A i \in 0 .. n - 1 :
              Remove(b, s).entry[i] = IF i = s % n THEN Vacant ELSE b.entry[i]
<1>1. NumEntries(b) = n /\ s % n \in 0 .. n - 1
  BY RingSize DEF SeqNum
<1> DEFINE e == [b.entry EXCEPT ![s % n] = Vacant]
<1>2. Remove(b, s) = [b EXCEPT !.entry = e]
  BY <1>1 DEF Remove
<1>3. e \in [0 .. n - 1 -> SeqNum \cup {Vacant}]
  BY <1>1 DEF Buffer
<1>4. \A i \in 0 .. n - 1 : e[i] = IF i = s % n THEN Vacant ELSE b.entry[i]
  BY <1>1 DEF Buffer
<1> HIDE DEF e
<1>5. /\ Remove(b, s) \in Buffer(n)
      /\ Remove(b, s).sequence = b.sequence /\ Remove(b, s).entry = e
  BY <1>2, <1>3 DEF Buffer
<1> QED BY <1>4, <1>5

-----------------------------------------------------------------------------
(* The ring as a window of unbounded numbers.                              *)

\* A size the ring may have: it divides the cycle of the numbers and is less
\* than half of it (reliable.c uses 256 and 64 of 65536).
RingSizes == {n \in Nat : n > 0 /\ SeqMod % n = 0 /\ n < Half}

\* The ring b of n slots stands for the numbers H, the newest being t - 1.
Represents(b, n, t, H) ==
  /\ b.sequence = Wrap(t)
  /\ H \subseteq t - n .. t - 1
  /\ \A h \in H : b.entry[h % n] = Wrap(h)
  /\ \A i \in 0 .. n - 1 :
       b.entry[i] # Vacant => \E h \in H : h % n = i /\ b.entry[i] = Wrap(h)

\* Facts about the sizes of a ring.
LEMMA RingSizeFacts ==
  ASSUME NEW n \in RingSizes
  PROVE  /\ n \in Nat /\ n > 0 /\ n < Half
         /\ Half \in Nat /\ SeqMod = 2 * Half /\ SeqMod \in Nat /\ SeqMod > 0
         /\ \A x \in Int : x % n \in 0 .. n - 1
         /\ \A x \in Int : Wrap(x) % n = x % n
<1>1. /\ n \in Nat /\ n > 0 /\ n < Half /\ SeqMod % n = 0
      /\ Half \in Nat /\ SeqMod = 2 * Half /\ SeqMod \in Nat /\ SeqMod > 0
  BY SeqModAssumption DEF RingSizes, Half
<1>2. ASSUME NEW x \in Int PROVE Wrap(x) % n = x % n
  BY <1>1, ModOfMod DEF Wrap
<1>3. ASSUME NEW x \in Int PROVE x % n \in 0 .. n - 1
  BY <1>1, Division
<1> QED BY <1>1, <1>2, <1>3

\* The slots that advancing from t to s vacates are those of t .. s.
LEMMA ClearedExactly ==
  ASSUME NEW n \in RingSizes, NEW t \in Int, NEW s \in Int, s >= t, s - t < Half,
         NEW i \in 0 .. n - 1
  PROVE  i \in ClearedSlots(n, Wrap(t), Wrap(s)) <=> \E x \in t .. s : x % n = i
<1>1. /\ n \in Nat /\ n > 0 /\ SeqMod \in Nat /\ s - t < SeqMod
      /\ Wrap(t) \in Int /\ Wrap(s) \in Int
  <2>1. n \in Nat /\ n > 0 /\ Half \in Nat /\ SeqMod = 2 * Half /\ SeqMod \in Nat
    BY RingSizeFacts
  <2>2. Wrap(t) \in SeqNum /\ Wrap(s) \in SeqNum
    BY WrapType
  <2> QED BY <2>1, <2>2 DEF SeqNum
<1> DEFINE start == Wrap(t)
           last  == start + (s - t)
<1>2. last = IF Wrap(s) < Wrap(t) THEN Wrap(s) + SeqMod ELSE Wrap(s)
  BY <1>1, WrapDistance
<1>3. ClearedSlots(n, Wrap(t), Wrap(s))
        = IF s - t < n THEN {x % n : x \in start .. last} ELSE 0 .. n - 1
  <2> HIDE DEF last
  <2>1. ClearedSlots(n, Wrap(t), Wrap(s))
          = IF last - start < n THEN {x % n : x \in start .. last} ELSE 0 .. n - 1
    BY <1>2 DEF ClearedSlots
  <2>2. last - start = s - t
    BY <1>1 DEF last
  <2> QED BY <2>1, <2>2
<1>4. ASSUME NEW j \in Int PROVE (start + j) % n = (t + j) % n
  <2>1. start % n = t % n /\ start \in Int
    BY <1>1, RingSizeFacts
  <2>2. ((start % n) + j) % n = (start + j) % n
    BY <1>1, <2>1, ModAdd
  <2>3. ((t % n) + j) % n = (t + j) % n
    BY <1>1, ModAdd
  <2> QED BY <2>1, <2>2, <2>3
<1>5. CASE s - t < n
  <2>1. ASSUME NEW x \in start .. last PROVE \E y \in t .. s : y % n = x % n
    <3>1. t + (x - start) \in t .. s /\ x = start + (x - start) /\ x - start \in Int
      BY <1>1
    <3>2. (start + (x - start)) % n = (t + (x - start)) % n
      BY <1>4, <3>1
    <3> HIDE DEF start
    <3> QED BY <3>1, <3>2
  <2>2. ASSUME NEW y \in t .. s PROVE \E x \in start .. last : x % n = y % n
    <3>1. start + (y - t) \in start .. last /\ y = t + (y - t) /\ y - t \in Int
      BY <1>1
    <3>2. (start + (y - t)) % n = (t + (y - t)) % n
      BY <1>4, <3>1
    <3> HIDE DEF start, last
    <3> QED BY <3>1, <3>2
  <2>3. i \in ClearedSlots(n, Wrap(t), Wrap(s)) <=> \E x \in start .. last : x % n = i
    BY <1>3, <1>5
  <2> HIDE DEF start, last
  <2> QED BY <2>1, <2>2, <2>3
<1>6. CASE s - t >= n
  <2> DEFINE x == t + ((i - t) % n)
  <2>1. (i - t) % n \in 0 .. n - 1
    BY <1>1, Division, i - t \in Int
  <2>2. x \in t .. s
    BY <2>1, <1>1, <1>6
  <2>3. (((i - t) % n) + t) % n = ((i - t) + t) % n
    BY <1>1, ModAdd, i - t \in Int
  <2>4. x % n = i
    <3>1. x = ((i - t) % n) + t /\ (i - t) + t = i
      BY <2>1
    <3>2. i % n = i
      BY <1>1, SmallMod
    <3> HIDE DEF x
    <3> QED BY <2>3, <3>1, <3>2
  <2>5. i \in ClearedSlots(n, Wrap(t), Wrap(s))
    <3>1. ~ (s - t < n)
      BY <1>1, <1>6
    <3> HIDE DEF start, last
    <3> QED BY <1>3, <3>1
  <2> QED BY <2>2, <2>4, <2>5
<1> QED BY <1>1, <1>5, <1>6

\* An empty ring stands for no number.
LEMMA RepresentsNone ==
  ASSUME NEW n \in Nat
  PROVE  Represents(EmptyBuffer(n), n, 0, {})
<1>1. Wrap(0) = 0
  BY SmallMod, SeqModAssumption DEF Wrap
<1> QED BY <1>1 DEF Represents, EmptyBuffer

\* In reach of the window, a number is in the ring if it is one of those the
\* ring stands for (reliable_sequence_buffer_exists).
LEMMA ExistsInWindow ==
  ASSUME NEW n \in RingSizes, NEW b \in Buffer(n), NEW t \in Int, NEW H,
         Represents(b, n, t, H), NEW s \in t - Half .. t + Half
  PROVE  Exists(b, Wrap(s)) <=> s \in H
<1>1. /\ n \in Nat /\ n > 0 /\ n < Half /\ SeqMod = 2 * Half /\ Half \in Nat
      /\ NumEntries(b) = n /\ s % n \in 0 .. n - 1 /\ Wrap(s) % n = s % n
      /\ Wrap(s) # Vacant
  <2>1. /\ n \in Nat /\ n > 0 /\ n < Half /\ SeqMod = 2 * Half /\ Half \in Nat
        /\ \A x \in Int : x % n \in 0 .. n - 1
        /\ \A x \in Int : Wrap(x) % n = x % n
    BY RingSizeFacts
  <2>2. s \in Int
    BY <2>1
  <2>3. NumEntries(b) = n
    BY <2>1, RingSize
  <2>4. Wrap(s) \in SeqNum
    BY <2>2, WrapType
  <2> QED BY <2>1, <2>2, <2>3, <2>4 DEF SeqNum, Vacant
<1>2. Exists(b, Wrap(s)) <=> b.entry[s % n] = Wrap(s)
  BY <1>1 DEF Exists
<1>3. ASSUME b.entry[s % n] = Wrap(s) PROVE s \in H
  <2>1. PICK h \in H : b.entry[s % n] = Wrap(h)
    BY <1>1, <1>3 DEF Represents
  <2>2. h \in t - n .. t - 1
    BY <2>1 DEF Represents
  <2>3. s - h < SeqMod /\ h - s < SeqMod /\ s \in Int /\ h \in Int
    BY <2>2, <1>1
  <2>4. s = h
    BY <2>1, <2>3, <1>3, WrapApart
  <2> QED BY <2>4
<1> QED BY <1>2, <1>3 DEF Represents

\* In reach, a number is refused if it is behind the window
\* (reliable_sequence_buffer_test_insert).
LEMMA TestInsertInWindow ==
  ASSUME NEW n \in RingSizes, NEW b \in Buffer(n), NEW t \in Int, NEW H,
         Represents(b, n, t, H), NEW s \in t - Half .. t + Half - n - 1
  PROVE  TestInsert(b, Wrap(s)) <=> s >= t - n
<1>1. /\ n \in Nat /\ n > 0 /\ n < Half /\ Half \in Nat /\ s \in Int
      /\ NumEntries(b) = n
  <2>1. n \in Nat /\ n > 0 /\ n < Half /\ Half \in Nat
    BY RingSizeFacts
  <2> QED BY <2>1, RingSize
<1>2. Wrap(b.sequence - n) = Wrap(t - n)
  <2>1. b.sequence = Wrap(t) /\ b.sequence - n = b.sequence + (-n) /\ t - n = t + (-n)
    BY <1>1, WrapType DEF Represents, SeqNum
  <2>2. Wrap(Wrap(t) + (-n)) = Wrap(t + (-n))
    BY <1>1, WrapAdd, -n \in Int
  <2> QED BY <2>1, <2>2
<1>3. GreaterThan(Wrap(t - n), Wrap(s)) <=> t - n > s
  BY <1>1, SerialOrder
<1> QED BY <1>1, <1>2, <1>3 DEF TestInsert, LessThan

\* Advancing in reach moves the end of the window past the number, and drops
\* the numbers that fall out of it (reliable_sequence_buffer_advance).
LEMMA AdvanceWindow ==
  ASSUME NEW n \in RingSizes, NEW b \in Buffer(n), NEW t \in Int, NEW H,
         Represents(b, n, t, H), NEW s \in t - Half .. t + Half - n - 1,
         NEW u, u = IF s >= t THEN s + 1 ELSE t
  PROVE  Represents(Advance(b, Wrap(s)), n, u, {h \in H : h >= u - n})
<1> DEFINE a == Advance(b, Wrap(s))
           K == {h \in H : h >= u - n}
<1>1. n \in Nat /\ n > 0 /\ n < Half /\ Half \in Nat /\ s \in Int /\ SeqMod = 2 * Half
  BY RingSizeFacts
<1>2. Wrap(s) \in SeqNum /\ b.sequence = Wrap(t)
  BY <1>1, WrapType DEF Represents
<1>3. GreaterThan(Wrap(Wrap(s) + 1), b.sequence) <=> s >= t
  <2>1. Wrap(Wrap(s) + 1) = Wrap(s + 1)
    BY <1>1, WrapAdd
  <2>2. GreaterThan(Wrap(s + 1), Wrap(t)) <=> s + 1 > t
    BY <1>1, SerialOrder, s + 1 \in Int
  <2> QED BY <2>1, <2>2, <1>1, <1>2
<1>4. ASSUME NEW h \in H PROVE h \in t - n .. t - 1 /\ b.entry[h % n] = Wrap(h)
  BY DEF Represents
<1>5. /\ a.sequence = IF s >= t THEN Wrap(Wrap(s) + 1) ELSE b.sequence
      /\ \A i \in 0 .. n - 1 :
           a.entry[i] = IF s >= t /\ i \in ClearedSlots(n, b.sequence, Wrap(s))
                        THEN Vacant ELSE b.entry[i]
  BY <1>1, <1>2, <1>3, AdvanceRing
<1>6. CASE s >= t
  <2>1. a.sequence = Wrap(u)
    <3>1. Wrap(Wrap(s) + 1) = Wrap(s + 1)
      BY <1>1, WrapAdd
    <3> QED BY <3>1, <1>5, <1>6
  <2>2. K \subseteq u - n .. u - 1
    BY <1>1, <1>4, <1>6
  <2>3. \A i \in 0 .. n - 1 : a.entry[i] = IF \E x \in t .. s : x % n = i
                                           THEN Vacant ELSE b.entry[i]
    <3>1. ASSUME NEW i \in 0 .. n - 1
          PROVE  i \in ClearedSlots(n, b.sequence, Wrap(s)) <=> \E x \in t .. s : x % n = i
      <4>1. s - t < Half /\ s \in Int /\ s >= t
        BY <1>1, <1>6
      <4>2. i \in ClearedSlots(n, Wrap(t), Wrap(s)) <=> \E x \in t .. s : x % n = i
        BY <4>1, ClearedExactly
      <4> QED BY <4>2, <1>2
    <3> QED BY <3>1, <1>5, <1>6
  <2>4. ASSUME NEW h \in K PROVE a.entry[h % n] = Wrap(h)
    <3>1. h \in t - n .. t - 1 /\ h >= s + 1 - n /\ b.entry[h % n] = Wrap(h) /\ h \in Int
      BY <1>1, <1>4, <1>6
    <3>2. ASSUME NEW x \in t .. s, x % n = h % n PROVE FALSE
      <4>1. x \in Int /\ x - h < n /\ h - x < n /\ x # h
        BY <1>1, <3>1
      <4> QED BY <4>1, <3>1, <3>2, <1>1, ModApart
    <3>3. h % n \in 0 .. n - 1
      BY <1>1, <3>1, Division
    <3> HIDE DEF K, a
    <3> QED BY <2>3, <3>1, <3>2, <3>3
  <2>5. ASSUME NEW i \in 0 .. n - 1, a.entry[i] # Vacant
        PROVE  \E h \in K : h % n = i /\ a.entry[i] = Wrap(h)
    <3>1. a.entry[i] = b.entry[i] /\ \A x \in t .. s : x % n # i
      BY <2>3, <2>5
    <3>2. PICK h \in H : h % n = i /\ b.entry[i] = Wrap(h)
      BY <2>5, <3>1 DEF Represents
    <3>3. h \in t - n .. t - 1 /\ h \in Int
      BY <1>1, <1>4
    <3>4. h >= u - n
      <4>1. SUFFICES ASSUME h < u - n PROVE FALSE
        BY <1>1, <1>6, <3>3
      <4>2. h + n \in t .. s
        BY <4>1, <3>3, <1>1, <1>6
      <4>3. (h + n) % n = i
        BY <3>2, <3>3, <1>1, ModNext
      <4> QED BY <4>2, <4>3, <3>1
    <3> HIDE DEF a
    <3> QED BY <3>1, <3>2, <3>4
  <2> HIDE DEF a, K
  <2> QED BY <2>1, <2>2, <2>4, <2>5 DEF Represents, a, K
<1>7. CASE ~ (s >= t)
  <2>1. u = t /\ a.sequence = b.sequence /\ \A i \in 0 .. n - 1 : a.entry[i] = b.entry[i]
    BY <1>5, <1>7
  <2>2. K = H
    BY <2>1, <1>1, <1>4
  <2>3. \A h \in H : h % n \in 0 .. n - 1
    BY <1>1, <1>4, Division
  <2> HIDE DEF a, K
  <2>4. Represents(a, n, t, H)
    BY <2>1, <2>3 DEF Represents
  <2> QED BY <2>1, <2>2, <2>4 DEF a, K
<1> QED BY <1>6, <1>7

\* Inserting in reach adds the number to the window, moved as by advancing
\* (reliable_sequence_buffer_insert).
LEMMA InsertWindow ==
  ASSUME NEW n \in RingSizes, NEW b \in Buffer(n), NEW t \in Int, NEW H,
         Represents(b, n, t, H), NEW s \in t - n .. t + Half - n - 1,
         NEW u, u = IF s >= t THEN s + 1 ELSE t
  PROVE  Represents(Insert(b, Wrap(s)), n, u, {h \in H \cup {s} : h >= u - n})
<1> DEFINE a == Advance(b, Wrap(s))
           c == Insert(b, Wrap(s))
           J == {h \in H : h >= u - n}
           K == {h \in H \cup {s} : h >= u - n}
<1>1. /\ n \in Nat /\ n > 0 /\ n < Half /\ Half \in Nat /\ SeqMod = 2 * Half
      /\ s \in Int /\ s \in t - Half .. t + Half - n - 1 /\ s >= t - n
  BY RingSizeFacts
<1>2. Represents(a, n, u, J)
  BY <1>1, AdvanceWindow
<1>3. TestInsert(b, Wrap(s))
  BY <1>1, TestInsertInWindow
<1>4. Wrap(s) \in SeqNum /\ Wrap(s) # Vacant /\ Wrap(s) % n = s % n /\ s % n \in 0 .. n - 1
  <2>1. Wrap(s) \in SeqNum
    BY <1>1, WrapType
  <2>2. Wrap(s) % n = s % n /\ s % n \in 0 .. n - 1
    BY <1>1, RingSizeFacts
  <2> QED BY <2>1, <2>2 DEF SeqNum, Vacant
<1>5. /\ c.sequence = a.sequence
      /\ \A i \in 0 .. n - 1 : c.entry[i] = IF i = s % n THEN Wrap(s) ELSE a.entry[i]
  BY <1>1, <1>3, <1>4, InsertRing
<1>6. s \in u - n .. u - 1 /\ u \in Int
  BY <1>1
<1>7. K = J \cup {s}
  BY <1>6, <1>1
<1>8. ASSUME NEW h \in J
      PROVE  /\ h \in u - n .. u - 1 /\ h \in Int /\ h % n \in 0 .. n - 1
             /\ a.entry[h % n] = Wrap(h) /\ (h % n = s % n => h = s)
  <2> HIDE DEF J, a
  <2>1. h \in u - n .. u - 1 /\ a.entry[h % n] = Wrap(h)
    BY <1>2 DEF Represents
  <2>2. h \in Int /\ h - s < n /\ s - h < n
    BY <2>1, <1>6, <1>1
  <2> QED BY <2>1, <2>2, <1>1, Division, ModApart
<1> HIDE DEF a, c, J, K
<1>9. K \subseteq u - n .. u - 1
  BY <1>6, <1>7, <1>8
<1>10. \A h \in K : c.entry[h % n] = Wrap(h)
  BY <1>4, <1>5, <1>7, <1>8
<1>11. ASSUME NEW i \in 0 .. n - 1, c.entry[i] # Vacant
       PROVE  \E h \in K : h % n = i /\ c.entry[i] = Wrap(h)
  <2>1. CASE i = s % n
    BY <2>1, <1>5, <1>7
  <2>2. CASE i # s % n
    <3>1. c.entry[i] = a.entry[i]
      BY <2>2, <1>5
    <3>2. \E h \in J : h % n = i /\ a.entry[i] = Wrap(h)
      BY <3>1, <1>11, <1>2 DEF Represents
    <3> QED BY <3>1, <3>2, <1>7
  <2> QED BY <2>1, <2>2
<1>12. c.sequence = Wrap(u)
  BY <1>2, <1>5 DEF Represents
<1>13. Represents(c, n, u, K)
  BY <1>9, <1>10, <1>11, <1>12 DEF Represents
<1> QED BY <1>13 DEF c, K

\* Removing a number the ring holds takes it out of the window.
LEMMA RemoveWindow ==
  ASSUME NEW n \in RingSizes, NEW b \in Buffer(n), NEW t \in Int, NEW H,
         Represents(b, n, t, H), NEW s \in H
  PROVE  Represents(Remove(b, Wrap(s)), n, t, H \ {s})
<1> DEFINE c == Remove(b, Wrap(s))
<1>1. n \in Nat /\ n > 0
  BY RingSizeFacts
<1>2. ASSUME NEW h \in H
      PROVE  /\ h \in t - n .. t - 1 /\ h \in Int /\ h % n \in 0 .. n - 1
             /\ b.entry[h % n] = Wrap(h) /\ (h % n = s % n => h = s)
  <2>1. h \in t - n .. t - 1 /\ s \in t - n .. t - 1 /\ b.entry[h % n] = Wrap(h)
    BY DEF Represents
  <2>2. h \in Int /\ s \in Int /\ h - s < n /\ s - h < n
    BY <2>1, <1>1
  <2> QED BY <2>1, <2>2, <1>1, Division, ModApart
<1>3. Wrap(s) \in SeqNum /\ Wrap(s) % n = s % n
  BY <1>2, WrapType, RingSizeFacts
<1>4. /\ c.sequence = b.sequence
      /\ \A i \in 0 .. n - 1 : c.entry[i] = IF i = s % n THEN Vacant ELSE b.entry[i]
  BY <1>1, <1>3, RemoveRing
<1> HIDE DEF c
<1>5. \A h \in H \ {s} : c.entry[h % n] = Wrap(h)
  BY <1>2, <1>4
<1>6. ASSUME NEW i \in 0 .. n - 1, c.entry[i] # Vacant
      PROVE  \E h \in H \ {s} : h % n = i /\ c.entry[i] = Wrap(h)
  <2>1. i # s % n /\ c.entry[i] = b.entry[i]
    BY <1>4, <1>6
  <2>2. \E h \in H : h % n = i /\ b.entry[i] = Wrap(h)
    BY <2>1, <1>6 DEF Represents
  <2> QED BY <2>1, <2>2
<1>7. c.sequence = Wrap(t) /\ H \ {s} \subseteq t - n .. t - 1
  BY <1>2, <1>4 DEF Represents
<1> QED BY <1>5, <1>6, <1>7 DEF Represents, c
=============================================================================
